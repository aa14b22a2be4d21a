-------------------------------- MODULE Sums --------------------------------
(***************************************************************************)
(* Sums over finite sets.  MapThenSumSet adds up a set one element at a    *)
(* time, in an order that a choice gives; these lemmas say that the order  *)
(* does not matter.  SumOf adds up a function; the lemmas at the end give  *)
(* the sums of the models that form.                                       *)
(***************************************************************************)
EXTENDS Money, FiniteSetTheorems, WellFoundedInduction, TLAPS

\* The element the fold takes next.
Some(s) == CHOOSE x \in s : TRUE

\* g[s] is the sum of f over s, for every part s of S.
IsSum(g, f, S) ==
    g = [s \in SUBSET S |-> IF s = {} THEN 0 ELSE f[Some(s)] + g[s \ {Some(s)}]]

\* The sum of f over S.
SumOf(f, S) == (CHOOSE g : IsSum(g, f, S))[S]

\* It is one of them.
LEMMA SomeIn == ASSUME NEW s, s # {} PROVE Some(s) \in s
BY DEF Some

\* Some number of several is the least.
LEMMA LeastNat ==
    ASSUME NEW S \in SUBSET Nat, S # {}
    PROVE  \E x \in S : \A y \in S : x <= y
<1>1. IsWellFoundedOn(OpToRel(<, Nat), Nat)
    BY NatLessThanWellFounded
<1>2. \E x \in S : \A y \in S : ~(<<y, x>> \in OpToRel(<, Nat))
    <2> HIDE DEF OpToRel
    <2> QED  BY <1>1, WFMin, Zenon
<1>3. PICK x \in S : \A y \in S : ~(<<y, x>> \in OpToRel(<, Nat))
    BY <1>2
<1>4. ASSUME NEW y \in S PROVE x <= y
    <2>1. x \in Nat /\ y \in Nat
        OBVIOUS
    <2>2. ~(y < x)
        BY <1>3, <2>1 DEF OpToRel
    <2> QED  BY <2>1, <2>2
<1> QED  BY <1>4

\* Of the parts of a finite set that fail, one fails whose parts do not.
LEMMA LeastPart ==
    ASSUME NEW S, IsFiniteSet(S), NEW Bad \in SUBSET SUBSET S, Bad # {}
    PROVE  \E T \in Bad : \A R \in SUBSET T : R # T => R \notin Bad
<1> DEFINE N == {Cardinality(T) : T \in Bad}
<1>1. \A T \in SUBSET S : IsFiniteSet(T) /\ Cardinality(T) \in Nat
    BY FS_Subset, FS_CardinalityType
<1>2. N \in SUBSET Nat /\ N # {}
    BY <1>1
<1>3. PICK n \in N : \A m \in N : n <= m
    <2> HIDE DEF N
    <2> QED  BY <1>2, LeastNat
<1>4. PICK T \in Bad : n = Cardinality(T)
    OBVIOUS
<1>5. ASSUME NEW R \in SUBSET T, R # T, R \in Bad PROVE FALSE
    <2>1. Cardinality(R) < Cardinality(T)
        BY <1>1, <1>5, FS_Subset
    <2>2. Cardinality(R) \in N
        BY <1>5
    <2>3. n <= Cardinality(R)
        BY <1>3, <2>2
    <2> QED  BY <1>1, <1>4, <2>1, <2>3
<1> QED  BY <1>5

\* One step of the recursion.
LEMMA SumStep ==
    ASSUME NEW g, NEW f, NEW S, IsSum(g, f, S), NEW s \in SUBSET S
    PROVE  /\ s = {} => g[s] = 0
           /\ s # {} => g[s] = f[Some(s)] + g[s \ {Some(s)}]
BY DEF IsSum

\* Sums over different sets agree where both are defined.
LEMMA SumUnique ==
    ASSUME NEW f, NEW S, IsFiniteSet(S), NEW g, IsSum(g, f, S),
           NEW T, NEW h, IsSum(h, f, T), NEW s \in SUBSET S, s \in SUBSET T
    PROVE  g[s] = h[s]
<1> DEFINE Bad == {r \in SUBSET s : g[r] # h[r]}
<1>1. SUFFICES Bad = {}
    OBVIOUS
<1>2. SUFFICES ASSUME Bad # {} PROVE FALSE
    OBVIOUS
<1>3. IsFiniteSet(s) /\ Bad \in SUBSET SUBSET s
    BY FS_Subset
<1>4. PICK r \in Bad : \A q \in SUBSET r : q # r => q \notin Bad
    <2> HIDE DEF Bad
    <2> QED  BY <1>2, <1>3, LeastPart
<1>5. r \in SUBSET S /\ r \in SUBSET T /\ g[r] # h[r]
    OBVIOUS
<1>6. r # {}
    BY <1>5, SumStep
<1> DEFINE q == r \ {Some(r)}
<1>7. q \in SUBSET r /\ q # r
    BY <1>6, SomeIn
<1>8. g[q] = h[q]
    BY <1>4, <1>7
<1> QED  BY <1>5, <1>6, <1>8, SumStep

\* Every finite set has a sum.
LEMMA SumExists ==
    ASSUME NEW f, NEW S, IsFiniteSet(S)
    PROVE  \E g : IsSum(g, f, S)
<1> DEFINE Bad == {T \in SUBSET S : ~\E g : IsSum(g, f, T)}
<1>1. SUFFICES ASSUME Bad # {} PROVE FALSE
    OBVIOUS
<1>2. PICK T \in Bad : \A R \in SUBSET T : R # T => R \notin Bad
    <2>1. Bad \in SUBSET SUBSET S
        OBVIOUS
    <2> HIDE DEF Bad
    <2> QED  BY <1>1, <2>1, LeastPart
<1>3. T \in SUBSET S /\ ~\E g : IsSum(g, f, T)
    OBVIOUS
<1> DEFINE H(R) == CHOOSE g : IsSum(g, f, R)
           Rest(s) == s \ {Some(s)}
           G == [s \in SUBSET T |-> IF s = {} THEN 0 ELSE f[Some(s)] + H(Rest(s))[Rest(s)]]
<1>4. ASSUME NEW R \in SUBSET T, R # T PROVE IsSum(H(R), f, R) /\ IsFiniteSet(R)
    <2>1. \E g : IsSum(g, f, R)
        BY <1>2, <1>3, <1>4
    <2>2. IsFiniteSet(R)
        BY <1>3, FS_Subset
    <2> QED  BY <2>1, <2>2
<1>5. ASSUME NEW s \in SUBSET T, s # {} PROVE G[Rest(s)] = H(Rest(s))[Rest(s)]
    <2> DEFINE q == Rest(s)
    <2>1. q \in SUBSET T /\ q # T
        BY <1>5, SomeIn
    <2>2. IsSum(H(q), f, q) /\ IsFiniteSet(q)
        BY <1>4, <2>1
    <2>3. CASE q = {}
        <3>1. H(q)[q] = 0
            BY <2>2, <2>3, SumStep
        <3> QED  BY <2>1, <2>3, <3>1
    <2>4. CASE q # {}
        <3> DEFINE r == Rest(q)
        <3>1. r \in SUBSET q /\ r \in SUBSET T /\ r # T
            BY <2>1
        <3>2. H(q)[q] = f[Some(q)] + H(q)[r]
            <4>1. PICK h : h = H(q)
                OBVIOUS
            <4>2. IsSum(h, f, q) /\ r = q \ {Some(q)}
                BY <2>2, <4>1
            <4>3. h[q] = f[Some(q)] + h[r]
                <5> HIDE DEF q, r
                <5> QED  BY <2>4, <4>2, SumStep
            <4> QED  BY <4>1, <4>3
        <3>3. H(q)[r] = H(r)[r]
            <4>1. IsSum(H(r), f, r) /\ IsFiniteSet(r)
                BY <1>4, <3>1
            <4> HIDE DEF H, r, q
            <4> QED  BY <2>2, <3>1, <4>1, SumUnique
        <3>4. G[q] = f[Some(q)] + H(r)[r]
            BY <2>1, <2>4
        <3> QED  BY <3>2, <3>3, <3>4
    <2> QED  BY <2>3, <2>4
<1>6. IsSum(G, f, T)
    <2>1. \A s \in SUBSET T : G[s] = IF s = {} THEN 0 ELSE f[Some(s)] + G[s \ {Some(s)}]
        <3> SUFFICES ASSUME NEW s \in SUBSET T
                     PROVE  G[s] = IF s = {} THEN 0 ELSE f[Some(s)] + G[s \ {Some(s)}]
            OBVIOUS
        <3>1. G[s] = IF s = {} THEN 0 ELSE f[Some(s)] + H(Rest(s))[Rest(s)]
            OBVIOUS
        <3> HIDE DEF G, H
        <3> QED  BY <1>5, <3>1
    <2>2. G = [s \in SUBSET T |-> G[s]]
        OBVIOUS
    <2> HIDE DEF G
    <2>3. G = [s \in SUBSET T |-> IF s = {} THEN 0 ELSE f[Some(s)] + G[s \ {Some(s)}]]
        BY <2>1, <2>2
    <2> QED  BY <2>3 DEF IsSum
<1> QED  BY <1>3, <1>6

-----------------------------------------------------------------------------
\* A sum is that of one element and of the rest.
LEMMA SumRec ==
    ASSUME NEW f, NEW S, IsFiniteSet(S)
    PROVE  /\ S = {} => SumOf(f, S) = 0
           /\ S # {} => SumOf(f, S) = f[Some(S)] + SumOf(f, S \ {Some(S)})
<1>1. PICK g : g = CHOOSE h : IsSum(h, f, S)
    OBVIOUS
<1>2. IsSum(g, f, S) /\ SumOf(f, S) = g[S]
    BY <1>1, SumExists DEF SumOf
<1>3. CASE S = {}
    BY <1>2, <1>3, SumStep
<1>4. CASE S # {}
    <2>1. PICK R : R = S \ {Some(S)}
        OBVIOUS
    <2>2. IsFiniteSet(R) /\ R \in SUBSET S
        BY <2>1, FS_Subset
    <2>3. PICK h : h = CHOOSE k : IsSum(k, f, R)
        OBVIOUS
    <2>4. IsSum(h, f, R) /\ SumOf(f, R) = h[R]
        BY <2>2, <2>3, SumExists DEF SumOf
    <2>5. g[R] = h[R]
        BY <1>2, <2>2, <2>4, SumUnique
    <2>6. g[S] = f[Some(S)] + g[R]
        BY <1>2, <1>4, <2>1, SumStep
    <2> QED  BY <1>2, <1>4, <2>1, <2>4, <2>5, <2>6
<1> QED  BY <1>3, <1>4

\* Sums of integers are integers, and of naturals naturals.
LEMMA SumInt ==
    ASSUME NEW f, NEW S, IsFiniteSet(S), \A x \in S : f[x] \in Int
    PROVE  /\ SumOf(f, S) \in Int
           /\ (\A x \in S : f[x] >= 0) => SumOf(f, S) >= 0
<1> DEFINE Good(R) == /\ SumOf(f, R) \in Int
                      /\ (\A x \in S : f[x] >= 0) => SumOf(f, R) >= 0
           Bad == {R \in SUBSET S : ~Good(R)}
<1>1. SUFFICES ASSUME Bad # {} PROVE FALSE
    <2>1. S \in SUBSET S
        OBVIOUS
    <2> QED  BY <2>1
<1>2. PICK R \in Bad : \A Q \in SUBSET R : Q # R => Q \notin Bad
    <2>1. Bad \in SUBSET SUBSET S
        OBVIOUS
    <2> HIDE DEF Bad
    <2> QED  BY <1>1, <2>1, LeastPart
<1>3. R \in SUBSET S /\ IsFiniteSet(R) /\ ~Good(R)
    BY FS_Subset
<1>4. R # {}
    <2>1. R = {} => SumOf(f, R) = 0
        BY <1>3, SumRec
    <2> QED  BY <1>3, <2>1
<1>5. PICK Q : Q = R \ {Some(R)}
    OBVIOUS
<1>6. Q \in SUBSET R /\ Q # R /\ Some(R) \in S
    BY <1>3, <1>4, <1>5, SomeIn
<1>7. Good(Q)
    BY <1>2, <1>3, <1>6
<1>8. SumOf(f, R) = f[Some(R)] + SumOf(f, Q)
    BY <1>3, <1>4, <1>5, SumRec
<1> QED  BY <1>3, <1>6, <1>7, <1>8

\* Functions with the same values have the same sum.
LEMMA SumSame ==
    ASSUME NEW f, NEW h, NEW S, IsFiniteSet(S), \A x \in S : f[x] = h[x]
    PROVE  SumOf(f, S) = SumOf(h, S)
<1> DEFINE Bad == {R \in SUBSET S : SumOf(f, R) # SumOf(h, R)}
<1>1. SUFFICES ASSUME Bad # {} PROVE FALSE
    <2>1. S \in SUBSET S
        OBVIOUS
    <2> QED  BY <2>1
<1>2. PICK R \in Bad : \A Q \in SUBSET R : Q # R => Q \notin Bad
    <2>1. Bad \in SUBSET SUBSET S
        OBVIOUS
    <2> HIDE DEF Bad
    <2> QED  BY <1>1, <2>1, LeastPart
<1>3. R \in SUBSET S /\ IsFiniteSet(R) /\ SumOf(f, R) # SumOf(h, R)
    BY FS_Subset
<1>4. R # {}
    BY <1>3, SumRec
<1>5. PICK Q : Q = R \ {Some(R)}
    OBVIOUS
<1>6. Q \in SUBSET R /\ Q # R /\ Some(R) \in S
    BY <1>3, <1>4, <1>5, SomeIn
<1>7. SumOf(f, Q) = SumOf(h, Q)
    BY <1>2, <1>3, <1>6
<1>8. /\ SumOf(f, R) = f[Some(R)] + SumOf(f, Q)
      /\ SumOf(h, R) = h[Some(R)] + SumOf(h, Q)
    BY <1>3, <1>4, <1>5, SumRec
<1> QED  BY <1>3, <1>6, <1>7, <1>8

\* Any element may be added last.
LEMMA SumTake ==
    ASSUME NEW f, NEW S, IsFiniteSet(S), \A x \in S : f[x] \in Int, NEW a \in S
    PROVE  SumOf(f, S) = f[a] + SumOf(f, S \ {a})
<1> DEFINE Good(R) == \A x \in R : SumOf(f, R) = f[x] + SumOf(f, R \ {x})
           Bad == {R \in SUBSET S : ~Good(R)}
<1>1. SUFFICES ASSUME Bad # {} PROVE FALSE
    <2>1. S \in SUBSET S
        OBVIOUS
    <2> QED  BY <2>1
<1>2. PICK R \in Bad : \A Q \in SUBSET R : Q # R => Q \notin Bad
    <2>1. Bad \in SUBSET SUBSET S
        OBVIOUS
    <2> HIDE DEF Bad
    <2> QED  BY <1>1, <2>1, LeastPart
<1>3. R \in SUBSET S /\ IsFiniteSet(R)
    BY FS_Subset
<1>4. PICK x \in R : SumOf(f, R) # f[x] + SumOf(f, R \ {x})
    OBVIOUS
<1>5. PICK c, Q, P : c = Some(R) /\ Q = R \ {c} /\ P = Q \ {x}
    OBVIOUS
<1>6. c \in R /\ SumOf(f, R) = f[c] + SumOf(f, Q)
    BY <1>3, <1>4, <1>5, SumRec, SomeIn
<1>7. c # x
    BY <1>4, <1>5, <1>6
<1>8. Q \in SUBSET S /\ Q \in SUBSET R /\ Q # R /\ x \in Q
    BY <1>3, <1>5, <1>6, <1>7
<1>9. SumOf(f, Q) = f[x] + SumOf(f, P)
    <2>1. Q \notin Bad
        BY <1>2, <1>8
    <2> QED  BY <1>5, <1>8, <2>1
<1>10. SumOf(f, R \ {x}) = f[c] + SumOf(f, P)
    <2>1. PICK O : O = R \ {x}
        OBVIOUS
    <2>2. O \in SUBSET S /\ O \in SUBSET R /\ O # R /\ c \in O /\ O \ {c} = P
        BY <1>3, <1>5, <1>6, <1>7, <2>1
    <2>3. O \notin Bad
        BY <1>2, <2>2
    <2>4. SumOf(f, O) = f[c] + SumOf(f, O \ {c})
        BY <2>2, <2>3
    <2> QED  BY <2>1, <2>2, <2>4
<1>11. f[x] \in Int /\ f[c] \in Int /\ SumOf(f, P) \in Int
    <2>1. IsFiniteSet(P) /\ P \in SUBSET S
        BY <1>3, <1>5, FS_Subset
    <2>2. SumOf(f, P) \in Int
        BY <2>1, SumInt
    <2> QED  BY <1>3, <1>6, <2>2
<1> QED  BY <1>4, <1>6, <1>9, <1>10, <1>11

\* The sum over two disjoint sets.
LEMMA SumUnion ==
    ASSUME NEW f, NEW S, IsFiniteSet(S), NEW T, IsFiniteSet(T), S \cap T = {},
           \A x \in S \cup T : f[x] \in Int
    PROVE  SumOf(f, S \cup T) = SumOf(f, S) + SumOf(f, T)
<1> DEFINE Good(R) == SumOf(f, S \cup R) = SumOf(f, S) + SumOf(f, R)
           Bad == {R \in SUBSET T : ~Good(R)}
<1>1. SUFFICES ASSUME Bad # {} PROVE FALSE
    <2>1. T \in SUBSET T
        OBVIOUS
    <2> QED  BY <2>1
<1>2. PICK R \in Bad : \A Q \in SUBSET R : Q # R => Q \notin Bad
    <2>1. Bad \in SUBSET SUBSET T
        OBVIOUS
    <2> HIDE DEF Bad
    <2> QED  BY <1>1, <2>1, LeastPart
<1>3. R \in SUBSET T /\ IsFiniteSet(R) /\ ~Good(R)
    BY FS_Subset
<1>4. SumOf(f, S) \in Int
    BY SumInt
<1>5. R # {}
    <2>1. R = {} => SumOf(f, R) = 0 /\ S \cup R = S
        BY <1>3, SumRec
    <2>2. R = {} => SumOf(f, S \cup R) = SumOf(f, S) /\ SumOf(f, S) = SumOf(f, S) + SumOf(f, R)
        <3> SUFFICES ASSUME R = {} PROVE SumOf(f, S \cup R) = SumOf(f, S)
                                         /\ SumOf(f, S) = SumOf(f, S) + SumOf(f, R)
            OBVIOUS
        <3>1. SumOf(f, R) = 0 /\ S \cup R = S
            BY <2>1
        <3>2. SumOf(f, S) = SumOf(f, S) + SumOf(f, R)
            BY <1>4, <3>1
        <3>3. SumOf(f, S \cup R) = SumOf(f, S)
            BY <3>1
        <3> QED  BY <3>2, <3>3
    <2> QED  BY <1>3, <2>2
<1>6. PICK a, Q, U : a \in R /\ Q = R \ {a} /\ U = S \cup R
    BY <1>5
<1>7. Q \in SUBSET R /\ Q # R /\ Q \in SUBSET T /\ IsFiniteSet(Q)
    BY <1>3, <1>6, FS_Subset
<1>8. Good(Q)
    BY <1>2, <1>7
<1>9. U \ {a} = S \cup Q /\ IsFiniteSet(U) /\ a \in U /\ \A x \in U : f[x] \in Int
    BY <1>3, <1>6, FS_Union
<1>10. SumOf(f, U) = f[a] + SumOf(f, S \cup Q)
    BY <1>9, SumTake
<1>11. SumOf(f, R) = f[a] + SumOf(f, Q)
    BY <1>3, <1>6, SumTake
<1>12. SumOf(f, Q) \in Int /\ f[a] \in Int
    BY <1>6, <1>7, <1>9, SumInt
<1> QED  BY <1>3, <1>4, <1>6, <1>8, <1>10, <1>11, <1>12

\* The sum over what h makes of S, if it makes different things of different
\* elements.
LEMMA SumImage ==
    ASSUME NEW f, NEW h, NEW k, NEW S, IsFiniteSet(S),
           \A x, y \in S : h[x] = h[y] => x = y,
           \A x \in S : k[x] = f[h[x]] /\ k[x] \in Int
    PROVE  SumOf(f, {h[x] : x \in S}) = SumOf(k, S)
<1> DEFINE Image(R) == {h[x] : x \in R}
           Bad == {R \in SUBSET S : SumOf(f, Image(R)) # SumOf(k, R)}
<1>1. SUFFICES ASSUME Bad # {} PROVE FALSE
    <2>1. S \in SUBSET S
        OBVIOUS
    <2> QED  BY <2>1
<1>2. PICK R \in Bad : \A Q \in SUBSET R : Q # R => Q \notin Bad
    <2>1. Bad \in SUBSET SUBSET S
        OBVIOUS
    <2> HIDE DEF Bad
    <2> QED  BY <1>1, <2>1, LeastPart
<1>3. R \in SUBSET S /\ IsFiniteSet(R) /\ SumOf(f, Image(R)) # SumOf(k, R)
    BY FS_Subset
<1>4. R # {}
    <2>1. SumOf(f, {}) = 0 /\ SumOf(k, {}) = 0
        BY SumRec, FS_EmptySet
    <2>2. Image({}) = {}
        OBVIOUS
    <2> QED  BY <1>3, <2>1, <2>2
<1>5. PICK a, Q : a \in R /\ Q = R \ {a}
    BY <1>4
<1>6. Q \in SUBSET R /\ Q # R /\ Q \in SUBSET S
    BY <1>3, <1>5
<1>7. SumOf(f, Image(Q)) = SumOf(k, Q)
    BY <1>2, <1>6
<1>8. /\ h[a] \in Image(R) /\ Image(R) \ {h[a]} = Image(Q)
      /\ \A z \in Image(R) : f[z] \in Int
    BY <1>3, <1>5
<1>9. IsFiniteSet(Image(R))
    <2>1. [x \in R |-> h[x]] \in Surjection(R, Image(R))
        BY DEF Surjection
    <2> HIDE DEF Image
    <2> QED  BY <1>3, <2>1, FS_Surjection
<1>10. SumOf(f, Image(R)) = f[h[a]] + SumOf(f, Image(Q))
    <2> HIDE DEF Image
    <2> QED  BY <1>8, <1>9, SumTake
<1>11. SumOf(k, R) = k[a] + SumOf(k, Q)
    BY <1>3, <1>5, SumTake
<1> QED  BY <1>3, <1>5, <1>7, <1>10, <1>11

\* The sum of zeros.
LEMMA SumZero ==
    ASSUME NEW f, NEW S, IsFiniteSet(S), \A x \in S : f[x] = 0
    PROVE  SumOf(f, S) = 0
<1> DEFINE Bad == {R \in SUBSET S : SumOf(f, R) # 0}
<1>1. SUFFICES ASSUME Bad # {} PROVE FALSE
    <2>1. S \in SUBSET S
        OBVIOUS
    <2> QED  BY <2>1
<1>2. PICK R \in Bad : \A Q \in SUBSET R : Q # R => Q \notin Bad
    <2>1. Bad \in SUBSET SUBSET S
        OBVIOUS
    <2> HIDE DEF Bad
    <2> QED  BY <1>1, <2>1, LeastPart
<1>3. R \in SUBSET S /\ IsFiniteSet(R) /\ SumOf(f, R) # 0
    BY FS_Subset
<1>4. R # {} /\ Some(R) \in S
    BY <1>3, SumRec, SomeIn
<1>5. PICK Q : Q = R \ {Some(R)}
    OBVIOUS
<1>6. Q \in SUBSET R /\ Q # R /\ Q \in SUBSET S
    BY <1>3, <1>4, <1>5, SomeIn
<1>7. SumOf(f, Q) = 0
    BY <1>2, <1>6
<1>8. SumOf(f, R) = f[Some(R)] + SumOf(f, Q)
    BY <1>3, <1>4, <1>5, SumRec
<1> QED  BY <1>3, <1>4, <1>7, <1>8

\* The sum of sums.
LEMMA SumPlus ==
    ASSUME NEW f, NEW g, NEW h, NEW S, IsFiniteSet(S),
           \A x \in S : f[x] \in Int /\ g[x] \in Int /\ h[x] = f[x] + g[x]
    PROVE  SumOf(h, S) = SumOf(f, S) + SumOf(g, S)
<1> DEFINE Bad == {R \in SUBSET S : SumOf(h, R) # SumOf(f, R) + SumOf(g, R)}
<1>1. SUFFICES ASSUME Bad # {} PROVE FALSE
    <2>1. S \in SUBSET S
        OBVIOUS
    <2> QED  BY <2>1
<1>2. PICK R \in Bad : \A Q \in SUBSET R : Q # R => Q \notin Bad
    <2>1. Bad \in SUBSET SUBSET S
        OBVIOUS
    <2> HIDE DEF Bad
    <2> QED  BY <1>1, <2>1, LeastPart
<1>3. R \in SUBSET S /\ IsFiniteSet(R) /\ SumOf(h, R) # SumOf(f, R) + SumOf(g, R)
    BY FS_Subset
<1>4. R # {}
    <2>1. R = {} => SumOf(h, R) = 0 /\ SumOf(f, R) = 0 /\ SumOf(g, R) = 0
        BY <1>3, SumRec
    <2> QED  BY <1>3, <2>1
<1>5. PICK a, Q : a = Some(R) /\ Q = R \ {a}
    OBVIOUS
<1>6. Q \in SUBSET R /\ Q # R /\ Q \in SUBSET S /\ a \in S
    BY <1>3, <1>4, <1>5, SomeIn
<1>7. SumOf(h, Q) = SumOf(f, Q) + SumOf(g, Q)
    BY <1>2, <1>6
<1>8. /\ SumOf(f, R) = f[a] + SumOf(f, Q)
      /\ SumOf(g, R) = g[a] + SumOf(g, Q)
      /\ SumOf(h, R) = h[a] + SumOf(h, Q)
    BY <1>3, <1>4, <1>5, SumRec
<1>9. SumOf(f, Q) \in Int /\ SumOf(g, Q) \in Int
    <2>1. IsFiniteSet(Q)
        BY <1>6, FS_Subset
    <2> QED  BY <1>6, <2>1, SumInt
<1> QED  BY <1>3, <1>6, <1>7, <1>8, <1>9

\* Two sums whose sets and functions differ in one element only.
LEMMA SumMoved ==
    ASSUME NEW f, NEW g, NEW S, IsFiniteSet(S), NEW T, NEW w, S \ {w} = T \ {w},
           \A x \in S : f[x] \in Int, \A x \in T : g[x] \in Int,
           \A x \in S \ {w} : f[x] = g[x]
    PROVE  /\ IsFiniteSet(T) /\ SumOf(f, S) \in Int
           /\ SumOf(g, T) = SumOf(f, S) - (IF w \in S THEN f[w] ELSE 0)
                                        + (IF w \in T THEN g[w] ELSE 0)
<1> DEFINE R == S \ {w}
<1>1. IsFiniteSet(R) /\ \A x \in R : f[x] \in Int /\ g[x] \in Int
    BY FS_Subset
<1>2. IsFiniteSet(T)
    <2>1. T \subseteq R \cup {w}
        OBVIOUS
    <2>2. IsFiniteSet(R \cup {w})
        <3> HIDE DEF R
        <3> QED  BY <1>1, FS_AddElement
    <2> QED  BY <2>1, <2>2, FS_Subset
<1>3. SumOf(f, R) = SumOf(g, R) /\ SumOf(f, R) \in Int
    <2>1. \A x \in R : f[x] = g[x]
        OBVIOUS
    <2> HIDE DEF R
    <2> QED  BY <1>1, <2>1, SumSame, SumInt
<1>4. SumOf(f, S) = SumOf(f, R) + (IF w \in S THEN f[w] ELSE 0)
    <2>1. CASE w \in S
        <3>1. SumOf(f, S) = f[w] + SumOf(f, R)
            BY <2>1, SumTake
        <3>2. f[w] \in Int
            BY <2>1
        <3> HIDE DEF R
        <3> QED  BY <1>3, <2>1, <3>1, <3>2
    <2>2. CASE w \notin S
        <3>1. R = S
            BY <2>2
        <3> HIDE DEF R
        <3> QED  BY <1>3, <2>2, <3>1
    <2> QED  BY <2>1, <2>2
<1>5. SumOf(g, T) = SumOf(g, R) + (IF w \in T THEN g[w] ELSE 0)
    <2>1. CASE w \in T
        <3>1. SumOf(g, T) = g[w] + SumOf(g, T \ {w})
            BY <1>2, <2>1, SumTake
        <3>2. SumOf(g, T \ {w}) = SumOf(g, R)
            OBVIOUS
        <3> HIDE DEF R
        <3> QED  BY <1>3, <2>1, <3>1, <3>2
    <2>2. CASE w \notin T
        <3>1. R = T
            BY <2>2
        <3> HIDE DEF R
        <3> QED  BY <1>3, <2>2, <3>1
    <2> QED  BY <2>1, <2>2
<1>6. SumOf(f, S) \in Int
    BY SumInt
<1>7. w \in S => f[w] \in Int
    OBVIOUS
<1> HIDE DEF R
<1> QED  BY <1>2, <1>3, <1>4, <1>5, <1>6, <1>7

-----------------------------------------------------------------------------
\* The sums of the fields that rows of a ledger have.
LEMMA AvailableSum ==
    ASSUME NEW S, NEW f, \A x \in S : f[x] = x.available
    PROVE  MapThenSumSet(LAMBDA x : x.available, S) = SumOf(f, S)
<1> DEFINE G(g) == g = [s \in SUBSET S |->
                          IF s = {} THEN 0 ELSE Some(s).available + g[s \ {Some(s)}]]
<1>1. MapThenSumSet(LAMBDA x : x.available, S) = (CHOOSE g : G(g))[S]
    BY DEF MapThenSumSet, MapThenFoldSet, Some
<1>2. \A s \in SUBSET S : s # {} => f[Some(s)] = Some(s).available
    BY SomeIn
<1>3. \A g : G(g) <=> IsSum(g, f, S)
    <2> SUFFICES ASSUME NEW g PROVE G(g) <=> IsSum(g, f, S)
        OBVIOUS
    <2>1. [s \in SUBSET S |-> IF s = {} THEN 0 ELSE f[Some(s)] + g[s \ {Some(s)}]] =
          [s \in SUBSET S |-> IF s = {} THEN 0 ELSE Some(s).available + g[s \ {Some(s)}]]
        BY <1>2
    <2> QED  BY <2>1 DEF IsSum
<1> HIDE DEF G
<1>4. (CHOOSE g : G(g)) = (CHOOSE g : IsSum(g, f, S))
    BY <1>3
<1> QED  BY <1>1, <1>4 DEF SumOf

LEMMA ReservedSum ==
    ASSUME NEW S, NEW f, \A x \in S : f[x] = x.reserved
    PROVE  MapThenSumSet(LAMBDA x : x.reserved, S) = SumOf(f, S)
<1> DEFINE G(g) == g = [s \in SUBSET S |->
                          IF s = {} THEN 0 ELSE Some(s).reserved + g[s \ {Some(s)}]]
<1>1. MapThenSumSet(LAMBDA x : x.reserved, S) = (CHOOSE g : G(g))[S]
    BY DEF MapThenSumSet, MapThenFoldSet, Some
<1>2. \A s \in SUBSET S : s # {} => f[Some(s)] = Some(s).reserved
    BY SomeIn
<1>3. \A g : G(g) <=> IsSum(g, f, S)
    <2> SUFFICES ASSUME NEW g PROVE G(g) <=> IsSum(g, f, S)
        OBVIOUS
    <2>1. [s \in SUBSET S |-> IF s = {} THEN 0 ELSE f[Some(s)] + g[s \ {Some(s)}]] =
          [s \in SUBSET S |-> IF s = {} THEN 0 ELSE Some(s).reserved + g[s \ {Some(s)}]]
        BY <1>2
    <2> QED  BY <2>1 DEF IsSum
<1> HIDE DEF G
<1>4. (CHOOSE g : G(g)) = (CHOOSE g : IsSum(g, f, S))
    BY <1>3
<1> QED  BY <1>1, <1>4 DEF SumOf

\* ... of the fields of rows that are looked up in a table g, ...
LEMMA AmountSum ==
    ASSUME NEW g, NEW S, NEW f, \A x \in S : f[x] = g[x].amount
    PROVE  MapThenSumSet(LAMBDA x : g[x].amount, S) = SumOf(f, S)
<1> DEFINE G(h) == h = [s \in SUBSET S |->
                          IF s = {} THEN 0 ELSE g[Some(s)].amount + h[s \ {Some(s)}]]
<1>1. MapThenSumSet(LAMBDA x : g[x].amount, S) = (CHOOSE h : G(h))[S]
    BY DEF MapThenSumSet, MapThenFoldSet, Some
<1>2. \A s \in SUBSET S : s # {} => f[Some(s)] = g[Some(s)].amount
    BY SomeIn
<1>3. \A h : G(h) <=> IsSum(h, f, S)
    <2> SUFFICES ASSUME NEW h PROVE G(h) <=> IsSum(h, f, S)
        OBVIOUS
    <2>1. [s \in SUBSET S |-> IF s = {} THEN 0 ELSE f[Some(s)] + h[s \ {Some(s)}]] =
          [s \in SUBSET S |-> IF s = {} THEN 0 ELSE g[Some(s)].amount + h[s \ {Some(s)}]]
        BY <1>2
    <2> QED  BY <2>1 DEF IsSum
<1> HIDE DEF G
<1>4. (CHOOSE h : G(h)) = (CHOOSE h : IsSum(h, f, S))
    BY <1>3
<1> QED  BY <1>1, <1>4 DEF SumOf

LEMMA UserSum ==
    ASSUME NEW g, NEW S, NEW f, \A x \in S : f[x] = g[x].user
    PROVE  MapThenSumSet(LAMBDA x : g[x].user, S) = SumOf(f, S)
<1> DEFINE G(h) == h = [s \in SUBSET S |->
                          IF s = {} THEN 0 ELSE g[Some(s)].user + h[s \ {Some(s)}]]
<1>1. MapThenSumSet(LAMBDA x : g[x].user, S) = (CHOOSE h : G(h))[S]
    BY DEF MapThenSumSet, MapThenFoldSet, Some
<1>2. \A s \in SUBSET S : s # {} => f[Some(s)] = g[Some(s)].user
    BY SomeIn
<1>3. \A h : G(h) <=> IsSum(h, f, S)
    <2> SUFFICES ASSUME NEW h PROVE G(h) <=> IsSum(h, f, S)
        OBVIOUS
    <2>1. [s \in SUBSET S |-> IF s = {} THEN 0 ELSE f[Some(s)] + h[s \ {Some(s)}]] =
          [s \in SUBSET S |-> IF s = {} THEN 0 ELSE g[Some(s)].user + h[s \ {Some(s)}]]
        BY <1>2
    <2> QED  BY <2>1 DEF IsSum
<1> HIDE DEF G
<1>4. (CHOOSE h : G(h)) = (CHOOSE h : IsSum(h, f, S))
    BY <1>3
<1> QED  BY <1>1, <1>4 DEF SumOf

\* ... and of a function.
LEMMA FunctionSum ==
    ASSUME NEW S, NEW f
    PROVE  MapThenSumSet(LAMBDA x : f[x], S) = SumOf(f, S)
<1>1. MapThenSumSet(LAMBDA x : f[x], S) =
        (CHOOSE g : g = [s \in SUBSET S |->
                           IF s = {} THEN 0 ELSE f[Some(s)] + g[s \ {Some(s)}]])[S]
    BY DEF MapThenSumSet, MapThenFoldSet, Some
<1> QED  BY <1>1 DEF SumOf, IsSum

-----------------------------------------------------------------------------
\* The total of a division is a sum, ...
LEMMA TotalSum == ASSUME NEW f, NEW S PROVE Total(f, S) = SumOf(f, S)
BY FunctionSum DEF Total

\* ... and a number when its parts are.
LEMMA TotalNat ==
    ASSUME NEW f, NEW S, IsFiniteSet(S), \A x \in S : f[x] \in Nat
    PROVE  Total(f, S) \in Nat
<1>1. \A x \in S : f[x] \in Int /\ f[x] >= 0
    OBVIOUS
<1>2. SumOf(f, S) \in Int /\ SumOf(f, S) >= 0
    BY <1>1, SumInt
<1> QED  BY <1>2, TotalSum

\* The proportional parts, added up (allocateNet).
LEMMA ShareSum ==
    ASSUME NEW net, NEW weight, NEW S, NEW f, \A x \in S : f[x] = Share(net, weight, x)
    PROVE  MapThenSumSet(LAMBDA y : Share(net, weight, y), S) = SumOf(f, S)
<1> DEFINE G(g) == g = [s \in SUBSET S |->
                          IF s = {} THEN 0 ELSE Share(net, weight, Some(s)) + g[s \ {Some(s)}]]
<1>1. MapThenSumSet(LAMBDA y : Share(net, weight, y), S) = (CHOOSE g : G(g))[S]
    BY DEF MapThenSumSet, MapThenFoldSet, Some
<1>2. \A s \in SUBSET S : s # {} => f[Some(s)] = Share(net, weight, Some(s))
    BY SomeIn
<1>3. \A g : G(g) <=> IsSum(g, f, S)
    <2> SUFFICES ASSUME NEW g PROVE G(g) <=> IsSum(g, f, S)
        OBVIOUS
    <2>1. [s \in SUBSET S |-> IF s = {} THEN 0 ELSE f[Some(s)] + g[s \ {Some(s)}]] =
          [s \in SUBSET S |-> IF s = {} THEN 0
                              ELSE Share(net, weight, Some(s)) + g[s \ {Some(s)}]]
        BY <1>2
    <2> QED  BY <2>1 DEF IsSum
<1> HIDE DEF G
<1>4. (CHOOSE g : G(g)) = (CHOOSE g : IsSum(g, f, S))
    BY <1>3
<1> QED  BY <1>1, <1>4 DEF SumOf

-----------------------------------------------------------------------------
\* What h sends to u, of S; and what it sends into V.
Slice(h, S, u) == {x \in S : h[x] = u}
Slices(h, S, V) == {x \in S : h[x] \in V}

\* Parts of finite sets are finite, and one more part is disjoint from others.
LEMMA SliceOf ==
    ASSUME NEW h, NEW S, IsFiniteSet(S), NEW V, NEW u \in V
    PROVE  /\ IsFiniteSet(Slice(h, S, u)) /\ IsFiniteSet(Slices(h, S, V))
           /\ IsFiniteSet(Slices(h, S, V \ {u}))
           /\ Slices(h, S, V) = Slices(h, S, V \ {u}) \cup Slice(h, S, u)
           /\ Slices(h, S, V \ {u}) \cap Slice(h, S, u) = {}
BY FS_Subset DEF Slice, Slices

\* A sum is the sum of its parts, whatever it is divided by, ...
LEMMA SumParts ==
    ASSUME NEW f, NEW S, IsFiniteSet(S), \A x \in S : f[x] \in Int,
           NEW U, IsFiniteSet(U), NEW h, \A x \in S : h[x] \in U,
           NEW g, \A u \in U : g[u] = SumOf(f, Slice(h, S, u))
    PROVE  SumOf(f, S) = SumOf(g, U)
<1> DEFINE Good(V) == SumOf(f, Slices(h, S, V)) = SumOf(g, V)
           Bad == {V \in SUBSET U : ~Good(V)}
<1>1. SUFFICES ASSUME Bad # {} PROVE FALSE
    <2>1. U \in SUBSET U /\ Slices(h, S, U) = S
        BY DEF Slices
    <2> QED  BY <2>1
<1>2. PICK V \in Bad : \A Q \in SUBSET V : Q # V => Q \notin Bad
    <2>1. Bad \in SUBSET SUBSET U
        OBVIOUS
    <2> HIDE DEF Bad
    <2> QED  BY <1>1, <2>1, LeastPart
<1>3. V \in SUBSET U /\ IsFiniteSet(V) /\ ~Good(V)
    BY FS_Subset
<1>4. V # {}
    <2>1. V = {} => Slices(h, S, V) = {}
        BY DEF Slices
    <2>2. SumOf(f, {}) = 0 /\ SumOf(g, {}) = 0
        BY FS_EmptySet, SumRec
    <2> QED  BY <1>3, <2>1, <2>2
<1>5. PICK u, Q : u \in V /\ Q = V \ {u}
    BY <1>4
<1>6. Good(Q) /\ u \in U
    <2>1. Q \in SUBSET V /\ Q # V /\ Q \in SUBSET U
        BY <1>3, <1>5
    <2> QED  BY <1>2, <1>3, <1>5, <2>1
<1>7. PICK rest, part : rest = Slices(h, S, Q) /\ part = Slice(h, S, u)
    OBVIOUS
<1>8. /\ IsFiniteSet(part) /\ IsFiniteSet(rest)
      /\ Slices(h, S, V) = rest \cup part /\ rest \cap part = {}
    <2>1. /\ IsFiniteSet(Slice(h, S, u)) /\ IsFiniteSet(Slices(h, S, V \ {u}))
          /\ Slices(h, S, V) = Slices(h, S, V \ {u}) \cup Slice(h, S, u)
          /\ Slices(h, S, V \ {u}) \cap Slice(h, S, u) = {}
        BY <1>5, SliceOf
    <2> QED  BY <1>5, <1>7, <2>1
<1>9. part \subseteq S /\ rest \subseteq S
    BY <1>7 DEF Slice, Slices
<1>10. SumOf(f, Slices(h, S, V)) = SumOf(f, rest) + SumOf(f, part)
    BY <1>8, <1>9, SumUnion
<1>11. \A w \in U : g[w] \in Int
    <2>1. ASSUME NEW w \in U PROVE g[w] \in Int
        <3>1. IsFiniteSet(Slice(h, S, w)) /\ \A x \in Slice(h, S, w) : f[x] \in Int
            BY FS_Subset DEF Slice
        <3>2. SumOf(f, Slice(h, S, w)) \in Int
            BY <3>1, SumInt
        <3> QED  BY <3>2
    <2> QED  BY <2>1
<1>12. SumOf(g, V) = g[u] + SumOf(g, Q)
    BY <1>3, <1>5, <1>11, SumTake
<1>13. g[u] = SumOf(f, part) /\ SumOf(f, rest) = SumOf(g, Q)
    BY <1>6, <1>7
<1>14. SumOf(f, part) \in Int /\ SumOf(f, rest) \in Int
    BY <1>8, <1>9, SumInt
<1> QED  BY <1>3, <1>10, <1>12, <1>13, <1>14

\* ... and so is a number of elements.
LEMMA CountParts ==
    ASSUME NEW S, IsFiniteSet(S), NEW U, IsFiniteSet(U),
           NEW h, \A x \in S : h[x] \in U,
           NEW g, \A u \in U : g[u] = Cardinality(Slice(h, S, u))
    PROVE  Cardinality(S) = SumOf(g, U)
<1> DEFINE Good(V) == Cardinality(Slices(h, S, V)) = SumOf(g, V)
           Bad == {V \in SUBSET U : ~Good(V)}
<1>1. SUFFICES ASSUME Bad # {} PROVE FALSE
    <2>1. U \in SUBSET U /\ Slices(h, S, U) = S
        BY DEF Slices
    <2> QED  BY <2>1
<1>2. PICK V \in Bad : \A Q \in SUBSET V : Q # V => Q \notin Bad
    <2>1. Bad \in SUBSET SUBSET U
        OBVIOUS
    <2> HIDE DEF Bad
    <2> QED  BY <1>1, <2>1, LeastPart
<1>3. V \in SUBSET U /\ IsFiniteSet(V) /\ ~Good(V)
    BY FS_Subset
<1>4. V # {}
    <2>1. V = {} => Slices(h, S, V) = {}
        BY DEF Slices
    <2>2. Cardinality({}) = 0 /\ SumOf(g, {}) = 0
        BY FS_EmptySet, SumRec
    <2> QED  BY <1>3, <2>1, <2>2
<1>5. PICK u, Q : u \in V /\ Q = V \ {u}
    BY <1>4
<1>6. Good(Q) /\ u \in U
    <2>1. Q \in SUBSET V /\ Q # V /\ Q \in SUBSET U
        BY <1>3, <1>5
    <2> QED  BY <1>2, <1>3, <1>5, <2>1
<1>7. PICK rest, part : rest = Slices(h, S, Q) /\ part = Slice(h, S, u)
    OBVIOUS
<1>8. /\ IsFiniteSet(part) /\ IsFiniteSet(rest)
      /\ Slices(h, S, V) = rest \cup part /\ rest \cap part = {}
    <2>1. /\ IsFiniteSet(Slice(h, S, u)) /\ IsFiniteSet(Slices(h, S, V \ {u}))
          /\ Slices(h, S, V) = Slices(h, S, V \ {u}) \cup Slice(h, S, u)
          /\ Slices(h, S, V \ {u}) \cap Slice(h, S, u) = {}
        BY <1>5, SliceOf
    <2> QED  BY <1>5, <1>7, <2>1
<1>9. Cardinality(part) \in Nat /\ Cardinality(rest) \in Nat
    BY <1>8, FS_CardinalityType
<1>10. Cardinality(Slices(h, S, V)) = Cardinality(rest) + Cardinality(part)
    <2>1. Cardinality(rest \cup part) = Cardinality(rest) + Cardinality(part) - Cardinality({})
        BY <1>8, FS_Union
    <2>2. Cardinality({}) = 0
        BY FS_EmptySet
    <2> QED  BY <1>8, <1>9, <2>1, <2>2
<1>11. \A w \in U : g[w] \in Int
    <2>1. ASSUME NEW w \in U PROVE g[w] \in Int
        <3>1. IsFiniteSet(Slice(h, S, w))
            BY FS_Subset DEF Slice
        <3>2. Cardinality(Slice(h, S, w)) \in Nat
            BY <3>1, FS_CardinalityType
        <3> QED  BY <3>2
    <2> QED  BY <2>1
<1>12. SumOf(g, V) = g[u] + SumOf(g, Q)
    BY <1>3, <1>5, <1>11, SumTake
<1>13. g[u] = Cardinality(part) /\ Cardinality(rest) = SumOf(g, Q)
    BY <1>6, <1>7
<1> QED  BY <1>3, <1>9, <1>10, <1>12, <1>13

\* A page with one row of its own for each element has as many rows.
LEMMA CountPage ==
    ASSUME NEW S, IsFiniteSet(S), NEW row, row = [x \in S |-> row[x]],
           \A x, y \in S : row[x] = row[y] => x = y
    PROVE  Cardinality({row[x] : x \in S}) = Cardinality(S)
<1> DEFINE T == {row[x] : x \in S}
<1>1. row \in [S -> T]
    OBVIOUS
<1>2. row \in Bijection(S, T)
    <2>1. \A t \in T : \E x \in S : row[x] = t
        OBVIOUS
    <2> HIDE DEF T
    <2> QED  BY <1>1, <2>1 DEF Bijection, Injection, Surjection, IsInjective
<1> HIDE DEF T
<1>3. ExistsBijection(S, T)
    BY <1>2 DEF ExistsBijection
<1>4. Cardinality(T) = Cardinality(S)
    BY <1>3, FS_Bijection
<1> QED  BY <1>4 DEF T
=============================================================================
