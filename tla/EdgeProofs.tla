------------------------------ MODULE EdgeProofs ------------------------------
(***************************************************************************)
(* What is proved of the device's edges: the allowance of a sender         *)
(* (RateLimits), for any number of senders and of calls that overlap, any  *)
(* limits and any clock; the endpoint in use (Endpoints); the vault file   *)
(* (VaultFile), which opens with what the user was last told, or is        *)
(* damaged and stays so; and the poll of the LoRa gateway (Relay), for any *)
(* number of polls that overlap and any length of the spool.               *)
(*                                                                         *)
(* The first section holds what is known of sums over a finite set: the    *)
(* community modules define them by recursion on the set, and no step of   *)
(* the code does more than change one summand, so a least counterexample   *)
(* is all the induction there is.  The proofs about capacity               *)
(* (ForegroundProofs) use that section as well.                            *)
(***************************************************************************)
EXTENDS RateLimits, Endpoints, VaultFile, Relay, FiniteSetTheorems,
        SequenceTheorems, WellFoundedInduction, TLAPS


-----------------------------------------------------------------------------
(* Sums over a finite set.                                                 *)

AnyOf(T) == CHOOSE x \in T : TRUE
SumRule(it, f, S) == it = [T \in SUBSET S |-> IF T = {} THEN 0 ELSE f[AnyOf(T)] + it[T \ {AnyOf(T)}]]
SumTable(f, S) == CHOOSE it : SumRule(it, f, S)
SumOver(f, S) == SumTable(f, S)[S]

LEMMA AnyIn == ASSUME NEW T, T # {} PROVE AnyOf(T) \in T
  BY DEF AnyOf

LEMMA LeastOfNat == ASSUME NEW S \in SUBSET Nat, S # {}
                    PROVE  \E n \in S : \A m \in S : n <= m
<1>1. PICK n \in S : \A m \in S : ~ (<<m, n>> \in OpToRel(<, Nat))
  BY NatLessThanWellFounded, WFMin
<1>2. \A m, k \in Nat : <<m, k>> \in OpToRel(<, Nat) <=> m < k
  BY DEF OpToRel
<1>3. ASSUME NEW m \in S PROVE n <= m
  <2>1. m \in Nat /\ n \in Nat
    OBVIOUS
  <2>2. ~ (m < n)
    BY <1>2, <1>1, <2>1
  <2>. QED  BY <2>1, <2>2
<1>. QED  BY <1>3

(* A finite set less one of its elements.                                  *)
LEMMA LessAny == ASSUME NEW T, IsFiniteSet(T), T # {}
  PROVE  /\ IsFiniteSet(T \ {AnyOf(T)}) /\ AnyOf(T) \in T
         /\ Cardinality(T) \in Nat /\ Cardinality(T \ {AnyOf(T)}) \in Nat
         /\ Cardinality(T \ {AnyOf(T)}) = Cardinality(T) - 1
<1>1. AnyOf(T) \in T
  BY AnyIn
<1>. QED  BY <1>1, FS_RemoveElement, FS_CardinalityType

(* Right for the subsets of at most n elements.                            *)
RightUpTo(g, f, S, n) ==
    \A T \in SUBSET S : Cardinality(T) <= n =>
       g[T] = IF T = {} THEN 0 ELSE f[AnyOf(T)] + g[T \ {AnyOf(T)}]

LEMMA SumStep ==
    ASSUME NEW S, IsFiniteSet(S), NEW f, \A x \in S : f[x] \in Int,
           NEW n \in Nat, NEW g \in [SUBSET S -> Int], RightUpTo(g, f, S, n)
    PROVE  \E h \in [SUBSET S -> Int] : RightUpTo(h, f, S, n + 1)
<1>. DEFINE h == [T \in SUBSET S |-> IF Cardinality(T) <= n THEN g[T]
                                     ELSE f[AnyOf(T)] + g[T \ {AnyOf(T)}]]
<1>1. \A T \in SUBSET S : IsFiniteSet(T) /\ Cardinality(T) \in Nat
  BY FS_Subset, FS_CardinalityType
<1>2. \A T \in SUBSET S : T # {} => 
         /\ AnyOf(T) \in S /\ T \ {AnyOf(T)} \in SUBSET S
         /\ Cardinality(T \ {AnyOf(T)}) \in Nat
         /\ Cardinality(T \ {AnyOf(T)}) = Cardinality(T) - 1
  BY <1>1, LessAny
<1>3. \A T \in SUBSET S : ~ (Cardinality(T) <= n) => T # {}
  <2>1. Cardinality({}) = 0 /\ 0 <= n
    BY FS_EmptySet
  <2>. QED  BY <2>1
<1>4. h \in [SUBSET S -> Int]
  <2>1. ASSUME NEW T \in SUBSET S PROVE (IF Cardinality(T) <= n THEN g[T] ELSE f[AnyOf(T)] + g[T \ {AnyOf(T)}]) \in Int
    <3>1. CASE Cardinality(T) <= n
      BY <3>1
    <3>2. CASE ~ (Cardinality(T) <= n)
      <4>1. f[AnyOf(T)] \in Int /\ g[T \ {AnyOf(T)}] \in Int
        BY <3>2, <1>2, <1>3
      <4>. QED  BY <3>2, <4>1
    <3>. QED  BY <3>1, <3>2
  <2>. QED  BY <2>1
<1>5. RightUpTo(h, f, S, n + 1)
  <2>1. SUFFICES ASSUME NEW T \in SUBSET S, Cardinality(T) <= n + 1
                 PROVE  h[T] = IF T = {} THEN 0 ELSE f[AnyOf(T)] + h[T \ {AnyOf(T)}]
    BY DEF RightUpTo
  <2>2. CASE T = {}
    <3>1. Cardinality(T) = 0
      BY <2>2, FS_EmptySet
    <3>2. g[T] = 0
      BY <2>2, <3>1 DEF RightUpTo
    <3>. QED  BY <2>2, <3>1, <3>2
  <2>3. CASE T # {}
    <3>1. h[T \ {AnyOf(T)}] = g[T \ {AnyOf(T)}]
      <4>0. Cardinality(T) \in Nat /\ Cardinality(T \ {AnyOf(T)}) = Cardinality(T) - 1
        BY <1>1, <1>2, <2>3
      <4>1. T \ {AnyOf(T)} \in SUBSET S /\ Cardinality(T \ {AnyOf(T)}) <= n
        BY <4>0, <2>1
      <4>. QED  BY <4>1
    <3>2. h[T] = f[AnyOf(T)] + g[T \ {AnyOf(T)}]
      <4>1. CASE Cardinality(T) <= n
        BY <2>3, <4>1 DEF RightUpTo
      <4>2. CASE ~ (Cardinality(T) <= n)
        BY <4>2
      <4>. QED  BY <4>1, <4>2
    <3>. HIDE DEF h
    <3>. QED  BY <2>3, <3>1, <3>2
  <2>. QED  BY <2>2, <2>3
<1>. QED  BY <1>4, <1>5

LEMMA SumTableExists ==
    ASSUME NEW S, IsFiniteSet(S), NEW f, \A x \in S : f[x] \in Int
    PROVE  \E it \in [SUBSET S -> Int] : SumRule(it, f, S)
<1>. DEFINE Reached(n) == \E g \in [SUBSET S -> Int] : RightUpTo(g, f, S, n)
            Missed == {n \in Nat : ~ Reached(n)}
<1>1. \A T \in SUBSET S : IsFiniteSet(T) /\ Cardinality(T) \in Nat /\ Cardinality(T) <= Cardinality(S)
  BY FS_Subset, FS_CardinalityType
<1>2. Reached(0)
  <2>. DEFINE z == [T \in SUBSET S |-> 0]
  <2>1. z \in [SUBSET S -> Int]
    OBVIOUS
  <2>2. RightUpTo(z, f, S, 0)
    <3>1. \A T \in SUBSET S : Cardinality(T) <= 0 => T = {}
      BY <1>1, FS_EmptySet
    <3>. QED  BY <3>1 DEF RightUpTo
  <2>. HIDE DEF z
  <2>. QED  BY <2>1, <2>2
<1>3. \A n \in Nat : Reached(n) => Reached(n + 1)
  BY SumStep
<1>. HIDE DEF Reached
<1>4. Missed = {}
  <2>1. SUFFICES ASSUME Missed # {} PROVE FALSE
    OBVIOUS
  <2>2. PICK n \in Missed : \A m \in Missed : n <= m
    BY <2>1, LeastOfNat
  <2>3. n # 0 /\ n \in Nat
    BY <1>2
  <2>4. n - 1 \in Nat /\ n - 1 \notin Missed
    BY <2>2, <2>3
  <2>. QED  BY <1>3, <2>2, <2>3, <2>4
<1>5. Reached(Cardinality(S))
  BY <1>1, <1>4
<1>6. PICK g \in [SUBSET S -> Int] : RightUpTo(g, f, S, Cardinality(S))
  BY <1>5 DEF Reached
<1>7. SumRule(g, f, S)
  <2>1. \A T \in SUBSET S : g[T] = IF T = {} THEN 0 ELSE f[AnyOf(T)] + g[T \ {AnyOf(T)}]
    BY <1>1, <1>6 DEF RightUpTo
  <2>. QED  BY <2>1 DEF SumRule
<1>. QED  BY <1>7

(* The rule determines the table.                                          *)
LEMMA SumTablesAgree ==
    ASSUME NEW S, IsFiniteSet(S), NEW f, NEW it, SumRule(it, f, S),
           NEW T \in SUBSET S, NEW g, NEW ij, SumRule(ij, g, T),
           \A x \in T : f[x] = g[x]
    PROVE  \A U \in SUBSET T : it[U] = ij[U]
<1>. DEFINE Differ == {n \in Nat : \E U \in SUBSET T : Cardinality(U) = n /\ it[U] # ij[U]}
<1>1. \A U \in SUBSET S : IsFiniteSet(U) /\ Cardinality(U) \in Nat
  BY FS_Subset, FS_CardinalityType
<1>2. Differ = {}
  <2>1. SUFFICES ASSUME Differ # {} PROVE FALSE
    OBVIOUS
  <2>2. PICK n \in Differ : \A m \in Differ : n <= m
    BY <2>1, LeastOfNat
  <2>3. PICK U \in SUBSET T : Cardinality(U) = n /\ it[U] # ij[U]
    BY <2>2
  <2>4. U \in SUBSET S /\ IsFiniteSet(U)
    BY <2>3, <1>1
  <2>5. /\ it[U] = IF U = {} THEN 0 ELSE f[AnyOf(U)] + it[U \ {AnyOf(U)}]
        /\ ij[U] = IF U = {} THEN 0 ELSE g[AnyOf(U)] + ij[U \ {AnyOf(U)}]
    <3>1. it[U] = IF U = {} THEN 0 ELSE f[AnyOf(U)] + it[U \ {AnyOf(U)}]
      BY <2>4 DEF SumRule
    <3>2. ij[U] = IF U = {} THEN 0 ELSE g[AnyOf(U)] + ij[U \ {AnyOf(U)}]
      BY <2>3 DEF SumRule
    <3>. QED  BY <3>1, <3>2
  <2>6. U # {}
    BY <2>3, <2>5
  <2>7. /\ AnyOf(U) \in U /\ U \ {AnyOf(U)} \in SUBSET T
        /\ Cardinality(U \ {AnyOf(U)}) \in Nat /\ Cardinality(U \ {AnyOf(U)}) = n - 1
    BY <2>3, <2>4, <2>6, LessAny
  <2>8. n - 1 \notin Differ
    BY <2>2, <2>7
  <2>9. it[U \ {AnyOf(U)}] = ij[U \ {AnyOf(U)}]
    BY <2>7, <2>8
  <2>. QED  BY <2>3, <2>5, <2>6, <2>7, <2>9
<1>. QED  BY <1>1, <1>2

LEMMA SumTableRight ==
    ASSUME NEW S, IsFiniteSet(S), NEW f, \A x \in S : f[x] \in Int
    PROVE  SumTable(f, S) \in [SUBSET S -> Int] /\ SumRule(SumTable(f, S), f, S)
<1>1. PICK it \in [SUBSET S -> Int] : SumRule(it, f, S)
  BY SumTableExists
<1>2. SumRule(SumTable(f, S), f, S)
  BY <1>1 DEF SumTable
<1>3. \A U \in SUBSET S : it[U] = SumTable(f, S)[U]
  BY <1>1, <1>2, SumTablesAgree
<1>4. SumTable(f, S) = [T \in SUBSET S |-> SumTable(f, S)[T]]
  BY <1>2 DEF SumRule
<1>. QED  BY <1>1, <1>2, <1>3, <1>4

LEMMA SumType ==
    ASSUME NEW S, IsFiniteSet(S), NEW f, \A x \in S : f[x] \in Int
    PROVE  SumOver(f, S) \in Int
  BY SumTableRight DEF SumOver

LEMMA SumEmpty == ASSUME NEW f PROVE SumOver(f, {}) = 0
<1>1. SumRule(SumTable(f, {}), f, {})
  BY SumTableRight, FS_EmptySet
<1>. QED  BY <1>1 DEF SumRule, SumOver

LEMMA SumOfPart ==
    ASSUME NEW S, IsFiniteSet(S), NEW f, \A x \in S : f[x] \in Int, NEW T \in SUBSET S
    PROVE  SumTable(f, S)[T] = SumOver(f, T)
<1>1. IsFiniteSet(T)
  BY FS_Subset
<1>2. SumRule(SumTable(f, S), f, S) /\ SumRule(SumTable(f, T), f, T)
  BY <1>1, SumTableRight
<1>. QED  BY <1>2, SumTablesAgree DEF SumOver

LEMMA SumSame ==
    ASSUME NEW S, IsFiniteSet(S), NEW f, NEW g, \A x \in S : f[x] \in Int /\ f[x] = g[x]
    PROVE  SumOver(f, S) = SumOver(g, S)
<1>1. SumRule(SumTable(f, S), f, S) /\ SumRule(SumTable(g, S), g, S)
  BY SumTableRight
<1>. QED  BY <1>1, SumTablesAgree DEF SumOver

LEMMA SumAny ==
    ASSUME NEW S, IsFiniteSet(S), NEW f, \A x \in S : f[x] \in Int, S # {}
    PROVE  SumOver(f, S) = f[AnyOf(S)] + SumOver(f, S \ {AnyOf(S)})
<1>1. SumRule(SumTable(f, S), f, S)
  BY SumTableRight
<1>2. SumTable(f, S)[S] = f[AnyOf(S)] + SumTable(f, S)[S \ {AnyOf(S)}]
  BY <1>1 DEF SumRule
<1>3. SumTable(f, S)[S \ {AnyOf(S)}] = SumOver(f, S \ {AnyOf(S)})
  BY SumOfPart
<1>. QED  BY <1>2, <1>3 DEF SumOver

(* Any element may be taken out.                                             *)
LEMMA SumRemove ==
    ASSUME NEW S, IsFiniteSet(S), NEW f, \A x \in S : f[x] \in Int, NEW x \in S
    PROVE  SumOver(f, S) = f[x] + SumOver(f, S \ {x})
<1>. DEFINE Odd == {n \in Nat : \E T \in SUBSET S : \E y \in T :
                       Cardinality(T) = n /\ SumOver(f, T) # f[y] + SumOver(f, T \ {y})}
<1>1. \A T \in SUBSET S : IsFiniteSet(T) /\ Cardinality(T) \in Nat
  BY FS_Subset, FS_CardinalityType
<1>2. Odd = {}
  <2>1. SUFFICES ASSUME Odd # {} PROVE FALSE
    OBVIOUS
  <2>2. PICK n \in Odd : \A m \in Odd : n <= m
    BY <2>1, LeastOfNat
  <2>3. PICK T \in SUBSET S : \E y \in T :
           Cardinality(T) = n /\ SumOver(f, T) # f[y] + SumOver(f, T \ {y})
    BY <2>2
  <2>3a. PICK y \in T : Cardinality(T) = n /\ SumOver(f, T) # f[y] + SumOver(f, T \ {y})
    BY <2>3
  <2>. DEFINE a == AnyOf(T)
  <2>4. a \in T /\ IsFiniteSet(T) /\ IsFiniteSet(T \ {a}) /\ IsFiniteSet(T \ {y})
    BY <1>1, LessAny, FS_RemoveElement
  <2>5. SumOver(f, T) = f[a] + SumOver(f, T \ {a})
    BY <2>4, SumAny
  <2>6. a # y
    BY <2>3a, <2>5
  <2>7. /\ Cardinality(T \ {a}) = n - 1 /\ Cardinality(T \ {y}) = n - 1
        /\ n - 1 \in Nat
    BY <2>3a, <2>4, FS_RemoveElement, FS_CardinalityType
  <2>8. n - 1 \notin Odd
    <3>1. n \in Nat
      BY <2>2
    <3>. HIDE DEF Odd
    <3>. QED  BY <2>2, <2>7, <3>1
  <2>9. SumOver(f, T \ {a}) = f[y] + SumOver(f, (T \ {a}) \ {y})
    BY <2>4, <2>6, <2>7, <2>8
  <2>10. SumOver(f, T \ {y}) = f[a] + SumOver(f, (T \ {y}) \ {a})
    BY <2>4, <2>6, <2>7, <2>8
  <2>11. (T \ {y}) \ {a} = (T \ {a}) \ {y}
    OBVIOUS
  <2>12. /\ f[a] \in Int /\ f[y] \in Int
         /\ SumOver(f, (T \ {a}) \ {y}) \in Int
    <3>1. IsFiniteSet((T \ {a}) \ {y})
      BY <2>4, FS_RemoveElement
    <3>. QED  BY <2>4, <3>1, SumType
  <2>13. SumOver(f, T) = f[y] + SumOver(f, T \ {y})
    <3>. DEFINE rest == SumOver(f, (T \ {a}) \ {y})
    <3>1. SumOver(f, T) = f[a] + (f[y] + rest)
      BY <2>5, <2>9
    <3>2. SumOver(f, T \ {y}) = f[a] + rest
      BY <2>10, <2>11
    <3>3. f[a] \in Int /\ f[y] \in Int /\ rest \in Int
      BY <2>12
    <3>. HIDE DEF a, rest
    <3>. QED  BY <3>1, <3>2, <3>3
  <2>. QED  BY <2>3a, <2>13
<1>. QED  BY <1>1, <1>2

LEMMA SumAdd ==
    ASSUME NEW S, IsFiniteSet(S), NEW x, x \notin S, NEW f, \A y \in S \cup {x} : f[y] \in Int
    PROVE  SumOver(f, S \cup {x}) = f[x] + SumOver(f, S)
<1>1. IsFiniteSet(S \cup {x}) /\ (S \cup {x}) \ {x} = S
  BY FS_AddElement
<1>. QED  BY <1>1, SumRemove

LEMMA AsSumFunction == ASSUME NEW f, NEW S PROVE SumFunctionOnSet(f, S) = SumOver(f, S)
  BY DEF SumFunctionOnSet, FoldFunctionOnSet, MapThenFoldSet, SumOver, SumTable, SumRule, AnyOf
LEMMA AsMapThenSum == ASSUME NEW f, NEW S PROVE MapThenSumSet(LAMBDA i : f[i], S) = SumOver(f, S)
  BY DEF MapThenSumSet, MapThenFoldSet, SumOver, SumTable, SumRule, AnyOf

LEMMA SumNat ==
    ASSUME NEW S, IsFiniteSet(S), NEW f, \A x \in S : f[x] \in Nat
    PROVE  SumOver(f, S) \in Nat
<1>. DEFINE Odd == {n \in Nat : \E T \in SUBSET S : Cardinality(T) = n /\ SumOver(f, T) \notin Nat}
<1>1. \A T \in SUBSET S : IsFiniteSet(T) /\ Cardinality(T) \in Nat
  BY FS_Subset, FS_CardinalityType
<1>2. Odd = {}
  <2>1. SUFFICES ASSUME Odd # {} PROVE FALSE
    OBVIOUS
  <2>2. PICK n \in Odd : \A m \in Odd : n <= m
    BY <2>1, LeastOfNat
  <2>3. PICK T \in SUBSET S : Cardinality(T) = n /\ SumOver(f, T) \notin Nat
    BY <2>2
  <2>4. T # {}
    BY <2>3, SumEmpty
  <2>5. /\ AnyOf(T) \in T /\ T \ {AnyOf(T)} \in SUBSET S
        /\ Cardinality(T \ {AnyOf(T)}) \in Nat /\ Cardinality(T \ {AnyOf(T)}) = n - 1
    BY <1>1, <2>3, <2>4, LessAny
  <2>6. n - 1 \notin Odd
    <3>1. n \in Nat
      BY <2>2
    <3>. HIDE DEF Odd
    <3>. QED  BY <2>2, <2>5, <3>1
  <2>7. SumOver(f, T \ {AnyOf(T)}) \in Nat /\ f[AnyOf(T)] \in Nat
    BY <2>5, <2>6
  <2>8. SumOver(f, T) = f[AnyOf(T)] + SumOver(f, T \ {AnyOf(T)})
    BY <1>1, <2>4, SumAny
  <2>. QED  BY <2>3, <2>7, <2>8
<1>. QED  BY <1>1, <1>2

LEMMA SumOfZeros ==
    ASSUME NEW S, IsFiniteSet(S), NEW f, \A x \in S : f[x] = 0
    PROVE  SumOver(f, S) = 0
<1>. DEFINE Odd == {n \in Nat : \E T \in SUBSET S : Cardinality(T) = n /\ SumOver(f, T) # 0}
<1>1. \A T \in SUBSET S : IsFiniteSet(T) /\ Cardinality(T) \in Nat
  BY FS_Subset, FS_CardinalityType
<1>2. Odd = {}
  <2>1. SUFFICES ASSUME Odd # {} PROVE FALSE
    OBVIOUS
  <2>2. PICK n \in Odd : \A m \in Odd : n <= m
    BY <2>1, LeastOfNat
  <2>3. PICK T \in SUBSET S : Cardinality(T) = n /\ SumOver(f, T) # 0
    BY <2>2
  <2>4. T # {}
    BY <2>3, SumEmpty
  <2>5. /\ AnyOf(T) \in T /\ T \ {AnyOf(T)} \in SUBSET S
        /\ Cardinality(T \ {AnyOf(T)}) \in Nat /\ Cardinality(T \ {AnyOf(T)}) = n - 1
    BY <1>1, <2>3, <2>4, LessAny
  <2>6. n - 1 \notin Odd
    <3>1. n \in Nat
      BY <2>2
    <3>. HIDE DEF Odd
    <3>. QED  BY <2>2, <2>5, <3>1
  <2>7. SumOver(f, T \ {AnyOf(T)}) = 0 /\ f[AnyOf(T)] = 0
    BY <2>5, <2>6
  <2>8. SumOver(f, T) = f[AnyOf(T)] + SumOver(f, T \ {AnyOf(T)})
    <3>1. IsFiniteSet(T) /\ \A x \in T : f[x] \in Int
      BY <1>1
    <3>. QED  BY <2>4, <3>1, SumAny
  <2>. QED  BY <2>3, <2>7, <2>8
<1>. QED  BY <1>1, <1>2

(* One value changes.                                                      *)
LEMMA SumUpdate ==
    ASSUME NEW S, IsFiniteSet(S), NEW f, NEW g, \A x \in S : f[x] \in Int /\ g[x] \in Int,
           NEW x \in S, \A y \in S \ {x} : f[y] = g[y]
    PROVE  SumOver(g, S) = SumOver(f, S) - f[x] + g[x]
<1>1. IsFiniteSet(S \ {x})
  BY FS_RemoveElement
<1>2. SumOver(f, S) = f[x] + SumOver(f, S \ {x}) /\ SumOver(g, S) = g[x] + SumOver(g, S \ {x})
  BY SumRemove
<1>3. SumOver(f, S \ {x}) = SumOver(g, S \ {x})
  BY <1>1, SumSame
<1>4. SumOver(f, S \ {x}) \in Int /\ f[x] \in Int /\ g[x] \in Int
  BY <1>1, SumType
<1>. QED  BY <1>2, <1>3, <1>4

(* No value grows.                                                         *)
LEMMA SumAtMost ==
    ASSUME NEW S, IsFiniteSet(S), NEW f, NEW g,
           \A x \in S : f[x] \in Int /\ g[x] \in Int /\ f[x] <= g[x]
    PROVE  SumOver(f, S) <= SumOver(g, S)
<1>. DEFINE Odd == {n \in Nat : \E T \in SUBSET S : Cardinality(T) = n /\ ~ (SumOver(f, T) <= SumOver(g, T))}
<1>1. \A T \in SUBSET S : IsFiniteSet(T) /\ Cardinality(T) \in Nat
  BY FS_Subset, FS_CardinalityType
<1>2. Odd = {}
  <2>1. SUFFICES ASSUME Odd # {} PROVE FALSE
    OBVIOUS
  <2>2. PICK n \in Odd : \A m \in Odd : n <= m
    BY <2>1, LeastOfNat
  <2>3. PICK T \in SUBSET S : Cardinality(T) = n /\ ~ (SumOver(f, T) <= SumOver(g, T))
    BY <2>2
  <2>4. T # {}
    BY <2>3, SumEmpty
  <2>5. /\ AnyOf(T) \in T /\ T \ {AnyOf(T)} \in SUBSET S
        /\ Cardinality(T \ {AnyOf(T)}) \in Nat /\ Cardinality(T \ {AnyOf(T)}) = n - 1
    BY <1>1, <2>3, <2>4, LessAny
  <2>6. n - 1 \notin Odd
    <3>1. n \in Nat
      BY <2>2
    <3>. HIDE DEF Odd
    <3>. QED  BY <2>2, <2>5, <3>1
  <2>7. SumOver(f, T \ {AnyOf(T)}) <= SumOver(g, T \ {AnyOf(T)})
    BY <2>5, <2>6
  <2>8. /\ SumOver(f, T) = f[AnyOf(T)] + SumOver(f, T \ {AnyOf(T)})
        /\ SumOver(g, T) = g[AnyOf(T)] + SumOver(g, T \ {AnyOf(T)})
    BY <1>1, <2>4, SumAny
  <2>9. f[AnyOf(T)] \in Int /\ g[AnyOf(T)] \in Int /\ f[AnyOf(T)] <= g[AnyOf(T)]
    BY <2>5
  <2>10. SumOver(f, T \ {AnyOf(T)}) \in Int /\ SumOver(g, T \ {AnyOf(T)}) \in Int
    BY <1>1, <2>5, SumType
  <2>. QED  BY <2>3, <2>7, <2>8, <2>9, <2>10
<1>. QED  BY <1>1, <1>2

(* Two sets with nothing in common.                                        *)
LEMMA SumUnion ==
    ASSUME NEW S, IsFiniteSet(S), NEW U, IsFiniteSet(U), S \cap U = {},
           NEW f, \A x \in S \cup U : f[x] \in Int
    PROVE  SumOver(f, S \cup U) = SumOver(f, S) + SumOver(f, U)
<1>. DEFINE Odd == {n \in Nat : \E T \in SUBSET S : Cardinality(T) = n
                                   /\ SumOver(f, T \cup U) # SumOver(f, T) + SumOver(f, U)}
<1>1. \A T \in SUBSET S : IsFiniteSet(T) /\ Cardinality(T) \in Nat /\ IsFiniteSet(T \cup U)
  BY FS_Subset, FS_CardinalityType, FS_Union
<1>0. SumOver(f, U) \in Int
  BY SumType
<1>2. Odd = {}
  <2>1. SUFFICES ASSUME Odd # {} PROVE FALSE
    OBVIOUS
  <2>2. PICK n \in Odd : \A m \in Odd : n <= m
    BY <2>1, LeastOfNat
  <2>3. PICK T \in SUBSET S : Cardinality(T) = n /\ SumOver(f, T \cup U) # SumOver(f, T) + SumOver(f, U)
    BY <2>2
  <2>4. T # {}
    <3>1. SUFFICES ASSUME T = {} PROVE FALSE
      OBVIOUS
    <3>2. T \cup U = U /\ SumOver(f, T) = 0
      BY <3>1, SumEmpty
    <3>. QED  BY <1>0, <2>3, <3>2
  <2>5. /\ AnyOf(T) \in T /\ T \ {AnyOf(T)} \in SUBSET S
        /\ Cardinality(T \ {AnyOf(T)}) \in Nat /\ Cardinality(T \ {AnyOf(T)}) = n - 1
    BY <1>1, <2>3, <2>4, LessAny
  <2>. DEFINE a == AnyOf(T)
              V == T \ {a}
  <2>. HIDE DEF a
  <2>d. a \in T /\ a \notin U /\ V \in SUBSET S /\ IsFiniteSet(V \cup U) /\ IsFiniteSet(V)
    BY <1>1, <2>5 DEF a
  <2>6. n - 1 \notin Odd
    <3>1. n \in Nat
      BY <2>2
    <3>. HIDE DEF Odd
    <3>. QED  BY <2>2, <2>5, <3>1
  <2>7. SumOver(f, V \cup U) = SumOver(f, V) + SumOver(f, U)
    BY <2>5, <2>6 DEF a
  <2>8. SumOver(f, T) = f[a] + SumOver(f, V)
    BY <1>1, <2>d, SumRemove
  <2>9. SumOver(f, T \cup U) = f[a] + SumOver(f, V \cup U)
    <3>1. IsFiniteSet(T \cup U) /\ a \in T \cup U /\ \A x \in T \cup U : f[x] \in Int
      BY <1>1, <2>d
    <3>2. (T \cup U) \ {a} = V \cup U
      BY <2>d
    <3>. QED  BY <3>1, <3>2, SumRemove
  <2>10. f[a] \in Int /\ SumOver(f, V) \in Int
    BY <2>d, SumType
  <2>. QED  BY <1>0, <2>3, <2>7, <2>8, <2>9, <2>10
<1>. QED  BY <1>1, <1>2

Shifted(n, i) == {n + k : k \in 1..i}

LEMMA ShiftedGrows ==
    ASSUME NEW n \in Nat, NEW i \in Nat, i # 0
    PROVE  /\ Shifted(n, i) = Shifted(n, i - 1) \cup {n + i} /\ n + i \notin Shifted(n, i - 1)
           /\ IsFiniteSet(Shifted(n, i - 1)) /\ IsFiniteSet(1..(i - 1))
           /\ 1..i = 1..(i - 1) \cup {i} /\ i \notin 1..(i - 1)
<1>1. 1..i = 1..(i - 1) \cup {i} /\ i \notin 1..(i - 1)
  OBVIOUS
<1>2. IsFiniteSet(1..(i - 1))
  BY FS_Interval
<1>3. IsFiniteSet(Shifted(n, i - 1))
  <2>1. Shifted(n, i - 1) \subseteq (n + 1)..(n + i)
    BY DEF Shifted
  <2>2. IsFiniteSet((n + 1)..(n + i))
    BY FS_Interval
  <2>. QED  BY <2>1, <2>2, FS_Subset
<1>4. \A x : x \in Shifted(n, i) <=> x \in Shifted(n, i - 1) \/ x = n + i
  <2>1. \A x : x \in Shifted(n, i) <=> \E k \in 1..i : x = n + k
    BY DEF Shifted
  <2>2. \A x : x \in Shifted(n, i - 1) <=> \E k \in 1..(i - 1) : x = n + k
    BY DEF Shifted
  <2>. QED  BY <1>1, <2>1, <2>2
<1>5. n + i \notin Shifted(n, i - 1)
  BY DEF Shifted
<1>. QED  BY <1>1, <1>2, <1>3, <1>4, <1>5

(* The same values at other places.                                        *)
SameShifted(f, g, n, m) == \A k \in 1..m : f[k] \in Int /\ g[n + k] = f[k]

LEMMA SumShift ==
    ASSUME NEW n \in Nat, NEW m \in Nat, NEW f, NEW g, SameShifted(f, g, n, m)
    PROVE  SumOver(g, Shifted(n, m)) = SumOver(f, 1..m)
<1>. DEFINE Odd == {i \in Nat : i <= m /\ SumOver(g, Shifted(n, i)) # SumOver(f, 1..i)}
<1>1. Odd = {}
  <2>1. SUFFICES ASSUME Odd # {} PROVE FALSE
    OBVIOUS
  <2>2. PICK i \in Odd : \A j \in Odd : i <= j
    BY <2>1, LeastOfNat
  <2>3. i \in Nat /\ i <= m /\ SumOver(g, Shifted(n, i)) # SumOver(f, 1..i)
    BY <2>2
  <2>4. i # 0
    <3>1. SUFFICES ASSUME i = 0 PROVE FALSE
      OBVIOUS
    <3>2. 1..0 = {}
      OBVIOUS
    <3>3. Shifted(n, 0) = {}
      BY <3>2 DEF Shifted
    <3>4. SumOver(g, {}) = 0 /\ SumOver(f, {}) = 0
      BY SumEmpty
    <3>. QED  BY <2>3, <3>1, <3>2, <3>3, <3>4
  <2>5. i - 1 \in Nat /\ i - 1 <= m /\ i - 1 \notin Odd
    BY <2>2, <2>3, <2>4
  <2>6. SumOver(g, Shifted(n, i - 1)) = SumOver(f, 1..(i - 1))
    BY <2>5
  <2>. HIDE DEF Odd
  <2>7. \A k \in 1..i : f[k] \in Int /\ g[n + k] = f[k]
    BY <2>3 DEF SameShifted
  <2>8. SumOver(f, 1..i) = f[i] + SumOver(f, 1..(i - 1))
    <3>1. \A k \in 1..(i - 1) \cup {i} : f[k] \in Int
      BY <2>3, <2>4, <2>7, ShiftedGrows
    <3>2. 1..i = 1..(i - 1) \cup {i} /\ i \notin 1..(i - 1) /\ IsFiniteSet(1..(i - 1))
      BY <2>3, <2>4, ShiftedGrows
    <3>. QED  BY <3>1, <3>2, SumAdd
  <2>9. SumOver(g, Shifted(n, i)) = g[n + i] + SumOver(g, Shifted(n, i - 1))
    <3>1. \A x \in Shifted(n, i) : g[x] \in Int
      BY <2>7 DEF Shifted
    <3>2. \A x \in Shifted(n, i - 1) \cup {n + i} : g[x] \in Int
      BY <2>3, <2>4, <3>1, ShiftedGrows
    <3>3. /\ Shifted(n, i) = Shifted(n, i - 1) \cup {n + i} /\ n + i \notin Shifted(n, i - 1)
          /\ IsFiniteSet(Shifted(n, i - 1))
      BY <2>3, <2>4, ShiftedGrows
    <3>. QED  BY <3>2, <3>3, SumAdd
  <2>10. i \in 1..i
    BY <2>3, <2>4
  <2>. QED  BY <2>3, <2>6, <2>7, <2>8, <2>9, <2>10
<1>2. m \notin Odd
  BY <1>1
<1>. QED  BY <1>2

(* A sum of a field.                                                       *)
LEMMA SumOfCaps == ASSUME NEW s, NEW S
                   PROVE  MapThenSumSet(LAMBDA c : s[c].cap, S) = SumOver([c \in S |-> s[c].cap], S)
<1>. DEFINE f == [c \in S |-> s[c].cap]
<1>1. \A T \in SUBSET S : T # {} => f[AnyOf(T)] = s[AnyOf(T)].cap
  BY AnyIn
<1>2. \A it : SumRule(it, f, S) <=> it = [T \in SUBSET S |-> IF T = {} THEN 0 ELSE s[AnyOf(T)].cap + it[T \ {AnyOf(T)}]]
  <2>. TAKE it
  <2>1. [T \in SUBSET S |-> IF T = {} THEN 0 ELSE f[AnyOf(T)] + it[T \ {AnyOf(T)}]]
        = [T \in SUBSET S |-> IF T = {} THEN 0 ELSE s[AnyOf(T)].cap + it[T \ {AnyOf(T)}]]
    BY <1>1
  <2>. QED  BY <2>1 DEF SumRule
<1>. HIDE DEF f
<1>3. SumTable(f, S) = CHOOSE it : it = [T \in SUBSET S |-> IF T = {} THEN 0 ELSE s[AnyOf(T)].cap + it[T \ {AnyOf(T)}]]
  BY <1>2 DEF SumTable
<1>4. MapThenSumSet(LAMBDA c : s[c].cap, S)
      = (CHOOSE it : it = [T \in SUBSET S |-> IF T = {} THEN 0 ELSE s[AnyOf(T)].cap + it[T \ {AnyOf(T)}]])[S]
  BY DEF MapThenSumSet, MapThenFoldSet, AnyOf
<1>. QED  BY <1>3, <1>4 DEF SumOver, f

-----------------------------------------------------------------------------
(* The rate limits.                                                        *)

USE RateLimitAssumption

Since(w, t) == IF w > t THEN w - t ELSE 0

BucketRecords == [kept : BOOLEAN, tokens : Nat, at : Nat]

(* What a bucket would hold at this time; one not yet written is full.     *)
Holds(k, rate, w) ==
    IF ~k.kept \/ rate <= k.tokens + Since(w, k.at) * (rate \div 2) THEN rate
    ELSE k.tokens + Since(w, k.at) * (rate \div 2)

OthersIn(U) == IF U = {} THEN 0 ELSE Cardinality(U) - 1

(* The account of one bucket: P messages have passed or are paid for, the  *)
(* calls of U are still to pay, each as of the time t it began, and held   *)
(* is what a call will pay from. Whoever is alone is exact; for the others *)
(* the allowance has been raised by a burst and one.                       *)
Within(P, U, k, rate, held, t, w, most) ==
    /\ P + OthersIn(U) + Holds(k, rate, w) <= most
    /\ \A p \in U :
          \/ P + OthersIn(U) + rate + Since(w, t[p]) * (rate \div 2) <= most
          \/ U = {p} /\ P + held[p] + Since(w, t[p]) * (rate \div 2) <= most

(* An account of an existing bucket and calls of known holdings.           *)
Account(P, U, k, rate, held, t, w, most) ==
    /\ P \in Nat /\ IsFiniteSet(U) /\ k \in BucketRecords /\ rate \in Nat /\ w \in Nat /\ most \in Nat
    /\ \A p \in U : held[p] \in Nat /\ t[p] \in Nat
    /\ Within(P, U, k, rate, held, t, w, most)

LEMMA SinceIsNat == ASSUME NEW w \in Nat, NEW t \in Nat PROVE Since(w, t) \in Nat
  BY DEF Since

LEMMA HalfIsNat == ASSUME NEW rate \in Nat PROVE rate \div 2 \in Nat
  OBVIOUS

LEMMA TimesIsNat == ASSUME NEW a \in Nat, NEW b \in Nat PROVE a * b \in Nat
  OBVIOUS

LEMMA TimesMonotone == ASSUME NEW a \in Nat, NEW b \in Nat, NEW c \in Nat, a <= b
                       PROVE  a * c <= b * c
<1>1. PICK d \in Nat : b = a + d
  <2>1. b - a \in Nat /\ b = a + (b - a)
    OBVIOUS
  <2>. QED  BY <2>1
<1>2. b * c = a * c + d * c
  BY <1>1
<1>3. a * c \in Nat /\ d * c \in Nat
  BY TimesIsNat
<1>. QED  BY <1>2, <1>3

LEMMA TimesNext == ASSUME NEW a \in Nat, NEW c \in Nat PROVE (a + 1) * c = a * c + c
  OBVIOUS

LEMMA SinceTick == ASSUME NEW w \in Nat, NEW t \in Nat
                   PROVE  Since(w + 1, t) <= Since(w, t) + 1
  BY DEF Since

LEMMA SinceBack == ASSUME NEW w \in Nat, NEW v \in Nat, v <= w, NEW t \in Nat
                   PROVE  Since(v, t) <= Since(w, t)
  BY DEF Since

(* The time since, in tokens.                                              *)
LEMMA Gained ==
    ASSUME NEW w \in Nat, NEW t \in Nat, NEW rate \in Nat
    PROVE  /\ rate \div 2 \in Nat
           /\ Since(w, t) * (rate \div 2) \in Nat
           /\ Since(w + 1, t) * (rate \div 2) \in Nat
           /\ Since(w + 1, t) * (rate \div 2) <= Since(w, t) * (rate \div 2) + (rate \div 2)
           /\ \A v \in Nat : v <= w => Since(v, t) * (rate \div 2) <= Since(w, t) * (rate \div 2)
<1>1. rate \div 2 \in Nat
  BY HalfIsNat
<1>2. Since(w, t) \in Nat /\ Since(w + 1, t) \in Nat /\ Since(w, t) + 1 \in Nat
  <2>1. w + 1 \in Nat
    OBVIOUS
  <2>2. Since(w, t) \in Nat /\ Since(w + 1, t) \in Nat
    BY <2>1, SinceIsNat
  <2>. QED  BY <2>2
<1>. DEFINE h == rate \div 2
<1>3. h \in Nat
  BY <1>1
<1>. HIDE DEF h
<1>4. Since(w, t) * h \in Nat /\ Since(w + 1, t) * h \in Nat
  BY <1>2, <1>3, TimesIsNat
<1>5. Since(w + 1, t) * h <= (Since(w, t) + 1) * h
  BY <1>2, <1>3, SinceTick, TimesMonotone
<1>6. (Since(w, t) + 1) * h = Since(w, t) * h + h
  BY <1>2, <1>3, TimesNext
<1>7. ASSUME NEW v \in Nat, v <= w PROVE Since(v, t) * h <= Since(w, t) * h
  <2>1. Since(v, t) \in Nat /\ Since(v, t) <= Since(w, t)
    BY <1>7, SinceIsNat, SinceBack
  <2>. QED  BY <2>1, <1>2, <1>3, TimesMonotone
<1>8. Since(w + 1, t) * h <= Since(w, t) * h + h
  BY <1>5, <1>6
<1>9. \A v \in Nat : v <= w => Since(v, t) * h <= Since(w, t) * h
  BY <1>7
<1>. QED  BY <1>1, <1>4, <1>8, <1>9 DEF h

LEMMA HoldsFacts ==
    ASSUME NEW k \in BucketRecords, NEW rate \in Nat, NEW w \in Nat
    PROVE  /\ Holds(k, rate, w) \in Nat /\ Holds(k, rate, w) <= rate
           /\ Holds(k, rate, w + 1) <= Holds(k, rate, w) + (rate \div 2)
           /\ \A v \in Nat : v <= w => Holds(k, rate, v) <= Holds(k, rate, w)
<1>1. k.tokens \in Nat /\ k.at \in Nat
  BY DEF BucketRecords
<1>. DEFINE g(v) == Since(v, k.at) * (rate \div 2)
<1>2. /\ rate \div 2 \in Nat /\ g(w) \in Nat /\ g(w + 1) \in Nat /\ g(w + 1) <= g(w) + (rate \div 2)
      /\ \A v \in Nat : v <= w => g(v) <= g(w)
  BY <1>1, Gained
<1>3. \A v \in Nat : g(v) \in Nat
  BY <1>1, Gained
<1>4. \A v : Holds(k, rate, v) = IF ~k.kept \/ rate <= k.tokens + g(v) THEN rate ELSE k.tokens + g(v)
  BY DEF Holds
<1>. HIDE DEF g
<1>5. Holds(k, rate, w) \in Nat /\ Holds(k, rate, w) <= rate
  BY <1>1, <1>2, <1>4
<1>6. Holds(k, rate, w + 1) <= Holds(k, rate, w) + (rate \div 2)
  BY <1>1, <1>2, <1>4
<1>7. ASSUME NEW v \in Nat, v <= w PROVE Holds(k, rate, v) <= Holds(k, rate, w)
  <2>1. g(v) \in Nat /\ g(v) <= g(w)
    BY <1>2, <1>3, <1>7
  <2>. QED  BY <2>1, <1>1, <1>2, <1>4
<1>. QED  BY <1>5, <1>6, <1>7

LEMMA OthersAlone == ASSUME NEW p PROVE OthersIn({p}) = 0
<1>1. Cardinality({p}) = 1 /\ {p} # {}
  BY FS_Singleton
<1>. QED  BY <1>1 DEF OthersIn

LEMMA OthersFacts ==
    ASSUME NEW U, IsFiniteSet(U)
    PROVE  /\ OthersIn(U) \in Nat
           /\ \A p \in U : OthersIn(U \ {p}) <= OthersIn(U)
           /\ \A p \in U : U # {p} => OthersIn(U \ {p}) = OthersIn(U) - 1
           /\ \A p : p \notin U => OthersIn(U \cup {p}) = IF U = {} THEN 0 ELSE OthersIn(U) + 1
<1>1. Cardinality(U) \in Nat /\ (U # {} => Cardinality(U) # 0)
  BY FS_CardinalityType, FS_EmptySet
<1>2. OthersIn(U) \in Nat
  BY <1>1 DEF OthersIn
<1>3. ASSUME NEW p \in U PROVE /\ OthersIn(U \ {p}) <= OthersIn(U)
                               /\ U # {p} => OthersIn(U \ {p}) = OthersIn(U) - 1
  <2>1. Cardinality(U \ {p}) = Cardinality(U) - 1 /\ IsFiniteSet(U \ {p})
    BY FS_RemoveElement
  <2>2. U # {p} => U \ {p} # {}
    OBVIOUS
  <2>3. U # {}
    OBVIOUS
  <2>. QED  BY <1>1, <2>1, <2>2, <2>3 DEF OthersIn
<1>4. ASSUME NEW p, p \notin U PROVE OthersIn(U \cup {p}) = IF U = {} THEN 0 ELSE OthersIn(U) + 1
  <2>1. Cardinality(U \cup {p}) = Cardinality(U) + 1 /\ U \cup {p} # {}
    BY <1>4, FS_AddElement
  <2>2. U = {} => Cardinality(U) = 0
    BY FS_EmptySet
  <2>. QED  BY <1>1, <2>1, <2>2 DEF OthersIn
<1>. QED  BY <1>2, <1>3, <1>4

(* The clock goes on: half the rate more for everyone.                     *)
LEMMA WithinTick ==
    ASSUME NEW P, NEW U, NEW k, NEW rate, NEW held, NEW t, NEW w, NEW most,
           Account(P, U, k, rate, held, t, w, most)
    PROVE  Within(P, U, k, rate, held, t, w + 1, most + (rate \div 2))
<1>. USE DEF Account
<1>1. OthersIn(U) \in Nat /\ rate \div 2 \in Nat
  BY OthersFacts, HalfIsNat
<1>2. Holds(k, rate, w) \in Nat /\ Holds(k, rate, w + 1) \in Nat /\ Holds(k, rate, w + 1) <= Holds(k, rate, w) + (rate \div 2)
  BY HoldsFacts
<1>3. P + OthersIn(U) + Holds(k, rate, w + 1) <= most + (rate \div 2)
  <2>1. P + OthersIn(U) + Holds(k, rate, w) <= most
    BY DEF Within
  <2>. QED  BY <1>1, <1>2, <2>1
<1>4. ASSUME NEW p \in U
      PROVE  \/ P + OthersIn(U) + rate + Since(w + 1, t[p]) * (rate \div 2) <= most + (rate \div 2)
             \/ U = {p} /\ P + held[p] + Since(w + 1, t[p]) * (rate \div 2) <= most + (rate \div 2)
  <2>. DEFINE a == Since(w, t[p]) * (rate \div 2)
              b == Since(w + 1, t[p]) * (rate \div 2)
  <2>1. a \in Nat /\ b \in Nat /\ b <= a + (rate \div 2)
    BY Gained
  <2>2. \/ P + OthersIn(U) + rate + a <= most
        \/ U = {p} /\ P + held[p] + a <= most
    BY DEF Within
  <2>. HIDE DEF a, b
  <2>3. \/ P + OthersIn(U) + rate + b <= most + (rate \div 2)
        \/ U = {p} /\ P + held[p] + b <= most + (rate \div 2)
    <3>1. held[p] \in Nat
      OBVIOUS
    <3>2. CASE P + OthersIn(U) + rate + a <= most
      BY <1>1, <2>1, <3>2
    <3>3. CASE U = {p} /\ P + held[p] + a <= most
      BY <1>1, <2>1, <3>1, <3>3
    <3>. QED  BY <2>2, <3>2, <3>3
  <2>. QED  BY <2>3 DEF b
<1>. QED  BY <1>3, <1>4 DEF Within

(* Less was paid, the clock was set back, more is allowed, or a call that  *)
(* is alone has less to pay from.                                          *)
LEMMA WithinLess ==
    ASSUME NEW P, NEW U, NEW k, NEW rate, NEW held, NEW t, NEW w, NEW most,
           NEW Q \in Nat, Q <= P, NEW v \in Nat, v <= w, NEW more \in Nat, most <= more,
           NEW paying, NEW u,
           \A p \in U : u[p] = t[p],
           \A p \in U : paying[p] \in Nat /\ paying[p] <= held[p],
           Account(P, U, k, rate, held, t, w, most)
    PROVE  Within(Q, U, k, rate, paying, u, v, more)
<1>. USE DEF Account
<1>1. OthersIn(U) \in Nat /\ rate \div 2 \in Nat
  BY OthersFacts, HalfIsNat
<1>2. Holds(k, rate, w) \in Nat /\ Holds(k, rate, v) \in Nat /\ Holds(k, rate, v) <= Holds(k, rate, w)
  BY HoldsFacts
<1>3. Q + OthersIn(U) + Holds(k, rate, v) <= more
  <2>1. P + OthersIn(U) + Holds(k, rate, w) <= most
    BY DEF Within
  <2>. QED  BY <1>1, <1>2, <2>1
<1>4. ASSUME NEW p \in U
      PROVE  \/ Q + OthersIn(U) + rate + Since(v, u[p]) * (rate \div 2) <= more
             \/ U = {p} /\ Q + paying[p] + Since(v, u[p]) * (rate \div 2) <= more
  <2>. DEFINE a == Since(w, t[p]) * (rate \div 2)
              b == Since(v, t[p]) * (rate \div 2)
  <2>1. a \in Nat /\ b \in Nat /\ b <= a
    BY Gained
  <2>2. \/ P + OthersIn(U) + rate + a <= most
        \/ U = {p} /\ P + held[p] + a <= most
    BY DEF Within
  <2>. HIDE DEF a, b
  <2>3. \/ Q + OthersIn(U) + rate + b <= more
        \/ U = {p} /\ Q + paying[p] + b <= more
    <3>2. CASE P + OthersIn(U) + rate + a <= most
      BY <1>1, <2>1, <3>2
    <3>3. CASE U = {p} /\ P + held[p] + a <= most
      <4>1. held[p] \in Nat /\ paying[p] \in Nat /\ paying[p] <= held[p]
        BY <3>3
      <4>. QED  BY <2>1, <3>3, <4>1
    <3>. QED  BY <2>2, <3>2, <3>3
  <2>4. u[p] = t[p]
    OBVIOUS
  <2>. QED  BY <2>3, <2>4 DEF b
<1>. QED  BY <1>3, <1>4 DEF Within

(* A call begins: alone it will find what the bucket holds, with another   *)
(* one under way the allowance is raised.                                  *)
LEMMA WithinBegin ==
    ASSUME NEW P, NEW U, NEW k, NEW rate, NEW held, NEW t, NEW w, NEW most,
           Account(P, U, k, rate, held, t, w, most),
           NEW p, p \notin U, NEW more \in Nat, most <= more, U # {} => most + rate + 1 <= more,
           NEW paying, NEW u,
           \A q \in U : u[q] = t[q],
           u[p] = w, paying[p] = Holds(k, rate, w)
    PROVE  Within(P, U \cup {p}, k, rate, paying, u, w, more)
<1>. USE DEF Account
<1>1. OthersIn(U) \in Nat /\ rate \div 2 \in Nat
  BY OthersFacts, HalfIsNat
<1>2. Holds(k, rate, w) \in Nat /\ Holds(k, rate, w) <= rate
  BY HoldsFacts
<1>3. P + OthersIn(U) + Holds(k, rate, w) <= most
  BY DEF Within
<1>4. OthersIn(U \cup {p}) = IF U = {} THEN 0 ELSE OthersIn(U) + 1
  BY OthersFacts
<1>5. Since(w, u[p]) * (rate \div 2) = 0
  <2>1. Since(w, u[p]) = 0
    BY DEF Since
  <2>. QED  BY <1>1, <2>1
<1>6. CASE U = {}
  <2>1. OthersIn(U \cup {p}) = 0 /\ U \cup {p} = {p} /\ OthersIn(U) = 0
    BY <1>4, <1>6 DEF OthersIn
  <2>2. P + OthersIn(U \cup {p}) + Holds(k, rate, w) <= more
    BY <1>2, <1>3, <2>1
  <2>3. P + paying[p] + Since(w, u[p]) * (rate \div 2) <= more
    BY <1>2, <1>3, <1>5, <2>1
  <2>. QED  BY <2>1, <2>2, <2>3 DEF Within
<1>7. CASE U # {}
  <2>1. OthersIn(U \cup {p}) = OthersIn(U) + 1 /\ most + rate + 1 <= more
    BY <1>4, <1>7
  <2>2. P + OthersIn(U \cup {p}) + Holds(k, rate, w) <= more
    BY <1>1, <1>2, <1>3, <2>1
  <2>3. P + OthersIn(U \cup {p}) + rate + Since(w, u[p]) * (rate \div 2) <= more
    <3>. DEFINE c == Since(w, u[p]) * (rate \div 2)
    <3>1. c = 0
      BY <1>5
    <3>. HIDE DEF c
    <3>2. P + OthersIn(U \cup {p}) + rate + c <= more
      BY <1>1, <1>2, <1>3, <2>1, <3>1
    <3>. QED  BY <3>2 DEF c
  <2>4. ASSUME NEW q \in U
        PROVE  P + OthersIn(U \cup {p}) + rate + Since(w, u[q]) * (rate \div 2) <= more
    <3>. DEFINE a == Since(w, t[q]) * (rate \div 2)
    <3>1. a \in Nat /\ held[q] \in Nat
      BY Gained
    <3>2. \/ P + OthersIn(U) + rate + a <= most
          \/ U = {q} /\ P + held[q] + a <= most
      BY DEF Within
    <3>. HIDE DEF a
    <3>3. U = {q} => OthersIn(U) = 0
      BY OthersAlone
    <3>4. P + OthersIn(U \cup {p}) + rate + a <= more
      <4>1. CASE P + OthersIn(U) + rate + a <= most
        BY <1>1, <2>1, <3>1, <4>1
      <4>2. CASE U = {q} /\ P + held[q] + a <= most
        BY <2>1, <3>1, <3>3, <4>2
      <4>. QED  BY <3>2, <4>1, <4>2
    <3>. QED  BY <3>4 DEF a
  <2>. QED  BY <2>2, <2>3, <2>4 DEF Within
<1>. QED  BY <1>6, <1>7

(* A call ends, and what it leaves in the bucket is no more than there was *)
(* for it: nothing is written and nothing more is paid, or one is paid and *)
(* the rest is written.                                                    *)
LEMMA WithinLeave ==
    ASSUME NEW P, NEW U, NEW k, NEW rate, NEW held, NEW t, NEW w, NEW most,
           Account(P, U, k, rate, held, t, w, most),
           NEW p \in U, NEW paying, NEW u,
           \A q \in U \ {p} : u[q] = t[q],
           NEW Q \in Nat, NEW l \in BucketRecords,
           \/ Q <= P /\ l = k
           \/ /\ Q = P + 1 /\ held[p] \in 1..rate
              /\ l = [kept |-> TRUE, tokens |-> held[p] - 1, at |-> t[p]]
    PROVE  Within(Q, U \ {p}, l, rate, paying, u, w, most)
<1>. USE DEF Account
<1>1. OthersIn(U) \in Nat /\ rate \div 2 \in Nat /\ OthersIn(U \ {p}) <= OthersIn(U)
      /\ (U # {p} => OthersIn(U \ {p}) = OthersIn(U) - 1)
  BY OthersFacts, HalfIsNat
<1>2. Holds(k, rate, w) \in Nat /\ Holds(l, rate, w) \in Nat
  BY HoldsFacts
<1>3. OthersIn(U \ {p}) \in Nat
  BY FS_RemoveElement, OthersFacts
<1>. DEFINE a == Since(w, t[p]) * (rate \div 2)
<1>4. a \in Nat /\ held[p] \in Nat
  BY Gained
<1>5. \/ P + OthersIn(U) + rate + a <= most
      \/ U = {p} /\ P + held[p] + a <= most
  BY DEF Within
<1>6. Q + OthersIn(U \ {p}) + Holds(l, rate, w) <= most
  <2>1. CASE Q <= P /\ l = k
    <3>1. P + OthersIn(U) + Holds(k, rate, w) <= most
      BY DEF Within
    <3>. QED  BY <1>1, <1>2, <1>3, <2>1, <3>1
  <2>2. CASE /\ Q = P + 1 /\ held[p] \in 1..rate
             /\ l = [kept |-> TRUE, tokens |-> held[p] - 1, at |-> t[p]]
    <3>1. Holds(l, rate, w) <= held[p] - 1 + a
      BY <2>2, <1>4 DEF Holds
    <3>. HIDE DEF a
    <3>2. CASE U = {p} /\ P + held[p] + a <= most
      <4>1. OthersIn(U \ {p}) = 0
        BY <3>2 DEF OthersIn
      <4>. QED  BY <1>2, <1>4, <2>2, <3>1, <3>2, <4>1
    <3>3. CASE P + OthersIn(U) + rate + a <= most
      BY <1>1, <1>2, <1>3, <1>4, <2>2, <3>1, <3>3
    <3>. QED  BY <1>5, <3>2, <3>3
  <2>. QED  BY <2>1, <2>2
<1>7. ASSUME NEW q \in U \ {p}
      PROVE  Q + OthersIn(U \ {p}) + rate + Since(w, u[q]) * (rate \div 2) <= most
  <2>. DEFINE b == Since(w, t[q]) * (rate \div 2)
  <2>1. b \in Nat
    BY Gained
  <2>2. U # {q} /\ U # {p}
    OBVIOUS
  <2>3. P + OthersIn(U) + rate + b <= most
    BY <2>2 DEF Within
  <2>4. u[q] = t[q] /\ Q <= P + 1
    OBVIOUS
  <2>. HIDE DEF b
  <2>5. Q + OthersIn(U \ {p}) + rate + b <= most
    BY <1>1, <1>3, <2>1, <2>2, <2>3, <2>4
  <2>. QED  BY <2>4, <2>5 DEF b
<1>. QED  BY <1>6, <1>7 DEF Within

(* It ends without paying.                                                 *)
LEMMA WithinQuit ==
    ASSUME NEW P, NEW U, NEW k, NEW rate, NEW held, NEW t, NEW w, NEW most,
           Account(P, U, k, rate, held, t, w, most),
           NEW p \in U, NEW paying, NEW u,
           \A q \in U \ {p} : u[q] = t[q]
    PROVE  Within(P, U \ {p}, k, rate, paying, u, w, most)
<1>1. P <= P /\ k = k /\ P \in Nat /\ k \in BucketRecords
  BY DEF Account
<1>. QED  BY <1>1, WithinLeave

(* It ends and pays: the rest is written, as of the time it began.         *)
LEMMA WithinPay ==
    ASSUME NEW P, NEW U, NEW k, NEW rate, NEW held, NEW t, NEW w, NEW most,
           Account(P, U, k, rate, held, t, w, most),
           NEW p \in U, NEW paying, NEW u,
           \A q \in U \ {p} : u[q] = t[q],
           held[p] >= 1, held[p] <= rate,
           NEW l, l = [kept |-> TRUE, tokens |-> held[p] - 1, at |-> t[p]]
    PROVE  Within(P + 1, U \ {p}, l, rate, paying, u, w, most)
<1>. USE DEF Account
<1>1. held[p] \in 1..rate /\ l \in BucketRecords /\ P + 1 \in Nat
  BY DEF BucketRecords
<1>. QED  BY <1>1, WithinLeave

(* A call writes the full bucket it found missing.                         *)
LEMMA WithinCreate ==
    ASSUME NEW P, NEW U, NEW k, NEW rate, NEW held, NEW t, NEW w, NEW most,
           Account(P, U, k, rate, held, t, w, most),
           NEW p \in U, held[p] = rate, NEW paying, NEW u, \A q \in U : u[q] = t[q],
           paying[p] = rate, NEW l, l = [kept |-> TRUE, tokens |-> rate, at |-> t[p]]
    PROVE  Within(P, U, l, rate, paying, u, w, most)
<1>. USE DEF Account
<1>. DEFINE a == Since(w, t[p]) * (rate \div 2)
<1>1. OthersIn(U) \in Nat /\ rate \div 2 \in Nat /\ (U = {p} => OthersIn(U) = 0)
  <2>1. U = {p} => OthersIn(U) = 0
    BY OthersAlone
  <2>. QED  BY <2>1, OthersFacts, HalfIsNat
<1>2. a \in Nat
  BY Gained
<1>3. l \in BucketRecords
  BY DEF BucketRecords
<1>4. Holds(l, rate, w) \in Nat /\ Holds(l, rate, w) <= rate
  BY <1>3, HoldsFacts
<1>5. \/ P + OthersIn(U) + rate + a <= most
      \/ U = {p} /\ P + held[p] + a <= most
  BY DEF Within
<1>. HIDE DEF a
<1>6. P + OthersIn(U) + Holds(l, rate, w) <= most
  BY <1>1, <1>2, <1>4, <1>5
<1>7. ASSUME NEW q \in U
      PROVE  \/ P + OthersIn(U) + rate + Since(w, u[q]) * (rate \div 2) <= most
             \/ U = {q} /\ P + paying[q] + Since(w, u[q]) * (rate \div 2) <= most
  <2>1. \/ P + OthersIn(U) + rate + Since(w, t[q]) * (rate \div 2) <= most
        \/ U = {q} /\ P + held[q] + Since(w, t[q]) * (rate \div 2) <= most
    BY DEF Within
  <2>2. U = {q} => q = p
    OBVIOUS
  <2>3. u[q] = t[q]
    OBVIOUS
  <2>. QED  BY <2>1, <2>2, <2>3
<1>. QED  BY <1>6, <1>7 DEF Within

LEMMA MinOfTwo == ASSUME NEW a \in Int, NEW b \in Int
                  PROVE  Min({a, b}) = IF a <= b THEN a ELSE b
<1>. DEFINE m == IF a <= b THEN a ELSE b
<1>1. m \in {a, b} /\ \A y \in {a, b} : m <= y
  OBVIOUS
<1>2. \A x \in {a, b} : (\A y \in {a, b} : x <= y) => x = m
  OBVIOUS
<1>. HIDE DEF m
<1>3. Min({a, b}) = m
  BY <1>1, <1>2 DEF Min
<1>. QED BY <1>3 DEF m

LEMMA PassedIsSum == ASSUME NEW f PROVE PassedInAll(f) = SumOver(f, Senders \cup {Unknown})
  BY DEF PassedInAll, FoldSet, MapThenFoldSet, SumOver, SumTable, SumRule, AnyOf

CallRecords ==
    [at : {"idle", "global", "newGlobal", "contact", "newContact", "charge", "chargeGlobal"},
     of : Senders \cup {Unknown}, now : Nat, global : Nat, contact : Nat]

LimitTyped ==
    /\ wall \in Nat /\ forward \in Nat /\ overlaps \in Nat /\ consumed \in Nat
    /\ buckets \in [Buckets -> BucketRecords]
    /\ consume \in [Consumers -> CallRecords]
    /\ passed \in [Senders \cup {Unknown} -> Nat]
    /\ turnedAway \subseteq Senders /\ halfCharged \in BOOLEAN

(* What a call has read is within the rates.                               *)
CallIsSound(c) ==
    /\ c.at \in {"contact", "newContact"} => c.of # Unknown
    /\ c.at \in {"contact", "newContact", "charge", "chargeGlobal"} => c.global <= PerGlobal
    /\ c.at \in {"charge", "chargeGlobal"} /\ c.of # Unknown => c.contact <= PerContact
    /\ c.at = "chargeGlobal" => c.global >= 1

CallsAreSound == \A p \in Consumers : CallIsSound(consume[p])

LEMMA BucketNames ==
    /\ Everyone \in Buckets /\ Everyone \notin Senders /\ Unknown \notin Senders
    /\ Rate(Everyone) = PerGlobal /\ \A s \in Senders : s \in Buckets /\ Rate(s) = PerContact
    /\ PerGlobal \in Nat /\ PerContact \in Nat /\ \A b \in Buckets : Rate(b) \in Nat
  BY DEF Everyone, Buckets, Unknown, Rate

LEMMA RefilledHolds ==
    ASSUME LimitTyped, NEW b \in Buckets, NEW now \in Nat, buckets[b].kept
    PROVE  Refilled(b, now) = Holds(buckets[b], Rate(b), now)
<1>. DEFINE x == buckets[b].tokens + Since(now, buckets[b].at) * (Rate(b) \div 2)
<1>1. Refilled(b, now) = Min({Rate(b), x})
  BY DEF Refilled, Since
<1>2. Rate(b) \in Nat /\ buckets[b].tokens \in Nat /\ buckets[b].at \in Nat
  BY BucketNames DEF LimitTyped, BucketRecords
<1>3. Since(now, buckets[b].at) * (Rate(b) \div 2) \in Nat
  BY <1>2, Gained
<1>4. x \in Nat
  BY <1>2, <1>3
<1>5. Holds(buckets[b], Rate(b), now) = IF Rate(b) <= x THEN Rate(b) ELSE x
  BY DEF Holds
<1>. HIDE DEF x
<1>. QED  BY <1>1, <1>2, <1>4, <1>5, MinOfTwo

LEMMA RefilledIsNat ==
    ASSUME LimitTyped, NEW b \in Buckets, NEW now \in Nat, buckets[b].kept
    PROVE  Refilled(b, now) \in Nat /\ Refilled(b, now) <= Rate(b)
<1>1. buckets[b] \in BucketRecords /\ Rate(b) \in Nat
  BY BucketNames DEF LimitTyped
<1>. QED  BY <1>1, RefilledHolds, HoldsFacts

LEMMA LimitInitTyped == LimitInit => LimitTyped /\ CallsAreSound
<1>1. NoConsume \in CallRecords /\ NoBucket \in BucketRecords /\ CallIsSound(NoConsume)
  BY DEF NoConsume, NoBucket, CallRecords, BucketRecords, CallIsSound, Unknown
<1>2. SUFFICES ASSUME LimitInit PROVE LimitTyped /\ CallsAreSound
  OBVIOUS
<1>3. buckets \in [Buckets -> BucketRecords] /\ consume \in [Consumers -> CallRecords]
      /\ \A p \in Consumers : consume[p] = NoConsume
  BY <1>1, <1>2 DEF LimitInit
<1>4. passed \in [Senders \cup {Unknown} -> Nat] /\ halfCharged \in BOOLEAN
  BY <1>2 DEF LimitInit
<1>5. wall \in Nat /\ forward \in Nat /\ overlaps \in Nat /\ consumed \in Nat /\ turnedAway \subseteq Senders
  BY <1>2 DEF LimitInit
<1>6. LimitTyped
  BY <1>3, <1>4, <1>5 DEF LimitTyped
<1>. QED  BY <1>1, <1>3, <1>6 DEF CallsAreSound

(* Wherever a call goes, it stays a sound record.                          *)
LEMMA GotoTyped ==
    ASSUME LimitTyped, CallsAreSound, NEW p \in Consumers, NEW c \in CallRecords, CallIsSound(c),
           ConsumeGoto(p, c)
    PROVE  consume' \in [Consumers -> CallRecords] /\ CallsAreSound'
  BY DEF LimitTyped, ConsumeGoto, CallsAreSound

LEMMA SetBucketTyped ==
    ASSUME LimitTyped, NEW b \in Buckets, NEW n \in Nat, NEW at \in Nat, SetBucket(b, n, at)
    PROVE  buckets' \in [Buckets -> BucketRecords]
<1>1. [kept |-> TRUE, tokens |-> n, at |-> at] \in BucketRecords
  BY DEF BucketRecords
<1>. QED  BY <1>1 DEF LimitTyped, SetBucket

LEMMA IdleIsSound == NoConsume \in CallRecords /\ CallIsSound(NoConsume) /\ NoConsume.at = "idle"
  BY DEF NoConsume, CallRecords, CallIsSound, Unknown

LEMMA AfterGlobalSound ==
    ASSUME NEW c \in CallRecords, NEW n \in Nat, n <= PerGlobal
    PROVE  AfterGlobal(c, n) \in CallRecords /\ CallIsSound(AfterGlobal(c, n))
           /\ AfterGlobal(c, n).global = n /\ AfterGlobal(c, n).of = c.of
           /\ AfterGlobal(c, n).now = c.now
           /\ AfterGlobal(c, n).at \in {"charge", "contact"}
           /\ (c.of # Unknown => AfterGlobal(c, n).at = "contact")
           /\ (c.of = Unknown => AfterGlobal(c, n).at = "charge")
<1>. DEFINE r == AfterGlobal(c, n)
<1>1. r.global = n /\ r.of = c.of /\ r.now = c.now /\ r.contact = c.contact
      /\ r.at = IF c.of = Unknown THEN "charge" ELSE "contact"
  BY DEF AfterGlobal, CallRecords
<1>2. r \in CallRecords
  BY DEF AfterGlobal, CallRecords
<1>. HIDE DEF r
<1>3. CallIsSound(r)
  BY <1>1 DEF CallIsSound
<1>. QED  BY <1>1, <1>2, <1>3 DEF r

LEMMA LimitTypeStep ==
    ASSUME LimitTyped, CallsAreSound, LimitNext
    PROVE  LimitTyped' /\ CallsAreSound'
<1>1. CASE ClockTicks
  BY <1>1 DEF ClockTicks, LimitTyped, CallsAreSound
<1>2. CASE ClockSetBack
  BY <1>2 DEF ClockSetBack, LimitTyped, CallsAreSound
<1>3. ASSUME NEW p \in Consumers, NEW s \in Senders \cup {Unknown}, BeginConsume(p, s)
      PROVE  LimitTyped' /\ CallsAreSound'
  <2>. DEFINE c == [NoConsume EXCEPT !.at = "global", !.of = s, !.now = wall]
  <2>1. c \in CallRecords /\ CallIsSound(c)
    BY DEF NoConsume, CallRecords, CallIsSound, Unknown, LimitTyped
  <2>2. ConsumeGoto(p, c) /\ consumed' \in Nat /\ overlaps' \in Nat
    BY <1>3 DEF BeginConsume, LimitTyped
  <2>. HIDE DEF c
  <2>3. consume' \in [Consumers -> CallRecords] /\ CallsAreSound'
    BY <2>1, <2>2, GotoTyped
  <2>. QED  BY <1>3, <2>2, <2>3 DEF BeginConsume, LimitTyped
<1>4. ASSUME NEW p \in Consumers, GetGlobal(p)
      PROVE  LimitTyped' /\ CallsAreSound'
  <2>. DEFINE c == IF buckets[Everyone].kept
                   THEN AfterGlobal(consume[p], Refilled(Everyone, consume[p].now))
                   ELSE [consume[p] EXCEPT !.at = "newGlobal"]
  <2>1. c \in CallRecords /\ CallIsSound(c)
    <3>1. consume[p] \in CallRecords /\ consume[p].now \in Nat
      BY DEF LimitTyped, CallRecords
    <3>2. CASE buckets[Everyone].kept
      <4>1. Refilled(Everyone, consume[p].now) \in Nat /\ Refilled(Everyone, consume[p].now) <= PerGlobal
        BY <3>1, <3>2, RefilledIsNat, BucketNames
      <4>. QED  BY <3>1, <3>2, <4>1, AfterGlobalSound
    <3>3. CASE ~ buckets[Everyone].kept
      <4>1. [consume[p] EXCEPT !.at = "newGlobal"] \in CallRecords
        BY <3>1 DEF CallRecords
      <4>2. [consume[p] EXCEPT !.at = "newGlobal"].at = "newGlobal"
        BY <3>1 DEF CallRecords
      <4>. QED  BY <3>3, <4>1, <4>2 DEF CallIsSound
    <3>. QED  BY <3>2, <3>3
  <2>2. ConsumeGoto(p, c)
    BY <1>4 DEF GetGlobal
  <2>. HIDE DEF c
  <2>3. consume' \in [Consumers -> CallRecords] /\ CallsAreSound'
    BY <2>1, <2>2, GotoTyped
  <2>. QED  BY <1>4, <2>3 DEF GetGlobal, LimitTyped
<1>5. ASSUME NEW p \in Consumers, CreateGlobal(p)
      PROVE  LimitTyped' /\ CallsAreSound'
  <2>1. consume[p] \in CallRecords /\ consume[p].now \in Nat
    BY DEF LimitTyped, CallRecords
  <2>2. AfterGlobal(consume[p], PerGlobal) \in CallRecords /\ CallIsSound(AfterGlobal(consume[p], PerGlobal))
    BY <2>1, AfterGlobalSound, BucketNames
  <2>3. consume' \in [Consumers -> CallRecords] /\ CallsAreSound'
    BY <1>5, <2>2, GotoTyped DEF CreateGlobal
  <2>4. buckets' \in [Buckets -> BucketRecords]
    BY <1>5, <2>1, SetBucketTyped, BucketNames DEF CreateGlobal
  <2>. QED  BY <1>5, <2>3, <2>4 DEF CreateGlobal, LimitTyped
<1>6. ASSUME NEW p \in Consumers, GetContact(p)
      PROVE  LimitTyped' /\ CallsAreSound'
  <2>1. consume[p] \in CallRecords /\ consume[p].now \in Nat /\ consume[p].at = "contact"
    BY <1>6 DEF LimitTyped, CallRecords, GetContact
  <2>2. consume[p].of \in Senders /\ consume[p].global <= PerGlobal
    BY <2>1 DEF CallsAreSound, CallIsSound, CallRecords
  <2>. DEFINE c == IF buckets[consume[p].of].kept
                   THEN [consume[p] EXCEPT !.at = "charge", !.contact = Refilled(consume[p].of, consume[p].now)]
                   ELSE [consume[p] EXCEPT !.at = "newContact"]
  <2>3. c \in CallRecords /\ CallIsSound(c)
    <3>1. CASE buckets[consume[p].of].kept
      <4>1. /\ Refilled(consume[p].of, consume[p].now) \in Nat
            /\ Refilled(consume[p].of, consume[p].now) <= PerContact
        BY <2>1, <2>2, <3>1, RefilledIsNat, BucketNames
      <4>2. c \in CallRecords
        BY <2>1, <3>1, <4>1 DEF CallRecords
      <4>3. c.at = "charge" /\ c.contact = Refilled(consume[p].of, consume[p].now) /\ c.global = consume[p].global
        BY <2>1, <3>1 DEF CallRecords
      <4>. HIDE DEF c
      <4>. QED  BY <2>2, <4>1, <4>2, <4>3 DEF CallIsSound
    <3>2. CASE ~ buckets[consume[p].of].kept
      <4>1. c \in CallRecords /\ c.at = "newContact" /\ c.global = consume[p].global /\ c.of = consume[p].of
        BY <2>1, <3>2 DEF CallRecords
      <4>. HIDE DEF c
      <4>. QED  BY <2>2, <4>1, BucketNames DEF CallIsSound
    <3>. QED  BY <3>1, <3>2
  <2>4. ConsumeGoto(p, c)
    BY <1>6 DEF GetContact
  <2>. HIDE DEF c
  <2>5. consume' \in [Consumers -> CallRecords] /\ CallsAreSound'
    BY <2>3, <2>4, GotoTyped
  <2>. QED  BY <1>6, <2>5 DEF GetContact, LimitTyped
<1>7. ASSUME NEW p \in Consumers, CreateContact(p)
      PROVE  LimitTyped' /\ CallsAreSound'
  <2>1. consume[p] \in CallRecords /\ consume[p].now \in Nat /\ consume[p].at = "newContact"
    BY <1>7 DEF LimitTyped, CallRecords, CreateContact
  <2>2. consume[p].of \in Senders /\ consume[p].global <= PerGlobal
    BY <2>1 DEF CallsAreSound, CallIsSound, CallRecords
  <2>. DEFINE c == [consume[p] EXCEPT !.at = "charge", !.contact = PerContact]
  <2>3. c \in CallRecords /\ c.at = "charge" /\ c.contact = PerContact /\ c.global = consume[p].global
    BY <2>1, BucketNames DEF CallRecords
  <2>4. ConsumeGoto(p, c)
    BY <1>7 DEF CreateContact
  <2>. HIDE DEF c
  <2>5. CallIsSound(c)
    BY <2>2, <2>3, BucketNames DEF CallIsSound
  <2>6. consume' \in [Consumers -> CallRecords] /\ CallsAreSound'
    BY <2>3, <2>4, <2>5, GotoTyped
  <2>7. buckets' \in [Buckets -> BucketRecords]
    BY <1>7, <2>1, <2>2, SetBucketTyped, BucketNames DEF CreateContact
  <2>. QED  BY <1>7, <2>6, <2>7 DEF CreateContact, LimitTyped
<1>8. ASSUME NEW p \in Consumers, TurnAway(p)
      PROVE  LimitTyped' /\ CallsAreSound'
  <2>1. consume' \in [Consumers -> CallRecords] /\ CallsAreSound'
    BY <1>8, GotoTyped, IdleIsSound DEF TurnAway
  <2>2. turnedAway' \subseteq Senders
    BY <1>8 DEF TurnAway, LimitTyped, CallRecords
  <2>. QED  BY <1>8, <2>1, <2>2 DEF TurnAway, Refuse, LimitTyped
<1>9. ASSUME NEW p \in Consumers, ChargeContact(p)
      PROVE  LimitTyped' /\ CallsAreSound'
  <2>1. consume[p] \in CallRecords /\ consume[p].now \in Nat /\ consume[p].at = "charge"
        /\ consume[p].global \in Nat /\ consume[p].contact \in Nat
    BY <1>9 DEF LimitTyped, CallRecords, ChargeContact
  <2>2. /\ consume[p].global <= PerGlobal /\ consume[p].global >= 1
        /\ consume[p].of # Unknown => consume[p].contact <= PerContact /\ consume[p].contact >= 1
    BY <1>9, <2>1 DEF CallsAreSound, CallIsSound, ChargeContact, Affordable
  <2>. DEFINE c == [consume[p] EXCEPT !.at = "chargeGlobal"]
  <2>3. c \in CallRecords /\ c.at = "chargeGlobal" /\ c.global = consume[p].global
        /\ c.contact = consume[p].contact /\ c.of = consume[p].of
    BY <2>1 DEF CallRecords
  <2>4. ConsumeGoto(p, c)
    BY <1>9 DEF ChargeContact
  <2>. HIDE DEF c
  <2>5. CallIsSound(c)
    BY <2>2, <2>3 DEF CallIsSound
  <2>6. consume' \in [Consumers -> CallRecords] /\ CallsAreSound'
    BY <2>3, <2>4, <2>5, GotoTyped
  <2>7. buckets' \in [Buckets -> BucketRecords]
    <3>1. CASE consume[p].of = Unknown
      BY <1>9, <3>1 DEF ChargeContact, LimitTyped
    <3>2. CASE consume[p].of # Unknown
      <4>1. consume[p].of \in Buckets
        BY <2>1, <3>2 DEF CallRecords, Buckets
      <4>2. consume[p].contact - 1 \in Nat
        BY <2>1, <2>2, <3>2
      <4>. QED  BY <1>9, <2>1, <3>2, <4>1, <4>2, SetBucketTyped DEF ChargeContact
    <3>. QED  BY <3>1, <3>2
  <2>. QED  BY <1>9, <2>6, <2>7 DEF ChargeContact, LimitTyped
<1>10. ASSUME NEW p \in Consumers, ChargeGlobal(p)
       PROVE  LimitTyped' /\ CallsAreSound'
  <2>1. consume[p] \in CallRecords /\ consume[p].now \in Nat /\ consume[p].at = "chargeGlobal"
        /\ consume[p].global \in Nat
    BY <1>10 DEF LimitTyped, CallRecords, ChargeGlobal
  <2>2. consume[p].global - 1 \in Nat
    BY <2>1 DEF CallsAreSound, CallIsSound
  <2>3. consume' \in [Consumers -> CallRecords] /\ CallsAreSound'
    BY <1>10, GotoTyped, IdleIsSound DEF ChargeGlobal
  <2>4. buckets' \in [Buckets -> BucketRecords]
    BY <1>10, <2>1, <2>2, SetBucketTyped, BucketNames DEF ChargeGlobal
  <2>5. passed' \in [Senders \cup {Unknown} -> Nat]
    <3>1. consume[p].of \in Senders \cup {Unknown}
      BY <2>1 DEF CallRecords
    <3>2. passed[consume[p].of] + 1 \in Nat
      BY <3>1 DEF LimitTyped
    <3>3. passed' = [passed EXCEPT ![consume[p].of] = passed[consume[p].of] + 1]
      BY <1>10 DEF ChargeGlobal
    <3>. QED  BY <3>1, <3>2, <3>3 DEF LimitTyped
  <2>. QED  BY <1>10, <2>3, <2>4, <2>5 DEF ChargeGlobal, LimitTyped
<1>11. ASSUME NEW p \in Consumers, CutShort(p)
       PROVE  LimitTyped' /\ CallsAreSound'
  <2>1. consume' \in [Consumers -> CallRecords] /\ CallsAreSound'
    BY <1>11, GotoTyped, IdleIsSound DEF CutShort
  <2>2. halfCharged' \in BOOLEAN
    BY <1>11 DEF CutShort, LimitTyped
  <2>. QED  BY <1>11, <2>1, <2>2 DEF CutShort, LimitTyped
<1>. QED  BY <1>1, <1>2, <1>3, <1>4, <1>5, <1>6, <1>7, <1>8, <1>9, <1>10, <1>11 DEF LimitNext

(* The calls under way, when they began, and what one that is alone will   *)
(* pay from in the bucket of all.                                          *)
Calls == {p \in Consumers : Busy(p)}
Times == [p \in Consumers |-> consume[p].now]

GlobalHeld ==
    [p \in Consumers |->
        CASE consume[p].at \in {"contact", "newContact", "charge", "chargeGlobal"} -> consume[p].global
          [] consume[p].at = "newGlobal" -> PerGlobal
          [] OTHER -> Holds(buckets[Everyone], PerGlobal, consume[p].now)]

GlobalWithin ==
    Within(PassedInAll(passed), Calls, buckets[Everyone], PerGlobal, GlobalHeld, Times,
           wall, Allowance(PerGlobal))

LEMMA CallsFinite == IsFiniteSet(Calls) /\ Calls \subseteq Consumers
  BY FS_Subset DEF Calls

LEMMA PassedNat == ASSUME NEW f \in [Senders \cup {Unknown} -> Nat] PROVE PassedInAll(f) \in Nat
<1>1. IsFiniteSet(Senders \cup {Unknown})
  BY FS_AddElement
<1>. QED  BY <1>1, SumNat, PassedIsSum

LEMMA PassedOneMore ==
    ASSUME NEW f \in [Senders \cup {Unknown} -> Nat], NEW s \in Senders \cup {Unknown}
    PROVE  PassedInAll([f EXCEPT ![s] = @ + 1]) = PassedInAll(f) + 1
<1>. DEFINE D == Senders \cup {Unknown}
            g == [f EXCEPT ![s] = @ + 1]
<1>1. IsFiniteSet(D)
  BY FS_AddElement
<1>2. g[s] = f[s] + 1 /\ \A x \in D \ {s} : f[x] = g[x]
  OBVIOUS
<1>3. \A x \in D : f[x] \in Int /\ g[x] \in Int
  BY <1>2
<1>. HIDE DEF g
<1>4. SumOver(g, D) = SumOver(f, D) - f[s] + g[s]
  BY <1>1, <1>2, <1>3, SumUpdate
<1>5. SumOver(f, D) \in Int /\ f[s] \in Int
  BY <1>1, <1>3, SumType
<1>6. SumOver(g, D) = SumOver(f, D) + 1
  BY <1>2, <1>4, <1>5
<1>. QED  BY <1>6, PassedIsSum DEF g

LEMMA AllowanceNat == ASSUME LimitTyped, NEW rate \in Nat PROVE Allowance(rate) \in Nat
<1>1. rate \div 2 \in Nat /\ forward \in Nat /\ overlaps \in Nat
  BY HalfIsNat DEF LimitTyped
<1>2. forward * (rate \div 2) \in Nat /\ overlaps * (rate + 1) \in Nat
  BY <1>1, TimesIsNat
<1>. QED  BY <1>2 DEF Allowance

LEMMA GlobalHeldNat ==
    ASSUME LimitTyped
    PROVE  \A p \in Calls : GlobalHeld[p] \in Nat /\ Times[p] \in Nat
<1>1. SUFFICES ASSUME NEW p \in Consumers PROVE GlobalHeld[p] \in Nat /\ Times[p] \in Nat
  BY CallsFinite
<1>2. consume[p].now \in Nat /\ consume[p].global \in Nat
  BY DEF LimitTyped, CallRecords
<1>3. Holds(buckets[Everyone], PerGlobal, consume[p].now) \in Nat /\ PerGlobal \in Nat
  BY <1>2, HoldsFacts, BucketNames DEF LimitTyped
<1>. QED  BY <1>2, <1>3 DEF GlobalHeld, Times

LEMMA GlobalAccount ==
    ASSUME LimitTyped, GlobalWithin
    PROVE  Account(PassedInAll(passed), Calls, buckets[Everyone], PerGlobal, GlobalHeld, Times,
                   wall, Allowance(PerGlobal))
<1>1. PassedInAll(passed) \in Nat /\ Allowance(PerGlobal) \in Nat /\ PerGlobal \in Nat
      /\ buckets[Everyone] \in BucketRecords /\ wall \in Nat
  BY PassedNat, AllowanceNat, BucketNames DEF LimitTyped
<1>. QED  BY <1>1, GlobalHeldNat, CallsFinite DEF GlobalWithin, Account

(* A step of the clock, or of a call that stays under way and writes       *)
(* nothing to the bucket of all.                                           *)
LEMMA GlobalKept ==
    ASSUME LimitTyped, LimitTyped', GlobalWithin,
           Calls' = Calls, \A p \in Calls : Times'[p] = Times[p],
           \A p \in Calls : GlobalHeld'[p] \in Nat /\ GlobalHeld'[p] <= GlobalHeld[p],
           buckets'[Everyone] = buckets[Everyone], passed' = passed, wall' <= wall,
           Allowance(PerGlobal)' = Allowance(PerGlobal)
    PROVE  GlobalWithin'
<1>1. PassedInAll(passed) \in Nat /\ Allowance(PerGlobal) \in Nat /\ PerGlobal \in Nat
      /\ buckets[Everyone] \in BucketRecords /\ wall \in Nat /\ wall' \in Nat
  BY PassedNat, AllowanceNat, BucketNames DEF LimitTyped
<1>2. \A p \in Calls : GlobalHeld[p] \in Nat /\ Times[p] \in Nat
  BY GlobalHeldNat
<1>w. Account(PassedInAll(passed), Calls, buckets[Everyone], PerGlobal, GlobalHeld, Times,
              wall, Allowance(PerGlobal))
  BY GlobalAccount
<1>n. PassedInAll(passed) <= PassedInAll(passed) /\ Allowance(PerGlobal) <= Allowance(PerGlobal)
  BY <1>1
<1>3. Within(PassedInAll(passed), Calls, buckets[Everyone], PerGlobal, GlobalHeld', Times',
             wall', Allowance(PerGlobal))
  BY <1>1, <1>2, <1>w, <1>n, WithinLess
<1>4. PassedInAll(passed)' = PassedInAll(passed)
  BY PassedIsSum
<1>. QED  BY <1>3, <1>4 DEF GlobalWithin

LEMMA GotoCalls ==
    ASSUME LimitTyped, NEW p \in Consumers, NEW c, ConsumeGoto(p, c)
    PROVE  /\ \A q \in Consumers : consume'[q] = IF q = p THEN c ELSE consume[q]
           /\ c.at = "idle" => Calls' = Calls \ {p}
           /\ c.at # "idle" => Calls' = Calls \cup {p}
           /\ \A q \in Consumers \ {p} : Times'[q] = Times[q]
           /\ Times'[p] = c.now
<1>1. consume' = [consume EXCEPT ![p] = c]
  BY DEF ConsumeGoto
<1>2. \A q \in Consumers : consume'[q] = IF q = p THEN c ELSE consume[q]
  BY <1>1 DEF LimitTyped
<1>. QED  BY <1>2 DEF Calls, Busy, Times

LEMMA AllowanceSame == ASSUME NEW rate, forward' = forward, overlaps' = overlaps
                       PROVE  Allowance(rate)' = Allowance(rate)
  BY DEF Allowance

LEMMA GlobalTick == ASSUME LimitTyped, LimitTyped', GlobalWithin, ClockTicks PROVE GlobalWithin'
<1>1. PassedInAll(passed) \in Nat /\ Allowance(PerGlobal) \in Nat /\ PerGlobal \in Nat
      /\ buckets[Everyone] \in BucketRecords /\ wall \in Nat
  BY PassedNat, AllowanceNat, BucketNames DEF LimitTyped
<1>2. \A p \in Calls : GlobalHeld[p] \in Nat /\ Times[p] \in Nat
  BY GlobalHeldNat
<1>3. Within(PassedInAll(passed), Calls, buckets[Everyone], PerGlobal, GlobalHeld, Times,
             wall + 1, Allowance(PerGlobal) + (PerGlobal \div 2))
  BY GlobalAccount, WithinTick
<1>4. Allowance(PerGlobal)' = Allowance(PerGlobal) + (PerGlobal \div 2)
  <2>1. forward \in Nat /\ overlaps \in Nat /\ PerGlobal \div 2 \in Nat
    BY <1>1, HalfIsNat DEF LimitTyped
  <2>2. (forward + 1) * (PerGlobal \div 2) = forward * (PerGlobal \div 2) + (PerGlobal \div 2)
    BY <2>1, TimesNext
  <2>3. forward * (PerGlobal \div 2) \in Nat /\ overlaps * (PerGlobal + 1) \in Nat
    BY <1>1, <2>1, TimesIsNat
  <2>4. forward' = forward + 1 /\ overlaps' = overlaps
    BY DEF ClockTicks
  <2>. QED  BY <1>1, <2>1, <2>2, <2>3, <2>4 DEF Allowance
<1>5. Calls' = Calls /\ Times' = Times /\ GlobalHeld' = GlobalHeld /\ buckets' = buckets
      /\ PassedInAll(passed)' = PassedInAll(passed) /\ wall' = wall + 1
  BY PassedIsSum DEF ClockTicks, Calls, Busy, Times, GlobalHeld
<1>. QED  BY <1>3, <1>4, <1>5 DEF GlobalWithin

LEMMA GlobalBack == ASSUME LimitTyped, LimitTyped', GlobalWithin, ClockSetBack PROVE GlobalWithin'
<1>1. Calls' = Calls /\ Times' = Times /\ GlobalHeld' = GlobalHeld /\ buckets' = buckets
  BY DEF ClockSetBack, Calls, Busy, Times, GlobalHeld
<1>2. passed' = passed /\ wall' <= wall /\ Allowance(PerGlobal)' = Allowance(PerGlobal)
  BY AllowanceSame DEF ClockSetBack, LimitTyped
<1>3. \A p \in Calls : GlobalHeld[p] \in Nat /\ GlobalHeld[p] <= GlobalHeld[p]
  BY GlobalHeldNat
<1>. QED  BY <1>1, <1>2, <1>3, GlobalKept

(* What a beginning call does to the allowance.                            *)
LEMMA AllowanceRaised ==
    ASSUME LimitTyped, LimitTyped', NEW p \in Consumers, NEW s, BeginConsume(p, s), NEW rate \in Nat
    PROVE  /\ Allowance(rate) \in Nat /\ Allowance(rate)' \in Nat /\ Allowance(rate) <= Allowance(rate)'
           /\ Calls # {} => Allowance(rate) + rate + 1 <= Allowance(rate)'
<1>1. forward' = forward /\ overlaps' = overlaps + (IF Calls # {} THEN 1 ELSE 0)
  BY DEF BeginConsume, Calls
<1>2. forward \in Nat /\ overlaps \in Nat /\ rate \div 2 \in Nat /\ rate + 1 \in Nat
  BY HalfIsNat DEF LimitTyped
<1>3. (overlaps + 1) * (rate + 1) = overlaps * (rate + 1) + (rate + 1)
  BY <1>2, TimesNext
<1>4. forward * (rate \div 2) \in Nat /\ overlaps * (rate + 1) \in Nat
  BY <1>2, TimesIsNat
<1>. QED  BY <1>1, <1>2, <1>3, <1>4 DEF Allowance

LEMMA GlobalBegin ==
    ASSUME LimitTyped, LimitTyped', GlobalWithin, NEW p \in Consumers, NEW s, BeginConsume(p, s)
    PROVE  GlobalWithin'
<1>. DEFINE c == [NoConsume EXCEPT !.at = "global", !.of = s, !.now = wall]
<1>1. c.at = "global" /\ c.now = wall
  BY DEF NoConsume
<1>2. ConsumeGoto(p, c) /\ buckets' = buckets /\ passed' = passed /\ wall' = wall /\ p \notin Calls
  BY DEF BeginConsume, Calls
<1>. HIDE DEF c
<1>3. PassedInAll(passed) \in Nat /\ PerGlobal \in Nat
      /\ buckets[Everyone] \in BucketRecords /\ wall \in Nat
  BY PassedNat, BucketNames DEF LimitTyped
<1>4. \A q \in Calls : GlobalHeld[q] \in Nat /\ Times[q] \in Nat
  BY GlobalHeldNat
<1>5. Calls' = Calls \cup {p} /\ Times'[p] = wall /\ \A q \in Calls : Times'[q] = Times[q]
  BY <1>1, <1>2, GotoCalls, CallsFinite
<1>6. GlobalHeld'[p] = Holds(buckets[Everyone], PerGlobal, wall)
  BY <1>1, <1>2, GotoCalls DEF GlobalHeld
<1>7. Within(PassedInAll(passed), Calls \cup {p}, buckets[Everyone], PerGlobal, GlobalHeld', Times',
             wall, Allowance(PerGlobal)')
  BY <1>2, <1>3, <1>5, <1>6, GlobalAccount, AllowanceRaised, WithinBegin
<1>8. PassedInAll(passed)' = PassedInAll(passed)
  BY <1>2, PassedIsSum
<1>. QED  BY <1>2, <1>5, <1>7, <1>8 DEF GlobalWithin

(* A call ends without a word: refused, or cut short.                      *)
LEMMA GlobalEnds ==
    ASSUME LimitTyped, LimitTyped', GlobalWithin, NEW p \in Calls, ConsumeGoto(p, NoConsume),
           buckets' = buckets, passed' = passed, wall' = wall, forward' = forward, overlaps' = overlaps
    PROVE  GlobalWithin'
<1>1. PassedInAll(passed) \in Nat /\ PerGlobal \in Nat /\ Allowance(PerGlobal) \in Nat
      /\ buckets[Everyone] \in BucketRecords /\ wall \in Nat /\ p \in Consumers
  BY PassedNat, BucketNames, AllowanceNat, CallsFinite DEF LimitTyped
<1>2. \A q \in Calls : GlobalHeld[q] \in Nat /\ Times[q] \in Nat
  BY GlobalHeldNat
<1>3. Calls' = Calls \ {p} /\ \A q \in Calls \ {p} : Times'[q] = Times[q]
  BY <1>1, IdleIsSound, GotoCalls, CallsFinite
<1>w. Account(PassedInAll(passed), Calls, buckets[Everyone], PerGlobal, GlobalHeld, Times,
              wall, Allowance(PerGlobal))
  BY GlobalAccount
<1>n. PassedInAll(passed) <= PassedInAll(passed)
  BY <1>1
<1>4. Within(PassedInAll(passed), Calls \ {p}, buckets[Everyone], PerGlobal, GlobalHeld', Times',
             wall, Allowance(PerGlobal))
  BY <1>1, <1>2, <1>3, <1>w, WithinQuit
<1>5. PassedInAll(passed)' = PassedInAll(passed) /\ Allowance(PerGlobal)' = Allowance(PerGlobal)
  BY PassedIsSum, AllowanceSame
<1>. QED  BY <1>3, <1>4, <1>5 DEF GlobalWithin

LEMMA GlobalCharge ==
    ASSUME LimitTyped, LimitTyped', CallsAreSound, GlobalWithin, NEW p \in Consumers, ChargeGlobal(p)
    PROVE  GlobalWithin'
<1>1. /\ p \in Calls /\ consume[p].at = "chargeGlobal" /\ ConsumeGoto(p, NoConsume)
      /\ SetBucket(Everyone, consume[p].global - 1, consume[p].now)
      /\ wall' = wall /\ forward' = forward /\ overlaps' = overlaps
      /\ passed' = [passed EXCEPT ![consume[p].of] = @ + 1]
  BY DEF ChargeGlobal, Calls, Busy
<1>2. PassedInAll(passed) \in Nat /\ PerGlobal \in Nat /\ Allowance(PerGlobal) \in Nat
      /\ buckets[Everyone] \in BucketRecords /\ wall \in Nat
  BY PassedNat, BucketNames, AllowanceNat DEF LimitTyped
<1>3. \A q \in Calls : GlobalHeld[q] \in Nat /\ Times[q] \in Nat
  BY GlobalHeldNat
<1>4. Calls' = Calls \ {p} /\ \A q \in Calls \ {p} : Times'[q] = Times[q]
  BY <1>1, IdleIsSound, GotoCalls, CallsFinite
<1>5. GlobalHeld[p] = consume[p].global /\ Times[p] = consume[p].now
  BY <1>1 DEF GlobalHeld, Times
<1>6. consume[p].global \in Nat /\ consume[p].global >= 1 /\ consume[p].global <= PerGlobal
      /\ consume[p].of \in Senders \cup {Unknown}
  BY <1>1 DEF CallsAreSound, CallIsSound, LimitTyped, CallRecords
<1>7. GlobalHeld[p] >= 1 /\ GlobalHeld[p] <= PerGlobal
  BY <1>2, <1>5, <1>6
<1>8. buckets'[Everyone] = [kept |-> TRUE, tokens |-> GlobalHeld[p] - 1, at |-> Times[p]]
  BY <1>1, <1>5, BucketNames DEF SetBucket, LimitTyped
<1>9. PassedInAll(passed') = PassedInAll(passed) + 1
  BY <1>1, <1>6, PassedOneMore DEF LimitTyped
<1>10. buckets'[Everyone] \in BucketRecords /\ PassedInAll(passed) + 1 \in Nat
  BY <1>2, BucketNames DEF LimitTyped
<1>w. Account(PassedInAll(passed), Calls, buckets[Everyone], PerGlobal, GlobalHeld, Times,
              wall, Allowance(PerGlobal))
  BY GlobalAccount
<1>11. Within(PassedInAll(passed) + 1, Calls \ {p}, buckets'[Everyone], PerGlobal, GlobalHeld', Times',
              wall, Allowance(PerGlobal))
  BY <1>1, <1>2, <1>3, <1>4, <1>7, <1>8, <1>w, WithinPay
<1>12. Allowance(PerGlobal)' = Allowance(PerGlobal) /\ PassedInAll(passed)' = PassedInAll(passed')
  BY <1>1, AllowanceSame, PassedIsSum
<1>. QED  BY <1>1, <1>4, <1>9, <1>11, <1>12 DEF GlobalWithin

LEMMA GlobalCreate ==
    ASSUME LimitTyped, LimitTyped', CallsAreSound, GlobalWithin, NEW p \in Consumers, CreateGlobal(p)
    PROVE  GlobalWithin'
<1>. DEFINE c == AfterGlobal(consume[p], PerGlobal)
<1>1. /\ p \in Calls /\ consume[p].at = "newGlobal" /\ ConsumeGoto(p, c)
      /\ SetBucket(Everyone, PerGlobal, consume[p].now)
      /\ wall' = wall /\ forward' = forward /\ overlaps' = overlaps /\ passed' = passed
  BY DEF CreateGlobal, Calls, Busy
<1>2. PassedInAll(passed) \in Nat /\ PerGlobal \in Nat /\ Allowance(PerGlobal) \in Nat
      /\ buckets[Everyone] \in BucketRecords /\ wall \in Nat /\ consume[p] \in CallRecords
  BY PassedNat, BucketNames, AllowanceNat DEF LimitTyped
<1>3. \A q \in Calls : GlobalHeld[q] \in Nat /\ Times[q] \in Nat
  BY GlobalHeldNat
<1>4. c.at \in {"charge", "contact"} /\ c.global = PerGlobal /\ c.now = consume[p].now
  BY <1>2, AfterGlobalSound
<1>. HIDE DEF c
<1>5. Calls' = Calls /\ \A q \in Calls : Times'[q] = Times[q]
  <2>1. c.at # "idle"
    BY <1>4
  <2>2. Times[p] = consume[p].now
    BY DEF Times
  <2>. QED  BY <1>1, <1>4, <2>1, <2>2, GotoCalls, CallsFinite
<1>6. GlobalHeld[p] = PerGlobal /\ GlobalHeld'[p] = PerGlobal /\ Times[p] = consume[p].now
  <2>1. consume'[p] = c
    BY <1>1, GotoCalls
  <2>. QED  BY <1>1, <1>4, <2>1 DEF GlobalHeld, Times
<1>7. buckets'[Everyone] = [kept |-> TRUE, tokens |-> PerGlobal, at |-> Times[p]]
  BY <1>1, <1>6, BucketNames DEF SetBucket, LimitTyped
<1>w. Account(PassedInAll(passed), Calls, buckets[Everyone], PerGlobal, GlobalHeld, Times,
              wall, Allowance(PerGlobal))
  BY GlobalAccount
<1>8. Within(PassedInAll(passed), Calls, buckets'[Everyone], PerGlobal, GlobalHeld', Times',
             wall, Allowance(PerGlobal))
  BY <1>1, <1>2, <1>3, <1>5, <1>6, <1>7, <1>w, WithinCreate
<1>9. PassedInAll(passed)' = PassedInAll(passed) /\ Allowance(PerGlobal)' = Allowance(PerGlobal)
  BY <1>1, PassedIsSum, AllowanceSame
<1>. QED  BY <1>1, <1>5, <1>8, <1>9 DEF GlobalWithin

LEMMA GlobalGet ==
    ASSUME LimitTyped, LimitTyped', CallsAreSound, GlobalWithin, NEW p \in Consumers, GetGlobal(p)
    PROVE  GlobalWithin'
<1>. DEFINE c == IF buckets[Everyone].kept
                 THEN AfterGlobal(consume[p], Refilled(Everyone, consume[p].now))
                 ELSE [consume[p] EXCEPT !.at = "newGlobal"]
<1>1. p \in Calls /\ consume[p].at = "global" /\ ConsumeGoto(p, c) /\ buckets' = buckets
      /\ passed' = passed /\ wall' = wall /\ forward' = forward /\ overlaps' = overlaps
  BY DEF GetGlobal, Calls, Busy
<1>2. consume[p] \in CallRecords /\ consume[p].now \in Nat
  BY DEF LimitTyped, CallRecords
<1>3. GlobalHeld[p] = Holds(buckets[Everyone], PerGlobal, consume[p].now)
  BY <1>1 DEF GlobalHeld
<1>4. /\ c.now = consume[p].now
      /\ \/ c.at \in {"charge", "contact"} /\ c.global = GlobalHeld[p]
         \/ c.at = "newGlobal" /\ GlobalHeld[p] = PerGlobal
  <2>1. CASE buckets[Everyone].kept
    <3>1. Refilled(Everyone, consume[p].now) \in Nat /\ Refilled(Everyone, consume[p].now) <= PerGlobal
      BY <1>2, <2>1, RefilledIsNat, BucketNames
    <3>2. Refilled(Everyone, consume[p].now) = GlobalHeld[p]
      BY <1>2, <1>3, <2>1, RefilledHolds, BucketNames
    <3>. QED  BY <1>2, <2>1, <3>1, <3>2, AfterGlobalSound
  <2>2. CASE ~ buckets[Everyone].kept
    <3>1. c.at = "newGlobal" /\ c.now = consume[p].now
      BY <1>2, <2>2 DEF CallRecords
    <3>2. GlobalHeld[p] = PerGlobal
      BY <1>3, <2>2 DEF Holds
    <3>. QED  BY <3>1, <3>2
  <2>. QED  BY <2>1, <2>2
<1>. HIDE DEF c
<1>5. Calls' = Calls /\ \A q \in Calls : Times'[q] = Times[q]
  <2>1. c.at # "idle"
    BY <1>4
  <2>2. Times[p] = consume[p].now
    BY DEF Times
  <2>. QED  BY <1>1, <1>4, <2>1, <2>2, GotoCalls, CallsFinite
<1>6. \A q \in Calls : GlobalHeld'[q] = GlobalHeld[q]
  <2>1. consume'[p] = c /\ \A q \in Consumers \ {p} : consume'[q] = consume[q]
    BY <1>1, GotoCalls
  <2>2. GlobalHeld'[p] = GlobalHeld[p]
    BY <1>4, <2>1 DEF GlobalHeld
  <2>3. \A q \in Consumers \ {p} : GlobalHeld'[q] = GlobalHeld[q]
    BY <1>1, <2>1 DEF GlobalHeld
  <2>. QED  BY <2>2, <2>3, CallsFinite
<1>7. \A q \in Calls : GlobalHeld'[q] \in Nat /\ GlobalHeld'[q] <= GlobalHeld[q]
  BY <1>6, GlobalHeldNat
<1>8. Allowance(PerGlobal)' = Allowance(PerGlobal) /\ wall' <= wall
  BY <1>1, AllowanceSame DEF LimitTyped
<1>. QED  BY <1>1, <1>5, <1>7, <1>8, GlobalKept

(* The steps on a contact's bucket.                                        *)
LEMMA GlobalElsewhere ==
    ASSUME LimitTyped, LimitTyped', GlobalWithin, NEW p \in Consumers, NEW c, ConsumeGoto(p, c),
           consume[p].at \in {"contact", "newContact", "charge"},
           c.at \in {"contact", "newContact", "charge", "chargeGlobal"},
           c.global = consume[p].global, c.now = consume[p].now,
           buckets'[Everyone] = buckets[Everyone], passed' = passed, wall' = wall,
           forward' = forward, overlaps' = overlaps
    PROVE  GlobalWithin'
<1>1. p \in Calls /\ c.at # "idle"
  BY DEF Calls, Busy
<1>2. consume'[p] = c /\ \A q \in Consumers \ {p} : consume'[q] = consume[q]
  BY GotoCalls
<1>3. Calls' = Calls /\ \A q \in Calls : Times'[q] = Times[q]
  <2>1. Times[p] = consume[p].now
    BY DEF Times
  <2>. QED  BY <1>1, <2>1, GotoCalls, CallsFinite
<1>4. GlobalHeld'[p] = GlobalHeld[p]
  BY <1>2 DEF GlobalHeld
<1>5. \A q \in Consumers \ {p} : GlobalHeld'[q] = GlobalHeld[q]
  BY <1>2 DEF GlobalHeld
<1>6. \A q \in Calls : GlobalHeld'[q] \in Nat /\ GlobalHeld'[q] <= GlobalHeld[q]
  BY <1>4, <1>5, GlobalHeldNat, CallsFinite
<1>7. Allowance(PerGlobal)' = Allowance(PerGlobal) /\ wall' <= wall
  BY AllowanceSame DEF LimitTyped
<1>. QED  BY <1>3, <1>6, <1>7, GlobalKept

(* The calls of one contact: those that have paid its bucket, and those    *)
(* that are still to, with what one that is alone will pay from.           *)
ToPay == {"global", "newGlobal", "contact", "newContact", "charge"}
Paying(s) == {p \in Consumers : consume[p].of = s /\ consume[p].at \in ToPay}
Paid(s) == {p \in Consumers : consume[p].of = s /\ consume[p].at = "chargeGlobal"}
Charged(s) == passed[s] + Cardinality(Paid(s))

ContactHeld(s) ==
    [p \in Consumers |->
        CASE consume[p].at = "charge" -> consume[p].contact
          [] consume[p].at = "newContact" -> PerContact
          [] OTHER -> Holds(buckets[s], PerContact, consume[p].now)]

ContactWithin(s) ==
    Within(Charged(s), Paying(s), buckets[s], PerContact, ContactHeld(s), Times, wall,
           Allowance(PerContact))

LEMMA CallsOfOne ==
    ASSUME NEW s
    PROVE  IsFiniteSet(Paying(s)) /\ IsFiniteSet(Paid(s)) /\ Cardinality(Paid(s)) \in Nat
           /\ Paying(s) \subseteq Consumers /\ Paid(s) \subseteq Consumers /\ Paying(s) \subseteq Calls
<1>1. Paying(s) \subseteq Consumers /\ Paid(s) \subseteq Consumers
  BY DEF Paying, Paid
<1>2. IsFiniteSet(Paying(s)) /\ IsFiniteSet(Paid(s))
  BY <1>1, FS_Subset
<1>3. Paying(s) \subseteq Calls
  BY DEF Paying, Calls, Busy, ToPay
<1>. QED  BY <1>1, <1>2, <1>3, FS_CardinalityType

LEMMA ContactAccount ==
    ASSUME LimitTyped, NEW s \in Senders, ContactWithin(s)
    PROVE  Account(Charged(s), Paying(s), buckets[s], PerContact, ContactHeld(s), Times, wall,
                   Allowance(PerContact))
<1>1. Charged(s) \in Nat
  BY CallsOfOne DEF Charged, LimitTyped
<1>2. Allowance(PerContact) \in Nat /\ PerContact \in Nat /\ buckets[s] \in BucketRecords /\ wall \in Nat
  BY AllowanceNat, BucketNames DEF LimitTyped
<1>3. ASSUME NEW p \in Paying(s) PROVE ContactHeld(s)[p] \in Nat /\ Times[p] \in Nat
  <2>1. p \in Consumers
    BY CallsOfOne
  <2>2. consume[p].now \in Nat /\ consume[p].contact \in Nat
    BY <2>1 DEF LimitTyped, CallRecords
  <2>3. Holds(buckets[s], PerContact, consume[p].now) \in Nat
    BY <1>2, <2>2, HoldsFacts
  <2>4. ContactHeld(s)[p] \in Nat
    BY <1>2, <2>1, <2>2, <2>3 DEF ContactHeld
  <2>. QED  BY <2>1, <2>2, <2>4 DEF Times
<1>. QED  BY <1>1, <1>2, <1>3, CallsOfOne DEF Account, ContactWithin

(* Nothing was charged to this contact and no call of it came or went.     *)
LEMMA ContactKept ==
    ASSUME LimitTyped, LimitTyped', NEW s \in Senders, ContactWithin(s), Paying(s)' = Paying(s),
           \A p \in Paying(s) : Times'[p] = Times[p] /\ ContactHeld(s)'[p] = ContactHeld(s)[p],
           Charged(s)' <= Charged(s), buckets'[s] = buckets[s], wall' <= wall,
           Allowance(PerContact) <= Allowance(PerContact)'
    PROVE  ContactWithin(s)'
<1>1. Account(Charged(s), Paying(s), buckets[s], PerContact, ContactHeld(s), Times, wall,
              Allowance(PerContact))
  BY ContactAccount
<1>2. Charged(s)' \in Nat
  <2>1. passed'[s] \in Nat
    BY DEF LimitTyped
  <2>2. Cardinality(Paid(s)') \in Nat
    <3>1. Paid(s)' \subseteq Consumers
      BY DEF Paid
    <3>. QED  BY <3>1, FS_Subset, FS_CardinalityType
  <2>. QED  BY <2>1, <2>2 DEF Charged
<1>3. wall' \in Nat /\ Allowance(PerContact)' \in Nat
  <2>1. forward' \in Nat /\ overlaps' \in Nat /\ PerContact \div 2 \in Nat /\ PerContact + 1 \in Nat
    BY BucketNames, HalfIsNat DEF LimitTyped
  <2>2. forward' * (PerContact \div 2) \in Nat /\ overlaps' * (PerContact + 1) \in Nat
    BY <2>1, TimesIsNat
  <2>3. wall' \in Nat
    BY DEF LimitTyped
  <2>4. \A x, y, z \in Nat : x + y + z \in Nat
    OBVIOUS
  <2>5. Allowance(PerContact)' \in Nat
    BY <2>2, <2>4, BucketNames DEF Allowance
  <2>. QED  BY <2>3, <2>5
<1>4. \A p \in Paying(s) : ContactHeld(s)'[p] \in Nat /\ ContactHeld(s)'[p] <= ContactHeld(s)[p]
  BY <1>1 DEF Account
<1>5. Within(Charged(s)', Paying(s), buckets[s], PerContact, ContactHeld(s)', Times', wall',
             Allowance(PerContact)')
  BY <1>1, <1>2, <1>3, <1>4, WithinLess
<1>. QED  BY <1>5 DEF ContactWithin

(* Where a call goes.                                                      *)
LEMMA ContactGoto ==
    ASSUME LimitTyped, NEW p \in Consumers, NEW c, ConsumeGoto(p, c), NEW s
    PROVE  /\ c.of = s /\ c.at \in ToPay => Paying(s)' = Paying(s) \cup {p}
           /\ c.of # s \/ c.at \notin ToPay => Paying(s)' = Paying(s) \ {p}
           /\ c.of = s /\ c.at = "chargeGlobal" => Paid(s)' = Paid(s) \cup {p}
           /\ c.of # s \/ c.at # "chargeGlobal" => Paid(s)' = Paid(s) \ {p}
           /\ consume'[p] = c
           /\ \A q \in Consumers \ {p} : Times'[q] = Times[q]
           /\ Times'[p] = c.now
           /\ buckets'[s] = buckets[s] =>
                 \A q \in Consumers \ {p} : ContactHeld(s)'[q] = ContactHeld(s)[q]
<1>1. \A q \in Consumers : consume'[q] = IF q = p THEN c ELSE consume[q]
  BY GotoCalls
<1>2. /\ c.of = s /\ c.at \in ToPay => Paying(s)' = Paying(s) \cup {p}
      /\ c.of # s \/ c.at \notin ToPay => Paying(s)' = Paying(s) \ {p}
  BY <1>1 DEF Paying
<1>3. /\ c.of = s /\ c.at = "chargeGlobal" => Paid(s)' = Paid(s) \cup {p}
      /\ c.of # s \/ c.at # "chargeGlobal" => Paid(s)' = Paid(s) \ {p}
  BY <1>1 DEF Paid
<1>4. buckets'[s] = buckets[s] => \A q \in Consumers \ {p} : ContactHeld(s)'[q] = ContactHeld(s)[q]
  BY <1>1 DEF ContactHeld
<1>. QED  BY <1>1, <1>2, <1>3, <1>4, GotoCalls

(* A call of someone else moves.                                           *)
LEMMA ContactOther ==
    ASSUME LimitTyped, LimitTyped', NEW s \in Senders, ContactWithin(s),
           NEW p \in Consumers, NEW c, ConsumeGoto(p, c), consume[p].of # s, c.of # s,
           passed'[s] = passed[s], buckets'[s] = buckets[s], wall' = wall,
           forward' = forward, overlaps' = overlaps
    PROVE  ContactWithin(s)'
<1>1. p \notin Paying(s) /\ p \notin Paid(s)
  BY DEF Paying, Paid
<1>2. Paying(s)' = Paying(s) /\ Paid(s)' = Paid(s)
  <2>1. Paying(s)' = Paying(s) \ {p} /\ Paid(s)' = Paid(s) \ {p}
    BY ContactGoto
  <2>. QED  BY <1>1, <2>1
<1>3. \A q \in Paying(s) : Times'[q] = Times[q] /\ ContactHeld(s)'[q] = ContactHeld(s)[q]
  BY <1>1, ContactGoto, CallsOfOne
<1>4. Charged(s)' = Charged(s) /\ Charged(s) \in Nat
  BY <1>2, CallsOfOne DEF Charged, LimitTyped
<1>5. Allowance(PerContact)' = Allowance(PerContact) /\ Allowance(PerContact) \in Nat /\ wall \in Nat
  BY AllowanceSame, AllowanceNat, BucketNames DEF LimitTyped
<1>. QED  BY <1>2, <1>3, <1>4, <1>5, ContactKept

(* A call of this contact goes on and has not paid yet.                    *)
LEMMA ContactGoesOn ==
    ASSUME LimitTyped, LimitTyped', NEW s \in Senders, ContactWithin(s),
           NEW p \in Paying(s), NEW c, ConsumeGoto(p, c), c.of = s, c.at \in ToPay,
           c.now = consume[p].now, ContactHeld(s)'[p] = ContactHeld(s)[p],
           passed' = passed, buckets'[s] = buckets[s], wall' = wall,
           forward' = forward, overlaps' = overlaps
    PROVE  ContactWithin(s)'
<1>1. p \notin Paid(s) /\ p \in Consumers /\ c.at # "chargeGlobal"
  BY DEF Paying, Paid, ToPay
<1>2. Paying(s)' = Paying(s) /\ Paid(s)' = Paid(s)
  <2>1. Paying(s)' = Paying(s) \cup {p} /\ Paid(s)' = Paid(s) \ {p}
    BY <1>1, ContactGoto
  <2>. QED  BY <1>1, <2>1
<1>3. \A q \in Paying(s) : Times'[q] = Times[q] /\ ContactHeld(s)'[q] = ContactHeld(s)[q]
  <2>1. Times'[p] = Times[p]
    BY <1>1, ContactGoto DEF Times
  <2>. QED  BY <1>1, <2>1, ContactGoto, CallsOfOne
<1>4. Charged(s)' = Charged(s) /\ Charged(s) \in Nat
  BY <1>2, CallsOfOne DEF Charged, LimitTyped
<1>5. Allowance(PerContact)' = Allowance(PerContact) /\ Allowance(PerContact) \in Nat /\ wall \in Nat
  BY AllowanceSame, AllowanceNat, BucketNames DEF LimitTyped
<1>. QED  BY <1>2, <1>3, <1>4, <1>5, ContactKept

LEMMA ContactTick ==
    ASSUME LimitTyped, LimitTyped', NEW s \in Senders, ContactWithin(s), ClockTicks
    PROVE  ContactWithin(s)'
<1>1. Within(Charged(s), Paying(s), buckets[s], PerContact, ContactHeld(s), Times, wall + 1,
             Allowance(PerContact) + (PerContact \div 2))
  BY ContactAccount, WithinTick
<1>2. Allowance(PerContact)' = Allowance(PerContact) + (PerContact \div 2)
  <2>1. forward \in Nat /\ overlaps \in Nat /\ PerContact \div 2 \in Nat /\ PerContact \in Nat
    BY HalfIsNat DEF LimitTyped
  <2>2. (forward + 1) * (PerContact \div 2) = forward * (PerContact \div 2) + (PerContact \div 2)
    BY <2>1, TimesNext
  <2>3. forward * (PerContact \div 2) \in Nat /\ overlaps * (PerContact + 1) \in Nat
    BY <2>1, TimesIsNat
  <2>4. forward' = forward + 1 /\ overlaps' = overlaps
    BY DEF ClockTicks
  <2>. QED  BY <2>1, <2>2, <2>3, <2>4 DEF Allowance
<1>3. Paying(s)' = Paying(s) /\ Paid(s)' = Paid(s) /\ Times' = Times /\ ContactHeld(s)' = ContactHeld(s)
      /\ buckets' = buckets /\ passed' = passed /\ wall' = wall + 1
  BY DEF ClockTicks, Paying, Paid, Times, ContactHeld
<1>4. Charged(s)' = Charged(s)
  BY <1>3 DEF Charged
<1>. QED  BY <1>1, <1>2, <1>3, <1>4 DEF ContactWithin

LEMMA ContactBack ==
    ASSUME LimitTyped, LimitTyped', NEW s \in Senders, ContactWithin(s), ClockSetBack
    PROVE  ContactWithin(s)'
<1>1. Paying(s)' = Paying(s) /\ Paid(s)' = Paid(s) /\ Times' = Times /\ ContactHeld(s)' = ContactHeld(s)
      /\ buckets' = buckets /\ passed' = passed /\ wall' <= wall
  BY DEF ClockSetBack, Paying, Paid, Times, ContactHeld, LimitTyped
<1>2. Charged(s)' = Charged(s) /\ Charged(s) \in Nat
  BY <1>1, CallsOfOne DEF Charged, LimitTyped
<1>3. Allowance(PerContact)' = Allowance(PerContact) /\ Allowance(PerContact) \in Nat
  BY AllowanceSame, AllowanceNat, BucketNames DEF ClockSetBack
<1>. QED  BY <1>1, <1>2, <1>3, ContactKept

LEMMA ContactBegin ==
    ASSUME LimitTyped, LimitTyped', NEW s \in Senders, ContactWithin(s),
           NEW p \in Consumers, NEW r, BeginConsume(p, r)
    PROVE  ContactWithin(s)'
<1>. DEFINE c == [NoConsume EXCEPT !.at = "global", !.of = r, !.now = wall]
<1>1. c.at = "global" /\ c.now = wall /\ c.of = r
  BY DEF NoConsume
<1>2. ConsumeGoto(p, c) /\ buckets' = buckets /\ passed' = passed /\ wall' = wall /\ p \notin Calls
  BY DEF BeginConsume, Calls
<1>. HIDE DEF c
<1>3. /\ Allowance(PerContact) \in Nat /\ Allowance(PerContact)' \in Nat
      /\ Allowance(PerContact) <= Allowance(PerContact)'
      /\ Paying(s) # {} => Allowance(PerContact) + PerContact + 1 <= Allowance(PerContact)'
  BY AllowanceRaised, CallsOfOne, BucketNames
<1>4. p \notin Paying(s) /\ p \notin Paid(s)
  BY <1>2 DEF Calls, Paying, Paid, Busy, ToPay
<1>5. Paid(s)' = Paid(s)
  <2>1. Paid(s)' = Paid(s) \ {p}
    BY <1>1, <1>2, ContactGoto
  <2>. QED  BY <1>4, <2>1
<1>6. Charged(s)' = Charged(s) /\ Charged(s) \in Nat
  BY <1>2, <1>5, CallsOfOne DEF Charged, LimitTyped
<1>7. \A q \in Paying(s) : Times'[q] = Times[q] /\ ContactHeld(s)'[q] = ContactHeld(s)[q]
  BY <1>2, <1>4, ContactGoto, CallsOfOne
<1>8. CASE r # s
  <2>1. Paying(s)' = Paying(s)
    <3>1. Paying(s)' = Paying(s) \ {p}
      BY <1>1, <1>2, <1>8, ContactGoto
    <3>. QED  BY <1>4, <3>1
  <2>2. wall' <= wall
    BY <1>2 DEF LimitTyped
  <2>. QED  BY <1>2, <1>3, <1>6, <1>7, <2>1, <2>2, ContactKept
<1>9. CASE r = s
  <2>1. Paying(s)' = Paying(s) \cup {p}
    BY <1>1, <1>2, <1>9, ContactGoto DEF ToPay
  <2>2. Times'[p] = wall
    BY <1>1, <1>2, ContactGoto
  <2>3. ContactHeld(s)'[p] = Holds(buckets[s], PerContact, wall)
    <3>1. consume'[p] = c
      BY <1>2, ContactGoto
    <3>. QED  BY <1>1, <1>2, <3>1 DEF ContactHeld
  <2>4. Account(Charged(s), Paying(s), buckets[s], PerContact, ContactHeld(s), Times, wall,
                Allowance(PerContact))
    BY ContactAccount
  <2>5. Within(Charged(s), Paying(s) \cup {p}, buckets[s], PerContact, ContactHeld(s)', Times', wall,
               Allowance(PerContact)')
    BY <1>3, <1>4, <1>7, <2>2, <2>3, <2>4, WithinBegin
  <2>. QED  BY <1>2, <1>6, <2>1, <2>5 DEF ContactWithin
<1>. QED  BY <1>8, <1>9

LEMMA AfterGlobalGoesOn ==
    ASSUME LimitTyped, LimitTyped', NEW s \in Senders, ContactWithin(s),
           NEW p \in Consumers, consume[p].at \in {"global", "newGlobal"},
           NEW c, ConsumeGoto(p, c), c.of = consume[p].of, c.now = consume[p].now,
           c.of # Unknown => c.at \in {"newGlobal", "contact"},
           passed' = passed, buckets'[s] = buckets[s], wall' = wall,
           forward' = forward, overlaps' = overlaps
    PROVE  ContactWithin(s)'
<1>1. CASE consume[p].of # s
  BY <1>1, ContactOther
<1>2. CASE consume[p].of = s
  <2>1. p \in Paying(s) /\ c.at \in ToPay /\ c.at \in {"newGlobal", "contact"}
    BY <1>2, BucketNames DEF Paying, ToPay
  <2>2. consume'[p] = c
    BY ContactGoto
  <2>3. ContactHeld(s)'[p] = ContactHeld(s)[p]
    BY <2>1, <2>2 DEF ContactHeld
  <2>. QED  BY <1>2, <2>1, <2>3, ContactGoesOn
<1>. QED  BY <1>1, <1>2

LEMMA ContactGetGlobal ==
    ASSUME LimitTyped, LimitTyped', NEW s \in Senders, ContactWithin(s), NEW p \in Consumers, GetGlobal(p)
    PROVE  ContactWithin(s)'
<1>. DEFINE c == IF buckets[Everyone].kept
                 THEN AfterGlobal(consume[p], Refilled(Everyone, consume[p].now))
                 ELSE [consume[p] EXCEPT !.at = "newGlobal"]
<1>1. consume[p].at = "global" /\ ConsumeGoto(p, c) /\ buckets' = buckets
      /\ passed' = passed /\ wall' = wall /\ forward' = forward /\ overlaps' = overlaps
  BY DEF GetGlobal
<1>2. consume[p] \in CallRecords /\ consume[p].now \in Nat
  BY DEF LimitTyped, CallRecords
<1>3. /\ c.now = consume[p].now /\ c.of = consume[p].of
      /\ c.of # Unknown => c.at \in {"newGlobal", "contact"}
  <2>1. CASE buckets[Everyone].kept
    <3>1. Refilled(Everyone, consume[p].now) \in Nat /\ Refilled(Everyone, consume[p].now) <= PerGlobal
      BY <1>2, <2>1, RefilledIsNat, BucketNames
    <3>. QED  BY <1>2, <2>1, <3>1, AfterGlobalSound
  <2>2. CASE ~ buckets[Everyone].kept
    BY <1>2, <2>2 DEF CallRecords
  <2>. QED  BY <2>1, <2>2
<1>. HIDE DEF c
<1>. QED  BY <1>1, <1>3, AfterGlobalGoesOn

LEMMA ContactCreateGlobal ==
    ASSUME LimitTyped, LimitTyped', NEW s \in Senders, ContactWithin(s), NEW p \in Consumers, CreateGlobal(p)
    PROVE  ContactWithin(s)'
<1>. DEFINE c == AfterGlobal(consume[p], PerGlobal)
<1>1. consume[p].at = "newGlobal" /\ ConsumeGoto(p, c) /\ SetBucket(Everyone, PerGlobal, consume[p].now)
      /\ passed' = passed /\ wall' = wall /\ forward' = forward /\ overlaps' = overlaps
  BY DEF CreateGlobal
<1>2. consume[p] \in CallRecords
  BY DEF LimitTyped
<1>3. /\ c.now = consume[p].now /\ c.of = consume[p].of
      /\ c.of # Unknown => c.at \in {"newGlobal", "contact"}
  <2>1. PerGlobal \in Nat /\ PerGlobal <= PerGlobal
    BY BucketNames
  <2>. QED  BY <1>2, <2>1, AfterGlobalSound
<1>4. buckets'[s] = buckets[s]
  BY <1>1, BucketNames DEF SetBucket, LimitTyped
<1>. HIDE DEF c
<1>. QED  BY <1>1, <1>3, <1>4, AfterGlobalGoesOn

LEMMA ContactGetContact ==
    ASSUME LimitTyped, LimitTyped', NEW s \in Senders, ContactWithin(s), NEW p \in Consumers, GetContact(p)
    PROVE  ContactWithin(s)'
<1>. DEFINE c == IF buckets[consume[p].of].kept
                 THEN [consume[p] EXCEPT !.at = "charge", !.contact = Refilled(consume[p].of, consume[p].now)]
                 ELSE [consume[p] EXCEPT !.at = "newContact"]
<1>1. consume[p].at = "contact" /\ ConsumeGoto(p, c) /\ buckets' = buckets
      /\ passed' = passed /\ wall' = wall /\ forward' = forward /\ overlaps' = overlaps
  BY DEF GetContact
<1>2. consume[p] \in CallRecords /\ consume[p].now \in Nat
  BY DEF LimitTyped, CallRecords
<1>3. /\ c.of = consume[p].of /\ c.now = consume[p].now
      /\ \/ buckets[c.of].kept /\ c.at = "charge" /\ c.contact = Refilled(c.of, c.now)
         \/ ~buckets[c.of].kept /\ c.at = "newContact"
  BY <1>2 DEF CallRecords
<1>. HIDE DEF c
<1>4. CASE consume[p].of # s
  BY <1>1, <1>3, <1>4, ContactOther
<1>5. CASE consume[p].of = s
  <2>1. p \in Paying(s) /\ c.at \in ToPay
    BY <1>1, <1>3, <1>5 DEF Paying, ToPay
  <2>2. consume'[p] = c
    BY <1>1, ContactGoto
  <2>3. ContactHeld(s)[p] = Holds(buckets[s], PerContact, c.now)
    BY <1>1, <1>3 DEF ContactHeld
  <2>4. ContactHeld(s)'[p] = Holds(buckets[s], PerContact, c.now)
    <3>1. CASE buckets[s].kept
      <4>1. Refilled(s, c.now) = Holds(buckets[s], PerContact, c.now)
        BY <1>2, <1>3, <3>1, RefilledHolds, BucketNames
      <4>. QED  BY <1>3, <1>5, <2>2, <3>1, <4>1 DEF ContactHeld
    <3>2. CASE ~buckets[s].kept
      <4>1. Holds(buckets[s], PerContact, c.now) = PerContact
        BY <3>2 DEF Holds
      <4>. QED  BY <1>3, <1>5, <2>2, <3>2, <4>1 DEF ContactHeld
    <3>. QED  BY <3>1, <3>2
  <2>. QED  BY <1>1, <1>3, <1>5, <2>1, <2>3, <2>4, ContactGoesOn
<1>. QED  BY <1>4, <1>5

LEMMA ContactCreateContact ==
    ASSUME LimitTyped, LimitTyped', NEW s \in Senders, ContactWithin(s), NEW p \in Consumers, CreateContact(p),
           CallsAreSound
    PROVE  ContactWithin(s)'
<1>. DEFINE c == [consume[p] EXCEPT !.at = "charge", !.contact = PerContact]
<1>1. consume[p].at = "newContact" /\ ConsumeGoto(p, c)
      /\ SetBucket(consume[p].of, PerContact, consume[p].now)
      /\ passed' = passed /\ wall' = wall /\ forward' = forward /\ overlaps' = overlaps
  BY DEF CreateContact
<1>2. consume[p] \in CallRecords /\ consume[p].of \in Buckets
  BY <1>1, BucketNames DEF LimitTyped, CallRecords, CallsAreSound, CallIsSound, Buckets
<1>3. c.of = consume[p].of /\ c.now = consume[p].now /\ c.at = "charge" /\ c.contact = PerContact
  BY <1>2 DEF CallRecords
<1>. HIDE DEF c
<1>4. CASE consume[p].of # s
  <2>1. buckets'[s] = buckets[s]
    BY <1>1, <1>4, BucketNames DEF SetBucket, LimitTyped
  <2>. QED  BY <1>1, <1>3, <1>4, <2>1, ContactOther
<1>5. CASE consume[p].of = s
  <2>1. p \in Paying(s) /\ p \notin Paid(s) /\ c.at \in ToPay
    BY <1>1, <1>3, <1>5 DEF Paying, Paid, ToPay
  <2>2. Paying(s)' = Paying(s) /\ Paid(s)' = Paid(s)
    <3>1. Paying(s)' = Paying(s) \cup {p} /\ Paid(s)' = Paid(s) \ {p}
      BY <1>1, <1>3, <1>5, <2>1, ContactGoto
    <3>. QED  BY <2>1, <3>1
  <2>3. Times[p] = consume[p].now
    BY DEF Times
  <2>4. \A q \in Paying(s) : Times'[q] = Times[q]
    BY <1>1, <1>3, <2>3, ContactGoto, CallsOfOne
  <2>5. ContactHeld(s)[p] = PerContact /\ ContactHeld(s)'[p] = PerContact
    <3>1. consume'[p] = c
      BY <1>1, ContactGoto
    <3>. QED  BY <1>1, <1>3, <3>1 DEF ContactHeld
  <2>6. buckets'[s] = [kept |-> TRUE, tokens |-> PerContact, at |-> Times[p]]
    BY <1>1, <1>5, <2>3, BucketNames DEF SetBucket, LimitTyped
  <2>7. Account(Charged(s), Paying(s), buckets[s], PerContact, ContactHeld(s), Times, wall,
                Allowance(PerContact))
    BY ContactAccount
  <2>8. Within(Charged(s), Paying(s), buckets'[s], PerContact, ContactHeld(s)', Times', wall,
               Allowance(PerContact))
    BY <2>1, <2>4, <2>5, <2>6, <2>7, WithinCreate
  <2>9. Charged(s)' = Charged(s) /\ Allowance(PerContact)' = Allowance(PerContact)
    BY <1>1, <2>2, AllowanceSame DEF Charged
  <2>. QED  BY <1>1, <2>2, <2>8, <2>9 DEF ContactWithin
<1>. QED  BY <1>4, <1>5

(* A call that has not paid ends, and pays nothing.                        *)
LEMMA ContactQuits ==
    ASSUME LimitTyped, LimitTyped', NEW s \in Senders, ContactWithin(s), NEW p \in Consumers,
           consume[p].at # "chargeGlobal", ConsumeGoto(p, NoConsume), Busy(p),
           passed' = passed, buckets' = buckets, wall' = wall, forward' = forward, overlaps' = overlaps
    PROVE  ContactWithin(s)'
<1>1. NoConsume.of # s /\ NoConsume.at \notin ToPay /\ NoConsume.at # "chargeGlobal"
  BY BucketNames DEF NoConsume, ToPay
<1>2. CASE consume[p].of # s
  BY <1>1, <1>2, ContactOther
<1>3. CASE consume[p].of = s
  <2>1. p \in Paying(s) /\ p \notin Paid(s)
    BY <1>3 DEF Paying, Paid, ToPay, Busy, LimitTyped, CallRecords
  <2>2. Paying(s)' = Paying(s) \ {p} /\ Paid(s)' = Paid(s)
    <3>1. Paying(s)' = Paying(s) \ {p} /\ Paid(s)' = Paid(s) \ {p}
      BY <1>1, ContactGoto
    <3>. QED  BY <2>1, <3>1
  <2>3. \A q \in Paying(s) \ {p} : Times'[q] = Times[q]
    BY ContactGoto, CallsOfOne
  <2>4. Account(Charged(s), Paying(s), buckets[s], PerContact, ContactHeld(s), Times, wall,
                Allowance(PerContact))
    BY ContactAccount
  <2>5. Within(Charged(s), Paying(s) \ {p}, buckets[s], PerContact, ContactHeld(s)', Times', wall,
               Allowance(PerContact))
    BY <2>1, <2>3, <2>4, WithinQuit
  <2>6. Charged(s)' = Charged(s) /\ Allowance(PerContact)' = Allowance(PerContact)
    BY <2>2, AllowanceSame DEF Charged
  <2>. QED  BY <2>2, <2>5, <2>6 DEF ContactWithin
<1>. QED  BY <1>2, <1>3

(* One that has paid ends: what it paid is passed, or lost.                *)
LEMMA ContactSettles ==
    ASSUME LimitTyped, LimitTyped', NEW s \in Senders, ContactWithin(s), NEW p \in Consumers,
           consume[p].at = "chargeGlobal", consume[p].of = s, ConsumeGoto(p, NoConsume),
           passed'[s] <= passed[s] + 1,
           buckets'[s] = buckets[s], wall' = wall, forward' = forward, overlaps' = overlaps
    PROVE  ContactWithin(s)'
<1>1. NoConsume.of # s /\ NoConsume.at \notin ToPay /\ NoConsume.at # "chargeGlobal"
  BY BucketNames DEF NoConsume, ToPay
<1>2. p \notin Paying(s) /\ p \in Paid(s)
  BY DEF Paying, Paid, ToPay
<1>3. Paying(s)' = Paying(s) /\ Paid(s)' = Paid(s) \ {p}
  <2>1. Paying(s)' = Paying(s) \ {p} /\ Paid(s)' = Paid(s) \ {p}
    BY <1>1, ContactGoto
  <2>. QED  BY <1>2, <2>1
<1>4. \A q \in Paying(s) : Times'[q] = Times[q] /\ ContactHeld(s)'[q] = ContactHeld(s)[q]
  BY <1>2, ContactGoto, CallsOfOne
<1>5. Cardinality(Paid(s) \ {p}) = Cardinality(Paid(s)) - 1 /\ Cardinality(Paid(s)) \in Nat
  <2>1. IsFiniteSet(Paid(s)) /\ Cardinality(Paid(s)) \in Nat
    BY CallsOfOne
  <2>. QED  BY <1>2, <2>1, FS_RemoveElement
<1>6. Charged(s)' <= Charged(s)
  <2>1. Charged(s)' = passed'[s] + (Cardinality(Paid(s)) - 1)
    BY <1>3, <1>5 DEF Charged
  <2>2. passed[s] \in Nat /\ passed'[s] \in Nat
    BY DEF LimitTyped
  <2>. QED  BY <1>5, <2>1, <2>2 DEF Charged
<1>7. Allowance(PerContact)' = Allowance(PerContact) /\ Allowance(PerContact) \in Nat /\ wall \in Nat
  BY AllowanceSame, AllowanceNat, BucketNames DEF LimitTyped
<1>. QED  BY <1>3, <1>4, <1>6, <1>7, ContactKept

LEMMA ContactTurnAway ==
    ASSUME LimitTyped, LimitTyped', NEW s \in Senders, ContactWithin(s), NEW p \in Consumers, TurnAway(p)
    PROVE  ContactWithin(s)'
<1>1. /\ consume[p].at = "charge" /\ ConsumeGoto(p, NoConsume) /\ buckets' = buckets
      /\ passed' = passed /\ wall' = wall /\ forward' = forward /\ overlaps' = overlaps
  BY DEF TurnAway, Refuse
<1>2. Busy(p)
  BY <1>1 DEF Busy
<1>. QED  BY <1>1, <1>2, ContactQuits

LEMMA ContactCutShort ==
    ASSUME LimitTyped, LimitTyped', NEW s \in Senders, ContactWithin(s), NEW p \in Consumers, CutShort(p)
    PROVE  ContactWithin(s)'
<1>1. /\ Busy(p) /\ ConsumeGoto(p, NoConsume) /\ passed' = passed /\ buckets' = buckets /\ wall' = wall
      /\ forward' = forward /\ overlaps' = overlaps
  BY DEF CutShort
<1>2. CASE consume[p].at # "chargeGlobal"
  BY <1>1, <1>2, ContactQuits
<1>3. CASE consume[p].at = "chargeGlobal" /\ consume[p].of = s
  <2>1. passed'[s] <= passed[s] + 1
    BY <1>1 DEF LimitTyped
  <2>. QED  BY <1>1, <1>3, <2>1, ContactSettles
<1>4. CASE consume[p].of # s
  <2>1. NoConsume.of # s
    BY BucketNames DEF NoConsume
  <2>. QED  BY <1>1, <1>4, <2>1, ContactOther
<1>. QED  BY <1>2, <1>3, <1>4

LEMMA ContactChargeGlobal ==
    ASSUME LimitTyped, LimitTyped', NEW s \in Senders, ContactWithin(s), NEW p \in Consumers, ChargeGlobal(p)
    PROVE  ContactWithin(s)'
<1>1. /\ consume[p].at = "chargeGlobal" /\ ConsumeGoto(p, NoConsume)
      /\ SetBucket(Everyone, consume[p].global - 1, consume[p].now)
      /\ passed' = [passed EXCEPT ![consume[p].of] = @ + 1] /\ wall' = wall
      /\ forward' = forward /\ overlaps' = overlaps
  BY DEF ChargeGlobal
<1>2. buckets'[s] = buckets[s]
  BY <1>1, BucketNames DEF SetBucket, LimitTyped
<1>3. passed \in [Senders \cup {Unknown} -> Nat]
  BY DEF LimitTyped
<1>4. CASE consume[p].of = s
  <2>1. passed'[s] <= passed[s] + 1
    BY <1>1, <1>3, <1>4
  <2>. QED  BY <1>1, <1>2, <1>4, <2>1, ContactSettles
<1>5. CASE consume[p].of # s
  <2>1. NoConsume.of # s
    BY BucketNames DEF NoConsume
  <2>2. passed'[s] = passed[s]
    BY <1>1, <1>3, <1>5
  <2>. QED  BY <1>1, <1>2, <1>5, <2>1, <2>2, ContactOther
<1>. QED  BY <1>4, <1>5

LEMMA ContactChargeContact ==
    ASSUME LimitTyped, LimitTyped', CallsAreSound, NEW s \in Senders, ContactWithin(s),
           NEW p \in Consumers, ChargeContact(p)
    PROVE  ContactWithin(s)'
<1>. DEFINE c == [consume[p] EXCEPT !.at = "chargeGlobal"]
<1>1. /\ consume[p].at = "charge" /\ Affordable(consume[p]) /\ ConsumeGoto(p, c)
      /\ IF consume[p].of = Unknown THEN UNCHANGED buckets
         ELSE SetBucket(consume[p].of, consume[p].contact - 1, consume[p].now)
      /\ passed' = passed /\ wall' = wall /\ forward' = forward /\ overlaps' = overlaps
  BY DEF ChargeContact
<1>2. consume[p] \in CallRecords
  BY DEF LimitTyped
<1>3. c.at = "chargeGlobal" /\ c.of = consume[p].of
  BY <1>2 DEF CallRecords
<1>. HIDE DEF c
<1>4. CASE consume[p].of # s
  <2>1. buckets'[s] = buckets[s]
    <3>1. CASE consume[p].of = Unknown
      BY <1>1, <3>1
    <3>2. CASE consume[p].of # Unknown
      BY <1>1, <1>4, <3>2, BucketNames DEF SetBucket, LimitTyped
    <3>. QED  BY <3>1, <3>2
  <2>. QED  BY <1>1, <1>3, <1>4, <2>1, ContactOther
<1>5. CASE consume[p].of = s
  <2>1. p \in Paying(s) /\ p \notin Paid(s) /\ c.at \notin ToPay
    BY <1>1, <1>3, <1>5 DEF Paying, Paid, ToPay
  <2>2. Paying(s)' = Paying(s) \ {p} /\ Paid(s)' = Paid(s) \cup {p}
    BY <1>1, <1>3, <1>5, <2>1, ContactGoto
  <2>3. \A q \in Paying(s) \ {p} : Times'[q] = Times[q]
    BY <1>1, ContactGoto, CallsOfOne
  <2>4. ContactHeld(s)[p] = consume[p].contact /\ Times[p] = consume[p].now
    BY <1>1 DEF ContactHeld, Times
  <2>5. consume[p].contact \in Nat /\ consume[p].contact >= 1 /\ consume[p].contact <= PerContact
    BY <1>1, <1>2, <1>5, BucketNames DEF Affordable, CallRecords, CallsAreSound, CallIsSound
  <2>6. buckets'[s] = [kept |-> TRUE, tokens |-> ContactHeld(s)[p] - 1, at |-> Times[p]]
    BY <1>1, <1>5, <2>4, BucketNames DEF SetBucket, LimitTyped
  <2>7. Account(Charged(s), Paying(s), buckets[s], PerContact, ContactHeld(s), Times, wall,
                Allowance(PerContact))
    BY ContactAccount
  <2>8. Within(Charged(s) + 1, Paying(s) \ {p}, buckets'[s], PerContact, ContactHeld(s)', Times', wall,
               Allowance(PerContact))
    BY <2>1, <2>3, <2>4, <2>5, <2>6, <2>7, WithinPay
  <2>9. Charged(s)' = Charged(s) + 1
    <3>1. Cardinality(Paid(s) \cup {p}) = Cardinality(Paid(s)) + 1 /\ Cardinality(Paid(s)) \in Nat
      BY <2>1, CallsOfOne, FS_AddElement
    <3>. QED  BY <1>1, <2>2, <3>1 DEF Charged, LimitTyped
  <2>10. Allowance(PerContact)' = Allowance(PerContact)
    BY <1>1, AllowanceSame
  <2>. QED  BY <1>1, <2>2, <2>8, <2>9, <2>10 DEF ContactWithin
<1>. QED  BY <1>4, <1>5

LEMMA ContactStep ==
    ASSUME LimitTyped, LimitTyped', CallsAreSound, NEW s \in Senders, ContactWithin(s), LimitNext
    PROVE  ContactWithin(s)'
  BY ContactTick, ContactBack, ContactBegin, ContactGetGlobal, ContactCreateGlobal,
     ContactGetContact, ContactCreateContact, ContactTurnAway, ContactChargeContact,
     ContactChargeGlobal, ContactCutShort DEF LimitNext

(* The global account, step by step.                                       *)
LEMMA GlobalStep ==
    ASSUME LimitTyped, LimitTyped', CallsAreSound, GlobalWithin, LimitNext
    PROVE  GlobalWithin'
<1>1. CASE ClockTicks \/ ClockSetBack
  BY <1>1, GlobalTick, GlobalBack
<1>2. ASSUME NEW p \in Consumers, NEW s \in Senders \cup {Unknown}, BeginConsume(p, s)
      PROVE  GlobalWithin'
  BY <1>2, GlobalBegin
<1>3. ASSUME NEW p \in Consumers, GetGlobal(p) \/ CreateGlobal(p) \/ ChargeGlobal(p)
      PROVE  GlobalWithin'
  BY <1>3, GlobalGet, GlobalCreate, GlobalCharge
<1>4. ASSUME NEW p \in Consumers, GetContact(p)
      PROVE  GlobalWithin'
  <2>. DEFINE c == IF buckets[consume[p].of].kept
                   THEN [consume[p] EXCEPT !.at = "charge", !.contact = Refilled(consume[p].of, consume[p].now)]
                   ELSE [consume[p] EXCEPT !.at = "newContact"]
  <2>1. consume[p].at = "contact" /\ ConsumeGoto(p, c) /\ buckets' = buckets
        /\ passed' = passed /\ wall' = wall /\ forward' = forward /\ overlaps' = overlaps
    BY <1>4 DEF GetContact
  <2>2. c.global = consume[p].global /\ c.now = consume[p].now /\ c.at \in {"newContact", "charge"}
    BY DEF LimitTyped, CallRecords
  <2>. HIDE DEF c
  <2>. QED  BY <2>1, <2>2, GlobalElsewhere
<1>5. ASSUME NEW p \in Consumers, CreateContact(p)
      PROVE  GlobalWithin'
  <2>. DEFINE c == [consume[p] EXCEPT !.at = "charge", !.contact = PerContact]
  <2>1. consume[p].at = "newContact" /\ ConsumeGoto(p, c)
        /\ SetBucket(consume[p].of, PerContact, consume[p].now)
        /\ passed' = passed /\ wall' = wall /\ forward' = forward /\ overlaps' = overlaps
    BY <1>5 DEF CreateContact
  <2>2. consume[p].of \in Senders
    BY <2>1 DEF LimitTyped, CallRecords, CallsAreSound, CallIsSound
  <2>3. buckets'[Everyone] = buckets[Everyone]
    BY <2>1, <2>2, BucketNames DEF SetBucket, LimitTyped
  <2>4. c.global = consume[p].global /\ c.now = consume[p].now /\ c.at = "charge"
    BY DEF LimitTyped, CallRecords
  <2>. HIDE DEF c
  <2>. QED  BY <2>1, <2>3, <2>4, GlobalElsewhere
<1>6. ASSUME NEW p \in Consumers, ChargeContact(p)
      PROVE  GlobalWithin'
  <2>. DEFINE c == [consume[p] EXCEPT !.at = "chargeGlobal"]
  <2>1. /\ consume[p].at = "charge" /\ ConsumeGoto(p, c)
        /\ IF consume[p].of = Unknown THEN UNCHANGED buckets
           ELSE SetBucket(consume[p].of, consume[p].contact - 1, consume[p].now)
        /\ passed' = passed /\ wall' = wall /\ forward' = forward /\ overlaps' = overlaps
    BY <1>6 DEF ChargeContact
  <2>2. consume[p].of \in Senders \cup {Unknown}
    BY DEF LimitTyped, CallRecords
  <2>3. buckets'[Everyone] = buckets[Everyone]
    <3>1. CASE consume[p].of = Unknown
      BY <2>1, <3>1
    <3>2. CASE consume[p].of # Unknown
      BY <2>1, <2>2, <3>2, BucketNames DEF SetBucket, LimitTyped
    <3>. QED  BY <3>1, <3>2
  <2>4. c.global = consume[p].global /\ c.now = consume[p].now /\ c.at = "chargeGlobal"
    BY DEF LimitTyped, CallRecords
  <2>. HIDE DEF c
  <2>. QED  BY <2>1, <2>3, <2>4, GlobalElsewhere
<1>7. ASSUME NEW p \in Consumers, TurnAway(p) \/ CutShort(p)
      PROVE  GlobalWithin'
  <2>1. /\ p \in Calls /\ ConsumeGoto(p, NoConsume) /\ buckets' = buckets
        /\ passed' = passed /\ wall' = wall /\ forward' = forward /\ overlaps' = overlaps
    BY <1>7 DEF TurnAway, CutShort, Refuse, Calls, Busy
  <2>. QED  BY <2>1, GlobalEnds
<1>. QED  BY <1>1, <1>2, <1>3, <1>4, <1>5, <1>6, <1>7 DEF LimitNext

(* At the start nothing has passed and every bucket would be full.         *)
LEMMA WithinAtFirst ==
    ASSUME NEW rate \in Nat, NEW k, ~k.kept, NEW held, NEW t, NEW w, NEW most \in Nat, rate <= most
    PROVE  Within(0, {}, k, rate, held, t, w, most)
<1>1. OthersIn({}) = 0 /\ Holds(k, rate, w) = rate
  BY DEF OthersIn, Holds
<1>. QED  BY <1>1 DEF Within

AccountsHold == GlobalWithin /\ \A s \in Senders : ContactWithin(s)

LEMMA AllowanceAtFirst == ASSUME LimitInit, NEW rate \in Nat PROVE Allowance(rate) = rate
<1>1. rate \div 2 \in Nat /\ rate + 1 \in Nat
  BY HalfIsNat
<1>2. 0 * (rate \div 2) = 0 /\ 0 * (rate + 1) = 0
  BY <1>1
<1>. QED  BY <1>2 DEF Allowance, LimitInit

LEMMA AccountsAtFirst == ASSUME LimitInit PROVE AccountsHold
<1>1. /\ Calls = {} /\ \A s : Paying(s) = {} /\ Paid(s) = {}
  BY DEF LimitInit, Calls, Busy, Paying, Paid, NoConsume, ToPay
<1>2. \A b \in Buckets : ~buckets[b].kept
  BY DEF LimitInit, NoBucket
<1>3. PassedInAll(passed) = 0
  <2>1. IsFiniteSet(Senders \cup {Unknown})
    BY FS_AddElement
  <2>. DEFINE zero == [s \in Senders \cup {Unknown} |-> 0]
  <2>2. passed = zero /\ \A x \in Senders \cup {Unknown} : zero[x] = 0
    BY DEF LimitInit
  <2>. HIDE DEF zero
  <2>3. SumOver(zero, Senders \cup {Unknown}) = 0
    BY <2>1, <2>2, SumOfZeros
  <2>. QED  BY <2>2, <2>3, PassedIsSum
<1>4. \A s \in Senders : Charged(s) = 0
  <2>1. Cardinality({}) = 0
    BY FS_EmptySet
  <2>. QED  BY <1>1, <2>1 DEF Charged, LimitInit
<1>5. GlobalWithin
  <2>1. Allowance(PerGlobal) = PerGlobal /\ PerGlobal \in Nat /\ PerGlobal <= PerGlobal /\ ~buckets[Everyone].kept
    BY <1>2, AllowanceAtFirst, BucketNames
  <2>. QED  BY <1>1, <1>3, <2>1, WithinAtFirst DEF GlobalWithin
<1>6. ASSUME NEW s \in Senders PROVE ContactWithin(s)
  <2>1. Allowance(PerContact) = PerContact /\ PerContact \in Nat /\ PerContact <= PerContact /\ ~buckets[s].kept
    BY <1>2, AllowanceAtFirst, BucketNames
  <2>. QED  BY <1>1, <1>4, <2>1, WithinAtFirst DEF ContactWithin
<1>. QED  BY <1>5, <1>6 DEF AccountsHold

(* What the accounts say of the messages let through.                      *)
LEMMA AccountsAllow == ASSUME LimitTyped, AccountsHold PROVE AllowanceHolds
<1>1. ASSUME NEW s \in Senders PROVE passed[s] <= Allowance(PerContact)
  <2>1. ContactWithin(s)
    BY DEF AccountsHold
  <2>2. Charged(s) + OthersIn(Paying(s)) + Holds(buckets[s], PerContact, wall) <= Allowance(PerContact)
    BY <2>1 DEF ContactWithin, Within
  <2>3. OthersIn(Paying(s)) \in Nat /\ Cardinality(Paid(s)) \in Nat /\ passed[s] \in Nat
    BY CallsOfOne, OthersFacts DEF LimitTyped
  <2>4. Holds(buckets[s], PerContact, wall) \in Nat /\ Allowance(PerContact) \in Nat
    BY BucketNames, HoldsFacts, AllowanceNat DEF LimitTyped
  <2>. QED  BY <2>2, <2>3, <2>4 DEF Charged
<1>2. PassedInAll(passed) <= Allowance(PerGlobal)
  <2>1. PassedInAll(passed) + OthersIn(Calls) + Holds(buckets[Everyone], PerGlobal, wall) <= Allowance(PerGlobal)
    BY DEF AccountsHold, GlobalWithin, Within
  <2>2. OthersIn(Calls) \in Nat /\ PassedInAll(passed) \in Nat
    BY CallsFinite, OthersFacts, PassedNat DEF LimitTyped
  <2>3. Holds(buckets[Everyone], PerGlobal, wall) \in Nat /\ Allowance(PerGlobal) \in Nat
    BY BucketNames, HoldsFacts, AllowanceNat DEF LimitTyped
  <2>. QED  BY <2>1, <2>2, <2>3
<1>. QED  BY <1>1, <1>2 DEF AllowanceHolds

(* One call after the other, and none cut short once the contact has paid. *)
Undisturbed == overlaps = 0 /\ halfCharged = FALSE
Alone(s) == \A x \in (Senders \cup {Unknown}) \ {s} : passed[x] = 0
NothingPassed == \A x \in Senders \cup {Unknown} : passed[x] = 0
Margin == PerGlobal - PerContact

Pristine == ~buckets[Everyone].kept \/ buckets[Everyone].tokens = PerGlobal

(* The bucket of the only contact that was let through and that of all     *)
(* stand as of the same time, and the one is as far ahead as at the start. *)
Level(s) ==
    /\ buckets[s].kept /\ buckets[Everyone].kept
    /\ buckets[Everyone].at = buckets[s].at
    /\ buckets[Everyone].tokens >= buckets[s].tokens + Margin

CallKeeps(p, s) ==
    LET c == consume[p] IN
    /\ c.at = "newGlobal" => ~buckets[Everyone].kept
    /\ c.at = "newContact" => ~buckets[c.of].kept
    /\ c.at \in {"contact", "newContact"} => c.global = Holds(buckets[Everyone], PerGlobal, c.now)
    /\ c.at \in {"contact", "newContact", "charge", "chargeGlobal"} => c.global >= Margin
    /\ c.at \in {"charge", "chargeGlobal"} /\ c.of = s => c.global >= c.contact + Margin
    /\ c.at = "chargeGlobal" /\ c.of = s =>
          buckets[s] = [kept |-> TRUE, tokens |-> c.contact - 1, at |-> c.now]

SpamParts ==
    /\ \A p, q \in Consumers : Busy(p) /\ Busy(q) => p = q
    /\ NothingPassed => Pristine
    /\ \A s \in Senders : Alone(s) /\ Paid(s) = {} /\ passed[s] > 0 => Level(s)
    /\ \A s \in Senders : Alone(s) => (turnedAway = {} /\ \A p \in Consumers : CallKeeps(p, s))

SpamInv == Undisturbed => SpamParts

LEMMA MarginIsNat == Margin \in Nat /\ Margin >= 1 /\ Margin <= PerGlobal /\ PerContact + Margin = PerGlobal
  BY BucketNames DEF Margin

LEMMA PristineHolds ==
    ASSUME LimitTyped, Pristine, NEW w \in Nat
    PROVE  Holds(buckets[Everyone], PerGlobal, w) = PerGlobal
<1>1. buckets[Everyone] \in BucketRecords /\ PerGlobal \in Nat
  BY BucketNames DEF LimitTyped
<1>2. Since(w, buckets[Everyone].at) * (PerGlobal \div 2) \in Nat
  BY <1>1, Gained DEF BucketRecords
<1>3. CASE buckets[Everyone].kept
  <2>1. buckets[Everyone].tokens = PerGlobal
    BY <1>3 DEF Pristine
  <2>. DEFINE x == Since(w, buckets[Everyone].at) * (PerGlobal \div 2)
  <2>2. x \in Nat /\ Holds(buckets[Everyone], PerGlobal, w) = IF PerGlobal <= PerGlobal + x THEN PerGlobal ELSE PerGlobal + x
    BY <1>2, <1>3, <2>1 DEF Holds
  <2>. HIDE DEF x
  <2>. QED  BY <1>1, <2>2
<1>4. CASE ~buckets[Everyone].kept
  BY <1>4 DEF Holds
<1>. QED  BY <1>3, <1>4

LEMMA LevelHolds ==
    ASSUME LimitTyped, NEW s \in Senders, Level(s), NEW w \in Nat
    PROVE  Holds(buckets[Everyone], PerGlobal, w) >= Holds(buckets[s], PerContact, w) + Margin
<1>. DEFINE g == buckets[Everyone].tokens
            c == buckets[s].tokens
            e == Since(w, buckets[s].at)
            hg == PerGlobal \div 2
            hc == PerContact \div 2
<1>1. buckets[Everyone] \in BucketRecords /\ buckets[s] \in BucketRecords
  BY BucketNames DEF LimitTyped
<1>2. g \in Nat /\ c \in Nat /\ e \in Nat /\ hg \in Nat /\ hc \in Nat /\ hc <= hg
  <2>1. buckets[s].at \in Nat
    BY <1>1 DEF BucketRecords
  <2>2. PerContact \in Nat /\ PerGlobal \in Nat /\ PerContact < PerGlobal
    BY BucketNames
  <2>3. hg \in Nat /\ hc \in Nat /\ hc <= hg
    BY <2>2
  <2>. QED  BY <1>1, <2>1, <2>3, SinceIsNat DEF BucketRecords
<1>3. buckets[Everyone].at = buckets[s].at /\ buckets[s].kept /\ buckets[Everyone].kept /\ g >= c + Margin
  BY DEF Level
<1>4. Holds(buckets[Everyone], PerGlobal, w) = IF PerGlobal <= g + e * hg THEN PerGlobal ELSE g + e * hg
  BY <1>3 DEF Holds
<1>5. Holds(buckets[s], PerContact, w) = IF PerContact <= c + e * hc THEN PerContact ELSE c + e * hc
  BY <1>3 DEF Holds
<1>. HIDE DEF g, c, e, hg, hc
<1>6. e * hc \in Nat /\ e * hg \in Nat /\ e * hc <= e * hg
  <2>1. hc * e <= hg * e /\ hc * e \in Nat /\ hg * e \in Nat
    BY <1>2, TimesMonotone, TimesIsNat
  <2>2. hc * e = e * hc /\ hg * e = e * hg
    BY <1>2
  <2>. QED  BY <2>1, <2>2
<1>. DEFINE a == e * hc
            b == e * hg
<1>7. a \in Nat /\ b \in Nat /\ a <= b
  BY <1>6
<1>8. /\ Holds(buckets[Everyone], PerGlobal, w) = IF PerGlobal <= g + b THEN PerGlobal ELSE g + b
      /\ Holds(buckets[s], PerContact, w) = IF PerContact <= c + a THEN PerContact ELSE c + a
  BY <1>4, <1>5
<1>. HIDE DEF a, b
<1>. QED  BY <1>2, <1>3, <1>7, <1>8, MarginIsNat, BucketNames

(* What a call may count on when it asks the bucket of all.                *)
LEMMA GlobalToSpare ==
    ASSUME LimitTyped, SpamParts, NEW s \in Senders, Alone(s), Paid(s) = {}, NEW w \in Nat
    PROVE  Holds(buckets[Everyone], PerGlobal, w) >= Margin
<1>1. PerGlobal \in Nat /\ Margin \in Nat /\ Margin <= PerGlobal
  BY MarginIsNat, BucketNames
<1>2. CASE passed[s] > 0
  <2>1. Level(s)
    BY <1>2 DEF SpamParts
  <2>2. Holds(buckets[s], PerContact, w) \in Nat /\ Holds(buckets[Everyone], PerGlobal, w) \in Nat
    BY BucketNames, HoldsFacts DEF LimitTyped
  <2>. QED  BY <1>1, <2>1, <2>2, LevelHolds
<1>3. CASE ~(passed[s] > 0)
  <2>1. passed[s] = 0
    BY <1>3 DEF LimitTyped
  <2>2. NothingPassed
    BY <2>1 DEF Alone, NothingPassed
  <2>3. Pristine
    BY <2>2 DEF SpamParts
  <2>. QED  BY <1>1, <2>3, PristineHolds
<1>. QED  BY <1>2, <1>3

(* The only call there is moves.                                           *)
LEMMA SpamGoto ==
    ASSUME LimitTyped, LimitTyped', SpamParts, NEW p \in Consumers,
           \A q \in Consumers : Busy(q) => q = p, NEW c, ConsumeGoto(p, c),
           NothingPassed' => Pristine',
           \A s \in Senders : Alone(s)' /\ Paid(s)' = {} /\ passed'[s] > 0 => Level(s)',
           \A s \in Senders : Alone(s)' => turnedAway' = {} /\ CallKeeps(p, s)'
    PROVE  SpamParts'
<1>1. \A q \in Consumers : consume'[q] = IF q = p THEN c ELSE consume[q]
  BY GotoCalls
<1>2. \A q \in Consumers \ {p} : consume'[q].at = "idle"
  BY <1>1 DEF Busy
<1>3. \A q, r \in Consumers : Busy(q)' /\ Busy(r)' => q = r
  BY <1>2 DEF Busy
<1>4. \A q \in Consumers \ {p}, s \in Senders : CallKeeps(q, s)'
  BY <1>2 DEF CallKeeps
<1>. QED  BY <1>3, <1>4 DEF SpamParts

LEMMA NothingPassedStays ==
    ASSUME passed' = passed
    PROVE  NothingPassed' = NothingPassed /\ \A s : Alone(s)' = Alone(s)
  BY DEF NothingPassed, Alone

LEMMA SolePaid ==
    ASSUME NEW p \in Consumers, \A q \in Consumers : Busy(q) => q = p, consume[p].at # "chargeGlobal"
    PROVE  \A s : Paid(s) = {}
  BY DEF Paid, Busy

LEMMA SpamTick == ASSUME SpamInv, ClockTicks \/ ClockSetBack PROVE SpamInv'
<1>1. buckets' = buckets /\ consume' = consume /\ passed' = passed /\ overlaps' = overlaps
      /\ turnedAway' = turnedAway
  BY DEF ClockTicks, ClockSetBack
<1>2. halfCharged' = halfCharged
  BY DEF ClockTicks, ClockSetBack
<1>3. Undisturbed' = Undisturbed
  BY <1>1, <1>2 DEF Undisturbed
<1>4. SpamParts' = SpamParts
  BY <1>1 DEF SpamParts, NothingPassed, Pristine, Alone, Level, Paid, CallKeeps, Busy
<1>. QED  BY <1>3, <1>4 DEF SpamInv

LEMMA SpamBegin ==
    ASSUME LimitTyped, LimitTyped', SpamInv, Undisturbed', NEW p \in Consumers, NEW r, BeginConsume(p, r)
    PROVE  SpamParts'
<1>. DEFINE c == [NoConsume EXCEPT !.at = "global", !.of = r, !.now = wall]
<1>1. c.at = "global"
  BY DEF NoConsume
<1>2. ConsumeGoto(p, c) /\ buckets' = buckets /\ passed' = passed /\ turnedAway' = turnedAway
  BY DEF BeginConsume
<1>. HIDE DEF c
<1>3. Undisturbed /\ \A q \in Consumers : ~Busy(q)
  <2>1. halfCharged = FALSE
    BY DEF BeginConsume, Undisturbed
  <2>2. overlaps' = overlaps + (IF \E q \in Consumers : Busy(q) THEN 1 ELSE 0) /\ overlaps' = 0
    BY DEF BeginConsume, Undisturbed
  <2>3. overlaps \in Nat
    BY DEF LimitTyped
  <2>4. ~ \E q \in Consumers : Busy(q)
    BY <2>2, <2>3
  <2>5. overlaps = 0
    BY <2>2, <2>3
  <2>6. Undisturbed
    BY <2>1, <2>5 DEF Undisturbed
  <2>. QED  BY <2>4, <2>6
<1>4. SpamParts
  BY <1>3 DEF SpamInv
<1>5. \A s : Paid(s) = {}
  BY <1>3 DEF Paid, Busy
<1>6. NothingPassed' => Pristine'
  BY <1>2, <1>4, NothingPassedStays DEF SpamParts, Pristine
<1>7. ASSUME NEW s \in Senders, Alone(s)' PROVE turnedAway' = {} /\ CallKeeps(p, s)'
  <2>1. turnedAway' = {}
    BY <1>2, <1>4, <1>7, NothingPassedStays DEF SpamParts
  <2>2. consume'[p] = c
    BY <1>2, GotoCalls
  <2>. QED  BY <1>1, <2>1, <2>2 DEF CallKeeps
<1>8. ASSUME NEW s \in Senders, Alone(s)', passed'[s] > 0 PROVE Level(s)'
  <2>1. Level(s)
    BY <1>2, <1>4, <1>5, <1>8, NothingPassedStays DEF SpamParts
  <2>. QED  BY <1>2, <2>1 DEF Level
<1>. QED  BY <1>2, <1>3, <1>4, <1>6, <1>7, <1>8, SpamGoto

(* The steps before the contact's bucket is charged.                       *)
LEMMA SpamQuiet ==
    ASSUME LimitTyped, LimitTyped', SpamParts, NEW p \in Consumers,
           \A q \in Consumers : Busy(q) => q = p, consume[p].at # "chargeGlobal",
           NEW c, ConsumeGoto(p, c), passed' = passed, turnedAway' = turnedAway,
           NothingPassed => Pristine',
           \A s \in Senders : Alone(s) /\ passed[s] > 0 => Level(s)',
           \A s \in Senders : Alone(s) => CallKeeps(p, s)'
    PROVE  SpamParts'
<1>1. \A s : Paid(s) = {}
  BY SolePaid
<1>2. NothingPassed' = NothingPassed /\ \A s : Alone(s)' = Alone(s)
  BY NothingPassedStays
<1>3. ASSUME NEW s \in Senders, Alone(s)', Paid(s)' = {}, passed'[s] > 0 PROVE Level(s)'
  <2>1. Alone(s) /\ passed[s] > 0
    BY <1>2, <1>3
  <2>. QED  BY <2>1
<1>4. ASSUME NEW s \in Senders, Alone(s)' PROVE turnedAway' = {} /\ CallKeeps(p, s)'
  BY <1>2, <1>4 DEF SpamParts
<1>. QED  BY <1>2, <1>3, <1>4, SpamGoto

LEMMA SpamGetGlobal ==
    ASSUME LimitTyped, LimitTyped', SpamParts, NEW p \in Consumers,
           \A q \in Consumers : Busy(q) => q = p, GetGlobal(p)
    PROVE  SpamParts'
<1>. DEFINE c == IF buckets[Everyone].kept
                 THEN AfterGlobal(consume[p], Refilled(Everyone, consume[p].now))
                 ELSE [consume[p] EXCEPT !.at = "newGlobal"]
<1>1. consume[p].at = "global" /\ ConsumeGoto(p, c) /\ buckets' = buckets
      /\ passed' = passed /\ turnedAway' = turnedAway
  BY DEF GetGlobal
<1>2. consume[p] \in CallRecords /\ consume[p].now \in Nat
  BY DEF LimitTyped, CallRecords
<1>3. \/ /\ buckets[Everyone].kept /\ c.global = Holds(buckets[Everyone], PerGlobal, consume[p].now)
         /\ c.now = consume[p].now /\ c.of = consume[p].of
         /\ \/ c.at = "contact"
            \/ c.at = "charge" /\ c.of = Unknown
      \/ ~buckets[Everyone].kept /\ c.at = "newGlobal"
  <2>1. CASE buckets[Everyone].kept
    <3>1. Refilled(Everyone, consume[p].now) \in Nat /\ Refilled(Everyone, consume[p].now) <= PerGlobal
      BY <1>2, <2>1, RefilledIsNat, BucketNames
    <3>2. Refilled(Everyone, consume[p].now) = Holds(buckets[Everyone], PerGlobal, consume[p].now)
      BY <1>2, <2>1, RefilledHolds, BucketNames
    <3>. DEFINE r == AfterGlobal(consume[p], Refilled(Everyone, consume[p].now))
    <3>3. c = r
      BY <2>1
    <3>. HIDE DEF c
    <3>4. /\ c.global = Refilled(Everyone, consume[p].now) /\ c.of = consume[p].of /\ c.now = consume[p].now
          /\ (c.of # Unknown => c.at = "contact") /\ (c.of = Unknown => c.at = "charge")
      <4>1. /\ r.global = Refilled(Everyone, consume[p].now) /\ r.of = consume[p].of /\ r.now = consume[p].now
            /\ (r.of # Unknown => r.at = "contact") /\ (r.of = Unknown => r.at = "charge")
        BY <1>2, <3>1, AfterGlobalSound
      <4>. HIDE DEF r
      <4>. QED  BY <3>3, <4>1
    <3>. QED  BY <2>1, <3>2, <3>4
  <2>2. CASE ~ buckets[Everyone].kept
    BY <1>2, <2>2 DEF CallRecords
  <2>. QED  BY <2>1, <2>2
<1>. HIDE DEF c
<1>4. consume'[p] = c
  BY <1>1, GotoCalls
<1>5. ASSUME NEW s \in Senders, Alone(s) PROVE CallKeeps(p, s)'
  <2>1. Holds(buckets[Everyone], PerGlobal, consume[p].now) >= Margin
    BY <1>1, <1>2, <1>5, SolePaid, GlobalToSpare
  <2>2. Unknown # s
    BY BucketNames
  <2>. QED  BY <1>1, <1>3, <1>4, <2>1, <2>2 DEF CallKeeps
<1>6. NothingPassed => Pristine'
  BY <1>1 DEF SpamParts, Pristine
<1>7. ASSUME NEW s \in Senders, Alone(s), passed[s] > 0 PROVE Level(s)'
  <2>1. Level(s)
    BY <1>1, <1>7, SolePaid DEF SpamParts
  <2>. QED  BY <1>1, <2>1 DEF Level
<1>q. consume[p].at # "chargeGlobal"
  BY <1>1
<1>. QED  BY <1>1, <1>q, <1>5, <1>6, <1>7, SpamQuiet

LEMMA SpamCreateGlobal ==
    ASSUME LimitTyped, LimitTyped', SpamParts, NEW p \in Consumers,
           \A q \in Consumers : Busy(q) => q = p, CreateGlobal(p)
    PROVE  SpamParts'
<1>. DEFINE c == AfterGlobal(consume[p], PerGlobal)
<1>1. consume[p].at = "newGlobal" /\ ConsumeGoto(p, c) /\ SetBucket(Everyone, PerGlobal, consume[p].now)
      /\ passed' = passed /\ turnedAway' = turnedAway
  BY DEF CreateGlobal
<1>2. consume[p] \in CallRecords /\ consume[p].now \in Nat
  BY DEF LimitTyped, CallRecords
<1>3. /\ c.global = PerGlobal /\ c.now = consume[p].now /\ c.of = consume[p].of
      /\ \/ c.at = "contact"
         \/ c.at = "charge" /\ c.of = Unknown
  BY <1>2, AfterGlobalSound, BucketNames
<1>. HIDE DEF c
<1>4. consume'[p] = c
  BY <1>1, GotoCalls
<1>5. buckets'[Everyone] = [kept |-> TRUE, tokens |-> PerGlobal, at |-> consume[p].now]
  BY <1>1, BucketNames DEF SetBucket, LimitTyped
<1>6. Pristine'
  BY <1>5 DEF Pristine
<1>7. Holds(buckets'[Everyone], PerGlobal, c.now) = PerGlobal
  <2>1. Since(c.now, c.now) * (PerGlobal \div 2) = 0
    <3>1. Since(c.now, c.now) = 0
      BY <1>2, <1>3 DEF Since
    <3>. DEFINE h == PerGlobal \div 2
    <3>2. h \in Nat
      BY BucketNames, HalfIsNat
    <3>. HIDE DEF h
    <3>3. 0 * h = 0
      BY <3>2
    <3>4. Since(c.now, c.now) * h = 0
      BY <3>1, <3>3
    <3>. QED  BY <3>4 DEF h
  <2>2. PerGlobal \in Nat
    BY BucketNames
  <2>. DEFINE x == Since(c.now, c.now) * (PerGlobal \div 2)
  <2>3. Holds(buckets'[Everyone], PerGlobal, c.now) = IF PerGlobal <= PerGlobal + x THEN PerGlobal ELSE PerGlobal + x
    BY <1>3, <1>5 DEF Holds
  <2>4. x = 0
    BY <2>1
  <2>. HIDE DEF x
  <2>. QED  BY <2>2, <2>3, <2>4
<1>8. ASSUME NEW s \in Senders, Alone(s) PROVE CallKeeps(p, s)'
  <2>1. Unknown # s
    BY BucketNames
  <2>. QED  BY <1>3, <1>4, <1>7, <2>1, MarginIsNat DEF CallKeeps
<1>9. ASSUME NEW s \in Senders, Alone(s), passed[s] > 0 PROVE FALSE
  <2>1. Level(s) /\ CallKeeps(p, s)
    BY <1>1, <1>9, SolePaid DEF SpamParts
  <2>. QED  BY <1>1, <2>1 DEF Level, CallKeeps
<1>. QED  BY <1>1, <1>6, <1>8, <1>9, SpamQuiet

(* What a call of the only contact let through finds in its own bucket.    *)
LEMMA SpamContact ==
    ASSUME LimitTyped, SpamParts, NEW p \in Consumers, \A q \in Consumers : Busy(q) => q = p,
           consume[p].at \in {"contact", "newContact"}, NEW s \in Senders, Alone(s), consume[p].of = s
    PROVE  consume[p].global >= Holds(buckets[s], PerContact, consume[p].now) + Margin
<1>1. consume[p].now \in Nat /\ Paid(s) = {} /\ CallKeeps(p, s)
  BY SolePaid DEF LimitTyped, CallRecords, SpamParts
<1>2. consume[p].global = Holds(buckets[Everyone], PerGlobal, consume[p].now)
  BY <1>1 DEF CallKeeps
<1>3. CASE passed[s] > 0
  BY <1>1, <1>2, <1>3, LevelHolds DEF SpamParts
<1>4. CASE ~(passed[s] > 0)
  <2>1. passed[s] = 0
    BY <1>4 DEF LimitTyped
  <2>2. NothingPassed
    BY <2>1 DEF Alone, NothingPassed
  <2>3. consume[p].global = PerGlobal
    BY <1>1, <1>2, <2>2, PristineHolds DEF SpamParts
  <2>4. Holds(buckets[s], PerContact, consume[p].now) \in Nat
        /\ Holds(buckets[s], PerContact, consume[p].now) <= PerContact
    BY <1>1, BucketNames, HoldsFacts DEF LimitTyped
  <2>. QED  BY <2>3, <2>4, MarginIsNat, BucketNames
<1>. QED  BY <1>3, <1>4

LEMMA SpamGetContact ==
    ASSUME LimitTyped, LimitTyped', SpamParts, NEW p \in Consumers,
           \A q \in Consumers : Busy(q) => q = p, GetContact(p), CallsAreSound
    PROVE  SpamParts'
<1>. DEFINE c == IF buckets[consume[p].of].kept
                 THEN [consume[p] EXCEPT !.at = "charge", !.contact = Refilled(consume[p].of, consume[p].now)]
                 ELSE [consume[p] EXCEPT !.at = "newContact"]
<1>1. consume[p].at = "contact" /\ ConsumeGoto(p, c) /\ buckets' = buckets
      /\ passed' = passed /\ turnedAway' = turnedAway
  BY DEF GetContact
<1>2. consume[p] \in CallRecords /\ consume[p].now \in Nat
  BY DEF LimitTyped, CallRecords
<1>3. /\ c.of = consume[p].of /\ c.now = consume[p].now /\ c.global = consume[p].global
      /\ \/ buckets[c.of].kept /\ c.at = "charge" /\ c.contact = Refilled(c.of, c.now)
         \/ ~buckets[c.of].kept /\ c.at = "newContact"
  BY <1>2 DEF CallRecords
<1>. HIDE DEF c
<1>4. consume'[p] = c
  BY <1>1, GotoCalls
<1>5. ASSUME NEW s \in Senders, Alone(s) PROVE CallKeeps(p, s)'
  <2>1. CallKeeps(p, s)
    BY <1>5 DEF SpamParts
  <2>2. c.global = Holds(buckets[Everyone], PerGlobal, c.now) /\ c.global >= Margin
    BY <1>1, <1>3, <2>1 DEF CallKeeps
  <2>3. c.at = "charge" /\ c.of = s => c.global >= c.contact + Margin
    <3>1. SUFFICES ASSUME c.at = "charge", c.of = s PROVE c.global >= c.contact + Margin
      OBVIOUS
    <3>2. buckets[s].kept /\ c.contact = Refilled(s, c.now)
      BY <1>3, <3>1
    <3>3. Refilled(s, c.now) = Holds(buckets[s], PerContact, c.now)
      BY <1>2, <1>3, <3>2, RefilledHolds, BucketNames
    <3>. QED  BY <1>1, <1>3, <1>5, <3>1, <3>2, <3>3, SpamContact
  <2>. QED  BY <1>1, <1>3, <1>4, <2>2, <2>3 DEF CallKeeps
<1>6. NothingPassed => Pristine'
  BY <1>1 DEF SpamParts, Pristine
<1>7. ASSUME NEW s \in Senders, Alone(s), passed[s] > 0 PROVE Level(s)'
  <2>1. Level(s)
    BY <1>1, <1>7, SolePaid DEF SpamParts
  <2>. QED  BY <1>1, <2>1 DEF Level
<1>q. consume[p].at # "chargeGlobal"
  BY <1>1
<1>. QED  BY <1>1, <1>q, <1>5, <1>6, <1>7, SpamQuiet

LEMMA SpamCreateContact ==
    ASSUME LimitTyped, LimitTyped', SpamParts, NEW p \in Consumers,
           \A q \in Consumers : Busy(q) => q = p, CreateContact(p), CallsAreSound
    PROVE  SpamParts'
<1>. DEFINE c == [consume[p] EXCEPT !.at = "charge", !.contact = PerContact]
<1>1. consume[p].at = "newContact" /\ ConsumeGoto(p, c)
      /\ SetBucket(consume[p].of, PerContact, consume[p].now)
      /\ passed' = passed /\ turnedAway' = turnedAway
  BY DEF CreateContact
<1>2. consume[p] \in CallRecords /\ consume[p].of \in Senders
  BY <1>1 DEF LimitTyped, CallRecords, CallsAreSound, CallIsSound
<1>3. c.of = consume[p].of /\ c.now = consume[p].now /\ c.at = "charge" /\ c.contact = PerContact
      /\ c.global = consume[p].global
  BY <1>2 DEF CallRecords
<1>. HIDE DEF c
<1>4. consume'[p] = c
  BY <1>1, GotoCalls
<1>5. /\ buckets'[Everyone] = buckets[Everyone]
      /\ \A s \in Senders : s # consume[p].of => buckets'[s] = buckets[s]
  BY <1>1, <1>2, BucketNames DEF SetBucket, LimitTyped
<1>6. ASSUME NEW s \in Senders, Alone(s) PROVE CallKeeps(p, s)' /\ (consume[p].of = s => ~(passed[s] > 0))
  <2>1. CallKeeps(p, s)
    BY <1>6 DEF SpamParts
  <2>2. ~buckets[consume[p].of].kept /\ c.global >= Margin
    BY <1>1, <1>3, <2>1 DEF CallKeeps
  <2>3. c.of = s => c.global >= c.contact + Margin
    <3>1. SUFFICES ASSUME c.of = s PROVE c.global >= c.contact + Margin
      OBVIOUS
    <3>2. Holds(buckets[s], PerContact, consume[p].now) = PerContact
      BY <1>3, <2>2, <3>1 DEF Holds
    <3>. QED  BY <1>1, <1>3, <1>6, <3>1, <3>2, SpamContact
  <2>4. CallKeeps(p, s)'
    BY <1>3, <1>4, <2>2, <2>3 DEF CallKeeps
  <2>5. ASSUME consume[p].of = s, passed[s] > 0 PROVE FALSE
    <3>1. Level(s)
      BY <1>1, <1>6, <2>5, SolePaid DEF SpamParts
    <3>. QED  BY <2>2, <2>5, <3>1 DEF Level
  <2>. QED  BY <2>4, <2>5
<1>7. NothingPassed => Pristine'
  BY <1>5 DEF SpamParts, Pristine
<1>8. ASSUME NEW s \in Senders, Alone(s), passed[s] > 0 PROVE Level(s)'
  <2>1. Level(s)
    BY <1>1, <1>8, SolePaid DEF SpamParts
  <2>2. buckets'[s] = buckets[s]
    BY <1>5, <1>6, <1>8
  <2>. QED  BY <1>5, <2>1, <2>2 DEF Level
<1>q. consume[p].at # "chargeGlobal"
  BY <1>1
<1>. QED  BY <1>1, <1>q, <1>6, <1>7, <1>8, SpamQuiet

(* A refusal of a call within its own limit needs an empty bucket of all.  *)
LEMMA SpamTurnAway ==
    ASSUME LimitTyped, LimitTyped', SpamParts, NEW p \in Consumers,
           \A q \in Consumers : Busy(q) => q = p, TurnAway(p)
    PROVE  SpamParts'
<1>1. /\ consume[p].at = "charge" /\ ~Affordable(consume[p]) /\ ConsumeGoto(p, NoConsume)
      /\ buckets' = buckets /\ passed' = passed
      /\ turnedAway' = IF consume[p].of # Unknown /\ consume[p].contact >= 1
                       THEN turnedAway \cup {consume[p].of} ELSE turnedAway
  BY DEF TurnAway, Refuse
<1>2. NothingPassed' = NothingPassed /\ \A s : Alone(s)' = Alone(s)
  BY <1>1, NothingPassedStays
<1>3. consume'[p] = NoConsume /\ NoConsume.at = "idle"
  BY <1>1, GotoCalls, IdleIsSound
<1>4. ASSUME NEW s \in Senders, Alone(s)' PROVE turnedAway' = {} /\ CallKeeps(p, s)'
  <2>1. CallKeeps(p, s) /\ turnedAway = {}
    BY <1>2, <1>4 DEF SpamParts
  <2>2. consume[p].global >= 1
    BY <1>1, <2>1, MarginIsNat DEF CallKeeps, LimitTyped, CallRecords
  <2>3. ~(consume[p].of # Unknown /\ consume[p].contact >= 1)
    BY <1>1, <2>2 DEF Affordable
  <2>4. turnedAway' = {}
    BY <1>1, <2>1, <2>3
  <2>5. CallKeeps(p, s)'
    BY <1>3 DEF CallKeeps
  <2>. QED  BY <2>4, <2>5
<1>5. NothingPassed' => Pristine'
  BY <1>1, <1>2 DEF SpamParts, Pristine
<1>6. ASSUME NEW s \in Senders, Alone(s)', passed'[s] > 0 PROVE Level(s)'
  <2>1. Level(s)
    BY <1>1, <1>2, <1>6, SolePaid DEF SpamParts
  <2>. QED  BY <1>1, <2>1 DEF Level
<1>. QED  BY <1>1, <1>4, <1>5, <1>6, SpamGoto

LEMMA SpamChargeContact ==
    ASSUME LimitTyped, LimitTyped', SpamParts, NEW p \in Consumers,
           \A q \in Consumers : Busy(q) => q = p, ChargeContact(p)
    PROVE  SpamParts'
<1>. DEFINE c == [consume[p] EXCEPT !.at = "chargeGlobal"]
<1>1. /\ consume[p].at = "charge" /\ ConsumeGoto(p, c)
      /\ IF consume[p].of = Unknown THEN UNCHANGED buckets
         ELSE SetBucket(consume[p].of, consume[p].contact - 1, consume[p].now)
      /\ passed' = passed /\ turnedAway' = turnedAway
  BY DEF ChargeContact
<1>2. consume[p] \in CallRecords /\ consume[p].of \in Senders \cup {Unknown}
  BY DEF LimitTyped, CallRecords
<1>3. c.at = "chargeGlobal" /\ c.of = consume[p].of /\ c.global = consume[p].global
      /\ c.contact = consume[p].contact /\ c.now = consume[p].now
  BY <1>2 DEF CallRecords
<1>. HIDE DEF c
<1>4. consume'[p] = c
  BY <1>1, GotoCalls
<1>5. /\ buckets'[Everyone] = buckets[Everyone]
      /\ \A s \in Senders : s # consume[p].of => buckets'[s] = buckets[s]
      /\ \A s \in Senders : s = consume[p].of =>
            buckets'[s] = [kept |-> TRUE, tokens |-> consume[p].contact - 1, at |-> consume[p].now]
  <2>1. CASE consume[p].of = Unknown
    <3>1. buckets' = buckets /\ \A s \in Senders : s # consume[p].of
      BY <1>1, <2>1, BucketNames
    <3>. QED  BY <3>1
  <2>2. CASE consume[p].of # Unknown
    BY <1>1, <1>2, <2>2, BucketNames DEF SetBucket, LimitTyped
  <2>. QED  BY <2>1, <2>2
<1>6. NothingPassed' = NothingPassed /\ \A s : Alone(s)' = Alone(s)
  BY <1>1, NothingPassedStays
<1>7. NothingPassed' => Pristine'
  BY <1>5, <1>6 DEF SpamParts, Pristine
<1>8. ASSUME NEW s \in Senders, Alone(s)' PROVE turnedAway' = {} /\ CallKeeps(p, s)'
  <2>1. CallKeeps(p, s) /\ turnedAway = {}
    BY <1>6, <1>8 DEF SpamParts
  <2>2. c.global >= Margin /\ (c.of = s => c.global >= c.contact + Margin)
    BY <1>1, <1>3, <2>1 DEF CallKeeps
  <2>3. c.of = s => buckets'[s] = [kept |-> TRUE, tokens |-> c.contact - 1, at |-> c.now]
    BY <1>3, <1>5
  <2>4. CallKeeps(p, s)'
    BY <1>3, <1>4, <2>2, <2>3 DEF CallKeeps
  <2>. QED  BY <1>1, <2>1, <2>4
<1>9. ASSUME NEW s \in Senders, Alone(s)', Paid(s)' = {}, passed'[s] > 0 PROVE Level(s)'
  <2>1. Level(s)
    <3>1. Paid(s) = {}
      BY <1>1, SolePaid
    <3>. QED  BY <1>1, <1>6, <1>9, <3>1 DEF SpamParts
  <2>2. s # c.of
    <3>1. SUFFICES ASSUME s = c.of PROVE FALSE
      OBVIOUS
    <3>2. p \in Paid(s)'
      BY <1>3, <1>4, <3>1 DEF Paid
    <3>. QED  BY <1>9, <3>2
  <2>. QED  BY <1>3, <1>5, <2>1, <2>2 DEF Level
<1>. QED  BY <1>1, <1>7, <1>8, <1>9, SpamGoto

LEMMA SpamChargeGlobal ==
    ASSUME LimitTyped, LimitTyped', SpamParts, NEW p \in Consumers,
           \A q \in Consumers : Busy(q) => q = p, ChargeGlobal(p)
    PROVE  SpamParts'
<1>1. /\ consume[p].at = "chargeGlobal" /\ ConsumeGoto(p, NoConsume)
      /\ SetBucket(Everyone, consume[p].global - 1, consume[p].now)
      /\ passed' = [passed EXCEPT ![consume[p].of] = @ + 1] /\ turnedAway' = turnedAway
  BY DEF ChargeGlobal
<1>. DEFINE r == consume[p].of
<1>2. consume[p] \in CallRecords /\ r \in Senders \cup {Unknown} /\ consume[p].global \in Nat
      /\ consume[p].contact \in Nat
  BY DEF LimitTyped, CallRecords
<1>3. consume'[p] = NoConsume /\ NoConsume.at = "idle"
  BY <1>1, GotoCalls, IdleIsSound
<1>4. /\ buckets'[Everyone] = [kept |-> TRUE, tokens |-> consume[p].global - 1, at |-> consume[p].now]
      /\ \A s \in Senders : buckets'[s] = buckets[s]
  BY <1>1, BucketNames DEF SetBucket, LimitTyped
<1>5. /\ passed \in [Senders \cup {Unknown} -> Nat]
      /\ passed'[r] = passed[r] + 1 /\ \A x \in (Senders \cup {Unknown}) \ {r} : passed'[x] = passed[x]
  BY <1>1, <1>2 DEF LimitTyped
<1>. HIDE DEF r
<1>6. passed'[r] # 0
  <2>1. passed[r] \in Nat
    BY <1>2, <1>5
  <2>. QED  BY <1>5, <2>1
<1>7. ~NothingPassed'
  BY <1>2, <1>6 DEF NothingPassed
<1>8. ASSUME NEW s \in Senders, Alone(s)' PROVE s = r /\ Alone(s)
  <2>1. s = r
    BY <1>2, <1>6, <1>8 DEF Alone
  <2>. QED  BY <1>5, <1>8, <2>1 DEF Alone
<1>9. ASSUME NEW s \in Senders, Alone(s)' PROVE turnedAway' = {} /\ CallKeeps(p, s)'
  <2>1. turnedAway = {}
    BY <1>8, <1>9 DEF SpamParts
  <2>2. CallKeeps(p, s)'
    BY <1>3 DEF CallKeeps
  <2>. QED  BY <1>1, <2>1, <2>2
<1>10. ASSUME NEW s \in Senders, Alone(s)' PROVE Level(s)'
  <2>1. CallKeeps(p, s) /\ consume[p].of = s
    BY <1>8, <1>10 DEF SpamParts, r
  <2>2. /\ buckets[s] = [kept |-> TRUE, tokens |-> consume[p].contact - 1, at |-> consume[p].now]
        /\ consume[p].global >= consume[p].contact + Margin
    BY <1>1, <2>1 DEF CallKeeps
  <2>. DEFINE g == consume[p].global
              k == consume[p].contact
  <2>3. g \in Nat /\ k \in Nat /\ Margin \in Nat /\ g >= k + Margin
    BY <1>2, <2>2, MarginIsNat
  <2>. HIDE DEF g, k
  <2>4. g - 1 >= (k - 1) + Margin
    BY <2>3
  <2>5. consume[p].global - 1 >= (consume[p].contact - 1) + Margin
    BY <2>4 DEF g, k
  <2>. QED  BY <1>4, <2>2, <2>5 DEF Level
<1>. QED  BY <1>1, <1>7, <1>9, <1>10, SpamGoto

LEMMA SpamCutShort ==
    ASSUME LimitTyped, LimitTyped', SpamParts, NEW p \in Consumers,
           \A q \in Consumers : Busy(q) => q = p, CutShort(p), Undisturbed'
    PROVE  SpamParts'
<1>1. /\ Busy(p) /\ ConsumeGoto(p, NoConsume) /\ buckets' = buckets /\ passed' = passed /\ turnedAway' = turnedAway
  BY DEF CutShort
<1>2. consume[p].at # "chargeGlobal" \/ consume[p].of = Unknown
  <2>1. halfCharged' = (halfCharged \/ (consume[p].at = "chargeGlobal" /\ consume[p].of # Unknown))
    BY DEF CutShort
  <2>2. ~halfCharged'
    BY DEF Undisturbed
  <2>. QED  BY <2>1, <2>2
<1>3. NothingPassed' = NothingPassed /\ \A s : Alone(s)' = Alone(s)
  BY <1>1, NothingPassedStays
<1>4. consume'[p] = NoConsume /\ NoConsume.at = "idle"
  BY <1>1, GotoCalls, IdleIsSound
<1>5. ASSUME NEW s \in Senders PROVE Paid(s) = {}
  <2>1. ~(consume[p].at = "chargeGlobal" /\ consume[p].of = s)
    BY <1>2, BucketNames
  <2>. QED  BY <2>1 DEF Paid, Busy
<1>6. ASSUME NEW s \in Senders, Alone(s)' PROVE turnedAway' = {} /\ CallKeeps(p, s)'
  <2>1. turnedAway = {}
    BY <1>3, <1>6 DEF SpamParts
  <2>2. CallKeeps(p, s)'
    BY <1>4 DEF CallKeeps
  <2>. QED  BY <1>1, <2>1, <2>2
<1>7. NothingPassed' => Pristine'
  BY <1>1, <1>3 DEF SpamParts, Pristine
<1>8. ASSUME NEW s \in Senders, Alone(s)', passed'[s] > 0 PROVE Level(s)'
  <2>1. Level(s)
    BY <1>1, <1>3, <1>5, <1>8 DEF SpamParts
  <2>. QED  BY <1>1, <2>1 DEF Level
<1>. QED  BY <1>1, <1>6, <1>7, <1>8, SpamGoto

LEMMA SpamStep ==
    ASSUME LimitTyped, LimitTyped', CallsAreSound, SpamInv, LimitNext
    PROVE  SpamInv'
<1>1. CASE ClockTicks \/ ClockSetBack
  BY <1>1, SpamTick
<1>2. ASSUME NEW p \in Consumers, NEW r \in Senders \cup {Unknown}, BeginConsume(p, r)
      PROVE  SpamInv'
  BY <1>2, SpamBegin DEF SpamInv
<1>3. ASSUME NEW p \in Consumers,
             \/ GetGlobal(p) \/ CreateGlobal(p) \/ GetContact(p) \/ CreateContact(p)
             \/ TurnAway(p) \/ ChargeContact(p) \/ ChargeGlobal(p) \/ CutShort(p)
      PROVE  SpamInv'
  <2>1. SUFFICES ASSUME Undisturbed' PROVE SpamParts'
    BY DEF SpamInv
  <2>2. Busy(p) /\ overlaps' = overlaps
    BY <1>3 DEF GetGlobal, CreateGlobal, GetContact, CreateContact, TurnAway, ChargeContact,
                ChargeGlobal, CutShort, Busy
  <2>3. Undisturbed
    <3>1. overlaps = 0
      BY <2>1, <2>2 DEF Undisturbed
    <3>2. halfCharged' = FALSE
      BY <2>1 DEF Undisturbed
    <3>3. halfCharged' = halfCharged
          \/ halfCharged' = (halfCharged \/ (consume[p].at = "chargeGlobal" /\ consume[p].of # Unknown))
      BY <1>3 DEF GetGlobal, CreateGlobal, GetContact, CreateContact, TurnAway, ChargeContact,
                  ChargeGlobal, CutShort
    <3>4. halfCharged \in BOOLEAN
      BY DEF LimitTyped
    <3>5. halfCharged = FALSE
      BY <3>2, <3>3, <3>4
    <3>. QED  BY <3>1, <3>5 DEF Undisturbed
  <2>4. SpamParts
    BY <2>3 DEF SpamInv
  <2>5. \A q \in Consumers : Busy(q) => q = p
    BY <2>2, <2>4 DEF SpamParts
  <2>. QED  BY <1>3, <2>1, <2>4, <2>5, SpamGetGlobal, SpamCreateGlobal, SpamGetContact, SpamCreateContact,
               SpamTurnAway, SpamChargeContact, SpamChargeGlobal, SpamCutShort
<1>. QED  BY <1>1, <1>2, <1>3 DEF LimitNext

LEMMA SpamAtFirst == ASSUME LimitInit PROVE SpamInv
<1>1. \A p \in Consumers : consume[p].at = "idle"
  BY DEF LimitInit, NoConsume
<1>2. ~buckets[Everyone].kept
  BY BucketNames DEF LimitInit, NoBucket
<1>3. turnedAway = {} /\ \A s \in Senders : passed[s] = 0
  BY DEF LimitInit
<1>4. \A p \in Consumers, s \in Senders : CallKeeps(p, s)
  BY <1>1 DEF CallKeeps
<1>5. \A p, q \in Consumers : Busy(p) /\ Busy(q) => p = q
  BY <1>1 DEF Busy
<1>6. \A s \in Senders : ~(passed[s] > 0)
  BY <1>3
<1>. QED  BY <1>2, <1>3, <1>4, <1>5, <1>6 DEF SpamInv, SpamParts, Pristine

LEMMA SpamShown == ASSUME LimitTyped, SpamInv PROVE SpamIsContained
<1>1. SUFFICES ASSUME turnedAway # {}, overlaps = 0, ~halfCharged, ~(passed[Unknown] > 0),
                      ~(Cardinality({s \in Senders : passed[s] > 0}) > 1)
               PROVE FALSE
  BY DEF SpamIsContained
<1>2. SpamParts
  <2>1. halfCharged = FALSE
    BY <1>1 DEF LimitTyped
  <2>. QED  BY <1>1, <2>1 DEF SpamInv, Undisturbed
<1>. DEFINE Let == {s \in Senders : passed[s] > 0}
<1>3. passed[Unknown] = 0 /\ \A s \in Senders : passed[s] \in Nat
  BY <1>1 DEF LimitTyped
<1>4. \E s \in Senders : Let \subseteq {s}
  <2>1. CASE Let = {}
    <3>1. PICK s \in turnedAway : TRUE
      BY <1>1
    <3>2. s \in Senders
      BY <3>1 DEF LimitTyped
    <3>. QED  BY <2>1, <3>2
  <2>2. CASE Let # {}
    <3>1. PICK s \in Let : TRUE
      BY <2>2
    <3>2. ASSUME NEW r \in Let, r # s PROVE FALSE
      <4>1. IsFiniteSet(Let) /\ {r, s} \subseteq Let
        <5>1. Let \subseteq Senders /\ IsFiniteSet(Senders)
          OBVIOUS
        <5>. HIDE DEF Let
        <5>. QED  BY <3>1, <5>1, FS_Subset
      <4>2. Cardinality({r, s}) = 2
        <5>1. Cardinality({s}) = 1 /\ IsFiniteSet({s}) /\ {r, s} = {s} \cup {r} /\ r \notin {s}
          BY <3>2, FS_Singleton
        <5>2. Cardinality({s} \cup {r}) = Cardinality({s}) + 1
          BY <5>1, FS_AddElement
        <5>. QED  BY <5>1, <5>2
      <4>3. Cardinality({r, s}) <= Cardinality(Let) /\ Cardinality(Let) \in Nat
        BY <4>1, FS_Subset, FS_CardinalityType
      <4>4. ~(Cardinality(Let) > 1)
        BY <1>1
      <4>. HIDE DEF Let
      <4>. QED  BY <4>2, <4>3, <4>4
    <3>3. s \in Senders
      BY <3>1
    <3>. QED  BY <3>2, <3>3
  <2>. QED  BY <2>1, <2>2
<1>5. PICK s \in Senders : Let \subseteq {s}
  BY <1>4
<1>6. Alone(s)
  <2>1. ASSUME NEW x \in Senders, x # s PROVE passed[x] = 0
    BY <1>3, <1>5, <2>1
  <2>. QED  BY <1>3, <2>1 DEF Alone
<1>. QED  BY <1>1, <1>2, <1>6 DEF SpamParts

-----------------------------------------------------------------------------
LimitInv == LimitTyped /\ CallsAreSound /\ AccountsHold /\ SpamInv

LEMMA LimitInvFirst == LimitInit => LimitInv
  BY LimitInitTyped, AccountsAtFirst, SpamAtFirst DEF LimitInv

LEMMA LimitInvStep == ASSUME LimitInv, [LimitNext]_limitVars PROVE LimitInv'
<1>1. CASE LimitNext
  <2>1. LimitTyped /\ CallsAreSound /\ GlobalWithin /\ SpamInv /\ \A s \in Senders : ContactWithin(s)
    BY DEF LimitInv, AccountsHold
  <2>2. LimitTyped' /\ CallsAreSound'
    BY <1>1, <2>1, LimitTypeStep
  <2>3. GlobalWithin'
    BY <1>1, <2>1, <2>2, GlobalStep
  <2>4. \A s \in Senders : ContactWithin(s)'
    BY <1>1, <2>1, <2>2, ContactStep
  <2>5. SpamInv'
    BY <1>1, <2>1, <2>2, SpamStep
  <2>. QED  BY <2>2, <2>3, <2>4, <2>5 DEF LimitInv, AccountsHold
<1>2. CASE UNCHANGED limitVars
  <2>1. /\ wall' = wall /\ forward' = forward /\ buckets' = buckets /\ consume' = consume
        /\ passed' = passed /\ overlaps' = overlaps /\ turnedAway' = turnedAway /\ consumed' = consumed
    BY <1>2 DEF limitVars
  <2>2. halfCharged' = halfCharged
    BY <1>2 DEF limitVars
  <2>3. LimitTyped' /\ CallsAreSound'
    BY <2>1, <2>2 DEF LimitInv, LimitTyped, CallsAreSound
  <2>4. GlobalWithin' = GlobalWithin
    BY <2>1, PassedIsSum DEF GlobalWithin, Calls, Busy, GlobalHeld, Times, Allowance
  <2>5. \A s : ContactWithin(s)' = ContactWithin(s)
    BY <2>1 DEF ContactWithin, Charged, Paid, Paying, ContactHeld, Times, Allowance
  <2>6. SpamInv' = SpamInv
    BY <2>1, <2>2 DEF SpamInv, Undisturbed, SpamParts, NothingPassed, Pristine, Alone, Level,
                      Paid, CallKeeps, Busy
  <2>. QED  BY <2>3, <2>4, <2>5, <2>6 DEF LimitInv, AccountsHold
<1>. QED  BY <1>1, <1>2

LEMMA LimitInvShows == LimitInv => LimitsHold
  BY AccountsAllow, SpamShown DEF LimitInv, LimitsHold

(* However many calls of consume overlap, are cut short between their two  *)
(* writes or meet a clock set back, no contact and not all of them         *)
(* together get more through than the rate, its refill and what each       *)
(* overlapping call can give back; and one contact alone has no other one  *)
(* refused (rate-limit.ts:55-79).                                          *)
THEOREM LimitsAreKept == LimitSpec => []LimitsHold
<1>1. LimitInit => LimitInv
  BY LimitInvFirst
<1>2. LimitInv /\ [LimitNext]_limitVars => LimitInv'
  BY LimitInvStep
<1>3. LimitInv => LimitsHold
  BY LimitInvShows
<1>. QED  BY <1>1, <1>2, <1>3, PTL DEF LimitSpec

-----------------------------------------------------------------------------
(* Endpoints.                                                              *)

HIDE RateLimitAssumption

(* The endpoint a restart would use, once what is on its way is stored.    *)
Kept == IF writes # <<>> THEN writes[Len(writes)]
        ELSE IF chosen \in Indices THEN chosen ELSE 0

ReportOps == {"none", "current", "success", "failure"}

RotatorTyped ==
    /\ rotator \in [index : Indices, streak : Nat, loaded : BOOLEAN]
    /\ chosen \in Indices \cup {NoIndex}
    /\ writes \in Seq(Indices)
    /\ report \in [Reporters -> [op : ReportOps, raw : Indices \cup {NoIndex}, at : {"idle", "load"}]]
    /\ \A r \in Reporters : report[r].at = "load" => report[r].op # "none"

(* The streak is what the callers counted.                                 *)
StreakIsCounted == rotator.streak = bad /\ ~hasty

ChoiceIsKept ==
    /\ ~rotator.loaded => /\ writes = <<>> /\ rotator.index = 0
                          /\ \A r \in Reporters : report[r].at = "load" => report[r].raw = chosen
    /\ rotator.loaded /\ ~crossed => rotator.index = Kept

RotatorInv == RotatorTyped /\ StreakIsCounted /\ ChoiceIsKept

LEMMA IndicesAre == Indices \subseteq Nat /\ 0 \in Indices /\ NoIndex \notin Indices
BY EndpointAssumption DEF Indices, NoIndex

LEMMA NextIndex == ASSUME NEW i \in Indices PROVE (i + 1) % EndpointCount \in Indices
BY EndpointAssumption DEF Indices

(* What a report makes of an object that is loaded.                        *)
LEMMA AfterLoadIs ==
    ASSUME NEW op \in {"success", "failure"},
           NEW state \in [index : Indices, streak : Nat, loaded : BOOLEAN],
           state.loaded, state.streak = bad, ~hasty, writes \in Seq(Indices),
           AfterLoad(op, state)
    PROVE  /\ rotator' \in [index : Indices, streak : Nat, loaded : BOOLEAN]
           /\ rotator'.loaded /\ rotator'.streak = bad' /\ ~hasty'
           /\ writes' \in Seq(Indices)
           /\ \/ writes' = writes /\ rotator'.index = state.index
              \/ writes' # <<>> /\ writes'[Len(writes')] = rotator'.index
<1>1. CASE op = "success"
  <2>1. rotator' = [state EXCEPT !.streak = 0] /\ bad' = 0 /\ writes' = writes /\ hasty' = hasty
    BY <1>1 DEF AfterLoad, AfterSuccess
  <2>. QED  BY <2>1
<1>2. CASE op # "success" /\ ~Rotates(state)
  <2>1. /\ rotator' = [state EXCEPT !.streak = @ + 1] /\ bad' = bad + 1
        /\ writes' = writes /\ ~hasty'
    BY <1>2 DEF AfterLoad, AfterFailed
  <2>2. /\ rotator'.streak = state.streak + 1 /\ rotator'.index = state.index
        /\ rotator'.loaded = state.loaded
    BY <2>1
  <2>3. rotator' \in [index : Indices, streak : Nat, loaded : BOOLEAN]
    BY <2>1
  <2>. QED  BY <2>1, <2>2, <2>3
<1>3. CASE op # "success" /\ Rotates(state)
  <2>1. /\ rotator' = [state EXCEPT !.index = (@ + 1) % EndpointCount, !.streak = 0]
        /\ bad' = 0 /\ writes' = Append(writes, rotator'.index)
        /\ hasty' = (hasty \/ bad + 1 < Threshold)
    BY <1>3 DEF AfterLoad, AfterFailed
  <2>2. ~(bad + 1 < Threshold)
    BY <1>3, EndpointAssumption DEF Rotates
  <2>3. (state.index + 1) % EndpointCount \in Indices
    BY NextIndex
  <2>4. /\ rotator'.index = (state.index + 1) % EndpointCount
        /\ rotator'.streak = 0 /\ rotator'.loaded
    BY <2>1
  <2>5. rotator' \in [index : Indices, streak : Nat, loaded : BOOLEAN]
    BY <2>1, <2>3
  <2>6. /\ writes' \in Seq(Indices) /\ writes' # <<>>
        /\ writes'[Len(writes')] = rotator'.index
    BY <2>1, <2>3, <2>4, AppendProperties
  <2>. QED  BY <2>1, <2>2, <2>4, <2>5, <2>6
<1>. QED  BY <1>1, <1>2, <1>3

LEMMA BeginsKeeps ==
    ASSUME RotatorInv, NEW r \in Reporters, NEW op \in {"current", "success", "failure"},
           Begins(r, op)
    PROVE  RotatorInv'
<1>. USE DEF RotatorInv
<1>1. CASE rotator.loaded
  <2>1. /\ op \in {"success", "failure"} /\ AfterLoad(op, rotator)
        /\ UNCHANGED <<report, chosen, crossed>>
    BY <1>1 DEF Begins
  <2>2. /\ rotator' \in [index : Indices, streak : Nat, loaded : BOOLEAN]
        /\ rotator'.loaded /\ rotator'.streak = bad' /\ ~hasty'
        /\ writes' \in Seq(Indices)
        /\ \/ writes' = writes /\ rotator'.index = rotator.index
           \/ writes' # <<>> /\ writes'[Len(writes')] = rotator'.index
    BY <1>1, <2>1, AfterLoadIs DEF RotatorTyped, StreakIsCounted
  <2>3. RotatorTyped' /\ StreakIsCounted'
    BY <2>1, <2>2 DEF RotatorTyped, StreakIsCounted
  <2>4. ChoiceIsKept'
    BY <1>1, <2>1, <2>2 DEF ChoiceIsKept, Kept
  <2>. QED  BY <2>3, <2>4
<1>2. CASE ~rotator.loaded
  <2>. DEFINE new == [op |-> op, raw |-> chosen, at |-> "load"]
  <2>1. /\ report' = [report EXCEPT ![r] = new]
        /\ UNCHANGED <<rotator, writes, bad, chosen, crossed>> /\ hasty' = hasty
    BY <1>2 DEF Begins
  <2>2. new \in [op : ReportOps, raw : Indices \cup {NoIndex}, at : {"idle", "load"}]
    BY DEF RotatorTyped, ReportOps
  <2>3. new.raw = chosen /\ new.op # "none"
    OBVIOUS
  <2>. HIDE DEF new
  <2>4. RotatorTyped' /\ StreakIsCounted'
    BY <2>1, <2>2, <2>3 DEF RotatorTyped, StreakIsCounted
  <2>5. ChoiceIsKept'
    BY <2>1, <2>3 DEF ChoiceIsKept, Kept, RotatorTyped
  <2>. QED  BY <2>4, <2>5
<1>. QED  BY <1>1, <1>2

LEMMA LoadedKeeps ==
    ASSUME RotatorInv, NEW r \in Reporters, Loaded(r)
    PROVE  RotatorInv'
<1>. USE DEF RotatorInv
<1>. DEFINE found == IF report[r].raw \in Indices THEN report[r].raw ELSE rotator.index
            state == [rotator EXCEPT !.loaded = TRUE, !.index = found]
<1>1. /\ report[r].at = "load" /\ report' = [report EXCEPT ![r] = NoReport]
      /\ crossed' = (crossed \/ rotator.loaded) /\ UNCHANGED chosen
  BY DEF Loaded
<1>2. \/ report[r].op = "current" /\ rotator' = state /\ UNCHANGED <<writes, bad>> /\ hasty' = hasty
      \/ AfterLoad(report[r].op, state) /\ report[r].op # "current"
  BY DEF Loaded, RotatorTyped
<1>3. /\ found \in Indices /\ report[r].op \in ReportOps
      /\ rotator \in [index : Indices, streak : Nat, loaded : BOOLEAN]
  BY DEF RotatorTyped
<1>4. state.loaded = TRUE /\ state.streak = rotator.streak /\ state.index = found
  BY <1>3
<1>5. state \in [index : Indices, streak : Nat, loaded : BOOLEAN]
  BY <1>3
<1>6. report[r].op # "none"
  BY <1>1 DEF RotatorTyped
<1>7. ~crossed' => ~rotator.loaded /\ writes = <<>> /\ found = Kept
  BY <1>1 DEF ChoiceIsKept, Kept
<1>. HIDE DEF found, state
<1>8. /\ rotator' \in [index : Indices, streak : Nat, loaded : BOOLEAN]
      /\ rotator'.loaded /\ rotator'.streak = bad' /\ ~hasty'
      /\ writes' \in Seq(Indices)
      /\ \/ writes' = writes /\ rotator'.index = found
         \/ writes' # <<>> /\ writes'[Len(writes')] = rotator'.index
  <2>1. CASE report[r].op = "current"
    BY <1>2, <1>4, <1>5, <2>1 DEF RotatorTyped, StreakIsCounted
  <2>2. CASE report[r].op # "current"
    BY <1>2, <1>3, <1>4, <1>5, <1>6, <2>2, AfterLoadIs DEF RotatorTyped, StreakIsCounted, ReportOps
  <2>. QED  BY <2>1, <2>2
<1>9. NoReport \in [op : ReportOps, raw : Indices \cup {NoIndex}, at : {"idle", "load"}]
      /\ NoReport.at = "idle"
  BY DEF NoReport, ReportOps
<1>10. RotatorTyped' /\ StreakIsCounted'
  BY <1>1, <1>8, <1>9 DEF RotatorTyped, StreakIsCounted
<1>11. ChoiceIsKept'
  BY <1>1, <1>7, <1>8 DEF ChoiceIsKept, Kept
<1>. QED  BY <1>10, <1>11

LEMMA PersistedKeeps == ASSUME RotatorInv, Persisted PROVE RotatorInv'
<1>. USE DEF RotatorInv
<1>1. /\ writes # <<>> /\ writes' = Tail(writes) /\ UNCHANGED <<rotator, report, bad>>
      /\ hasty' = hasty
      /\ \/ chosen' = Head(writes) /\ crossed' = crossed
         \/ crossed' = TRUE /\ chosen' = chosen
  BY DEF Persisted
<1>2. /\ Head(writes) = writes[1] /\ writes[1] \in Indices /\ Len(writes) \in Nat \ {0}
      /\ writes' \in Seq(Indices) /\ Len(writes') = Len(writes) - 1
      /\ \A i \in 1..Len(writes') : writes'[i] = writes[i + 1]
  BY <1>1, HeadTailProperties, EmptySeq, LenProperties, ElementOfSeq DEF RotatorTyped
<1>3. rotator.loaded
  BY <1>1 DEF ChoiceIsKept
<1>4. RotatorTyped' /\ StreakIsCounted'
  BY <1>1, <1>2 DEF RotatorTyped, StreakIsCounted
<1>5. ~crossed' => rotator'.index = Kept'
  <2>. SUFFICES ASSUME ~crossed' PROVE rotator'.index = Kept'
    OBVIOUS
  <2>1. chosen' = writes[1] /\ rotator'.index = writes[Len(writes)]
    BY <1>1, <1>2, <1>3 DEF ChoiceIsKept, Kept
  <2>2. CASE writes' = <<>>
    <3>1. Len(writes) = 1
      BY <1>2, <2>2, EmptySeq
    <3>. QED  BY <1>2, <2>1, <2>2, <3>1 DEF Kept
  <2>3. CASE writes' # <<>>
    <3>1. Len(writes') \in 1..Len(writes')
      BY <1>2, <2>3, EmptySeq, LenProperties
    <3>. QED  BY <1>2, <2>1, <2>3, <3>1 DEF Kept
  <2>. QED  BY <2>2, <2>3
<1>6. ChoiceIsKept'
  BY <1>1, <1>3, <1>5 DEF ChoiceIsKept
<1>. QED  BY <1>4, <1>6

LEMMA RestartKeeps == ASSUME RotatorInv, Restart PROVE RotatorInv'
<1>. USE DEF RotatorInv
<1>1. /\ rotator' = NewRotator /\ report' = [r \in Reporters |-> NoReport]
      /\ bad' = 0 /\ writes' = <<>> /\ hasty' = hasty
      /\ \E kept \in 0..Len(writes) : chosen' = IF kept = 0 THEN chosen ELSE writes[kept]
  BY DEF Restart
<1>2. chosen' \in Indices \cup {NoIndex}
  BY <1>1, ElementOfSeq, LenProperties DEF RotatorTyped
<1>3. /\ rotator' \in [index : Indices, streak : Nat, loaded : BOOLEAN]
      /\ rotator'.index = 0 /\ rotator'.streak = 0 /\ ~rotator'.loaded
  BY <1>1, IndicesAre DEF NewRotator
<1>4. NoReport \in [op : ReportOps, raw : Indices \cup {NoIndex}, at : {"idle", "load"}]
      /\ NoReport.at = "idle"
  BY DEF NoReport, ReportOps
<1>5. RotatorTyped' /\ StreakIsCounted'
  BY <1>1, <1>2, <1>3, <1>4, EmptySeq DEF RotatorTyped, StreakIsCounted
<1>6. ChoiceIsKept'
  BY <1>1, <1>3, <1>4 DEF ChoiceIsKept
<1>. QED  BY <1>5, <1>6

LEMMA RotatorStarts == EndpointInit => RotatorInv
<1>. SUFFICES ASSUME EndpointInit PROVE RotatorInv
  OBVIOUS
<1>. USE DEF EndpointInit
<1>1. /\ rotator \in [index : Indices, streak : Nat, loaded : BOOLEAN]
      /\ rotator.index = 0 /\ rotator.streak = 0 /\ ~rotator.loaded
  BY IndicesAre DEF NewRotator
<1>2. NoReport \in [op : ReportOps, raw : Indices \cup {NoIndex}, at : {"idle", "load"}]
      /\ NoReport.at = "idle"
  BY DEF NoReport, ReportOps
<1>3. RotatorTyped /\ StreakIsCounted
  BY <1>1, <1>2, EmptySeq DEF RotatorTyped, StreakIsCounted
<1>4. ChoiceIsKept
  BY <1>1, <1>2 DEF ChoiceIsKept
<1>. QED  BY <1>3, <1>4 DEF RotatorInv

LEMMA RotatorNext == RotatorInv /\ [EndpointNext]_endpointVars => RotatorInv'
<1>. SUFFICES ASSUME RotatorInv, [EndpointNext]_endpointVars PROVE RotatorInv'
  OBVIOUS
<1>1. CASE UNCHANGED endpointVars
  <2>1. /\ UNCHANGED <<rotator, chosen, writes, report, bad>>
        /\ hasty' = hasty /\ crossed' = crossed
    BY <1>1 DEF endpointVars
  <2>. QED  BY <2>1 DEF RotatorInv, RotatorTyped, StreakIsCounted, ChoiceIsKept, Kept
<1>2. ASSUME NEW r \in Reporters, NEW op \in {"current", "success", "failure"}, Begins(r, op)
      PROVE  RotatorInv'
  BY <1>2, BeginsKeeps
<1>3. ASSUME NEW r \in Reporters, Loaded(r) PROVE RotatorInv'
  BY <1>3, LoadedKeeps
<1>4. CASE Persisted
  BY <1>4, PersistedKeeps
<1>5. CASE Restart
  BY <1>5, RestartKeeps
<1>. QED  BY <1>1, <1>2, <1>3, <1>4, <1>5 DEF EndpointNext

(* However many callers report, whenever the app is locked, killed or a    *)
(* write fails: an endpoint is left only after Threshold failures in a row *)
(* of its own, and the choice this process made is the one a restart finds *)
(* (endpoints.ts:36-60, 72-90).                                            *)
THEOREM TheChoiceIsKept == EndpointSpec => []ChoiceHolds
<1>1. RotatorInv => ChoiceHolds
  BY DEF RotatorInv, StreakIsCounted, ChoiceIsKept, ChoiceHolds, RestartKeepsTheChoice, Kept
<1>. QED  BY <1>1, RotatorStarts, RotatorNext, PTL DEF EndpointSpec

-----------------------------------------------------------------------------
(* The vault file.                                                         *)

(* A file that opens under its own key, and what is known of such a one.   *)
Opens(file) == Parses(file) /\ PayloadOpens(file, file.vek)

Blobs == {NoBlob} \cup (Nat \ {0}) \X (Nat \ {0})

Fine(file) ==
    /\ file.header.cost = "default" /\ file.header.salt # 0
    /\ file.header.biometric \in Blobs
    /\ \E p \in Passwords : SlotOpens(file, p)

Costs == {"default", "excessive"}
Headers == [cost : Costs, salt : Nat, slot : Passwords \X Costs \X Nat, biometric : Nat \X Nat]
Files == [vek : Nat \ {0}, header : Headers, aad : Headers,
          shape : BOOLEAN, ct : BOOLEAN, hurt : BOOLEAN]

IsFile(file) ==
    /\ file \in Files
    /\ file.hurt <=> ~Opens(file)
    /\ Opens(file) => Fine(file)

LEMMA SealedIs ==
    ASSUME NEW file \in Files, NEW header \in Headers
    PROVE  /\ Sealed(file, header) \in Files
           /\ Sealed(file, header).header = header /\ Sealed(file, header).aad = header
           /\ Sealed(file, header).vek = file.vek
           /\ Sealed(file, header).shape = file.shape
           /\ Sealed(file, header).ct = file.ct
           /\ Sealed(file, header).hurt = file.hurt
<1>1. Sealed(file, header).header = header /\ Sealed(file, header).aad = header
  BY DEF Sealed, Files
<1>2. /\ Sealed(file, header).vek = file.vek
      /\ Sealed(file, header).shape = file.shape
      /\ Sealed(file, header).ct = file.ct
      /\ Sealed(file, header).hurt = file.hurt
  BY DEF Sealed, Files
<1>3. Sealed(file, header) \in Files
  BY DEF Sealed, Files
<1>. QED  BY <1>1, <1>2, <1>3

LEMMA DamagedIs ==
    ASSUME NEW file \in Files, NEW damaged \in {[f EXCEPT !.hurt = TRUE] : f \in Damages(file)}
    PROVE  /\ damaged \in Files /\ damaged.hurt /\ damaged.vek = file.vek
           /\ Opens(file) /\ Fine(file) => ~Opens(damaged)
<1>1. PICK f \in Damages(file) : damaged = [f EXCEPT !.hurt = TRUE]
  OBVIOUS
<1>2. CASE f = [file EXCEPT !.shape = FALSE]
  BY <1>1, <1>2 DEF Files, Opens, Parses
<1>3. CASE f = [file EXCEPT !.ct = FALSE]
  BY <1>1, <1>3 DEF Files, Opens, PayloadOpens
<1>4. CASE f = [file EXCEPT !.header.cost = "excessive"]
  BY <1>1, <1>4 DEF Files, Opens, Parses, WithinCaps, Headers, Costs
<1>5. CASE f = [file EXCEPT !.header.salt = 0]
  <2>1. /\ damaged = [file EXCEPT !.header = [file.header EXCEPT !.salt = 0], !.hurt = TRUE]
        /\ [file.header EXCEPT !.salt = 0] \in Headers
    BY <1>1, <1>5 DEF Files, Headers
  <2>2. damaged \in Files /\ damaged.hurt /\ damaged.vek = file.vek
    BY <2>1 DEF Files
  <2>3. damaged.header.salt = 0 /\ damaged.aad = file.aad
    BY <2>1 DEF Files, Headers
  <2>. QED  BY <2>2, <2>3 DEF Opens, PayloadOpens, Fine
<1>6. CASE f = [file EXCEPT !.header.biometric = <<0, 1>>]
  <2>1. /\ damaged = [file EXCEPT !.header = [file.header EXCEPT !.biometric = <<0, 1>>],
                                  !.hurt = TRUE]
        /\ [file.header EXCEPT !.biometric = <<0, 1>>] \in Headers
    BY <1>1, <1>6 DEF Files, Headers
  <2>2. damaged \in Files /\ damaged.hurt /\ damaged.vek = file.vek
    BY <2>1 DEF Files
  <2>3. damaged.header.biometric = <<0, 1>> /\ damaged.aad = file.aad
    BY <2>1 DEF Files, Headers
  <2>4. <<0, 1>> \notin Blobs
    BY DEF Blobs, NoBlob
  <2>. QED  BY <2>2, <2>3, <2>4 DEF Opens, PayloadOpens, Fine
<1>. QED  BY <1>2, <1>3, <1>4, <1>5, <1>6 DEF Damages

(* The invariant.                                                          *)
CallRecs == [op : {"none", "create", "unlock", "biometric", "wipe"},
             at : {"idle", "check", "file", "key", "read", "open", "delfile", "delkey"},
             password : Passwords, read : Files \cup {NoDoc}]
EditRecs == [op : {"none", "password", "enable", "disable"},
             at : {"idle", "read", "wait", "write"},
             password : Passwords, read : Files \cup {NoDoc}, vek : Nat]

VaultTyped ==
    /\ dbBlob \in Nat /\ veks \in Nat /\ fresh \in Nat
    /\ memory \in [state : {"uninitialized", "locked", "unlocked"}, vek : Nat]
    /\ asked \in [password : Passwords, biometric : BOOLEAN]
    /\ call \in CallRecs /\ edit \in [VaultEdits -> EditRecs]

StoredIsAFile == doc # NoDoc => IsFile(doc)

AnswersAsTold ==
    doc # NoDoc /\ ~doc.hurt /\ ~outrun =>
        /\ SlotOpens(doc, asked.password)
        /\ doc.header.biometric = NoBlob <=> ~asked.biometric
        /\ doc.header.biometric[1] \in {0, doc.vek}

OfStored(vek) == outrun \/ (doc # NoDoc /\ doc.vek = vek)

MemoryIsOfStored ==
    /\ memory.state # "unlocked" => memory.vek = 0
    /\ memory.vek # 0 => OfStored(memory.vek)

CallKnows ==
    /\ call.at = "file" => memory.state = "uninitialized" /\ (doc = NoDoc \/ outrun)
    /\ call.at = "key" => IsFile(call.read) /\ OfStored(call.read.vek)
    /\ call.at = "open" => IsFile(call.read) /\ Parses(call.read) /\ OfStored(call.read.vek)
    /\ call.at \in {"delfile", "delkey"} => memory.vek = 0
    /\ call.at = "delkey" => doc = NoDoc \/ outrun

EditKnows(at, op, read, vek) ==
    /\ at \in {"wait", "write"} => IsFile(read) /\ Parses(read)
    /\ at = "wait" /\ op = "enable" => vek # 0 /\ (outrun \/ vek = read.vek)

EditsKnow == \A e \in VaultEdits : EditKnows(edit[e].at, edit[e].op, edit[e].read, edit[e].vek)

BlobIsOfStored ==
    halfWiped \/ outrun \/ dbBlob = 0 \/ call.at = "delkey" \/ (doc # NoDoc /\ dbBlob = doc.vek)

VaultInv == /\ VaultTyped /\ StoredIsAFile /\ AnswersAsTold /\ MemoryIsOfStored
            /\ CallKnows /\ EditsKnow /\ BlobIsOfStored

-----------------------------------------------------------------------------
LEMMA FilesAreThere == ASSUME NEW file \in Files PROVE file # NoDoc
BY DEF Files, NoDoc

LEMMA NewDocIs ==
    ASSUME NEW vek \in Nat \ {0}, NEW password \in Passwords, NEW salt \in Nat \ {0},
           NEW file, file = NewDoc(vek, password, "default", salt)
    PROVE  /\ IsFile(file) /\ ~file.hurt /\ file.vek = vek
           /\ SlotOpens(file, password) /\ file.header.biometric = NoBlob
<1>. DEFINE header == Header(password, "default", salt, NoBlob)
<1>1. header \in Headers
  BY DEF Header, Slot, Headers, Costs, NoBlob
<1>2. /\ file.vek = vek /\ file.header = header /\ file.aad = header
      /\ file.shape = TRUE /\ file.ct = TRUE /\ file.hurt = FALSE
  BY DEF NewDoc
<1>3. file \in Files
  BY <1>1 DEF NewDoc, Files
<1>4. /\ header.cost = "default" /\ header.salt = salt /\ header.biometric = NoBlob
      /\ header.slot = Slot(password, "default", salt)
  BY DEF Header
<1>. HIDE DEF header
<1>5. SlotOpens(file, password)
  BY <1>2, <1>4 DEF SlotOpens
<1>6. Opens(file)
  BY <1>2, <1>3, <1>4, FilesAreThere DEF Opens, Parses, WithinCaps, PayloadOpens
<1>7. Fine(file)
  BY <1>2, <1>4, <1>5 DEF Fine, Blobs
<1>. QED  BY <1>2, <1>3, <1>4, <1>5, <1>6, <1>7 DEF IsFile

(* The files that edits write.                                             *)
LEMMA RekeyedIs ==
    ASSUME NEW old, IsFile(old), Opens(old), NEW salt \in Nat \ {0}, NEW new \in Passwords,
           NEW file, file = Rekeyed(old, salt, new)
    PROVE  /\ IsFile(file) /\ ~file.hurt /\ file.vek = old.vek
           /\ SlotOpens(file, new) /\ file.header.biometric = old.header.biometric
<1>. DEFINE header == Header(new, old.header.cost, salt, old.header.biometric)
<1>0. old \in Files /\ Fine(old)
  BY DEF IsFile
<1>1. /\ header.cost = old.header.cost /\ header.salt = salt
      /\ header.biometric = old.header.biometric
      /\ header.slot = Slot(new, old.header.cost, salt)
  BY DEF Header
<1>2. header \in Headers
  BY <1>0 DEF Header, Slot, Headers, Files
<1>. HIDE DEF header
<1>3. file = Sealed(old, header)
  BY DEF Rekeyed, header
<1>4. /\ file \in Files /\ file.header = header /\ file.aad = header /\ file.vek = old.vek
      /\ file.shape = old.shape /\ file.ct = old.ct /\ file.hurt = old.hurt
  BY <1>0, <1>2, <1>3, SealedIs
<1>5. SlotOpens(file, new)
  BY <1>1, <1>4 DEF SlotOpens
<1>6. Opens(file) /\ ~file.hurt
  BY <1>1, <1>4, FilesAreThere DEF Opens, Parses, PayloadOpens, IsFile
<1>7. Fine(file)
  BY <1>0, <1>1, <1>4, <1>5 DEF Fine
<1>. QED  BY <1>1, <1>4, <1>5, <1>6, <1>7 DEF IsFile

LEMMA SwitchedIs ==
    ASSUME NEW old, IsFile(old), Opens(old), NEW blob \in Blobs,
           NEW file, file = Sealed(old, [old.header EXCEPT !.biometric = blob])
    PROVE  /\ IsFile(file) /\ ~file.hurt /\ file.vek = old.vek
           /\ \A p \in Passwords : SlotOpens(file, p) <=> SlotOpens(old, p)
           /\ file.header.biometric = blob
<1>. DEFINE header == [old.header EXCEPT !.biometric = blob]
<1>0. old \in Files /\ old.header \in Headers /\ Fine(old)
  BY DEF IsFile, Files
<1>1. /\ header.cost = old.header.cost /\ header.salt = old.header.salt
      /\ header.slot = old.header.slot /\ header.biometric = blob
  BY <1>0 DEF Headers
<1>2. blob \in Nat \X Nat
  BY DEF Blobs, NoBlob
<1>3. header \in Headers
  BY <1>0, <1>2 DEF Headers
<1>. HIDE DEF header
<1>4. file = Sealed(old, header)
  BY DEF header
<1>5. /\ file \in Files /\ file.header = header /\ file.aad = header /\ file.vek = old.vek
      /\ file.shape = old.shape /\ file.ct = old.ct /\ file.hurt = old.hurt
  BY <1>0, <1>3, <1>4, SealedIs
<1>6. \A p \in Passwords : SlotOpens(file, p) <=> SlotOpens(old, p)
  BY <1>1, <1>5 DEF SlotOpens
<1>7. Opens(file) /\ ~file.hurt
  BY <1>1, <1>5, FilesAreThere DEF Opens, Parses, PayloadOpens, IsFile
<1>8. Fine(file)
  BY <1>0, <1>1, <1>5, <1>6 DEF Fine
<1>. QED  BY <1>1, <1>5, <1>6, <1>7, <1>8 DEF IsFile

-----------------------------------------------------------------------------
(* A call of the screens leaves the edits alone.                           *)

LEMMA EditsStay ==
    ASSUME EditsKnow, UNCHANGED <<edit, outrun>>
    PROVE  EditsKnow'
BY DEF EditsKnow, EditKnows

LEMMA IdleIs ==
    /\ IdleCall \in CallRecs /\ IdleCall.at = "idle"
    /\ IdleEdit \in EditRecs /\ IdleEdit.at = "idle"
BY DEF IdleCall, CallRecs, IdleEdit, EditRecs, Passwords

LEMMA StartKeepsTheFile ==
    ASSUME VaultInv, NEW op \in {"create", "unlock", "biometric", "wipe"},
           NEW password \in Passwords, StartCall(op, password)
    PROVE  VaultInv'
<1>. USE DEF VaultInv, StartCall, CallAt, CallOnly
<1>1. /\ call' \in CallRecs
      /\ call'.at \in {"check", "read", "delfile"}
      /\ call'.at = "delfile" <=> op = "wipe"
  BY DEF IdleCall, CallRecs, Passwords
<1>2. /\ memory' \in [state : {"uninitialized", "locked", "unlocked"}, vek : Nat]
      /\ memory'.state = memory.state /\ memory'.vek \in {0, memory.vek}
      /\ op = "wipe" => memory'.vek = 0
  BY DEF VaultTyped
<1>3. UNCHANGED <<doc, dbBlob, edit, veks, fresh, asked, outrun, halfWiped>> /\ call.at = "idle"
  OBVIOUS
<1>. HIDE DEF StartCall
<1>4. VaultTyped'
  BY <1>1, <1>2, <1>3 DEF VaultTyped
<1>5. StoredIsAFile' /\ AnswersAsTold' /\ EditsKnow'
  BY <1>3, EditsStay DEF StoredIsAFile, AnswersAsTold
<1>6. MemoryIsOfStored' /\ CallKnows' /\ BlobIsOfStored'
  BY <1>1, <1>2, <1>3 DEF MemoryIsOfStored, CallKnows, BlobIsOfStored, OfStored
<1>. QED  BY <1>4, <1>5, <1>6

(* What a step of a call that leaves the stored file alone has to show.    *)
LEMMA FileStays ==
    ASSUME VaultInv, UNCHANGED <<doc, edit, veks, fresh, asked, outrun, halfWiped>>,
           call' \in CallRecs, dbBlob' \in Nat,
           memory' \in [state : {"uninitialized", "locked", "unlocked"}, vek : Nat],
           MemoryIsOfStored', CallKnows', BlobIsOfStored'
    PROVE  VaultInv'
<1>1. VaultTyped' /\ StoredIsAFile' /\ AnswersAsTold'
  BY DEF VaultInv, VaultTyped, StoredIsAFile, AnswersAsTold
<1>2. EditsKnow'
  BY EditsStay DEF VaultInv
<1>. QED  BY <1>1, <1>2 DEF VaultInv

LEMMA CallKeepsTheFile == ASSUME VaultInv, CallStep PROVE VaultInv'
<1>. USE DEF VaultInv, CallAt, CallGoto, CallDone
<1>0. UNCHANGED <<edit, outrun, halfWiped>> /\ EditsKnow'
  <2>1. UNCHANGED <<edit, outrun, halfWiped>>
    BY DEF CallStep, CheckNew, StoreFile, StoreKey, ReadToOpen, TryOpen, WipeFile, WipeKey, CallOnly
  <2>. QED  BY <2>1, EditsStay
<1>a. /\ call \in CallRecs /\ dbBlob \in Nat /\ veks \in Nat /\ fresh \in Nat
      /\ memory \in [state : {"uninitialized", "locked", "unlocked"}, vek : Nat]
  BY DEF VaultTyped
<1>1. CASE CheckNew
  <2>1. /\ UNCHANGED <<doc, dbBlob, memory, veks, fresh, asked>> /\ call.at = "check"
        /\ \/ /\ doc = NoDoc /\ memory.state = "uninitialized"
              /\ call' = [call EXCEPT !.at = "file"]
           \/ call' = IdleCall
    BY <1>1 DEF CheckNew
  <2>2. /\ call' \in CallRecs /\ call'.at \in {"file", "idle"}
        /\ call'.at = "file" => doc = NoDoc /\ memory.state = "uninitialized"
    BY <1>a, <2>1, IdleIs DEF CallRecs
  <2>3. MemoryIsOfStored' /\ CallKnows' /\ BlobIsOfStored'
    BY <1>0, <2>1, <2>2 DEF MemoryIsOfStored, CallKnows, BlobIsOfStored, OfStored
  <2>. QED  BY <1>0, <1>a, <2>1, <2>2, <2>3, FileStays
<1>2. CASE StoreFile
  <2>1. /\ call.at = "file" /\ veks' = veks + 1 /\ fresh' = fresh + 1
        /\ doc' = NewDoc(veks', call.password, "default", fresh')
        /\ asked' = [password |-> call.password, biometric |-> FALSE]
        /\ call' = [call EXCEPT !.at = "key", !.read = doc']
        /\ UNCHANGED <<dbBlob, memory>>
    BY <1>2 DEF StoreFile
  <2>2. veks' \in Nat \ {0} /\ fresh' \in Nat \ {0} /\ call.password \in Passwords
    BY <1>a, <2>1 DEF CallRecs
  <2>3. /\ IsFile(doc') /\ ~doc'.hurt /\ doc'.vek = veks'
        /\ SlotOpens(doc', call.password) /\ doc'.header.biometric = NoBlob
    BY <2>1, <2>2, NewDocIs
  <2>4. call' \in CallRecs /\ call'.at = "key" /\ call'.read = doc' /\ doc' # NoDoc
    BY <1>a, <2>1, <2>3, FilesAreThere DEF CallRecs, IsFile
  <2>5. VaultTyped'
    BY <1>0, <1>a, <2>1, <2>2, <2>4 DEF VaultTyped
  <2>6. asked'.password = call.password /\ asked'.biometric = FALSE
    BY <2>1
  <2>7. StoredIsAFile' /\ AnswersAsTold'
    BY <2>3, <2>6 DEF StoredIsAFile, AnswersAsTold, NoBlob
  <2>8. MemoryIsOfStored' /\ CallKnows' /\ BlobIsOfStored'
    BY <1>0, <2>1, <2>3, <2>4 DEF MemoryIsOfStored, CallKnows, BlobIsOfStored, OfStored
  <2>. QED  BY <1>0, <2>5, <2>7, <2>8
<1>3. CASE StoreKey
  <2>1. /\ call.at = "key" /\ dbBlob' = call.read.vek /\ memory' = Unlocked(call.read.vek)
        /\ call' = IdleCall /\ UNCHANGED <<doc, veks, fresh, asked>>
    BY <1>3 DEF StoreKey
  <2>2. IsFile(call.read) /\ OfStored(call.read.vek) /\ call.read.vek \in Nat
    BY <2>1 DEF CallKnows, IsFile, Files
  <2>3. /\ memory' \in [state : {"uninitialized", "locked", "unlocked"}, vek : Nat]
        /\ memory'.state = "unlocked" /\ memory'.vek = call.read.vek
    BY <2>1, <2>2 DEF Unlocked
  <2>4. MemoryIsOfStored' /\ CallKnows' /\ BlobIsOfStored'
    BY <1>0, <2>1, <2>2, <2>3, IdleIs DEF MemoryIsOfStored, CallKnows, BlobIsOfStored, OfStored
  <2>. QED  BY <1>0, <2>1, <2>2, <2>3, <2>4, IdleIs, FileStays
<1>4. CASE ReadToOpen
  <2>1. /\ call.at = "read" /\ UNCHANGED <<doc, dbBlob, memory, veks, fresh, asked>>
        /\ \/ Parses(doc) /\ call' = [call EXCEPT !.at = "open", !.read = doc]
           \/ call' = IdleCall
    BY <1>4 DEF ReadToOpen
  <2>2. Parses(doc) => IsFile(doc) /\ doc \in Files /\ doc # NoDoc
    BY DEF Parses, StoredIsAFile, IsFile
  <2>3. /\ call' \in CallRecs /\ call'.at \in {"open", "idle"}
        /\ call'.at = "open" => Parses(doc) /\ call'.read = doc
    BY <1>a, <2>1, <2>2, IdleIs DEF CallRecs
  <2>4. MemoryIsOfStored' /\ CallKnows' /\ BlobIsOfStored'
    BY <1>0, <2>1, <2>2, <2>3 DEF MemoryIsOfStored, CallKnows, BlobIsOfStored, OfStored
  <2>. QED  BY <1>0, <1>a, <2>1, <2>3, <2>4, FileStays
<1>5. CASE TryOpen
  <2>1. /\ call.at = "open" /\ call' = IdleCall
        /\ UNCHANGED <<doc, dbBlob, veks, fresh, asked>>
        /\ \/ \E key : PayloadOpens(call.read, key) /\ memory' = Unlocked(key)
           \/ UNCHANGED memory
    BY <1>5 DEF TryOpen
  <2>2. IsFile(call.read) /\ OfStored(call.read.vek) /\ call.read.vek \in Nat
    BY <2>1 DEF CallKnows, IsFile, Files
  <2>3. \/ memory' = memory
        \/ memory'.state = "unlocked" /\ memory' = Unlocked(call.read.vek)
    BY <2>1 DEF PayloadOpens, Unlocked
  <2>4. memory' \in [state : {"uninitialized", "locked", "unlocked"}, vek : Nat]
    BY <1>a, <2>2, <2>3 DEF Unlocked
  <2>5. MemoryIsOfStored'
    BY <1>0, <2>1, <2>2, <2>3 DEF MemoryIsOfStored, OfStored, Unlocked
  <2>6. CallKnows' /\ BlobIsOfStored'
    BY <1>0, <2>1, IdleIs DEF CallKnows, BlobIsOfStored, OfStored
  <2>. QED  BY <1>0, <1>a, <2>1, <2>4, <2>5, <2>6, IdleIs, FileStays
<1>6. CASE WipeFile
  <2>1. /\ call.at = "delfile" /\ doc' = NoDoc /\ call' = [call EXCEPT !.at = "delkey"]
        /\ UNCHANGED <<dbBlob, memory, veks, fresh, asked>>
    BY <1>6 DEF WipeFile
  <2>2. call' \in CallRecs /\ call'.at = "delkey"
    BY <1>a, <2>1 DEF CallRecs
  <2>3. VaultTyped'
    BY <1>0, <2>1, <2>2 DEF VaultTyped
  <2>4. /\ StoredIsAFile' /\ AnswersAsTold' /\ MemoryIsOfStored'
        /\ CallKnows' /\ BlobIsOfStored'
    BY <1>0, <2>1, <2>2 DEF StoredIsAFile, AnswersAsTold, MemoryIsOfStored, CallKnows,
                            BlobIsOfStored
  <2>. QED  BY <1>0, <2>3, <2>4
<1>7. CASE WipeKey
  <2>1. /\ call.at = "delkey" /\ dbBlob' = 0 /\ call' = IdleCall
        /\ UNCHANGED <<doc, veks, fresh, asked>>
        /\ memory' = memory \/ memory' = [memory EXCEPT !.state = "uninitialized"]
    BY <1>7 DEF WipeKey
  <2>2. /\ memory' \in [state : {"uninitialized", "locked", "unlocked"}, vek : Nat]
        /\ memory'.vek = 0
    BY <1>a, <2>1 DEF CallKnows
  <2>3. MemoryIsOfStored' /\ CallKnows' /\ BlobIsOfStored'
    BY <2>1, <2>2, IdleIs DEF MemoryIsOfStored, CallKnows, BlobIsOfStored
  <2>. QED  BY <1>0, <2>1, <2>2, <2>3, IdleIs, FileStays
<1>. QED  BY <1>1, <1>2, <1>3, <1>4, <1>5, <1>6, <1>7 DEF CallStep

-----------------------------------------------------------------------------
(* Edits.                                                                  *)

(* An edit that only moves on, or gives up.                                *)
LEMMA EditMoves ==
    ASSUME VaultInv, NEW e \in VaultEdits, NEW r \in EditRecs, edit' = [edit EXCEPT ![e] = r],
           EditKnows(r.at, r.op, r.read, r.vek),
           UNCHANGED <<doc, asked, outrun, dbBlob, memory, call, veks, halfWiped>>,
           fresh' \in Nat
    PROVE  VaultInv'
<1>. USE DEF VaultInv
<1>1. VaultTyped'
  BY DEF VaultTyped
<1>2. StoredIsAFile' /\ AnswersAsTold' /\ MemoryIsOfStored' /\ CallKnows' /\ BlobIsOfStored'
  BY DEF StoredIsAFile, AnswersAsTold, MemoryIsOfStored, CallKnows, BlobIsOfStored, OfStored
<1>3. edit \in [VaultEdits -> EditRecs]
  BY DEF VaultTyped
<1>4. EditsKnow'
  <2>1. EditKnows(r.at, r.op, r.read, r.vek)'
    BY DEF EditKnows
  <2>2. \A d \in VaultEdits : EditKnows(edit[d].at, edit[d].op, edit[d].read, edit[d].vek)'
    BY DEF EditsKnow, EditKnows
  <2>. QED  BY <1>3, <2>1, <2>2 DEF EditsKnow, EditKnows
<1>. QED  BY <1>1, <1>2, <1>4

(* An edit that writes a file back: what it wrote opens, and if nothing    *)
(* newer was overwritten, with what the user is told.                      *)
LEMMA EditWrites ==
    ASSUME VaultInv, NEW e \in VaultEdits, NEW file, NEW told, Store(e, file, told),
           UNCHANGED <<dbBlob, memory, call, veks, halfWiped>>, fresh' \in Nat,
           IsFile(edit[e].read), IsFile(file), file.vek = edit[e].read.vek,
           told \in [password : Passwords, biometric : BOOLEAN],
           ~outrun /\ doc = edit[e].read =>
               /\ SlotOpens(file, told.password)
               /\ file.header.biometric = NoBlob <=> ~told.biometric
               /\ file.header.biometric[1] \in {0, file.vek}
    PROVE  VaultInv'
<1>. USE DEF VaultInv
<1>1. /\ doc' = file /\ asked' = told /\ edit' = [edit EXCEPT ![e] = IdleEdit]
      /\ outrun => outrun'
      /\ ~outrun' => ~outrun /\ doc = edit[e].read
  BY DEF Store, Put
<1>2. file # NoDoc /\ edit[e].read # NoDoc
  BY FilesAreThere DEF IsFile
<1>3. \A vek : OfStored(vek) => OfStored(vek)'
  BY <1>1, <1>2 DEF OfStored
<1>4. VaultTyped'
  BY <1>1, IdleIs DEF VaultTyped
<1>5. StoredIsAFile' /\ AnswersAsTold'
  BY <1>1 DEF StoredIsAFile, AnswersAsTold
<1>6. MemoryIsOfStored'
  BY <1>3 DEF MemoryIsOfStored
<1>7. CallKnows'
  BY <1>1, <1>2, <1>3 DEF CallKnows
<1>8. BlobIsOfStored'
  BY <1>1, <1>2 DEF BlobIsOfStored
<1>9. EditsKnow'
  BY <1>1, IdleIs DEF EditsKnow, EditKnows, VaultTyped
<1>. QED  BY <1>4, <1>5, <1>6, <1>7, <1>8, <1>9

LEMMA EditKeepsTheFile ==
    ASSUME VaultInv, NEW e \in VaultEdits, EditStep(e)
    PROVE  VaultInv'
<1>. USE DEF VaultInv
<1>0. /\ edit[e] \in EditRecs /\ edit[e].password \in Passwords /\ edit[e].vek \in Nat
      /\ EditKnows(edit[e].at, edit[e].op, edit[e].read, edit[e].vek)
      /\ fresh \in Nat /\ memory.vek \in Nat
      /\ asked \in [password : Passwords, biometric : BOOLEAN]
  BY DEF VaultTyped, EditRecs, EditsKnow
<1>c. asked.password \in Passwords
  BY <1>0
<1>a. EditKnows(IdleEdit.at, IdleEdit.op, IdleEdit.read, IdleEdit.vek)
  BY IdleIs DEF EditKnows
<1>b. ASSUME Drop(e), UNCHANGED fresh, EditOnly PROVE VaultInv'
  BY <1>0, <1>a, <1>b, IdleIs, EditMoves DEF Drop, Put, EditOnly
<1>1. CASE ReadToEdit(e)
  <2>. DEFINE r == [edit[e] EXCEPT !.at = IF edit[e].op = "disable" THEN "write" ELSE "wait",
                                   !.read = doc,
                                   !.vek = IF edit[e].op = "enable" THEN memory.vek ELSE 0]
  <2>1. /\ UNCHANGED <<doc, asked, outrun, dbBlob, memory, call, veks, halfWiped, fresh>>
        /\ \/ /\ Parses(doc) /\ (edit[e].op = "enable" => memory.vek # 0)
              /\ edit' = [edit EXCEPT ![e] = r]
           \/ edit' = [edit EXCEPT ![e] = IdleEdit]
    BY <1>1 DEF ReadToEdit, EditOnly, Put
  <2>2. CASE edit' = [edit EXCEPT ![e] = IdleEdit]
    BY <1>0, <1>a, <2>1, <2>2, IdleIs, EditMoves
  <2>3. CASE /\ Parses(doc) /\ (edit[e].op = "enable" => memory.vek # 0)
             /\ edit' = [edit EXCEPT ![e] = r]
    <3>1. IsFile(doc) /\ doc \in Files
      BY <2>3 DEF Parses, StoredIsAFile, IsFile
    <3>2. /\ r \in EditRecs /\ r.read = doc /\ r.op = edit[e].op
          /\ r.op = "enable" => r.vek = memory.vek
      BY <1>0, <3>1 DEF EditRecs
    <3>. HIDE DEF r
    <3>3. EditKnows(r.at, r.op, r.read, r.vek)
      BY <2>3, <3>1, <3>2 DEF EditKnows, MemoryIsOfStored, OfStored
    <3>. QED  BY <1>0, <2>1, <2>3, <3>2, <3>3, EditMoves
  <2>. QED  BY <2>1, <2>2, <2>3
<1>2. CASE ChangePassword(e)
  <2>. DEFINE old == edit[e].read
              new == Other(edit[e].password)
              file == Rekeyed(old, fresh', new)
              told == [asked EXCEPT !.password = new]
  <2>1. /\ IsFile(old) /\ Parses(old) /\ EditOnly
        /\ \/ /\ PayloadOpens(old, old.vek) /\ fresh' = fresh + 1
              /\ Store(e, file, told)
           \/ Drop(e) /\ UNCHANGED fresh
    BY <1>0, <1>2 DEF ChangePassword, EditKnows
  <2>2. CASE /\ PayloadOpens(old, old.vek) /\ fresh' = fresh + 1
             /\ Store(e, file, told)
    <3>1. Opens(old) /\ fresh' \in Nat \ {0} /\ new \in Passwords
      BY <1>0, <2>1, <2>2 DEF Opens, Other, Passwords
    <3>2. /\ told \in [password : Passwords, biometric : BOOLEAN]
          /\ told.password = new /\ told.biometric = asked.biometric
      <4>1. told.password = new /\ told.biometric = asked.biometric
        BY <1>0
      <4>2. told \in [password : Passwords, biometric : BOOLEAN]
        BY <1>0, <3>1
      <4>. QED  BY <4>1, <4>2
    <3>. HIDE DEF new, file, told
    <3>3. /\ IsFile(file) /\ file.vek = old.vek /\ SlotOpens(file, new)
          /\ file.header.biometric = old.header.biometric /\ ~old.hurt
      BY <2>1, <3>1, RekeyedIs DEF file, IsFile
    <3>4. ~outrun /\ doc = old =>
              /\ SlotOpens(file, told.password)
              /\ file.header.biometric = NoBlob <=> ~told.biometric
              /\ file.header.biometric[1] \in {0, file.vek}
      BY <2>1, <3>2, <3>3 DEF AnswersAsTold, Parses
    <3>. QED  BY <2>1, <2>2, <3>1, <3>2, <3>3, <3>4, EditWrites DEF EditOnly
  <2>. QED  BY <1>b, <2>1, <2>2
<1>3. CASE EnableBiometrics(e)
  <2>. DEFINE old == edit[e].read
              blob == <<edit[e].vek, fresh'>>
              file == Sealed(old, [old.header EXCEPT !.biometric = blob])
              told == [asked EXCEPT !.biometric = TRUE]
  <2>1. /\ IsFile(old) /\ Parses(old) /\ EditOnly
        /\ edit[e].vek # 0 /\ (outrun \/ edit[e].vek = old.vek)
        /\ \/ MayRewrite(old) /\ fresh' = fresh + 1 /\ Store(e, file, told)
           \/ Drop(e) /\ UNCHANGED fresh
    BY <1>0, <1>3 DEF EnableBiometrics, EditKnows
  <2>2. CASE MayRewrite(old) /\ fresh' = fresh + 1 /\ Store(e, file, told)
    <3>1. Opens(old) /\ fresh' \in Nat \ {0}
      BY <1>0, <2>1, <2>2 DEF Opens, MayRewrite, PayloadOpens
    <3>2. blob \in Blobs /\ blob # NoBlob /\ blob[1] = edit[e].vek
      BY <1>0, <2>1, <3>1 DEF Blobs, NoBlob
    <3>3. /\ told \in [password : Passwords, biometric : BOOLEAN]
          /\ told.password = asked.password /\ told.biometric = TRUE
      <4>1. told.password = asked.password /\ told.biometric = TRUE
        BY <1>0
      <4>2. told \in [password : Passwords, biometric : BOOLEAN]
        BY <1>0
      <4>. QED  BY <4>1, <4>2
    <3>. HIDE DEF blob, file, told
    <3>4. /\ IsFile(file) /\ file.vek = old.vek /\ file.header.biometric = blob
          /\ \A p \in Passwords : SlotOpens(file, p) <=> SlotOpens(old, p)
          /\ ~old.hurt
      BY <2>1, <3>1, <3>2, SwitchedIs DEF file, IsFile
    <3>5. ~outrun /\ doc = old =>
              /\ SlotOpens(file, told.password)
              /\ file.header.biometric = NoBlob <=> ~told.biometric
              /\ file.header.biometric[1] \in {0, file.vek}
      BY <1>0, <1>c, <2>1, <3>2, <3>3, <3>4 DEF AnswersAsTold, Parses
    <3>. QED  BY <2>1, <2>2, <3>1, <3>3, <3>4, <3>5, EditWrites DEF EditOnly
  <2>. QED  BY <1>b, <2>1, <2>2
<1>4. CASE DisableBiometrics(e)
  <2>. DEFINE old == edit[e].read
              file == Sealed(old, [old.header EXCEPT !.biometric = NoBlob])
              told == [asked EXCEPT !.biometric = FALSE]
  <2>1. /\ IsFile(old) /\ Parses(old) /\ EditOnly /\ UNCHANGED fresh
        /\ \/ MayRewrite(old) /\ Store(e, file, told)
           \/ Drop(e)
    BY <1>0, <1>4 DEF DisableBiometrics, EditKnows
  <2>2. CASE MayRewrite(old) /\ Store(e, file, told)
    <3>1. Opens(old) /\ NoBlob \in Blobs /\ NoBlob[1] = 0
      BY <2>1, <2>2 DEF Opens, MayRewrite, PayloadOpens, Blobs, NoBlob
    <3>2. /\ told \in [password : Passwords, biometric : BOOLEAN]
          /\ told.password = asked.password /\ told.biometric = FALSE
      <4>1. told.password = asked.password /\ told.biometric = FALSE
        BY <1>0
      <4>2. told \in [password : Passwords, biometric : BOOLEAN]
        BY <1>0
      <4>. QED  BY <4>1, <4>2
    <3>. HIDE DEF file, told
    <3>3. /\ IsFile(file) /\ file.vek = old.vek /\ file.header.biometric = NoBlob
          /\ \A p \in Passwords : SlotOpens(file, p) <=> SlotOpens(old, p)
          /\ ~old.hurt
      BY <2>1, <3>1, SwitchedIs DEF file, IsFile
    <3>4. ~outrun /\ doc = old =>
              /\ SlotOpens(file, told.password)
              /\ file.header.biometric = NoBlob <=> ~told.biometric
              /\ file.header.biometric[1] \in {0, file.vek}
      BY <1>0, <1>c, <2>1, <3>1, <3>2, <3>3 DEF AnswersAsTold, Parses
    <3>. QED  BY <1>0, <2>1, <2>2, <3>2, <3>3, <3>4, EditWrites DEF EditOnly
  <2>. QED  BY <1>b, <2>1, <2>2
<1>. QED  BY <1>1, <1>2, <1>3, <1>4 DEF EditStep

LEMMA StartEditKeepsTheFile ==
    ASSUME VaultInv, NEW e \in VaultEdits, NEW op \in {"password", "enable", "disable"},
           NEW password \in Passwords, StartEdit(e, op, password)
    PROVE  VaultInv'
<1>. DEFINE r == [IdleEdit EXCEPT !.op = op, !.at = "read", !.password = password]
<1>1. /\ edit' = [edit EXCEPT ![e] = r] /\ UNCHANGED fresh
      /\ UNCHANGED <<doc, asked, outrun, dbBlob, memory, call, veks, halfWiped>>
  BY DEF StartEdit, Put, EditOnly
<1>2. r \in EditRecs /\ r.at = "read"
  BY DEF IdleEdit, EditRecs
<1>. HIDE DEF r
<1>3. EditKnows(r.at, r.op, r.read, r.vek)
  BY <1>2 DEF EditKnows
<1>. QED  BY <1>1, <1>2, <1>3, EditMoves DEF VaultInv, VaultTyped

-----------------------------------------------------------------------------
(* Locking, faults and the theorem.                                        *)

LEMMA LockKeepsTheFile == ASSUME VaultInv, LockFile PROVE VaultInv'
<1>1. UNCHANGED <<doc, dbBlob, call, edit, veks, fresh, asked, outrun, halfWiped>>
  BY DEF LockFile
<1>2. /\ memory' \in [state : {"uninitialized", "locked", "unlocked"}, vek : Nat]
      /\ memory'.state = "locked" /\ memory'.vek = 0
      /\ memory.state = "unlocked"
  BY DEF LockFile, Locked
<1>3. MemoryIsOfStored' /\ CallKnows' /\ BlobIsOfStored'
  BY <1>1, <1>2 DEF VaultInv, MemoryIsOfStored, CallKnows, BlobIsOfStored, OfStored
<1>. QED  BY <1>1, <1>2, <1>3, FileStays DEF VaultInv, VaultTyped

LEMMA DeathKeepsTheFile == ASSUME VaultInv, VaultDies PROVE VaultInv'
<1>. USE DEF VaultInv
<1>1. /\ UNCHANGED <<doc, dbBlob, veks, fresh, asked, outrun>>
      /\ call' = IdleCall /\ edit' = [e \in VaultEdits |-> IdleEdit]
      /\ halfWiped \/ call.at = "delkey" => halfWiped'
  BY DEF VaultDies, CallAt
<1>2. /\ memory' \in [state : {"uninitialized", "locked", "unlocked"}, vek : Nat]
      /\ memory'.state # "unlocked" /\ memory'.vek = 0
  BY DEF VaultDies, Locked
<1>3. VaultTyped'
  BY <1>1, <1>2, IdleIs DEF VaultTyped
<1>4. StoredIsAFile' /\ AnswersAsTold'
  BY <1>1 DEF StoredIsAFile, AnswersAsTold
<1>5. MemoryIsOfStored' /\ CallKnows' /\ BlobIsOfStored'
  BY <1>1, <1>2, IdleIs DEF MemoryIsOfStored, CallKnows, BlobIsOfStored
<1>6. EditsKnow'
  BY <1>1, IdleIs DEF EditsKnow, EditKnows
<1>. QED  BY <1>3, <1>4, <1>5, <1>6

LEMMA DamageKeepsTheFile == ASSUME VaultInv, FileIsDamaged PROVE VaultInv'
<1>. USE DEF VaultInv
<1>1. /\ UNCHANGED <<dbBlob, memory, call, edit, veks, fresh, asked, outrun, halfWiped>>
      /\ doc # NoDoc /\ ~doc.hurt
      /\ doc' \in {[f EXCEPT !.hurt = TRUE] : f \in Damages(doc)}
  BY DEF FileIsDamaged
<1>2. doc \in Files /\ Opens(doc) /\ Fine(doc)
  BY <1>1 DEF StoredIsAFile, IsFile
<1>3. doc' \in Files /\ doc'.hurt /\ doc'.vek = doc.vek /\ ~Opens(doc')
  BY <1>1, <1>2, DamagedIs
<1>4. IsFile(doc') /\ doc' # NoDoc
  BY <1>3, FilesAreThere DEF IsFile
<1>5. VaultTyped'
  BY <1>1 DEF VaultTyped
<1>6. StoredIsAFile' /\ AnswersAsTold'
  BY <1>3, <1>4 DEF StoredIsAFile, AnswersAsTold
<1>7. \A vek : OfStored(vek) => OfStored(vek)'
  BY <1>1, <1>3, <1>4 DEF OfStored
<1>8. MemoryIsOfStored' /\ BlobIsOfStored'
  BY <1>1, <1>3, <1>4, <1>7 DEF MemoryIsOfStored, BlobIsOfStored
<1>9. CallKnows'
  BY <1>1, <1>7 DEF CallKnows
<1>10. EditsKnow'
  BY <1>1, EditsStay
<1>. QED  BY <1>5, <1>6, <1>8, <1>9, <1>10

LEMMA VaultInvHolds == VaultInv /\ [VaultFileNext]_vaultFileVars => VaultInv'
<1>. SUFFICES ASSUME VaultInv, [VaultFileNext]_vaultFileVars PROVE VaultInv'
  OBVIOUS
<1>1. CASE UNCHANGED vaultFileVars
  <2>1. /\ UNCHANGED <<doc, edit, veks, fresh, asked, outrun, halfWiped>>
        /\ UNCHANGED <<dbBlob, memory, call>>
    BY <1>1 DEF vaultFileVars
  <2>2. MemoryIsOfStored' /\ CallKnows' /\ BlobIsOfStored'
    BY <2>1 DEF VaultInv, MemoryIsOfStored, CallKnows, BlobIsOfStored, OfStored
  <2>. QED  BY <2>1, <2>2, FileStays DEF VaultInv, VaultTyped
<1>2. CASE \E op \in {"create", "unlock", "biometric", "wipe"}, p \in Passwords : StartCall(op, p)
  BY <1>2, StartKeepsTheFile
<1>3. CASE CallStep
  BY <1>3, CallKeepsTheFile
<1>4. CASE LockFile
  BY <1>4, LockKeepsTheFile
<1>5. CASE VaultDies
  BY <1>5, DeathKeepsTheFile
<1>6. CASE FileIsDamaged
  BY <1>6, DamageKeepsTheFile
<1>7. ASSUME NEW e \in VaultEdits, NEW op \in {"password", "enable", "disable"},
             NEW p \in Passwords, StartEdit(e, op, p)
      PROVE  VaultInv'
  BY <1>7, StartEditKeepsTheFile
<1>8. ASSUME NEW e \in VaultEdits, EditStep(e) PROVE VaultInv'
  BY <1>8, EditKeepsTheFile
<1>. QED  BY <1>1, <1>2, <1>3, <1>4, <1>5, <1>6, <1>7, <1>8 DEF VaultFileNext

LEMMA VaultInvStarts == VaultFileInit => VaultInv
<1>. SUFFICES ASSUME VaultFileInit PROVE VaultInv
  OBVIOUS
<1>. USE DEF VaultFileInit
<1>1. /\ memory \in [state : {"uninitialized", "locked", "unlocked"}, vek : Nat]
      /\ memory.state = "uninitialized" /\ memory.vek = 0
  BY DEF Locked
<1>2. asked \in [password : Passwords, biometric : BOOLEAN]
  BY DEF Passwords
<1>3. VaultTyped
  BY <1>1, <1>2, IdleIs DEF VaultTyped
<1>4. StoredIsAFile /\ AnswersAsTold
  BY DEF StoredIsAFile, AnswersAsTold
<1>5. MemoryIsOfStored /\ CallKnows /\ BlobIsOfStored
  BY <1>1, IdleIs DEF MemoryIsOfStored, CallKnows, BlobIsOfStored
<1>6. EditsKnow
  BY IdleIs DEF EditsKnow, EditKnows
<1>. QED  BY <1>3, <1>4, <1>5, <1>6 DEF VaultInv

LEMMA VaultInvSuffices == VaultInv => VaultFileIsSound
<1>. SUFFICES ASSUME VaultInv PROVE VaultFileIsSound
  OBVIOUS
<1>. USE DEF VaultInv
<1>1. StoredFileOpens
  BY DEF StoredFileOpens, StoredIsAFile, IsFile, AnswersAsTold, Opens, Fine
<1>2. DamageIsNeverSealed
  BY DEF DamageIsNeverSealed, StoredIsAFile, IsFile, Opens
<1>3. CostsAreBounded
  BY DEF CostsAreBounded, CallKnows, EditsKnow, EditKnows, Parses
<1>4. KeyBlobIsTheFiles
  BY DEF KeyBlobIsTheFiles, BlobIsOfStored, CallKnows
<1>. QED  BY <1>1, <1>2, <1>3, <1>4 DEF VaultFileIsSound

(* Whatever number of edits are under way and however often the process    *)
(* dies or storage loses a byte: the stored vault file opens with what the *)
(* user was last told, a damaged one is never sealed again, no derivation  *)
(* starts from excessive costs, and the stored database key is the stored  *)
(* vault's (vault.ts:411-412, 522-636, 722-723; kdf.ts:87-91).             *)
THEOREM TheStoredVaultOpens == VaultFileSpec => []VaultFileIsSound
<1>. QED  BY VaultInvStarts, VaultInvHolds, VaultInvSuffices, PTL DEF VaultFileSpec

-----------------------------------------------------------------------------
(* The gateway's rows behind the cursor (Relay).                           *)

USE RelayAssumption

SpoolRows == [tag : 0..(MaxRelayEpoch + 1), sane : BOOLEAN]

FetchTyped(f) ==
    /\ f \in [at : {"idle", "ask", "ingest"}, asking : Seq(Nat), since : 0..Len(spool),
              found : Seq(1..Len(spool)), cursor : 0..Len(spool)]
    /\ Len(f.found) <= MaxPerPoll
    /\ f.at = "ask" => f.asking # <<>>

RelayTyped ==
    /\ spool \in Seq(SpoolRows) /\ Len(spool) <= MaxSpool
    /\ relayEpoch \in 1..MaxRelayEpoch
    /\ relayCursor \in 0..Len(spool)
    /\ fetch = [p \in Pollers |-> fetch[p]]
    /\ \A p \in Pollers : FetchTyped(fetch[p])
    /\ settled \subseteq 1..Len(spool)
    /\ relayFaults \in 0..MaxRelayFaults

(* A sane row under a tag of the wallet.                                   *)
DueTag(tag) == tag \in {AnyTag, relayEpoch, relayEpoch + 1}
DueRow(n) == n \in 1..Len(spool) /\ spool[n].sane /\ DueTag(spool[n].tag)

(* The tags of later epochs are not in use yet.                            *)
TagsAreOfTheirTime == \A n \in 1..Len(spool) : spool[n].tag <= relayEpoch + 1

SettledUpTo(k) == \A n \in 1..k : DueRow(n) => n \in settled

(* Where a poll has been: a tag it no longer asks for, or a row without a  *)
(* tag behind its cursor; everything behind it once no tag is left.        *)
Passed(f, n) ==
    \/ /\ f.at = "ask"
       /\ \/ spool[n].tag # AnyTag /\ spool[n].tag \notin ToSet(f.asking)
          \/ spool[n].tag = AnyTag /\ n <= f.cursor
    \/ f.at = "ingest" /\ n <= f.cursor

PollAccounts(f) ==
    /\ SettledUpTo(f.since)
    /\ \A n \in 1..Len(spool) : DueRow(n) /\ Passed(f, n) => n \in settled \cup ToSet(f.found)

RelayInv ==
    /\ RelayTyped
    /\ TagsAreOfTheirTime
    /\ SettledUpTo(relayCursor)
    /\ \A p \in Pollers : PollAccounts(fetch[p])

LEMMA ToSetAppend ==
    ASSUME NEW S, NEW s \in Seq(S), NEW x
    PROVE  ToSet(Append(s, x)) = ToSet(s) \cup {x}
<1>1. ASSUME NEW i \in 1..Len(s) PROVE Append(s, x)[i] = s[i]
  OBVIOUS
<1>2. Append(s, x)[Len(s) + 1] = x /\ DOMAIN Append(s, x) = 1..(Len(s) + 1) /\ DOMAIN s = 1..Len(s)
  OBVIOUS
<1>. QED  BY <1>1, <1>2 DEF ToSet

LEMMA ToSetHeadTail ==
    ASSUME NEW S, NEW s \in Seq(S), s # <<>>
    PROVE  ToSet(s) = {Head(s)} \cup ToSet(Tail(s))
<1>1. DOMAIN s = 1..Len(s) /\ Len(s) # 0 /\ Len(s) \in Nat
  BY EmptySeq
<1>2. Tail(s) \in Seq(S) /\ Len(Tail(s)) = Len(s) - 1 /\ DOMAIN Tail(s) = 1..(Len(s) - 1)
  BY <1>1
<1>3. \A i \in 1..(Len(s) - 1) : Tail(s)[i] = s[i + 1]
  BY <1>1
<1>4. ASSUME NEW i \in 1..Len(s), i # 1 PROVE i - 1 \in 1..(Len(s) - 1) /\ Tail(s)[i - 1] = s[i]
  <2>1. i - 1 \in 1..(Len(s) - 1) /\ (i - 1) + 1 = i
    BY <1>1, <1>4
  <2>. QED  BY <2>1, <1>3
<1>5. Head(s) = s[1] /\ 1 \in 1..Len(s)
  BY <1>1
<1>6. ASSUME NEW i \in 1..(Len(s) - 1) PROVE i + 1 \in 1..Len(s)
  BY <1>1
<1>7. ASSUME NEW y \in ToSet(s) PROVE y \in {Head(s)} \cup ToSet(Tail(s))
  <2>1. PICK i \in 1..Len(s) : y = s[i]
    BY <1>1 DEF ToSet
  <2>2. CASE i = 1
    BY <2>1, <2>2, <1>5
  <2>3. CASE i # 1
    BY <2>1, <2>3, <1>4, <1>2 DEF ToSet
  <2>. QED  BY <2>2, <2>3
<1>8. ASSUME NEW y \in ToSet(Tail(s)) PROVE y \in ToSet(s)
  <2>1. PICK i \in 1..(Len(s) - 1) : y = Tail(s)[i]
    BY <1>2 DEF ToSet
  <2>2. y = s[i + 1] /\ i + 1 \in 1..Len(s)
    BY <2>1, <1>3, <1>6
  <2>. QED  BY <2>2, <1>1 DEF ToSet
<1>9. Head(s) \in ToSet(s)
  BY <1>5, <1>1 DEF ToSet
<1>. QED  BY <1>7, <1>8, <1>9

-----------------------------------------------------------------------------
(* The objects of a page, one by one.                                      *)

TakenNext(page, known, n) ==
    IF n \in page /\ spool[n].sane /\ n \notin ToSet(known) /\ Len(known) < MaxPerPoll
    THEN Append(known, n) ELSE known

Walked(found, page, g, n) ==
    /\ DOMAIN g = 0..n
    /\ g[0] = found
    /\ \A k \in 1..n : g[k] = TakenNext(page, g[k - 1], k)

LEMMA WalkExists ==
    ASSUME NEW found, NEW page, NEW n \in Nat
    PROVE  \E g : Walked(found, page, g, n)
<1> DEFINE Missed == {m \in Nat : ~ \E g : Walked(found, page, g, m)}
<1>1. SUFFICES ASSUME n \in Missed PROVE FALSE
  OBVIOUS
<1>2. Missed \in SUBSET Nat /\ Missed # {}
  BY <1>1
<1>3. PICK m \in Missed : \A j \in Missed : m <= j
  <2> HIDE DEF Missed
  <2> QED BY <1>2, LeastOfNat
<1>4. m # 0
  <2>1. Walked(found, page, [k \in 0..0 |-> found], 0)
    BY DEF Walked
  <2> QED BY <1>3, <2>1
<1>5. m - 1 \in Nat /\ m - 1 \notin Missed /\ m \in Nat
  BY <1>3, <1>4
<1>6. PICK g : Walked(found, page, g, m - 1)
  BY <1>5
<1> DEFINE h == [k \in 0..m |-> IF k = m THEN TakenNext(page, g[m - 1], m) ELSE g[k]]
<1>7. Walked(found, page, h, m)
  <2>1. DOMAIN h = 0..m
    OBVIOUS
  <2>2. h[0] = found
    BY <1>6, <1>4, <1>5 DEF Walked
  <2>3. ASSUME NEW k \in 1..m PROVE h[k] = TakenNext(page, h[k - 1], k)
    <3>1. k - 1 \in 0..m /\ k - 1 # m /\ k \in 0..m
      BY <1>5
    <3>2. h[k - 1] = g[k - 1]
      BY <3>1
    <3>3. CASE k = m
      BY <3>1, <3>2, <3>3
    <3>4. CASE k # m
      <4>1. k \in 1..(m - 1)
        BY <1>5, <3>4
      <4>2. g[k] = TakenNext(page, g[k - 1], k)
        BY <1>6, <4>1 DEF Walked
      <4>3. h[k] = g[k]
        BY <3>1, <3>4
      <4> QED BY <3>2, <4>2, <4>3
    <3> QED BY <3>3, <3>4
  <2> HIDE DEF h
  <2> QED BY <2>1, <2>2, <2>3 DEF Walked
<1> QED BY <1>3, <1>7

LEMMA MergeWalks ==
    ASSUME NEW found, NEW page, Len(spool) \in Nat
    PROVE  \E g : Walked(found, page, g, Len(spool)) /\ Merge(found, page) = g[Len(spool)]
<1> DEFINE N == Len(spool)
           Rule(f) == f = [n \in 0..N |-> IF n = 0 THEN found
                             ELSE IF n \in page /\ (spool[n].sane /\ n \notin ToSet(f[n - 1]) /\ Len(f[n - 1]) < MaxPerPoll)
                                  THEN Append(f[n - 1], n) ELSE f[n - 1]]
           upTo == CHOOSE f : Rule(f)
<1>1. Merge(found, page) = upTo[N]
  BY DEF Merge
<1>2. PICK g : Walked(found, page, g, N)
  BY WalkExists
<1> DEFINE h == [n \in 0..N |-> g[n]]
<1>3. Rule(h)
  <2>1. ASSUME NEW n \in 0..N
        PROVE  h[n] = IF n = 0 THEN found
                      ELSE IF n \in page /\ (spool[n].sane /\ n \notin ToSet(h[n - 1]) /\ Len(h[n - 1]) < MaxPerPoll)
                           THEN Append(h[n - 1], n) ELSE h[n - 1]
    <3>1. CASE n = 0
      BY <1>2, <3>1 DEF Walked
    <3>2. CASE n # 0
      <4>1. n \in 1..N /\ n - 1 \in 0..N
        BY <3>2
      <4>2. g[n] = TakenNext(page, g[n - 1], n)
        BY <1>2, <4>1 DEF Walked
      <4>3. h[n] = g[n] /\ h[n - 1] = g[n - 1]
        BY <4>1
      <4> HIDE DEF h
      <4> QED BY <3>2, <4>2, <4>3 DEF TakenNext
    <3> QED BY <3>1, <3>2
  <2>2. h = [n \in 0..N |-> h[n]]
    OBVIOUS
  <2> HIDE DEF h
  <2> QED BY <2>1, <2>2
<1>4. Rule(upTo)
  <2> HIDE DEF Rule, h
  <2> QED BY <1>3
<1>5. Walked(found, page, upTo, N)
  <2>1. upTo = [n \in 0..N |-> IF n = 0 THEN found
                  ELSE IF n \in page /\ (spool[n].sane /\ n \notin ToSet(upTo[n - 1]) /\ Len(upTo[n - 1]) < MaxPerPoll)
                       THEN Append(upTo[n - 1], n) ELSE upTo[n - 1]]
    BY <1>4
  <2> HIDE DEF upTo
  <2>2. DOMAIN upTo = 0..N
    BY <2>1
  <2>3. upTo[0] = found
    <3>1. 0 \in 0..N
      OBVIOUS
    <3> QED BY <2>1, <3>1
  <2>4. ASSUME NEW k \in 1..N PROVE upTo[k] = TakenNext(page, upTo[k - 1], k)
    <3>1. k \in 0..N /\ k # 0
      OBVIOUS
    <3> QED BY <2>1, <3>1 DEF TakenNext
  <2> QED BY <2>2, <2>3, <2>4 DEF Walked
<1> HIDE DEF upTo
<1> QED BY <1>1, <1>5

(* What a poll knows after the rows up to n of a page.                     *)
Known(found, page, known, n) ==
    /\ known \in Seq(1..Len(spool)) /\ Len(known) <= MaxPerPoll
    /\ ToSet(found) \subseteq ToSet(known)
    /\ \A m \in page : m <= n /\ spool[m].sane => m \in ToSet(known) \/ Len(known) = MaxPerPoll

LEMMA OneMoreKnown ==
    ASSUME NEW found, NEW page \in SUBSET (1..Len(spool)), Len(spool) \in Nat, NEW known,
           NEW n \in 1..Len(spool), Known(found, page, known, n - 1)
    PROVE  Known(found, page, TakenNext(page, known, n), n)
<1>1. known \in Seq(1..Len(spool)) /\ Len(known) \in Nat
  BY DEF Known
<1>2. CASE n \in page /\ spool[n].sane /\ n \notin ToSet(known) /\ Len(known) < MaxPerPoll
  <2>1. TakenNext(page, known, n) = Append(known, n)
    BY <1>2 DEF TakenNext
  <2>2. Append(known, n) \in Seq(1..Len(spool)) /\ Len(Append(known, n)) = Len(known) + 1
    BY <1>1
  <2>3. ToSet(Append(known, n)) = ToSet(known) \cup {n}
    BY <1>1, ToSetAppend
  <2>4. \A m \in page : m <= n => m <= n - 1 \/ m = n
    OBVIOUS
  <2>. QED  BY <1>1, <1>2, <2>1, <2>2, <2>3, <2>4 DEF Known
<1>3. CASE ~(n \in page /\ spool[n].sane /\ n \notin ToSet(known) /\ Len(known) < MaxPerPoll)
  <2>1. TakenNext(page, known, n) = known
    BY <1>3 DEF TakenNext
  <2>2. \A m \in page : m <= n => m <= n - 1 \/ m = n
    OBVIOUS
  <2>. QED  BY <1>1, <1>3, <2>1, <2>2 DEF Known
<1>. QED  BY <1>2, <1>3

LEMMA MergeKnows ==
    ASSUME NEW found \in Seq(1..Len(spool)), Len(found) <= MaxPerPoll, Len(spool) \in Nat,
           NEW page \in SUBSET (1..Len(spool))
    PROVE  Known(found, page, Merge(found, page), Len(spool))
<1>1. PICK g : Walked(found, page, g, Len(spool)) /\ Merge(found, page) = g[Len(spool)]
  BY MergeWalks
<1> DEFINE Missed == {m \in 0..Len(spool) : ~ Known(found, page, g[m], m)}
<1>2. SUFFICES ASSUME Missed # {} PROVE FALSE
  BY <1>1
<1>3. PICK m \in Missed : \A j \in Missed : m <= j
  <2>1. Missed \in SUBSET Nat
    OBVIOUS
  <2> HIDE DEF Missed
  <2> QED BY <1>2, <2>1, LeastOfNat
<1>4. Known(found, page, found, 0)
  BY DEF Known
<1>5. m # 0
  BY <1>1, <1>3, <1>4 DEF Walked
<1>6. m \in 1..Len(spool) /\ m - 1 \in 0..Len(spool) /\ m - 1 \notin Missed
  BY <1>3, <1>5
<1>7. Known(found, page, g[m - 1], m - 1)
  BY <1>6
<1>8. g[m] = TakenNext(page, g[m - 1], m)
  BY <1>1, <1>6 DEF Walked
<1>. QED  BY <1>3, <1>6, <1>7, <1>8, OneMoreKnown

LEMMA GreatestOfRange ==
    ASSUME NEW N \in Nat, NEW S \in SUBSET (0..N), S # {}
    PROVE  Max(S) \in S /\ \A y \in S : y <= Max(S)
<1> DEFINE Gaps == {k \in Nat : N - k \in S}
<1>1. PICK k \in Gaps : \A j \in Gaps : k <= j
  <2>1. PICK x \in S : TRUE
    OBVIOUS
  <2>2. N - x \in Nat /\ N - (N - x) = x
    OBVIOUS
  <2>3. Gaps # {} /\ Gaps \in SUBSET Nat
    BY <2>2
  <2> HIDE DEF Gaps
  <2>. QED  BY <2>3, LeastOfNat
<1>2. \A y \in S : N - k >= y
  <2>1. SUFFICES ASSUME NEW y \in S PROVE N - k >= y
    OBVIOUS
  <2>2. N - y \in Nat /\ N - (N - y) = y
    OBVIOUS
  <2>3. N - y \in Gaps
    BY <2>2
  <2>4. k \in Nat /\ y \in 0..N
    OBVIOUS
  <2>5. k <= N - y
    BY <2>3, <1>1
  <2>. HIDE DEF Gaps
  <2>. QED  BY <2>4, <2>5
<1>3. N - k \in S
  BY <1>1
<1>4. Max(S) \in S /\ \A y \in S : Max(S) >= y
  BY <1>2, <1>3 DEF Max
<1>5. ASSUME NEW y \in S PROVE y <= Max(S)
  <2>1. y \in 0..N /\ Max(S) \in 0..N
    BY <1>4
  <2>2. Max(S) >= y
    BY <1>4
  <2>. QED  BY <2>1, <2>2
<1>. QED  BY <1>4, <1>5

-----------------------------------------------------------------------------
(* The steps.                                                              *)

LEMMA PageIsOfTheSpool ==
    ASSUME NEW tag, NEW since
    PROVE  Page(tag, since) \in SUBSET (1..Len(spool))
BY DEF Page

LEMMA RelayStarts == RelayInit => RelayInv
<1>. SUFFICES ASSUME RelayInit PROVE RelayInv
  OBVIOUS
<1>1. Len(spool) = 0 /\ spool \in Seq(SpoolRows)
  BY DEF RelayInit
<1>2. RelayTyped
  <2>1. FetchTyped(NoFetch)
    BY <1>1, RelayAssumption DEF FetchTyped, NoFetch
  <2>2. fetch = [p \in Pollers |-> fetch[p]] /\ \A p \in Pollers : fetch[p] = NoFetch
    BY DEF RelayInit
  <2>. QED  BY <1>1, <2>1, <2>2, RelayAssumption DEF RelayInit, RelayTyped
<1>3. TagsAreOfTheirTime /\ SettledUpTo(relayCursor)
  BY <1>1 DEF RelayInit, TagsAreOfTheirTime, SettledUpTo
<1>4. \A p \in Pollers : PollAccounts(fetch[p])
  BY <1>1 DEF RelayInit, PollAccounts, SettledUpTo, NoFetch
<1>. QED  BY <1>2, <1>3, <1>4 DEF RelayInv

(* Another row of the gateway.                                             *)
LEMMA SpoolRowKeeps == RelayInv /\ SpoolRow => RelayInv'
<1>. SUFFICES ASSUME RelayInv, SpoolRow PROVE RelayInv'
  OBVIOUS
<1>1. PICK tag \in {AnyTag} \cup ToSet(WindowOf(relayEpoch)), sane \in BOOLEAN :
        /\ spool' = Append(spool, [tag |-> tag, sane |-> sane])
        /\ settled' = IF AskedAlready(tag) THEN settled \cup {Len(spool) + 1} ELSE settled
  BY DEF SpoolRow
<1>. DEFINE new == Len(spool) + 1
<1>2. RelayTyped /\ Len(spool) \in Nat /\ Len(spool) < MaxSpool
  BY DEF RelayInv, RelayTyped, SpoolRow
<1>3. UNCHANGED <<relayEpoch, relayCursor, fetch, relayFaults>>
  BY DEF SpoolRow
<1>4. tag \in {AnyTag, relayEpoch, relayEpoch + 1}
  BY DEF ToSet, WindowOf
<1>5. tag \in 0..(MaxRelayEpoch + 1) /\ tag <= relayEpoch + 1
  BY <1>2, <1>4 DEF RelayTyped, AnyTag, RelayAssumption
<1>6. /\ Len(spool') = new /\ spool' \in Seq(SpoolRows)
      /\ \A n \in 1..Len(spool) : spool'[n] = spool[n]
      /\ spool'[new] = [tag |-> tag, sane |-> sane]
  BY <1>1, <1>2, <1>5 DEF RelayTyped, SpoolRows
<1>7. settled \subseteq settled' /\ settled' \subseteq 1..new
  BY <1>1, <1>2 DEF RelayTyped
<1>8. \A n \in 1..Len(spool) : DueRow(n)' => DueRow(n)
  BY <1>3, <1>6 DEF DueRow, DueTag
<1>9. RelayTyped'
  <2>1. ASSUME NEW p \in Pollers PROVE FetchTyped(fetch[p])'
    <3>1. FetchTyped(fetch[p])
      BY <1>2 DEF RelayTyped
    <3>2. 0..Len(spool) \subseteq 0..new /\ 1..Len(spool) \subseteq 1..new
      BY <1>2
    <3>3. Seq(1..Len(spool)) \subseteq Seq(1..new)
      BY <3>2
    <3>. QED  BY <3>1, <3>2, <3>3, <1>3, <1>6 DEF FetchTyped
  <2>2. relayCursor' \in 0..Len(spool') /\ Len(spool') <= MaxSpool
    BY <1>2, <1>3, <1>6 DEF RelayTyped, SpoolRow
  <2>. QED  BY <1>2, <1>3, <1>6, <1>7, <2>1, <2>2 DEF RelayTyped
<1>10. TagsAreOfTheirTime'
  <2>1. \A n \in 1..new : n \in 1..Len(spool) \/ n = new
    BY <1>2
  <2>. QED  BY <2>1, <1>3, <1>5, <1>6 DEF RelayInv, TagsAreOfTheirTime
<1>11. ASSUME NEW k \in 0..Len(spool), SettledUpTo(k) PROVE SettledUpTo(k)'
  <2>1. \A n \in 1..k : n \in 1..Len(spool)
    BY <1>2
  <2>. QED  BY <2>1, <1>7, <1>8, <1>11 DEF SettledUpTo
<1>12. SettledUpTo(relayCursor)'
  <2>1. SettledUpTo(relayCursor) /\ relayCursor \in 0..Len(spool)
    BY <1>2 DEF RelayInv, RelayTyped
  <2>. QED  BY <2>1, <1>11, <1>3 DEF SettledUpTo
<1>13. ASSUME NEW p \in Pollers PROVE PollAccounts(fetch[p])'
  <2>. DEFINE f == fetch[p]
  <2>1. FetchTyped(f) /\ PollAccounts(f) /\ fetch'[p] = f
    BY <1>2, <1>3 DEF RelayInv, RelayTyped
  <2>2. SettledUpTo(f.since)'
    <3>1. f.since \in 0..Len(spool) /\ SettledUpTo(f.since)
      BY <2>1 DEF FetchTyped, PollAccounts
    <3>. QED  BY <3>1, <2>1, <1>11, <1>3 DEF SettledUpTo
  <2>3. ASSUME NEW n \in 1..new, DueRow(n)', Passed(f, n)'
        PROVE  n \in settled' \cup ToSet(f.found)
    <3>1. CASE n # new
      <4>1. n \in 1..Len(spool)
        BY <1>2, <3>1
      <4>2. DueRow(n) /\ Passed(f, n)
        BY <4>1, <1>3, <1>6, <1>8, <2>1, <2>3 DEF Passed
      <4>. QED  BY <4>1, <4>2, <2>1, <1>7 DEF PollAccounts
    <3>2. CASE n = new
      <4>1. f.cursor \in 0..Len(spool) /\ ~(n <= f.cursor)
        BY <2>1, <1>2, <3>2 DEF FetchTyped
      <4>2. f.at = "ask" /\ tag # AnyTag /\ tag \notin ToSet(f.asking)
        BY <4>1, <2>1, <2>3, <3>2, <1>3, <1>6 DEF Passed
      <4>3. AskedAlready(tag)
        BY <4>2, <2>1 DEF AskedAlready, FetchTyped
      <4>. QED  BY <4>3, <1>1, <3>2
    <3>. QED  BY <3>1, <3>2
  <2>. QED  BY <1>6, <2>1, <2>2, <2>3 DEF PollAccounts
<1>. QED  BY <1>9, <1>10, <1>12, <1>13 DEF RelayInv

(* The tags of an epoch gone by are asked for no more.                     *)
LEMMA EpochTurnKeeps == RelayInv /\ RelayEpochTurns => RelayInv'
<1>. SUFFICES ASSUME RelayInv, RelayEpochTurns PROVE RelayInv'
  OBVIOUS
<1>1. UNCHANGED <<spool, relayCursor, fetch, settled, relayFaults>> /\ relayEpoch' = relayEpoch + 1
  BY DEF RelayEpochTurns
<1>2. RelayTyped /\ TagsAreOfTheirTime /\ relayEpoch \in Nat /\ Len(spool) \in Nat
  BY DEF RelayInv, RelayTyped
<1>3. \A n \in 1..Len(spool) : spool[n] \in SpoolRows
  BY <1>2 DEF RelayTyped
<1>4. ASSUME NEW n, DueRow(n)' PROVE DueRow(n)
  <2>1. n \in 1..Len(spool) /\ spool[n].sane /\ spool[n].tag \in {AnyTag, relayEpoch + 1, (relayEpoch + 1) + 1}
    BY <1>1, <1>4 DEF DueRow, DueTag
  <2>2. spool[n].tag <= relayEpoch + 1 /\ spool[n].tag \in Nat
    BY <2>1, <1>2, <1>3 DEF TagsAreOfTheirTime, SpoolRows
  <2>. QED  BY <2>1, <2>2, <1>2 DEF DueRow, DueTag
<1>5. RelayTyped'
  <2>1. relayEpoch' \in 1..MaxRelayEpoch
    BY <1>1, <1>2 DEF RelayEpochTurns, RelayTyped
  <2>2. \A p \in Pollers : FetchTyped(fetch[p])'
    BY <1>1, <1>2 DEF RelayTyped, FetchTyped
  <2>. QED  BY <2>1, <2>2, <1>1, <1>2 DEF RelayTyped
<1>6. TagsAreOfTheirTime'
  BY <1>1, <1>2, <1>3 DEF TagsAreOfTheirTime, SpoolRows
<1>7. SettledUpTo(relayCursor)'
  BY <1>1, <1>4 DEF RelayInv, SettledUpTo
<1>8. ASSUME NEW p \in Pollers PROVE PollAccounts(fetch[p])'
  <2>1. PollAccounts(fetch[p])
    BY DEF RelayInv
  <2>. QED  BY <2>1, <1>1, <1>4 DEF PollAccounts, SettledUpTo, Passed
<1>. QED  BY <1>5, <1>6, <1>7, <1>8 DEF RelayInv

(* A step of one poll: the others keep their account, for only more rows   *)
(* are settled.                                                            *)
LEMMA APollMoves ==
    ASSUME RelayInv, NEW p \in Pollers, NEW f, UNCHANGED <<spool, relayEpoch>>,
           fetch' = [fetch EXCEPT ![p] = f],
           settled \subseteq settled', settled' \subseteq 1..Len(spool),
           relayFaults' \in 0..MaxRelayFaults,
           relayCursor' \in 0..Len(spool),
           \A n \in 1..relayCursor' : DueRow(n) => n \in settled',
           FetchTyped(f),
           \A n \in 1..f.since : DueRow(n) => n \in settled',
           \A n \in 1..Len(spool) : DueRow(n) /\ Passed(f, n) => n \in settled' \cup ToSet(f.found)
    PROVE  RelayInv'
<1>1. \A n : DueRow(n)' <=> DueRow(n)
  BY DEF DueRow, DueTag
<1>2. fetch = [q \in Pollers |-> fetch[q]]
  BY DEF RelayInv, RelayTyped
<1>3. \A q \in Pollers : fetch'[q] = IF q = p THEN f ELSE fetch[q]
  BY <1>2
<1>4. \A q \in Pollers : FetchTyped(fetch'[q])
  BY <1>3 DEF RelayInv, RelayTyped
<1>5. \A q \in Pollers : FetchTyped(fetch[q])'
  BY <1>4 DEF FetchTyped
<1>6. RelayTyped'
  BY <1>2, <1>5 DEF RelayInv, RelayTyped
<1>7. TagsAreOfTheirTime' /\ SettledUpTo(relayCursor)'
  BY <1>1 DEF RelayInv, TagsAreOfTheirTime, SettledUpTo
<1>8. ASSUME NEW q \in Pollers PROVE PollAccounts(fetch[q])'
  <2>1. CASE q = p
    <3>1. fetch'[q] = f
      BY <2>1, <1>3
    <3>2. SettledUpTo(fetch[q].since)'
      BY <3>1, <1>1 DEF SettledUpTo
    <3>3. \A n : Passed(fetch[q], n)' <=> Passed(f, n)
      BY <3>1 DEF Passed
    <3>. QED  BY <3>1, <3>2, <3>3, <1>1 DEF PollAccounts
  <2>2. CASE q # p
    <3>1. fetch'[q] = fetch[q] /\ PollAccounts(fetch[q])
      BY <2>2, <1>3 DEF RelayInv
    <3>2. \A n : Passed(fetch[q], n)' <=> Passed(fetch[q], n)
      BY <3>1 DEF Passed
    <3>. QED  BY <3>1, <3>2, <1>1 DEF PollAccounts, SettledUpTo
  <2>. QED  BY <2>1, <2>2
<1>. QED  BY <1>6, <1>7, <1>8 DEF RelayInv

Asking(tags, since) ==
    [at |-> "ask", asking |-> tags, since |-> since, found |-> <<>>, cursor |-> 0]

LEMMA AskingIs ==
    ASSUME NEW tags, NEW since
    PROVE  [NoFetch EXCEPT !.at = "ask", !.asking = tags, !.since = since] = Asking(tags, since)
<1>. DEFINE none == <<>>
            none1 == [at |-> "ask", asking |-> none, since |-> 0, found |-> none, cursor |-> 0]
            none2 == [at |-> "ask", asking |-> tags, since |-> 0, found |-> none, cursor |-> 0]
            none3 == [at |-> "ask", asking |-> tags, since |-> since, found |-> none, cursor |-> 0]
<1>1. NoFetch = [at |-> "idle", asking |-> none, since |-> 0, found |-> none, cursor |-> 0]
  BY DEF NoFetch
<1>2. Asking(tags, since) = none3
  BY DEF Asking
<1>. HIDE DEF none
<1>3. [NoFetch EXCEPT !.at = "ask"] = none1
  BY <1>1
<1>4. [none1 EXCEPT !.asking = tags] = none2
  OBVIOUS
<1>5. [none2 EXCEPT !.since = since] = none3
  OBVIOUS
<1>6. [NoFetch EXCEPT !.at = "ask", !.asking = tags, !.since = since]
        = [[[NoFetch EXCEPT !.at = "ask"] EXCEPT !.asking = tags] EXCEPT !.since = since]
  OBVIOUS
<1>. HIDE DEF none1, none2, none3
<1>. QED  BY <1>2, <1>3, <1>4, <1>5, <1>6

LEMMA ThePollStarts == ASSUME RelayInv, NEW p \in Pollers, StartPoll(p) PROVE RelayInv'
<1>. DEFINE f == Asking(WindowOf(relayEpoch), relayCursor)
<1>1. RelayTyped /\ relayEpoch \in Nat /\ Len(spool) \in Nat /\ relayCursor \in 0..Len(spool)
  BY DEF RelayInv, RelayTyped
<1>2. UNCHANGED <<spool, relayEpoch, relayCursor, settled, relayFaults>> /\ fetch' = [fetch EXCEPT ![p] = f]
  <2>1. [NoFetch EXCEPT !.at = "ask", !.asking = WindowOf(relayEpoch), !.since = relayCursor] = f
    BY AskingIs
  <2>. HIDE DEF f
  <2>. QED  BY <2>1 DEF StartPoll
<1>3. /\ f.at = "ask" /\ f.asking = <<relayEpoch, relayEpoch + 1>> /\ f.since = relayCursor
      /\ f.found = <<>> /\ f.cursor = 0
  BY DEF Asking, WindowOf
<1>4. FetchTyped(f)
  <2>1. <<relayEpoch, relayEpoch + 1>> \in Seq(Nat)
    BY <1>1
  <2>2. Len(<<relayEpoch, relayEpoch + 1>>) = 2 /\ Len(<<>>) = 0
    OBVIOUS
  <2>3. <<relayEpoch, relayEpoch + 1>> # <<>>
    BY <2>2
  <2>4. f \in [at : {"idle", "ask", "ingest"}, asking : Seq(Nat), since : 0..Len(spool),
                found : Seq(1..Len(spool)), cursor : 0..Len(spool)]
    BY <1>1, <2>1 DEF Asking, WindowOf
  <2>. HIDE DEF f
  <2>. QED  BY <1>3, <2>2, <2>3, <2>4, RelayAssumption DEF FetchTyped
<1>5. \A n \in 1..Len(spool) : DueRow(n) => ~Passed(f, n)
  <2>1. ToSet(f.asking) = {relayEpoch, relayEpoch + 1}
    BY <1>3 DEF ToSet
  <2>. QED  BY <2>1, <1>3 DEF DueRow, DueTag, Passed
<1>6. \A n \in 1..relayCursor : DueRow(n) => n \in settled
  BY DEF RelayInv, SettledUpTo
<1>. HIDE DEF f
<1>. QED  BY <1>1, <1>2, <1>3, <1>4, <1>5, <1>6, APollMoves DEF RelayTyped

LEMMA AnAnswerIsMerged == ASSUME RelayInv, NEW p \in Pollers, AskTag(p) PROVE RelayInv'
<1>. DEFINE f == fetch[p]
            page == Page(Head(f.asking), f.since)
            found == Merge(f.found, page)
            cursor == MergedCursor(f.cursor, page)
            next == [f EXCEPT !.asking = Tail(f.asking), !.found = found, !.cursor = cursor,
                              !.at = IF Tail(f.asking) = <<>> THEN "ingest" ELSE "ask"]
<1>1. RelayTyped /\ FetchTyped(f) /\ PollAccounts(f) /\ Len(spool) \in Nat
  BY DEF RelayInv, RelayTyped
<1>2. /\ UNCHANGED <<spool, relayEpoch, relayCursor, relayFaults>>
      /\ fetch' = [fetch EXCEPT ![p] = next]
      /\ settled' = settled \cup IF Len(found) = MaxPerPoll THEN CutOff(page, found) ELSE {}
      /\ f.at = "ask" /\ f.asking # <<>>
  BY DEF AskTag
<1>3. page \in SUBSET (1..Len(spool))
  BY PageIsOfTheSpool
<1>4. Known(f.found, page, found, Len(spool))
  BY <1>1, <1>3, MergeKnows DEF FetchTyped
<1>5. cursor \in {f.cursor} \cup page /\ cursor \in 0..Len(spool)
  <2>1. {f.cursor} \cup page \in SUBSET (0..Len(spool)) /\ {f.cursor} \cup page # {}
    BY <1>1, <1>3 DEF FetchTyped
  <2>2. Max({f.cursor} \cup page) \in {f.cursor} \cup page
    BY <1>1, <2>1, GreatestOfRange
  <2>. QED  BY <2>1, <2>2 DEF MergedCursor
<1>6. f.asking \in Seq(Nat) /\ Tail(f.asking) \in Seq(Nat)
      /\ ToSet(f.asking) = {Head(f.asking)} \cup ToSet(Tail(f.asking))
  BY <1>1, <1>2, ToSetHeadTail DEF FetchTyped
<1>. HIDE DEF page, found, cursor
<1>7. FetchTyped(next)
  <2>1. next \in [at : {"idle", "ask", "ingest"}, asking : Seq(Nat), since : 0..Len(spool),
                   found : Seq(1..Len(spool)), cursor : 0..Len(spool)]
    BY <1>1, <1>4, <1>5, <1>6 DEF FetchTyped, Known
  <2>2. next.found = found /\ Len(found) <= MaxPerPoll /\ (next.at = "ask" => next.asking # <<>>)
    BY <1>1, <1>4 DEF FetchTyped, Known
  <2>. QED  BY <2>1, <2>2 DEF FetchTyped
<1>8. settled \subseteq settled' /\ settled' \subseteq 1..Len(spool)
  BY <1>1, <1>2, <1>3 DEF RelayTyped, CutOff
<1>9. ASSUME NEW m \in page, spool[m].sane PROVE m \in settled' \cup ToSet(found)
  <2>1. m <= Len(spool)
    BY <1>1, <1>3
  <2>2. m \in ToSet(found) \/ Len(found) = MaxPerPoll
    BY <2>1, <1>4, <1>9 DEF Known
  <2>. QED  BY <2>2, <1>2, <1>9 DEF CutOff
<1>10. ToSet(f.found) \subseteq ToSet(found)
  BY <1>4 DEF Known
<1>11. /\ next.at = (IF Tail(f.asking) = <<>> THEN "ingest" ELSE "ask") /\ next.asking = Tail(f.asking)
       /\ next.found = found /\ next.cursor = cursor /\ next.since = f.since
  BY <1>1 DEF FetchTyped
<1>12. ASSUME NEW n \in 1..Len(spool), DueRow(n), spool[n].tag \in {AnyTag, Head(f.asking)}
       PROVE  n \in settled' \cup ToSet(found)
  <2>1. f.since \in Nat
    BY <1>1 DEF FetchTyped
  <2>2. CASE n <= f.since
    <3>1. n \in settled
      BY <1>1, <1>12, <2>1, <2>2 DEF PollAccounts, SettledUpTo
    <3>. QED  BY <3>1, <1>8
  <2>3. CASE n > f.since
    <3>1. n \in page /\ spool[n].sane
      BY <1>12, <2>3 DEF page, Page, DueRow
    <3>. QED  BY <3>1, <1>9
  <2>. QED  BY <2>1, <2>2, <2>3
<1>13. ASSUME NEW n \in 1..Len(spool), DueRow(n), Passed(next, n)
       PROVE  n \in settled' \cup ToSet(next.found)
  <2>1. CASE spool[n].tag \in {AnyTag, Head(f.asking)}
    BY <2>1, <1>11, <1>12, <1>13
  <2>2. CASE spool[n].tag \notin {AnyTag, Head(f.asking)}
    <3>1. spool[n].tag \notin ToSet(Tail(f.asking))
      <4>1. CASE Tail(f.asking) = <<>>
        BY <4>1 DEF ToSet
      <4>2. CASE Tail(f.asking) # <<>>
        BY <4>2, <2>2, <1>11, <1>13 DEF Passed
      <4>. QED  BY <4>1, <4>2
    <3>2. Passed(f, n)
      BY <3>1, <2>2, <1>2, <1>6 DEF Passed
    <3>3. n \in settled \cup ToSet(f.found)
      BY <3>2, <1>1, <1>13 DEF PollAccounts
    <3>. QED  BY <3>3, <1>8, <1>10, <1>11
  <2>. QED  BY <2>1, <2>2
<1>14. \A n \in 1..next.since : DueRow(n) => n \in settled'
  BY <1>1, <1>8, <1>11 DEF PollAccounts, SettledUpTo
<1>15. \A n \in 1..relayCursor' : DueRow(n) => n \in settled'
  BY <1>2, <1>8 DEF RelayInv, SettledUpTo
<1>. HIDE DEF next
<1>. QED  BY <1>1, <1>2, <1>7, <1>8, <1>13, <1>14, <1>15, APollMoves DEF RelayTyped

LEMMA IdleIsFine ==
    ASSUME RelayInv
    PROVE  /\ FetchTyped(NoFetch) /\ NoFetch.since = 0 /\ \A n : ~Passed(NoFetch, n)
           /\ \A n \in 1..NoFetch.since : DueRow(n) => n \in settled'
<1>1. Len(spool) \in Nat /\ NoFetch.since = 0
  BY DEF RelayInv, RelayTyped, NoFetch
<1>2. FetchTyped(NoFetch)
  BY <1>1, RelayAssumption DEF FetchTyped, NoFetch
<1>. QED  BY <1>1, <1>2 DEF NoFetch, Passed

LEMMA AFailureKeeps == ASSUME RelayInv, NEW p \in Pollers, PollFails(p) PROVE RelayInv'
<1>1. /\ UNCHANGED <<spool, relayEpoch, settled>> /\ relayCursor' = relayCursor
      /\ fetch' = [fetch EXCEPT ![p] = NoFetch] /\ relayFaults' \in 0..MaxRelayFaults
  BY RelayAssumption DEF PollFails, AfterFailure, RelayInv, RelayTyped
<1>2. settled \subseteq 1..Len(spool) /\ relayCursor' \in 0..Len(spool)
      /\ \A n \in 1..relayCursor' : DueRow(n) => n \in settled'
  BY <1>1 DEF RelayInv, RelayTyped, SettledUpTo
<1>. QED  BY <1>1, <1>2, IdleIsFine, APollMoves

LEMMA AnObjectIsIngested == ASSUME RelayInv, NEW p \in Pollers, IngestObject(p) PROVE RelayInv'
<1>. DEFINE f == fetch[p]
            next == [f EXCEPT !.found = Tail(f.found)]
<1>1. RelayTyped /\ FetchTyped(f) /\ PollAccounts(f) /\ fetch = [q \in Pollers |-> fetch[q]]
  BY DEF RelayInv, RelayTyped
<1>2. /\ UNCHANGED <<spool, relayEpoch, relayCursor, relayFaults>>
      /\ fetch' = [fetch EXCEPT ![p] = next]
      /\ settled' = settled \cup {Head(f.found)}
      /\ f.at = "ingest" /\ f.found # <<>>
  BY <1>1 DEF IngestObject
<1>3. /\ f.found \in Seq(1..Len(spool)) /\ Tail(f.found) \in Seq(1..Len(spool))
      /\ Len(Tail(f.found)) <= Len(f.found) /\ Len(f.found) <= MaxPerPoll
      /\ Head(f.found) \in 1..Len(spool) /\ Len(Tail(f.found)) \in Nat
  <2>1. f.found \in Seq(1..Len(spool)) /\ Len(f.found) <= MaxPerPoll
    BY <1>1 DEF FetchTyped
  <2>2. Tail(f.found) \in Seq(1..Len(spool)) /\ Head(f.found) \in 1..Len(spool)
        /\ Len(Tail(f.found)) = Len(f.found) - 1
    BY <1>2, <2>1, HeadTailProperties
  <2>. QED  BY <2>1, <2>2
<1>4. ToSet(f.found) = {Head(f.found)} \cup ToSet(Tail(f.found))
  BY <1>2, <1>3, ToSetHeadTail
<1>5. FetchTyped(next)
  <2>1. next \in [at : {"idle", "ask", "ingest"}, asking : Seq(Nat), since : 0..Len(spool),
                   found : Seq(1..Len(spool)), cursor : 0..Len(spool)]
    BY <1>1, <1>3 DEF FetchTyped
  <2>2. next.at = "ingest" /\ next.found = Tail(f.found)
    BY <1>1, <1>2 DEF FetchTyped
  <2>3. Len(Tail(f.found)) <= MaxPerPoll
    <3>1. Len(f.found) \in Nat
      BY <1>3
    <3>. QED  BY <1>3, <3>1, RelayAssumption
  <2>. HIDE DEF next
  <2>. QED  BY <2>1, <2>2, <2>3 DEF FetchTyped
<1>6. next.at = "ingest" /\ next.cursor = f.cursor /\ next.since = f.since /\ next.found = Tail(f.found)
      /\ next.asking = f.asking
  BY <1>1, <1>2 DEF FetchTyped
<1>7. \A n \in 1..Len(spool) : DueRow(n) /\ Passed(next, n) => n \in settled' \cup ToSet(next.found)
  BY <1>1, <1>2, <1>4, <1>6 DEF PollAccounts, Passed
<1>8. settled \subseteq settled' /\ settled' \subseteq 1..Len(spool)
  BY <1>1, <1>2, <1>3 DEF RelayTyped
<1>9. \A n \in 1..next.since : DueRow(n) => n \in settled'
  BY <1>1, <1>6, <1>8 DEF PollAccounts, SettledUpTo
<1>10. \A n \in 1..relayCursor' : DueRow(n) => n \in settled'
  BY <1>2, <1>8 DEF RelayInv, SettledUpTo
<1>. HIDE DEF next
<1>. QED  BY <1>1, <1>2, <1>5, <1>7, <1>8, <1>9, <1>10, APollMoves DEF RelayTyped

LEMMA TheCursorIsSaved == ASSUME RelayInv, NEW p \in Pollers, SaveCursor(p) PROVE RelayInv'
<1>. DEFINE f == fetch[p]
<1>1. RelayTyped /\ FetchTyped(f) /\ PollAccounts(f)
  BY DEF RelayInv, RelayTyped
<1>2. /\ UNCHANGED <<spool, relayEpoch, settled, relayFaults>>
      /\ fetch' = [fetch EXCEPT ![p] = NoFetch]
      /\ relayCursor' = IF f.cursor = 0 THEN relayCursor ELSE f.cursor
      /\ f.at = "ingest" /\ f.found = <<>>
  BY DEF SaveCursor
<1>3. ToSet(f.found) = {}
  BY <1>2 DEF ToSet
<1>4. \A n \in 1..f.cursor : n \in 1..Len(spool) /\ Passed(f, n)
  BY <1>1, <1>2 DEF FetchTyped, Passed
<1>5. \A n \in 1..f.cursor : DueRow(n) => n \in settled
  BY <1>1, <1>3, <1>4 DEF PollAccounts
<1>6. relayCursor' \in 0..Len(spool) /\ \A n \in 1..relayCursor' : DueRow(n) => n \in settled'
  BY <1>1, <1>2, <1>5 DEF RelayInv, RelayTyped, FetchTyped, SettledUpTo
<1>. QED  BY <1>1, <1>2, <1>6, IdleIsFine, APollMoves DEF RelayTyped

LEMMA RelayStep == RelayInv /\ [RelayNext]_relayVars => RelayInv'
<1>. SUFFICES ASSUME RelayInv, [RelayNext]_relayVars PROVE RelayInv'
  OBVIOUS
<1>1. CASE SpoolRow
  BY <1>1, SpoolRowKeeps
<1>2. CASE RelayEpochTurns
  BY <1>2, EpochTurnKeeps
<1>3. ASSUME NEW p \in Pollers,
             StartPoll(p) \/ AskTag(p) \/ PollFails(p) \/ IngestObject(p) \/ SaveCursor(p)
      PROVE  RelayInv'
  BY <1>3, ThePollStarts, AnAnswerIsMerged, AFailureKeeps, AnObjectIsIngested, TheCursorIsSaved
<1>4. CASE UNCHANGED relayVars
  <2>. USE <1>4 DEF relayVars
  <2>1. RelayTyped'
    BY DEF RelayInv, RelayTyped, FetchTyped
  <2>2. TagsAreOfTheirTime' /\ SettledUpTo(relayCursor)'
    BY DEF RelayInv, TagsAreOfTheirTime, SettledUpTo, DueRow, DueTag
  <2>3. \A p \in Pollers : PollAccounts(fetch[p])'
    BY DEF RelayInv, PollAccounts, SettledUpTo, DueRow, DueTag, Passed
  <2>. QED  BY <2>1, <2>2, <2>3 DEF RelayInv
<1>. QED  BY <1>1, <1>2, <1>3, <1>4 DEF RelayNext

LEMMA RelayInvImplies == RelayInv => NothingPassedOver /\ RelayTypeOK
<1>. SUFFICES ASSUME RelayInv PROVE NothingPassedOver /\ RelayTypeOK
  OBVIOUS
<1>1. RelayTyped /\ SettledUpTo(relayCursor)
  BY DEF RelayInv
<1>2. NothingPassedOver
  <2>1. ToSet(WindowOf(relayEpoch)) = {relayEpoch, relayEpoch + 1}
    BY DEF ToSet, WindowOf
  <2>2. \A n \in 1..relayCursor : n \in 1..Len(spool)
    BY <1>1 DEF RelayTyped
  <2>. QED  BY <1>1, <2>1, <2>2 DEF NothingPassedOver, SettledUpTo, DueRow, DueTag
<1>3. RelayTypeOK
  <2>1. DOMAIN spool = 1..Len(spool) /\ \A n \in 1..Len(spool) : spool[n] \in SpoolRows
    BY <1>1 DEF RelayTyped
  <2>2. \A p \in Pollers : fetch[p].at \in {"idle", "ask", "ingest"} /\ Len(fetch[p].found) <= MaxPerPoll
    BY <1>1 DEF RelayTyped, FetchTyped
  <2>. QED  BY <1>1, <2>1, <2>2 DEF RelayTyped, RelayTypeOK, SpoolRows
<1>. QED  BY <1>2, <1>3

(* No spooled row that may still be asked for is behind the saved cursor   *)
(* before it was handed to the pipeline (transport.ts:127-161,             *)
(* workers.ts:522-526).                                                    *)
THEOREM NoRowIsPassedOver == RelaySpec => []NothingPassedOver
<1>1. RelayInit => RelayInv
  BY RelayStarts
<1>2. RelayInv /\ [RelayNext]_relayVars => RelayInv'
  BY RelayStep
<1>3. RelayInv => NothingPassedOver
  BY RelayInvImplies
<1>. QED  BY <1>1, <1>2, <1>3, PTL DEF RelaySpec

-----------------------------------------------------------------------------
(* The types, with their bounds: of the rate limits ...                    *)

HIDE RelayAssumption
USE RateLimitAssumption

LimitBounds ==
    /\ wall <= MaxClock /\ forward <= MaxForward
    /\ overlaps <= MaxOverlaps /\ consumed <= MaxConsumes
    /\ \A b \in Buckets : buckets[b].tokens <= Rate(b) /\ buckets[b].at <= MaxClock
    /\ \A p \in Consumers : consume[p].now <= MaxClock

LEMMA LimitTypes == LimitTyped /\ LimitBounds => LimitTypeOK
<1>. SUFFICES ASSUME LimitTyped, LimitBounds PROVE LimitTypeOK
  OBVIOUS
<1>1. /\ wall \in 0..MaxClock /\ forward \in 0..MaxForward /\ overlaps \in 0..MaxOverlaps
      /\ consumed \in 0..MaxConsumes /\ turnedAway \subseteq Senders /\ halfCharged \in BOOLEAN
  BY DEF LimitTyped, LimitBounds
<1>2. ASSUME NEW b \in Buckets
      PROVE  buckets[b] \in [kept : BOOLEAN, tokens : 0..Rate(b), at : 0..MaxClock]
  <2>1. buckets[b] \in BucketRecords /\ Rate(b) \in Nat
    BY BucketNames DEF LimitTyped
  <2>2. buckets[b].tokens <= Rate(b) /\ buckets[b].at <= MaxClock
    BY DEF LimitBounds
  <2>. QED  BY <2>1, <2>2 DEF BucketRecords
<1>3. \A p \in Consumers : consume[p] \in CallRecords
  BY DEF LimitTyped
<1>. QED  BY <1>1, <1>2, <1>3 DEF LimitTypeOK, CallRecords

LEMMA LimitBoundsFirst == LimitInit => LimitBounds
<1>1. \A b \in Buckets : Rate(b) \in Nat
  BY BucketNames
<1>. QED  BY <1>1 DEF LimitInit, LimitBounds, NoBucket, NoConsume

LEMMA SetBucketBounds ==
    ASSUME LimitTyped, LimitBounds, NEW b \in Buckets, NEW n \in Nat, n <= Rate(b),
           NEW at \in Nat, at <= MaxClock, SetBucket(b, n, at)
    PROVE  \A c \in Buckets : buckets'[c].tokens <= Rate(c) /\ buckets'[c].at <= MaxClock
<1>1. buckets' = [buckets EXCEPT ![b] = [kept |-> TRUE, tokens |-> n, at |-> at]]
  BY DEF SetBucket
<1>. QED  BY <1>1 DEF LimitTyped, LimitBounds

(* A call keeps the time it began with until it ends.                      *)
LEMMA GotoBounds ==
    ASSUME LimitTyped, LimitBounds, NEW p \in Consumers, NEW c, c.now <= MaxClock, ConsumeGoto(p, c)
    PROVE  \A q \in Consumers : consume'[q].now <= MaxClock
  BY DEF LimitTyped, LimitBounds, ConsumeGoto

LEMMA LimitBoundsStep ==
    ASSUME LimitTyped, CallsAreSound, LimitBounds, LimitNext
    PROVE  LimitBounds'
<1>0. /\ \A p \in Consumers : consume[p] \in CallRecords /\ consume[p].now \in Nat
      /\ NoConsume.now <= MaxClock
  BY DEF LimitTyped, CallRecords, NoConsume
<1>1. CASE ClockTicks
  BY <1>1 DEF ClockTicks, LimitBounds, LimitTyped
<1>2. CASE ClockSetBack
  BY <1>2 DEF ClockSetBack, LimitBounds, LimitTyped
<1>3. ASSUME NEW p \in Consumers, NEW s \in Senders \cup {Unknown}, BeginConsume(p, s)
      PROVE  LimitBounds'
  <2>1. [NoConsume EXCEPT !.at = "global", !.of = s, !.now = wall].now = wall
    BY DEF NoConsume
  <2>2. \A q \in Consumers : consume'[q].now <= MaxClock
    BY <1>3, <2>1, GotoBounds DEF BeginConsume, LimitBounds
  <2>. QED  BY <1>3, <2>2 DEF BeginConsume, LimitBounds, LimitTyped
<1>4. ASSUME NEW p \in Consumers, GetGlobal(p) PROVE LimitBounds'
  <2>1. \A n : AfterGlobal(consume[p], n).now = consume[p].now
    BY <1>0 DEF AfterGlobal, CallRecords
  <2>2. [consume[p] EXCEPT !.at = "newGlobal"].now = consume[p].now
    BY <1>0 DEF CallRecords
  <2>3. PICK c : c.now = consume[p].now /\ ConsumeGoto(p, c)
    BY <1>4, <2>1, <2>2 DEF GetGlobal
  <2>4. \A q \in Consumers : consume'[q].now <= MaxClock
    BY <2>3, GotoBounds DEF LimitBounds
  <2>. QED  BY <1>4, <2>4 DEF GetGlobal, LimitBounds
<1>5. ASSUME NEW p \in Consumers, CreateGlobal(p) PROVE LimitBounds'
  <2>1. AfterGlobal(consume[p], PerGlobal).now = consume[p].now
    BY <1>0 DEF AfterGlobal, CallRecords
  <2>2. \A q \in Consumers : consume'[q].now <= MaxClock
    BY <1>5, <2>1, GotoBounds DEF LimitBounds, CreateGlobal
  <2>3. \A c \in Buckets : buckets'[c].tokens <= Rate(c) /\ buckets'[c].at <= MaxClock
    BY <1>0, <1>5, SetBucketBounds, BucketNames DEF CreateGlobal, LimitBounds
  <2>. QED  BY <1>5, <2>2, <2>3 DEF CreateGlobal, LimitBounds
<1>6. ASSUME NEW p \in Consumers, GetContact(p) PROVE LimitBounds'
  <2>1. /\ \A n : [consume[p] EXCEPT !.at = "charge", !.contact = n].now = consume[p].now
        /\ [consume[p] EXCEPT !.at = "newContact"].now = consume[p].now
    BY <1>0 DEF CallRecords
  <2>2. PICK c : c.now = consume[p].now /\ ConsumeGoto(p, c)
    BY <1>6, <2>1 DEF GetContact
  <2>3. \A q \in Consumers : consume'[q].now <= MaxClock
    BY <2>2, GotoBounds DEF LimitBounds
  <2>. QED  BY <1>6, <2>3 DEF GetContact, LimitBounds
<1>7. ASSUME NEW p \in Consumers, CreateContact(p) PROVE LimitBounds'
  <2>1. [consume[p] EXCEPT !.at = "charge", !.contact = PerContact].now = consume[p].now
    BY <1>0 DEF CallRecords
  <2>2. \A q \in Consumers : consume'[q].now <= MaxClock
    BY <1>7, <2>1, GotoBounds DEF LimitBounds, CreateContact
  <2>3. consume[p].of \in Senders
    BY <1>0, <1>7 DEF CreateContact, CallsAreSound, CallIsSound, CallRecords
  <2>4. \A c \in Buckets : buckets'[c].tokens <= Rate(c) /\ buckets'[c].at <= MaxClock
    BY <1>0, <1>7, <2>3, SetBucketBounds, BucketNames DEF CreateContact, LimitBounds
  <2>. QED  BY <1>7, <2>2, <2>4 DEF CreateContact, LimitBounds
<1>8. ASSUME NEW p \in Consumers, TurnAway(p) PROVE LimitBounds'
  <2>1. \A q \in Consumers : consume'[q].now <= MaxClock
    BY <1>0, <1>8, GotoBounds DEF TurnAway
  <2>. QED  BY <1>8, <2>1 DEF TurnAway, Refuse, LimitBounds
<1>9. ASSUME NEW p \in Consumers, ChargeContact(p) PROVE LimitBounds'
  <2>1. [consume[p] EXCEPT !.at = "chargeGlobal"].now = consume[p].now
    BY <1>0 DEF CallRecords
  <2>2. \A q \in Consumers : consume'[q].now <= MaxClock
    BY <1>9, <2>1, GotoBounds DEF LimitBounds, ChargeContact
  <2>3. \A c \in Buckets : buckets'[c].tokens <= Rate(c) /\ buckets'[c].at <= MaxClock
    <3>1. CASE consume[p].of = Unknown
      BY <1>9, <3>1 DEF ChargeContact, LimitBounds
    <3>2. CASE consume[p].of # Unknown
      <4>1. consume[p].of \in Senders /\ consume[p].contact \in Nat
        BY <1>0, <3>2 DEF CallRecords
      <4>2. consume[p].contact >= 1 /\ consume[p].contact <= PerContact
        BY <1>9, <3>2 DEF ChargeContact, Affordable, CallsAreSound, CallIsSound
      <4>3. consume[p].contact - 1 \in Nat /\ consume[p].contact - 1 <= PerContact
        BY <4>1, <4>2, BucketNames
      <4>4. SetBucket(consume[p].of, consume[p].contact - 1, consume[p].now)
        BY <1>9, <3>2 DEF ChargeContact
      <4>. QED  BY <1>0, <4>1, <4>3, <4>4, SetBucketBounds, BucketNames DEF LimitBounds
    <3>. QED  BY <3>1, <3>2
  <2>. QED  BY <1>9, <2>2, <2>3 DEF ChargeContact, LimitBounds
<1>10. ASSUME NEW p \in Consumers, ChargeGlobal(p) PROVE LimitBounds'
  <2>1. \A q \in Consumers : consume'[q].now <= MaxClock
    BY <1>0, <1>10, GotoBounds DEF ChargeGlobal
  <2>2. consume[p].global - 1 \in Nat /\ consume[p].global - 1 <= PerGlobal
    BY <1>0, <1>10, BucketNames DEF ChargeGlobal, CallsAreSound, CallIsSound, CallRecords
  <2>3. \A c \in Buckets : buckets'[c].tokens <= Rate(c) /\ buckets'[c].at <= MaxClock
    BY <1>0, <1>10, <2>2, SetBucketBounds, BucketNames DEF ChargeGlobal, LimitBounds
  <2>. QED  BY <1>10, <2>1, <2>3 DEF ChargeGlobal, LimitBounds
<1>11. ASSUME NEW p \in Consumers, CutShort(p) PROVE LimitBounds'
  <2>1. \A q \in Consumers : consume'[q].now <= MaxClock
    BY <1>0, <1>11, GotoBounds DEF CutShort
  <2>. QED  BY <1>11, <2>1 DEF CutShort, LimitBounds
<1>. QED  BY <1>1, <1>2, <1>3, <1>4, <1>5, <1>6, <1>7, <1>8, <1>9, <1>10, <1>11 DEF LimitNext

LEMMA LimitBoundsStay == ASSUME LimitBounds, UNCHANGED limitVars PROVE LimitBounds'
  BY DEF limitVars, LimitBounds

HIDE RateLimitAssumption
USE EndpointAssumption

(* ... of the endpoints: a streak is over before it exceeds the threshold, *)
(* if there is another endpoint to go to ...                               *)
StreakIsBounded ==
    /\ EndpointCount > 1 => rotator.streak <= Threshold
    /\ hasty \in BOOLEAN /\ crossed \in BOOLEAN

LEMMA RotatorTypes == RotatorInv /\ StreakIsBounded => EndpointTypeOK
BY DEF RotatorInv, RotatorTyped, StreakIsBounded, EndpointTypeOK, ReportOps

LEMMA StreakStarts == EndpointInit => StreakIsBounded
<1>. SUFFICES ASSUME EndpointInit PROVE StreakIsBounded
  OBVIOUS
<1>1. rotator = NewRotator /\ hasty = FALSE /\ crossed = FALSE
  BY DEF EndpointInit
<1>2. rotator.streak = 0
  BY <1>1 DEF NewRotator
<1>3. rotator.streak <= Threshold
  BY <1>2, EndpointAssumption
<1>4. hasty \in BOOLEAN /\ crossed \in BOOLEAN
  BY <1>1
<1>. QED  BY <1>3, <1>4 DEF StreakIsBounded

LEMMA ReportBounds ==
    ASSUME NEW op, NEW state \in [index : Indices, streak : Nat, loaded : BOOLEAN],
           EndpointCount > 1 => state.streak <= Threshold, hasty \in BOOLEAN, AfterLoad(op, state)
    PROVE  (EndpointCount > 1 => rotator'.streak <= Threshold) /\ hasty' \in BOOLEAN
<1>1. CASE op = "success"
  BY <1>1 DEF AfterLoad, AfterSuccess
<1>2. CASE op # "success" /\ Rotates(state)
  <2>1. rotator' = [state EXCEPT !.index = (@ + 1) % EndpointCount, !.streak = 0]
    BY <1>2 DEF AfterLoad, AfterFailed
  <2>2. rotator'.streak = 0
    BY <2>1
  <2>3. hasty' = (hasty \/ (Rotates(state) /\ bad + 1 < Threshold))
    BY <1>2 DEF AfterLoad
  <2>. QED  BY <2>2, <2>3
<1>3. CASE op # "success" /\ ~Rotates(state)
  <2>1. rotator' = [state EXCEPT !.streak = @ + 1] /\ hasty' \in BOOLEAN
    BY <1>3 DEF AfterLoad, AfterFailed
  <2>2. rotator'.streak = state.streak + 1
    BY <2>1
  <2>. QED  BY <1>3, <2>1, <2>2 DEF Rotates
<1>. QED  BY <1>1, <1>2, <1>3

LEMMA StreakStays ==
    RotatorInv /\ StreakIsBounded /\ [EndpointNext]_endpointVars => StreakIsBounded'
<1>. SUFFICES ASSUME RotatorInv, StreakIsBounded, [EndpointNext]_endpointVars PROVE StreakIsBounded'
  OBVIOUS
<1>0. rotator \in [index : Indices, streak : Nat, loaded : BOOLEAN]
  BY DEF RotatorInv, RotatorTyped
<1>1. CASE UNCHANGED endpointVars
  BY <1>1 DEF endpointVars, StreakIsBounded
<1>2. ASSUME NEW r \in Reporters, NEW op \in {"current", "success", "failure"}, Begins(r, op)
      PROVE  StreakIsBounded'
  <2>1. CASE rotator.loaded
    <3>1. AfterLoad(op, rotator) /\ crossed' = crossed
      BY <1>2, <2>1 DEF Begins
    <3>. QED  BY <1>0, <3>1, ReportBounds DEF StreakIsBounded
  <2>2. CASE ~rotator.loaded
    BY <1>2, <2>2 DEF Begins, StreakIsBounded
  <2>. QED  BY <2>1, <2>2
<1>3. ASSUME NEW r \in Reporters, Loaded(r) PROVE StreakIsBounded'
  <2>. DEFINE found == IF report[r].raw \in Indices THEN report[r].raw ELSE rotator.index
              state == [rotator EXCEPT !.loaded = TRUE, !.index = found]
  <2>1. state \in [index : Indices, streak : Nat, loaded : BOOLEAN] /\ state.streak = rotator.streak
    BY <1>0
  <2>2. \/ rotator' = state /\ hasty' = hasty
        \/ AfterLoad(report[r].op, state)
    BY <1>0, <1>3 DEF Loaded
  <2>3. crossed' \in BOOLEAN
    BY <1>3 DEF Loaded
  <2>. HIDE DEF state
  <2>. QED  BY <2>1, <2>2, <2>3, ReportBounds DEF StreakIsBounded
<1>4. CASE Persisted
  BY <1>4 DEF Persisted, StreakIsBounded
<1>5. CASE Restart
  BY <1>5 DEF Restart, NewRotator, StreakIsBounded
<1>. QED  BY <1>1, <1>2, <1>3, <1>4, <1>5 DEF EndpointNext

HIDE EndpointAssumption
USE VaultFileAssumption

(* ... and of the vault file: every key is that of a vault created so far, *)
(* and whatever was sealed was sealed under the default costs.             *)
KeyIsBounded(header) == header.biometric[1] <= MaxVeks /\ header.slot[2] = "default"

FileIsBounded(file) ==
    file # NoDoc =>
        /\ file.vek <= MaxVeks /\ KeyIsBounded(file.header) /\ KeyIsBounded(file.aad)
        /\ file.aad.cost = "default"

VaultBounds ==
    /\ veks <= MaxVeks /\ dbBlob <= MaxVeks /\ memory.vek <= MaxVeks
    /\ call.at \in {"check", "file"} => veks < MaxVeks
    /\ FileIsBounded(doc) /\ FileIsBounded(call.read)
    /\ \A e \in VaultEdits : FileIsBounded(edit[e].read) /\ edit[e].vek <= MaxVeks
    /\ outrun \in BOOLEAN /\ halfWiped \in BOOLEAN
    /\ edits \in Nat /\ vaultFaults \in Nat

LEMMA VaultTypes == VaultInv /\ VaultBounds => VaultFileTypeOK
<1>. SUFFICES ASSUME VaultInv, VaultBounds PROVE VaultFileTypeOK
  OBVIOUS
<1>1. doc = NoDoc \/ doc \in Docs
  <2>. SUFFICES ASSUME doc # NoDoc PROVE doc \in Docs
    OBVIOUS
  <2>1. doc \in Files /\ FileIsBounded(doc)
    BY DEF VaultInv, StoredIsAFile, IsFile, VaultBounds
  <2>2. doc.header \in Headers /\ doc.aad \in Headers /\ doc.vek \in 1..MaxVeks
    BY <2>1 DEF Files, FileIsBounded
  <2>3. ASSUME NEW header \in Headers, KeyIsBounded(header)
        PROVE  header.slot \in Passwords \X {"default"} \X Nat /\ header.biometric \in (0..MaxVeks) \X Nat
    BY <2>3 DEF Headers, KeyIsBounded
  <2>4. doc.header \in [cost : {"default", "other", "excessive"}, salt : Nat,
                        slot : {0, 1, 2} \X {"default"} \X Nat, biometric : (0..MaxVeks) \X Nat]
    BY <2>1, <2>2, <2>3 DEF FileIsBounded, Headers, Costs, Passwords
  <2>5. doc.aad \in [cost : {"default"}, salt : Nat, slot : Passwords \X {"default"} \X Nat,
                     biometric : (0..MaxVeks) \X Nat]
    BY <2>1, <2>2, <2>3 DEF FileIsBounded, Headers
  <2>. QED  BY <2>1, <2>2, <2>4, <2>5 DEF Files, Docs
<1>2. {dbBlob, memory.vek, veks} \subseteq 0..MaxVeks
  BY DEF VaultInv, VaultTyped, VaultBounds
<1>. QED  BY <1>1, <1>2 DEF VaultInv, VaultTyped, VaultBounds, VaultFileTypeOK

LEMMA IdleBounds ==
    /\ FileIsBounded(NoDoc)
    /\ IdleCall.at = "idle" /\ FileIsBounded(IdleCall.read)
    /\ FileIsBounded(IdleEdit.read) /\ IdleEdit.vek = 0
BY DEF FileIsBounded, IdleCall, IdleEdit

LEMMA VaultBoundsFirst == VaultFileInit => VaultBounds
<1>. SUFFICES ASSUME VaultFileInit PROVE VaultBounds
  OBVIOUS
<1>1. memory.vek = 0 /\ dbBlob = 0 /\ veks = 0 /\ edits = 0 /\ vaultFaults = 0
  BY DEF VaultFileInit, Locked
<1>2. doc = NoDoc /\ call = IdleCall /\ \A e \in VaultEdits : edit[e] = IdleEdit
  BY DEF VaultFileInit
<1>3. outrun \in BOOLEAN /\ halfWiped \in BOOLEAN
  BY DEF VaultFileInit
<1>4. /\ FileIsBounded(doc) /\ FileIsBounded(call.read) /\ call.at = "idle"
      /\ \A e \in VaultEdits : FileIsBounded(edit[e].read) /\ edit[e].vek <= MaxVeks
  BY <1>2, IdleBounds
<1>. QED  BY <1>1, <1>3, <1>4 DEF VaultBounds

LEMMA NewIsBounded ==
    ASSUME NEW vek, vek <= MaxVeks, NEW password, NEW salt, NEW file,
           file = NewDoc(vek, password, "default", salt)
    PROVE  FileIsBounded(file)
BY DEF NewDoc, Header, Slot, NoBlob, FileIsBounded, KeyIsBounded

LEMMA SealedIsBounded ==
    ASSUME NEW old \in Files, FileIsBounded(old), NEW header \in Headers, KeyIsBounded(header),
           header.cost = "default"
    PROVE  FileIsBounded(Sealed(old, header))
<1>1. old # NoDoc
  BY FilesAreThere
<1>. QED  BY <1>1, SealedIs DEF FileIsBounded

LEMMA DamagedIsBounded ==
    ASSUME NEW file \in Files, FileIsBounded(file), file # NoDoc,
           NEW damaged \in {[f EXCEPT !.hurt = TRUE] : f \in Damages(file)}
    PROVE  FileIsBounded(damaged)
<1>1. PICK f \in Damages(file) : damaged = [f EXCEPT !.hurt = TRUE]
  OBVIOUS
<1>0. file.header \in Headers /\ KeyIsBounded(file.header) /\ KeyIsBounded(file.aad) /\ file.vek <= MaxVeks
      /\ file.aad.cost = "default"
  BY DEF Files, FileIsBounded
<1>2. CASE f = [file EXCEPT !.shape = FALSE] \/ f = [file EXCEPT !.ct = FALSE]
  BY <1>0, <1>1, <1>2 DEF Files, FileIsBounded
<1>3. ASSUME NEW header, f = [file EXCEPT !.header = header], KeyIsBounded(header)
      PROVE  FileIsBounded(damaged)
  <2>1. damaged.header = header /\ damaged.aad = file.aad /\ damaged.vek = file.vek
    BY <1>1, <1>3 DEF Files
  <2>. QED  BY <1>0, <1>3, <2>1 DEF FileIsBounded
<1>4. CASE f = [file EXCEPT !.header.cost = "excessive"]
  <2>. DEFINE header == [file.header EXCEPT !.cost = "excessive"]
  <2>1. KeyIsBounded(header)
    BY <1>0 DEF KeyIsBounded, Headers
  <2>2. f = [file EXCEPT !.header = header]
    BY <1>4 DEF Files
  <2>. QED  BY <1>3, <2>1, <2>2
<1>5. CASE f = [file EXCEPT !.header.salt = 0]
  <2>. DEFINE header == [file.header EXCEPT !.salt = 0]
  <2>1. KeyIsBounded(header)
    BY <1>0 DEF KeyIsBounded, Headers
  <2>2. f = [file EXCEPT !.header = header]
    BY <1>5 DEF Files
  <2>. QED  BY <1>3, <2>1, <2>2
<1>6. CASE f = [file EXCEPT !.header.biometric = <<0, 1>>]
  <2>. DEFINE header == [file.header EXCEPT !.biometric = <<0, 1>>]
  <2>1. KeyIsBounded(header)
    BY <1>0 DEF KeyIsBounded, Headers
  <2>2. f = [file EXCEPT !.header = header]
    BY <1>6 DEF Files
  <2>. QED  BY <1>3, <2>1, <2>2
<1>. QED  BY <1>2, <1>4, <1>5, <1>6 DEF Damages

LEMMA CallBounds == ASSUME VaultInv, VaultBounds, CallStep PROVE VaultBounds'
<1>. USE DEF CallAt, CallGoto, CallDone, VaultBounds
<1>0. UNCHANGED <<edit, edits, vaultFaults, outrun, halfWiped>>
  BY DEF CallStep, CheckNew, StoreFile, StoreKey, ReadToOpen, TryOpen, WipeFile, WipeKey, CallOnly
<1>a. /\ call \in CallRecs /\ dbBlob \in Nat /\ veks \in Nat
      /\ memory \in [state : {"uninitialized", "locked", "unlocked"}, vek : Nat]
  BY DEF VaultInv, VaultTyped
<1>b. \A e \in VaultEdits : FileIsBounded(edit[e].read) /\ edit[e].vek <= MaxVeks
  OBVIOUS
<1>c. (\A e \in VaultEdits : FileIsBounded(edit[e].read) /\ edit[e].vek <= MaxVeks)'
  BY <1>0 DEF FileIsBounded, KeyIsBounded
<1>1. CASE CheckNew
  <2>1. /\ UNCHANGED <<doc, dbBlob, memory, veks>> /\ call.at = "check"
        /\ call' = [call EXCEPT !.at = "file"] \/ call' = IdleCall
    BY <1>1 DEF CheckNew
  <2>2. call'.read = call.read \/ call' = IdleCall
    BY <1>a, <2>1 DEF CallRecs
  <2>3. FileIsBounded(call'.read)
    BY <2>2, IdleBounds
  <2>. QED  BY <1>0, <1>c, <2>1, <2>3
<1>2. CASE StoreFile
  <2>1. /\ call.at = "file" /\ veks' = veks + 1
        /\ doc' = NewDoc(veks', call.password, "default", fresh')
        /\ call' = [call EXCEPT !.at = "key", !.read = doc']
        /\ UNCHANGED <<dbBlob, memory>>
    BY <1>2 DEF StoreFile
  <2>2. veks' <= MaxVeks
    BY <1>a, <2>1
  <2>3. FileIsBounded(doc')
    BY <2>1, <2>2, NewIsBounded
  <2>4. call'.at = "key" /\ call'.read = doc'
    BY <1>a, <2>1 DEF CallRecs
  <2>. QED  BY <1>0, <1>c, <2>1, <2>2, <2>3, <2>4
<1>3. CASE StoreKey
  <2>1. /\ call.at = "key" /\ dbBlob' = call.read.vek /\ memory' = Unlocked(call.read.vek)
        /\ call' = IdleCall /\ UNCHANGED <<doc, veks>>
    BY <1>3 DEF StoreKey
  <2>2. call.read # NoDoc
    BY <2>1, FilesAreThere DEF VaultInv, CallKnows, IsFile
  <2>3. call.read.vek <= MaxVeks
    BY <2>2 DEF FileIsBounded
  <2>. QED  BY <1>0, <1>c, <2>1, <2>3, IdleBounds DEF Unlocked
<1>4. CASE ReadToOpen
  <2>1. /\ UNCHANGED <<doc, dbBlob, memory, veks>>
        /\ call' = [call EXCEPT !.at = "open", !.read = doc] \/ call' = IdleCall
    BY <1>4 DEF ReadToOpen
  <2>2. (call'.at = "open" /\ call'.read = doc) \/ call' = IdleCall
    BY <1>a, <2>1 DEF CallRecs
  <2>. QED  BY <1>0, <1>c, <2>1, <2>2, IdleBounds
<1>5. CASE TryOpen
  <2>1. /\ call.at = "open" /\ call' = IdleCall /\ UNCHANGED <<doc, dbBlob, veks>>
        /\ \/ \E key : PayloadOpens(call.read, key) /\ memory' = Unlocked(key)
           \/ UNCHANGED memory
    BY <1>5 DEF TryOpen
  <2>2. call.read # NoDoc
    BY <2>1, FilesAreThere DEF VaultInv, CallKnows, IsFile
  <2>3. call.read.vek <= MaxVeks
    BY <2>2 DEF FileIsBounded
  <2>4. memory'.vek <= MaxVeks
    BY <2>1, <2>3 DEF PayloadOpens, Unlocked
  <2>. QED  BY <1>0, <1>c, <2>1, <2>4, IdleBounds
<1>6. CASE WipeFile
  <2>1. /\ doc' = NoDoc /\ call' = [call EXCEPT !.at = "delkey"] /\ UNCHANGED <<dbBlob, memory, veks>>
    BY <1>6 DEF WipeFile
  <2>2. call'.at = "delkey" /\ call'.read = call.read
    BY <1>a, <2>1 DEF CallRecs
  <2>. QED  BY <1>0, <1>c, <2>1, <2>2, IdleBounds
<1>7. CASE WipeKey
  <2>1. /\ dbBlob' = 0 /\ call' = IdleCall /\ UNCHANGED <<doc, veks>>
        /\ memory' = memory \/ memory' = [memory EXCEPT !.state = "uninitialized"]
    BY <1>7 DEF WipeKey
  <2>2. memory'.vek = memory.vek
    BY <1>a, <2>1
  <2>. QED  BY <1>0, <1>c, <2>1, <2>2, IdleBounds
<1>. QED  BY <1>1, <1>2, <1>3, <1>4, <1>5, <1>6, <1>7 DEF CallStep

(* An edit reads a file that opens, so its costs are the default ones.     *)
LEMMA OpenedIsDefault ==
    ASSUME NEW file, IsFile(file), NEW key, PayloadOpens(file, key), FileIsBounded(file)
    PROVE  file \in Files /\ file.header \in Headers /\ file.header.cost = "default" /\ KeyIsBounded(file.header)
<1>1. file \in Files /\ file # NoDoc
  BY FilesAreThere DEF IsFile
<1>. QED  BY <1>1 DEF PayloadOpens, FileIsBounded, Files

LEMMA PutBounds ==
    ASSUME VaultInv, VaultBounds, NEW e \in VaultEdits, NEW r, Put(e, r), FileIsBounded(r.read),
           r.vek <= MaxVeks, EditOnly, FileIsBounded(doc'), outrun' \in BOOLEAN, edits' \in Nat
    PROVE  VaultBounds'
<1>1. \A d \in VaultEdits : edit'[d] = r \/ edit'[d] = edit[d]
  BY DEF Put, VaultInv, VaultTyped
<1>2. \A d \in VaultEdits : FileIsBounded(edit'[d].read) /\ edit'[d].vek <= MaxVeks
  BY <1>1 DEF VaultBounds
<1>3. UNCHANGED <<dbBlob, memory, call, veks, vaultFaults, halfWiped>>
  BY DEF EditOnly
<1>. QED  BY <1>2, <1>3 DEF VaultBounds

LEMMA EditBounds == ASSUME VaultInv, VaultBounds, NEW e \in VaultEdits, EditStep(e) PROVE VaultBounds'
<1>0. /\ edit[e] \in EditRecs /\ edit[e].vek \in Nat /\ edit[e].vek <= MaxVeks
      /\ FileIsBounded(edit[e].read) /\ FileIsBounded(doc) /\ fresh \in Nat
      /\ EditKnows(edit[e].at, edit[e].op, edit[e].read, edit[e].vek)
      /\ outrun \in BOOLEAN /\ memory.vek \in Nat
  BY DEF VaultInv, VaultTyped, VaultBounds, EditRecs, EditsKnow
<1>1. EditOnly /\ edits' \in Nat
  BY DEF EditStep, ReadToEdit, ChangePassword, EnableBiometrics, DisableBiometrics, VaultBounds
<1>2. ASSUME Drop(e) PROVE VaultBounds'
  BY <1>0, <1>1, <1>2, IdleBounds, PutBounds DEF Drop
<1>3. ASSUME NEW file, NEW told, Store(e, file, told), FileIsBounded(file) PROVE VaultBounds'
  BY <1>0, <1>1, <1>3, IdleBounds, PutBounds DEF Store
<1>4. CASE ReadToEdit(e)
  <2>. DEFINE r == [edit[e] EXCEPT !.at = IF edit[e].op = "disable" THEN "write" ELSE "wait",
                                   !.read = doc,
                                   !.vek = IF edit[e].op = "enable" THEN memory.vek ELSE 0]
  <2>1. (Put(e, r) \/ Put(e, IdleEdit)) /\ UNCHANGED <<doc, outrun>>
    BY <1>4 DEF ReadToEdit
  <2>2. r.read = doc /\ (r.vek = memory.vek \/ r.vek = 0)
    BY <1>0 DEF EditRecs
  <2>. HIDE DEF r
  <2>3. r.vek <= MaxVeks
    BY <2>2 DEF VaultBounds
  <2>. QED  BY <1>0, <1>1, <2>1, <2>2, <2>3, IdleBounds, PutBounds
<1>5. CASE ChangePassword(e)
  <2>. DEFINE old == edit[e].read
              new == Other(edit[e].password)
              header == Header(new, old.header.cost, fresh', old.header.biometric)
  <2>1. CASE Drop(e)
    BY <1>2, <2>1
  <2>2. CASE /\ PayloadOpens(old, old.vek) /\ fresh' = fresh + 1
             /\ Store(e, Rekeyed(old, fresh', new), [asked EXCEPT !.password = new])
    <3>1. IsFile(old)
      BY <1>0, <1>5 DEF ChangePassword, EditKnows
    <3>2. old \in Files /\ old.header \in Headers /\ old.header.cost = "default" /\ KeyIsBounded(old.header)
      BY <1>0, <2>2, <3>1, OpenedIsDefault
    <3>3. new \in Passwords /\ fresh' \in Nat
      BY <1>0, <2>2 DEF Other, Passwords, EditRecs
    <3>4. header \in Headers /\ KeyIsBounded(header) /\ header.cost = "default"
      BY <3>2, <3>3 DEF Header, Slot, Headers, Costs, KeyIsBounded
    <3>5. FileIsBounded(Rekeyed(old, fresh', new))
      BY <1>0, <3>2, <3>4, SealedIsBounded DEF Rekeyed
    <3>. QED  BY <1>3, <2>2, <3>5
  <2>. QED  BY <1>5, <2>1, <2>2 DEF ChangePassword
<1>6. CASE EnableBiometrics(e)
  <2>. DEFINE old == edit[e].read
              header == [old.header EXCEPT !.biometric = <<edit[e].vek, fresh'>>]
  <2>1. CASE Drop(e)
    BY <1>2, <2>1
  <2>2. CASE /\ MayRewrite(old) /\ fresh' = fresh + 1
             /\ Store(e, Sealed(old, header), [asked EXCEPT !.biometric = TRUE])
    <3>1. IsFile(old) /\ PayloadOpens(old, memory.vek)
      BY <1>0, <1>6, <2>2 DEF EnableBiometrics, EditKnows, MayRewrite
    <3>2. old \in Files /\ old.header \in Headers /\ old.header.cost = "default" /\ KeyIsBounded(old.header)
      BY <1>0, <3>1, OpenedIsDefault
    <3>3. header \in Headers /\ KeyIsBounded(header) /\ header.cost = "default"
      BY <1>0, <2>2, <3>2 DEF Headers, KeyIsBounded
    <3>4. FileIsBounded(Sealed(old, header))
      BY <1>0, <3>2, <3>3, SealedIsBounded
    <3>. QED  BY <1>3, <2>2, <3>4
  <2>. QED  BY <1>6, <2>1, <2>2 DEF EnableBiometrics
<1>7. CASE DisableBiometrics(e)
  <2>. DEFINE old == edit[e].read
              header == [old.header EXCEPT !.biometric = NoBlob]
  <2>1. CASE Drop(e)
    BY <1>2, <2>1
  <2>2. CASE /\ MayRewrite(old)
             /\ Store(e, Sealed(old, header), [asked EXCEPT !.biometric = FALSE])
    <3>1. IsFile(old) /\ PayloadOpens(old, memory.vek)
      BY <1>0, <1>7, <2>2 DEF DisableBiometrics, EditKnows, MayRewrite
    <3>2. old \in Files /\ old.header \in Headers /\ old.header.cost = "default" /\ KeyIsBounded(old.header)
      BY <1>0, <3>1, OpenedIsDefault
    <3>3. header \in Headers /\ KeyIsBounded(header) /\ header.cost = "default"
      BY <3>2 DEF Headers, KeyIsBounded, NoBlob
    <3>4. FileIsBounded(Sealed(old, header))
      BY <1>0, <3>2, <3>3, SealedIsBounded
    <3>. QED  BY <1>3, <2>2, <3>4
  <2>. QED  BY <1>7, <2>1, <2>2 DEF DisableBiometrics
<1>. QED  BY <1>4, <1>5, <1>6, <1>7 DEF EditStep

LEMMA VaultBoundsStep == VaultInv /\ VaultBounds /\ [VaultFileNext]_vaultFileVars => VaultBounds'
<1>. SUFFICES ASSUME VaultInv, VaultBounds, [VaultFileNext]_vaultFileVars PROVE VaultBounds'
  OBVIOUS
<1>0. /\ memory \in [state : {"uninitialized", "locked", "unlocked"}, vek : Nat]
      /\ call \in CallRecs
  BY DEF VaultInv, VaultTyped
<1>1. CASE UNCHANGED vaultFileVars
  BY <1>1 DEF vaultFileVars, VaultBounds, FileIsBounded, KeyIsBounded
<1>2. ASSUME NEW op \in {"create", "unlock", "biometric", "wipe"}, NEW p \in Passwords, StartCall(op, p)
      PROVE  VaultBounds'
  <2>1. /\ UNCHANGED <<doc, dbBlob, veks, edit, edits, vaultFaults, outrun, halfWiped>>
        /\ memory' = memory \/ memory' = [memory EXCEPT !.vek = 0]
    BY <1>2 DEF StartCall, CallOnly
  <2>2. /\ call'.read = IdleCall.read
        /\ call'.at \in {"check", "file"} => veks < MaxVeks
    BY <1>2 DEF StartCall, IdleCall
  <2>3. memory'.vek <= MaxVeks
    BY <1>0, <2>1 DEF VaultBounds
  <2>. QED  BY <2>1, <2>2, <2>3, IdleBounds DEF VaultBounds
<1>3. CASE CallStep
  BY <1>3, CallBounds
<1>4. CASE LockFile
  <2>1. memory'.vek = 0
    BY <1>4 DEF LockFile, Locked
  <2>. QED  BY <1>4, <2>1 DEF LockFile, VaultBounds
<1>5. CASE VaultDies
  <2>1. memory'.vek = 0 /\ vaultFaults' \in Nat /\ halfWiped' \in BOOLEAN
    BY <1>5 DEF VaultDies, Locked, VaultFault, VaultBounds
  <2>2. UNCHANGED <<doc, dbBlob, veks, edits, outrun>> /\ call' = IdleCall
        /\ \A e \in VaultEdits : edit'[e] = IdleEdit
    BY <1>5 DEF VaultDies
  <2>. QED  BY <2>1, <2>2, IdleBounds DEF VaultBounds
<1>6. CASE FileIsDamaged
  <2>1. /\ doc # NoDoc /\ doc' \in {[file EXCEPT !.hurt = TRUE] : file \in Damages(doc)}
        /\ UNCHANGED <<dbBlob, memory, call, edit, veks, edits, outrun, halfWiped>>
        /\ vaultFaults' \in Nat
    BY <1>6 DEF FileIsDamaged, VaultFault, VaultBounds
  <2>2. FileIsBounded(doc')
    BY <2>1, DamagedIsBounded DEF VaultInv, StoredIsAFile, IsFile, VaultBounds
  <2>. QED  BY <2>1, <2>2 DEF VaultBounds
<1>7. ASSUME NEW e \in VaultEdits, NEW op \in {"password", "enable", "disable"}, NEW p \in Passwords,
             StartEdit(e, op, p)
      PROVE  VaultBounds'
  <2>. DEFINE r == [IdleEdit EXCEPT !.op = op, !.at = "read", !.password = p]
  <2>1. r.read = IdleEdit.read /\ r.vek = 0
    BY DEF IdleEdit
  <2>2. Put(e, r) /\ EditOnly /\ UNCHANGED <<doc, outrun>> /\ edits' \in Nat
    BY <1>7 DEF StartEdit, VaultBounds
  <2>. HIDE DEF r
  <2>. QED  BY <2>1, <2>2, IdleBounds, PutBounds DEF VaultBounds
<1>8. ASSUME NEW e \in VaultEdits, EditStep(e) PROVE VaultBounds'
  BY <1>8, EditBounds
<1>. QED  BY <1>1, <1>2, <1>3, <1>4, <1>5, <1>6, <1>7, <1>8 DEF VaultFileNext
=============================================================================
