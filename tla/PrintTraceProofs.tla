-------------------------- MODULE PrintTraceProofs --------------------------
(***************************************************************************)
(* Proofs about Options and PrintTrace, for command lines of any length.   *)
(***************************************************************************)
EXTENDS PrintTrace, FiniteSetTheorems, SequenceTheorems, TLAPS

\* A set of numbers has a least one.
LEMMA Least ==
  ASSUME NEW S, S \subseteq Nat, S # {}
  PROVE  \E m \in S : \A n \in S : m <= n
<1> DEFINE R == {p \in Nat \X Nat : p[1] < p[2]}
<1>1. IsWellFoundedOn(R, Nat)
  BY NatLessThanWellFounded DEF OpToRel
<1>2. ASSUME NEW m \in Nat, NEW n \in Nat, m < n PROVE <<m, n>> \in R
  <2>1. <<m, n>> \in Nat \X Nat /\ <<m, n>>[1] = m /\ <<m, n>>[2] = n
    OBVIOUS
  <2> QED BY <1>2, <2>1
<1> HIDE DEF R
<1>3. PICK m \in S : \A n \in S : <<n, m>> \notin R
  BY <1>1, WFMin
<1>4. ASSUME NEW n \in S PROVE m <= n
  <2>1. m \in Nat /\ n \in Nat /\ ~(n < m)
    BY <1>2, <1>3
  <2> QED BY <2>1
<1> QED BY <1>4

(***************************************************************************)
(* Sums over finite sets.                                                  *)
(***************************************************************************)

\* Among sets of members of a finite set there is a smallest one.
LEMMA Smallest ==
  ASSUME NEW S, IsFiniteSet(S), NEW Q, Q \subseteq SUBSET S, Q # {}
  PROVE  \E T \in Q : \A U \in SUBSET T : U \in Q => U = T
<1>1. IsWellFoundedOn(StrictSubsetOrdering(S), SUBSET S)
  BY FS_StrictSubsetOrderingWellFounded, FS_FiniteSubsetsOfFinite
<1>2. PICK T \in Q : \A U \in Q : <<U, T>> \notin StrictSubsetOrdering(S)
  BY <1>1, WFMin
<1>3. ASSUME NEW U \in SUBSET T, U \in Q, U # T PROVE FALSE
  <2>1. <<U, T>> \in (SUBSET S) \X (SUBSET S) /\ <<U, T>>[1] = U /\ <<U, T>>[2] = T
    BY <1>3
  <2>2. <<U, T>> \in StrictSubsetOrdering(S)
    BY <1>3, <2>1 DEF StrictSubsetOrdering
  <2> QED BY <1>2, <1>3, <2>2
<1> QED BY <1>2, <1>3

Some(T) == CHOOSE x \in T : TRUE

\* g has the sums of f over the subsets of S, one element after the other.
Sums(f, S, g) ==
  g = [T \in SUBSET S |-> IF T = {} THEN 0 ELSE f[Some(T)] + g[T \ {Some(T)}]]

\* What the fold of the community module comes to.
LEMMA SumDef ==
  ASSUME NEW f, NEW S
  PROVE  SumFunctionOnSet(f, S) = (CHOOSE g : Sums(f, S, g))[S]
BY DEF SumFunctionOnSet, FoldFunctionOnSet, MapThenFoldSet, Sums, Some

\* Two functions of sums agree where both are defined.
LEMMA SumsAgree ==
  ASSUME NEW f, NEW S, IsFiniteSet(S), NEW T \in SUBSET S, NEW g, NEW h,
         Sums(f, S, g), Sums(f, T, h)
  PROVE  \A U \in SUBSET T : g[U] = h[U]
<1> DEFINE Q == {U \in SUBSET T : g[U] # h[U]}
<1> SUFFICES ASSUME Q # {} PROVE FALSE
  OBVIOUS
<1>1. PICK U \in Q : \A V \in SUBSET U : V \in Q => V = U
  <2>1. Q \subseteq SUBSET S /\ Q # {}
    OBVIOUS
  <2> HIDE DEF Q
  <2> QED BY <2>1, Smallest
<1>2. /\ g[U] = IF U = {} THEN 0 ELSE f[Some(U)] + g[U \ {Some(U)}]
      /\ h[U] = IF U = {} THEN 0 ELSE f[Some(U)] + h[U \ {Some(U)}]
  <2>1. U \in SUBSET S /\ U \in SUBSET T
    OBVIOUS
  <2>2. g[U] = [V \in SUBSET S |-> IF V = {} THEN 0 ELSE f[Some(V)] + g[V \ {Some(V)}]][U]
    BY DEF Sums
  <2>3. h[U] = [V \in SUBSET T |-> IF V = {} THEN 0 ELSE f[Some(V)] + h[V \ {Some(V)}]][U]
    BY DEF Sums
  <2> HIDE DEF Q
  <2> QED BY <2>1, <2>2, <2>3
<1>3. U # {}
  BY <1>2
<1>4. Some(U) \in U
  BY <1>3 DEF Some
<1>5. g[U \ {Some(U)}] = h[U \ {Some(U)}]
  BY <1>1, <1>4
<1> QED BY <1>2, <1>5

\* The subsets of a finite set have sums.
LEMMA SumsExist ==
  ASSUME NEW f, NEW S, IsFiniteSet(S)
  PROVE  \E g : Sums(f, S, g)
<1> DEFINE Q == {T \in SUBSET S : ~\E g : Sums(f, T, g)}
           H(T) == CHOOSE h : Sums(f, T, h)
<1> SUFFICES ASSUME Q # {} PROVE FALSE
  OBVIOUS
<1>1. PICK T \in Q : \A V \in SUBSET T : V \in Q => V = T
  <2>1. Q \subseteq SUBSET S /\ Q # {}
    OBVIOUS
  <2> HIDE DEF Q
  <2> QED BY <2>1, Smallest
<1>2. ASSUME NEW V \in SUBSET T, V # T PROVE Sums(f, V, H(V))
  BY <1>1, <1>2
<1> DEFINE g == [U \in SUBSET T |-> IF U = {} THEN 0
                 ELSE f[Some(U)] + H(U \ {Some(U)})[U \ {Some(U)}]]
<1>3. ASSUME NEW V \in SUBSET T, V # T PROVE g[V] = H(V)[V]
  <2>1. H(V)[V] = [U \in SUBSET V |-> IF U = {} THEN 0
                   ELSE f[Some(U)] + H(V)[U \ {Some(U)}]][V]
    BY <1>2, <1>3 DEF Sums
  <2>2. H(V)[V] = IF V = {} THEN 0 ELSE f[Some(V)] + H(V)[V \ {Some(V)}]
    <3> HIDE DEF H
    <3> QED BY <2>1
  <2>3. V # {} => H(V)[V \ {Some(V)}] = H(V \ {Some(V)})[V \ {Some(V)}]
    <3> SUFFICES ASSUME V # {} PROVE H(V)[V \ {Some(V)}] = H(V \ {Some(V)})[V \ {Some(V)}]
      OBVIOUS
    <3>1. Some(V) \in V
      BY DEF Some
    <3>2. V \ {Some(V)} \in SUBSET T /\ V \ {Some(V)} # T /\ V \ {Some(V)} \in SUBSET V
      BY <1>3, <3>1
    <3>3. Sums(f, V, H(V)) /\ Sums(f, V \ {Some(V)}, H(V \ {Some(V)}))
      BY <1>2, <1>3, <3>2
    <3>4. IsFiniteSet(V)
      BY FS_Subset
    <3> HIDE DEF H
    <3> QED BY <3>2, <3>3, <3>4, SumsAgree
  <2>4. g[V] = IF V = {} THEN 0 ELSE f[Some(V)] + H(V \ {Some(V)})[V \ {Some(V)}]
    <3> HIDE DEF H
    <3> QED OBVIOUS
  <2> HIDE DEF H, g
  <2> QED BY <2>2, <2>3, <2>4
<1>4. ASSUME NEW U \in SUBSET T, U # {}
      PROVE  H(U \ {Some(U)})[U \ {Some(U)}] = g[U \ {Some(U)}]
  <2>1. Some(U) \in U
    BY <1>4 DEF Some
  <2>2. U \ {Some(U)} \in SUBSET T /\ U \ {Some(U)} # T
    BY <2>1
  <2> HIDE DEF H, g
  <2> QED BY <1>3, <2>2
<1> HIDE DEF H
<1>5. g = [U \in SUBSET T |-> IF U = {} THEN 0 ELSE f[Some(U)] + g[U \ {Some(U)}]]
  <2>1. \A U \in SUBSET T : (IF U = {} THEN 0 ELSE f[Some(U)] + H(U \ {Some(U)})[U \ {Some(U)}])
                          = (IF U = {} THEN 0 ELSE f[Some(U)] + g[U \ {Some(U)}])
    <3> HIDE DEF g
    <3> QED BY <1>4
  <2>2. PICK G : G = g
    OBVIOUS
  <2>3. \A U \in SUBSET T : (IF U = {} THEN 0 ELSE f[Some(U)] + H(U \ {Some(U)})[U \ {Some(U)}])
                          = (IF U = {} THEN 0 ELSE f[Some(U)] + G[U \ {Some(U)}])
    <3> HIDE DEF g
    <3> QED BY <2>1, <2>2
  <2>4. g = [U \in SUBSET T |-> IF U = {} THEN 0 ELSE f[Some(U)] + G[U \ {Some(U)}]]
    BY <2>3
  <2> HIDE DEF g
  <2> QED BY <2>2, <2>4
<1>6. Sums(f, T, g)
  <2> HIDE DEF g
  <2> QED BY <1>5 DEF Sums
<1> HIDE DEF g
<1> QED BY <1>6

\* The sum over a set, an element at a time.
LEMMA SumTurn ==
  ASSUME NEW f, NEW S, IsFiniteSet(S)
  PROVE  SumFunctionOnSet(f, S) =
           IF S = {} THEN 0 ELSE f[Some(S)] + SumFunctionOnSet(f, S \ {Some(S)})
<1> DEFINE H(T) == CHOOSE h : Sums(f, T, h)
<1>1. ASSUME NEW T \in SUBSET S
      PROVE  Sums(f, T, H(T)) /\ SumFunctionOnSet(f, T) = H(T)[T] /\ IsFiniteSet(T)
  <2>1. IsFiniteSet(T)
    BY FS_Subset
  <2>2. \E g : Sums(f, T, g)
    BY <2>1, SumsExist
  <2> QED BY <2>1, <2>2, SumDef
<1> HIDE DEF H
<1>2. H(S)[S] = [U \in SUBSET S |-> IF U = {} THEN 0 ELSE f[Some(U)] + H(S)[U \ {Some(U)}]][S]
  BY <1>1 DEF Sums
<1>3. H(S)[S] = IF S = {} THEN 0 ELSE f[Some(S)] + H(S)[S \ {Some(S)}]
  BY <1>2
<1>4. H(S)[S \ {Some(S)}] = H(S \ {Some(S)})[S \ {Some(S)}]
  <2>1. S \ {Some(S)} \in SUBSET S
    OBVIOUS
  <2>2. Sums(f, S, H(S)) /\ Sums(f, S \ {Some(S)}, H(S \ {Some(S)}))
    BY <1>1, <2>1
  <2> QED BY <2>1, <2>2, SumsAgree
<1> QED BY <1>1, <1>3, <1>4

\* A sum of natural numbers is one.
LEMMA SumNat ==
  ASSUME NEW f, NEW S, IsFiniteSet(S), \A x \in S : f[x] \in Nat
  PROVE  SumFunctionOnSet(f, S) \in Nat
<1> DEFINE Q == {T \in SUBSET S : SumFunctionOnSet(f, T) \notin Nat}
<1> SUFFICES ASSUME Q # {} PROVE FALSE
  OBVIOUS
<1>1. PICK T \in Q : \A V \in SUBSET T : V \in Q => V = T
  <2>1. Q \subseteq SUBSET S /\ Q # {}
    OBVIOUS
  <2> HIDE DEF Q
  <2> QED BY <2>1, Smallest
<1>2. IsFiniteSet(T)
  BY FS_Subset
<1>3. SumFunctionOnSet(f, T) =
        IF T = {} THEN 0 ELSE f[Some(T)] + SumFunctionOnSet(f, T \ {Some(T)})
  BY <1>2, SumTurn
<1>4. T # {}
  BY <1>3
<1>5. Some(T) \in T /\ Some(T) \in S
  BY <1>4 DEF Some
<1>6. SumFunctionOnSet(f, T \ {Some(T)}) \in Nat
  BY <1>1, <1>5
<1>7. f[Some(T)] \in Nat
  BY <1>5
<1> QED BY <1>3, <1>6, <1>7

\* Any element may be added last.
LEMMA SumWith ==
  ASSUME NEW f, NEW S, IsFiniteSet(S), \A x \in S : f[x] \in Nat, NEW x \in S
  PROVE  SumFunctionOnSet(f, S) = f[x] + SumFunctionOnSet(f, S \ {x})
<1> DEFINE Q == {T \in SUBSET S : \E y \in T :
                   SumFunctionOnSet(f, T) # f[y] + SumFunctionOnSet(f, T \ {y})}
<1> SUFFICES ASSUME Q # {} PROVE FALSE
  OBVIOUS
<1>1. PICK T \in Q : \A V \in SUBSET T : V \in Q => V = T
  <2>1. Q \subseteq SUBSET S /\ Q # {}
    OBVIOUS
  <2> HIDE DEF Q
  <2> QED BY <2>1, Smallest
<1>2. PICK y \in T : SumFunctionOnSet(f, T) # f[y] + SumFunctionOnSet(f, T \ {y})
  OBVIOUS
<1>3. PICK z : z = Some(T)
  OBVIOUS
<1>4. z \in T
  BY <1>2, <1>3 DEF Some
<1>5. IsFiniteSet(T)
  BY FS_Subset
<1>6. SumFunctionOnSet(f, T) = f[z] + SumFunctionOnSet(f, T \ {z})
  BY <1>2, <1>3, <1>5, SumTurn
<1>7. y # z
  BY <1>2, <1>6
<1>8. SumFunctionOnSet(f, T \ {z}) = f[y] + SumFunctionOnSet(f, (T \ {z}) \ {y})
  <2>1. T \ {z} \in SUBSET T /\ T \ {z} # T /\ y \in T \ {z} /\ T \ {z} \in SUBSET S
    BY <1>4, <1>7
  <2>2. T \ {z} \notin Q
    BY <1>1, <2>1
  <2> QED BY <2>1, <2>2
<1>9. SumFunctionOnSet(f, T \ {y}) = f[z] + SumFunctionOnSet(f, (T \ {y}) \ {z})
  <2>1. T \ {y} \in SUBSET T /\ T \ {y} # T /\ z \in T \ {y} /\ T \ {y} \in SUBSET S
    BY <1>4, <1>7
  <2>2. T \ {y} \notin Q
    BY <1>1, <2>1
  <2> QED BY <2>1, <2>2
<1>10. (T \ {z}) \ {y} = (T \ {y}) \ {z}
  OBVIOUS
<1>11. SumFunctionOnSet(f, (T \ {y}) \ {z}) \in Nat
  <2>1. IsFiniteSet((T \ {y}) \ {z}) /\ \A v \in (T \ {y}) \ {z} : f[v] \in Nat
    BY <1>5, FS_Subset
  <2> QED BY <2>1, SumNat
<1>12. f[y] \in Nat /\ f[z] \in Nat
  BY <1>2, <1>4
<1>13. PICK s : s = SumFunctionOnSet(f, (T \ {y}) \ {z})
  OBVIOUS
<1>14. f[z] + (f[y] + s) = f[y] + (f[z] + s)
  BY <1>11, <1>12, <1>13
<1> QED BY <1>2, <1>6, <1>8, <1>9, <1>10, <1>13, <1>14

(***************************************************************************)
(* The greatest and the least of a set of numbers.                         *)
(***************************************************************************)

\* The greatest and the least of a set are what Max and Min choose.
LEMMA MaxIs ==
  ASSUME NEW D, D \subseteq Nat, NEW m \in D, \A k \in D : k <= m
  PROVE  Max(D) = m
<1>1. ASSUME NEW n \in D, \A k \in D : n >= k PROVE n = m
  <2>1. n \in Nat /\ m \in Nat /\ n >= m /\ n <= m
    BY <1>1
  <2> QED BY <2>1
<1>2. m \in D /\ \A k \in D : m >= k
  <2>1. \A k \in D : k \in Nat /\ m \in Nat /\ k <= m
    OBVIOUS
  <2> QED BY <2>1
<1>3. Max(D) \in D /\ \A k \in D : Max(D) >= k
  BY <1>2 DEF Max
<1> QED BY <1>1, <1>3

\* The same of the least.
LEMMA MinIs ==
  ASSUME NEW D, D \subseteq Nat, NEW m \in D, \A k \in D : m <= k
  PROVE  Min(D) = m
<1>1. ASSUME NEW n \in D, \A k \in D : n <= k PROVE n = m
  <2>1. n \in Nat /\ m \in Nat /\ n <= m /\ m <= n
    BY <1>1
  <2> QED BY <2>1
<1>2. Min(D) \in D /\ \A k \in D : Min(D) <= k
  BY DEF Min
<1> QED BY <1>1, <1>2

\* A set of bounded numbers has a greatest one.
LEMMA Greatest ==
  ASSUME NEW n \in Nat, NEW D, D \subseteq 0 .. n, D # {}
  PROVE  \E m \in D : \A k \in D : k <= m
<1> DEFINE S == {n - k : k \in D}
<1>1. S \subseteq Nat /\ S # {}
  <2>1. \A k \in D : n - k \in Nat
    OBVIOUS
  <2> QED BY <2>1
<1>2. PICK l \in S : \A k \in S : l <= k
  <2> HIDE DEF S
  <2> QED BY <1>1, Least
<1>3. PICK m \in D : l = n - m
  OBVIOUS
<1>4. ASSUME NEW k \in D PROVE k <= m
  <2>1. n - k \in S
    OBVIOUS
  <2>2. n - m <= n - k
    BY <1>2, <1>3, <2>1
  <2>3. k \in 0 .. n /\ m \in 0 .. n
    OBVIOUS
  <2> QED BY <2>2, <2>3
<1> QED BY <1>4

\* std::max and std::min, one duration at a time.
LEMMA MaxWith ==
  ASSUME NEW n \in Nat, NEW D, D \subseteq 0 .. n, NEW d \in 0 .. n
  PROVE  /\ Max({IF D = {} THEN 0 ELSE Max(D), d}) = Max(D \cup {d})
         /\ Min({IF D = {} THEN n ELSE Min(D), d}) = Min(D \cup {d})
<1>1. ASSUME NEW x \in 0 .. n
      PROVE  /\ Max({x, d}) = IF x <= d THEN d ELSE x
             /\ Min({x, d}) = IF x <= d THEN x ELSE d
  <2>1. {x, d} \subseteq Nat /\ x \in {x, d} /\ d \in {x, d} /\ x \in Nat /\ d \in Nat
    OBVIOUS
  <2>2. CASE x <= d
    <3>1. (\A k \in {x, d} : k <= d) /\ (\A k \in {x, d} : x <= k)
      BY <2>1, <2>2
    <3>2. Max({x, d}) = d /\ Min({x, d}) = x
      BY <2>1, <3>1, MaxIs, MinIs
    <3> QED BY <2>2, <3>2
  <2>3. CASE ~(x <= d)
    <3>1. (\A k \in {x, d} : k <= x) /\ (\A k \in {x, d} : d <= k)
      BY <2>1, <2>3
    <3>2. Max({x, d}) = x /\ Min({x, d}) = d
      BY <2>1, <3>1, MaxIs, MinIs
    <3> QED BY <2>3, <3>2
  <2> QED BY <2>2, <2>3
<1>2. CASE D = {}
  <2>1. Max({0, d}) = d /\ Min({n, d}) = d
    BY <1>1
  <2>2. D \cup {d} = {d}
    BY <1>2
  <2>3. Max({d}) = d /\ Min({d}) = d
    BY MaxIs, MinIs
  <2> QED BY <1>2, <2>1, <2>2, <2>3
<1>3. CASE D # {}
  <2>1. PICK u \in D : \A k \in D : k <= u
    BY <1>3, Greatest
  <2>2. PICK l \in D : \A k \in D : l <= k
    <3>1. D \subseteq Nat
      OBVIOUS
    <3> QED BY <1>3, <3>1, Least
  <2>3. D \subseteq Nat /\ D \cup {d} \subseteq Nat /\ u \in 0 .. n /\ l \in 0 .. n
    OBVIOUS
  <2>4. Max(D) = u /\ Min(D) = l
    BY <2>1, <2>2, <2>3, MaxIs, MinIs
  <2>5. Max({u, d}) = Max(D \cup {d})
    <3>1. CASE u <= d
      <4>1. \A k \in D \cup {d} : k <= d
        BY <2>1, <2>3, <3>1
      <4>2. Max(D \cup {d}) = d
        BY <2>3, <4>1, MaxIs
      <4> QED BY <1>1, <2>3, <3>1, <4>2
    <3>2. CASE ~(u <= d)
      <4>1. \A k \in D \cup {d} : k <= u
        BY <2>1, <2>3, <3>2
      <4>2. Max(D \cup {d}) = u
        BY <2>3, <4>1, MaxIs
      <4> QED BY <1>1, <2>3, <3>2, <4>2
    <3> QED BY <3>1, <3>2
  <2>6. Min({l, d}) = Min(D \cup {d})
    <3>1. CASE l <= d
      <4>1. \A k \in D \cup {d} : l <= k
        BY <2>2, <2>3, <3>1
      <4>2. Min(D \cup {d}) = l
        BY <2>3, <4>1, MinIs
      <4> QED BY <1>1, <2>3, <3>1, <4>2
    <3>2. CASE ~(l <= d)
      <4>1. \A k \in D \cup {d} : d <= k
        BY <2>2, <2>3, <3>2
      <4>2. Min(D \cup {d}) = d
        BY <2>3, <4>1, MinIs
      <4> QED BY <1>1, <2>3, <3>2, <4>2
    <3> QED BY <3>1, <3>2
  <2> QED BY <1>3, <2>4, <2>5, <2>6
<1> QED BY <1>2, <1>3

(***************************************************************************)
(* Words that options take.                                                *)
(***************************************************************************)

\* The block of options before the first word is empty, and so is the one
\* behind a word that takes none.
LEMMA NoArgument ==
  /\ ~IsArgument(1)
  /\ \A k \in Nat \ {0} : argv[k] \notin Taking => ~IsArgument(k + 1)
<1>1. ~IsArgument(1)
  BY DEF IsArgument
<1>2. ASSUME NEW k \in Nat \ {0}, argv[k] \notin Taking, IsArgument(k + 1) PROVE FALSE
  <2>1. PICK l \in 1 .. k : \A m \in l .. k : argv[m] \in Taking
    BY <1>2 DEF IsArgument
  <2>2. k \in l .. k
    OBVIOUS
  <2> QED BY <1>2, <2>1, <2>2
<1> QED BY <1>1, <1>2

\* Where the block of options that ends with word k begins.
Begins(l, k) ==
  /\ l \in 1 .. k
  /\ \A m \in l .. k : argv[m] \in Taking
  /\ l > 1 => argv[l - 1] \notin Taking

\* Every block of options has a beginning.
LEMMA BlockBegins ==
  ASSUME NEW k \in Nat \ {0}, argv[k] \in Taking
  PROVE  \E l \in 1 .. k : Begins(l, k)
<1> DEFINE S == {l \in 1 .. k : \A m \in l .. k : argv[m] \in Taking}
<1>1. k \in S
  OBVIOUS
<1>2. PICK l \in S : \A n \in S : l <= n
  <2>1. S \subseteq Nat /\ S # {}
    BY <1>1
  <2> HIDE DEF S
  <2> QED BY <2>1, Least
<1>3. ASSUME l > 1, argv[l - 1] \in Taking PROVE FALSE
  <2>1. l - 1 \in 1 .. k
    BY <1>3
  <2>2. ASSUME NEW m \in l - 1 .. k PROVE argv[m] \in Taking
    <3>1. m = l - 1 \/ m \in l .. k
      OBVIOUS
    <3> QED BY <1>3, <3>1
  <2>3. l - 1 \in S
    BY <2>1, <2>2
  <2> QED BY <1>2, <2>3
<1> QED BY <1>2, <1>3 DEF Begins

\* And only one.
LEMMA BlockUnique ==
  ASSUME NEW k \in Nat \ {0}, NEW l, NEW m, Begins(l, k), Begins(m, k)
  PROVE  l = m
<1>1. l \in 1 .. k /\ m \in 1 .. k
  BY DEF Begins
<1>2. ASSUME l < m PROVE FALSE
  <2>1. m - 1 \in l .. k /\ m > 1
    BY <1>1, <1>2
  <2> QED BY <2>1 DEF Begins
<1>3. ASSUME m < l PROVE FALSE
  <2>1. l - 1 \in m .. k /\ l > 1
    BY <1>1, <1>3
  <2> QED BY <2>1 DEF Begins
<1> QED BY <1>1, <1>2, <1>3

\* A word is an argument when the block before it has an odd length.
LEMMA ArgumentOdd ==
  ASSUME NEW k \in Nat \ {0}, NEW l, Begins(l, k)
  PROVE  IsArgument(k + 1) <=> (k + 1 - l) % 2 = 1
<1>1. l \in 1 .. k
  BY DEF Begins
<1>2. ASSUME (k + 1 - l) % 2 = 1 PROVE IsArgument(k + 1)
  BY <1>1, <1>2 DEF Begins, IsArgument
<1>3. ASSUME IsArgument(k + 1) PROVE (k + 1 - l) % 2 = 1
  <2>1. PICK m \in 1 .. k : Begins(m, k) /\ (k + 1 - m) % 2 = 1
    BY <1>3 DEF Begins, IsArgument
  <2> QED BY <2>1, BlockUnique
<1> QED BY <1>2, <1>3

\* An option that is not itself an argument takes the word behind it ...
LEMMA OptionTakes ==
  ASSUME NEW k \in Nat \ {0}, argv[k] \in Taking, ~IsArgument(k)
  PROVE  IsArgument(k + 1)
<1>1. PICK l \in 1 .. k : Begins(l, k)
  BY BlockBegins
<1>2. CASE l = k
  <2>1. (k + 1 - l) % 2 = 1
    BY <1>2
  <2> QED BY <1>1, <2>1, ArgumentOdd
<1>3. CASE l < k
  <2> DEFINE j == k - 1
  <2>1. j \in Nat \ {0} /\ j + 1 = k /\ l \in 1 .. j
    BY <1>3
  <2>2. Begins(l, j)
    BY <1>1, <2>1 DEF Begins
  <2>3. ~((k - l) % 2 = 1)
    BY <2>1, <2>2, ArgumentOdd
  <2>4. (k + 1 - l) % 2 = 1
    BY <2>1, <2>3
  <2> QED BY <1>1, <2>4, ArgumentOdd
<1> QED BY <1>2, <1>3

\* ... and an argument takes none, whatever it looks like.
LEMMA ArgumentTakesNone ==
  ASSUME NEW k \in Nat \ {0}, IsArgument(k)
  PROVE  ~IsArgument(k + 1)
<1>1. k > 1
  BY NoArgument
<1>2. CASE argv[k] \notin Taking
  BY <1>2, NoArgument
<1>3. CASE argv[k] \in Taking
  <2> DEFINE j == k - 1
  <2>1. j \in Nat \ {0} /\ j + 1 = k
    BY <1>1
  <2>2. argv[j] \in Taking
    BY <2>1, NoArgument
  <2>3. PICK l \in 1 .. j : Begins(l, j)
    BY <2>1, <2>2, BlockBegins
  <2>4. (k - l) % 2 = 1
    BY <2>1, <2>3, ArgumentOdd
  <2>5. Begins(l, k)
    <3>1. \A m \in l .. k : m \in l .. j \/ m = k
      BY <2>1
    <3> QED BY <1>3, <2>1, <2>3, <3>1 DEF Begins
  <2>6. ~((k + 1 - l) % 2 = 1)
    BY <2>1, <2>3, <2>4
  <2> QED BY <2>5, <2>6, ArgumentOdd
<1> QED BY <1>2, <1>3

(***************************************************************************)
(* The loops.  The invariant says of the words before the next one what    *)
(* ParsedRight says of all of them.                                        *)
(***************************************************************************)

Outputs == At("-o") \cap {k \in OwnWords : TakesOutput(command)}
Groups == At("--group") \cap {k \in OwnWords : command = "print"}

\* What the loop has seen of a set of words.
Seen(S) == {k \in S : k < i}

\* The next word is nobody's argument and not the program's, or none is left.
AtWord ==
  \/ /\ ~IsArgument(i)
     /\ \A d \in Dashes : i <= d
     /\ mArguments = <<>>
  \/ /\ i = Len(argv) + 1
     /\ \E d \in Dashes :
          /\ \A e \in Dashes : d <= e
          /\ mArguments = SubSeq(argv, 1 + d, Len(argv))

\* A value is the default, or the word offset words behind the last of S.
Latest(words, S, value, offset, default) ==
  \/ S = {} /\ value = default
  \/ \E k \in S : value = words[k + offset] /\ \A l \in S : l <= k

FlagsSeen == flags = {f \in FlagsOf(command) : Seen(At(f)) # {}}

\* The options have had their arguments.
SatisfiedSeen ==
  \A k \in Seen(OwnWords) : argv[k] \in Taking =>
    k < Len(argv) /\ (argv[k] = "--group" => argv[k + 1] \in {"none", "thread"})

\* record has not seen a word twice, nor one it does not know.
RecordSeen ==
  command = "record" =>
    /\ \A k, l \in Seen(Inputs) : k = l
    /\ \A word \in {"-o"} \cup FlagsOf(command) : \A k, l \in Seen(At(word)) : k = l
    /\ \A k \in Seen(OwnWords) : argv[k] \in BareWords \cup {"-o"} \cup FlagsOf(command)

LoopInv ==
  /\ AtWord
  /\ Latest(argv, Seen(Inputs), mInput, 0, NoPath)
  /\ Latest(argv, Seen(Outputs), mOutput, 1, NoPath)
  /\ Latest(argv, Seen(Groups), mPrintGroup, 1, "none")
  /\ FlagsSeen
  /\ SatisfiedSeen
  /\ RecordSeen

OptionsType ==
  /\ argv \in Seq(Words)
  /\ i \in 1 .. Len(argv) + 1

ParseInv ==
  /\ OptionsType
  /\ phase = "parsing" => command \in Commands /\ LoopInv
  /\ ParsedRight

\* Options are not bare words.
LEMMA FlagFacts ==
  /\ \A c : FlagsOf(c) \subseteq {"--override", "-s", "--no-fork", "-p", "--verbose", "--perf", "--server"}
  /\ \A c : FlagsOf(c) \cap (BareWords \cup {"--", "-o", "--group"}) = {}
  /\ Taking \subseteq {"-o", "--group"}
  /\ Taking \cap (BareWords \cup {"--"} \cup FlagsOf(command)) = {}
  /\ "--" \notin BareWords /\ "-o" \notin BareWords /\ "--group" \notin BareWords
<1>1. \A c : FlagsOf(c) \subseteq {"--override", "-s", "--no-fork", "-p", "--verbose", "--perf", "--server"}
  BY DEF FlagsOf
<1>2. Taking \subseteq {"-o", "--group"}
  BY DEF Taking
<1> QED BY <1>1, <1>2, WordsAssumption DEF WordsAssumption

\* The meaning of the words does not change while they are read.
LEMMA WordsFixed ==
  ASSUME UNCHANGED <<command, argv>>
  PROVE  /\ Taking' = Taking
         /\ \A k : IsArgument(k)' <=> IsArgument(k)
         /\ Dashes' = Dashes
         /\ OwnWords' = OwnWords
         /\ Inputs' = Inputs
         /\ \A word : At(word)' = At(word)
         /\ Outputs' = Outputs
         /\ Groups' = Groups
<1>1. Taking' = Taking
  BY DEF Taking, TakesOutput
<1>2. \A k : IsArgument(k)' <=> IsArgument(k)
  BY <1>1 DEF IsArgument
<1>3. Dashes' = Dashes
  BY <1>2 DEF Dashes, TakesArguments
<1>4. OwnWords' = OwnWords
  BY <1>2, <1>3 DEF OwnWords
<1>5. Inputs' = Inputs /\ \A word : At(word)' = At(word)
  BY <1>4 DEF Inputs, At
<1> QED BY <1>1, <1>2, <1>3, <1>4, <1>5 DEF Outputs, Groups, TakesOutput

\* Words that count are positions.
LEMMA WordFacts ==
  ASSUME OptionsType
  PROVE  /\ Len(argv) \in Nat /\ i \in Nat \ {0}
         /\ DOMAIN argv = 1 .. Len(argv)
         /\ \A k \in 1 .. Len(argv) : argv[k] \in Words /\ argv[k] # NoPath
         /\ Dashes \subseteq 1 .. Len(argv)
         /\ OwnWords \subseteq 1 .. Len(argv)
         /\ \A k \in OwnWords : k \notin Dashes /\ ~IsArgument(k)
         /\ Inputs \subseteq OwnWords /\ Outputs \subseteq OwnWords /\ Groups \subseteq OwnWords
         /\ \A word : At(word) \subseteq OwnWords
<1>1. PICK S : S = Words
  OBVIOUS
<1>2. argv \in Seq(S)
  BY <1>1 DEF OptionsType
<1>3. Len(argv) \in Nat /\ DOMAIN argv = 1 .. Len(argv) /\ \A k \in 1 .. Len(argv) : argv[k] \in S
  BY <1>2
<1>4. i \in Nat \ {0}
  BY <1>3 DEF OptionsType
<1>5. \A k \in S : k # NoPath
  BY <1>1 DEF Words
<1>6. Dashes \subseteq 1 .. Len(argv)
  BY <1>3 DEF Dashes
<1>7. OwnWords \subseteq 1 .. Len(argv) /\ \A k \in OwnWords : ~IsArgument(k)
  BY <1>3 DEF OwnWords
<1>8. \A k \in OwnWords : k \notin Dashes
  <2> SUFFICES ASSUME NEW k \in OwnWords, k \in Dashes PROVE FALSE
    OBVIOUS
  <2>1. k < k /\ k \in Nat
    BY <1>3, <1>7 DEF OwnWords
  <2> QED BY <2>1
<1> QED BY <1>1, <1>3, <1>4, <1>5, <1>6, <1>7, <1>8 DEF Inputs, Outputs, Groups, At

\* The next word is the program's "--", or a word of the tool's.
LEMMA NextWord ==
  ASSUME OptionsType, AtWord, i <= Len(argv)
  PROVE  /\ ~IsArgument(i) /\ mArguments = <<>>
         /\ \A d \in Dashes : i <= d
         /\ i \in 1 .. Len(argv)
         /\ i \in Dashes <=> TakesArguments(command) /\ argv[i] = "--"
         /\ i \notin Dashes => i \in OwnWords
<1>1. Len(argv) \in Nat /\ i \in Nat \ {0} /\ DOMAIN argv = 1 .. Len(argv) /\ Dashes \subseteq 1 .. Len(argv)
  BY WordFacts
<1>2. i \in 1 .. Len(argv) /\ i # Len(argv) + 1
  BY <1>1
<1>3. ~IsArgument(i) /\ mArguments = <<>> /\ \A d \in Dashes : i <= d
  BY <1>2 DEF AtWord
<1>4. i \in Dashes <=> TakesArguments(command) /\ argv[i] = "--"
  BY <1>1, <1>2, <1>3 DEF Dashes
<1>5. ASSUME i \notin Dashes PROVE i \in OwnWords
  <2>1. ASSUME NEW d \in Dashes PROVE i < d
    BY <1>1, <1>3, <1>5
  <2> QED BY <1>1, <1>2, <1>3, <2>1 DEF OwnWords
<1> QED BY <1>2, <1>3, <1>4, <1>5

\* A turn takes the next word, and its argument if it takes one.
LEMMA OneTurn ==
  ASSUME OptionsType, AtWord, i <= Len(argv), i \notin Dashes,
         NEW n, n = IF argv[i] \in Taking THEN 2 ELSE 1
  PROVE  /\ ~IsArgument(i + n)
         /\ \A d \in Dashes : i + n <= d
         /\ \A k \in OwnWords : k < i + n <=> k < i \/ k = i
<1>1. /\ Len(argv) \in Nat /\ i \in Nat \ {0} /\ Dashes \subseteq 1 .. Len(argv)
      /\ OwnWords \subseteq 1 .. Len(argv)
      /\ \A k \in OwnWords : k \notin Dashes /\ ~IsArgument(k)
  BY WordFacts
<1>2. ~IsArgument(i) /\ i \in OwnWords /\ \A d \in Dashes : i <= d
  BY NextWord
<1>3. \A d \in Dashes : i + 1 <= d
  <2> SUFFICES ASSUME NEW d \in Dashes PROVE i + 1 <= d
    OBVIOUS
  <2>1. i <= d /\ i # d /\ d \in Nat
    BY <1>1, <1>2
  <2> QED BY <1>1, <2>1
<1>4. CASE argv[i] \notin Taking
  <2>1. n = 1 /\ ~IsArgument(i + 1)
    BY <1>1, <1>4, NoArgument
  <2>2. \A k \in OwnWords : k < i + 1 <=> k < i \/ k = i
    BY <1>1
  <2> QED BY <1>3, <2>1, <2>2
<1>5. CASE argv[i] \in Taking
  <2>1. n = 2 /\ IsArgument(i + 1)
    BY <1>1, <1>2, <1>5, OptionTakes
  <2>2. i + 1 \in Nat \ {0} /\ (i + 1) + 1 = i + 2
    BY <1>1
  <2>3. ~IsArgument(i + 2)
    BY <2>1, <2>2, ArgumentTakesNone
  <2>4. i + 1 \notin Dashes /\ i + 1 \notin OwnWords
    BY <1>1, <2>1 DEF Dashes
  <2>5. \A d \in Dashes : i + 2 <= d
    <3> SUFFICES ASSUME NEW d \in Dashes PROVE i + 2 <= d
      OBVIOUS
    <3>1. i + 1 <= d /\ i + 1 # d /\ d \in Nat
      BY <1>1, <1>3, <2>4
    <3> QED BY <1>1, <3>1
  <2>6. \A k \in OwnWords : k < i + 2 <=> k < i \/ k = i
    <3> SUFFICES ASSUME NEW k \in OwnWords PROVE k < i + 2 <=> k < i \/ k = i
      OBVIOUS
    <3>1. k \in Nat /\ k # i + 1
      BY <1>1, <2>4
    <3> QED BY <1>1, <3>1
  <2> QED BY <2>1, <2>3, <2>5, <2>6
<1> QED BY <1>4, <1>5

\* After a turn the loop has seen one more word.
LEMMA SeenMore ==
  ASSUME OptionsType, AtWord, i <= Len(argv), i \notin Dashes,
         NEW n, n = IF argv[i] \in Taking THEN 2 ELSE 1, Turn(n)
  PROVE  /\ AtWord'
         /\ Seen(Inputs)' = IF i \in Inputs THEN Seen(Inputs) \cup {i} ELSE Seen(Inputs)
         /\ Seen(Outputs)' = IF i \in Outputs THEN Seen(Outputs) \cup {i} ELSE Seen(Outputs)
         /\ Seen(Groups)' = IF i \in Groups THEN Seen(Groups) \cup {i} ELSE Seen(Groups)
         /\ Seen(OwnWords)' = Seen(OwnWords) \cup {i}
         /\ \A word : Seen(At(word))' = IF i \in At(word) THEN Seen(At(word)) \cup {i} ELSE Seen(At(word))
<1>1. i' = i + n /\ UNCHANGED <<command, argv, mArguments>>
  BY DEF Turn
<1>2. /\ ~IsArgument(i + n)
      /\ \A d \in Dashes : i + n <= d
      /\ \A k \in OwnWords : k < i + n <=> k < i \/ k = i
  BY OneTurn
<1>3. i \in OwnWords /\ mArguments = <<>>
  BY NextWord
<1>4. /\ Inputs \subseteq OwnWords /\ Outputs \subseteq OwnWords /\ Groups \subseteq OwnWords
      /\ \A word : At(word) \subseteq OwnWords
  BY WordFacts
<1>5. /\ \A k : IsArgument(k)' <=> IsArgument(k)
      /\ Dashes' = Dashes /\ OwnWords' = OwnWords /\ Inputs' = Inputs
      /\ Outputs' = Outputs /\ Groups' = Groups
      /\ \A word : At(word)' = At(word)
  BY <1>1, WordsFixed
<1>6. \A k \in OwnWords : k < i' <=> k < i \/ k = i
  BY <1>1, <1>2
<1>7. ~IsArgument(i') /\ \A d \in Dashes : i' <= d
  BY <1>1, <1>2
<1>8. ~IsArgument(i)'
  BY <1>1, <1>7 DEF IsArgument, Taking, TakesOutput
<1>9. AtWord'
  BY <1>1, <1>3, <1>5, <1>7, <1>8 DEF AtWord
<1>10. /\ Seen(Inputs)' = IF i \in Inputs THEN Seen(Inputs) \cup {i} ELSE Seen(Inputs)
       /\ Seen(Outputs)' = IF i \in Outputs THEN Seen(Outputs) \cup {i} ELSE Seen(Outputs)
       /\ Seen(Groups)' = IF i \in Groups THEN Seen(Groups) \cup {i} ELSE Seen(Groups)
       /\ Seen(OwnWords)' = Seen(OwnWords) \cup {i}
  BY <1>3, <1>4, <1>5, <1>6 DEF Seen
<1>11. \A word : Seen(At(word))' = IF i \in At(word) THEN Seen(At(word)) \cup {i} ELSE Seen(At(word))
  <2> SUFFICES ASSUME NEW word
               PROVE  Seen(At(word))' = IF i \in At(word) THEN Seen(At(word)) \cup {i} ELSE Seen(At(word))
    OBVIOUS
  <2>1. At(word)' = At(word) /\ At(word) \subseteq OwnWords
    BY <1>4, <1>5
  <2> QED BY <1>6, <2>1 DEF Seen
<1> QED BY <1>9, <1>10, <1>11

\* A value taken from the word just seen.
LEMMA LatestTaken ==
  ASSUME NEW words, NEW S, S \subseteq Nat, NEW j \in Nat, \A k \in S : k < j,
         NEW offset, NEW default
  PROVE  Latest(words, S \cup {j}, words[j + offset], offset, default)
<1>1. \A l \in S \cup {j} : l <= j
  OBVIOUS
<1> QED BY <1>1 DEF Latest

\* What a value says about what was seen.
LEMMA LatestDefault ==
  ASSUME OptionsType, LoopInv, SatisfiedSeen
  PROVE  /\ mInput = NoPath <=> Seen(Inputs) = {}
         /\ mOutput = NoPath <=> Seen(Outputs) = {}
<1>1. /\ Len(argv) \in Nat
      /\ \A k \in 1 .. Len(argv) : argv[k] # NoPath
      /\ OwnWords \subseteq 1 .. Len(argv)
      /\ Inputs \subseteq OwnWords /\ Outputs \subseteq OwnWords
  BY WordFacts
<1>2. ASSUME NEW k \in Seen(Inputs) PROVE argv[k + 0] # NoPath
  <2>1. k \in 1 .. Len(argv) /\ k + 0 = k
    BY <1>1, <1>2 DEF Seen
  <2> QED BY <1>1, <2>1
<1>3. ASSUME NEW k \in Seen(Outputs) PROVE argv[k + 1] # NoPath
  <2>1. k \in Seen(OwnWords) /\ argv[k] \in Taking
    BY <1>1, <1>3 DEF Seen, Outputs, At, Taking
  <2>2. k \in Nat /\ k < Len(argv)
    BY <1>1, <2>1 DEF SatisfiedSeen, Seen
  <2>3. k + 1 \in 1 .. Len(argv)
    BY <1>1, <2>2
  <2> QED BY <1>1, <2>3
<1>4. Latest(argv, Seen(Inputs), mInput, 0, NoPath) /\ Latest(argv, Seen(Outputs), mOutput, 1, NoPath)
  BY DEF LoopInv
<1> QED BY <1>2, <1>3, <1>4 DEF Latest

\* The loop takes a bare word.
LEMMA InputStep ==
  ASSUME ParseInv, phase = "parsing", i <= Len(argv), ParseInput
  PROVE  LoopInv'
<1>1. OptionsType /\ LoopInv /\ AtWord /\ SatisfiedSeen
  BY DEF ParseInv, LoopInv
<1>2. argv[i] \in BareWords /\ InputFree /\ mInput' = argv[i] /\ Turn(1)
  BY DEF ParseInput, Word
<1>3. UNCHANGED <<command, argv, mOutput, mPrintGroup, flags>>
  BY DEF ParseInput, Turn
<1>4. argv[i] \notin Taking /\ argv[i] \notin FlagsOf(command) \cup {"--", "-o", "--group"}
  BY <1>2, FlagFacts
<1>5. i \notin Dashes /\ i \in OwnWords
  BY <1>1, <1>4, NextWord
<1>6. i \in Inputs /\ i \notin Outputs /\ i \notin Groups /\ \A f \in {"-o"} \cup FlagsOf(command) : i \notin At(f)
  BY <1>2, <1>4, <1>5 DEF Inputs, Outputs, Groups, At
<1>7. /\ AtWord'
      /\ Seen(Inputs)' = Seen(Inputs) \cup {i}
      /\ Seen(Outputs)' = Seen(Outputs) /\ Seen(Groups)' = Seen(Groups)
      /\ Seen(OwnWords)' = Seen(OwnWords) \cup {i}
      /\ \A f \in {"-o"} \cup FlagsOf(command) : Seen(At(f))' = Seen(At(f))
  <2>1. 1 = IF argv[i] \in Taking THEN 2 ELSE 1
    BY <1>4
  <2> QED BY <1>1, <1>2, <1>5, <1>6, <2>1, SeenMore
<1>8. Latest(argv, Seen(Inputs), mInput, 0, NoPath)'
  <2>1. i \in Nat /\ Seen(Inputs) \subseteq Nat /\ \A k \in Seen(Inputs) : k < i
    BY <1>1, WordFacts DEF Seen
  <2>2. Latest(argv, Seen(Inputs) \cup {i}, argv[i + 0], 0, NoPath)
    BY <2>1, LatestTaken
  <2>3. i + 0 = i
    BY <2>1
  <2> QED BY <1>2, <1>3, <1>7, <2>2, <2>3
<1>9. Latest(argv, Seen(Outputs), mOutput, 1, NoPath)' /\ Latest(argv, Seen(Groups), mPrintGroup, 1, "none")'
  BY <1>1, <1>3, <1>7 DEF LoopInv
<1>10. FlagsSeen'
  BY <1>1, <1>3, <1>7 DEF LoopInv, FlagsSeen
<1>11. SatisfiedSeen'
  BY <1>1, <1>3, <1>4, <1>7, WordsFixed DEF SatisfiedSeen
<1>12. RecordSeen'
  <2> SUFFICES ASSUME command = "record" PROVE RecordSeen'
    BY <1>3 DEF RecordSeen
  <2>1. Seen(Inputs) = {}
    BY <1>1, <1>2, LatestDefault DEF InputFree
  <2> QED BY <1>1, <1>2, <1>3, <1>7, <2>1 DEF LoopInv, RecordSeen
<1> QED BY <1>7, <1>8, <1>9, <1>10, <1>11, <1>12 DEF LoopInv

\* The loop meets "--".
LEMMA DashesStep ==
  ASSUME ParseInv, phase = "parsing", i <= Len(argv), ParseDashes
  PROVE  LoopInv'
<1>1. OptionsType /\ LoopInv /\ AtWord
  BY DEF ParseInv, LoopInv
<1>2. /\ argv[i] = "--" /\ TakesArguments(command)
      /\ mArguments' = SubSeq(argv, i + 1, Len(argv)) /\ i' = Len(argv) + 1
      /\ UNCHANGED <<command, argv, mInput, mOutput, mPrintGroup, flags>>
  BY DEF ParseDashes, Word
<1>3. i \in Dashes /\ \A d \in Dashes : i <= d
  BY <1>1, <1>2, NextWord
<1>4. /\ Len(argv) \in Nat /\ i \in Nat \ {0}
      /\ OwnWords \subseteq 1 .. Len(argv)
      /\ Inputs \subseteq OwnWords /\ Outputs \subseteq OwnWords /\ Groups \subseteq OwnWords
      /\ \A word : At(word) \subseteq OwnWords
  BY <1>1, WordFacts
<1>5. /\ Taking' = Taking /\ Dashes' = Dashes /\ OwnWords' = OwnWords /\ Inputs' = Inputs
      /\ Outputs' = Outputs /\ Groups' = Groups
      /\ \A word : At(word)' = At(word)
  BY <1>2, WordsFixed
<1>6. \A k \in OwnWords : k < i /\ k < i'
  BY <1>2, <1>3, <1>4 DEF OwnWords
<1>7. /\ Seen(Inputs)' = Seen(Inputs) /\ Seen(Outputs)' = Seen(Outputs)
      /\ Seen(Groups)' = Seen(Groups) /\ Seen(OwnWords)' = Seen(OwnWords)
      /\ \A word : Seen(At(word))' = Seen(At(word))
  BY <1>4, <1>5, <1>6 DEF Seen
<1>8. AtWord'
  <2>1. i + 1 = 1 + i
    BY <1>4
  <2> QED BY <1>2, <1>3, <1>5, <2>1 DEF AtWord
<1> QED BY <1>1, <1>2, <1>5, <1>7, <1>8 DEF LoopInv, FlagsSeen, SatisfiedSeen, RecordSeen

\* The loop takes an option and its argument.
LEMMA OutputStep ==
  ASSUME ParseInv, phase = "parsing", i <= Len(argv), ParseOutput, i # Len(argv)
  PROVE  LoopInv'
<1>1. OptionsType /\ LoopInv /\ AtWord /\ SatisfiedSeen
  BY DEF ParseInv, LoopInv
<1>2. /\ argv[i] = "-o" /\ TakesOutput(command) /\ (command = "record" => mOutput = NoPath)
      /\ mOutput' = argv[i + 1] /\ Turn(2)
  BY DEF ParseOutput, Word
<1>3. UNCHANGED <<command, argv, mInput, mPrintGroup, flags>>
  BY DEF ParseOutput, Turn
<1>4. argv[i] \in Taking /\ argv[i] \notin FlagsOf(command) /\ argv[i] \notin BareWords
  BY <1>2, FlagFacts DEF Taking
<1>5. i \notin Dashes /\ i \in OwnWords
  BY <1>1, <1>2, NextWord
<1>6. i \notin Inputs /\ i \in Outputs /\ i \notin Groups /\ i \in At("-o") /\ \A f \in FlagsOf(command) : i \notin At(f)
  BY <1>2, <1>4, <1>5 DEF Inputs, Outputs, Groups, At
<1>7. /\ AtWord'
      /\ Seen(Inputs)' = Seen(Inputs)
      /\ Seen(Outputs)' = Seen(Outputs) \cup {i} /\ Seen(Groups)' = Seen(Groups)
      /\ Seen(OwnWords)' = Seen(OwnWords) \cup {i}
      /\ Seen(At("-o"))' = Seen(At("-o")) \cup {i}
      /\ \A f \in FlagsOf(command) : Seen(At(f))' = Seen(At(f))
  <2>1. 2 = IF argv[i] \in Taking THEN 2 ELSE 1
    BY <1>4
  <2> QED BY <1>1, <1>2, <1>5, <1>6, <2>1, SeenMore
<1>8. Latest(argv, Seen(Outputs), mOutput, 1, NoPath)'
  <2>1. i \in Nat /\ Seen(Outputs) \subseteq Nat /\ \A k \in Seen(Outputs) : k < i
    BY <1>1, WordFacts DEF Seen
  <2>2. Latest(argv, Seen(Outputs) \cup {i}, argv[i + 1], 1, NoPath)
    BY <2>1, LatestTaken
  <2> QED BY <1>2, <1>3, <1>7, <2>2
<1>9. Latest(argv, Seen(Inputs), mInput, 0, NoPath)' /\ Latest(argv, Seen(Groups), mPrintGroup, 1, "none")'
  BY <1>1, <1>3, <1>7 DEF LoopInv
<1>10. FlagsSeen'
  BY <1>1, <1>3, <1>7 DEF LoopInv, FlagsSeen
<1>11. SatisfiedSeen'
  <2>1. i < Len(argv)
    BY <1>1, WordFacts
  <2> QED BY <1>1, <1>2, <1>3, <1>7, <2>1, WordsFixed DEF SatisfiedSeen
<1>12. RecordSeen'
  <2> SUFFICES ASSUME command = "record" PROVE RecordSeen'
    BY <1>3 DEF RecordSeen
  <2>1. Seen(Outputs) = {}
    BY <1>1, <1>2, LatestDefault
  <2>2. Seen(At("-o")) = {}
    BY <1>1, <1>2, <2>1, WordFacts DEF Seen, Outputs
  <2> QED BY <1>1, <1>2, <1>3, <1>7, <2>2 DEF LoopInv, RecordSeen
<1> QED BY <1>7, <1>8, <1>9, <1>10, <1>11, <1>12 DEF LoopInv

\* ParseGroup with a word it accepts keeps what the loop knows.
LEMMA GroupStep ==
  ASSUME ParseInv, phase = "parsing", i <= Len(argv), ParseGroup, i # Len(argv),
         argv[i + 1] \in {"none", "thread"}
  PROVE  LoopInv'
<1>1. OptionsType /\ LoopInv /\ AtWord /\ SatisfiedSeen
  BY DEF ParseInv, LoopInv
<1>2. argv[i] = "--group" /\ command = "print" /\ mPrintGroup' = argv[i + 1] /\ Turn(2)
  BY DEF ParseGroup, Word
<1>3. UNCHANGED <<command, argv, mInput, mOutput, flags>>
  BY DEF ParseGroup, Turn
<1>4. argv[i] \in Taking /\ argv[i] \notin FlagsOf(command) /\ argv[i] \notin BareWords
  BY <1>2, FlagFacts DEF Taking
<1>5. i \notin Dashes /\ i \in OwnWords
  BY <1>1, <1>2, NextWord
<1>6. i \notin Inputs /\ i \notin Outputs /\ i \in Groups /\ \A f \in FlagsOf(command) : i \notin At(f)
  BY <1>2, <1>4, <1>5 DEF Inputs, Outputs, Groups, At
<1>7. /\ AtWord'
      /\ Seen(Inputs)' = Seen(Inputs)
      /\ Seen(Outputs)' = Seen(Outputs) /\ Seen(Groups)' = Seen(Groups) \cup {i}
      /\ Seen(OwnWords)' = Seen(OwnWords) \cup {i}
      /\ \A f \in FlagsOf(command) : Seen(At(f))' = Seen(At(f))
  <2>1. 2 = IF argv[i] \in Taking THEN 2 ELSE 1
    BY <1>4
  <2> QED BY <1>1, <1>2, <1>5, <1>6, <2>1, SeenMore
<1>8. Latest(argv, Seen(Groups), mPrintGroup, 1, "none")'
  <2>1. i \in Nat /\ Seen(Groups) \subseteq Nat /\ \A k \in Seen(Groups) : k < i
    BY <1>1, WordFacts DEF Seen
  <2>2. Latest(argv, Seen(Groups) \cup {i}, argv[i + 1], 1, "none")
    BY <2>1, LatestTaken
  <2> QED BY <1>2, <1>3, <1>7, <2>2
<1>9. Latest(argv, Seen(Inputs), mInput, 0, NoPath)' /\ Latest(argv, Seen(Outputs), mOutput, 1, NoPath)'
  BY <1>1, <1>3, <1>7 DEF LoopInv
<1>10. FlagsSeen'
  BY <1>1, <1>3, <1>7 DEF LoopInv, FlagsSeen
<1>11. SatisfiedSeen'
  <2>1. i < Len(argv)
    BY <1>1, WordFacts
  <2> QED BY <1>1, <1>2, <1>3, <1>7, <2>1, WordsFixed DEF SatisfiedSeen
<1>12. RecordSeen'
  BY <1>2, <1>3 DEF RecordSeen
<1> QED BY <1>7, <1>8, <1>9, <1>10, <1>11, <1>12 DEF LoopInv

\* The loop takes a flag that is not set yet, or passes over a word.
LEMMA FlagStep ==
  ASSUME ParseInv, phase = "parsing", i <= Len(argv),
         ParseFlag \/ (ParseOther /\ command # "record")
  PROVE  LoopInv'
<1>1. OptionsType /\ LoopInv /\ AtWord /\ SatisfiedSeen
  BY DEF ParseInv, LoopInv
<1>2. Turn(1) /\ UNCHANGED <<command, argv, mInput, mOutput, mPrintGroup>>
  BY DEF ParseFlag, ParseOther, Turn
<1>3. /\ argv[i] \notin Taking /\ argv[i] \notin BareWords
      /\ ~(argv[i] = "--" /\ TakesArguments(command))
      /\ ~(argv[i] = "-o" /\ TakesOutput(command))
      /\ ~(argv[i] = "--group" /\ command = "print")
  <2>1. CASE ParseFlag
    BY <2>1, FlagFacts DEF ParseFlag, Word
  <2>2. CASE ParseOther /\ command # "record"
    BY <2>2 DEF ParseOther, Word, InputFree, Taking
  <2> QED BY <2>1, <2>2
<1>4. flags' = flags \cup ({argv[i]} \cap FlagsOf(command))
  <2>1. CASE ParseFlag
    BY <2>1 DEF ParseFlag, Word
  <2>2. CASE ParseOther /\ command # "record"
    BY <2>2 DEF ParseOther, Word
  <2> QED BY <2>1, <2>2
<1>5. i \notin Dashes /\ i \in OwnWords
  BY <1>1, <1>3, NextWord
<1>6. i \notin Inputs /\ i \notin Outputs /\ i \notin Groups /\ \A f : i \in At(f) <=> f = argv[i]
  BY <1>3, <1>5 DEF Inputs, Outputs, Groups, At
<1>7. /\ AtWord'
      /\ Seen(Inputs)' = Seen(Inputs)
      /\ Seen(Outputs)' = Seen(Outputs) /\ Seen(Groups)' = Seen(Groups)
      /\ Seen(OwnWords)' = Seen(OwnWords) \cup {i}
      /\ \A f : Seen(At(f))' = IF f = argv[i] THEN Seen(At(f)) \cup {i} ELSE Seen(At(f))
  <2>1. 1 = IF argv[i] \in Taking THEN 2 ELSE 1
    BY <1>3
  <2> QED BY <1>1, <1>2, <1>5, <1>6, <2>1, SeenMore
<1>8. /\ Latest(argv, Seen(Inputs), mInput, 0, NoPath)' /\ Latest(argv, Seen(Outputs), mOutput, 1, NoPath)'
      /\ Latest(argv, Seen(Groups), mPrintGroup, 1, "none")'
  BY <1>1, <1>2, <1>7 DEF LoopInv
<1>9. FlagsSeen'
  BY <1>1, <1>2, <1>4, <1>7 DEF LoopInv, FlagsSeen
<1>10. SatisfiedSeen'
  BY <1>1, <1>2, <1>3, <1>7, WordsFixed DEF SatisfiedSeen
<1>11. RecordSeen'
  <2> SUFFICES ASSUME command = "record" PROVE RecordSeen'
    BY <1>2 DEF RecordSeen
  <2>1. argv[i] \in FlagsOf(command) \ flags
    BY DEF ParseFlag, Word
  <2>2. Seen(At(argv[i])) = {}
    BY <1>1, <2>1 DEF LoopInv, FlagsSeen
  <2>3. \A f \in {"-o"} \cup FlagsOf(command) : \A k, l \in Seen(At(f))' : k = l
    BY <1>1, <1>7, <2>2 DEF LoopInv, RecordSeen
  <2> QED BY <1>1, <1>2, <1>7, <2>1, <2>3 DEF LoopInv, RecordSeen
<1> QED BY <1>7, <1>8, <1>9, <1>10, <1>11 DEF LoopInv

\* Counting words.
LEMMA Counting ==
  ASSUME OptionsType, NEW S, S \subseteq OwnWords
  PROVE  /\ \A k, l \in S : k # l => ~(Cardinality(S) <= 1)
         /\ (\A k, l \in S : k = l) => Cardinality(S) <= 1
         /\ (\A k, l \in S : k = l) /\ S # {} => Cardinality(S) = 1
         /\ S = {} => Cardinality(S) = 0
<1>1. IsFiniteSet(S)
  <2>1. S \in SUBSET (1 .. Len(argv)) /\ Len(argv) \in Int /\ 1 \in Int
    BY WordFacts
  <2> QED BY <2>1, FS_Interval, FS_Subset
<1>2. Cardinality(S) \in Nat
  BY <1>1, FS_CardinalityType
<1>3. ASSUME NEW k \in S, NEW l \in S, k # l, Cardinality(S) <= 1 PROVE FALSE
  <2>1. Cardinality(S) = 0 \/ Cardinality(S) = 1
    BY <1>2, <1>3
  <2>2. S = {} \/ \E x : S = {x}
    BY <1>1, <2>1, FS_EmptySet, FS_Singleton
  <2> QED BY <1>3, <2>2
<1>4. S = {} => Cardinality(S) = 0
  BY FS_EmptySet
<1>5. ASSUME \A k, l \in S : k = l, S # {} PROVE Cardinality(S) = 1
  <2>1. PICK x : S = {x}
    BY <1>5
  <2> QED BY <2>1, FS_Singleton
<1> QED BY <1>3, <1>4, <1>5

\* What the loops refuse is not acceptable.
LEMMA RefusedRight ==
  ASSUME ParseInv, phase = "parsing", command # "info", i <= Len(argv),
         \/ ParseOutput /\ i = Len(argv)
         \/ ParseGroup /\ i # Len(argv) /\ argv[i + 1] \notin {"none", "thread"}
         \/ ParseOther /\ command = "record"
  PROVE  ~Acceptable
<1>1. OptionsType /\ LoopInv /\ AtWord /\ SatisfiedSeen
  BY DEF ParseInv, LoopInv
<1>2. i \in Nat /\ Len(argv) \in Nat
  BY <1>1, WordFacts
<1>3. /\ Inputs \subseteq OwnWords /\ Outputs \subseteq OwnWords
      /\ \A word : At(word) \subseteq OwnWords
  BY <1>1, WordFacts
<1>4. \A S : i \notin Seen(S)
  BY <1>2 DEF Seen
<1>5. ASSUME ~Satisfied, command \in Commands PROVE ~Acceptable
  BY <1>5 DEF Acceptable, Commands
<1>6. command \in Commands
  BY DEF ParseInv
<1>7. CASE ParseOutput /\ i = Len(argv)
  <2>1. argv[i] = "-o" /\ argv[i] \in Taking
    BY <1>7 DEF ParseOutput, Word, Taking
  <2>2. i \in OwnWords
    BY <1>1, <2>1, NextWord
  <2>3. ~(i < Len(argv))
    BY <1>2, <1>7
  <2>4. ~Satisfied
    BY <2>1, <2>2, <2>3 DEF Satisfied
  <2> QED BY <1>5, <1>6, <2>4
<1>8. CASE ParseGroup /\ i # Len(argv) /\ argv[i + 1] \notin {"none", "thread"}
  <2>1. argv[i] = "--group" /\ argv[i] \in Taking
    BY <1>8 DEF ParseGroup, Word, Taking
  <2>2. i \in OwnWords
    BY <1>1, <2>1, NextWord
  <2>3. ~Satisfied
    BY <1>8, <2>1, <2>2 DEF Satisfied
  <2> QED BY <1>5, <1>6, <2>3
<1>9. CASE ParseOther /\ command = "record"
  <2>1. /\ ~(argv[i] \in BareWords /\ mInput = NoPath)
        /\ argv[i] # "--"
        /\ ~(argv[i] = "-o" /\ mOutput = NoPath)
        /\ argv[i] \notin FlagsOf(command) \ flags
    BY <1>9 DEF ParseOther, Word, InputFree, TakesArguments, TakesOutput
  <2>2. i \in OwnWords
    BY <1>1, <2>1, NextWord
  <2>3. CASE argv[i] \in BareWords
    <3>1. PICK k \in Seen(Inputs) : TRUE
      BY <1>1, <2>1, <2>3, LatestDefault
    <3>2. k \in Inputs /\ i \in Inputs /\ k # i
      BY <1>4, <2>2, <2>3, <3>1 DEF Seen, Inputs
    <3>3. ~(Cardinality(Inputs) <= 1)
      BY <1>1, <1>3, <3>2, Counting
    <3>4. Cardinality(Inputs) # 1
      BY <3>3
    <3> QED BY <1>9, <3>4 DEF Acceptable
  <2>4. CASE argv[i] = "-o"
    <3>1. PICK k \in Seen(Outputs) : TRUE
      BY <1>1, <2>1, <2>4, LatestDefault
    <3>2. k \in At("-o") /\ i \in At("-o") /\ k # i
      BY <1>4, <2>2, <2>4, <3>1 DEF Seen, Outputs, At
    <3>3. ~(Cardinality(At("-o")) <= 1)
      BY <1>1, <1>3, <3>2, Counting
    <3>4. Cardinality(At("-o")) # 1
      BY <3>3
    <3> QED BY <1>9, <3>4 DEF Acceptable
  <2>5. CASE argv[i] \in FlagsOf(command)
    <3>1. PICK k \in Seen(At(argv[i])) : TRUE
      BY <1>1, <2>1, <2>5 DEF LoopInv, FlagsSeen
    <3>2. k \in At(argv[i]) /\ i \in At(argv[i]) /\ k # i
      BY <1>4, <2>2, <3>1 DEF Seen, At
    <3>3. ~(Cardinality(At(argv[i])) <= 1)
      BY <1>1, <1>3, <3>2, Counting
    <3> QED BY <1>9, <2>5, <3>3 DEF Acceptable
  <2>6. CASE argv[i] \notin BareWords \cup {"-o"} \cup FlagsOf(command)
    BY <1>9, <2>2, <2>6 DEF Acceptable
  <2> QED BY <2>3, <2>4, <2>5, <2>6
<1> QED BY <1>7, <1>8, <1>9

\* The last of some words, and the first.
LEMMA LastAndFirst ==
  ASSUME NEW S, S \subseteq Nat, NEW k \in S
  PROVE  /\ (\A l \in S : l <= k) => LastOf(S) = k
         /\ (\A l \in S : k <= l) => (CHOOSE d \in S : \A e \in S : d <= e) = k
<1>1. ASSUME \A l \in S : l <= k PROVE \A j \in S : (\A l \in S : l <= j) => j = k
  BY <1>1
<1>2. ASSUME \A l \in S : k <= l PROVE \A j \in S : (\A l \in S : j <= l) => j = k
  BY <1>2
<1> QED BY <1>1, <1>2 DEF LastOf

\* At the end of the loop everything was seen.
LEMMA SeenAll ==
  ASSUME OptionsType, i > Len(argv)
  PROVE  /\ i = Len(argv) + 1
         /\ Seen(Inputs) = Inputs /\ Seen(Outputs) = Outputs /\ Seen(Groups) = Groups
         /\ Seen(OwnWords) = OwnWords
         /\ \A word : Seen(At(word)) = At(word)
<1>1. /\ Len(argv) \in Nat /\ i \in Nat
      /\ OwnWords \subseteq 1 .. Len(argv)
      /\ Inputs \subseteq OwnWords /\ Outputs \subseteq OwnWords /\ Groups \subseteq OwnWords
      /\ \A word : At(word) \subseteq OwnWords
  BY WordFacts
<1>2. i = Len(argv) + 1
  BY <1>1 DEF OptionsType
<1>3. \A k \in OwnWords : k < i
  BY <1>1, <1>2
<1> QED BY <1>1, <1>2, <1>3 DEF Seen

\* Then the values are those of all words.
Understood ==
  /\ mInput = IF Inputs = {} THEN NoPath ELSE argv[LastOf(Inputs)]
  /\ mOutput = Argument(Outputs, NoPath)
  /\ mPrintGroup = Argument(Groups, "none")
  /\ flags = {f \in FlagsOf(command) : At(f) # {}}
  /\ mArguments = IF Dashes = {} THEN <<>>
                  ELSE SubSeq(argv, 1 + CHOOSE d \in Dashes : \A e \in Dashes : d <= e, Len(argv))

\* Behind the last word, what the loop knows is what the line means.
LEMMA UnderstoodRight ==
  ASSUME OptionsType, LoopInv, i > Len(argv)
  PROVE  Understood
<1>1. /\ i = Len(argv) + 1
      /\ Seen(Inputs) = Inputs /\ Seen(Outputs) = Outputs /\ Seen(Groups) = Groups
      /\ \A word : Seen(At(word)) = At(word)
  BY SeenAll
<1>2. /\ Len(argv) \in Nat /\ OwnWords \subseteq 1 .. Len(argv) /\ Dashes \subseteq 1 .. Len(argv)
      /\ Inputs \subseteq OwnWords /\ Outputs \subseteq OwnWords /\ Groups \subseteq OwnWords
  BY WordFacts
<1>3. mInput = IF Inputs = {} THEN NoPath ELSE argv[LastOf(Inputs)]
  <2>1. Latest(argv, Inputs, mInput, 0, NoPath)
    BY <1>1 DEF LoopInv
  <2>2. CASE Inputs = {}
    BY <2>1, <2>2 DEF Latest
  <2>3. CASE Inputs # {}
    <3>1. PICK k \in Inputs : mInput = argv[k + 0] /\ \A l \in Inputs : l <= k
      BY <2>1, <2>3 DEF Latest
    <3>2. Inputs \subseteq Nat /\ k + 0 = k
      BY <1>2
    <3>3. LastOf(Inputs) = k
      BY <3>1, <3>2, LastAndFirst
    <3> QED BY <2>3, <3>1, <3>2, <3>3
  <2> QED BY <2>2, <2>3
<1>4. mOutput = Argument(Outputs, NoPath)
  <2>1. Latest(argv, Outputs, mOutput, 1, NoPath)
    BY <1>1 DEF LoopInv
  <2>2. CASE Outputs = {}
    BY <2>1, <2>2 DEF Latest, Argument
  <2>3. CASE Outputs # {}
    <3>1. PICK k \in Outputs : mOutput = argv[k + 1] /\ \A l \in Outputs : l <= k
      BY <2>1, <2>3 DEF Latest
    <3>2. Outputs \subseteq Nat
      BY <1>2
    <3>3. LastOf(Outputs) = k
      BY <3>1, <3>2, LastAndFirst
    <3> QED BY <2>3, <3>1, <3>3 DEF Argument
  <2> QED BY <2>2, <2>3
<1>5. mPrintGroup = Argument(Groups, "none")
  <2>1. Latest(argv, Groups, mPrintGroup, 1, "none")
    BY <1>1 DEF LoopInv
  <2>2. CASE Groups = {}
    BY <2>1, <2>2 DEF Latest, Argument
  <2>3. CASE Groups # {}
    <3>1. PICK k \in Groups : mPrintGroup = argv[k + 1] /\ \A l \in Groups : l <= k
      BY <2>1, <2>3 DEF Latest
    <3>2. Groups \subseteq Nat
      BY <1>2
    <3>3. LastOf(Groups) = k
      BY <3>1, <3>2, LastAndFirst
    <3> QED BY <2>3, <3>1, <3>3 DEF Argument
  <2> QED BY <2>2, <2>3
<1>6. flags = {f \in FlagsOf(command) : At(f) # {}}
  BY <1>1 DEF LoopInv, FlagsSeen
<1>7. mArguments = IF Dashes = {} THEN <<>>
                   ELSE SubSeq(argv, 1 + CHOOSE d \in Dashes : \A e \in Dashes : d <= e, Len(argv))
  <2>1. CASE (\A d \in Dashes : i <= d) /\ mArguments = <<>>
    <3>1. Dashes = {}
      BY <1>1, <1>2, <2>1
    <3> QED BY <2>1, <3>1
  <2>2. CASE \E d \in Dashes : (\A e \in Dashes : d <= e) /\ mArguments = SubSeq(argv, 1 + d, Len(argv))
    <3>1. PICK d \in Dashes : (\A e \in Dashes : d <= e) /\ mArguments = SubSeq(argv, 1 + d, Len(argv))
      BY <2>2
    <3>2. Dashes \subseteq Nat
      BY <1>2
    <3> DEFINE first == CHOOSE j \in Dashes : \A e \in Dashes : j <= e
    <3>3. first = d /\ Dashes # {}
      BY <3>1, <3>2, LastAndFirst
    <3> HIDE DEF first
    <3>4. mArguments = IF Dashes = {} THEN <<>> ELSE SubSeq(argv, 1 + first, Len(argv))
      BY <3>1, <3>3
    <3> QED BY <3>4 DEF first
  <2> QED BY <2>1, <2>2 DEF LoopInv, AtWord
<1> QED BY <1>3, <1>4, <1>5, <1>6, <1>7 DEF Understood

\* The checks behind the loop accept what is acceptable.
LEMMA CompleteRight ==
  ASSUME OptionsType, command \in Commands, LoopInv, i > Len(argv) \/ command = "info"
  PROVE  Complete <=> Acceptable
<1>1. CASE command = "info"
  BY <1>1 DEF Complete, Acceptable
<1>2. CASE command # "info"
  <2>1. /\ Seen(Inputs) = Inputs /\ Seen(Outputs) = Outputs /\ Seen(OwnWords) = OwnWords
        /\ \A word : Seen(At(word)) = At(word)
    BY <1>2, SeenAll
  <2>2. Satisfied
    BY <2>1 DEF LoopInv, SatisfiedSeen, Satisfied
  <2>3. (mInput = NoPath <=> Inputs = {}) /\ (mOutput = NoPath <=> Outputs = {})
    BY <2>1, LatestDefault DEF LoopInv
  <2>4. CASE command = "record"
    <3>1. /\ \A k, l \in Inputs : k = l
          /\ \A word \in {"-o"} \cup FlagsOf(command) : \A k, l \in At(word) : k = l
          /\ \A k \in OwnWords : argv[k] \in BareWords \cup {"-o"} \cup FlagsOf(command)
      BY <2>1, <2>4 DEF LoopInv, RecordSeen
    <3>2. Inputs \subseteq OwnWords /\ \A word : At(word) \subseteq OwnWords
      BY WordFacts
    <3>3. Outputs = At("-o")
      BY <2>4, <3>2 DEF Outputs, TakesOutput
    <3>4. Cardinality(Inputs) = 1 <=> Inputs # {}
      BY <3>1, <3>2, Counting
    <3>5. Cardinality(At("-o")) = 1 <=> At("-o") # {}
      BY <3>1, <3>2, Counting
    <3>6. \A f \in FlagsOf(command) : Cardinality(At(f)) <= 1
      BY <3>1, <3>2, Counting
    <3> QED BY <2>2, <2>3, <2>4, <3>1, <3>3, <3>4, <3>5, <3>6 DEF Complete, Acceptable
  <2>5. CASE command \in {"replay", "print"}
    BY <2>2, <2>3, <2>5 DEF Complete, Acceptable
  <2>6. CASE command \notin {"record", "replay", "print"}
    BY <1>2, <2>2, <2>6 DEF Complete, Acceptable
  <2> QED BY <2>4, <2>5, <2>6
<1> QED BY <1>1, <1>2

\* Each turn and the end keep the invariant.
LEMMA ParseStep ==
  ASSUME ParseInv, ParseWord \/ ParseEnd
  PROVE  ParseInv'
<1>1. phase = "parsing" /\ OptionsType /\ LoopInv /\ command \in Commands
  BY DEF ParseInv, ParseWord, ParseEnd
<1>2. UNCHANGED <<command, argv>>
  BY DEF ParseWord, ParseEnd, ParseInput, ParseDashes, ParseOutput, ParseGroup, ParseFlag, ParseOther,
         Fail, Turn
<1>3. Len(argv) \in Nat /\ i \in Nat \ {0} /\ i \in 1 .. Len(argv) + 1
  BY <1>1, WordFacts DEF OptionsType
<1>4. ASSUME phase' = "failed", ~Acceptable, i' = i PROVE ParseInv'
  <2>1. ~Acceptable'
    BY <1>2, <1>4, WordsFixed DEF Acceptable, Satisfied
  <2> QED BY <1>1, <1>2, <1>4, <2>1 DEF ParseInv, ParsedRight, OptionsType
<1>5. ASSUME phase' = "parsing", LoopInv', i' \in 1 .. Len(argv) + 1 PROVE ParseInv'
  BY <1>1, <1>2, <1>5 DEF ParseInv, ParsedRight, OptionsType
<1>6. CASE ParseWord
  <2>0. i <= Len(argv) /\ command # "info"
    BY <1>6 DEF ParseWord
  <2>00. i + 1 \in 1 .. Len(argv) + 1 /\ (i # Len(argv) => i + 2 \in 1 .. Len(argv) + 1) /\ Len(argv) + 1 \in 1 .. Len(argv) + 1
    BY <1>3, <2>0
  <2>1. CASE ParseInput
    <3>1. LoopInv'
      BY <1>1, <2>0, <2>1, InputStep
    <3> QED BY <1>1, <1>5, <2>00, <2>1, <3>1 DEF ParseInput, Turn
  <2>2. CASE ParseDashes
    <3>1. LoopInv'
      BY <1>1, <2>0, <2>2, DashesStep
    <3> QED BY <1>1, <1>5, <2>00, <2>2, <3>1 DEF ParseDashes
  <2>3. CASE ParseOutput /\ i # Len(argv)
    <3>1. LoopInv'
      BY <1>1, <2>0, <2>3, OutputStep
    <3> QED BY <1>1, <1>5, <2>00, <2>3, <3>1 DEF ParseOutput, Turn
  <2>4. CASE ParseOutput /\ i = Len(argv)
    <3>1. ~Acceptable
      BY <1>1, <2>0, <2>4, RefusedRight
    <3> QED BY <1>4, <2>4, <3>1 DEF ParseOutput, Fail
  <2>5. CASE ParseGroup /\ i = Len(argv)
    <3>1. phase' = "undefined" /\ i' = i
      BY <2>5 DEF ParseGroup
    <3> QED BY <1>1, <1>2, <3>1 DEF ParseInv, ParsedRight, OptionsType
  <2>6. CASE ParseGroup /\ i # Len(argv) /\ argv[i + 1] \in {"none", "thread"}
    <3>1. LoopInv'
      BY <1>1, <2>0, <2>6, GroupStep
    <3> QED BY <1>1, <1>5, <2>00, <2>6, <3>1 DEF ParseGroup, Turn
  <2>7. CASE ParseGroup /\ i # Len(argv) /\ argv[i + 1] \notin {"none", "thread"}
    <3>1. ~Acceptable
      BY <1>1, <2>0, <2>7, RefusedRight
    <3> QED BY <1>4, <2>7, <3>1 DEF ParseGroup, Fail
  <2>8. CASE ParseFlag \/ (ParseOther /\ command # "record")
    <3>1. LoopInv'
      BY <1>1, <2>0, <2>8, FlagStep
    <3> QED BY <1>1, <1>5, <2>00, <2>8, <3>1 DEF ParseFlag, ParseOther, Turn
  <2>9. CASE ParseOther /\ command = "record"
    <3>1. ~Acceptable
      BY <1>1, <2>0, <2>9, RefusedRight
    <3> QED BY <1>4, <2>9, <3>1 DEF ParseOther, Fail
  <2>10. CASE ParseOutput
    BY <2>3, <2>4, <2>10
  <2>11. CASE ParseGroup
    BY <2>5, <2>6, <2>7, <2>11
  <2>12. CASE ParseFlag \/ ParseOther
    <3>1. CASE command = "record" /\ ParseOther
      BY <2>9, <3>1
    <3>2. CASE ParseFlag \/ (ParseOther /\ command # "record")
      BY <2>8, <3>2
    <3> QED BY <2>12, <3>1, <3>2
  <2> QED BY <1>6, <2>1, <2>2, <2>10, <2>11, <2>12 DEF ParseWord
<1>7. CASE ParseEnd
  <2>1. i > Len(argv) \/ command = "info"
    BY <1>7 DEF ParseEnd
  <2>2. Complete <=> Acceptable
    BY <1>1, <2>1, CompleteRight
  <2>3. CASE ~Complete
    BY <1>4, <1>7, <2>2, <2>3 DEF ParseEnd
  <2>4. CASE Complete
    <3>1. phase' = "parsed" /\ UNCHANGED <<i, mInput, mOutput, mArguments, mPrintGroup, flags>>
      BY <1>7, <2>4 DEF ParseEnd
    <3>2. Acceptable'
      BY <1>2, <2>2, <2>4, WordsFixed DEF Acceptable, Satisfied
    <3>3. command # "info" => Understood'
      <4> SUFFICES ASSUME command # "info" PROVE Understood'
        OBVIOUS
      <4>1. Understood
        BY <1>1, <2>1, UnderstoodRight
      <4> QED BY <1>2, <3>1, <4>1, WordsFixed DEF Understood, Argument, LastOf
    <3> QED BY <1>1, <1>2, <3>1, <3>2, <3>3 DEF ParseInv, ParsedRight, OptionsType, Understood, Outputs, Groups
  <2> QED BY <2>3, <2>4
<1> QED BY <1>6, <1>7

\* The words a command line begins with are none.
LEMMA ParseStart ==
  ASSUME OptionsInit
  PROVE  ParseInv
<1>1. argv \in Seq(Words) /\ i = 1
  BY WordsAssumption DEF OptionsInit, WordsAssumption
<1>2. PICK S : S = Words
  OBVIOUS
<1>3. Len(argv) \in Nat
  BY <1>1, <1>2
<1>4. OptionsType
  BY <1>1, <1>3 DEF OptionsType
<1>5. /\ Dashes \subseteq 1 .. Len(argv) /\ OwnWords \subseteq 1 .. Len(argv)
      /\ Inputs \subseteq OwnWords /\ Outputs \subseteq OwnWords /\ Groups \subseteq OwnWords
      /\ \A word : At(word) \subseteq OwnWords
  BY <1>4, WordFacts
<1>6. \A k \in 1 .. Len(argv) : ~(k < i) /\ i <= k
  BY <1>1, <1>3
<1>7. /\ Seen(Inputs) = {} /\ Seen(Outputs) = {} /\ Seen(Groups) = {} /\ Seen(OwnWords) = {}
      /\ \A word : Seen(At(word)) = {}
  BY <1>5, <1>6 DEF Seen
<1>8. AtWord
  BY <1>1, <1>5, <1>6, NoArgument DEF AtWord, OptionsInit
<1>9. LoopInv
  BY <1>7, <1>8 DEF LoopInv, Latest, FlagsSeen, SatisfiedSeen, RecordSeen, OptionsInit
<1> QED BY <1>4, <1>9 DEF ParseInv, ParsedRight, OptionsInit

\* While print is at work the words are as they were.
LEMMA ParseKept ==
  ASSUME ParseInv, UNCHANGED optionVars
  PROVE  ParseInv'
<1>1. /\ UNCHANGED <<command, argv, i, mInput, mOutput, mArguments, mPrintGroup, flags, phase>>
  BY DEF optionVars
<1>2. LoopInv => LoopInv'
  <2>1. AtWord => AtWord'
    <3>1. ~IsArgument(i) => ~IsArgument(i)'
      BY <1>1 DEF IsArgument, Taking, TakesOutput
    <3> QED BY <1>1, <3>1, WordsFixed DEF AtWord
  <2>2. /\ Seen(Inputs)' = Seen(Inputs) /\ Seen(Outputs)' = Seen(Outputs)
        /\ Seen(Groups)' = Seen(Groups) /\ Seen(OwnWords)' = Seen(OwnWords)
        /\ \A word : Seen(At(word))' = Seen(At(word))
    BY <1>1, WordsFixed DEF Seen
  <2> QED BY <1>1, <2>1, <2>2, WordsFixed DEF LoopInv, FlagsSeen, SatisfiedSeen, RecordSeen
<1>3. ParsedRight => ParsedRight'
  <2>1. Acceptable' <=> Acceptable
    BY <1>1, WordsFixed DEF Acceptable, Satisfied
  <2>2. Understood => Understood'
    BY <1>1, WordsFixed DEF Understood, Argument, LastOf
  <2> QED BY <1>1, <2>1, <2>2 DEF ParsedRight, Understood, Outputs, Groups
<1> QED BY <1>1, <1>2, <1>3 DEF ParseInv, OptionsType

\* The invariant of the loops, one step at a time.
LEMMA ParseInvariance == Spec => []ParseInv
<1>1. Init => ParseInv
  BY ParseStart DEF Init
<1>2. ParseInv /\ [Next]_vars => ParseInv'
  <2> SUFFICES ASSUME ParseInv, [Next]_vars PROVE ParseInv'
    OBVIOUS
  <2>1. CASE Parse
    BY <2>1, ParseStep DEF Parse
  <2>2. CASE UNCHANGED optionVars
    BY <2>2, ParseKept
  <2> QED BY <2>1, <2>2 DEF Next, vars, PrintImages, OpenTrace, ReadRecord, ReadEnd, ReadBadSize,
                            SortRecords, PrintRecord, PrintEnd
<1> QED BY <1>1, <1>2, PTL DEF Spec

\* A command line of any length is accepted exactly when it should be, and
\* understood: parseRecordOptions and the other loops decide word by word what
\* Acceptable and the sets of words say of the whole line.
THEOREM CommandLineUnderstood == Spec => []ParsedRight
<1>1. ParseInv => ParsedRight
  BY DEF ParseInv
<1> QED BY <1>1, ParseInvariance, PTL

(***************************************************************************)
(* The calls a recording left, and their summaries.                        *)
(***************************************************************************)

\* What a recording left in the directory.
TraceRecord == [fn : Functions, start : Nat, end : Nat]
DirectoryType ==
  \A t \in Threads :
    /\ Left(t) \in Seq(TraceRecord)
    /\ Len(Left(t)) <= MaxRecords
    /\ \A k \in DOMAIN Left(t) : /\ Left(t)[k].start <= Left(t)[k].end
                                 /\ Left(t)[k].end - Left(t)[k].start <= MaxDuration

\* Every record of a file is a call, which took some time.
LEMMA CallFacts ==
  ASSUME DirectoryType
  PROVE  /\ \A t \in Threads : \A k \in 1 .. Len(Left(t)) : <<t, k>> \in Calls
         /\ \A c \in Calls : /\ c = <<c[1], c[2]>> /\ c[1] \in Threads
                             /\ c[2] \in 1 .. Len(Left(c[1]))
                             /\ Made(c) \in TraceRecord
                             /\ Duration[c] \in 0 .. MaxDuration
                             /\ Duration[c] = Made(c).end - Made(c).start
<1>1. MaxRecords \in Nat /\ MaxDuration \in Nat
  BY DirectoriesAssumption DEF DirectoriesAssumption
<1>2. ASSUME NEW t \in Threads
      PROVE  DOMAIN Left(t) = 1 .. Len(Left(t)) /\ Len(Left(t)) \in Nat /\ Len(Left(t)) <= MaxRecords
  BY DEF DirectoryType
<1>3. ASSUME NEW t \in Threads, NEW k \in 1 .. Len(Left(t)) PROVE <<t, k>> \in Calls
  <2>1. k \in 1 .. MaxRecords /\ k \in DOMAIN Left(t)
    BY <1>1, <1>2, <1>3
  <2> QED BY <2>1 DEF Calls
<1>4. ASSUME NEW c \in Calls
      PROVE  /\ c = <<c[1], c[2]>> /\ c[1] \in Threads
             /\ c[2] \in 1 .. Len(Left(c[1]))
             /\ Made(c) \in TraceRecord
             /\ Duration[c] \in 0 .. MaxDuration
             /\ Duration[c] = Made(c).end - Made(c).start
  <2>1. c \in Threads \X (1 .. MaxRecords) /\ c[2] \in DOMAIN Left(c[1])
    BY DEF Calls
  <2>2. c = <<c[1], c[2]>> /\ c[1] \in Threads
    BY <2>1
  <2>3. c[2] \in 1 .. Len(Left(c[1]))
    BY <1>2, <2>1, <2>2
  <2>4. Made(c) \in TraceRecord
    <3>1. PICK R : R = TraceRecord
      OBVIOUS
    <3>2. Left(c[1]) \in Seq(R)
      BY <2>2, <3>1 DEF DirectoryType
    <3> QED BY <2>3, <3>1, <3>2 DEF Made
  <2>5. Made(c).start \in Nat /\ Made(c).end \in Nat
    BY <2>4 DEF TraceRecord
  <2>6. Made(c).start <= Made(c).end /\ Made(c).end - Made(c).start <= MaxDuration
    BY <2>1, <2>2 DEF Made, DirectoryType
  <2>7. Duration[c] = Made(c).end - Made(c).start
    BY DEF Duration
  <2>8. Duration[c] \in 0 .. MaxDuration
    BY <1>1, <2>5, <2>6, <2>7
  <2> QED BY <2>2, <2>3, <2>4, <2>7, <2>8
<1> QED BY <1>3, <1>4

\* The summary of a function's calls with one more.
LEMMA SummaryWith ==
  ASSUME DirectoryType, NEW S, S \subseteq Calls, IsFiniteSet(S), NEW c \in Calls \ S
  PROVE  Summary(S \cup {c}) =
           [calls |-> (IF S = {} THEN 0 ELSE Summary(S).calls) + 1,
            max   |-> Max({IF S = {} THEN 0 ELSE Summary(S).max, Duration[c]}),
            min   |-> Min({IF S = {} THEN MaxDuration ELSE Summary(S).min, Duration[c]}),
            total |-> (IF S = {} THEN 0 ELSE Summary(S).total) + Duration[c]]
<1>1. MaxDuration \in Nat
  BY DirectoriesAssumption DEF DirectoriesAssumption
<1>2. \A e \in Calls : Duration[e] \in 0 .. MaxDuration
  BY CallFacts
<1>3. Cardinality(S \cup {c}) = Cardinality(S) + 1 /\ (S = {} => Cardinality(S) = 0)
  BY FS_AddElement, FS_EmptySet
<1>4. IsFiniteSet(S \cup {c}) /\ (S \cup {c}) \ {c} = S
  BY FS_AddElement
<1>5. SumFunctionOnSet(Duration, S \cup {c}) = Duration[c] + SumFunctionOnSet(Duration, S)
  <2>1. PICK f : f = Duration
    OBVIOUS
  <2>2. c \in S \cup {c} /\ \A e \in S \cup {c} : f[e] \in Nat
    BY <1>2, <2>1
  <2>3. SumFunctionOnSet(f, S \cup {c}) = f[c] + SumFunctionOnSet(f, (S \cup {c}) \ {c})
    BY <1>4, <2>2, SumWith
  <2> QED BY <1>4, <2>1, <2>3
<1>6. SumFunctionOnSet(Duration, S) \in Nat /\ (S = {} => SumFunctionOnSet(Duration, S) = 0)
  <2>1. PICK f : f = Duration
    OBVIOUS
  <2>2. \A e \in S : f[e] \in Nat
    BY <1>2, <2>1
  <2> QED BY <2>1, <2>2, SumNat, SumTurn
<1>7. SumFunctionOnSet(Duration, S \cup {c}) =
        (IF S = {} THEN 0 ELSE SumFunctionOnSet(Duration, S)) + Duration[c]
  BY <1>2, <1>5, <1>6
<1> DEFINE D == {Duration[e] : e \in S}
<1>8. /\ {Duration[e] : e \in S \cup {c}} = D \cup {Duration[c]}
      /\ D \subseteq 0 .. MaxDuration /\ (D = {} <=> S = {})
  BY <1>2
<1>9. /\ Max({IF S = {} THEN 0 ELSE Max(D), Duration[c]}) = Max(D \cup {Duration[c]})
      /\ Min({IF S = {} THEN MaxDuration ELSE Min(D), Duration[c]}) = Min(D \cup {Duration[c]})
  <2>1. PICK d : d = Duration[c]
    OBVIOUS
  <2>2. d \in 0 .. MaxDuration
    BY <1>2, <2>1
  <2>3. PICK E : E = D
    OBVIOUS
  <2>4. E \subseteq 0 .. MaxDuration
    BY <1>8, <2>3
  <2>5. /\ Max({IF E = {} THEN 0 ELSE Max(E), d}) = Max(E \cup {d})
        /\ Min({IF E = {} THEN MaxDuration ELSE Min(E), d}) = Min(E \cup {d})
    BY <1>1, <2>2, <2>4, MaxWith
  <2> HIDE DEF D
  <2>6. CASE S = {}
    BY <1>8, <2>1, <2>3, <2>5, <2>6
  <2>7. CASE S # {}
    BY <1>8, <2>1, <2>3, <2>5, <2>7
  <2> QED BY <2>6, <2>7
<1>10. Summary(S).calls = Cardinality(S) /\ Summary(S).max = Max(D) /\ Summary(S).min = Min(D)
       /\ Summary(S).total = SumFunctionOnSet(Duration, S)
  BY DEF Summary
<1>11. Summary(S \cup {c}) = [calls |-> Cardinality(S \cup {c}), max |-> Max(D \cup {Duration[c]}),
         min |-> Min(D \cup {Duration[c]}), total |-> SumFunctionOnSet(Duration, S \cup {c})]
  BY <1>8 DEF Summary
<1>12. Cardinality(S \cup {c}) = (IF S = {} THEN 0 ELSE Cardinality(S)) + 1
  BY <1>3
<1> HIDE DEF D
<1>13. CASE S = {}
  BY <1>7, <1>9, <1>10, <1>11, <1>12, <1>13
<1>14. CASE S # {}
  BY <1>7, <1>9, <1>10, <1>11, <1>12, <1>14
<1> QED BY <1>13, <1>14

\* collectPerf keeps the summaries those of the calls printed.
LEMMA CollectedRight ==
  ASSUME DirectoryType, NEW S, S \subseteq Calls, IsFiniteSet(S), NEW c \in Calls \ S,
         perfMap = Summaries(S)
  PROVE  Collected(Made(c)) = Summaries(S \cup {c})
<1> DEFINE fn == Made(c).fn
           U == Called(S, fn)
           D == {g \in Functions : Called(S, g) # {}}
           ps == IF fn \in DOMAIN perfMap THEN perfMap[fn] ELSE EmptySummary
           d == Made(c).end - Made(c).start
           new == [calls |-> ps.calls + 1, max |-> Max({ps.max, d}),
                   min |-> Min({ps.min, d}), total |-> ps.total + d]
<1>1. fn \in Functions /\ Duration[c] = d
  BY CallFacts DEF TraceRecord
<1>2. U \subseteq Calls /\ IsFiniteSet(U) /\ c \in Calls \ U
  BY FS_Subset DEF Called
<1>3. \A f : f # fn => Called(S \cup {c}, f) = Called(S, f)
  BY DEF Called
<1>4. Called(S \cup {c}, fn) = U \cup {c}
  BY DEF Called
<1>5. DOMAIN perfMap = D /\ \A f \in D : perfMap[f] = Summary(Called(S, f))
  BY DEF Summaries
<1>6. {g \in Functions : Called(S \cup {c}, g) # {}} = D \cup {fn}
  BY <1>1, <1>3, <1>4
<1>7. Summary(U \cup {c}) = new
  <2>1. ps = IF U = {} THEN EmptySummary ELSE Summary(U)
    BY <1>1, <1>5
  <2>2. PICK V : V = U
    OBVIOUS
  <2>3. Summary(V \cup {c}) =
          [calls |-> (IF V = {} THEN 0 ELSE Summary(V).calls) + 1,
           max   |-> Max({IF V = {} THEN 0 ELSE Summary(V).max, Duration[c]}),
           min   |-> Min({IF V = {} THEN MaxDuration ELSE Summary(V).min, Duration[c]}),
           total |-> (IF V = {} THEN 0 ELSE Summary(V).total) + Duration[c]]
    BY <1>2, <2>2, SummaryWith
  <2>4. EmptySummary.calls = 0 /\ EmptySummary.max = 0 /\ EmptySummary.min = MaxDuration
        /\ EmptySummary.total = 0
    BY DEF EmptySummary
  <2> HIDE DEF ps, d, U
  <2>5. CASE V = {}
    BY <1>1, <2>1, <2>2, <2>3, <2>4, <2>5
  <2>6. CASE V # {}
    BY <1>1, <2>1, <2>2, <2>3, <2>6
  <2> QED BY <2>5, <2>6
<1>8. Collected(Made(c)) = [f \in D \cup {fn} |-> IF f = fn THEN new ELSE perfMap[f]]
  BY <1>5 DEF Collected
<1>9. \A f \in D \cup {fn} : (IF f = fn THEN new ELSE perfMap[f]) = Summary(Called(S \cup {c}, f))
  <2> HIDE DEF new, fn, U, D
  <2> QED BY <1>3, <1>4, <1>5, <1>7
<1>10. Summaries(S \cup {c}) = [f \in D \cup {fn} |-> Summary(Called(S \cup {c}, f))]
  BY <1>6 DEF Summaries
<1> HIDE DEF new, fn, U, D
<1> QED BY <1>8, <1>9, <1>10

(***************************************************************************)
(* What print knows while it reads and while it prints.                    *)
(***************************************************************************)

Printable == Threads \X TraceRecord

PrintType ==
  /\ DirectoryType
  /\ pos \in Nat \ {0}
  /\ records \in Seq(Printable)
  /\ output \in Seq(Printable)

\* The calls read so far.
Read == {c \in Calls : c[1] \notin unread /\ (file = {c[1]} => c[2] < pos)}

\* The vector has them, each thread's together; those of the file being read
\* are its last.
ReadAs(b) ==
  /\ Lists(records, b)
  /\ Together(records, b)
  /\ \A k \in DOMAIN records : file = {b[k][1]} => k = Len(records) - pos + 1 + b[k][2]

Reading ==
  /\ output = <<>> /\ perfMap = <<>> /\ summaries = <<>>
  /\ file # {} => \E t \in Threads : t \notin unread /\ file = {t}
  /\ \E b \in Bijection(DOMAIN records, Read) : ReadAs(b)

\* The vector has every call, the output its beginning, and the summaries are
\* of the calls in the output.
ToPrint(b) ==
  /\ Lists(records, b)
  /\ Grouped => Together(records, b)
  /\ perfMap = Summaries({b[k] : k \in 1 .. pos - 1})

Printing ==
  /\ Len(output) = pos - 1 /\ pos <= Len(records) + 1
  /\ \A k \in 1 .. pos - 1 : output[k] = records[k]
  /\ summaries = <<>>
  /\ ~Grouped => InOrder(records)
  /\ \E b \in Bijection(DOMAIN records, Calls) : ToPrint(b)

Started ==
  /\ unread = Threads /\ file = {} /\ records = <<>>
  /\ perfMap = <<>> /\ output = <<>> /\ summaries = <<>>

\* The inductive invariant of print.
PrintInv ==
  /\ PrintType
  /\ step # "start" => phase = "parsed"
  /\ step = "start" => Started
  /\ step = "files" => Reading
  /\ step = "print" => Printing
  /\ PrintedRight

\* What depends on the directory alone.
LEMMA DirectoryFixed ==
  ASSUME UNCHANGED directory
  PROVE  /\ Calls' = Calls
         /\ \A c : Made(c)' = Made(c)
         /\ \A t : Left(t)' = Left(t)
         /\ \A S : Summaries(S)' = Summaries(S)
         /\ DirectoryType => DirectoryType'
<1>1. Calls' = Calls /\ (\A c : Made(c)' = Made(c)) /\ (\A t : Left(t)' = Left(t))
  BY DEF Calls, Made, Left
<1>2. Duration' = Duration
  BY <1>1 DEF Duration
<1>3. \A S : Summary(S)' = Summary(S)
  BY <1>2 DEF Summary
<1>4. \A S, f : Called(S, f)' = Called(S, f)
  BY <1>1 DEF Called
<1>5. \A S : Summaries(S)' = Summaries(S)
  BY <1>3, <1>4 DEF Summaries
<1> QED BY <1>1, <1>5 DEF DirectoryType

\* Steps that change nothing of what print keeps.
LEMMA PrintKept ==
  ASSUME PrintInv, UNCHANGED printVars,
         UNCHANGED <<mPrintGroup, flags, phase>> \/ phase = "parsing"
  PROVE  PrintInv'
<1>1. UNCHANGED <<directory, unread, file, pos, records, perfMap, output, summaries, step>>
  BY DEF printVars
<1>2. PrintType'
  BY <1>1, DirectoryFixed DEF PrintInv, PrintType
<1>3. CASE step = "start"
  BY <1>1, <1>2, <1>3 DEF PrintInv, Started, PrintedRight
<1>4. CASE step # "start"
  <2>1. UNCHANGED <<mPrintGroup, flags, phase>>
    BY <1>4 DEF PrintInv
  <2>2. Read' = Read
    BY <1>1, DirectoryFixed DEF Read
  <2>3. \A s, b : Lists(s, b)' <=> Lists(s, b)
    BY <1>1, DirectoryFixed DEF Lists
  <2>4. Reading => Reading'
    BY <1>1, <2>2, <2>3 DEF Reading, ReadAs, Together, Lists
  <2>5. Printing => Printing'
    <3> SUFFICES ASSUME Printing PROVE Printing'
      OBVIOUS
    <3>1. PICK b \in Bijection(DOMAIN records, Calls) : ToPrint(b)
      BY DEF Printing
    <3>2. perfMap' = Summaries({b[k] : k \in 1 .. pos - 1})'
      <4>1. PICK S : S = {b[k] : k \in 1 .. pos - 1}
        OBVIOUS
      <4>2. S = {b[k] : k \in 1 .. pos - 1}'
        BY <1>1, <4>1
      <4>3. perfMap' = Summaries(S)'
        BY <1>1, <3>1, <4>1, DirectoryFixed DEF ToPrint
      <4> QED BY <4>2, <4>3
    <3>3. ToPrint(b)'
      BY <1>1, <2>1, <2>3, <3>1, <3>2 DEF ToPrint, Together, Grouped, Lists
    <3>4. b \in Bijection(DOMAIN records', Calls')
      BY <1>1, <3>1, DirectoryFixed
    <3> QED BY <1>1, <2>1, <3>3, <3>4 DEF Printing, InOrder, Grouped
  <2>6. PrintedRight => PrintedRight'
    BY <1>1, <2>1, <2>3, DirectoryFixed DEF PrintedRight, Together, InOrder, Grouped, Lists
  <2> QED BY <1>1, <1>2, <1>4, <2>1, <2>4, <2>5, <2>6 DEF PrintInv
<1> QED BY <1>3, <1>4

\* Nothing is read when print starts.
LEMMA PrintImagesStep ==
  ASSUME PrintInv, PrintImages
  PROVE  PrintInv'
<1>1. /\ phase = "parsed" /\ step = "start" /\ Started /\ PrintType
      /\ UNCHANGED <<phase, unread, file, pos, records, perfMap, output, summaries>>
      /\ step' \in {"files", "bad_alloc", "exit"}
  BY DEF PrintInv, PrintImages, optionVars
<1>2. DirectoryType'
  <2>1. CASE directory' \in Directories
    BY <2>1, DirectoriesAssumption DEF DirectoriesAssumption, DirectoryType, Left, TraceRecord
  <2>2. CASE UNCHANGED directory
    BY <1>1, <2>2, DirectoryFixed DEF PrintType
  <2> QED BY <2>1, <2>2 DEF PrintImages
<1>3. Read' = {}
  BY <1>1 DEF Read, Started, Calls
<1>4. Reading'
  <2>1. DOMAIN records' = {}
    BY <1>1 DEF Started
  <2>2. <<>> \in Bijection(DOMAIN records', Read')
    BY <1>3, <2>1 DEF Bijection, Injection, Surjection, IsInjective
  <2>3. ReadAs(<<>>)'
    BY <2>1 DEF ReadAs, Lists, Together
  <2> QED BY <1>1, <2>2, <2>3 DEF Reading, Started
<1> QED BY <1>1, <1>2, <1>4 DEF PrintInv, PrintType, PrintedRight

\* A file that is opened has not been read.
LEMMA OpenTraceStep ==
  ASSUME PrintInv, NEW t \in Threads, OpenTrace(t)
  PROVE  PrintInv'
<1>1. /\ step = "files" /\ file = {} /\ t \in unread /\ unread' = unread \ {t} /\ file' = {t}
      /\ pos' = 1 /\ step' \in {"files", "forever"} /\ phase = "parsed"
      /\ UNCHANGED <<phase, directory, records, perfMap, output, summaries>>
      /\ Reading /\ PrintType
  BY DEF PrintInv, OpenTrace, optionVars
<1>2. PrintType'
  BY <1>1, DirectoryFixed DEF PrintType
<1>3. Read' = Read
  <2>1. ASSUME NEW c \in Calls PROVE c \in Read' <=> c \in Read
    <3>1. c[2] \in Nat \ {0}
      BY <1>1, CallFacts DEF PrintType, Calls
    <3>2. CASE c[1] = t
      BY <1>1, <3>1, <3>2, DirectoryFixed DEF Read
    <3>3. CASE c[1] # t
      BY <1>1, <3>3, DirectoryFixed DEF Read
    <3> QED BY <3>2, <3>3
  <2> QED BY <1>1, <2>1, DirectoryFixed DEF Read
<1>4. PICK b \in Bijection(DOMAIN records, Read) : ReadAs(b)
  BY <1>1 DEF Reading
<1>5. ASSUME NEW k \in DOMAIN records PROVE b[k][1] # t
  <2>1. b[k] \in Read
    BY <1>4 DEF Bijection, Injection
  <2> QED BY <1>1, <2>1 DEF Read
<1>6. ReadAs(b)'
  BY <1>1, <1>4, <1>5, DirectoryFixed DEF ReadAs, Lists, Together
<1>7. Reading'
  BY <1>1, <1>3, <1>4, <1>6 DEF Reading
<1> QED BY <1>1, <1>2, <1>7 DEF PrintInv, PrintedRight

\* A record that is read comes behind those of its file.
LEMMA ReadRecordStep ==
  ASSUME PrintInv, NEW t \in Threads, ReadRecord(t)
  PROVE  PrintInv'
<1>1. /\ step = "files" /\ file = {t} /\ pos <= Len(Left(t)) /\ pos' = pos + 1
      /\ records' = Append(records, <<t, Left(t)[pos]>>) /\ phase = "parsed"
      /\ UNCHANGED <<phase, directory, unread, file, perfMap, output, summaries, step>>
      /\ Reading /\ PrintType
  BY DEF PrintInv, ReadRecord, optionVars, Left
<1>2. PICK R : R = Printable
  OBVIOUS
<1>3. PICK c : c = <<t, pos>>
  OBVIOUS
<1>4. /\ c \in Calls /\ c[1] = t /\ c[2] = pos /\ pos \in Nat \ {0} /\ Made(c) = Left(t)[pos]
      /\ t \notin unread /\ \A e \in Calls : e = <<e[1], e[2]>> /\ e[2] \in Nat
  <2>1. pos \in Nat \ {0} /\ Len(Left(t)) \in Nat
    BY <1>1 DEF PrintType, DirectoryType
  <2>2. pos \in 1 .. Len(Left(t))
    BY <1>1, <2>1
  <2>3. \A e \in Calls : e = <<e[1], e[2]>> /\ e[2] \in Nat
    BY <1>1, CallFacts DEF PrintType, Calls
  <2> QED BY <1>1, <1>3, <2>1, <2>2, <2>3, CallFacts DEF PrintType, Made, Reading
<1>5. Made(c) \in TraceRecord
  BY <1>1, <1>4, CallFacts DEF PrintType
<1>6. records \in Seq(R) /\ <<t, Made(c)>> \in R
  BY <1>1, <1>2, <1>5 DEF PrintType, Printable
<1>7. PICK n \in Nat : n = Len(records)
  BY <1>6
<1>8. /\ records' \in Seq(R) /\ Len(records') = n + 1
      /\ DOMAIN records = 1 .. n /\ DOMAIN records' = 1 .. n + 1
      /\ records'[n + 1] = <<t, Made(c)>> /\ \A k \in 1 .. n : records'[k] = records[k]
  BY <1>1, <1>4, <1>6, <1>7
<1>9. Read' = Read \cup {c} /\ c \notin Read
  <2>1. ASSUME NEW e \in Calls PROVE e \in Read' <=> e \in Read \/ e = c
    <3>1. CASE e[1] = t
      <4>1. e \in Read <=> e[2] < pos
        BY <1>1, <1>4, <3>1 DEF Read
      <4>2. e \in Read' <=> e[2] < pos + 1
        BY <1>1, <1>4, <3>1, DirectoryFixed DEF Read
      <4>3. e = c <=> e[2] = pos
        BY <1>3, <1>4, <3>1
      <4> QED BY <1>4, <4>1, <4>2, <4>3
    <3>2. CASE e[1] # t
      BY <1>1, <1>4, <3>2, DirectoryFixed DEF Read
    <3> QED BY <3>1, <3>2
  <2>2. c \notin Read
    BY <1>1, <1>4 DEF Read
  <2>3. Read \subseteq Calls /\ Read' \subseteq Calls
    BY <1>1, DirectoryFixed DEF Read
  <2> QED BY <1>4, <2>1, <2>2, <2>3
<1>10. PICK b \in Bijection(DOMAIN records, Read) : ReadAs(b)
  BY <1>1 DEF Reading
<1>11. /\ \A k \in 1 .. n : b[k] \in Read
       /\ \A k, l \in 1 .. n : b[k] = b[l] => k = l
       /\ \A e \in Read : \E k \in 1 .. n : b[k] = e
  BY <1>8, <1>10 DEF Bijection, Injection, Surjection, IsInjective
<1> DEFINE a == [k \in 1 .. n + 1 |-> IF k = n + 1 THEN c ELSE b[k]]
<1>12. a[n + 1] = c /\ \A k \in 1 .. n : k # n + 1 /\ k \in 1 .. n + 1 /\ a[k] = b[k]
  OBVIOUS
<1>13. \A k \in 1 .. n + 1 : k = n + 1 \/ k \in 1 .. n
  OBVIOUS
<1>14. n + 1 \in 1 .. n + 1
  OBVIOUS
<1>15. DOMAIN a = 1 .. n + 1 /\ a = [k \in 1 .. n + 1 |-> a[k]]
  OBVIOUS
<1> HIDE DEF a
<1>16. a \in Bijection(DOMAIN records', Read')
  <2>1. a \in [1 .. n + 1 -> Read \cup {c}]
    BY <1>11, <1>12, <1>13, <1>15
  <2>2. \A k, l \in 1 .. n + 1 : a[k] = a[l] => k = l
    BY <1>9, <1>11, <1>12, <1>13
  <2>3. \A e \in Read \cup {c} : \E k \in 1 .. n + 1 : a[k] = e
    BY <1>11, <1>12, <1>14
  <2> QED BY <1>8, <1>9, <2>1, <2>2, <2>3 DEF Bijection, Injection, Surjection, IsInjective
<1>17. ReadAs(a)'
  <2>1. Lists(records, a)'
    <3>1. \A k \in 1 .. n + 1 : records'[k] = <<a[k][1], Made(a[k])>>
      BY <1>4, <1>8, <1>10, <1>12, <1>13 DEF ReadAs, Lists
    <3> QED BY <1>1, <1>8, <3>1, DirectoryFixed DEF Lists
  <2>2. ASSUME NEW k \in 1 .. n, b[k][1] = t PROVE k = n - pos + 1 + b[k][2] /\ b[k][2] \in Nat
    BY <1>1, <1>4, <1>7, <1>8, <1>10, <1>11, <2>2 DEF ReadAs, Read
  <2>3. \A k, l \in 1 .. n : b[k][1] = b[l][1] => l - k = b[l][2] - b[k][2]
    BY <1>8, <1>10 DEF ReadAs, Together
  <2>4. ASSUME NEW k \in 1 .. n + 1, NEW l \in 1 .. n + 1, a[k][1] = a[l][1]
        PROVE  l - k = a[l][2] - a[k][2]
    <3>1. CASE k = n + 1 /\ l = n + 1
      BY <1>4, <1>12, <3>1
    <3>2. CASE k = n + 1 /\ l \in 1 .. n
      <4>1. b[l][1] = t
        BY <1>4, <1>12, <2>4, <3>2
      <4> QED BY <1>4, <1>12, <2>2, <3>2, <4>1
    <3>3. CASE l = n + 1 /\ k \in 1 .. n
      <4>1. b[k][1] = t
        BY <1>4, <1>12, <2>4, <3>3
      <4> QED BY <1>4, <1>12, <2>2, <3>3, <4>1
    <3>4. CASE k \in 1 .. n /\ l \in 1 .. n
      BY <1>12, <2>3, <2>4, <3>4
    <3> QED BY <1>13, <3>1, <3>2, <3>3, <3>4
  <2>5. Together(records, a)'
    BY <1>8, <2>4 DEF Together
  <2>6. ASSUME NEW k \in 1 .. n + 1, file = {a[k][1]}
        PROVE  k = (n + 1) - (pos + 1) + 1 + a[k][2]
    <3>1. CASE k = n + 1
      BY <1>4, <1>12, <3>1
    <3>2. CASE k \in 1 .. n
      <4>1. b[k][1] = t
        BY <1>1, <1>12, <2>6, <3>2
      <4> QED BY <1>4, <1>12, <2>2, <3>2, <4>1
    <3> QED BY <1>13, <3>1, <3>2
  <2> QED BY <1>1, <1>8, <2>1, <2>5, <2>6 DEF ReadAs
<1>18. Reading'
  BY <1>1, <1>16, <1>17 DEF Reading
<1>19. PrintType'
  BY <1>1, <1>2, <1>4, <1>8, DirectoryFixed DEF PrintType
<1> QED BY <1>1, <1>18, <1>19 DEF PrintInv, PrintedRight

\* Where a file ends, all its records have been read.
LEMMA ReadEndStep ==
  ASSUME PrintInv, NEW t \in Threads, ReadEnd(t)
  PROVE  PrintInv'
<1>1. /\ step = "files" /\ file = {t} /\ pos > Len(Left(t)) /\ file' = {} /\ phase = "parsed"
      /\ UNCHANGED <<phase, directory, unread, pos, records, perfMap, output, summaries, step>>
      /\ Reading /\ PrintType
  BY DEF PrintInv, ReadEnd, optionVars, Left
<1>2. PrintType'
  BY <1>1, DirectoryFixed DEF PrintType
<1>3. Read' = Read
  <2>1. ASSUME NEW c \in Calls, c[1] = t PROVE c[2] < pos
    <3>1. c[2] \in 1 .. Len(Left(t)) /\ Len(Left(t)) \in Nat /\ pos \in Nat
      BY <1>1, <2>1, CallFacts DEF PrintType, DirectoryType
    <3> QED BY <1>1, <3>1
  <2>2. \A c \in Calls : (file = {c[1]} => c[1] = t) /\ file' # {c[1]}
    BY <1>1
  <2> QED BY <1>1, <2>1, <2>2, DirectoryFixed DEF Read
<1>4. PICK b \in Bijection(DOMAIN records, Read) : ReadAs(b)
  BY <1>1 DEF Reading
<1>5. ReadAs(b)'
  BY <1>1, <1>4, DirectoryFixed DEF ReadAs, Lists, Together
<1>6. Reading'
  BY <1>1, <1>3, <1>4, <1>5 DEF Reading
<1> QED BY <1>1, <1>2, <1>6 DEF PrintInv, PrintedRight

\* std::sort changes the order of the records and nothing else.
LEMMA SortRecordsStep ==
  ASSUME PrintInv, SortRecords
  PROVE  PrintInv'
<1>1. /\ step = "files" /\ unread = {} /\ file = {} /\ pos' = 1 /\ step' = "print"
      /\ phase = "parsed" /\ Reading /\ PrintType
      /\ UNCHANGED <<phase, mPrintGroup, directory, unread, file, perfMap, output, summaries>>
  BY DEF PrintInv, SortRecords, optionVars
<1>2. PICK R : R = Printable
  OBVIOUS
<1>3. records \in Seq(R)
  BY <1>1, <1>2 DEF PrintType
<1>4. PICK n \in Nat : n = Len(records)
  BY <1>3
<1>5. DOMAIN records = 1 .. n
  BY <1>3, <1>4
<1>6. Read = Calls
  BY <1>1 DEF Read
<1>7. PICK b \in Bijection(DOMAIN records, Calls) : ReadAs(b)
  BY <1>1, <1>6 DEF Reading
<1>8. /\ b \in [1 .. n -> Calls]
      /\ \A k, l \in 1 .. n : b[k] = b[l] => k = l
      /\ \A c \in Calls : \E k \in 1 .. n : b[k] = c
      /\ \A k \in 1 .. n : records[k] = <<b[k][1], Made(b[k])>>
  BY <1>5, <1>7 DEF Bijection, Injection, Surjection, IsInjective, ReadAs, Lists
<1>9. ASSUME NEW S, S = {} PROVE perfMap' = Summaries(S)'
  <2>1. \A g : Called(S, g) = {}
    BY <1>9 DEF Called
  <2>2. Summaries(S) = <<>>
    <3>1. {g \in Functions : Called(S, g) # {}} = {}
      BY <2>1
    <3> QED BY <3>1 DEF Summaries
  <2> QED BY <1>1, <2>2, DirectoryFixed DEF Reading
<1>10. {b[k] : k \in 1 .. pos - 1}' = {} /\ \A a : {a[k] : k \in 1 .. pos - 1}' = {}
  BY <1>1
<1>11. CASE Grouped
  <2>1. UNCHANGED records /\ Grouped'
    BY <1>1, <1>11 DEF SortRecords, Grouped
  <2>2. ToPrint(b)'
    <3>1. Lists(records, b)' /\ Together(records, b)'
      BY <1>1, <1>7, <2>1, DirectoryFixed DEF ReadAs, Lists, Together
    <3>2. perfMap' = Summaries({b[k] : k \in 1 .. pos - 1})'
      BY <1>9, <1>10
    <3> QED BY <3>1, <3>2 DEF ToPrint
  <2>3. Printing'
    <3>1. b \in Bijection(DOMAIN records, Calls)'
      BY <1>1, <1>7, <2>1, DirectoryFixed
    <3>2. (\A k \in 1 .. pos - 1 : output[k] = records[k])'
      BY <1>1
    <3>3. (Len(output) = pos - 1 /\ pos <= Len(records) + 1)'
      BY <1>1, <1>4, <2>1 DEF Reading
    <3> QED BY <1>1, <2>1, <2>2, <3>1, <3>2, <3>3 DEF Printing, Reading
  <2>4. PrintType'
    BY <1>1, <2>1, DirectoryFixed DEF PrintType
  <2> QED BY <1>1, <2>3, <2>4 DEF PrintInv, PrintedRight
<1>12. CASE ~Grouped
  <2>1. PICK f \in Bijection(DOMAIN records, DOMAIN records) :
          /\ \A k, l \in DOMAIN records : k < l => ~Sooner(records[f[l]], records[f[k]])
          /\ records' = [k \in DOMAIN records |-> records[f[k]]]
    BY <1>12 DEF SortRecords
  <2>2. /\ f \in [1 .. n -> 1 .. n]
        /\ \A k, l \in 1 .. n : f[k] = f[l] => k = l
        /\ \A m \in 1 .. n : \E k \in 1 .. n : f[k] = m
    BY <1>5, <2>1 DEF Bijection, Injection, Surjection, IsInjective
  <2>3. /\ records' \in Seq(R) /\ Len(records') = n /\ DOMAIN records' = 1 .. n
        /\ \A k \in 1 .. n : records'[k] = records[f[k]]
    <3>1. records' = [k \in 1 .. n |-> records[f[k]]]
      BY <1>5, <2>1
    <3>2. \A k \in 1 .. n : records[f[k]] \in R
      BY <1>3, <1>4, <2>2
    <3> QED BY <3>1, <3>2
  <2> DEFINE a == [k \in 1 .. n |-> b[f[k]]]
  <2>4. a \in [1 .. n -> Calls] /\ \A k \in 1 .. n : a[k] = b[f[k]]
    BY <1>8, <2>2
  <2> HIDE DEF a
  <2>5. ASSUME NEW k \in 1 .. n, NEW l \in 1 .. n, a[k] = a[l] PROVE k = l
    <3>1. f[k] \in 1 .. n /\ f[l] \in 1 .. n
      BY <2>2
    <3>2. b[f[k]] = b[f[l]]
      BY <2>4, <2>5
    <3>3. f[k] = f[l]
      BY <1>8, <3>1, <3>2
    <3> QED BY <2>2, <3>3
  <2>6. \A c \in Calls : \E k \in 1 .. n : a[k] = c
    BY <1>8, <2>2, <2>4
  <2>7. a \in Bijection(DOMAIN records, Calls)'
    BY <1>1, <2>3, <2>4, <2>5, <2>6, DirectoryFixed DEF Bijection, Injection, Surjection, IsInjective
  <2>8. Lists(records, a)'
    <3>1. ASSUME NEW k \in 1 .. n PROVE records'[k] = <<a[k][1], Made(a[k])>>
      <4>1. PICK m \in 1 .. n : m = f[k]
        BY <2>2
      <4>2. a[k] = b[m] /\ records'[k] = records[m]
        BY <2>3, <2>4, <4>1
      <4>3. records[m] = <<b[m][1], Made(b[m])>>
        BY <1>8
      <4> QED BY <4>2, <4>3
    <3> QED BY <1>1, <2>3, <3>1, DirectoryFixed DEF Lists
  <2>9. InOrder(records)'
    <3>1. ASSUME NEW k \in 1 .. n PROVE records'[k][2].start \in Nat
      <4>1. records'[k] \in R
        BY <2>3
      <4> QED BY <1>2, <4>1 DEF Printable, TraceRecord
    <3>2. ASSUME NEW k \in 1 .. n, NEW l \in 1 .. n, k < l
          PROVE  records'[k][2].start <= records'[l][2].start
      <4>1. ~(records'[l][2].start < records'[k][2].start)
        BY <1>5, <2>1, <2>3, <3>2 DEF Sooner
      <4> QED BY <3>1, <4>1
    <3> QED BY <2>3, <3>2 DEF InOrder
  <2>10. ToPrint(a)'
    <3>1. perfMap' = Summaries({a[k] : k \in 1 .. pos - 1})'
      BY <1>9, <1>10
    <3>2. ~Grouped'
      BY <1>1, <1>12 DEF Grouped
    <3> QED BY <2>8, <3>1, <3>2 DEF ToPrint
  <2>11. Printing'
    <3>1. (\A k \in 1 .. pos - 1 : output[k] = records[k])'
      BY <1>1
    <3>2. (Len(output) = pos - 1 /\ pos <= Len(records) + 1)'
      BY <1>1, <2>3 DEF Reading
    <3> QED BY <1>1, <2>7, <2>9, <2>10, <3>1, <3>2 DEF Printing, Reading
  <2>12. PrintType'
    BY <1>1, <1>2, <2>3, DirectoryFixed DEF PrintType
  <2> QED BY <1>1, <2>11, <2>12 DEF PrintInv, PrintedRight
<1> QED BY <1>11, <1>12

\* The record printed next is one that was not printed.
LEMMA PrintRecordStep ==
  ASSUME PrintInv, PrintRecord
  PROVE  PrintInv'
<1>1. /\ step = "print" /\ pos <= Len(records) /\ output' = Append(output, records[pos])
      /\ perfMap' = Collected(records[pos][2]) /\ pos' = pos + 1 /\ phase = "parsed"
      /\ UNCHANGED <<phase, mPrintGroup, directory, unread, file, records, summaries, step>>
      /\ Printing /\ PrintType
  BY DEF PrintInv, PrintRecord, optionVars
<1>2. PICK R : R = Printable
  OBVIOUS
<1>3. records \in Seq(R) /\ output \in Seq(R) /\ pos \in Nat \ {0}
  BY <1>1, <1>2 DEF PrintType
<1>4. PICK n \in Nat : n = Len(records) /\ DOMAIN records = 1 .. n /\ pos \in 1 .. n
  BY <1>1, <1>3
<1>5. records[pos] \in R
  BY <1>3, <1>4
<1>6. /\ output' \in Seq(R) /\ Len(output') = pos' - 1 /\ pos' \in Nat \ {0} /\ pos' <= n + 1
      /\ \A k \in 1 .. pos' - 1 : output'[k] = records[k]
  <2>1. Len(output) = pos - 1 /\ \A k \in 1 .. pos - 1 : output[k] = records[k]
    BY <1>1 DEF Printing
  <2>2. output' \in Seq(R) /\ Len(output') = pos
    BY <1>1, <1>3, <1>5, <2>1
  <2>3. ASSUME NEW k \in 1 .. pos PROVE output'[k] = records[k]
    <3>1. CASE k = pos
      BY <1>1, <1>3, <1>5, <2>1, <3>1
    <3>2. CASE k \in 1 .. pos - 1
      BY <1>1, <1>3, <1>5, <2>1, <3>2
    <3> QED BY <1>3, <3>1, <3>2
  <2> QED BY <1>1, <1>3, <1>4, <2>2, <2>3
<1>7. PICK b \in Bijection(DOMAIN records, Calls) : ToPrint(b)
  BY <1>1 DEF Printing
<1>8. /\ b \in [1 .. n -> Calls]
      /\ \A k, l \in 1 .. n : b[k] = b[l] => k = l
      /\ \A k \in 1 .. n : records[k] = <<b[k][1], Made(b[k])>>
  BY <1>4, <1>7 DEF Bijection, Injection, Surjection, IsInjective, ToPrint, Lists
<1>9. PICK S : S = {b[k] : k \in 1 .. pos - 1}
  OBVIOUS
<1>10. S \subseteq Calls /\ IsFiniteSet(S) /\ b[pos] \in Calls \ S
  <2>1. IsFiniteSet(1 .. pos - 1)
    BY <1>3, FS_Interval
  <2>2. IsFiniteSet(S)
    <3>1. PICK g : g = [k \in 1 .. pos - 1 |-> b[k]]
      OBVIOUS
    <3>2. g \in Surjection(1 .. pos - 1, S)
      BY <1>9, <3>1 DEF Surjection
    <3> QED BY <2>1, <3>2, FS_Surjection
  <2>3. \A k \in 1 .. pos - 1 : k \in 1 .. n /\ k # pos
    BY <1>3, <1>4
  <2> QED BY <1>4, <1>8, <1>9, <2>2, <2>3
<1>11. perfMap' = Summaries(S \cup {b[pos]})
  <2>1. PICK c : c = b[pos]
    OBVIOUS
  <2>2. perfMap = Summaries(S) /\ records[pos][2] = Made(c)
    BY <1>4, <1>7, <1>8, <1>9, <2>1 DEF ToPrint
  <2>3. Collected(Made(c)) = Summaries(S \cup {c})
    BY <1>1, <1>10, <2>1, <2>2, CollectedRight DEF PrintType
  <2> QED BY <1>1, <2>1, <2>2, <2>3
<1>12. PICK T : T = S \cup {b[pos]}
  OBVIOUS
<1>13. T = {b[k] : k \in 1 .. pos - 1}'
  <2>1. \A k : k \in 1 .. pos <=> k = pos \/ k \in 1 .. pos - 1
    BY <1>3
  <2>2. T = {b[k] : k \in 1 .. pos}
    BY <1>9, <1>12, <2>1
  <2>3. pos' - 1 = pos
    BY <1>1, <1>3
  <2> QED BY <2>2, <2>3
<1>14. ToPrint(b)'
  <2>1. perfMap' = Summaries(T)'
    BY <1>1, <1>11, <1>12, DirectoryFixed
  <2>2. perfMap' = Summaries({b[k] : k \in 1 .. pos - 1})'
    BY <1>13, <2>1
  <2>3. Lists(records, b)' /\ (Grouped => Together(records, b))'
    BY <1>1, <1>7, DirectoryFixed DEF ToPrint, Lists, Together, Grouped
  <2> QED BY <2>2, <2>3 DEF ToPrint
<1>15. Printing'
  <2>1. b \in Bijection(DOMAIN records, Calls)'
    BY <1>1, <1>7, DirectoryFixed
  <2>2. (~Grouped => InOrder(records))'
    BY <1>1 DEF Printing, Grouped, InOrder
  <2> QED BY <1>1, <1>4, <1>6, <1>14, <2>1, <2>2 DEF Printing
<1>16. PrintType'
  BY <1>1, <1>2, <1>3, <1>6, DirectoryFixed DEF PrintType
<1> QED BY <1>1, <1>15, <1>16 DEF PrintInv, PrintedRight

\* The end of the vector is the end of the calls.
LEMMA PrintEndStep ==
  ASSUME PrintInv, PrintEnd
  PROVE  PrintInv'
<1>1. /\ step = "print" /\ pos > Len(records) /\ step' = "printed" /\ phase = "parsed"
      /\ summaries' = IF "--perf" \in flags THEN Append(summaries, perfMap) ELSE summaries
      /\ UNCHANGED <<phase, flags, mPrintGroup, directory, unread, file, pos, records, perfMap, output>>
      /\ Printing /\ PrintType
  BY DEF PrintInv, PrintEnd, optionVars
<1>2. PICK R : R = Printable
  OBVIOUS
<1>3. records \in Seq(R) /\ output \in Seq(R) /\ pos \in Nat \ {0}
  BY <1>1, <1>2 DEF PrintType
<1>4. PICK n \in Nat : n = Len(records) /\ DOMAIN records = 1 .. n /\ pos - 1 = n
  BY <1>1, <1>3 DEF Printing
<1>5. output = records
  BY <1>1, <1>3, <1>4 DEF Printing
<1>6. PICK b \in Bijection(DOMAIN records, Calls) : ToPrint(b)
  BY <1>1 DEF Printing
<1>7. {b[k] : k \in 1 .. pos - 1} = Calls
  BY <1>4, <1>6 DEF Bijection, Injection, Surjection
<1>8. perfMap = Summaries(Calls)
  BY <1>6, <1>7 DEF ToPrint
<1>9. "--perf" \in flags => summaries' = <<Summaries(Calls)>>
  BY <1>1, <1>8 DEF Printing
<1>10. "--perf" \in flags' => summaries' = <<Summaries(Calls)'>>
  <2>1. PICK C : C = Calls
    OBVIOUS
  <2>2. C = Calls' /\ Summaries(C)' = Summaries(C)
    BY <1>1, <2>1, DirectoryFixed
  <2>3. Summaries(Calls)' = Summaries(Calls)
    BY <2>1, <2>2
  <2> QED BY <1>1, <1>9, <2>3
<1>11. (\E e \in Bijection(DOMAIN output, Calls) :
          Lists(output, e) /\ (Grouped => Together(output, e)))'
  <2>1. b \in Bijection(DOMAIN output, Calls)'
    BY <1>1, <1>5, <1>6, DirectoryFixed
  <2>2. Lists(output, b)' /\ (Grouped => Together(output, b))'
    BY <1>1, <1>5, <1>6, DirectoryFixed DEF ToPrint, Lists, Together, Grouped
  <2> QED BY <2>1, <2>2
<1>12. (~Grouped => InOrder(output))'
  BY <1>1, <1>5 DEF Printing, Grouped, InOrder
<1>13. PrintedRight'
  BY <1>10, <1>11, <1>12 DEF PrintedRight
<1>14. PrintType'
  BY <1>1, DirectoryFixed DEF PrintType
<1> QED BY <1>1, <1>13, <1>14 DEF PrintInv

\* The invariant of print, one step at a time.
LEMMA PrintInvariance == Spec => []PrintInv
<1>1. Init => PrintInv
  <2> SUFFICES ASSUME Init PROVE PrintInv
    OBVIOUS
  <2>1. \A t \in Threads : Left(t) = <<>>
    BY DEF Init, Left, NoFile
  <2>2. MaxRecords \in Nat
    BY DirectoriesAssumption DEF DirectoriesAssumption
  <2>3. ASSUME NEW R PROVE <<>> \in Seq(R) /\ Len(<<>>) = 0 /\ DOMAIN <<>> = {}
    OBVIOUS
  <2>4. DirectoryType
    <3>1. ASSUME NEW t \in Threads
          PROVE  /\ Left(t) \in Seq(TraceRecord) /\ Len(Left(t)) <= MaxRecords
                 /\ DOMAIN Left(t) = {}
      <4>1. Left(t) = <<>>
        BY <2>1
      <4> QED BY <2>2, <2>3, <4>1
    <3> QED BY <3>1 DEF DirectoryType
  <2> QED BY <2>4 DEF Init, PrintInv, PrintType, Started, PrintedRight
<1>2. PrintInv /\ [Next]_vars => PrintInv'
  <2> SUFFICES ASSUME PrintInv, [Next]_vars PROVE PrintInv'
    OBVIOUS
  <2>1. CASE Parse
    BY <2>1, PrintKept DEF Parse, ParseWord, ParseEnd
  <2>2. CASE PrintImages
    BY <2>2, PrintImagesStep
  <2>3. CASE \E t \in Threads : OpenTrace(t)
    BY <2>3, OpenTraceStep
  <2>4. CASE \E t \in Threads : ReadRecord(t)
    BY <2>4, ReadRecordStep
  <2>5. CASE \E t \in Threads : ReadEnd(t)
    BY <2>5, ReadEndStep
  <2>6. CASE \E t \in Threads : ReadBadSize(t)
    BY <2>6, DirectoryFixed DEF ReadBadSize, PrintInv, PrintType, PrintedRight, optionVars
  <2>7. CASE SortRecords
    BY <2>7, SortRecordsStep
  <2>8. CASE PrintRecord
    BY <2>8, PrintRecordStep
  <2>9. CASE PrintEnd
    BY <2>9, PrintEndStep
  <2>10. CASE UNCHANGED vars
    <3>1. UNCHANGED printVars /\ UNCHANGED <<mPrintGroup, flags, phase>>
      BY <2>10 DEF vars, optionVars
    <3> QED BY <3>1, PrintKept
  <2> QED BY <2>1, <2>2, <2>3, <2>4, <2>5, <2>6, <2>7, <2>8, <2>9, <2>10 DEF Next
<1> QED BY <1>1, <1>2, PTL DEF Spec

\* Whatever the directory holds and in whatever order it is listed, printTrace
\* prints every whole record once, in the order asked for, and without groups
\* collectPerf's running numbers end as the summaries of all calls.
THEOREM EveryRecordPrinted == Spec => []PrintedRight
<1>1. PrintInv => PrintedRight
  BY DEF PrintInv
<1> QED BY <1>1, PrintInvariance, PTL
=============================================================================
