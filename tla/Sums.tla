-------------------------------- MODULE Sums ---------------------------------
(***************************************************************************)
(* That a set of naturals has a least, and what a sum over a finite set of *)
(* integers depends on: neither the order in which its recursion takes     *)
(* them nor the names of what is summed.                                   *)
(*                                                                         *)
(* Both are inductions over data, which the library's theorems state for   *)
(* operators no backend can instantiate.  A least is a least initial       *)
(* segment instead; a sum is counted, the atoms above zero less those      *)
(* below, each an atom of its own term.                                    *)
(***************************************************************************)
EXTENDS Integers, Functions, FiniteSetTheorems, WellFoundedInduction, TLAPS

(* Every set of naturals with an element has a least one.                  *)
LEMMA LeastNat ==
  ASSUME NEW T, T \subseteq Nat, T # {}
  PROVE  \E n \in T : \A m \in T : n <= m
<1> DEFINE UpTo(n) == 0..n
           Initials == {UpTo(n) : n \in T}
<1>1. Initials \subseteq FiniteSubsetsOf(Nat)
  <2>1. \A n \in Nat : IsFiniteSet(0..n)
    BY FS_Interval
  <2>. QED
    BY <2>1 DEF FiniteSubsetsOf
<1>2. PICK B \in Initials : \A A \in Initials : ~(<<A, B>> \in StrictSubsetOrdering(Nat))
  <2>1. IsWellFoundedOn(StrictSubsetOrdering(Nat), FiniteSubsetsOf(Nat))
    BY FS_StrictSubsetOrderingWellFounded
  <2>2. Initials # {}
    OBVIOUS
  <2> HIDE DEF Initials
  <2>. QED
    BY <2>1, <2>2, <1>1, WFMin
<1>3. PICK n \in T : B = 0..n
  OBVIOUS
<1>4. ASSUME NEW m \in T, m < n
      PROVE  FALSE
  <2>1. 0..m \in SUBSET Nat /\ 0..n \in SUBSET Nat
    OBVIOUS
  <2>2. 0..m \subseteq 0..n /\ 0..m # 0..n
    <3>1. n \in 0..n /\ n \notin 0..m
      BY <1>4
    <3>. QED
      BY <1>4, <3>1
  <2>3. <<0..m, 0..n>> \in StrictSubsetOrdering(Nat)
    BY <2>1, <2>2 DEF StrictSubsetOrdering
  <2>. QED
    BY <1>2, <1>3, <2>3
<1>5. QED
  BY <1>4

-----------------------------------------------------------------------------
IntOn(w, S) == \A x \in S : w[x] \in Int

Above(w, S) == UNION {{x} \X (1..w[x]) : x \in S}
Opposite(w, S) == [x \in S |-> 0 - w[x]]
Below(w, S) == Above(Opposite(w, S), S)
Counted(w, S) == Cardinality(Above(w, S)) - Cardinality(Below(w, S))

-----------------------------------------------------------------------------
LEMMA PairsOf ==
  ASSUME NEW x, NEW n \in Int
  PROVE  /\ IsFiniteSet({x} \X (1..n))
         /\ Cardinality({x} \X (1..n)) = IF n > 0 THEN n ELSE 0
<1>1. IsFiniteSet({x}) /\ Cardinality({x}) = 1
  BY FS_Singleton
<1>2. IsFiniteSet(1..n) /\ Cardinality(1..n) = IF n > 0 THEN n ELSE 0
  <2>1. CASE n > 0
    BY <2>1, FS_Interval
  <2>2. CASE ~(n > 0)
    <3>1. 1..n = {}
      BY <2>2
    <3>2. QED
      BY <2>2, <3>1, FS_EmptySet
  <2>3. QED
    BY <2>1, <2>2
<1>3. /\ IsFiniteSet({x} \X (1..n))
      /\ Cardinality({x} \X (1..n)) = Cardinality({x}) * Cardinality(1..n)
  BY <1>1, <1>2, FS_Product
<1>4. QED
  BY <1>1, <1>2, <1>3

LEMMA AboveFinite ==
  ASSUME NEW S, IsFiniteSet(S), NEW w, IntOn(w, S)
  PROVE  IsFiniteSet(Above(w, S)) /\ Cardinality(Above(w, S)) \in Nat
<1> DEFINE Of(x) == {x} \X (1..w[x])
           All == {Of(x) : x \in S}
           g == [x \in S |-> Of(x)]
<1>1. g \in Surjection(S, All)
  BY DEF Surjection
<1>2. IsFiniteSet(All)
  BY <1>1, FS_Surjection
<1>3. \A T \in All : IsFiniteSet(T)
  BY PairsOf DEF IntOn
<1> HIDE DEF All
<1>4. IsFiniteSet(UNION All)
  BY <1>2, <1>3, FS_UNION
<1>5. QED
  BY <1>4, FS_CardinalityType DEF All, Above

LEMMA AtomsFinite ==
  ASSUME NEW S, IsFiniteSet(S), NEW w, IntOn(w, S)
  PROVE  /\ IsFiniteSet(Above(w, S)) /\ Cardinality(Above(w, S)) \in Nat
         /\ IsFiniteSet(Below(w, S)) /\ Cardinality(Below(w, S)) \in Nat
<1>1. IntOn(Opposite(w, S), S)
  BY DEF IntOn, Opposite
<1>2. QED
  BY <1>1, AboveFinite DEF Below

(* One term less counts that much less.                                    *)
LEMMA CountedOneMore ==
  ASSUME NEW S, IsFiniteSet(S), NEW w, IntOn(w, S), NEW x \in S
  PROVE  Counted(w, S) = w[x] + Counted(w, S \ {x})
<1> DEFINE a == Above(w, S \ {x})
           b == Below(w, S \ {x})
           up == {x} \X (1..w[x])
           down == {x} \X (1..(0 - w[x]))
<1>1. IsFiniteSet(S \ {x}) /\ IntOn(w, S \ {x}) /\ w[x] \in Int /\ 0 - w[x] \in Int
  BY FS_RemoveElement DEF IntOn
<1>2. /\ IsFiniteSet(a) /\ Cardinality(a) \in Nat
      /\ IsFiniteSet(b) /\ Cardinality(b) \in Nat
  BY <1>1, AtomsFinite
<1>3. /\ IsFiniteSet(up) /\ Cardinality(up) = IF w[x] > 0 THEN w[x] ELSE 0
      /\ IsFiniteSet(down) /\ Cardinality(down) = IF 0 - w[x] > 0 THEN 0 - w[x] ELSE 0
  BY <1>1, PairsOf
<1>4. Above(w, S) = a \cup up /\ a \cap up = {}
  BY DEF Above
<1>5. Below(w, S) = b \cup down /\ b \cap down = {}
  BY DEF Below, Above, Opposite
<1> HIDE DEF a, b, up, down
<1>6. Cardinality(a \cup up) = Cardinality(a) + Cardinality(up)
  <2>1. Cardinality(a \cup up) = Cardinality(a) + Cardinality(up) - Cardinality(a \cap up)
    BY <1>2, <1>3, FS_Union
  <2>2. Cardinality(a \cap up) = 0
    BY <1>4, FS_EmptySet
  <2>3. Cardinality(up) \in Int
    BY <1>1, <1>3
  <2>4. QED
    BY <1>2, <2>1, <2>2, <2>3
<1>7. Cardinality(b \cup down) = Cardinality(b) + Cardinality(down)
  <2>1. Cardinality(b \cup down) = Cardinality(b) + Cardinality(down) - Cardinality(b \cap down)
    BY <1>2, <1>3, FS_Union
  <2>2. Cardinality(b \cap down) = 0
    BY <1>5, FS_EmptySet
  <2>3. Cardinality(down) \in Int
    BY <1>1, <1>3
  <2>4. QED
    BY <1>2, <2>1, <2>2, <2>3
<1>8. Counted(w, S) = Cardinality(a) + Cardinality(up) - (Cardinality(b) + Cardinality(down))
  <2>1. Cardinality(Above(w, S)) = Cardinality(a) + Cardinality(up)
    BY <1>4, <1>6, Zenon
  <2>2. Cardinality(Below(w, S)) = Cardinality(b) + Cardinality(down)
    BY <1>5, <1>7, Zenon
  <2>3. Counted(w, S) = Cardinality(Above(w, S)) - Cardinality(Below(w, S))
    BY DEF Counted
  <2>4. QED
    BY <1>1, <1>2, <1>3, <2>1, <2>2, <2>3
<1>9. Counted(w, S \ {x}) = Cardinality(a) - Cardinality(b)
  BY DEF Counted, a, b
<1>10. QED
  BY <1>1, <1>2, <1>3, <1>8, <1>9

-----------------------------------------------------------------------------
(* The recursion of a sum has one solution.                                *)
Solves(g, w, S) ==
  g = [s \in SUBSET S |->
         IF s = {} THEN 0
         ELSE w[CHOOSE x \in s : TRUE] + g[s \ {CHOOSE x \in s : TRUE}]]

LEMMA OneSolution ==
  ASSUME NEW w, NEW S, IsFiniteSet(S), NEW g, Solves(g, w, S), NEW h, Solves(h, w, S)
  PROVE  g[S] = h[S]
<1> DEFINE Differ == {s \in SUBSET S : g[s] # h[s]}
<1>1. SUFFICES ASSUME Differ # {} PROVE FALSE
  OBVIOUS
<1>2. Differ \subseteq FiniteSubsetsOf(S)
  BY FS_Subset DEF FiniteSubsetsOf
<1>3. PICK s \in Differ : \A t \in Differ : ~(<<t, s>> \in StrictSubsetOrdering(S))
  <2>1. IsWellFoundedOn(StrictSubsetOrdering(S), FiniteSubsetsOf(S))
    BY FS_StrictSubsetOrderingWellFounded
  <2> HIDE DEF Differ
  <2>2. QED
    BY <1>1, <1>2, <2>1, WFMin
<1>4. PICK x : x = CHOOSE y \in s : TRUE
  OBVIOUS
<1>5. /\ g[s] = IF s = {} THEN 0 ELSE w[x] + g[s \ {x}]
      /\ h[s] = IF s = {} THEN 0 ELSE w[x] + h[s \ {x}]
  BY <1>4 DEF Solves
<1>6. s # {} /\ x \in s /\ g[s \ {x}] # h[s \ {x}]
  BY <1>3, <1>4, <1>5
<1>7. <<s \ {x}, s>> \in StrictSubsetOrdering(S)
  BY <1>3, <1>6 DEF StrictSubsetOrdering
<1>8. QED
  BY <1>3, <1>6, <1>7

LEMMA SumIsCounted ==
  ASSUME NEW S, IsFiniteSet(S), NEW w, IntOn(w, S)
  PROVE  SumFunctionOnSet(w, S) = Counted(w, S)
<1> DEFINE h == [s \in SUBSET S |-> Counted(w, s)]
<1>1. Solves(h, w, S)
  <2>1. ASSUME NEW s \in SUBSET S
        PROVE  h[s] = IF s = {} THEN 0
                      ELSE w[CHOOSE x \in s : TRUE] + h[s \ {CHOOSE x \in s : TRUE}]
    <3>1. CASE s = {}
      <4>1. Above(w, s) = {} /\ Below(w, s) = {}
        BY <3>1 DEF Above, Below, Opposite
      <4>2. Counted(w, s) = 0
        BY <4>1, FS_EmptySet DEF Counted
      <4>3. QED
        BY <3>1, <4>2
    <3>2. CASE s # {}
      <4>1. PICK x \in s : x = CHOOSE y \in s : TRUE
        BY <3>2
      <4>2. IsFiniteSet(s) /\ IntOn(w, s)
        BY FS_Subset DEF IntOn
      <4>3. Counted(w, s) = w[x] + Counted(w, s \ {x})
        BY <4>2, CountedOneMore
      <4>4. QED
        BY <3>2, <4>1, <4>3
    <3>3. QED
      BY <3>1, <3>2
  <2>2. h = [s \in SUBSET S |-> h[s]]
    OBVIOUS
  <2> HIDE DEF h
  <2>3. QED
    BY <2>1, <2>2 DEF Solves
<1>2. h[S] = Counted(w, S)
  OBVIOUS
<1> HIDE DEF h
<1>3. \E g : Solves(g, w, S) /\ SumFunctionOnSet(w, S) = g[S]
  <2>1. \E g : Solves(g, w, S)
    BY <1>1
  <2>2. QED
    BY <2>1 DEF Solves, SumFunctionOnSet, FoldFunctionOnSet, MapThenFoldSet
<1>4. QED
  BY <1>1, <1>2, <1>3, OneSolution

-----------------------------------------------------------------------------
LEMMA SumType ==
  ASSUME NEW S, IsFiniteSet(S), NEW w, IntOn(w, S)
  PROVE  /\ SumFunctionOnSet(w, S) \in Int
         /\ (\A x \in S : w[x] >= 0) => SumFunctionOnSet(w, S) \in Nat
<1>1. SumFunctionOnSet(w, S) = Cardinality(Above(w, S)) - Cardinality(Below(w, S))
  BY SumIsCounted DEF Counted
<1>2. Cardinality(Above(w, S)) \in Nat /\ Cardinality(Below(w, S)) \in Nat
  BY AtomsFinite
<1>3. ASSUME \A x \in S : w[x] >= 0 PROVE Cardinality(Below(w, S)) = 0
  <2>1. \A x \in S : 1..(0 - w[x]) = {}
    BY <1>3 DEF IntOn
  <2>2. Below(w, S) = {}
    BY <2>1 DEF Below, Above, Opposite
  <2>3. QED
    BY <2>2, FS_EmptySet
<1>4. QED
  BY <1>1, <1>2, <1>3

LEMMA SumOfNone == ASSUME NEW w PROVE SumFunctionOnSet(w, {}) = 0
<1>1. IsFiniteSet({}) /\ IntOn(w, {})
  BY FS_EmptySet DEF IntOn
<1>2. Above(w, {}) = {} /\ Below(w, {}) = {}
  BY DEF Above, Below, Opposite
<1>3. QED
  BY <1>1, <1>2, SumIsCounted, FS_EmptySet DEF Counted

LEMMA SumOneMore ==
  ASSUME NEW S, IsFiniteSet(S), NEW w, NEW x, x \notin S, IntOn(w, S \cup {x})
  PROVE  SumFunctionOnSet(w, S \cup {x}) = w[x] + SumFunctionOnSet(w, S)
<1>1. IsFiniteSet(S \cup {x}) /\ (S \cup {x}) \ {x} = S /\ IntOn(w, S)
  BY FS_AddElement DEF IntOn
<1>2. Counted(w, S \cup {x}) = w[x] + Counted(w, S)
  BY <1>1, CountedOneMore
<1>3. QED
  BY <1>1, <1>2, SumIsCounted

(* The terms may be named otherwise.                                       *)
LEMMA AboveMoved ==
  ASSUME NEW S, IsFiniteSet(S), NEW T, NEW f \in Bijection(S, T),
         NEW w, IntOn(w, S), NEW v, \A x \in S : v[f[x]] = w[x]
  PROVE  Cardinality(Above(v, T)) = Cardinality(Above(w, S))
<1> DEFINE g == [p \in Above(w, S) |-> <<f[p[1]], p[2]>>]
<1>1. /\ f \in [S -> T]
      /\ \A x \in S, y \in S : f[x] = f[y] => x = y
      /\ \A y \in T : \E x \in S : f[x] = y
  BY DEF Bijection, Injection, Surjection, IsInjective
<1>2. \A u, U : /\ \A p \in Above(u, U) : p = <<p[1], p[2]>> /\ p[1] \in U /\ p[2] \in 1..u[p[1]]
                /\ \A x \in U : \A a \in 1..u[x] : <<x, a>> \in Above(u, U)
  BY DEF Above
<1>3. g \in [Above(w, S) -> Above(v, T)]
  BY <1>1, <1>2
<1>4. \A p \in Above(w, S), q \in Above(w, S) : g[p] = g[q] => p = q
  BY <1>1, <1>2
<1>5. \A q \in Above(v, T) : \E p \in Above(w, S) : g[p] = q
  <2> TAKE q \in Above(v, T)
  <2>1. PICK x \in S : f[x] = q[1]
    BY <1>1, <1>2
  <2>2. <<x, q[2]>> \in Above(w, S)
    BY <1>2, <2>1
  <2>3. g[<<x, q[2]>>] = q
    BY <1>2, <2>1, <2>2
  <2>4. QED
    BY <2>2, <2>3
<1>6. g \in Bijection(Above(w, S), Above(v, T))
  <2> HIDE DEF g
  <2>1. QED
    BY <1>3, <1>4, <1>5 DEF Bijection, Injection, Surjection, IsInjective
<1>7. QED
  BY <1>6, AboveFinite, FS_Bijection DEF ExistsBijection

LEMMA SumMoved ==
  ASSUME NEW S, IsFiniteSet(S), NEW T, NEW f \in Bijection(S, T),
         NEW w, IntOn(w, S), NEW v, \A x \in S : v[f[x]] = w[x]
  PROVE  SumFunctionOnSet(v, T) = SumFunctionOnSet(w, S)
<1>1. f \in [S -> T] /\ \A y \in T : \E x \in S : f[x] = y
  BY DEF Bijection, Injection, Surjection
<1>2. IsFiniteSet(T)
  BY FS_Bijection DEF ExistsBijection
<1>3. IntOn(v, T)
  BY <1>1 DEF IntOn
<1>4. Cardinality(Above(v, T)) = Cardinality(Above(w, S))
  BY AboveMoved
<1>5. Cardinality(Below(v, T)) = Cardinality(Below(w, S))
  <2>1. IntOn(Opposite(w, S), S) /\ \A x \in S : Opposite(v, T)[f[x]] = Opposite(w, S)[x]
    BY <1>1 DEF IntOn, Opposite
  <2>2. QED
    BY <2>1, AboveMoved DEF Below
<1>6. QED
  BY <1>2, <1>3, <1>4, <1>5, SumIsCounted DEF Counted

(* A sum is of the terms in the set, whatever else there is.               *)
LEMMA SumSame ==
  ASSUME NEW S, IsFiniteSet(S), NEW w, IntOn(w, S), NEW v, \A x \in S : v[x] = w[x]
  PROVE  SumFunctionOnSet(v, S) = SumFunctionOnSet(w, S)
<1>1. Above(v, S) = Above(w, S) /\ Below(v, S) = Below(w, S) /\ IntOn(v, S)
  BY DEF Above, Below, Opposite, IntOn
<1>2. QED
  BY <1>1, SumIsCounted DEF Counted

=============================================================================
