------------------------------- MODULE SumLemmas -------------------------------
(***************************************************************************)
(* What the money proofs need of sums (Sums).                              *)
(***************************************************************************)
EXTENDS Sums, FiniteSetTheorems, TLAPS

LEMMA UnitsOfOne ==
    ASSUME NEW s, NEW n \in Nat
    PROVE  /\ IsFiniteSet({<<s, i>> : i \in 1 .. n})
           /\ Cardinality({<<s, i>> : i \in 1 .. n}) = n
<1>1. IsFiniteSet(1 .. n) /\ Cardinality(1 .. n) = n
  BY FS_Interval
<1>2. IsFiniteSet({s}) /\ Cardinality({s}) = 1
  BY FS_Singleton
<1>3. Cardinality({s} \X (1 .. n)) = 1 * n /\ IsFiniteSet({s} \X (1 .. n))
  BY ZenonT(30), <1>1, <1>2, FS_Product
<1>4. {s} \X (1 .. n) = {<<s, i>> : i \in 1 .. n}
  OBVIOUS
<1> QED BY <1>3, <1>4

\* A sum is a natural number.
LEMMA SumType ==
    ASSUME NEW S, IsFiniteSet(S), NEW w, \A s \in S : w[s] \in Nat
    PROVE  IsFiniteSet(Units(w, S)) /\ Sum(w, S) \in Nat
<1> DEFINE f == [s \in S |-> {<<s, n>> : n \in 1 .. w[s]}]
           T == {{<<s, n>> : n \in 1 .. w[s]} : s \in S}
<1>1. f \in Surjection(S, T)
  BY DEF Surjection
<1>2. IsFiniteSet(T)
  BY <1>1, FS_Surjection
<1>3. ASSUME NEW t \in T PROVE IsFiniteSet(t)
  <2>1. PICK s \in S : t = {<<s, n>> : n \in 1 .. w[s]}
    OBVIOUS
  <2>2. w[s] \in Nat
    OBVIOUS
  <2> QED BY <2>1, <2>2, UnitsOfOne
<1>4. IsFiniteSet(Units(w, S))
  BY <1>2, <1>3, FS_UNION DEF Units
<1> QED BY <1>4, FS_CardinalityType DEF Sum

LEMMA SumEmpty ==
    ASSUME NEW w
    PROVE  Sum(w, {}) = 0
<1>1. Units(w, {}) = {}
  BY DEF Units
<1> QED BY <1>1, FS_EmptySet DEF Sum

\* Two weights that agree have one sum.
LEMMA SumAgrees ==
    ASSUME NEW S, NEW v, NEW w, \A s \in S : v[s] = w[s]
    PROVE  Sum(v, S) = Sum(w, S)
<1>1. Units(v, S) = Units(w, S)
  BY DEF Units
<1> QED BY <1>1 DEF Sum

\* One summand more.
LEMMA SumAdds ==
    ASSUME NEW S, IsFiniteSet(S), NEW w, \A s \in S : w[s] \in Nat,
           NEW x, x \notin S, w[x] \in Nat
    PROVE  Sum(w, S \cup {x}) = Sum(w, S) + w[x]
<1>1. Units(w, S \cup {x}) = Units(w, S) \cup {<<x, n>> : n \in 1 .. w[x]}
  BY DEF Units
<1>2. Units(w, S) \cap {<<x, n>> : n \in 1 .. w[x]} = {}
  BY DEF Units
<1>3. IsFiniteSet(Units(w, S)) /\ Sum(w, S) \in Nat
  BY SumType
<1>4. Cardinality({}) = 0
  BY FS_EmptySet
<1> DEFINE new == {<<x, n>> : n \in 1 .. w[x]}
<1>5. IsFiniteSet(new) /\ Cardinality(new) = w[x]
  BY UnitsOfOne
<1>6. Units(w, S \cup {x}) = Units(w, S) \cup new /\ Units(w, S) \cap new = {}
  BY <1>1, <1>2
<1> HIDE DEF new
<1>7. Cardinality(Units(w, S) \cup new) =
        Cardinality(Units(w, S)) + Cardinality(new) - Cardinality(Units(w, S) \cap new)
  BY <1>3, <1>5, FS_Union
<1>8. Cardinality(Units(w, S) \cup new) = Cardinality(Units(w, S)) + w[x]
  <2>1. Cardinality(Units(w, S) \cap new) = 0
    BY <1>4, <1>6
  <2>2. Cardinality(Units(w, S)) \in Nat
    BY <1>3 DEF Sum
  <2> QED BY <1>5, <1>7, <2>1, <2>2
<1> QED BY <1>6, <1>8 DEF Sum

\* One summand of S.
LEMMA SumSplits ==
    ASSUME NEW S, IsFiniteSet(S), NEW w, \A s \in S : w[s] \in Nat, NEW x \in S
    PROVE  Sum(w, S) = Sum(w, S \ {x}) + w[x] /\ Sum(w, S \ {x}) \in Nat /\ IsFiniteSet(S \ {x})
<1>1. IsFiniteSet(S \ {x}) /\ (S \ {x}) \cup {x} = S /\ x \notin S \ {x}
  BY FS_RemoveElement
<1>2. \A s \in S \ {x} : w[s] \in Nat
  OBVIOUS
<1>3. Sum(w, (S \ {x}) \cup {x}) = Sum(w, S \ {x}) + w[x]
  BY <1>1, <1>2, SumAdds
<1> QED BY <1>1, <1>2, <1>3, SumType

\* A change of one summand changes the sum as much.
LEMMA SumChanges ==
    ASSUME NEW S, IsFiniteSet(S), NEW v, NEW w, NEW x \in S,
           \A s \in S : v[s] \in Nat /\ w[s] \in Nat,
           \A s \in S \ {x} : v[s] = w[s]
    PROVE  Sum(w, S) = Sum(v, S) + w[x] - v[x]
<1>1. Sum(v, S \ {x}) = Sum(w, S \ {x})
  BY SumAgrees
<1>2. /\ Sum(w, S) = Sum(w, S \ {x}) + w[x] /\ Sum(w, S \ {x}) \in Nat
      /\ Sum(v, S) = Sum(v, S \ {x}) + v[x]
  BY SumSplits
<1> QED BY <1>1, <1>2

\* Less of it, or smaller summands, make a smaller sum.
LEMMA SumGrows ==
    ASSUME NEW S, IsFiniteSet(S), NEW T \in SUBSET S, NEW v, NEW w,
           \A s \in S : v[s] \in Nat /\ w[s] \in Nat, \A s \in T : v[s] <= w[s]
    PROVE  Sum(v, T) <= Sum(w, S)
<1>1. Units(v, T) \subseteq Units(w, S)
  BY DEF Units
<1>2. IsFiniteSet(Units(w, S))
  BY SumType
<1> QED BY <1>1, <1>2, FS_Subset DEF Sum

\* A summand is at most the sum.
LEMMA SumHas ==
    ASSUME NEW S, IsFiniteSet(S), NEW w, \A s \in S : w[s] \in Nat, NEW x \in S
    PROVE  w[x] <= Sum(w, S)
<1>1. Sum(w, S) = Sum(w, S \ {x}) + w[x] /\ Sum(w, S \ {x}) \in Nat
  BY SumSplits
<1> QED BY <1>1

\* A sum of zeros.
LEMMA SumZero ==
    ASSUME NEW S, NEW w, \A s \in S : w[s] = 0
    PROVE  Sum(w, S) = 0
<1>1. Units(w, S) = {}
  BY DEF Units
<1> QED BY <1>1, FS_EmptySet DEF Sum

\* Summands of nothing do not count.
LEMMA SumNonzero ==
    ASSUME NEW S, NEW T \in SUBSET S, NEW w, \A s \in S \ T : w[s] = 0
    PROVE  Sum(w, T) = Sum(w, S)
<1>1. Units(w, T) = Units(w, S)
  BY DEF Units
<1> QED BY <1>1 DEF Sum

\* Summands that one set hands to another.
LEMMA SumMoves ==
    ASSUME NEW S, NEW T, IsFiniteSet(S), NEW f, f \in Bijection(S, T), NEW v, NEW w,
           \A s \in S : w[s] \in Nat /\ v[f[s]] = w[s]
    PROVE  Sum(v, T) = Sum(w, S)
<1> DEFINE g == [u \in Units(w, S) |-> <<f[u[1]], u[2]>>]
<1>1. /\ f \in [S -> T] /\ \A a, b \in S : f[a] = f[b] => a = b
      /\ \A t \in T : \E s \in S : f[s] = t
  BY DEF Bijection, Injection, Surjection, IsInjective
<1>2. \A u \in Units(w, S) : \E s \in S : \E n \in 1 .. w[s] : u = <<s, n>>
  BY DEF Units
<1>3. g \in [Units(w, S) -> Units(v, T)]
  <2>1. ASSUME NEW u \in Units(w, S) PROVE <<f[u[1]], u[2]>> \in Units(v, T)
    <3>1. PICK s \in S : \E n \in 1 .. w[s] : u = <<s, n>>
      BY <1>2
    <3>2. PICK n \in 1 .. w[s] : u = <<s, n>>
      BY <3>1
    <3>3. f[s] \in T /\ n \in 1 .. v[f[s]] /\ u[1] = s /\ u[2] = n
      BY <1>1, <3>2
    <3>4. <<f[s], n>> \in Units(v, T)
      BY <3>3 DEF Units
    <3> QED BY <3>3, <3>4
  <2> QED BY <2>1
<1>4. ASSUME NEW a \in Units(w, S), NEW b \in Units(w, S), g[a] = g[b] PROVE a = b
  <2>1. PICK s \in S, n \in Nat : a = <<s, n>>
    BY <1>2
  <2>2. PICK t \in S, m \in Nat : b = <<t, m>>
    BY <1>2
  <2>3. <<f[s], n>> = <<f[t], m>>
    BY <1>4, <2>1, <2>2
  <2> QED BY <1>1, <2>1, <2>2, <2>3
<1>5. ASSUME NEW u \in Units(v, T) PROVE \E a \in Units(w, S) : g[a] = u
  <2>1. PICK t \in T : \E n \in 1 .. v[t] : u = <<t, n>>
    BY DEF Units
  <2>2. PICK n \in 1 .. v[t] : u = <<t, n>>
    BY <2>1
  <2>3. PICK s \in S : f[s] = t
    BY <1>1
  <2>4. n \in 1 .. w[s]
    BY <2>2, <2>3
  <2>5. <<s, n>> \in Units(w, S)
    BY <2>4 DEF Units
  <2>6. g[<<s, n>>] = u
    BY <2>2, <2>3, <2>5
  <2> QED BY <2>5, <2>6
<1>6. g \in Bijection(Units(w, S), Units(v, T))
  BY <1>3, <1>4, <1>5 DEF Bijection, Injection, Surjection, IsInjective
<1>7. IsFiniteSet(Units(w, S))
  BY SumType
<1> HIDE DEF g
<1> QED BY <1>6, <1>7, FS_Bijection DEF Sum, ExistsBijection

\* What an integer gains and loses.
LEMMA GainsAndLosses ==
    ASSUME NEW S, NEW w \in [S -> Int]
    PROVE  /\ \A s \in S : Gains(w)[s] \in Nat /\ Losses(w)[s] \in Nat
           /\ \A s \in S : Gains(w)[s] - Losses(w)[s] = w[s]
  BY DEF Gains, Losses

LEMMA NetType ==
    ASSUME NEW D, NEW S \in SUBSET D, IsFiniteSet(S), NEW w \in [D -> Int]
    PROVE  Net(w, S) \in Int
<1>1. \A s \in S : Gains(w)[s] \in Nat /\ Losses(w)[s] \in Nat
  BY GainsAndLosses
<1>2. Sum(Gains(w), S) \in Nat /\ Sum(Losses(w), S) \in Nat
  BY <1>1, SumType
<1> QED BY <1>2 DEF Net

LEMMA NetEmpty ==
    ASSUME NEW w
    PROVE  Net(w, {}) = 0
  BY SumEmpty DEF Net

LEMMA NetAgrees ==
    ASSUME NEW D, NEW E, NEW S \in SUBSET (D \cap E), NEW v \in [D -> Int], NEW w \in [E -> Int],
           \A s \in S : v[s] = w[s]
    PROVE  Net(v, S) = Net(w, S)
<1>1. \A s \in S : Gains(v)[s] = Gains(w)[s] /\ Losses(v)[s] = Losses(w)[s]
  BY DEF Gains, Losses
<1>2. Sum(Gains(v), S) = Sum(Gains(w), S) /\ Sum(Losses(v), S) = Sum(Losses(w), S)
  BY <1>1, SumAgrees
<1> QED BY <1>2 DEF Net

\* Gains and losses of one more.
LEMMA NetAdds ==
    ASSUME NEW D, NEW S \in SUBSET D, IsFiniteSet(S), NEW w \in [D -> Int], NEW x \in D \ S
    PROVE  Net(w, S \cup {x}) = Net(w, S) + w[x]
<1>1. /\ \A s \in D : Gains(w)[s] \in Nat /\ Losses(w)[s] \in Nat
      /\ Gains(w)[x] - Losses(w)[x] = w[x]
  BY GainsAndLosses
<1>2. /\ Sum(Gains(w), S \cup {x}) = Sum(Gains(w), S) + Gains(w)[x]
      /\ Sum(Losses(w), S \cup {x}) = Sum(Losses(w), S) + Losses(w)[x]
  BY <1>1, SumAdds
<1>3. Sum(Gains(w), S) \in Nat /\ Sum(Losses(w), S) \in Nat
  BY <1>1, SumType
<1> QED BY <1>1, <1>2, <1>3 DEF Net

LEMMA NetMoves ==
    ASSUME NEW S, NEW T, IsFiniteSet(S), NEW f, f \in Bijection(S, T), NEW v \in [T -> Int],
           NEW w \in [S -> Int], \A s \in S : v[f[s]] = w[s]
    PROVE  Net(v, T) = Net(w, S)
<1>1. \A s \in S : Gains(w)[s] \in Nat /\ Losses(w)[s] \in Nat
  BY GainsAndLosses
<1>2. \A s \in S : f[s] \in T
  BY DEF Bijection, Injection, IsInjective
<1>3. \A s \in S : Gains(v)[f[s]] = Gains(w)[s] /\ Losses(v)[f[s]] = Losses(w)[s]
  BY <1>2 DEF Gains, Losses
<1>4. Sum(Gains(v), T) = Sum(Gains(w), S)
  BY <1>1, <1>3, SumMoves
<1>5. Sum(Losses(v), T) = Sum(Losses(w), S)
  BY <1>1, <1>3, SumMoves
<1> QED BY <1>4, <1>5 DEF Net
===============================================================================
