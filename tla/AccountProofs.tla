----------------------------- MODULE AccountProofs -----------------------------
(* Theorems about the account projection, each for every value of its        *)
(* constants: the account the increments keep is the one the stored facts    *)
(* make.                                                                      *)
EXTENDS ControlProofs, AccountProjection


-----------------------------------------------------------------------------
(* Sums over sets that change.                                               *)

\* A total looks at the terms of its set only.
LEMMA SameTerms ==
    ASSUME NEW S, NEW f, NEW g, \A x \in S : f[x] = g[x]
    PROVE  Total(f, S) = Total(g, S)
<1>1. \A s \in SUBSET S : s # {} => Any(s) \in S
  BY DEF Any
<1>2. ASSUME NEW sums PROVE SumsUp(f, S, sums) <=> SumsUp(g, S, sums)
  <2>1. \A s \in SUBSET S :
          (IF s = {} THEN 0 ELSE f[Any(s)] + sums[s \ {Any(s)}])
            = (IF s = {} THEN 0 ELSE g[Any(s)] + sums[s \ {Any(s)}])
    BY <1>1
  <2>2. QED
    BY <2>1 DEF SumsUp
<1>3. (CHOOSE sums : SumsUp(f, S, sums)) = (CHOOSE sums : SumsUp(g, S, sums))
  BY <1>2
<1>4. QED
  BY <1>3, TotalIs

\* The total of a part is what the sums of the whole say of it.
LEMMA TotalOfPart ==
    ASSUME NEW S, IsFiniteSet(S), NEW f \in [S -> Int], NEW F, Unfolds(f, S, F),
           NEW r \in SUBSET S
    PROVE  Total(f, r) = F[r]
<1>1. IsFiniteSet(r)
  BY FS_Subset
<1>2. PICK g \in [r -> Int] : g = [x \in r |-> f[x]]
  <2>1. \A x \in r : f[x] \in Int
    OBVIOUS
  <2>2. QED
    BY <2>1
<1>3. Total(f, r) = Total(g, r)
  <2>1. \A x \in r : f[x] = g[x]
    BY <1>2
  <2>2. QED
    BY <2>1, SameTerms
<1>4. PICK G : Unfolds(g, r, G)
  BY <1>1, TotalUnfolds
<1>5. PICK Good : Good = {s \in SUBSET r : F[s] = G[s]}
  OBVIOUS
<1>6. {} \in Good
  BY <1>4, <1>5 DEF Unfolds
<1>7. ASSUME NEW s \in SUBSET r, s # {}, \A x \in s : s \ {x} \in Good PROVE s \in Good
  <2>1. PICK e \in s : e = Any(s)
    BY <1>7 DEF Any
  <2>2. F[s \ {e}] = G[s \ {e}] /\ f[e] = g[e]
    BY <1>2, <1>5, <1>7
  <2>3. F[s] = f[e] + F[s \ {e}] /\ G[s] = g[e] + G[s \ {e}]
    BY <1>4, <1>7, <2>1 DEF Unfolds
  <2>4. QED
    BY <1>5, <2>2, <2>3
<1>8. r \in Good
  BY <1>1, <1>6, <1>7, PartByPart
<1>9. QED
  BY <1>3, <1>4, <1>5, <1>8 DEF Unfolds

\* Any element may be taken out of a total.
TakesOut(f, S) == \A s \in SUBSET S : \A x \in s : Total(f, s) = f[x] + Total(f, s \ {x})

LEMMA TotalTakesOut ==
    ASSUME NEW S, IsFiniteSet(S), NEW f \in [S -> Int]
    PROVE  /\ Total(f, {}) = 0
           /\ \A s \in SUBSET S : Total(f, s) \in Int
           /\ TakesOut(f, S)
<1>1. PICK F : Unfolds(f, S, F)
  BY TotalUnfolds
<1>2. \A s \in SUBSET S : Total(f, s) = F[s]
  BY <1>1, TotalOfPart
<1>3. F[{}] = 0 /\ \A s \in SUBSET S : s # {} => F[s] = f[Any(s)] + F[s \ {Any(s)}]
  BY <1>1 DEF Unfolds
<1>4. \A s \in SUBSET S : s # {} => Any(s) \in s
  BY DEF Any
<1>5. ASSUME NEW s \in SUBSET S PROVE F[s] \in Int
  <2>1. PICK Whole : Whole = {r \in SUBSET S : F[r] \in Int}
    OBVIOUS
  <2>2. {} \in Whole
    BY <1>3, <2>1
  <2>3. ASSUME NEW r \in SUBSET S, r # {}, \A x \in r : r \ {x} \in Whole PROVE r \in Whole
    <3>1. PICK e \in r : e = Any(r) /\ F[r] = f[e] + F[r \ {e}]
      BY <1>3, <1>4, <2>3
    <3>2. F[r \ {e}] \in Int /\ f[e] \in Int
      BY <2>1, <2>3
    <3>3. QED
      BY <2>1, <3>1, <3>2
  <2>4. IsFiniteSet(s)
    BY FS_Subset
  <2>5. s \in Whole
    BY <2>2, <2>3, <2>4, PartByPart
  <2>6. QED
    BY <2>1, <2>5
<1>6. PICK Good : Good = {s \in SUBSET S : \A x \in s : F[s] = f[x] + F[s \ {x}]}
  OBVIOUS
<1>7. ASSUME NEW s \in SUBSET S, s # {}, \A x \in s : s \ {x} \in Good PROVE s \in Good
  <2>1. PICK e \in s : e = Any(s) /\ F[s] = f[e] + F[s \ {e}]
    BY <1>3, <1>4, <1>7
  <2>2. ASSUME NEW x \in s, x # e PROVE F[s] = f[x] + F[s \ {x}]
    <3>1. PICK r \in SUBSET S : r = (s \ {e}) \ {x} /\ r = (s \ {x}) \ {e}
      BY <2>2
    <3>2. x \in s \ {e} /\ e \in s \ {x}
      BY <2>2
    <3>3. F[s \ {e}] = f[x] + F[r]
      BY <1>6, <1>7, <3>1, <3>2
    <3>4. F[s \ {x}] = f[e] + F[r]
      BY <1>6, <1>7, <3>1, <3>2
    <3>5. F[r] \in Int /\ f[x] \in Int /\ f[e] \in Int
      BY <1>5
    <3>6. QED
      BY <2>1, <3>3, <3>4, <3>5
  <2>3. QED
    BY <1>6, <2>1, <2>2
<1>8. ASSUME NEW s \in SUBSET S PROVE s \in Good
  <2>1. IsFiniteSet(s)
    BY FS_Subset
  <2>2. \A q \in SUBSET s : q # {} /\ (\A x \in q : q \ {x} \in Good) => q \in Good
    BY <1>7
  <2>3. {} \in Good
    BY <1>6
  <2>4. QED
    BY <2>1, <2>2, <2>3, PartByPart
<1>9. \A s \in SUBSET S : \A x \in s : s \ {x} \in SUBSET S
  OBVIOUS
<1>10. TakesOut(f, S)
  BY <1>2, <1>6, <1>8, <1>9 DEF TakesOut
<1>11. QED
  BY <1>2, <1>3, <1>5, <1>10


\* A total of nothing but zeros is zero.
LEMMA TotalOfZeros ==
    ASSUME NEW S, IsFiniteSet(S), NEW f \in [S -> Int], \A x \in S : f[x] = 0
    PROVE  Total(f, S) = 0
<1>1. PICK k \in Int : k = 0
  OBVIOUS
<1>2. Combines(f, k, f, k, f, S)
  BY <1>1 DEF Combines
<1>3. Total(f, S) = k * Total(f, S) + k * Total(f, S) /\ Total(f, S) \in Int
  BY <1>2, TotalIsLinear, TotalTakesOut
<1>4. QED
  BY <1>1, <1>3

\* Totals that differ in one term differ by it.
LEMMA OneTermChanges ==
    ASSUME NEW S, IsFiniteSet(S), NEW f \in [S -> Int], NEW g \in [S -> Int], NEW y \in S,
           \A x \in S \ {y} : f[x] = g[x]
    PROVE  /\ Total(f, S) = Total(g, S) + f[y] - g[y]
           /\ Total(f, S) \in Int /\ Total(g, S) \in Int
<1>1. PICK r \in SUBSET S : r = S \ {y}
  OBVIOUS
<1>2. /\ Total(f, S) = f[y] + Total(f, r) /\ Total(f, r) \in Int
      /\ Total(g, S) = g[y] + Total(g, r) /\ Total(g, r) \in Int
      /\ Total(f, S) \in Int /\ Total(g, S) \in Int
  BY <1>1, TotalTakesOut DEF TakesOut
<1>3. Total(f, r) = Total(g, r)
  BY <1>1, SameTerms
<1>4. f[y] \in Int /\ g[y] \in Int
  OBVIOUS
<1>5. QED
  BY <1>2, <1>3, <1>4

\* The elements of s in group l.
InGroup(phi, s, l) == {x \in s : phi[x] = l}

\* A total is the total of those of its groups.
LEMMA Grouped ==
    ASSUME NEW P, IsFiniteSet(P), NEW L, IsFiniteSet(L), NEW phi \in [P -> L],
           NEW f \in [P -> Int]
    PROVE  Total(f, P) = Total([l \in L |-> Total(f, InGroup(phi, P, l))], L)
<1>. DEFINE ByGroup(s) == [l \in L |-> Total(f, InGroup(phi, s, l))]
<1>1. PICK Good : Good = {s \in SUBSET P : Total(f, s) = Total(ByGroup(s), L)}
  OBVIOUS
<1>2. /\ Total(f, {}) = 0 /\ \A s \in SUBSET P : Total(f, s) \in Int
      /\ TakesOut(f, P)
  BY TotalTakesOut
<1>3. \A s \in SUBSET P : ByGroup(s) \in [L -> Int]
  <2>1. \A s \in SUBSET P : \A l \in L : Total(f, InGroup(phi, s, l)) \in Int
    BY <1>2 DEF InGroup
  <2>2. QED
    BY <2>1
<1>4. {} \in Good
  <2>1. \A l \in L : ByGroup({})[l] = 0
    BY <1>2 DEF InGroup
  <2>2. Total(ByGroup({}), L) = 0
    <3>. HIDE DEF ByGroup
    <3>1. QED
      BY <1>3, <2>1, TotalOfZeros
  <2>3. QED
    BY <1>1, <1>2, <2>2
<1>5. ASSUME NEW s \in SUBSET P, s # {}, \A x \in s : s \ {x} \in Good PROVE s \in Good
  <2>1. PICK x \in s : TRUE
    BY <1>5
  <2>2. PICK r \in SUBSET P : r = s \ {x} /\ r \in Good
    BY <1>5
  <2>3. PICK y \in L : y = phi[x]
    OBVIOUS
  <2>4. \A l \in L \ {y} : InGroup(phi, s, l) = InGroup(phi, r, l)
    BY <2>2, <2>3 DEF InGroup
  <2>5. InGroup(phi, r, y) = InGroup(phi, s, y) \ {x} /\ x \in InGroup(phi, s, y)
        /\ InGroup(phi, s, y) \in SUBSET P
    BY <2>2, <2>3 DEF InGroup
  <2>6. Total(f, InGroup(phi, s, y)) = f[x] + Total(f, InGroup(phi, r, y))
        /\ Total(f, s) = f[x] + Total(f, r)
    <3>1. Total(f, InGroup(phi, s, y)) = f[x] + Total(f, InGroup(phi, s, y) \ {x})
      BY <1>2, <2>5 DEF TakesOut
    <3>2. Total(f, s) = f[x] + Total(f, s \ {x})
      BY <1>2 DEF TakesOut
    <3>3. QED
      BY <2>2, <2>5, <3>1, <3>2
  <2>7. PICK a, b : a = ByGroup(s) /\ b = ByGroup(r)
    OBVIOUS
  <2>8. /\ a \in [L -> Int] /\ b \in [L -> Int] /\ \A l \in L \ {y} : a[l] = b[l]
        /\ a[y] = f[x] + b[y]
    BY <1>3, <2>2, <2>4, <2>6, <2>7
  <2>9. Total(a, L) = Total(b, L) + a[y] - b[y] /\ Total(b, L) \in Int
    BY <2>8, OneTermChanges
  <2>10. f[x] \in Int /\ b[y] \in Int
    BY <2>8
  <2>11. Total(a, L) = f[x] + Total(b, L)
    BY <2>8, <2>9, <2>10
  <2>12. Total(f, r) = Total(b, L)
    BY <1>1, <2>2, <2>7
  <2>13. QED
    BY <1>1, <2>6, <2>7, <2>11, <2>12
<1>6. P \in Good
  BY <1>4, <1>5, PartByPart
<1>7. QED
  BY <1>1, <1>6

\* The pairs of an element of K and a member of its slice.
Pairs(K, D) == UNION {{l} \X D[l] : l \in K}

\* Of a total over pairs, the totals over the slices.
LEMMA SliceBySlice ==
    ASSUME NEW K, IsFiniteSet(K), NEW D, \A l \in K : IsFiniteSet(D[l]),
           NEW f \in [Pairs(K, D) -> Int]
    PROVE  /\ IsFiniteSet(Pairs(K, D))
           /\ \A l \in K : Total([i \in D[l] |-> f[<<l, i>>]], D[l]) \in Int
           /\ Total(f, Pairs(K, D))
                = Total([l \in K |-> Total([i \in D[l] |-> f[<<l, i>>]], D[l])], K)
<1>. DEFINE P == Pairs(K, D)
            Slice(l) == [i \in D[l] |-> f[<<l, i>>]]
<1>1. \A z \in P : z = <<z[1], z[2]>> /\ z[1] \in K /\ z[2] \in D[z[1]]
  BY DEF Pairs
<1>2. \A l \in K : \A i \in D[l] : <<l, i>> \in P
  BY DEF Pairs
<1>3. \A l \in K : Slice(l) \in [D[l] -> Int]
  BY <1>2
<1>4. IsFiniteSet(P)
  <2>1. PICK B : B = UNION {D[l] : l \in K}
    OBVIOUS
  <2>2. IsFiniteSet(B)
    <3>1. PICK F : F = [l \in K |-> D[l]]
      OBVIOUS
    <3>2. PICK T : T = {D[l] : l \in K}
      OBVIOUS
    <3>3. F \in Surjection(K, T)
      BY <3>1, <3>2 DEF Surjection
    <3>4. IsFiniteSet(T)
      BY <3>3, FS_Surjection
    <3>5. QED
      BY <2>1, <3>2, <3>4, FS_UNION
  <2>3. IsFiniteSet(K \X B)
    BY <2>2, FS_Product
  <2>4. P \subseteq K \X B
    BY <2>1 DEF Pairs
  <2>5. QED
    BY <2>3, <2>4, FS_Subset
<1>5. PICK first \in [P -> K] : first = [z \in P |-> z[1]]
  BY <1>1
<1>6. ASSUME NEW l \in K PROVE Total(f, InGroup(first, P, l)) = Total(Slice(l), D[l])
  <2>1. PICK G \in SUBSET P : G = InGroup(first, P, l)
    BY DEF InGroup
  <2>2. \A z : z \in G <=> z \in P /\ z[1] = l
    BY <1>5, <2>1 DEF InGroup
  <2>3. PICK second \in [G -> D[l]] : second = [z \in G |-> z[2]]
    BY <1>1, <2>2
  <2>4. PICK g \in [G -> Int] : g = [z \in G |-> f[z]]
    OBVIOUS
  <2>5. IsFiniteSet(G)
    BY <1>4, FS_Subset
  <2>6. ASSUME NEW i \in D[l] PROVE Total(g, InGroup(second, G, i)) = Slice(l)[i]
    <3>1. PICK z \in G : z = <<l, i>>
      BY <1>2, <2>2
    <3>2. InGroup(second, G, i) = {z}
      <4>1. \A y \in G : y[2] = i => y = z
        BY <1>1, <2>2, <3>1
      <4>2. QED
        BY <2>3, <3>1, <4>1 DEF InGroup
    <3>3. PICK rest : rest = {z} \ {z} /\ rest = {}
      OBVIOUS
    <3>4. Total(g, {z}) = g[z] + Total(g, rest) /\ Total(g, rest) = 0
      <4>1. TakesOut(g, G) /\ Total(g, {}) = 0
        BY <2>5, TotalTakesOut
      <4>2. {z} \in SUBSET G /\ z \in {z}
        OBVIOUS
      <4>3. Total(g, {z}) = g[z] + Total(g, {z} \ {z})
        BY <4>1, <4>2 DEF TakesOut
      <4>4. QED
        BY <3>3, <4>1, <4>3
    <3>5. g[z] = Slice(l)[i]
      BY <2>4, <3>1
    <3>6. Total(g, {z}) = g[z]
      <4>1. g[z] \in Int
        OBVIOUS
      <4>2. QED
        BY <3>4, <4>1
    <3>7. QED
      BY <3>2, <3>5, <3>6
  <2>7. Total(g, G) = Total([i \in D[l] |-> Total(g, InGroup(second, G, i))], D[l])
    BY <2>5, Grouped
  <2>8. Total(f, G) = Total(g, G)
    BY <2>4, SameTerms
  <2>9. [i \in D[l] |-> Total(g, InGroup(second, G, i))] = Slice(l)
    BY <2>6
  <2>10. QED
    BY <2>1, <2>7, <2>8, <2>9
<1>7. Total(f, P) = Total([l \in K |-> Total(f, InGroup(first, P, l))], K)
  <2>1. f \in [P -> Int]
    OBVIOUS
  <2>. HIDE DEF P
  <2>2. QED
    BY <1>4, <1>5, <2>1, Grouped
<1>8. [l \in K |-> Total(f, InGroup(first, P, l))] = [l \in K |-> Total(Slice(l), D[l])]
  BY <1>6
<1>9. \A l \in K : Total(Slice(l), D[l]) \in Int
  BY <1>3, TotalTakesOut
<1>10. QED
  BY <1>4, <1>7, <1>8, <1>9

\* The first numbers without the last of them.
LEMMA OneFewer ==
    ASSUME NEW m \in Nat, m # 0 PROVE (1..m) \ {m} = 1..(m - 1)
<1>1. \A i : i \in (1..m) \ {m} <=> i \in 1..(m - 1)
  OBVIOUS
<1>2. QED
  BY <1>1

\* Each value is the one before it and what its step adds.
Climbs(v, g, n) == \A i \in 1..n : v[i] = v[i - 1] + g[i]

\* What is added step by step is what came of it.
LEMMA StepByStep ==
    ASSUME NEW n \in Nat, NEW v \in [0..n -> Int], NEW g \in [1..n -> Int], Climbs(v, g, n)
    PROVE  Total(g, 1..n) = v[n] - v[0]
<1>1. PICK S : S = 1..n
  OBVIOUS
<1>2. IsFiniteSet(S) /\ g \in [S -> Int]
  BY <1>1, FS_Interval
<1>3. Total(g, {}) = 0 /\ TakesOut(g, S)
  BY <1>2, TotalTakesOut
<1>4. PICK Bad : Bad = {m \in 0..n : Total(g, 1..m) # v[m] - v[0]}
  OBVIOUS
<1>5. ASSUME Bad # {} PROVE FALSE
  <2>1. PICK m \in Bad : \A k \in Bad : m <= k
    <3>1. Bad \in SUBSET Nat
      BY <1>4
    <3>2. QED
      BY <1>5, <3>1, LeastNat
  <2>2. m \in 0..n /\ Total(g, 1..m) # v[m] - v[0]
    BY <1>4, <2>1
  <2>3. CASE m = 0
    <3>1. 1..m = {} /\ v[0] \in Int
      BY <2>3
    <3>2. QED
      BY <1>3, <2>2, <2>3, <3>1
  <2>4. CASE m # 0
    <3>1. PICK k \in 0..n : k = m - 1 /\ k < m
      BY <2>2, <2>4
    <3>2. Total(g, 1..k) = v[k] - v[0]
      <4>1. k \notin Bad
        BY <2>1, <2>2, <3>1
      <4>2. QED
        BY <1>4, <4>1
    <3>3. m \in 1..n /\ m \in 1..m /\ m \in Nat /\ k \in Nat
      BY <2>2, <2>4
    <3>4. PICK s \in SUBSET S : s = 1..m
      BY <1>1, <2>2
    <3>5. s \ {m} = 1..k
      <4>1. (1..m) \ {m} = 1..(m - 1)
        BY <2>4, <3>3, OneFewer
      <4>2. QED
        BY <3>1, <3>4, <4>1
    <3>6. Total(g, s) = g[m] + Total(g, s \ {m})
      BY <1>3, <3>3, <3>4 DEF TakesOut
    <3>7. v[m] = v[k] + g[m]
      BY <3>1, <3>3 DEF Climbs
    <3>8. v[0] \in Int /\ v[k] \in Int /\ v[m] \in Int /\ g[m] \in Int
      BY <2>2, <3>1, <3>3
    <3>9. PICK a, b : a = Total(g, s) /\ b = Total(g, 1..k) /\ a = g[m] + b
      BY <3>5, <3>6
    <3>10. a = v[m] - v[0]
      <4>1. PICK o \in Int, h \in Int, w \in Int, e \in Int :
                o = v[0] /\ h = v[k] /\ w = v[m] /\ e = g[m]
        BY <3>8
      <4>2. b = h - o /\ w = h + e /\ a = e + b
        BY <3>2, <3>7, <3>9, <4>1
      <4>3. a = w - o
        BY <4>2
      <4>4. QED
        BY <4>1, <4>3
    <3>11. QED
      BY <2>2, <3>4, <3>9, <3>10
  <2>5. QED
    BY <2>3, <2>4
<1>6. n \in 0..n
  OBVIOUS
<1>7. QED
  BY <1>4, <1>5, <1>6


-----------------------------------------------------------------------------
(* What is taken in the order of its keys.                                   *)

\* Keys of one length are in one line.
LEMMA KeysInLine ==
    ASSUME NEW k \in Nat
    PROVE  /\ \A a \in [1..k -> Int] : ~Earlier(a, a)
           /\ \A a, b, c \in [1..k -> Int] : Earlier(a, b) /\ Earlier(b, c) => Earlier(a, c)
           /\ \A a, b \in [1..k -> Int] : a # b => Earlier(a, b) \/ Earlier(b, a)
<1>1. ASSUME NEW a \in [1..k -> Int] PROVE ~Earlier(a, a)
  BY DEF Earlier
<1>2. ASSUME NEW a \in [1..k -> Int], NEW b \in [1..k -> Int], NEW c \in [1..k -> Int],
             Earlier(a, b), Earlier(b, c)
      PROVE  Earlier(a, c)
  <2>1. PICK i \in 1..k : a[i] < b[i] /\ \A j \in 1..(i - 1) : a[j] = b[j]
    BY <1>2 DEF Earlier
  <2>2. PICK m \in 1..k : b[m] < c[m] /\ \A j \in 1..(m - 1) : b[j] = c[j]
    BY <1>2 DEF Earlier
  <2>3. CASE i < m
    <3>1. i \in 1..(m - 1) /\ \A j \in 1..(i - 1) : j \in 1..(m - 1)
      BY <2>3
    <3>2. a[i] < c[i] /\ \A j \in 1..(i - 1) : a[j] = c[j]
      BY <2>1, <2>2, <3>1
    <3>3. QED
      BY <3>2 DEF Earlier
  <2>4. CASE i = m
    <3>1. a[i] < c[i]
      BY <2>1, <2>2, <2>4
    <3>2. \A j \in 1..(i - 1) : a[j] = c[j]
      BY <2>1, <2>2, <2>4
    <3>3. QED
      BY <3>1, <3>2 DEF Earlier
  <2>5. CASE i > m
    <3>1. m \in 1..(i - 1) /\ \A j \in 1..(m - 1) : j \in 1..(i - 1)
      BY <2>5
    <3>2. a[m] < c[m] /\ \A j \in 1..(m - 1) : a[j] = c[j]
      BY <2>1, <2>2, <3>1
    <3>3. QED
      BY <3>2 DEF Earlier
  <2>6. QED
    BY <2>3, <2>4, <2>5
<1>3. ASSUME NEW a \in [1..k -> Int], NEW b \in [1..k -> Int], a # b
      PROVE  Earlier(a, b) \/ Earlier(b, a)
  <2>1. PICK D : D = {i \in 1..k : a[i] # b[i]}
    OBVIOUS
  <2>2. D # {} /\ D \in SUBSET Nat
    <3>1. ASSUME \A i \in 1..k : a[i] = b[i] PROVE a = b
      BY <3>1
    <3>2. PICK i \in 1..k : a[i] # b[i]
      BY <1>3, <3>1
    <3>3. i \in D
      BY <2>1, <3>2
    <3>4. \A j \in 1..k : j \in Nat
      OBVIOUS
    <3>5. D \in SUBSET Nat
      BY <2>1, <3>4
    <3>6. QED
      BY <3>3, <3>5
  <2>3. PICK i \in D : \A j \in D : i <= j
    BY <2>2, LeastNat
  <2>4. i \in 1..k /\ a[i] # b[i] /\ a[i] \in Int /\ b[i] \in Int
    BY <2>1
  <2>5. ASSUME NEW j \in 1..(i - 1) PROVE a[j] = b[j]
    <3>1. j \in 1..k /\ ~(i <= j)
      BY <2>4
    <3>2. QED
      BY <2>1, <2>3, <3>1
  <2>6. a[i] < b[i] \/ b[i] < a[i]
    BY <2>4
  <2>7. QED
    BY <2>4, <2>5, <2>6 DEF Earlier
<1>4. QED
  BY <1>1, <1>2, <1>3

\* The elements of S have keys of one length, and no two the same.
Keyed(key, S) ==
    \E k \in Nat : /\ \A x \in S : key[x] \in [1..k -> Int]
                   /\ \A x, y \in S : key[x] = key[y] => x = y

\* A line of keys: none before itself, one of two before the other, and so on.
LEMMA KeyedInLine ==
    ASSUME NEW S, NEW key, Keyed(key, S)
    PROVE  /\ \A x \in S : ~Earlier(key[x], key[x])
           /\ \A x, y, z \in S : Earlier(key[x], key[y]) /\ Earlier(key[y], key[z])
                                   => Earlier(key[x], key[z])
           /\ \A x, y \in S : x # y => Earlier(key[x], key[y]) \/ Earlier(key[y], key[x])
<1>1. PICK k \in Nat : /\ \A x \in S : key[x] \in [1..k -> Int]
                       /\ \A x, y \in S : key[x] = key[y] => x = y
  BY DEF Keyed
<1>2. QED
  BY <1>1, KeysInLine

\* There is a last element, and it is the one that is chosen.
LEMMA LatestIsLast ==
    ASSUME NEW S, IsFiniteSet(S), NEW key, Keyed(key, S), NEW s \in SUBSET S, s # {}
    PROVE  /\ LastBy(key, s) \in s
           /\ \A y \in s \ {LastBy(key, s)} : Earlier(key[y], key[LastBy(key, s)])
<1>. DEFINE Last(x, r) == \A y \in r \ {x} : Earlier(key[y], key[x])
<1>1. PICK Good : Good = {r \in SUBSET s : r = {} \/ \E x \in r : Last(x, r)}
  OBVIOUS
<1>2. IsFiniteSet(s)
  BY FS_Subset
<1>3. {} \in Good
  BY <1>1
<1>4. ASSUME NEW r \in SUBSET s, r # {}, \A x \in r : r \ {x} \in Good PROVE r \in Good
  <2>1. PICK e \in r : TRUE
    BY <1>4
  <2>2. CASE r \ {e} = {}
    BY <1>1, <2>2
  <2>3. CASE r \ {e} # {}
    <3>1. PICK m \in r \ {e} : Last(m, r \ {e})
      BY <1>1, <1>4, <2>3
    <3>2. e \in S /\ m \in S /\ e # m
      OBVIOUS
    <3>3. CASE Earlier(key[e], key[m])
      BY <1>1, <3>1, <3>3
    <3>4. CASE Earlier(key[m], key[e])
      <4>1. ASSUME NEW y \in r \ {e} PROVE Earlier(key[y], key[e])
        BY <3>1, <3>2, <3>4, KeyedInLine
      <4>2. QED
        BY <1>1, <4>1
    <3>5. QED
      BY <3>2, <3>3, <3>4, KeyedInLine
  <2>4. QED
    BY <2>2, <2>3
<1>5. s \in Good
  BY <1>2, <1>3, <1>4, PartByPart
<1>6. \E x \in s : Last(x, s)
  BY <1>1, <1>5
<1>7. LastBy(key, s) = CHOOSE x \in s : Last(x, s)
  BY DEF LastBy
<1>8. LastBy(key, s) \in s /\ Last(LastBy(key, s), s)
  BY <1>6, <1>7
<1>9. QED
  BY <1>8

\* What a step g makes of the parts of S, the last element taken last.
Takes(S, V, base, last, g, F) ==
    /\ F \in [SUBSET S -> V]
    /\ \A s \in SUBSET S : F[s] = IF s = {} THEN base ELSE g[<<last[s], F[s \ {last[s]}]>>]

LEMMA TakesExist ==
    ASSUME NEW S, IsFiniteSet(S), NEW V, NEW base \in V,
           NEW last, \A s \in SUBSET S : s # {} => last[s] \in s,
           NEW g \in [S \X V -> V]
    PROVE  \E F : Takes(S, V, base, last, g, F)
<1>. DEFINE Value(F, s) == IF s = {} THEN base ELSE g[<<last[s], F[s \ {last[s]}]>>]
            D(n) == {s \in SUBSET S : Cardinality(s) <= n}
            Fits(n, h) == h \in [D(n) -> V] /\ \A s \in D(n) : h[s] = Value(h, s)
            Good(n) == \E h : Fits(n, h)
<1>1. \A s \in SUBSET S : IsFiniteSet(s) /\ Cardinality(s) \in Nat /\ Cardinality(s) <= Cardinality(S)
  BY FS_Subset, FS_CardinalityType
<1>2. \A s \in SUBSET S : s # {} => Cardinality(s \ {last[s]}) = Cardinality(s) - 1
  BY <1>1, FS_RemoveElement
<1>3. Good(0)
  <2>1. \A s \in D(0) : s = {}
    BY <1>1, FS_EmptySet
  <2>2. PICK h : h = [s \in D(0) |-> base]
    OBVIOUS
  <2>3. Fits(0, h)
    BY <2>1, <2>2
  <2>4. QED
    BY <2>3
<1>4. ASSUME NEW n \in Nat, Good(n) PROVE Good(n + 1)
  <2>1. PICK h : Fits(n, h)
    BY <1>4
  <2>2. \A s \in D(n + 1) : s # {} => last[s] \in s /\ s \ {last[s]} \in D(n)
    BY <1>1, <1>2
  <2>3. PICK k : k = [s \in D(n + 1) |-> Value(h, s)]
    OBVIOUS
  <2>4. ASSUME NEW s \in D(n + 1) PROVE Value(h, s) \in V
    <3>1. CASE s = {}
      BY <3>1
    <3>2. CASE s # {}
      <4>1. PICK x \in S, v \in V : x = last[s] /\ v = h[s \ {last[s]}]
        BY <2>1, <2>2, <3>2
      <4>2. g[<<x, v>>] \in V
        OBVIOUS
      <4>3. QED
        BY <3>2, <4>1, <4>2
    <3>3. QED
      BY <3>1, <3>2
  <2>5. k \in [D(n + 1) -> V]
    BY <2>3, <2>4
  <2>6. \A s \in D(n) : s \in D(n + 1) /\ k[s] = h[s]
    <3>1. \A s \in D(n) : s \in D(n + 1)
      BY <1>1
    <3>. HIDE DEF D
    <3>2. \A s \in D(n) : k[s] = Value(h, s)
      BY <2>3, <3>1
    <3>. HIDE DEF Value
    <3>3. QED
      BY <2>1, <3>1, <3>2
  <2>7. \A s \in D(n + 1) : k[s] = Value(k, s)
    <3>1. \A s \in D(n + 1) : Value(k, s) = Value(h, s)
      BY <2>2, <2>6
    <3>. HIDE DEF Value
    <3>2. QED
      BY <2>3, <3>1
  <2>8. QED
    BY <2>5, <2>7
<1>5. \A n \in Nat : Good(n)
  <2>1. PICK Bad : Bad = {n \in Nat : ~Good(n)}
    OBVIOUS
  <2>. HIDE DEF Good
  <2>2. ASSUME Bad # {} PROVE FALSE
    <3>1. PICK m \in Bad : \A n \in Bad : m <= n
      BY <2>1, <2>2, LeastNat
    <3>2. m \in Nat /\ m # 0 /\ m - 1 \in Nat
      BY <1>3, <2>1, <3>1
    <3>3. m - 1 \notin Bad
      BY <3>1, <3>2
    <3>4. Good(m - 1 + 1)
      BY <1>4, <2>1, <3>2, <3>3
    <3>5. m - 1 + 1 = m
      BY <3>2
    <3>6. QED
      BY <2>1, <3>1, <3>4, <3>5
  <2>3. QED
    BY <2>1, <2>2
<1>6. PICK n \in Nat : n = Cardinality(S)
  BY <1>1
<1>7. D(n) = SUBSET S
  BY <1>1, <1>6
<1>8. \E h : Fits(n, h)
  <2>. HIDE DEF Fits
  <2>1. QED
    BY <1>5
<1>9. QED
  BY <1>7, <1>8 DEF Takes


-----------------------------------------------------------------------------
(* AccountProjection: what is recorded.                                      *)

\* The assumptions one by one.
LEMMA AccountNumbers ==
    /\ Spread \in Nat /\ Commission \in Nat /\ Capital \in Nat /\ LastMoment \in Nat
    /\ DayLength \in Nat /\ DayLength > 0 /\ FundingDue \in Int
    /\ BidAt \in [0..LastMoment -> Nat \ {0}]
BY AccountAssumption

\* What a leg is.
LEMMA LegIsTyped ==
    ASSUME NEW l \in Legs
    PROVE  /\ LegOf[l].product \in HeldProducts /\ LegOf[l].side \in {1, -1}
           /\ LegOf[l].sleeve \in Sleeves /\ LegOf[l].group \in Nat
           /\ LegOf[l].fills \subseteq Nat \ {0} /\ LegOf[l].delay \in Nat
<1>1. PICK R : /\ R = [product : {"spot", "perp"}, side : {1, -1}, sleeve : STRING,
                       group : Nat, role : {"target", "compensation"},
                       fills : SUBSET (Nat \ {0}), delay : Nat]
               /\ LegOf \in Seq(R)
  BY AccountAssumption
<1>2. LegOf[l] \in R
  <2>1. LegOf \in Seq(R)
    BY <1>1
  <2>2. LegOf \in [1..Len(LegOf) -> R] /\ DOMAIN LegOf = 1..Len(LegOf)
    BY <2>1
  <2>3. l \in 1..Len(LegOf)
    BY <2>2 DEF Legs
  <2>4. QED
    BY <2>2, <2>3
<1>3. LegOf[l].sleeve \in Sleeves
  BY DEF Sleeves
<1>4. QED
  BY <1>1, <1>2, <1>3 DEF HeldProducts

\* There are finitely many of everything.
LEMMA LegsAreFinite ==
    IsFiniteSet(Legs) /\ IsFiniteSet(Sleeves) /\ IsFiniteSet(HeldProducts) /\ Legs \subseteq Nat
<1>1. PICK n \in Nat : Legs = 1..n
  BY AccountAssumption DEF Legs
<1>2. IsFiniteSet(Legs) /\ Legs \subseteq Nat
  BY <1>1, FS_Interval
<1>3. IsFiniteSet(Sleeves)
  <2>1. PICK f : f = [l \in Legs |-> LegOf[l].sleeve]
    OBVIOUS
  <2>2. f \in Surjection(Legs, Sleeves)
    BY <2>1 DEF Surjection, Sleeves
  <2>3. QED
    BY <1>2, <2>2, FS_Surjection
<1>4. IsFiniteSet(HeldProducts)
  <2>1. IsFiniteSet({}) /\ IsFiniteSet({} \cup {"spot"})
    BY FS_EmptySet, FS_AddElement
  <2>2. IsFiniteSet(({} \cup {"spot"}) \cup {"perp"})
    BY <2>1, FS_AddElement
  <2>3. ({} \cup {"spot"}) \cup {"perp"} = HeldProducts
    BY DEF HeldProducts
  <2>4. QED
    BY <2>2, <2>3
<1>5. QED
  BY <1>2, <1>3, <1>4

\* What is recorded of a leg.
LEMMA ReportsAreTyped ==
    ASSUME AccountInvariant, NEW l \in Legs
    PROVE  /\ Len(reports[l]) \in Nat /\ DOMAIN reports[l] = 1..Len(reports[l])
           /\ \A i \in 1..Len(reports[l]) : /\ reports[l][i] \in ReportRow
                                            /\ reports[l][i].filled \in Nat \ {0}
           /\ LatestReport(l) \in ReportRow
           /\ rankOf[l] \in Nat
<1>1. reports[l] \in Seq(ReportRow)
  BY DEF AccountInvariant
<1>2. /\ Len(reports[l]) \in Nat /\ DOMAIN reports[l] = 1..Len(reports[l])
      /\ \A i \in 1..Len(reports[l]) : reports[l][i] \in ReportRow
  BY <1>1
<1>3. \A i \in 1..Len(reports[l]) : reports[l][i].filled \in Nat \ {0}
  BY <1>2, LegIsTyped DEF AccountInvariant, AccountTypeOK
<1>4. NoReport \in ReportRow
  BY DEF NoReport, ReportRow
<1>5. reports[l] # << >> => Len(reports[l]) \in 1..Len(reports[l])
  BY <1>1
<1>6. LatestReport(l) \in ReportRow
  BY <1>2, <1>4, <1>5 DEF LatestReport
<1>7. rankOf[l] \in Nat
  BY AccountAssumption DEF AccountInvariant, AccountTypeOK, Legs
<1>8. QED
  BY <1>2, <1>3, <1>6, <1>7

\* The ranks are of one leg each.
LEMMA RanksApart ==
    ASSUME AccountInvariant, NEW k \in Legs, NEW l \in Legs, rankOf[k] = rankOf[l]
    PROVE  k = l
BY AccountAssumption DEF AccountInvariant, AccountTypeOK, Legs

\* An order that was filled.
LEMMA OrderIsTyped ==
    ASSUME AccountInvariant, NEW l \in FilledLegs
    PROVE  /\ l \in Legs /\ LatestOrder(l).leg = l
           /\ LatestOrder(l).filled = LatestReport(l).filled
           /\ LatestOrder(l).filled \in Nat \ {0}
           /\ LatestOrder(l).paid = LatestReport(l).paid /\ LatestOrder(l).paid \in Int
           /\ LatestOrder(l).fee = Commission * LatestReport(l).filled
           /\ LatestOrder(l).fee \in Int
           /\ LatestOrder(l).observed \in Nat /\ LatestOrder(l).available \in Nat
<1>1. l \in Legs /\ LatestReport(l).filled > 0
  BY DEF FilledLegs
<1>2. LatestReport(l) \in ReportRow
  BY <1>1, ReportsAreTyped
<1>3. PICK x \in ReportRow : x = LatestReport(l)
  BY <1>2
<1>4. Commission * x.filled \in Int
  BY AccountNumbers DEF ReportRow
<1>5. QED
  BY <1>1, <1>3, <1>4 DEF LatestOrder, ReportRow

\* The orders, the observations and the units are each in one line.
LEMMA OrdersInLine ==
    ASSUME AccountInvariant
    PROVE  IsFiniteSet(FilledLegs) /\ Keyed(OrderKeys, FilledLegs)
<1>1. IsFiniteSet(FilledLegs)
  <2>1. FilledLegs \subseteq Legs
    BY DEF FilledLegs
  <2>2. QED
    BY <2>1, LegsAreFinite, FS_Subset
<1>2. ASSUME NEW l \in FilledLegs
      PROVE  OrderKeys[l] \in [1..3 -> Int] /\ OrderKeys[l][3] = rankOf[l]
  <2>1. OrderKeys[l] = <<LatestOrder(l).observed, LatestOrder(l).available, rankOf[l]>>
    BY <1>2 DEF OrderKeys
  <2>2. LatestOrder(l).observed \in Int /\ LatestOrder(l).available \in Int /\ rankOf[l] \in Int
    BY OrderIsTyped, ReportsAreTyped
  <2>3. QED
    BY <2>1, <2>2
<1>3. ASSUME NEW k \in FilledLegs, NEW l \in FilledLegs, OrderKeys[k] = OrderKeys[l] PROVE k = l
  <2>1. rankOf[k] = rankOf[l]
    BY <1>2, <1>3
  <2>2. QED
    BY <2>1, OrderIsTyped, RanksApart
<1>4. QED
  BY <1>1, <1>2, <1>3 DEF Keyed


-----------------------------------------------------------------------------
(* Positions and books.                                                      *)

Position == [quantity : Int, average : Int]
Holdings == [HeldProducts -> Position]
Books    == [cash : Int, positions : Holdings, sleeves : [Sleeves -> Holdings],
             refused : BOOLEAN]

\* What the sign of a product says.
LEMMA SignsOfProduct ==
    ASSUME NEW a \in Int, NEW b \in Int
    PROVE  /\ a * b \in Int
           /\ (a * b > 0 <=> (a > 0 /\ b > 0) \/ (a < 0 /\ b < 0))
           /\ (a * b < 0 <=> (a > 0 /\ b < 0) \/ (a < 0 /\ b > 0))
           /\ (a = 0 \/ b = 0 => a * b = 0)
<1>1. CASE a > 0 /\ b > 0
  BY <1>1
<1>2. CASE a > 0 /\ b < 0
  <2>1. PICK c \in Int : c = -b /\ c > 0 /\ b = -c
    BY <1>2
  <2>2. a * c > 0 /\ a * c \in Int
    BY <1>2, <2>1
  <2>3. a * b = -(a * c)
    BY <2>1
  <2>4. QED
    BY <1>2, <2>2, <2>3
<1>3. CASE a < 0 /\ b > 0
  <2>1. PICK c \in Int : c = -a /\ c > 0 /\ a = -c
    BY <1>3
  <2>2. c * b > 0 /\ c * b \in Int
    BY <1>3, <2>1
  <2>3. a * b = -(c * b)
    BY <2>1
  <2>4. QED
    BY <1>3, <2>2, <2>3
<1>4. CASE a < 0 /\ b < 0
  <2>1. PICK c \in Int, e \in Int : c = -a /\ c > 0 /\ a = -c /\ e = -b /\ e > 0 /\ b = -e
    BY <1>4
  <2>2. c * e > 0 /\ c * e \in Int
    BY <2>1
  <2>3. a * b = c * e
    BY <2>1
  <2>4. QED
    BY <1>4, <2>2, <2>3
<1>5. CASE a = 0 \/ b = 0
  BY <1>5
<1>6. QED
  BY <1>1, <1>2, <1>3, <1>4, <1>5

\* A fill moves the quantity by what it filled.
LEMMA MovedIsPosition ==
    ASSUME NEW h \in Position, NEW d \in Int, NEW x \in Int
    PROVE  Moved(h, d, x) \in Position /\ Moved(h, d, x).quantity = h.quantity + d
<1>1. PICK Q \in Int, A \in Int : Q = h.quantity /\ A = h.average
  BY DEF Position
<1>2. PICK now \in Int : now = Q + d
  OBVIOUS
<1>3. Magnitude(now) \in Nat /\ (now # 0 => Magnitude(now) > 0)
  BY DEF Magnitude
<1>4. A * Magnitude(Q) + x * Magnitude(d) \in Int
  BY DEF Magnitude
<1>5. PICK sum \in Int : sum = A * Magnitude(Q) + x * Magnitude(d)
  BY <1>4
<1>6. now # 0 => sum \div Magnitude(now) \in Int
  <2>1. PICK n \in Nat : n = Magnitude(now) /\ (now # 0 => n > 0)
    BY <1>3
  <2>2. n > 0 => sum \div n \in Int
    OBVIOUS
  <2>3. QED
    BY <2>1, <2>2
<1>7. PICK grown : grown = sum \div Magnitude(now)
  OBVIOUS
<1>8. Moved(h, d, x) = CASE now = 0 -> Flat
                         [] Q * d > 0 -> [quantity |-> now, average |-> grown]
                         [] Q * d < 0 /\ Q * now > 0 -> [h EXCEPT !.quantity = now]
                         [] OTHER -> [quantity |-> now, average |-> x]
  BY <1>1, <1>2, <1>5, <1>7 DEF Moved
<1>9. CASE now = 0
  <2>1. Moved(h, d, x) = Flat
    BY <1>1, <1>2, <1>9, SignsOfProduct DEF Moved
  <2>2. QED
    BY <1>1, <1>2, <1>9, <2>1 DEF Flat, Position
<1>10. CASE now # 0
  <2>1. \/ Moved(h, d, x) = [quantity |-> now, average |-> grown]
        \/ Moved(h, d, x) = [h EXCEPT !.quantity = now]
        \/ Moved(h, d, x) = [quantity |-> now, average |-> x]
    BY <1>8, <1>10
  <2>2. grown \in Int
    BY <1>6, <1>7, <1>10
  <2>3. QED
    BY <1>1, <1>2, <2>1, <2>2 DEF Position
<1>11. QED
  BY <1>9, <1>10

\* A position was averaged without a loss.
AveragedWhole(h, d, x) ==
    h.quantity * d > 0 =>
        Moved(h, d, x).average * (h.quantity + d) = h.average * h.quantity + x * d

\* What a fill realizes and leaves in the position is what it was worth at its
\* price, whichever side the position was on and ends on.
LEMMA RealizedIsMoved ==
    ASSUME NEW h \in Position, NEW d \in Int, d # 0, NEW x \in Int, AveragedWhole(h, d, x)
    PROVE  /\ RealizedPnl(h, d, x) \in Int
           /\ RealizedPnl(h, d, x) - Moved(h, d, x).average * Moved(h, d, x).quantity
                = -(h.average * h.quantity) - x * d
<1>1. PICK Q \in Int, A \in Int : Q = h.quantity /\ A = h.average
  BY DEF Position
<1>2. PICK now \in Int : now = Q + d
  OBVIOUS
<1>3. Moved(h, d, x) \in Position /\ Moved(h, d, x).quantity = now
  BY <1>1, <1>2, MovedIsPosition
<1>0. PICK B \in Int : B = Moved(h, d, x).average
  BY <1>3 DEF Position
<1>4. PICK R : B = Moved(h, d, x).average /\ R = RealizedPnl(h, d, x)
  BY <1>0
<1>5. SUFFICES R \in Int /\ R - B * now = -(A * Q) - x * d
  BY <1>1, <1>3, <1>4
<1>6. Q * d \in Int /\ (Q * d > 0 <=> (Q > 0 /\ d > 0) \/ (Q < 0 /\ d < 0))
      /\ (Q * d < 0 <=> (Q > 0 /\ d < 0) \/ (Q < 0 /\ d > 0))
  BY SignsOfProduct
<1>7. Q * now \in Int /\ (Q * now > 0 <=> (Q > 0 /\ now > 0) \/ (Q < 0 /\ now < 0))
  BY SignsOfProduct
<1>8. CASE Q = 0
  <2>1. R = 0
    BY <1>1, <1>4, <1>8 DEF RealizedPnl
  <2>2. now = d /\ ~(Q * d > 0) /\ ~(Q * d < 0)
    BY <1>2, <1>6, <1>8
  <2>3. Moved(h, d, x) = [quantity |-> now, average |-> x]
    BY <1>1, <1>2, <2>2 DEF Moved
  <2>4. B = x /\ A * Q = 0
    BY <1>4, <1>8, <2>3
  <2>5. QED
    BY <2>1, <2>2, <2>4
<1>9. CASE Q * d > 0
  <2>1. R = 0
    BY <1>1, <1>4, <1>6, <1>9 DEF RealizedPnl
  <2>2. B * now = A * Q + x * d
    BY <1>1, <1>2, <1>4, <1>9 DEF AveragedWhole
  <2>3. A * Q \in Int /\ x * d \in Int
    BY SignsOfProduct
  <2>4. QED
    BY <2>1, <2>2, <2>3
<1>10. CASE Q * d < 0
  <2>1. PICK m \in Int : m = Smaller(Magnitude(Q), Magnitude(d)) * (IF Q > 0 THEN 1 ELSE -1)
    BY DEF Smaller, Magnitude
  <2>2. R = (x - A) * m
    <3>1. R = (x - A) * Smaller(Magnitude(Q), Magnitude(d)) * (IF Q > 0 THEN 1 ELSE -1)
      BY <1>1, <1>4, <1>6, <1>10 DEF RealizedPnl
    <3>2. PICK e \in Int, b \in Int : /\ e = Smaller(Magnitude(Q), Magnitude(d))
                                      /\ b = IF Q > 0 THEN 1 ELSE -1
      BY DEF Smaller, Magnitude
    <3>3. (x - A) * e * b = (x - A) * (e * b)
      OBVIOUS
    <3>4. QED
      BY <2>1, <3>1, <3>2, <3>3
  <2>3. CASE Q * now > 0
    <3>1. m = -d
      BY <1>2, <1>6, <1>7, <1>10, <2>1, <2>3 DEF Smaller, Magnitude
    <3>2. Moved(h, d, x) = [h EXCEPT !.quantity = now]
      BY <1>1, <1>2, <1>6, <1>7, <1>10, <2>3 DEF Moved
    <3>3. B = A
      BY <1>1, <1>4, <3>2 DEF Position
    <3>4. (x - A) * (-d) - A * (Q + d) = -(A * Q) - x * d
      OBVIOUS
    <3>5. (x - A) * (-d) \in Int
      OBVIOUS
    <3>6. QED
      BY <1>2, <2>2, <3>1, <3>3, <3>4, <3>5
  <2>4. CASE ~(Q * now > 0)
    <3>1. m = Q
      BY <1>2, <1>6, <1>7, <1>10, <2>1, <2>4 DEF Smaller, Magnitude
    <3>2. B * now = x * now
      <4>1. CASE now = 0
        BY <4>1
      <4>2. CASE now # 0
        <5>1. Moved(h, d, x) = [quantity |-> now, average |-> x]
          BY <1>1, <1>2, <1>6, <1>10, <2>4, <4>2 DEF Moved
        <5>2. QED
          BY <1>4, <5>1
      <4>3. QED
        BY <4>1, <4>2
    <3>3. (x - A) * Q - x * (Q + d) = -(A * Q) - x * d
      OBVIOUS
    <3>4. (x - A) * Q \in Int
      OBVIOUS
    <3>5. QED
      BY <1>2, <2>2, <3>1, <3>2, <3>3, <3>4
  <2>5. QED
    BY <2>3, <2>4
<1>11. QED
  BY <1>6, <1>8, <1>9, <1>10


-----------------------------------------------------------------------------
(* Orders booked.                                                            *)

\* An order that fills something of a leg.
Fills(o) == o.leg \in Legs /\ o.filled \in Nat \ {0} /\ o.paid \in Int

\* What it fills, at which price.
LEMMA FillIsTyped ==
    ASSUME NEW o, Fills(o)
    PROVE  /\ SignedFill(o) \in Int /\ SignedFill(o) # 0 /\ AveragePaid(o) \in Int
           /\ LegOf[o.leg].product \in HeldProducts /\ LegOf[o.leg].sleeve \in Sleeves
<1>1. PICK e \in {1, -1}, n \in Nat \ {0}, m \in Int :
          e = LegOf[o.leg].side /\ n = o.filled /\ m = o.paid
  BY LegIsTyped DEF Fills
<1>2. e * n \in Int /\ e * n # 0
  OBVIOUS
<1>3. m \div n \in Int
  OBVIOUS
<1>4. QED
  BY <1>1, <1>2, <1>3, LegIsTyped DEF Fills, SignedFill, AveragePaid

\* It moves the position of its product, and no other.
LEMMA PositionApplied ==
    ASSUME NEW o, Fills(o), NEW before \in Holdings
    PROVE  /\ ApplyPosition(before, o) \in Holdings
           /\ ApplyPosition(before, o)[LegOf[o.leg].product]
                = Moved(before[LegOf[o.leg].product], SignedFill(o), AveragePaid(o))
           /\ \A p \in HeldProducts :
                  /\ p # LegOf[o.leg].product => ApplyPosition(before, o)[p] = before[p]
                  /\ ApplyPosition(before, o)[p].quantity
                       = before[p].quantity + (IF p = LegOf[o.leg].product THEN SignedFill(o) ELSE 0)
<1>1. PICK d \in Int, x \in Int, q \in HeldProducts :
          d = SignedFill(o) /\ x = AveragePaid(o) /\ q = LegOf[o.leg].product
  BY FillIsTyped
<1>2. PICK m : m = Moved(before[q], d, x)
  OBVIOUS
<1>3. m \in Position /\ m.quantity = before[q].quantity + d
  BY <1>2, MovedIsPosition DEF Holdings
<1>4. ApplyPosition(before, o) = [before EXCEPT ![q] = m]
  BY <1>1, <1>2 DEF ApplyPosition
<1>5. ApplyPosition(before, o) \in Holdings
  BY <1>3, <1>4 DEF Holdings
<1>6. ApplyPosition(before, o)[q] = m
  BY <1>4 DEF Holdings
<1>7. ASSUME NEW p \in HeldProducts, p # q PROVE ApplyPosition(before, o)[p] = before[p]
  BY <1>4, <1>7 DEF Holdings
<1>8. \A p \in HeldProducts : before[p].quantity \in Int
  BY DEF Holdings, Position
<1>9. ASSUME NEW p \in HeldProducts
      PROVE  ApplyPosition(before, o)[p].quantity = before[p].quantity + (IF p = q THEN d ELSE 0)
  <2>1. CASE p = q
    BY <1>3, <1>6, <2>1
  <2>2. CASE p # q
    BY <1>7, <1>8, <2>2
  <2>3. QED
    BY <2>1, <2>2
<1>10. QED
  BY <1>1, <1>2, <1>5, <1>6, <1>7, <1>9

\* The cash of the books, and what the perpetual position was bought for.
BookWorth(b) == b.cash - b.positions["perp"].average * b.positions["perp"].quantity

\* What the orders paid was a whole average of each unit.
PaidWhole(o) == AveragePaid(o) * o.filled = o.paid

\* An order books what it paid, on the position and on that of its sleeve.
LEMMA OrderApplied ==
    ASSUME NEW o, Fills(o), o.fee \in Int, NEW b \in Books
    PROVE  /\ ApplyOrder(o, b) \in Books
           /\ \A p \in HeldProducts :
                  ApplyOrder(o, b).positions[p].quantity
                    = b.positions[p].quantity
                      + (IF p = LegOf[o.leg].product THEN SignedFill(o) ELSE 0)
           /\ \A c \in Sleeves : \A p \in HeldProducts :
                  ApplyOrder(o, b).sleeves[c][p].quantity
                    = b.sleeves[c][p].quantity
                      + (IF c = LegOf[o.leg].sleeve /\ p = LegOf[o.leg].product
                         THEN SignedFill(o) ELSE 0)
           /\ PaidWhole(o)
              /\ AveragedWhole(b.positions[LegOf[o.leg].product], SignedFill(o), AveragePaid(o))
              => BookWorth(ApplyOrder(o, b)) = BookWorth(b) - LegOf[o.leg].side * o.paid - o.fee
<1>1. PICK d \in Int, x \in Int, q \in HeldProducts, s \in Sleeves :
          /\ d = SignedFill(o) /\ x = AveragePaid(o) /\ q = LegOf[o.leg].product
          /\ s = LegOf[o.leg].sleeve /\ d # 0
  BY FillIsTyped
<1>2. PICK e \in {1, -1}, n \in Nat \ {0}, m \in Int, f \in Int :
          e = LegOf[o.leg].side /\ n = o.filled /\ m = o.paid /\ f = o.fee
  BY LegIsTyped DEF Fills
<1>3. PICK C, P, W, R : /\ C = b.cash /\ P = b.positions /\ W = b.sleeves /\ R = b.refused
                        /\ C \in Int /\ P \in Holdings /\ W \in [Sleeves -> Holdings]
                        /\ R \in BOOLEAN
  BY DEF Books
<1>4. PICK change : change = IF q = "spot" THEN -e * m ELSE RealizedPnl(P[q], d, x)
  OBVIOUS
<1>5. P[q] \in Position
  BY <1>3 DEF Holdings
<1>6. RealizedPnl(P[q], d, x) \in Int
  <2>1. PICK Q \in Int, A \in Int : Q = P[q].quantity /\ A = P[q].average
    BY <1>5 DEF Position
  <2>2. PICK u \in Int, v \in Int : /\ u = Smaller(Magnitude(Q), Magnitude(d))
                                    /\ v = IF Q > 0 THEN 1 ELSE -1
    BY DEF Smaller, Magnitude
  <2>3. (x - A) * u * v \in Int
    OBVIOUS
  <2>4. QED
    BY <2>1, <2>2, <2>3 DEF RealizedPnl
<1>7. change \in Int
  <2>1. -e * m \in Int
    OBVIOUS
  <2>2. QED
    BY <1>4, <1>6, <2>1
<1>8. PICK P2, W2 : P2 = ApplyPosition(P, o) /\ W2 = [W EXCEPT ![s] = ApplyPosition(W[s], o)]
  OBVIOUS
<1>9. PICK R2 : R2 = (R \/ ShortSpot(o, P[q]) \/ ShortSpot(o, W[s][q]))
  OBVIOUS
<1>10. R2 \in BOOLEAN
  BY <1>9
<1>11. ApplyOrder(o, b) = [cash |-> C - f + change, positions |-> P2, sleeves |-> W2, refused |-> R2]
  <2>1. ApplyOrder(o, b).cash = C - f + change
    BY <1>1, <1>2, <1>3, <1>4 DEF ApplyOrder
  <2>2. ApplyOrder(o, b).positions = P2 /\ ApplyOrder(o, b).sleeves = W2
    BY <1>1, <1>3, <1>8 DEF ApplyOrder
  <2>3. ApplyOrder(o, b).refused = R2
    BY <1>1, <1>3, <1>9 DEF ApplyOrder
  <2>4. PICK u1, u2, u3, u4 : ApplyOrder(o, b)
                              = [cash |-> u1, positions |-> u2, sleeves |-> u3, refused |-> u4]
    BY DEF ApplyOrder
  <2>5. QED
    BY <2>1, <2>2, <2>3, <2>4
<1>12. /\ P2 \in Holdings /\ P2[q] = Moved(P[q], d, x)
       /\ \A p \in HeldProducts : /\ p # q => P2[p] = P[p]
                                  /\ P2[p].quantity = P[p].quantity + (IF p = q THEN d ELSE 0)
  BY <1>1, <1>3, <1>8, PositionApplied
<1>13. ASSUME NEW c \in Sleeves
       PROVE  /\ W2[c] \in Holdings
              /\ \A p \in HeldProducts :
                     W2[c][p].quantity = W[c][p].quantity + (IF c = s /\ p = q THEN d ELSE 0)
  <2>1. CASE c = s
    <3>1. W2[c] = ApplyPosition(W[c], o) /\ W[c] \in Holdings
      BY <1>3, <1>8, <2>1
    <3>2. QED
      BY <1>1, <2>1, <3>1, PositionApplied
  <2>2. CASE c # s
    <3>1. W2[c] = W[c] /\ W[c] \in Holdings
      BY <1>3, <1>8, <2>2
    <3>2. \A p \in HeldProducts : W[c][p].quantity \in Int
      BY <3>1 DEF Holdings, Position
    <3>3. QED
      BY <2>2, <3>1, <3>2
  <2>3. QED
    BY <2>1, <2>2
<1>14. W2 \in [Sleeves -> Holdings]
  BY <1>3, <1>8, <1>13
<1>15. ApplyOrder(o, b) \in Books
  <2>1. C - f + change \in Int
    BY <1>2, <1>3, <1>7
  <2>2. QED
    BY <1>10, <1>11, <1>12, <1>14, <2>1 DEF Books
<1>16. ASSUME PaidWhole(o), AveragedWhole(P[q], d, x)
       PROVE  BookWorth(ApplyOrder(o, b)) = BookWorth(b) - e * m - f
  <2>1. PICK Q \in Int, A \in Int, Q2 \in Int, A2 \in Int :
            /\ Q = P["perp"].quantity /\ A = P["perp"].average
            /\ Q2 = P2["perp"].quantity /\ A2 = P2["perp"].average
    BY <1>3, <1>12 DEF Holdings, Position, HeldProducts
  <2>2. PICK v \in Int, v2 \in Int : v = A * Q /\ v2 = A2 * Q2
    OBVIOUS
  <2>3. BookWorth(b) = C - v /\ BookWorth(ApplyOrder(o, b)) = C - f + change - v2
    <3>1. PICK C2 : C2 = C - f + change
      OBVIOUS
    <3>2. ApplyOrder(o, b) = [cash |-> C2, positions |-> P2, sleeves |-> W2, refused |-> R2]
      BY <1>11, <3>1
    <3>3. ApplyOrder(o, b).cash = C2 /\ ApplyOrder(o, b).positions = P2
      BY <3>2
    <3>4. BookWorth(ApplyOrder(o, b)) = C2 - v2
      BY <2>1, <2>2, <3>3 DEF BookWorth
    <3>5. BookWorth(b) = C - v
      BY <1>3, <2>1, <2>2 DEF BookWorth
    <3>6. QED
      BY <1>2, <1>3, <1>7, <2>2, <3>1, <3>4, <3>5
  <2>4. PICK w \in Int : w = e * m
    OBVIOUS
  <2>5. change - v2 = -v - w
    <3>1. CASE q = "spot"
      <4>1. P2["perp"] = P["perp"]
        BY <1>12, <3>1 DEF HeldProducts
      <4>2. v2 = v
        BY <2>1, <2>2, <4>1
      <4>3. change = -w
        BY <1>4, <2>4, <3>1
      <4>4. QED
        BY <4>2, <4>3
    <3>2. CASE q = "perp"
      <4>1. change = RealizedPnl(P[q], d, x)
        BY <1>4, <3>2
      <4>2. RealizedPnl(P[q], d, x) - Moved(P[q], d, x).average * Moved(P[q], d, x).quantity
              = -(P[q].average * P[q].quantity) - x * d
        BY <1>1, <1>5, <1>16, RealizedIsMoved
      <4>3. change - v2 = -v - x * d
        BY <1>12, <2>1, <2>2, <3>2, <4>1, <4>2
      <4>4. x * d = w
        <5>1. d = e * n /\ x * n = m
          BY <1>1, <1>2, <1>16 DEF SignedFill, PaidWhole
        <5>2. x * (e * n) = e * (x * n)
          OBVIOUS
        <5>3. QED
          BY <2>4, <5>1, <5>2
      <4>5. QED
        BY <4>3, <4>4
    <3>3. QED
      BY <3>1, <3>2 DEF HeldProducts
  <2>6. QED
    BY <1>2, <1>3, <1>7, <2>2, <2>3, <2>4, <2>5
<1>17. QED
  BY <1>1, <1>2, <1>3, <1>11, <1>12, <1>13, <1>15, <1>16


\* Of each part of r, an element of it.
PicksOf(r, last) == \A s \in SUBSET r : s # {} => last[s] \in s

\* F and G agree on what they agreed on without the last element.
AgreeOnward(r, last, F, G) ==
    \A s \in SUBSET r : s # {} /\ F[s \ {last[s]}] = G[s \ {last[s]}] => F[s] = G[s]

\* Two ways through the parts of r that take the same steps end the same.
LEMMA TakenAlike ==
    ASSUME NEW r, IsFiniteSet(r), NEW last, PicksOf(r, last),
           NEW F, NEW G, F[{}] = G[{}], AgreeOnward(r, last, F, G)
    PROVE  F[r] = G[r]
<1>1. PICK Good : Good = {s \in SUBSET r : F[s] = G[s]}
  OBVIOUS
<1>2. {} \in Good
  BY <1>1
<1>3. ASSUME NEW s \in SUBSET r, s # {}, \A x \in s : s \ {x} \in Good PROVE s \in Good
  <2>1. last[s] \in s
    BY <1>3 DEF PicksOf
  <2>2. s \ {last[s]} \in Good
    BY <1>3, <2>1
  <2>3. F[s \ {last[s]}] = G[s \ {last[s]}]
    BY <1>1, <2>2
  <2>4. QED
    BY <1>1, <1>3, <2>3 DEF AgreeOnward
<1>4. r \in Good
  BY <1>2, <1>3, PartByPart
<1>5. QED
  BY <1>1, <1>4

\* The parts of S that hold what is before their elements.
HoldsEarlier(key, S, s) == \A x \in s : \A y \in S : Earlier(key[y], key[x]) => y \in s

\* Before the last of them is the rest of them.
LEMMA RestIsBefore ==
    ASSUME NEW S, IsFiniteSet(S), NEW key, Keyed(key, S), NEW s \in SUBSET S, s # {},
           HoldsEarlier(key, S, s)
    PROVE  /\ LastBy(key, s) \in s
           /\ s \ {LastBy(key, s)} = {y \in S : Earlier(key[y], key[LastBy(key, s)])}
           /\ HoldsEarlier(key, S, s \ {LastBy(key, s)})
<1>1. PICK m : m = LastBy(key, s)
  OBVIOUS
<1>2. m \in s /\ \A y \in s \ {m} : Earlier(key[y], key[m])
  BY <1>1, LatestIsLast
<1>3. m \in S /\ ~Earlier(key[m], key[m])
  BY <1>2, KeyedInLine
<1>4. ASSUME NEW y \in S, Earlier(key[y], key[m]) PROVE y \in s \ {m}
  BY <1>2, <1>3, <1>4 DEF HoldsEarlier
<1>5. s \ {m} = {y \in S : Earlier(key[y], key[m])}
  BY <1>2, <1>4
<1>6. ASSUME NEW x \in s \ {m}, NEW y \in S, Earlier(key[y], key[x]) PROVE y \in s \ {m}
  <2>1. Earlier(key[x], key[m]) /\ x \in S
    BY <1>2
  <2>2. Earlier(key[y], key[m])
    BY <1>3, <1>6, <2>1, KeyedInLine
  <2>3. QED
    BY <1>4, <2>2
<1>7. QED
  BY <1>1, <1>2, <1>5, <1>6 DEF HoldsEarlier

\* The books that the orders of the parts of S make.
Booking(S, F) ==
    F = [s \in SUBSET S |-> IF s = {} THEN NoBooks
                            ELSE ApplyOrder(LatestOrder(LatestLeg(s)), F[s \ {LatestLeg(s)}])]

LEMMA BookedIs == ASSUME NEW S PROVE BookedOf(S) = (CHOOSE F : Booking(S, F))[S]
BY DEF BookedOf, MapThenFoldSet, Booking

LEMMA NoBooksIsTyped == NoBooks \in Books
<1>1. Flat \in Position
  BY DEF Flat, Position
<1>2. NoPositions \in Holdings
  BY <1>1 DEF NoPositions, Holdings
<1>3. [s \in Sleeves |-> NoPositions] \in [Sleeves -> Holdings]
  BY <1>2
<1>4. QED
  BY <1>2, <1>3, AccountNumbers DEF NoBooks, Books

\* One way through the parts of the filled legs holds the books of each part.
LEMMA BooksArePartByPart ==
    ASSUME AccountInvariant
    PROVE  \E F : /\ F \in [SUBSET FilledLegs -> Books]
                  /\ F[{}] = NoBooks
                  /\ \A s \in SUBSET FilledLegs : BookedOf(s) = F[s]
                  /\ \A s \in SUBSET FilledLegs :
                         s # {} => F[s] = ApplyOrder(LatestOrder(LatestLeg(s)), F[s \ {LatestLeg(s)}])
<1>1. IsFiniteSet(FilledLegs) /\ Keyed(OrderKeys, FilledLegs)
  BY OrdersInLine
<1>2. PICK last : last = [s \in SUBSET FilledLegs |-> LatestLeg(s)]
  OBVIOUS
<1>3. \A s \in SUBSET FilledLegs : s # {} => LatestLeg(s) \in s
  BY <1>1, LatestIsLast DEF LatestLeg
<1>4. \A s \in SUBSET FilledLegs : s # {} => last[s] \in s
  BY <1>2, <1>3
<1>5. PICK g : g = [z \in FilledLegs \X Books |-> ApplyOrder(LatestOrder(z[1]), z[2])]
  OBVIOUS
<1>6. ASSUME NEW l \in FilledLegs, NEW b \in Books
      PROVE  ApplyOrder(LatestOrder(l), b) \in Books
  BY OrderIsTyped, OrderApplied DEF Fills
<1>7. g \in [FilledLegs \X Books -> Books]
  BY <1>5, <1>6
<1>8. \A l \in FilledLegs, b \in Books : g[<<l, b>>] = ApplyOrder(LatestOrder(l), b)
  BY <1>5
<1>9. PICK F : Takes(FilledLegs, Books, NoBooks, last, g, F)
  BY <1>1, <1>4, <1>7, NoBooksIsTyped, TakesExist
<1>10. F \in [SUBSET FilledLegs -> Books]
  BY <1>9 DEF Takes
<1>11. F[{}] = NoBooks
  BY <1>9 DEF Takes
<1>12. ASSUME NEW s \in SUBSET FilledLegs, s # {}
       PROVE  F[s] = ApplyOrder(LatestOrder(LatestLeg(s)), F[s \ {LatestLeg(s)}])
  <2>1. PICK m \in FilledLegs : m = LatestLeg(s) /\ m = last[s]
    BY <1>2, <1>3, <1>12
  <2>2. F[s] = g[<<m, F[s \ {m}]>>]
    BY <1>9, <1>12, <2>1 DEF Takes
  <2>3. F[s \ {m}] \in Books
    BY <1>10
  <2>4. QED
    BY <1>8, <2>1, <2>2, <2>3
<1>13. ASSUME NEW r \in SUBSET FilledLegs PROVE BookedOf(r) = F[r]
  <2>1. PICK H : H = [s \in SUBSET r |-> F[s]]
    OBVIOUS
  <2>2. ASSUME NEW s \in SUBSET r
        PROVE  H[s] = IF s = {} THEN NoBooks
                      ELSE ApplyOrder(LatestOrder(LatestLeg(s)), H[s \ {LatestLeg(s)}])
    <3>1. H[s] = F[s] /\ H[s \ {LatestLeg(s)}] = F[s \ {LatestLeg(s)}] /\ s \in SUBSET FilledLegs
      BY <2>1
    <3>2. QED
      BY <1>11, <1>12, <3>1
  <2>3. Booking(r, H)
    <3>1. H = [s \in SUBSET r |-> H[s]]
      BY <2>1
    <3>2. QED
      BY <2>2, <3>1 DEF Booking
  <2>4. PICK G : G = CHOOSE h : Booking(r, h)
    OBVIOUS
  <2>5. Booking(r, G)
    BY <2>3, <2>4
  <2>6. /\ G[{}] = NoBooks
        /\ \A s \in SUBSET r :
               s # {} => G[s] = ApplyOrder(LatestOrder(LatestLeg(s)), G[s \ {LatestLeg(s)}])
    BY <2>5 DEF Booking
  <2>7. IsFiniteSet(r)
    BY <1>1, FS_Subset
  <2>8. \A s \in SUBSET r : s # {} => last[s] \in s /\ last[s] = LatestLeg(s) /\ s \in SUBSET FilledLegs
    BY <1>2, <1>3
  <2>9. ASSUME NEW s \in SUBSET r, s # {}, F[s \ {last[s]}] = G[s \ {last[s]}]
        PROVE  F[s] = G[s]
    BY <1>12, <2>6, <2>8, <2>9
  <2>10. F[r] = G[r]
    <3>1. PicksOf(r, last) /\ AgreeOnward(r, last, F, G) /\ F[{}] = G[{}]
      BY <1>11, <2>6, <2>8, <2>9 DEF PicksOf, AgreeOnward
    <3>2. QED
      BY <2>7, <3>1, TakenAlike
  <2>11. BookedOf(r) = G[r]
    BY <2>4, BookedIs
  <2>12. QED
    BY <2>10, <2>11
<1>14. QED
  BY <1>10, <1>11, <1>12, <1>13


\* What the orders of a part of the filled legs come to.
SignedTerms(p) == [l \in FilledLegs |-> IF LegOf[l].product = p THEN SignedFill(LatestOrder(l)) ELSE 0]
FlowTerms      == [l \in FilledLegs |-> Flow(l)]
OwnedTerms(b, p) == [c \in Sleeves |-> b.sleeves[c][p].quantity]

HoldsOf(b, s) ==
    \A p \in HeldProducts : /\ b.positions[p].quantity = Total(SignedTerms(p), s)
                            /\ Total(OwnedTerms(b, p), Sleeves) = Total(SignedTerms(p), s)

LEMMA TermsAreTyped ==
    ASSUME AccountInvariant
    PROVE  /\ \A p \in HeldProducts : SignedTerms(p) \in [FilledLegs -> Int]
           /\ FlowTerms \in [FilledLegs -> Int]
           /\ \A l \in FilledLegs : Fills(LatestOrder(l))
<1>1. \A l \in FilledLegs : Fills(LatestOrder(l))
  BY OrderIsTyped DEF Fills
<1>2. \A l \in FilledLegs : SignedFill(LatestOrder(l)) \in Int
  BY <1>1, FillIsTyped
<1>3. ASSUME NEW l \in FilledLegs PROVE Flow(l) \in Int
  <2>1. PICK e \in {1, -1}, n \in Nat, m \in Int, c \in Nat :
            /\ e = LegOf[l].side /\ n = LatestReport(l).filled /\ m = LatestReport(l).paid
            /\ c = Commission
    BY OrderIsTyped, LegIsTyped, AccountNumbers
  <2>2. -e * m - c * n \in Int
    OBVIOUS
  <2>3. QED
    BY <2>1, <2>2 DEF Flow
<1>4. QED
  BY <1>1, <1>2, <1>3 DEF SignedTerms, FlowTerms

LEMMA OwnedIsTyped ==
    ASSUME NEW b \in Books, NEW p \in HeldProducts
    PROVE  OwnedTerms(b, p) \in [Sleeves -> Int]
<1>1. b.sleeves \in [Sleeves -> Holdings]
  BY DEF Books
<1>2. ASSUME NEW c \in Sleeves PROVE b.sleeves[c][p].quantity \in Int
  <2>1. b.sleeves[c] \in Holdings
    BY <1>1
  <2>2. b.sleeves[c][p] \in Position
    BY <2>1 DEF Holdings
  <2>3. QED
    BY <2>2 DEF Position
<1>3. QED
  BY <1>2 DEF OwnedTerms

\* One order more.
LEMMA HoldsOneMore ==
    ASSUME AccountInvariant, NEW s \in SUBSET FilledLegs, NEW m \in s, NEW b \in Books,
           HoldsOf(b, s \ {m})
    PROVE  HoldsOf(ApplyOrder(LatestOrder(m), b), s)
<1>1. PICK o, B : o = LatestOrder(m) /\ B = ApplyOrder(o, b)
  OBVIOUS
<1>2. Fills(o) /\ o.leg = m /\ o.fee \in Int
  BY <1>1, OrderIsTyped, TermsAreTyped
<1>3. B \in Books
  BY <1>1, <1>2, OrderApplied
<1>4. ASSUME NEW p \in HeldProducts
      PROVE  /\ B.positions[p].quantity = Total(SignedTerms(p), s)
             /\ Total(OwnedTerms(B, p), Sleeves) = Total(SignedTerms(p), s)
  <2>1. PICK f : f = SignedTerms(p) /\ f \in [FilledLegs -> Int]
    BY TermsAreTyped
  <2>2. f[m] = IF p = LegOf[m].product THEN SignedFill(o) ELSE 0
    BY <1>1, <2>1 DEF SignedTerms
  <2>3. Total(f, s) = f[m] + Total(f, s \ {m})
    BY <2>1, OrdersInLine, TotalTakesOut DEF TakesOut
  <2>4. PICK T \in Int : T = Total(f, s \ {m})
    BY <2>1, OrdersInLine, TotalTakesOut
  <2>5. b.positions[p].quantity = T /\ Total(OwnedTerms(b, p), Sleeves) = T
    BY <2>1, <2>4 DEF HoldsOf
  <2>6. B.positions[p].quantity = b.positions[p].quantity + f[m]
    BY <1>1, <1>2, <2>2, OrderApplied
  <2>7. PICK g, h : /\ g = OwnedTerms(B, p) /\ h = OwnedTerms(b, p)
                    /\ g \in [Sleeves -> Int] /\ h \in [Sleeves -> Int]
    BY <1>3, OwnedIsTyped
  <2>8. PICK c \in Sleeves : c = LegOf[m].sleeve
    BY OrderIsTyped, LegIsTyped
  <2>9. \A x \in Sleeves \ {c} : g[x] = h[x]
    <3>1. ASSUME NEW x \in Sleeves, x # c PROVE g[x] = h[x]
      <4>1. B.sleeves[x][p].quantity
              = b.sleeves[x][p].quantity + (IF x = c /\ p = LegOf[m].product THEN SignedFill(o) ELSE 0)
        BY <1>1, <1>2, <2>8, OrderApplied
      <4>2. g[x] = h[x] + 0 /\ h[x] \in Int
        BY <2>7, <3>1, <4>1 DEF OwnedTerms
      <4>3. QED
        BY <4>2
    <3>2. QED
      BY <3>1
  <2>10. g[c] = h[c] + f[m]
    <3>1. B.sleeves[c][p].quantity
            = b.sleeves[c][p].quantity + (IF c = c /\ p = LegOf[m].product THEN SignedFill(o) ELSE 0)
      BY <1>1, <1>2, <2>8, OrderApplied
    <3>2. QED
      BY <2>2, <2>7, <3>1 DEF OwnedTerms
  <2>11. Total(g, Sleeves) = Total(h, Sleeves) + g[c] - h[c] /\ Total(h, Sleeves) \in Int
    BY <2>7, <2>9, LegsAreFinite, OneTermChanges
  <2>12. f[m] \in Int /\ g[c] \in Int /\ h[c] \in Int
    BY <2>1, <2>7
  <2>13. Total(g, Sleeves) = T + f[m]
    BY <2>4, <2>5, <2>7, <2>10, <2>11, <2>12
  <2>14. QED
    BY <2>1, <2>3, <2>4, <2>5, <2>6, <2>7, <2>12, <2>13
<1>5. QED
  BY <1>1, <1>4 DEF HoldsOf

LEMMA NoBooksHold ==
    ASSUME AccountInvariant
    PROVE  HoldsOf(NoBooks, {}) /\ BookWorth(NoBooks) = Capital
<1>1. ASSUME NEW p \in HeldProducts
      PROVE  /\ NoBooks.positions[p].quantity = Total(SignedTerms(p), {})
             /\ Total(OwnedTerms(NoBooks, p), Sleeves) = Total(SignedTerms(p), {})
  <2>1. Total(SignedTerms(p), {}) = 0
    BY TermsAreTyped, OrdersInLine, TotalTakesOut
  <2>2. NoBooks.positions[p].quantity = 0
    BY DEF NoBooks, NoPositions, Flat
  <2>3. PICK g : g = OwnedTerms(NoBooks, p)
    OBVIOUS
  <2>4. g \in [Sleeves -> Int] /\ \A c \in Sleeves : g[c] = 0
    BY <2>3 DEF OwnedTerms, NoBooks, NoPositions, Flat
  <2>5. Total(g, Sleeves) = 0
    BY <2>4, LegsAreFinite, TotalOfZeros
  <2>6. QED
    BY <2>1, <2>2, <2>3, <2>5
<1>2. BookWorth(NoBooks) = Capital
  <2>1. NoBooks.cash = Capital /\ NoBooks.positions["perp"] = Flat
    BY DEF NoBooks, NoPositions, HeldProducts
  <2>2. QED
    BY <2>1, AccountNumbers DEF BookWorth, Flat
<1>3. QED
  BY <1>1, <1>2 DEF HoldsOf

\* The books hold what the orders filled, and so do the sleeves together.
LEMMA BookedHoldsOrders ==
    ASSUME AccountInvariant
    PROVE  Booked \in Books /\ HoldsOf(Booked, FilledLegs)
<1>1. PICK F : /\ F \in [SUBSET FilledLegs -> Books]
               /\ F[{}] = NoBooks
               /\ \A s \in SUBSET FilledLegs : BookedOf(s) = F[s]
               /\ \A s \in SUBSET FilledLegs :
                      s # {} => F[s] = ApplyOrder(LatestOrder(LatestLeg(s)), F[s \ {LatestLeg(s)}])
  BY BooksArePartByPart
<1>2. PICK Good : Good = {s \in SUBSET FilledLegs : HoldsOf(F[s], s)}
  OBVIOUS
<1>3. {} \in Good
  BY <1>1, <1>2, NoBooksHold
<1>4. ASSUME NEW s \in SUBSET FilledLegs, s # {}, \A x \in s : s \ {x} \in Good PROVE s \in Good
  <2>1. PICK m \in s : m = LatestLeg(s)
    BY <1>4, OrdersInLine, LatestIsLast DEF LatestLeg
  <2>2. PICK b \in Books : b = F[s \ {m}]
    BY <1>1
  <2>3. HoldsOf(b, s \ {m})
    BY <1>2, <1>4, <2>2
  <2>4. F[s] = ApplyOrder(LatestOrder(m), b)
    BY <1>1, <1>4, <2>1, <2>2
  <2>5. HoldsOf(F[s], s)
    BY <2>3, <2>4, HoldsOneMore
  <2>6. QED
    BY <1>2, <2>5
<1>5. FilledLegs \in Good
  BY <1>3, <1>4, OrdersInLine, PartByPart
<1>6. Booked = F[FilledLegs] /\ Booked \in Books
  BY <1>1 DEF Booked
<1>7. QED
  BY <1>2, <1>5, <1>6

\* What the books are worth is what the orders paid and cost.
LEMMA BookedIsWorth ==
    ASSUME AccountInvariant, AveragesAreWhole
    PROVE  BookWorth(Booked) = Capital + Total(FlowTerms, FilledLegs)
<1>1. PICK F : /\ F \in [SUBSET FilledLegs -> Books]
               /\ F[{}] = NoBooks
               /\ \A s \in SUBSET FilledLegs : BookedOf(s) = F[s]
               /\ \A s \in SUBSET FilledLegs :
                      s # {} => F[s] = ApplyOrder(LatestOrder(LatestLeg(s)), F[s \ {LatestLeg(s)}])
  BY BooksArePartByPart
<1>2. PICK Good : Good = {s \in SUBSET FilledLegs :
                            HoldsEarlier(OrderKeys, FilledLegs, s) => BookWorth(F[s]) = Capital + Total(FlowTerms, s)}
  OBVIOUS
<1>3. {} \in Good
  <2>1. Total(FlowTerms, {}) = 0
    BY TermsAreTyped, OrdersInLine, TotalTakesOut
  <2>2. QED
    BY <1>1, <1>2, <2>1, NoBooksHold, AccountNumbers
<1>4. ASSUME NEW s \in SUBSET FilledLegs, s # {}, \A x \in s : s \ {x} \in Good,
             HoldsEarlier(OrderKeys, FilledLegs, s)
      PROVE  BookWorth(F[s]) = Capital + Total(FlowTerms, s)
  <2>1. PICK m : m = LatestLeg(s)
    OBVIOUS
  <2>2. /\ m \in s /\ HoldsEarlier(OrderKeys, FilledLegs, s \ {m})
        /\ s \ {m} = {k \in FilledLegs : Earlier(OrderKeys[k], OrderKeys[m])}
    BY <1>4, <2>1, OrdersInLine, RestIsBefore DEF LatestLeg
  <2>3. m \in FilledLegs
    BY <2>2
  <2>4. PICK b \in Books : b = F[s \ {m}]
    BY <1>1
  <2>5. BookWorth(b) = Capital + Total(FlowTerms, s \ {m})
    BY <1>2, <1>4, <2>2, <2>4
  <2>6. PICK o : o = LatestOrder(m)
    OBVIOUS
  <2>7. F[s] = ApplyOrder(o, b)
    BY <1>1, <1>4, <2>1, <2>4, <2>6
  <2>8. Fills(o) /\ o.leg = m /\ o.fee \in Int /\ o.paid \in Int
    BY <2>3, <2>6, OrderIsTyped, TermsAreTyped
  <2>9. PaidWhole(o)
    <3>1. AveragePaid(LatestOrder(m)) * LatestReport(m).filled = LatestReport(m).paid
      BY <2>3 DEF AveragesAreWhole
    <3>2. QED
      BY <2>3, <2>6, <3>1, OrderIsTyped DEF PaidWhole
  <2>10. AveragedWhole(b.positions[LegOf[m].product], SignedFill(o), AveragePaid(o))
    <3>1. BookedOf({k \in FilledLegs : Earlier(OrderKeys[k], OrderKeys[m])}) = b
      BY <1>1, <2>2, <2>4
    <3>2. QED
      BY <2>3, <2>6, <3>1 DEF AveragesAreWhole, AveragedWhole
  <2>11. BookWorth(F[s]) = BookWorth(b) - LegOf[m].side * o.paid - o.fee
    BY <2>7, <2>8, <2>9, <2>10, OrderApplied
  <2>12. PICK e \in {1, -1}, u \in Int, c \in Int :
             e = LegOf[m].side /\ u = o.paid /\ c = o.fee
    BY <2>3, <2>8, LegIsTyped, OrderIsTyped
  <2>13. FlowTerms[m] = -e * u - c
    BY <2>3, <2>6, <2>12, OrderIsTyped DEF FlowTerms, Flow
  <2>14. Total(FlowTerms, s) = FlowTerms[m] + Total(FlowTerms, s \ {m})
         /\ Total(FlowTerms, s \ {m}) \in Int
    BY <2>2, TermsAreTyped, OrdersInLine, TotalTakesOut DEF TakesOut
  <2>15. PICK T \in Int, n \in Nat, w \in Int :
             T = Total(FlowTerms, s \ {m}) /\ n = Capital /\ w = e * u
    <3>1. e * u \in Int
      BY <2>12
    <3>2. QED
      BY <2>14, <3>1, AccountNumbers
  <2>16. BookWorth(F[s]) = n + T - w - c
    BY <2>5, <2>11, <2>12, <2>15
  <2>17. Total(FlowTerms, s) = -w - c + T
    BY <2>12, <2>13, <2>14, <2>15
  <2>18. QED
    BY <2>12, <2>15, <2>16, <2>17
<1>5. FilledLegs \in Good
  <2>1. \A s \in SUBSET FilledLegs : s # {} /\ (\A x \in s : s \ {x} \in Good) => s \in Good
    BY <1>2, <1>4
  <2>2. QED
    BY <1>3, <2>1, OrdersInLine, PartByPart
<1>6. HoldsEarlier(OrderKeys, FilledLegs, FilledLegs)
  BY DEF HoldsEarlier
<1>7. QED
  BY <1>1, <1>2, <1>5, <1>6 DEF Booked


-----------------------------------------------------------------------------
(* What was held when a funding fell due.                                    *)

\* Observations go up, in what was filled and in time.
LEMMA RowsRise ==
    ASSUME AccountInvariant, NEW l \in Legs, NEW i \in 1..Len(reports[l]),
           NEW j \in 1..Len(reports[l]), i <= j
    PROVE  /\ reports[l][i].filled <= reports[l][j].filled
           /\ reports[l][i].observed <= reports[l][j].observed
<1>0. PICK n \in Nat : n = Len(reports[l])
  BY ReportsAreTyped
<1>1. PICK f, t : /\ n = Len(reports[l])
                  /\ f = [k \in 1..n |-> reports[l][k].filled]
                  /\ t = [k \in 1..n |-> reports[l][k].observed]
                  /\ f \in [1..n -> Nat] /\ t \in [1..n -> Nat]
  <2>1. n = Len(reports[l])
    BY <1>0
  <2>2. \A k \in 1..n : reports[l][k].filled \in Nat /\ reports[l][k].observed \in Nat
    BY <2>1, ReportsAreTyped DEF ReportRow
  <2>3. PICK f, t : /\ f = [k \in 1..n |-> reports[l][k].filled]
                    /\ t = [k \in 1..n |-> reports[l][k].observed]
    OBVIOUS
  <2>4. f \in [1..n -> Nat] /\ t \in [1..n -> Nat]
    BY <2>2, <2>3
  <2>5. QED
    BY <2>1, <2>3, <2>4
<1>2. ASSUME NEW k \in 2..n PROVE f[k - 1] < f[k] /\ t[k - 1] <= t[k]
  <2>1. reports[l][k - 1].filled < reports[l][k].filled
        /\ reports[l][k - 1].observed <= reports[l][k].observed
    BY <1>1 DEF AccountInvariant, ReportsRise
  <2>2. k \in 1..n /\ k - 1 \in 1..n
    BY <1>1
  <2>3. QED
    BY <1>1, <2>1, <2>2
<1>3. PICK Bad : Bad = {k \in i..n : ~(f[i] <= f[k] /\ t[i] <= t[k])}
  OBVIOUS
<1>4. ASSUME Bad # {} PROVE FALSE
  <2>1. Bad \in SUBSET Nat
    BY <1>3
  <2>2. PICK m \in Bad : \A k \in Bad : m <= k
    BY <1>4, <2>1, LeastNat
  <2>3. m \in i..n /\ m # i /\ i \in 1..n
    <3>1. i \in 1..n /\ m \in i..n
      BY <1>1, <1>3, <2>2
    <3>2. f[i] \in Nat /\ t[i] \in Nat
      BY <1>1, <3>1
    <3>3. f[i] <= f[i] /\ t[i] <= t[i]
      BY <3>2
    <3>4. m # i
      BY <1>3, <2>2, <3>3
    <3>5. QED
      BY <3>1, <3>4
  <2>4. m \in 2..n /\ m - 1 \in i..n /\ m - 1 \in 1..n /\ m \in 1..n
    BY <1>1, <2>3
  <2>5. m - 1 \notin Bad
    BY <2>2, <2>4
  <2>6. f[i] <= f[m - 1] /\ t[i] <= t[m - 1]
    BY <1>3, <2>4, <2>5
  <2>7. f[m - 1] < f[m] /\ t[m - 1] <= t[m]
    BY <1>2, <2>4
  <2>8. f[i] <= f[m] /\ t[i] <= t[m]
    <3>1. PICK a \in Nat, b \in Nat, c \in Nat : a = f[i] /\ b = f[m - 1] /\ c = f[m]
      BY <1>1, <2>3, <2>4
    <3>2. PICK u \in Nat, v \in Nat, w \in Nat : u = t[i] /\ v = t[m - 1] /\ w = t[m]
      BY <1>1, <2>3, <2>4
    <3>3. a <= b /\ b < c
      BY <2>6, <2>7, <3>1
    <3>4. u <= v /\ v <= w
      BY <2>6, <2>7, <3>2
    <3>5. a <= c
      BY <3>3
    <3>6. u <= w
      BY <3>4
    <3>7. QED
      BY <3>1, <3>2, <3>5, <3>6
  <2>9. QED
    BY <1>3, <2>2, <2>8
<1>5. j \notin Bad /\ j \in i..n
  BY <1>1, <1>4
<1>6. f[i] <= f[j] /\ t[i] <= t[j]
  BY <1>3, <1>5
<1>7. QED
  BY <1>1, <1>6

\* The observations of leg l that were made by time t.
SeenBy(l, t) == {i \in DOMAIN reports[l] : reports[l][i].observed <= t}

\* They are the first ones, and the last of them tells what was filled.
LEMMA SeenAreFirst ==
    ASSUME AccountInvariant, NEW l \in Legs, NEW t \in Int
    PROVE  \E k \in 0..Len(reports[l]) :
               /\ SeenBy(l, t) = 1..k
               /\ FilledBy(l, t) = IF k = 0 THEN 0 ELSE reports[l][k].filled
<1>1. PICK n \in Nat : n = Len(reports[l]) /\ DOMAIN reports[l] = 1..n
  BY ReportsAreTyped
<1>2. \A i \in 1..n : reports[l][i].observed \in Nat /\ reports[l][i].filled \in Nat \ {0}
  BY <1>1, ReportsAreTyped DEF ReportRow
<1>3. PICK Above : Above = {j \in 0..n : \A i \in 1..n : i > j => reports[l][i].observed > t}
  OBVIOUS
<1>4. n \in Above /\ Above \in SUBSET Nat
  BY <1>3
<1>5. PICK k \in Above : \A j \in Above : k <= j
  BY <1>4, LeastNat
<1>6. k \in 0..n
  BY <1>3
<1>7. k # 0 => reports[l][k].observed <= t
  <2>1. ASSUME k # 0, ~(reports[l][k].observed <= t) PROVE FALSE
    <3>1. k - 1 \in 0..n /\ k \in 1..n /\ reports[l][k].observed > t
      BY <1>2, <1>6, <2>1
    <3>2. ASSUME NEW i \in 1..n, i > k - 1 PROVE reports[l][i].observed > t
      <4>1. i = k \/ i > k
        BY <1>6, <3>2
      <4>2. QED
        BY <1>3, <1>5, <3>1, <4>1
    <3>3. k - 1 \in Above
      BY <1>3, <3>1, <3>2
    <3>4. QED
      BY <1>5, <1>6, <3>3
  <2>2. QED
    BY <2>1
<1>8. ASSUME NEW i \in 1..n PROVE reports[l][i].observed <= t <=> i <= k
  <2>1. CASE i <= k
    <3>1. k \in 1..n /\ reports[l][i].observed <= reports[l][k].observed
      BY <1>1, <1>6, <2>1, RowsRise
    <3>2. QED
      BY <1>2, <1>7, <2>1, <3>1
  <2>2. CASE i > k
    <3>1. reports[l][i].observed > t
      BY <1>3, <1>5, <2>2
    <3>2. QED
      BY <1>2, <1>6, <2>2, <3>1
  <2>3. QED
    BY <1>6, <2>1, <2>2
<1>9. SeenBy(l, t) = 1..k
  BY <1>1, <1>6, <1>8 DEF SeenBy
<1>10. PICK M : M = {0} \cup {reports[l][i].filled : i \in SeenBy(l, t)}
  OBVIOUS
<1>11. FilledBy(l, t) = Max(M)
  BY <1>10 DEF FilledBy, SeenBy
<1>12. PICK x : x = IF k = 0 THEN 0 ELSE reports[l][k].filled
  OBVIOUS
<1>13. x \in M /\ x \in Nat
  <2>1. CASE k = 0
    BY <1>10, <1>12, <2>1
  <2>2. CASE k # 0
    <3>1. k \in 1..k /\ k \in 1..n
      BY <1>6, <2>2
    <3>2. QED
      BY <1>2, <1>9, <1>10, <1>12, <2>2, <3>1
  <2>3. QED
    BY <2>1, <2>2
<1>14. ASSUME NEW y \in M PROVE y \in Nat /\ x >= y
  <2>1. CASE y = 0
    BY <1>13, <2>1
  <2>2. CASE y # 0
    <3>1. PICK i \in 1..k : y = reports[l][i].filled
      BY <1>9, <1>10, <2>2
    <3>2. k # 0 /\ i \in 1..n /\ k \in 1..n /\ i <= k
      BY <1>6, <3>1
    <3>3. y <= reports[l][k].filled /\ y \in Nat
      BY <1>1, <1>2, <3>1, <3>2, RowsRise
    <3>4. QED
      BY <1>12, <1>13, <3>2, <3>3
  <2>3. QED
    BY <2>1, <2>2
<1>15. Max(M) = x
  <2>1. Max(M) \in M /\ \A y \in M : Max(M) >= y
    BY <1>13, <1>14 DEF Max
  <2>2. Max(M) \in Nat /\ x >= Max(M) /\ Max(M) >= x
    BY <1>13, <1>14, <2>1
  <2>3. QED
    BY <1>13, <2>2
<1>16. QED
  BY <1>1, <1>6, <1>9, <1>11, <1>12, <1>15

\* What an observation adds is a fill.
LEMMA IncrementFills ==
    ASSUME AccountInvariant, NEW z \in Observations
    PROVE  Fills(Increment(z)) /\ Increment(z).leg = z[1]
<1>0. PICK l \in Legs : \E i : i \in DOMAIN reports[l] /\ z = <<l, i>>
  BY DEF Observations
<1>1. PICK i : i \in DOMAIN reports[l] /\ z = <<l, i>>
  BY <1>0
<1>2. PICK n \in Nat : n = Len(reports[l]) /\ DOMAIN reports[l] = 1..n
  BY ReportsAreTyped
<1>3. PICK x, y : x = reports[l][i] /\ y = IF i = 1 THEN NoReport ELSE reports[l][i - 1]
  OBVIOUS
<1>4. x \in ReportRow /\ x.filled \in Nat \ {0}
  BY <1>1, <1>2, <1>3, ReportsAreTyped
<1>5. y \in ReportRow /\ x.filled > y.filled
  <2>1. CASE i = 1
    BY <1>3, <1>4, <2>1 DEF NoReport, ReportRow
  <2>2. CASE i # 1
    <3>1. i \in 2..n /\ i - 1 \in 1..n
      BY <1>1, <1>2, <2>2
    <3>2. y = reports[l][i - 1]
      BY <1>3, <2>2
    <3>3. ReportsRise(reports[l])
      BY DEF AccountInvariant
    <3>4. reports[l][i - 1].filled < reports[l][i].filled
      BY <1>2, <3>1, <3>3 DEF ReportsRise
    <3>5. y \in ReportRow /\ y.filled < x.filled
      BY <1>2, <1>3, <3>1, <3>2, <3>4, ReportsAreTyped
    <3>6. QED
      BY <1>4, <3>5 DEF ReportRow
  <2>3. QED
    BY <2>1, <2>2
<1>6. Increment(z) = [leg |-> l, observed |-> x.observed, filled |-> x.filled - y.filled,
                      paid |-> x.paid - y.paid]
  BY <1>1, <1>3 DEF Increment
<1>7. x.filled - y.filled \in Nat \ {0} /\ x.paid - y.paid \in Int
  BY <1>4, <1>5 DEF ReportRow
<1>8. QED
  BY <1>1, <1>6, <1>7 DEF Fills


FillBooks == [positions : Holdings, refused : BOOLEAN]
FillTerms(p) == [z \in Observations |-> IF LegOf[z[1]].product = p THEN SignedFill(Increment(z)) ELSE 0]

\* A fill moves the position of its product.
LEMMA FillApplied ==
    ASSUME NEW o, Fills(o), NEW b \in FillBooks
    PROVE  /\ ApplyFill(o, b) \in FillBooks
           /\ \A p \in HeldProducts :
                  ApplyFill(o, b).positions[p].quantity
                    = b.positions[p].quantity
                      + (IF p = LegOf[o.leg].product THEN SignedFill(o) ELSE 0)
<1>1. PICK P, R : P = b.positions /\ R = b.refused /\ P \in Holdings /\ R \in BOOLEAN
  BY DEF FillBooks
<1>2. PICK P2 : P2 = ApplyPosition(P, o)
  OBVIOUS
<1>3. /\ P2 \in Holdings
      /\ \A p \in HeldProducts :
             P2[p].quantity = P[p].quantity + (IF p = LegOf[o.leg].product THEN SignedFill(o) ELSE 0)
  BY <1>1, <1>2, PositionApplied
<1>4. PICK R2 : R2 = (R \/ ShortSpot(o, P[LegOf[o.leg].product])) /\ R2 \in BOOLEAN
  OBVIOUS
<1>5. ApplyFill(o, b) = [positions |-> P2, refused |-> R2]
  BY <1>1, <1>2, <1>4 DEF ApplyFill
<1>6. QED
  BY <1>1, <1>3, <1>4, <1>5 DEF FillBooks

LEMMA NoFillsIsTyped ==
    NoFills \in FillBooks /\ \A p \in HeldProducts : NoFills.positions[p].quantity = 0
<1>1. Flat \in Position /\ Flat.quantity = 0
  BY DEF Flat, Position
<1>2. NoPositions \in Holdings /\ \A p \in HeldProducts : NoPositions[p].quantity = 0
  BY <1>1 DEF NoPositions, Holdings
<1>3. QED
  BY <1>2 DEF NoFills, FillBooks

LEMMA FillsInLine ==
    ASSUME AccountInvariant
    PROVE  IsFiniteSet(Observations) /\ Keyed(FillKeys, Observations)
<1>1. PICK D : D = [l \in Legs |-> DOMAIN reports[l]]
  OBVIOUS
<1>2. ASSUME NEW l \in Legs PROVE IsFiniteSet(D[l])
  <2>1. PICK n \in Int : n = Len(reports[l]) /\ D[l] = 1..n
    BY <1>1, ReportsAreTyped
  <2>2. IsFiniteSet(1..n)
    BY FS_Interval
  <2>3. QED
    BY <2>1, <2>2
<1>3. Pairs(Legs, D) = Observations
  BY <1>1 DEF Pairs, Observations
<1>4. IsFiniteSet(Observations)
  <2>1. PICK f : f = [z \in Pairs(Legs, D) |-> 0]
    OBVIOUS
  <2>2. f \in [Pairs(Legs, D) -> Int]
    BY <2>1
  <2>3. QED
    BY <1>2, <1>3, <2>2, LegsAreFinite, SliceBySlice
<1>5. ASSUME NEW z \in Observations
      PROVE  /\ FillKeys[z] \in [1..3 -> Int] /\ FillKeys[z][2] = rankOf[z[1]] /\ FillKeys[z][3] = z[2]
             /\ z[1] \in Legs /\ z = <<z[1], z[2]>>
  <2>0. PICK l \in Legs : \E i : i \in DOMAIN reports[l] /\ z = <<l, i>>
    BY DEF Observations
  <2>1. PICK i : i \in DOMAIN reports[l] /\ z = <<l, i>>
    BY <2>0
  <2>2. i \in 1..Len(reports[l]) /\ Len(reports[l]) \in Nat
    BY <2>1, ReportsAreTyped
  <2>3. reports[l][i].observed \in Int /\ rankOf[l] \in Int /\ i \in Int
    BY <2>2, ReportsAreTyped DEF ReportRow
  <2>4. FillKeys[z] = <<reports[l][i].observed, rankOf[l], i>>
    BY <2>1 DEF FillKeys
  <2>5. QED
    BY <2>1, <2>3, <2>4
<1>6. ASSUME NEW z \in Observations, NEW y \in Observations, FillKeys[z] = FillKeys[y] PROVE z = y
  <2>1. rankOf[z[1]] = rankOf[y[1]] /\ z[2] = y[2] /\ z[1] \in Legs /\ y[1] \in Legs
    BY <1>5, <1>6
  <2>2. z[1] = y[1]
    BY <2>1, RanksApart
  <2>3. z = <<z[1], z[2]>> /\ y = <<y[1], y[2]>>
    BY <1>5
  <2>4. QED
    BY <2>1, <2>2, <2>3
<1>7. QED
  BY <1>4, <1>5, <1>6 DEF Keyed

\* The books that the observations of the parts of S make.
Filling(S, F) ==
    F = [s \in SUBSET S |-> IF s = {} THEN NoFills
                            ELSE ApplyFill(Increment(LatestFill(s)), F[s \ {LatestFill(s)}])]

LEMMA BooksAtIs ==
    ASSUME NEW t
    PROVE  BooksAt(t) = (CHOOSE F : Filling(ObservedBy(t), F))[ObservedBy(t)]
BY DEF BooksAt, MapThenFoldSet, Filling

LEMMA FillTermsAreTyped ==
    ASSUME AccountInvariant, NEW p PROVE FillTerms(p) \in [Observations -> Int]
<1>1. \A z \in Observations : SignedFill(Increment(z)) \in Int
  BY IncrementFills, FillIsTyped
<1>2. QED
  BY <1>1 DEF FillTerms

\* The books of time t hold what was observed by then.
LEMMA BooksAtHold ==
    ASSUME AccountInvariant, NEW t, NEW p \in HeldProducts
    PROVE  /\ BooksAt(t).positions[p].quantity = Total(FillTerms(p), ObservedBy(t))
           /\ Total(FillTerms(p), ObservedBy(t)) \in Int
<1>1. PICK S : S = ObservedBy(t) /\ S \in SUBSET Observations
  BY DEF ObservedBy
<1>2. IsFiniteSet(S) /\ IsFiniteSet(Observations) /\ Keyed(FillKeys, Observations)
  BY <1>1, FillsInLine, FS_Subset
<1>3. PICK last : last = [s \in SUBSET S |-> LatestFill(s)]
  OBVIOUS
<1>4. \A s \in SUBSET S : s # {} => LatestFill(s) \in s /\ last[s] = LatestFill(s)
  BY <1>1, <1>2, <1>3, LatestIsLast DEF LatestFill
<1>5. PICK g : g = [z \in S \X FillBooks |-> ApplyFill(Increment(z[1]), z[2])]
  OBVIOUS
<1>6. ASSUME NEW z \in S, NEW b \in FillBooks PROVE ApplyFill(Increment(z), b) \in FillBooks
  BY <1>1, IncrementFills, FillApplied
<1>7. g \in [S \X FillBooks -> FillBooks] /\ \A z \in S, b \in FillBooks : g[<<z, b>>] = ApplyFill(Increment(z), b)
  BY <1>5, <1>6
<1>8. PICK H : Takes(S, FillBooks, NoFills, last, g, H)
  BY <1>2, <1>4, <1>7, NoFillsIsTyped, TakesExist
<1>9. H \in [SUBSET S -> FillBooks] /\ H[{}] = NoFills
  BY <1>8 DEF Takes
<1>10. ASSUME NEW s \in SUBSET S, s # {}
       PROVE  H[s] = ApplyFill(Increment(LatestFill(s)), H[s \ {LatestFill(s)}])
  <2>1. PICK m \in S : m = LatestFill(s) /\ m = last[s]
    BY <1>4, <1>10
  <2>2. H[s] = g[<<m, H[s \ {m}]>>]
    BY <1>8, <1>10, <2>1 DEF Takes
  <2>3. H[s \ {m}] \in FillBooks
    BY <1>9
  <2>4. QED
    BY <1>7, <2>1, <2>2, <2>3
<1>11. Filling(S, H)
  <2>1. H = [s \in SUBSET S |-> H[s]]
    BY <1>9
  <2>2. \A s \in SUBSET S : H[s] = IF s = {} THEN NoFills
                                   ELSE ApplyFill(Increment(LatestFill(s)), H[s \ {LatestFill(s)}])
    BY <1>9, <1>10
  <2>3. QED
    BY <2>1, <2>2 DEF Filling
<1>12. PICK F : F = CHOOSE h : Filling(S, h)
  OBVIOUS
<1>13. Filling(S, F)
  BY <1>11, <1>12
<1>14. F[{}] = NoFills
       /\ \A s \in SUBSET S :
              s # {} => F[s] = ApplyFill(Increment(LatestFill(s)), F[s \ {LatestFill(s)}])
  BY <1>13 DEF Filling
<1>15. PICK f : f = FillTerms(p) /\ f \in [Observations -> Int]
  BY FillTermsAreTyped
<1>16. Total(f, {}) = 0 /\ (\A s \in SUBSET Observations : Total(f, s) \in Int) /\ TakesOut(f, Observations)
  BY <1>2, <1>15, TotalTakesOut
<1>17. PICK Good : Good = {s \in SUBSET S : F[s] \in FillBooks /\ F[s].positions[p].quantity = Total(f, s)}
  OBVIOUS
<1>18. {} \in Good
  BY <1>14, <1>16, <1>17, NoFillsIsTyped
<1>19. ASSUME NEW s \in SUBSET S, s # {}, \A x \in s : s \ {x} \in Good PROVE s \in Good
  <2>1. PICK m \in s : m = LatestFill(s)
    BY <1>4, <1>19
  <2>2. PICK b \in FillBooks : b = F[s \ {m}] /\ b.positions[p].quantity = Total(f, s \ {m})
    BY <1>17, <1>19
  <2>3. PICK o : o = Increment(m) /\ Fills(o) /\ o.leg = m[1] /\ m \in Observations
    BY <1>1, IncrementFills
  <2>4. F[s] = ApplyFill(o, b)
    BY <1>14, <1>19, <2>1, <2>2, <2>3
  <2>5. F[s] \in FillBooks
    BY <2>3, <2>4, FillApplied
  <2>6. F[s].positions[p].quantity = Total(f, s \ {m}) + f[m]
    <3>1. f[m] = IF p = LegOf[o.leg].product THEN SignedFill(o) ELSE 0
      BY <1>15, <2>3 DEF FillTerms
    <3>2. QED
      BY <2>2, <2>3, <2>4, <3>1, FillApplied
  <2>7. Total(f, s) = f[m] + Total(f, s \ {m}) /\ Total(f, s \ {m}) \in Int /\ f[m] \in Int
    BY <1>1, <1>15, <1>16, <2>3 DEF TakesOut
  <2>8. QED
    BY <1>17, <2>5, <2>6, <2>7
<1>20. S \in Good
  BY <1>2, <1>18, <1>19, PartByPart
<1>21. BooksAt(t) = F[S]
  BY <1>1, <1>12, BooksAtIs
<1>22. QED
  BY <1>1, <1>15, <1>16, <1>17, <1>20, <1>21

LEMMA SumIsTotal == ASSUME NEW f, NEW S PROVE SumOf(f, S) = Total(f, S)
BY DEF SumOf, Total


\* What the observations of a leg filled by time t is what it had filled then.
LEMMA LegHeldBy ==
    ASSUME AccountInvariant, NEW l \in Legs, NEW t \in Int, NEW p,
           NEW g, g = [i \in SeenBy(l, t) |-> FillTerms(p)[<<l, i>>]]
    PROVE  /\ IsFiniteSet(SeenBy(l, t))
           /\ FilledBy(l, t) \in Nat
           /\ Total(g, SeenBy(l, t))
                = IF LegOf[l].product = p THEN LegOf[l].side * FilledBy(l, t) ELSE 0
<1>1. PICK n \in Nat : n = Len(reports[l]) /\ DOMAIN reports[l] = 1..n
  BY ReportsAreTyped
<1>2. PICK k \in 0..n : /\ SeenBy(l, t) = 1..k
                        /\ FilledBy(l, t) = IF k = 0 THEN 0 ELSE reports[l][k].filled
  BY <1>1, SeenAreFirst
<1>3. PICK e \in Int : e = IF LegOf[l].product = p THEN LegOf[l].side ELSE 0
  <2>1. LegOf[l].side \in Int
    BY LegIsTyped
  <2>2. QED
    BY <2>1
<1>4. PICK q : q = [i \in 0..k |-> IF i = 0 THEN 0 ELSE reports[l][i].filled]
  OBVIOUS
<1>5. q \in [0..k -> Nat]
  BY <1>1, <1>4, ReportsAreTyped
<1>6. PICK v : v = [i \in 0..k |-> e * q[i]]
  OBVIOUS
<1>7. v \in [0..k -> Int]
  <2>1. ASSUME NEW i \in 0..k PROVE e * q[i] \in Int
    <3>1. PICK c \in Nat : c = q[i]
      BY <1>5
    <3>2. QED
      BY <3>1
  <2>2. QED
    BY <1>6, <2>1
<1>8. ASSUME NEW i \in 1..k PROVE g[i] \in Int /\ v[i] = v[i - 1] + g[i]
  <2>1. i \in 1..n /\ <<l, i>> \in Observations /\ i \in 0..k /\ i - 1 \in 0..k
    BY <1>1 DEF Observations
  <2>2. g[i] = FillTerms(p)[<<l, i>>]
    BY <1>2
  <2>3. FillTerms(p)[<<l, i>>] = IF LegOf[l].product = p THEN SignedFill(Increment(<<l, i>>)) ELSE 0
    BY <2>1 DEF FillTerms
  <2>4. Increment(<<l, i>>).leg = l /\ Increment(<<l, i>>).filled = q[i] - q[i - 1]
    <3>1. PICK x, y : x = reports[l][i] /\ y = IF i = 1 THEN NoReport ELSE reports[l][i - 1]
      OBVIOUS
    <3>2. Increment(<<l, i>>) = [leg |-> l, observed |-> x.observed, filled |-> x.filled - y.filled,
                                 paid |-> x.paid - y.paid]
      BY <3>1 DEF Increment
    <3>3. q[i] = x.filled
      BY <1>4, <2>1, <3>1
    <3>4. q[i - 1] = y.filled
      <4>1. CASE i = 1
        BY <1>4, <2>1, <3>1, <4>1 DEF NoReport
      <4>2. CASE i # 1
        <5>1. i - 1 # 0 /\ y = reports[l][i - 1]
          BY <3>1, <4>2
        <5>2. QED
          BY <1>4, <2>1, <5>1
      <4>3. QED
        BY <4>1, <4>2
    <3>5. QED
      BY <3>2, <3>3, <3>4
  <2>5. PICK a \in Nat, b \in Nat : a = q[i] /\ b = q[i - 1]
    BY <1>5, <2>1
  <2>6. g[i] = e * (a - b)
    <3>1. CASE LegOf[l].product = p
      <4>1. g[i] = LegOf[l].side * (a - b) /\ e = LegOf[l].side
        BY <1>3, <2>2, <2>3, <2>4, <2>5, <3>1 DEF SignedFill
      <4>2. QED
        BY <4>1
    <3>2. CASE LegOf[l].product # p
      <4>1. g[i] = 0 /\ e = 0
        BY <1>3, <2>2, <2>3, <3>2
      <4>2. QED
        BY <4>1
    <3>3. QED
      BY <3>1, <3>2
  <2>7. v[i] = e * a /\ v[i - 1] = e * b
    BY <1>6, <2>1, <2>5
  <2>8. e * a = e * b + e * (a - b) /\ e * (a - b) \in Int
    OBVIOUS
  <2>9. QED
    BY <2>6, <2>7, <2>8
<1>9. g \in [1..k -> Int]
  <2>1. g = [i \in 1..k |-> FillTerms(p)[<<l, i>>]]
    BY <1>2
  <2>2. g = [i \in 1..k |-> g[i]]
    BY <2>1
  <2>3. QED
    BY <1>8, <2>2
<1>10. Total(g, 1..k) = v[k] - v[0]
  <2>1. Climbs(v, g, k) /\ k \in Nat
    BY <1>8 DEF Climbs
  <2>2. QED
    BY <1>2, <1>7, <1>9, <2>1, StepByStep
<1>11. v[0] = 0 /\ v[k] = e * FilledBy(l, t) /\ FilledBy(l, t) = q[k] /\ q[k] \in Nat
  <2>1. q[0] = 0 /\ q[k] = FilledBy(l, t)
    BY <1>2, <1>4
  <2>2. QED
    BY <1>5, <1>6, <2>1
<1>12. Total(g, SeenBy(l, t)) = e * FilledBy(l, t)
  <2>1. PICK c \in Nat : c = FilledBy(l, t)
    BY <1>11
  <2>2. v[k] = e * c /\ e * c \in Int /\ v[0] = 0
    BY <1>11, <2>1
  <2>3. QED
    BY <1>2, <1>10, <2>1, <2>2
<1>13. e * FilledBy(l, t) = IF LegOf[l].product = p THEN LegOf[l].side * FilledBy(l, t) ELSE 0
  BY <1>3, <1>11
<1>14. IsFiniteSet(SeenBy(l, t))
  <2>1. 1 \in Int /\ k \in Int
    OBVIOUS
  <2>2. IsFiniteSet(1..k)
    BY <2>1, FS_Interval
  <2>3. QED
    BY <1>2, <2>2
<1>15. QED
  BY <1>11, <1>12, <1>13, <1>14

\* What the books of time t hold of a product is what its legs had filled then.
LEMMA BooksAtHeldBy ==
    ASSUME AccountInvariant, NEW t \in Int, NEW p \in HeldProducts
    PROVE  BooksAt(t).positions[p].quantity = HeldBy(p, t) /\ HeldBy(p, t) \in Int
<1>1. PICK D : D = [l \in Legs |-> SeenBy(l, t)]
  OBVIOUS
<1>2. Pairs(Legs, D) = ObservedBy(t)
  <2>1. ASSUME NEW z \in Pairs(Legs, D) PROVE z \in ObservedBy(t)
    <3>0. PICK l \in Legs : \E i : i \in SeenBy(l, t) /\ z = <<l, i>>
      BY <1>1 DEF Pairs
    <3>1. PICK i : i \in SeenBy(l, t) /\ z = <<l, i>>
      BY <3>0
    <3>2. QED
      BY <3>1 DEF ObservedBy, Observations, SeenBy
  <2>2. ASSUME NEW z \in ObservedBy(t) PROVE z \in Pairs(Legs, D)
    <3>0. PICK l \in Legs : \E i : /\ i \in DOMAIN reports[l] /\ z = <<l, i>>
                                   /\ reports[l][i].observed <= t
      BY DEF ObservedBy, Observations
    <3>1. PICK i : /\ i \in DOMAIN reports[l] /\ z = <<l, i>>
                   /\ reports[l][i].observed <= t
      BY <3>0
    <3>2. i \in D[l]
      BY <1>1, <3>1 DEF SeenBy
    <3>3. QED
      BY <3>1, <3>2 DEF Pairs
  <2>3. QED
    BY <2>1, <2>2
<1>3. PICK f : f = [z \in ObservedBy(t) |-> FillTerms(p)[z]]
  OBVIOUS
<1>4. ObservedBy(t) \subseteq Observations
  BY DEF ObservedBy
<1>5. f \in [Pairs(Legs, D) -> Int]
  BY <1>2, <1>3, <1>4, FillTermsAreTyped
<1>6. \A l \in Legs : IsFiniteSet(D[l])
  BY <1>1, LegHeldBy
<1>7. PICK h : h = [l \in Legs |-> Total([i \in D[l] |-> f[<<l, i>>]], D[l])]
  OBVIOUS
<1>8. Total(f, ObservedBy(t)) = Total(h, Legs)
  BY <1>2, <1>5, <1>6, <1>7, LegsAreFinite, SliceBySlice
<1>9. PICK r : r = [l \in Legs |-> IF LegOf[l].product = p THEN LegOf[l].side * FilledBy(l, t) ELSE 0]
  OBVIOUS
<1>10. ASSUME NEW l \in Legs PROVE h[l] = r[l]
  <2>1. PICK g : g = [i \in SeenBy(l, t) |-> FillTerms(p)[<<l, i>>]]
    OBVIOUS
  <2>2. \A i \in D[l] : <<l, i>> \in ObservedBy(t)
    BY <1>2 DEF Pairs
  <2>3. [i \in D[l] |-> f[<<l, i>>]] = g
    BY <1>1, <1>3, <2>1, <2>2
  <2>4. h[l] = Total(g, SeenBy(l, t))
    BY <1>1, <1>7, <2>3
  <2>5. QED
    BY <1>9, <2>1, <2>4, LegHeldBy
<1>11. Total(h, Legs) = Total(r, Legs)
  BY <1>10, SameTerms
<1>12. HeldBy(p, t) = Total(r, Legs)
  BY <1>9, SumIsTotal DEF HeldBy
<1>13. Total(FillTerms(p), ObservedBy(t)) = Total(f, ObservedBy(t))
  BY <1>3, SameTerms
<1>14. QED
  BY <1>8, <1>11, <1>12, <1>13, BooksAtHold


-----------------------------------------------------------------------------
(* The equity of a projection.                                               *)

\* Terms that are zero add nothing.
LEMMA ZerosAddNothing ==
    ASSUME NEW S, IsFiniteSet(S), NEW f \in [S -> Int], NEW r \in SUBSET S,
           \A x \in S \ r : f[x] = 0
    PROVE  Total(f, S) = Total(f, r)
<1>1. PICK Good : Good = {s \in SUBSET S : Total(f, s) = Total(f, s \cap r)}
  OBVIOUS
<1>2. TakesOut(f, S) /\ Total(f, {}) = 0 /\ \A s \in SUBSET S : Total(f, s) \in Int
  BY TotalTakesOut
<1>3. {} \in Good
  <2>1. {} \cap r = {}
    OBVIOUS
  <2>2. QED
    BY <1>1, <2>1
<1>4. ASSUME NEW s \in SUBSET S, s # {}, \A x \in s : s \ {x} \in Good PROVE s \in Good
  <2>1. PICK x \in s : TRUE
    BY <1>4
  <2>2. PICK u : u = s \ {x} /\ u \in SUBSET S /\ Total(f, u) = Total(f, u \cap r)
    BY <1>1, <1>4
  <2>3. Total(f, s) = f[x] + Total(f, u) /\ Total(f, u) \in Int /\ f[x] \in Int
    BY <1>2, <2>2 DEF TakesOut
  <2>4. CASE x \in r
    <3>1. PICK v : v = s \cap r
      OBVIOUS
    <3>2. x \in v /\ v \in SUBSET S /\ v \ {x} = u \cap r
      BY <2>2, <2>4, <3>1
    <3>3. Total(f, v) = f[x] + Total(f, u \cap r)
      BY <1>2, <3>2 DEF TakesOut
    <3>4. QED
      BY <1>1, <2>2, <2>3, <3>1, <3>3
  <2>5. CASE x \notin r
    <3>1. s \cap r = u \cap r
      BY <2>2, <2>5
    <3>2. f[x] = 0
      BY <2>5
    <3>3. Total(f, s) = Total(f, u)
      BY <2>3, <3>2
    <3>4. QED
      BY <1>1, <2>2, <3>1, <3>3
  <2>6. QED
    BY <2>4, <2>5
<1>5. S \in Good
  BY <1>3, <1>4, PartByPart
<1>6. S \cap r = r
  OBVIOUS
<1>7. QED
  BY <1>1, <1>5, <1>6

\* A leg that is not filled has paid nothing.
LEMMA NotFilledNothingPaid ==
    ASSUME AccountInvariant, NEW l \in Legs \ FilledLegs
    PROVE  LatestReport(l).filled = 0 /\ LatestReport(l).paid = 0
<1>1. LatestReport(l).filled \in Nat /\ ~(LatestReport(l).filled > 0)
  BY ReportsAreTyped DEF FilledLegs, ReportRow
<1>2. LatestReport(l).filled = 0
  BY <1>1
<1>3. reports[l] = << >>
  <2>1. ASSUME reports[l] # << >> PROVE FALSE
    <3>1. reports[l] \in Seq(ReportRow)
      BY DEF AccountInvariant
    <3>2. Len(reports[l]) \in 1..Len(reports[l])
      BY <2>1, <3>1
    <3>3. LatestReport(l) = reports[l][Len(reports[l])]
      BY <2>1 DEF LatestReport
    <3>4. LatestReport(l).filled # 0
      BY <3>2, <3>3, ReportsAreTyped
    <3>5. QED
      BY <1>2, <3>4
  <2>2. QED
    BY <2>1
<1>4. QED
  BY <1>2, <1>3 DEF LatestReport, NoReport

\* Numbers of a leg.
LEMMA LegAmounts ==
    ASSUME AccountInvariant, NEW l \in Legs
    PROVE  /\ LatestReport(l).filled \in Nat /\ LatestReport(l).paid \in Int
           /\ LegOf[l].side * LatestReport(l).filled \in Int
           /\ LegOf[l].side * LatestReport(l).paid \in Int
           /\ Commission * LatestReport(l).filled \in Int
           /\ Flow(l) \in Int
<1>1. LatestReport(l) \in ReportRow /\ LegOf[l].side \in {1, -1} /\ Commission \in Nat
  BY ReportsAreTyped, LegIsTyped, AccountNumbers
<1>2. LatestReport(l).filled \in Nat /\ LatestReport(l).paid \in Int
  BY <1>1 DEF ReportRow
<1>3. PICK e \in {1, -1}, n \in Nat, m \in Int, c \in Nat :
          /\ e = LegOf[l].side /\ n = LatestReport(l).filled /\ m = LatestReport(l).paid
          /\ c = Commission
  BY <1>1, <1>2
<1>4. e * n \in Int /\ e * m \in Int /\ c * n \in Int /\ -e * m - c * n \in Int
  OBVIOUS
<1>5. QED
  BY <1>3, <1>4 DEF Flow

\* The net position of a product is that of the filled orders.
LEMMA NetHeldIs ==
    ASSUME AccountInvariant, NEW p \in HeldProducts
    PROVE  NetHeld(p) = Total(SignedTerms(p), FilledLegs) /\ NetHeld(p) \in Int
<1>1. PICK f : f = [l \in Legs |-> IF LegOf[l].product = p
                                   THEN LegOf[l].side * LatestReport(l).filled ELSE 0]
  OBVIOUS
<1>2. f \in [Legs -> Int]
  BY <1>1, LegAmounts
<1>3. FilledLegs \in SUBSET Legs
  BY DEF FilledLegs
<1>4. \A l \in Legs \ FilledLegs : f[l] = 0
  <2>1. ASSUME NEW l \in Legs \ FilledLegs PROVE f[l] = 0
    <3>1. LatestReport(l).filled = 0 /\ LegOf[l].side \in {1, -1}
      BY NotFilledNothingPaid, LegIsTyped
    <3>2. QED
      BY <1>1, <3>1
  <2>2. QED
    BY <2>1
<1>5. Total(f, Legs) = Total(f, FilledLegs) /\ Total(f, Legs) \in Int
  BY <1>2, <1>3, <1>4, LegsAreFinite, ZerosAddNothing, TotalTakesOut
<1>6. \A l \in FilledLegs : f[l] = SignedTerms(p)[l]
  BY <1>1, <1>3, OrderIsTyped DEF SignedTerms, SignedFill
<1>7. Total(f, FilledLegs) = Total(SignedTerms(p), FilledLegs)
  BY <1>6, SameTerms
<1>8. NetHeld(p) = Total(f, Legs)
  BY <1>1, SumIsTotal DEF NetHeld
<1>9. QED
  BY <1>5, <1>7, <1>8

\* The flows of all legs are those of the filled ones.
LEMMA FlowsAre ==
    ASSUME AccountInvariant
    PROVE  /\ SumOf([l \in Legs |-> Flow(l)], Legs) = Total(FlowTerms, FilledLegs)
           /\ SumOf([l \in Legs |-> Flow(l)], Legs) \in Int
<1>1. PICK f : f = [l \in Legs |-> Flow(l)]
  OBVIOUS
<1>2. f \in [Legs -> Int]
  BY <1>1, LegAmounts
<1>3. FilledLegs \in SUBSET Legs
  BY DEF FilledLegs
<1>4. ASSUME NEW l \in Legs \ FilledLegs PROVE f[l] = 0
  <2>1. LatestReport(l).filled = 0 /\ LatestReport(l).paid = 0 /\ LegOf[l].side \in {1, -1}
        /\ Commission \in Nat
    BY NotFilledNothingPaid, LegIsTyped, AccountNumbers
  <2>2. Flow(l) = 0
    BY <2>1 DEF Flow
  <2>3. QED
    BY <1>1, <2>2
<1>5. Total(f, Legs) = Total(f, FilledLegs) /\ Total(f, Legs) \in Int
  BY <1>2, <1>3, <1>4, LegsAreFinite, ZerosAddNothing, TotalTakesOut
<1>6. \A l \in FilledLegs : f[l] = FlowTerms[l]
  BY <1>1, <1>3 DEF FlowTerms
<1>7. Total(f, FilledLegs) = Total(FlowTerms, FilledLegs)
  BY <1>6, SameTerms
<1>8. SumOf(f, Legs) = Total(f, Legs)
  BY SumIsTotal
<1>9. QED
  BY <1>1, <1>5, <1>7, <1>8

\* The fundings are paid on what was held when they fell due.
LEMMA FundingIs ==
    ASSUME AccountInvariant
    PROVE  /\ FundingPnl = SumOf([t \in Settlements |-> -HeldBy("perp", t) * FundingDue], Settlements)
           /\ FundingPnl \in Int
<1>1. \A t \in Settlements : t \in Int
  BY DEF Settlements, AccountInvariant
<1>2. PICK f : f = [t \in Settlements |-> -BooksAt(t).positions["perp"].quantity * FundingDue]
  OBVIOUS
<1>3. PICK g : g = [t \in Settlements |-> -HeldBy("perp", t) * FundingDue]
  OBVIOUS
<1>4. ASSUME NEW t \in Settlements PROVE f[t] = g[t] /\ f[t] \in Int
  <2>1. PICK n \in Int, d \in Int : n = HeldBy("perp", t) /\ d = FundingDue
                                   /\ n = BooksAt(t).positions["perp"].quantity
    BY <1>1, BooksAtHeldBy, AccountNumbers DEF HeldProducts
  <2>2. -n * d \in Int
    OBVIOUS
  <2>3. QED
    BY <1>2, <1>3, <2>1, <2>2
<1>5. Total(f, Settlements) = Total(g, Settlements)
  BY <1>4, SameTerms
<1>6. Total(f, Settlements) \in Int
  <2>1. Settlements \subseteq 0..moment /\ moment \in Int
    BY AccountNumbers DEF Settlements, AccountInvariant, AccountTypeOK
  <2>2. IsFiniteSet(Settlements)
    <3>1. IsFiniteSet(0..moment)
      BY <2>1, FS_Interval
    <3>2. QED
      BY <2>1, <3>1, FS_Subset
  <2>3. f \in [Settlements -> Int]
    BY <1>2, <1>4
  <2>4. QED
    BY <2>2, <2>3, TotalTakesOut
<1>7. FundingPnl = Total(f, Settlements)
  BY <1>2, SumIsTotal DEF FundingPnl
<1>8. SumOf(g, Settlements) = Total(g, Settlements)
  BY SumIsTotal
<1>9. QED
  BY <1>3, <1>5, <1>6, <1>7, <1>8

\* A sum over the two products.
LEMMA BothProducts ==
    ASSUME NEW f \in [HeldProducts -> Int]
    PROVE  SumOf(f, HeldProducts) = f["spot"] + f["perp"]
<1>1. TakesOut(f, HeldProducts) /\ Total(f, {}) = 0
  BY LegsAreFinite, TotalTakesOut
<1>2. PICK a : a = HeldProducts \ {"spot"} /\ a = {"perp"} /\ "spot" \in HeldProducts
  BY DEF HeldProducts
<1>3. a \in SUBSET HeldProducts /\ a \ {"perp"} = {} /\ "perp" \in a
  BY <1>2
<1>4. Total(f, HeldProducts) = f["spot"] + Total(f, a)
  BY <1>1, <1>2 DEF TakesOut
<1>5. Total(f, a) = f["perp"] + Total(f, {})
  BY <1>1, <1>3 DEF TakesOut
<1>6. f["spot"] \in Int /\ f["perp"] \in Int
  BY DEF HeldProducts
<1>7. QED
  BY <1>1, <1>4, <1>5, <1>6, SumIsTotal

\* What a projection sums up to.
LEMMA EquityIsFlows ==
    ASSUME AccountInvariant, AveragesAreWhole
    PROVE  EquityOf(Booked.cash + FundingPnl, Booked.positions)
             = Capital + SumOf([l \in Legs |-> Flow(l)], Legs)
               + SumOf([p \in HeldProducts |-> WouldBring(NetHeld(p))], HeldProducts)
               + SumOf([t \in Settlements |-> -HeldBy("perp", t) * FundingDue], Settlements)
<1>1. Booked \in Books /\ HoldsOf(Booked, FilledLegs)
  BY BookedHoldsOrders
<1>2. PICK C \in Int, P \in Holdings : C = Booked.cash /\ P = Booked.positions
  BY <1>1 DEF Books
<1>3. PICK s \in Int, q \in Int, a \in Int :
          s = P["spot"].quantity /\ q = P["perp"].quantity /\ a = P["perp"].average
  BY <1>2 DEF Holdings, Position, HeldProducts
<1>4. s = NetHeld("spot") /\ q = NetHeld("perp")
  BY <1>1, <1>2, <1>3, NetHeldIs DEF HoldsOf, HeldProducts
<1>5. PICK b \in Int, c \in Int : b = BidAt[moment] /\ c = BidAt[moment] + Spread
  <2>1. moment \in 0..LastMoment
    BY DEF AccountInvariant, AccountTypeOK
  <2>2. BidAt[moment] \in Nat /\ Spread \in Nat
    BY <2>1, AccountNumbers
  <2>3. QED
    BY <2>2
<1>6. PICK ms \in Int, mq \in Int : /\ ms = IF s > 0 THEN b ELSE c
                                    /\ mq = IF q > 0 THEN b ELSE c
  OBVIOUS
<1>7. MarkOf(P["spot"]) = ms /\ MarkOf(P["perp"]) = mq
  BY <1>3, <1>5, <1>6 DEF MarkOf
<1>8. WouldBring(s) = s * ms /\ WouldBring(q) = q * mq
  BY <1>5, <1>6 DEF WouldBring
<1>9. PICK F \in Int : F = FundingPnl
  BY FundingIs
<1>10. PICK u \in Int, v \in Int, w \in Int : u = s * ms /\ v = q * mq /\ w = a * q
  OBVIOUS
<1>11. EquityOf(C + F, P) = C + F + u + v - w
  <2>1. EquityOf(C + F, P) = C + F + s * ms + (mq - a) * q
    BY <1>3, <1>7 DEF EquityOf
  <2>2. (mq - a) * q = q * mq - a * q
    OBVIOUS
  <2>3. QED
    BY <1>10, <2>1, <2>2
<1>12. PICK T \in Int, n \in Nat : T = SumOf([l \in Legs |-> Flow(l)], Legs) /\ n = Capital
  BY FlowsAre, AccountNumbers
<1>13. C - w = n + T
  <2>1. BookWorth(Booked) = Capital + Total(FlowTerms, FilledLegs)
    BY BookedIsWorth
  <2>2. BookWorth(Booked) = C - w
    BY <1>2, <1>3, <1>10 DEF BookWorth
  <2>3. QED
    BY <1>12, <2>1, <2>2, FlowsAre
<1>14. SumOf([p \in HeldProducts |-> WouldBring(NetHeld(p))], HeldProducts) = u + v
  <2>1. PICK f : f = [p \in HeldProducts |-> WouldBring(NetHeld(p))]
    OBVIOUS
  <2>2. f["spot"] = u /\ f["perp"] = v
    BY <1>4, <1>8, <1>10, <2>1 DEF HeldProducts
  <2>3. f \in [HeldProducts -> Int]
    BY <1>10, <2>1, <2>2 DEF HeldProducts
  <2>4. QED
    BY <2>1, <2>2, <2>3, BothProducts
<1>15. PICK G \in Int : G = SumOf([t \in Settlements |-> -HeldBy("perp", t) * FundingDue], Settlements)
                        /\ G = F
  BY <1>9, FundingIs
<1>16. C + F + u + v - w = n + T + (u + v) + G
  BY <1>2, <1>9, <1>10, <1>12, <1>13, <1>15
<1>17. QED
  BY <1>2, <1>9, <1>11, <1>12, <1>14, <1>15, <1>16


-----------------------------------------------------------------------------
(* The trading cost of the same fills.                                       *)

Trips == [open : SUBSET Units, gross : Int, fees : Int]

\* What a unit brings to the cost, to the fees and to the position of product p.
ValueTerms   == [u \in Units |-> SideOf(u) * PriceOf(u)]
FeeTerms     == [u \in Units |-> Commission]
UnitTerms(p) == [u \in Units |-> IF LegOf[u[1]].product = p THEN SideOf(u) ELSE 0]

LEMMA UnitIsTyped ==
    ASSUME AccountInvariant, NEW u \in Units
    PROVE  /\ u[1] \in FilledLegs /\ u[1] \in Legs /\ u[2] \in 1..LatestReport(u[1]).filled
           /\ u = <<u[1], u[2]>>
           /\ SideOf(u) \in {1, -1} /\ PriceOf(u) \in Int
<1>0. PICK l \in Legs : \E i : i \in 1..LatestReport(l).filled /\ u = <<l, i>>
  BY DEF Units
<1>1. PICK i : i \in 1..LatestReport(l).filled /\ u = <<l, i>>
  BY <1>0
<1>2. LatestReport(l).filled \in Nat
  BY LegAmounts
<1>3. l \in FilledLegs
  BY <1>1, <1>2 DEF FilledLegs
<1>4. AveragePaid(LatestOrder(l)) \in Int
  BY <1>3, TermsAreTyped, FillIsTyped
<1>5. QED
  BY <1>1, <1>3, <1>4, LegIsTyped DEF SideOf, PriceOf

LEMMA UnitTermsAreTyped ==
    ASSUME AccountInvariant, NEW p
    PROVE  /\ ValueTerms \in [Units -> Int] /\ FeeTerms \in [Units -> Int]
           /\ UnitTerms(p) \in [Units -> Int]
<1>1. ASSUME NEW u \in Units PROVE SideOf(u) * PriceOf(u) \in Int /\ SideOf(u) \in Int
  <2>1. PICK e \in {1, -1}, x \in Int : e = SideOf(u) /\ x = PriceOf(u)
    BY UnitIsTyped
  <2>2. e * x \in Int
    OBVIOUS
  <2>3. QED
    BY <2>1, <2>2
<1>2. QED
  BY <1>1, AccountNumbers DEF ValueTerms, FeeTerms, UnitTerms

LEMMA UnitsInLine ==
    ASSUME AccountInvariant
    PROVE  IsFiniteSet(Units) /\ Keyed(UnitKeys, Units)
<1>1. PICK D : D = [l \in Legs |-> 1..LatestReport(l).filled]
  OBVIOUS
<1>2. ASSUME NEW l \in Legs PROVE IsFiniteSet(D[l])
  <2>1. PICK n \in Int : n = LatestReport(l).filled
    BY LegAmounts
  <2>2. IsFiniteSet(1..n)
    BY FS_Interval
  <2>3. QED
    BY <1>1, <2>1, <2>2
<1>3. Pairs(Legs, D) = Units
  BY <1>1 DEF Pairs, Units
<1>4. IsFiniteSet(Units)
  <2>1. FeeTerms \in [Pairs(Legs, D) -> Int]
    BY <1>3, UnitTermsAreTyped
  <2>2. QED
    BY <1>2, <1>3, <2>1, LegsAreFinite, SliceBySlice
<1>5. ASSUME NEW u \in Units
      PROVE  UnitKeys[u] \in [1..4 -> Int] /\ UnitKeys[u][3] = rankOf[u[1]] /\ UnitKeys[u][4] = u[2]
  <2>1. PICK l, i : l = u[1] /\ i = u[2] /\ l \in Legs /\ i \in 1..LatestReport(l).filled
    BY UnitIsTyped
  <2>2. LegOf[l].group \in Int
    BY <2>1, LegIsTyped
  <2>3. LatestReport(l).observed \in Int /\ rankOf[l] \in Int
    BY <2>1, ReportsAreTyped DEF ReportRow
  <2>4. i \in Int
    BY <2>1
  <2>5. UnitKeys[u] = <<LegOf[l].group, LatestReport(l).observed, rankOf[l], i>>
    BY <2>1 DEF UnitKeys
  <2>6. QED
    BY <2>1, <2>2, <2>3, <2>4, <2>5
<1>6. ASSUME NEW u \in Units, NEW v \in Units, UnitKeys[u] = UnitKeys[v] PROVE u = v
  <2>1. rankOf[u[1]] = rankOf[v[1]] /\ u[2] = v[2]
    BY <1>5, <1>6
  <2>2. u[1] = v[1]
    BY <2>1, UnitIsTyped, RanksApart
  <2>3. u = <<u[1], u[2]>> /\ v = <<v[1], v[2]>>
    BY UnitIsTyped
  <2>4. QED
    BY <2>1, <2>2, <2>3
<1>7. QED
  BY <1>4, <1>5, <1>6 DEF Keyed

\* The trips account for the units of s: what is open, and what was closed.
AccountsFor(trips, s) ==
    /\ trips \in Trips /\ trips.open \subseteq s
    /\ trips.gross = Total(ValueTerms, trips.open) - Total(ValueTerms, s)
    /\ trips.fees = Total(FeeTerms, s) - Total(FeeTerms, trips.open)
    /\ \A p \in HeldProducts : Total(UnitTerms(p), trips.open) = Total(UnitTerms(p), s)

\* A unit more opens a lot or closes the last one.
LEMMA OneUnitMore ==
    ASSUME AccountInvariant, NEW s \in SUBSET Units, NEW u \in s, NEW trips,
           AccountsFor(trips, s \ {u})
    PROVE  AccountsFor(MatchUnit(u, trips), s)
<1>1. PICK rest : rest = s \ {u} /\ rest \in SUBSET Units
  OBVIOUS
<1>2. trips \in Trips /\ trips.open \subseteq rest
  BY <1>1 DEF AccountsFor
<1>3. PICK O \in SUBSET Units, g \in Int, c \in Int : trips = [open |-> O, gross |-> g, fees |-> c]
  BY <1>2 DEF Trips
<1>4. O = trips.open /\ g = trips.gross /\ c = trips.fees
  BY <1>3
<1>5. /\ O = trips.open /\ g = trips.gross /\ c = trips.fees
      /\ O \subseteq rest /\ g \in Int /\ c \in Int
      /\ trips = [open |-> O, gross |-> g, fees |-> c]
  BY <1>2, <1>3, <1>4
<1>6. PICK V, W : V = ValueTerms /\ W = FeeTerms /\ V \in [Units -> Int] /\ W \in [Units -> Int]
  BY UnitTermsAreTyped
<1>7. IsFiniteSet(Units)
  BY UnitsInLine
<1>8. /\ TakesOut(V, Units) /\ TakesOut(W, Units)
      /\ \A r \in SUBSET Units : Total(V, r) \in Int /\ Total(W, r) \in Int
  BY <1>6, <1>7, TotalTakesOut
<1>9. Total(V, s) = V[u] + Total(V, rest) /\ Total(W, s) = W[u] + Total(W, rest)
  BY <1>1, <1>8 DEF TakesOut
<1>10. g = Total(V, O) - Total(V, rest) /\ c = Total(W, rest) - Total(W, O)
  BY <1>1, <1>5, <1>6 DEF AccountsFor
<1>11. ASSUME NEW p \in HeldProducts
      PROVE  LET f == UnitTerms(p)
             IN  /\ Total(f, s) = f[u] + Total(f, rest) /\ Total(f, O) = Total(f, rest)
                 /\ TakesOut(f, Units) /\ Total(f, rest) \in Int /\ f \in [Units -> Int]
                 /\ \A r \in SUBSET Units : Total(f, r) \in Int
  <2>1. PICK f : f = UnitTerms(p) /\ f \in [Units -> Int]
    BY UnitTermsAreTyped
  <2>2. TakesOut(f, Units) /\ \A r \in SUBSET Units : Total(f, r) \in Int
    BY <1>7, <2>1, TotalTakesOut
  <2>3. Total(f, s) = f[u] + Total(f, rest)
    BY <1>1, <2>2 DEF TakesOut
  <2>4. Total(f, O) = Total(f, rest)
    BY <1>1, <1>5, <2>1 DEF AccountsFor
  <2>5. QED
    BY <1>1, <2>1, <2>2, <2>3, <2>4
<1>12. PICK lots, last : lots = {v \in O : SameLots(u, v)} /\ last = LatestUnit(lots)
  OBVIOUS
<1>13. MatchUnit(u, trips)
         = IF lots # {} /\ SideOf(last) # SideOf(u)
           THEN [open |-> O \ {last}, gross |-> g + (PriceOf(u) - PriceOf(last)) * SideOf(last),
                 fees |-> c + 2 * Commission]
           ELSE [trips EXCEPT !.open = O \cup {u}]
  BY <1>5, <1>12 DEF MatchUnit
<1>14. PICK M : M = MatchUnit(u, trips)
  OBVIOUS
<1>15. PICK e \in {1, -1}, x \in Int, k \in Nat : e = SideOf(u) /\ x = PriceOf(u) /\ k = Commission
  BY UnitIsTyped, AccountNumbers
<1>16. V[u] = e * x /\ W[u] = k
  BY <1>6, <1>15 DEF ValueTerms, FeeTerms
<1>17. CASE lots # {} /\ SideOf(last) # SideOf(u)
  <2>1. last \in lots
    <3>1. lots \in SUBSET Units
      BY <1>1, <1>5, <1>12
    <3>2. QED
      BY <1>12, <1>17, <3>1, UnitsInLine, LatestIsLast DEF LatestUnit
  <2>2. last \in O /\ last \in Units /\ LegOf[last[1]].product = LegOf[u[1]].product
    BY <1>1, <1>5, <1>12, <2>1 DEF SameLots
  <2>3. PICK y \in Int : y = PriceOf(last) /\ SideOf(last) = -e
    BY <1>15, <1>17, <2>2, UnitIsTyped
  <2>4. PICK N : N = O \ {last} /\ N \in SUBSET Units /\ N \subseteq s
    BY <1>1, <1>5
  <2>5. M = [open |-> N, gross |-> g + (x - y) * (-e), fees |-> c + 2 * k]
    BY <1>13, <1>14, <1>15, <1>17, <2>3, <2>4
  <2>6. V[last] = -e * y /\ W[last] = k
    BY <1>6, <1>15, <2>2, <2>3 DEF ValueTerms, FeeTerms
  <2>7. Total(V, O) = V[last] + Total(V, N) /\ Total(W, O) = W[last] + Total(W, N)
    BY <1>1, <1>5, <1>8, <2>2, <2>4 DEF TakesOut
  <2>8. (x - y) * (-e) = -(e * x) - (-e * y) /\ (x - y) * (-e) \in Int /\ e * x \in Int /\ -e * y \in Int
    BY <1>15
  <2>9. /\ Total(V, N) \in Int /\ Total(W, N) \in Int /\ Total(V, rest) \in Int
        /\ Total(W, rest) \in Int
    BY <1>1, <1>8, <2>4
  <2>10. g + (x - y) * (-e) = Total(V, N) - Total(V, s)
    BY <1>9, <1>10, <1>16, <2>6, <2>7, <2>8, <2>9
  <2>11. c + 2 * k = Total(W, s) - Total(W, N)
    BY <1>9, <1>10, <1>16, <2>6, <2>7, <2>9
  <2>12. ASSUME NEW p \in HeldProducts PROVE Total(UnitTerms(p), N) = Total(UnitTerms(p), s)
    <3>1. PICK f : f = UnitTerms(p)
      OBVIOUS
    <3>2. /\ Total(f, s) = f[u] + Total(f, rest) /\ Total(f, O) = Total(f, rest)
          /\ TakesOut(f, Units) /\ Total(f, rest) \in Int /\ f \in [Units -> Int]
          /\ Total(f, N) \in Int
      BY <1>11, <2>4, <3>1
    <3>3. Total(f, O) = f[last] + Total(f, N)
      BY <1>1, <1>5, <2>2, <2>4, <3>2 DEF TakesOut
    <3>4. f[last] = -f[u] /\ f[u] \in Int
      BY <1>15, <2>2, <2>3, <3>1 DEF UnitTerms
    <3>5. QED
      BY <3>1, <3>2, <3>3, <3>4
  <2>13. M \in Trips
    <3>1. g + (x - y) * (-e) \in Int /\ c + 2 * k \in Int
      BY <2>8
    <3>2. QED
      BY <2>4, <2>5, <3>1 DEF Trips
  <2>14. M.open = N /\ M.gross = g + (x - y) * (-e) /\ M.fees = c + 2 * k
    BY <2>5
  <2>15. /\ M.gross = Total(ValueTerms, M.open) - Total(ValueTerms, s)
         /\ M.fees = Total(FeeTerms, s) - Total(FeeTerms, M.open)
    BY <1>6, <2>10, <2>11, <2>14
  <2>16. \A p \in HeldProducts : Total(UnitTerms(p), M.open) = Total(UnitTerms(p), s)
    BY <2>12, <2>14
  <2>17. AccountsFor(M, s)
    BY <2>4, <2>13, <2>14, <2>15, <2>16 DEF AccountsFor
  <2>18. QED
    BY <1>14, <2>17
<1>18. CASE ~(lots # {} /\ SideOf(last) # SideOf(u))
  <2>1. PICK N : N = O \cup {u} /\ N \in SUBSET Units /\ N \subseteq s /\ u \in N /\ N \ {u} = O
    <3>1. O \subseteq s /\ u \notin O
      BY <1>1, <1>5
    <3>2. PICK N : N = O \cup {u}
      OBVIOUS
    <3>3. N \in SUBSET Units /\ N \subseteq s /\ u \in N /\ N \ {u} = O
      BY <3>1, <3>2
    <3>4. QED
      BY <3>2, <3>3
  <2>2. M = [open |-> N, gross |-> g, fees |-> c]
    BY <1>5, <1>13, <1>14, <1>18, <2>1
  <2>3. Total(V, N) = V[u] + Total(V, O) /\ Total(W, N) = W[u] + Total(W, O)
    BY <1>8, <2>1 DEF TakesOut
  <2>4. /\ Total(V, O) \in Int /\ Total(W, O) \in Int /\ Total(V, rest) \in Int
        /\ Total(W, rest) \in Int /\ V[u] \in Int /\ W[u] \in Int
    BY <1>1, <1>5, <1>6, <1>8
  <2>5. g = Total(V, N) - Total(V, s) /\ c = Total(W, s) - Total(W, N)
    BY <1>9, <1>10, <2>3, <2>4
  <2>6. ASSUME NEW p \in HeldProducts PROVE Total(UnitTerms(p), N) = Total(UnitTerms(p), s)
    <3>1. PICK f : f = UnitTerms(p)
      OBVIOUS
    <3>2. /\ Total(f, s) = f[u] + Total(f, rest) /\ Total(f, O) = Total(f, rest)
          /\ TakesOut(f, Units)
      BY <1>11, <3>1
    <3>3. Total(f, N) = f[u] + Total(f, O)
      BY <2>1, <3>2 DEF TakesOut
    <3>4. QED
      BY <3>1, <3>2, <3>3
  <2>7. M \in Trips
    BY <2>1, <2>2 DEF Trips
  <2>8. M.open = N /\ M.gross = g /\ M.fees = c
    BY <2>2
  <2>9. /\ M.gross = Total(ValueTerms, M.open) - Total(ValueTerms, s)
        /\ M.fees = Total(FeeTerms, s) - Total(FeeTerms, M.open)
    BY <1>6, <2>5, <2>8
  <2>10. \A p \in HeldProducts : Total(UnitTerms(p), M.open) = Total(UnitTerms(p), s)
    BY <2>6, <2>8
  <2>11. AccountsFor(M, s)
    BY <2>1, <2>7, <2>8, <2>9, <2>10 DEF AccountsFor
  <2>12. QED
    BY <1>14, <2>11
<1>19. QED
  BY <1>17, <1>18


\* The trips that the units of the parts of S make.
Matching(S, F) ==
    F = [s \in SUBSET S |-> IF s = {} THEN NoTrips
                            ELSE MatchUnit(LatestUnit(s), F[s \ {LatestUnit(s)}])]

LEMMA TradingCostIs == TradingCost = (CHOOSE F : Matching(Units, F))[Units]
BY DEF TradingCost, MapThenFoldSet, Matching

LEMMA NoTripsAccount == ASSUME AccountInvariant PROVE AccountsFor(NoTrips, {}) /\ NoTrips \in Trips
<1>1. NoTrips.open = {} /\ NoTrips.gross = 0 /\ NoTrips.fees = 0 /\ NoTrips \in Trips
  BY DEF NoTrips, Trips
<1>2. Total(ValueTerms, {}) = 0 /\ Total(FeeTerms, {}) = 0
  BY UnitTermsAreTyped, UnitsInLine, TotalTakesOut
<1>3. QED
  BY <1>1, <1>2 DEF AccountsFor

\* A match leaves trips, whatever they account for.
LEMMA MatchIsTyped ==
    ASSUME AccountInvariant, NEW u \in Units, NEW trips \in Trips
    PROVE  MatchUnit(u, trips) \in Trips
<1>1. PICK O \in SUBSET Units, g \in Int, c \in Int : trips = [open |-> O, gross |-> g, fees |-> c]
  BY DEF Trips
<1>2. PICK lots, last : lots = {v \in O : SameLots(u, v)} /\ last = LatestUnit(lots)
  OBVIOUS
<1>3. MatchUnit(u, trips)
        = IF lots # {} /\ SideOf(last) # SideOf(u)
          THEN [open |-> O \ {last}, gross |-> g + (PriceOf(u) - PriceOf(last)) * SideOf(last),
                fees |-> c + 2 * Commission]
          ELSE [trips EXCEPT !.open = O \cup {u}]
  BY <1>1, <1>2 DEF MatchUnit
<1>4. CASE lots # {} /\ SideOf(last) # SideOf(u)
  <2>1. last \in lots
    <3>1. lots \in SUBSET Units
      BY <1>1, <1>2
    <3>2. QED
      BY <1>2, <1>4, <3>1, UnitsInLine, LatestIsLast DEF LatestUnit
  <2>2. last \in Units
    BY <1>2, <2>1
  <2>3. PICK e \in {1, -1}, x \in Int, y \in Int, k \in Nat :
            e = SideOf(last) /\ x = PriceOf(u) /\ y = PriceOf(last) /\ k = Commission
    BY <2>2, UnitIsTyped, AccountNumbers
  <2>4. g + (x - y) * e \in Int /\ c + 2 * k \in Int
    OBVIOUS
  <2>5. MatchUnit(u, trips) = [open |-> O \ {last}, gross |-> g + (x - y) * e, fees |-> c + 2 * k]
    BY <1>3, <1>4, <2>3
  <2>6. QED
    BY <2>4, <2>5 DEF Trips
<1>5. CASE ~(lots # {} /\ SideOf(last) # SideOf(u))
  <2>1. MatchUnit(u, trips) = [open |-> O \cup {u}, gross |-> g, fees |-> c]
    BY <1>1, <1>3, <1>5
  <2>2. QED
    BY <2>1 DEF Trips
<1>6. QED
  BY <1>4, <1>5

\* The trading cost accounts for every unit.
LEMMA CostAccounts ==
    ASSUME AccountInvariant
    PROVE  AccountsFor(TradingCost, Units)
<1>1. IsFiniteSet(Units) /\ Keyed(UnitKeys, Units)
  BY UnitsInLine
<1>2. PICK last : last = [s \in SUBSET Units |-> LatestUnit(s)]
  OBVIOUS
<1>3. \A s \in SUBSET Units : s # {} => LatestUnit(s) \in s /\ last[s] = LatestUnit(s)
  BY <1>1, <1>2, LatestIsLast DEF LatestUnit
<1>4. PICK g : g = [z \in Units \X Trips |-> MatchUnit(z[1], z[2])]
  OBVIOUS
<1>5. g \in [Units \X Trips -> Trips] /\ \A u \in Units, b \in Trips : g[<<u, b>>] = MatchUnit(u, b)
  BY <1>4, MatchIsTyped
<1>6. PICK H : Takes(Units, Trips, NoTrips, last, g, H)
  BY <1>1, <1>3, <1>5, NoTripsAccount, TakesExist
<1>7. H \in [SUBSET Units -> Trips] /\ H[{}] = NoTrips
  BY <1>6 DEF Takes
<1>8. ASSUME NEW s \in SUBSET Units, s # {}
      PROVE  H[s] = MatchUnit(LatestUnit(s), H[s \ {LatestUnit(s)}])
  <2>1. PICK m \in Units : m = LatestUnit(s) /\ m = last[s]
    BY <1>3, <1>8
  <2>2. H[s] = g[<<m, H[s \ {m}]>>]
    BY <1>6, <1>8, <2>1 DEF Takes
  <2>3. H[s \ {m}] \in Trips
    BY <1>7
  <2>4. QED
    BY <1>5, <2>1, <2>2, <2>3
<1>9. Matching(Units, H)
  <2>1. H = [s \in SUBSET Units |-> H[s]]
    BY <1>7
  <2>2. \A s \in SUBSET Units : H[s] = IF s = {} THEN NoTrips
                                       ELSE MatchUnit(LatestUnit(s), H[s \ {LatestUnit(s)}])
    BY <1>7, <1>8
  <2>3. QED
    BY <2>1, <2>2 DEF Matching
<1>10. PICK F : F = CHOOSE h : Matching(Units, h)
  OBVIOUS
<1>11. Matching(Units, F)
  BY <1>9, <1>10
<1>12. F[{}] = NoTrips
       /\ \A s \in SUBSET Units : s # {} => F[s] = MatchUnit(LatestUnit(s), F[s \ {LatestUnit(s)}])
  BY <1>11 DEF Matching
<1>13. PICK Good : Good = {s \in SUBSET Units : AccountsFor(F[s], s)}
  OBVIOUS
<1>14. {} \in Good
  BY <1>12, <1>13, NoTripsAccount
<1>15. ASSUME NEW s \in SUBSET Units, s # {}, \A x \in s : s \ {x} \in Good PROVE s \in Good
  <2>1. PICK m \in s : m = LatestUnit(s)
    BY <1>3, <1>15
  <2>2. AccountsFor(F[s \ {m}], s \ {m})
    BY <1>13, <1>15
  <2>3. F[s] = MatchUnit(m, F[s \ {m}])
    BY <1>12, <1>15, <2>1
  <2>4. AccountsFor(F[s], s)
    BY <2>2, <2>3, OneUnitMore
  <2>5. QED
    BY <1>13, <2>4
<1>16. Units \in Good
  BY <1>1, <1>14, <1>15, PartByPart
<1>17. TradingCost = F[Units]
  BY <1>10, TradingCostIs
<1>18. QED
  BY <1>13, <1>16, <1>17

\* As many terms as an order has units.
LEMMA UnitsOfLeg ==
    ASSUME NEW n \in Nat, NEW w \in Int, NEW g, g = [i \in 1..n |-> w]
    PROVE  Total(g, 1..n) = n * w
<1>1. PICK v : v = [i \in 0..n |-> i * w]
  OBVIOUS
<1>2. v \in [0..n -> Int] /\ g \in [1..n -> Int]
  BY <1>1
<1>3. ASSUME NEW i \in 1..n PROVE v[i] = v[i - 1] + g[i]
  <2>1. v[i] = i * w /\ v[i - 1] = (i - 1) * w /\ g[i] = w
    BY <1>1
  <2>2. i * w = (i - 1) * w + w
    OBVIOUS
  <2>3. QED
    BY <2>1, <2>2
<1>4. Climbs(v, g, n)
  BY <1>3 DEF Climbs
<1>5. Total(g, 1..n) = v[n] - v[0]
  BY <1>2, <1>4, StepByStep
<1>6. v[n] = n * w /\ v[0] = 0 /\ n * w \in Int
  BY <1>1
<1>7. QED
  BY <1>5, <1>6

\* A total over the units is one over the legs, of whole legs.
LEMMA UnitsByLeg ==
    ASSUME AccountInvariant, NEW f \in [Units -> Int], NEW w \in [Legs -> Int],
           \A u \in Units : f[u] = w[u[1]]
    PROVE  Total(f, Units) = Total([l \in Legs |-> LatestReport(l).filled * w[l]], Legs)
<1>1. PICK D : D = [l \in Legs |-> 1..LatestReport(l).filled]
  OBVIOUS
<1>2. ASSUME NEW l \in Legs PROVE IsFiniteSet(D[l])
  <2>1. PICK n \in Int : n = LatestReport(l).filled
    BY LegAmounts
  <2>2. IsFiniteSet(1..n)
    BY FS_Interval
  <2>3. QED
    BY <1>1, <2>1, <2>2
<1>3. Pairs(Legs, D) = Units
  BY <1>1 DEF Pairs, Units
<1>4. PICK h : h = [l \in Legs |-> Total([i \in D[l] |-> f[<<l, i>>]], D[l])]
  OBVIOUS
<1>5. Total(f, Units) = Total(h, Legs)
  BY <1>2, <1>3, <1>4, LegsAreFinite, SliceBySlice
<1>6. ASSUME NEW l \in Legs PROVE h[l] = LatestReport(l).filled * w[l]
  <2>1. PICK n \in Nat, c \in Int : n = LatestReport(l).filled /\ c = w[l] /\ D[l] = 1..n
    BY <1>1, LegAmounts
  <2>2. ASSUME NEW i \in 1..n PROVE f[<<l, i>>] = c
    <3>1. <<l, i>> \in Units
      BY <1>3, <2>1 DEF Pairs
    <3>2. QED
      BY <2>1, <3>1
  <2>3. PICK g : g = [i \in 1..n |-> c]
    OBVIOUS
  <2>4. [i \in D[l] |-> f[<<l, i>>]] = g
    BY <2>1, <2>2, <2>3
  <2>5. h[l] = Total(g, 1..n)
    BY <1>4, <2>1, <2>4
  <2>6. QED
    BY <2>1, <2>3, <2>5, UnitsOfLeg
<1>7. PICK r : r = [l \in Legs |-> LatestReport(l).filled * w[l]]
  OBVIOUS
<1>8. Total(h, Legs) = Total(r, Legs)
  BY <1>6, <1>7, SameTerms
<1>9. QED
  BY <1>5, <1>7, <1>8

\* Once no lot is open the trading cost is that of the account.
LEMMA CostIsFlows ==
    ASSUME AccountInvariant, AveragesAreWhole, NoLotOpen(TradingCost)
    PROVE  /\ \A p \in HeldProducts : NetHeld(p) = 0
           /\ TradingCost.fees = SumOf([l \in Legs |-> Commission * LatestReport(l).filled], Legs)
           /\ SumOf([l \in Legs |-> Commission * LatestReport(l).filled], Legs) \in Int
           /\ TradingCost.gross
                = SumOf([l \in Legs |-> Flow(l)], Legs)
                  + SumOf([l \in Legs |-> Commission * LatestReport(l).filled], Legs)
<1>1. TradingCost.open = {} /\ AccountsFor(TradingCost, Units)
  BY CostAccounts DEF NoLotOpen
<1>2. IsFiniteSet(Units) /\ IsFiniteSet(Legs)
  BY UnitsInLine, LegsAreFinite
<1>3. /\ ValueTerms \in [Units -> Int] /\ FeeTerms \in [Units -> Int]
      /\ \A p : UnitTerms(p) \in [Units -> Int]
  BY UnitTermsAreTyped
<1>4. /\ Total(ValueTerms, {}) = 0 /\ Total(FeeTerms, {}) = 0
      /\ Total(ValueTerms, Units) \in Int /\ Total(FeeTerms, Units) \in Int
      /\ \A p : Total(UnitTerms(p), {}) = 0
  BY <1>2, <1>3, TotalTakesOut
<1>5. /\ TradingCost.gross = -Total(ValueTerms, Units)
      /\ TradingCost.fees = Total(FeeTerms, Units)
      /\ \A p \in HeldProducts : Total(UnitTerms(p), Units) = 0
  <2>1. /\ TradingCost.gross = Total(ValueTerms, TradingCost.open) - Total(ValueTerms, Units)
        /\ TradingCost.fees = Total(FeeTerms, Units) - Total(FeeTerms, TradingCost.open)
        /\ \A p \in HeldProducts :
               Total(UnitTerms(p), TradingCost.open) = Total(UnitTerms(p), Units)
    BY <1>1 DEF AccountsFor
  <2>2. QED
    BY <1>1, <1>4, <2>1
<1>6. ASSUME NEW p \in HeldProducts PROVE NetHeld(p) = 0
  <2>1. PICK w : w = [l \in Legs |-> IF LegOf[l].product = p THEN LegOf[l].side ELSE 0]
    OBVIOUS
  <2>2. w \in [Legs -> Int]
    BY <2>1, LegIsTyped
  <2>3. \A u \in Units : UnitTerms(p)[u] = w[u[1]]
    BY <2>1, UnitIsTyped DEF UnitTerms, SideOf
  <2>4. PICK r : r = [l \in Legs |-> LatestReport(l).filled * w[l]]
    OBVIOUS
  <2>5. Total(r, Legs) = 0
    BY <1>3, <1>5, <2>2, <2>3, <2>4, UnitsByLeg
  <2>6. PICK f : f = [l \in Legs |-> IF LegOf[l].product = p
                                     THEN LegOf[l].side * LatestReport(l).filled ELSE 0]
    OBVIOUS
  <2>7. ASSUME NEW l \in Legs PROVE f[l] = r[l]
    <3>1. PICK n \in Nat, e \in Int : n = LatestReport(l).filled /\ e = LegOf[l].side
      BY LegAmounts, LegIsTyped
    <3>2. CASE LegOf[l].product = p
      <4>1. f[l] = e * n /\ r[l] = n * e
        BY <2>1, <2>4, <2>6, <3>1, <3>2
      <4>2. QED
        BY <4>1
    <3>3. CASE LegOf[l].product # p
      <4>1. f[l] = 0 /\ r[l] = n * 0
        BY <2>1, <2>4, <2>6, <3>1, <3>3
      <4>2. QED
        BY <4>1
    <3>4. QED
      BY <3>2, <3>3
  <2>8. Total(f, Legs) = Total(r, Legs)
    BY <2>7, SameTerms
  <2>9. QED
    BY <2>5, <2>6, <2>8, SumIsTotal DEF NetHeld
<1>7. PICK b : b = [l \in Legs |-> Commission * LatestReport(l).filled]
  OBVIOUS
<1>8. b \in [Legs -> Int] /\ SumOf(b, Legs) = Total(b, Legs) /\ Total(b, Legs) \in Int
  <2>1. b \in [Legs -> Int]
    BY <1>7, LegAmounts
  <2>2. QED
    BY <1>2, <2>1, SumIsTotal, TotalTakesOut
<1>9. Total(FeeTerms, Units) = Total(b, Legs)
  <2>1. PICK w : w = [l \in Legs |-> Commission]
    OBVIOUS
  <2>2. w \in [Legs -> Int]
    <3>1. Commission \in Int
      BY AccountNumbers
    <3>2. QED
      BY <2>1, <3>1
  <2>3. \A u \in Units : FeeTerms[u] = w[u[1]]
    BY <2>1, UnitIsTyped DEF FeeTerms
  <2>4. PICK r : r = [l \in Legs |-> LatestReport(l).filled * w[l]]
    OBVIOUS
  <2>5. Total(FeeTerms, Units) = Total(r, Legs)
    BY <1>3, <2>3, <2>4, <2>2, UnitsByLeg
  <2>6. ASSUME NEW l \in Legs PROVE r[l] = b[l]
    <3>1. PICK n \in Nat, c \in Nat : n = LatestReport(l).filled /\ c = Commission
      BY LegAmounts, AccountNumbers
    <3>2. r[l] = n * c /\ b[l] = c * n
      BY <1>7, <2>1, <2>4, <3>1
    <3>3. QED
      BY <3>2
  <2>7. Total(r, Legs) = Total(b, Legs)
    BY <2>6, SameTerms
  <2>8. QED
    BY <2>5, <2>7
<1>10. PICK x : x = [l \in Legs |-> Flow(l)]
  OBVIOUS
<1>11. x \in [Legs -> Int] /\ SumOf(x, Legs) = Total(x, Legs) /\ Total(x, Legs) \in Int
  <2>1. x \in [Legs -> Int]
    BY <1>10, LegAmounts
  <2>2. QED
    BY <1>2, <2>1, SumIsTotal, TotalTakesOut
<1>12. -Total(ValueTerms, Units) = Total(x, Legs) + Total(b, Legs)
  <2>1. PICK w : w = [l \in Legs |-> IF l \in FilledLegs
                                     THEN LegOf[l].side * AveragePaid(LatestOrder(l)) ELSE 0]
    OBVIOUS
  <2>2. ASSUME NEW l \in Legs PROVE w[l] \in Int
    <3>1. CASE l \in FilledLegs
      <4>1. PICK e \in {1, -1}, a \in Int : e = LegOf[l].side /\ a = AveragePaid(LatestOrder(l))
        BY <3>1, LegIsTyped, TermsAreTyped, FillIsTyped
      <4>2. e * a \in Int
        OBVIOUS
      <4>3. QED
        BY <2>1, <3>1, <4>1, <4>2
    <3>2. CASE l \notin FilledLegs
      BY <2>1, <3>2
    <3>3. QED
      BY <3>1, <3>2
  <2>3. w \in [Legs -> Int]
    BY <2>1, <2>2
  <2>4. \A u \in Units : ValueTerms[u] = w[u[1]]
    BY <2>1, UnitIsTyped DEF ValueTerms, SideOf, PriceOf
  <2>5. PICK r : r = [l \in Legs |-> LatestReport(l).filled * w[l]]
    OBVIOUS
  <2>6. Total(ValueTerms, Units) = Total(r, Legs)
    BY <1>3, <2>3, <2>4, <2>5, UnitsByLeg
  <2>7. ASSUME NEW l \in Legs PROVE r[l] \in Int /\ r[l] = -x[l] - b[l]
    <3>1. PICK n \in Nat, m \in Int, e \in {1, -1}, c \in Nat :
              /\ n = LatestReport(l).filled /\ m = LatestReport(l).paid
              /\ e = LegOf[l].side /\ c = Commission
      BY LegAmounts, LegIsTyped, AccountNumbers
    <3>2. x[l] = -e * m - c * n /\ b[l] = c * n
      BY <1>7, <1>10, <3>1 DEF Flow
    <3>3. r[l] = e * m
      <4>1. CASE l \in FilledLegs
        <5>1. PICK a \in Int : a = AveragePaid(LatestOrder(l))
          BY <4>1, TermsAreTyped, FillIsTyped
        <5>2. a * n = m
          BY <3>1, <4>1, <5>1 DEF AveragesAreWhole
        <5>3. r[l] = n * (e * a)
          BY <2>1, <2>5, <3>1, <4>1, <5>1
        <5>4. n * (e * a) = e * (a * n)
          OBVIOUS
        <5>5. QED
          BY <5>2, <5>3, <5>4
      <4>2. CASE l \notin FilledLegs
        <5>1. n = 0 /\ m = 0
          BY <3>1, <4>2, NotFilledNothingPaid
        <5>2. r[l] = n * 0
          BY <2>1, <2>5, <3>1, <4>2
        <5>3. QED
          BY <5>1, <5>2
      <4>3. QED
        BY <4>1, <4>2
    <3>4. PICK y \in Int, z \in Int : y = e * m /\ z = c * n
      OBVIOUS
    <3>5. -e * m = -y
      BY <3>4
    <3>6. QED
      BY <3>2, <3>3, <3>4, <3>5
  <2>8. PICK k \in Int : k = -1
    OBVIOUS
  <2>9. r \in [Legs -> Int] /\ Combines(r, k, x, k, b, Legs)
    <3>1. ASSUME NEW l \in Legs PROVE r[l] = k * x[l] + k * b[l]
      <4>1. r[l] = -x[l] - b[l] /\ x[l] \in Int /\ b[l] \in Int
        BY <1>8, <1>11, <2>7
      <4>2. QED
        BY <2>8, <4>1
    <3>2. QED
      BY <2>5, <2>7, <3>1 DEF Combines
  <2>10. Total(r, Legs) = k * Total(x, Legs) + k * Total(b, Legs)
    BY <1>2, <1>8, <1>11, <2>9, TotalIsLinear
  <2>11. QED
    BY <1>4, <1>8, <1>11, <2>6, <2>8, <2>10
<1>13. QED
  BY <1>5, <1>6, <1>7, <1>8, <1>9, <1>10, <1>11, <1>12


-----------------------------------------------------------------------------
(* The steps of the account.                                                 *)

LEMMA AccountBegins == AccountInit => AccountInvariant
<1>. SUFFICES ASSUME AccountInit PROVE AccountInvariant
  OBVIOUS
<1>1. reports \in [Legs -> Seq(ReportRow)] /\ \A l \in Legs : reports[l] = << >>
  BY DEF AccountInit
<1>2. /\ moment = 0 /\ rankOf \in ClientRanks /\ DOMAIN fundingSeen = {}
      /\ account = NoAccount /\ closedDays = 0
  BY DEF AccountInit
<1>3. Capital \in Nat /\ LastMoment \in Nat
  BY AccountNumbers
<1>4. /\ account.at = -1 /\ account.cash = Capital /\ account.equity = Capital
      /\ account.daily = 0
  BY <1>2 DEF NoAccount
<1>5. AccountTypeOK
  BY <1>1, <1>2, <1>3, <1>4 DEF AccountTypeOK
<1>6. \A l \in Legs : ReportsRise(reports[l])
  BY <1>1 DEF ReportsRise
<1>7. QED
  BY <1>1, <1>2, <1>3, <1>4, <1>5, <1>6 DEF AccountInvariant

\* What is in sight stays where it is.
LEMMA MomentPassesSafe == AccountInvariant /\ MomentPasses => AccountInvariant'
<1>. SUFFICES ASSUME AccountInvariant, MomentPasses PROVE AccountInvariant'
  OBVIOUS
<1>1. /\ moment \in 0..LastMoment /\ moment' = moment + 1 /\ moment' \in 0..LastMoment
      /\ UNCHANGED <<rankOf, reports, fundingSeen, account, closedDays>>
  BY AccountNumbers DEF MomentPasses, AccountInvariant, AccountTypeOK
<1>2. ASSUME NEW l \in Legs, NEW i \in DOMAIN reports[l]
      PROVE  /\ reports[l][i].observed <= reports[l][i].available
             /\ reports[l][i].available <= moment' /\ reports[l][i].filled \in LegOf[l].fills
  <2>1. /\ reports[l][i].observed <= reports[l][i].available
        /\ reports[l][i].available <= moment /\ reports[l][i].filled \in LegOf[l].fills
    BY DEF AccountInvariant, AccountTypeOK
  <2>2. reports[l][i].available \in Nat
    BY ReportsAreTyped DEF ReportRow
  <2>3. QED
    BY <1>1, <2>1, <2>2
<1>3. account.at \in -1..moment'
  BY <1>1 DEF AccountInvariant, AccountTypeOK
<1>4. AccountTypeOK'
  BY <1>1, <1>2, <1>3 DEF AccountInvariant, AccountTypeOK
<1>5. DOMAIN fundingSeen \subseteq 0..moment'
  BY <1>1 DEF AccountInvariant
<1>6. QED
  BY <1>1, <1>4, <1>5 DEF AccountInvariant

LEMMA CollectFundingSafe == AccountInvariant /\ CollectFunding => AccountInvariant'
<1>. SUFFICES ASSUME AccountInvariant, CollectFunding PROVE AccountInvariant'
  OBVIOUS
<1>1. PICK t \in FundingMoments : /\ t <= moment
                                  /\ DOMAIN fundingSeen' = DOMAIN fundingSeen \cup {t}
  BY DEF CollectFunding
<1>2. t \in 0..moment /\ UNCHANGED <<moment, rankOf, reports, account, closedDays>>
  BY <1>1, AccountAssumption DEF CollectFunding, AccountInvariant, AccountTypeOK
<1>3. AccountTypeOK'
  BY <1>1, <1>2 DEF AccountInvariant, AccountTypeOK
<1>4. DOMAIN fundingSeen' \subseteq 0..moment'
  BY <1>1, <1>2 DEF AccountInvariant
<1>5. QED
  BY <1>2, <1>3, <1>4 DEF AccountInvariant

\* A row more, above and after the rows before it.
LEMMA OneRowMore ==
    ASSUME NEW rows \in Seq(ReportRow), ReportsRise(rows), NEW x \in ReportRow,
           LET y == IF rows = << >> THEN NoReport ELSE rows[Len(rows)]
           IN  rows = << >> \/ (y.filled < x.filled /\ y.observed <= x.observed)
    PROVE  /\ Append(rows, x) \in Seq(ReportRow) /\ ReportsRise(Append(rows, x))
           /\ DOMAIN Append(rows, x) = 1..(Len(rows) + 1) /\ DOMAIN rows = 1..Len(rows)
           /\ Len(rows) \in Nat
           /\ \A i \in 1..(Len(rows) + 1) :
                  Append(rows, x)[i] = IF i \in 1..Len(rows) THEN rows[i] ELSE x
<1>0. PICK n \in Nat : n = Len(rows)
  OBVIOUS
<1>1. PICK s : n = Len(rows) /\ s = Append(rows, x)
  BY <1>0
<1>2. s \in Seq(ReportRow) /\ Len(s) = n + 1 /\ DOMAIN s = 1..(n + 1) /\ DOMAIN rows = 1..n
  BY <1>1
<1>3. \A i \in 1..(n + 1) : s[i] = IF i \in 1..n THEN rows[i] ELSE x
  BY <1>1
<1>4. ASSUME NEW i \in 2..(n + 1)
      PROVE  s[i - 1].filled < s[i].filled /\ s[i - 1].observed <= s[i].observed
  <2>1. i - 1 \in 1..n /\ i - 1 \in 1..(n + 1) /\ i \in 1..(n + 1)
    OBVIOUS
  <2>2. s[i - 1] = rows[i - 1]
    BY <1>3, <2>1
  <2>3. CASE i \in 1..n
    <3>1. s[i] = rows[i] /\ i \in 2..n
      BY <1>3, <2>1, <2>3
    <3>2. QED
      BY <1>1, <2>2, <3>1 DEF ReportsRise
  <2>4. CASE i \notin 1..n
    <3>1. i = n + 1 /\ i - 1 = n /\ s[i] = x /\ rows # << >>
      BY <1>1, <1>3, <2>1, <2>4
    <3>2. QED
      BY <1>1, <2>2, <3>1
  <2>5. QED
    BY <2>3, <2>4
<1>5. ReportsRise(s)
  BY <1>2, <1>4 DEF ReportsRise
<1>6. QED
  BY <1>1, <1>2, <1>3, <1>5

LEMMA ReportOrderSafe ==
    ASSUME AccountInvariant, NEW l \in Legs, ReportOrder(l) PROVE AccountInvariant'
<1>0. PICK q \in LegOf[l].fills : \E t, x :
          /\ t = moment - LegOf[l].delay /\ t >= 0 /\ MayFill(l, q)
          /\ LatestReport(l).observed <= t
          /\ x = [observed |-> t, available |-> moment, filled |-> q,
                  paid |-> LatestReport(l).paid + (q - LatestReport(l).filled) * BidAt[t]]
          /\ reports' = [reports EXCEPT ![l] = Append(@, x)]
  BY DEF ReportOrder
<1>1. PICK t, x :
          /\ t = moment - LegOf[l].delay /\ t >= 0 /\ MayFill(l, q)
          /\ LatestReport(l).observed <= t
          /\ x = [observed |-> t, available |-> moment, filled |-> q,
                  paid |-> LatestReport(l).paid + (q - LatestReport(l).filled) * BidAt[t]]
          /\ reports' = [reports EXCEPT ![l] = Append(@, x)]
  BY <1>0
<1>2. UNCHANGED <<moment, rankOf, fundingSeen, account, closedDays>>
  BY DEF ReportOrder
<1>3. moment \in 0..LastMoment /\ LastMoment \in Nat
  BY AccountNumbers DEF AccountInvariant, AccountTypeOK
<1>4. t \in 0..LastMoment /\ t <= moment /\ t \in Nat /\ q \in Nat \ {0}
  BY <1>1, <1>3, LegIsTyped
<1>5. x \in ReportRow /\ x.filled = q /\ x.observed = t /\ x.available = moment
  <2>1. PICK m \in Int, n \in Int, b \in Int :
            m = LatestReport(l).paid /\ n = LatestReport(l).filled /\ b = BidAt[t]
    <3>1. LatestReport(l).paid \in Int /\ LatestReport(l).filled \in Int
      BY LegAmounts
    <3>2. BidAt[t] \in Int
      BY <1>4, AccountNumbers
    <3>3. QED
      BY <3>1, <3>2
  <2>2. m + (q - n) * b \in Int
    BY <1>4
  <2>3. QED
    BY <1>1, <1>3, <1>4, <2>1, <2>2 DEF ReportRow
<1>6. PICK rows : rows = reports[l] /\ rows \in Seq(ReportRow) /\ ReportsRise(rows)
  BY DEF AccountInvariant
<1>7. PICK s : s = Append(rows, x)
  OBVIOUS
<1>8. /\ s \in Seq(ReportRow) /\ ReportsRise(s) /\ DOMAIN s = 1..(Len(rows) + 1)
      /\ DOMAIN rows = 1..Len(rows) /\ Len(rows) \in Nat
      /\ \A i \in 1..(Len(rows) + 1) : s[i] = IF i \in 1..Len(rows) THEN rows[i] ELSE x
  <2>1. LatestReport(l).filled < x.filled /\ LatestReport(l).observed <= x.observed
    BY <1>1, <1>4, <1>5, LegAmounts DEF MayFill
  <2>2. LatestReport(l) = IF rows = << >> THEN NoReport ELSE rows[Len(rows)]
    BY <1>6 DEF LatestReport
  <2>3. QED
    BY <1>5, <1>6, <1>7, <2>1, <2>2, OneRowMore
<1>9. reports \in [Legs -> Seq(ReportRow)]
  BY DEF AccountInvariant
<1>10. reports'[l] = s /\ \A k \in Legs : k # l => reports'[k] = reports[k]
  BY <1>1, <1>6, <1>7, <1>9
<1>11. reports' \in [Legs -> Seq(ReportRow)]
  BY <1>1, <1>6, <1>7, <1>8, <1>9
<1>12. \A k \in Legs : ReportsRise(reports'[k])
  BY <1>8, <1>10 DEF AccountInvariant
<1>13. ASSUME NEW k \in Legs, NEW i \in DOMAIN reports'[k]
       PROVE  /\ reports'[k][i].observed <= reports'[k][i].available
              /\ reports'[k][i].available <= moment /\ reports'[k][i].filled \in LegOf[k].fills
  <2>1. CASE k = l /\ i \notin 1..Len(rows)
    <3>1. reports'[k][i] = x
      BY <1>8, <1>10, <2>1
    <3>2. QED
      BY <1>3, <1>4, <1>5, <2>1, <3>1
  <2>2. CASE ~(k = l /\ i \notin 1..Len(rows))
    <3>1. i \in DOMAIN reports[k] /\ reports'[k][i] = reports[k][i]
      BY <1>6, <1>8, <1>10, <2>2
    <3>2. QED
      BY <3>1 DEF AccountInvariant, AccountTypeOK
  <2>3. QED
    BY <2>1, <2>2
<1>14. AccountTypeOK'
  BY <1>2, <1>13 DEF AccountInvariant, AccountTypeOK
<1>15. QED
  BY <1>2, <1>11, <1>12, <1>14 DEF AccountInvariant

\* The numbers of a projection.
LEMMA ProjectionIsTyped ==
    ASSUME AccountInvariant
    PROVE  /\ Booked.cash + FundingPnl \in Int
           /\ EquityOf(Booked.cash + FundingPnl, Booked.positions) \in Int
<1>1. Booked \in Books
  BY BookedHoldsOrders
<1>2. PICK C \in Int, P \in Holdings : C = Booked.cash /\ P = Booked.positions
  BY <1>1 DEF Books
<1>3. PICK F \in Int : F = FundingPnl
  BY FundingIs
<1>4. PICK s \in Int, q \in Int, a \in Int :
          s = P["spot"].quantity /\ q = P["perp"].quantity /\ a = P["perp"].average
  BY <1>2 DEF Holdings, Position, HeldProducts
<1>5. PICK b \in Int, c \in Int : b = BidAt[moment] /\ c = BidAt[moment] + Spread
  <2>1. moment \in 0..LastMoment
    BY DEF AccountInvariant, AccountTypeOK
  <2>2. BidAt[moment] \in Nat /\ Spread \in Nat
    BY <2>1, AccountNumbers
  <2>3. QED
    BY <2>2
<1>6. PICK m \in Int, n \in Int : m = MarkOf(P["spot"]) /\ n = MarkOf(P["perp"])
  BY <1>5 DEF MarkOf
<1>7. C + F + s * m + (n - a) * q \in Int /\ C + F \in Int
  OBVIOUS
<1>8. QED
  BY <1>2, <1>3, <1>4, <1>6, <1>7 DEF EquityOf

\* What a projection writes.
LEMMA ProjectionWrites ==
    ASSUME AccountInvariant, ProjectAccount
    PROVE  \E C \in Nat, E \in Int, F \in Int :
               /\ C = Booked.cash + FundingPnl /\ E = EquityOf(C, Booked.positions)
               /\ F = FundingPnl
               /\ account'.at = moment /\ account'.cash = C /\ account'.equity = E
               /\ account'.daily = DailyPnl(E)
               /\ account'.fees = SumOf([l \in Legs |-> Commission * LatestReport(l).filled], Legs)
               /\ account'.pricePnl = E - Capital - F + account'.fees
               /\ account'.positions = Booked.positions /\ account'.sleeves = Booked.sleeves
               /\ closedDays' = IF account.at >= 0 /\ account.at \div DayLength < moment \div DayLength
                                THEN closedDays + account.daily ELSE closedDays
               /\ UNCHANGED <<moment, rankOf, reports, fundingSeen>>
<1>1. PICK C \in Int : C = Booked.cash + FundingPnl
  BY ProjectionIsTyped
<1>2. PICK E \in Int : E = EquityOf(C, Booked.positions)
  BY <1>1, ProjectionIsTyped
<1>3. PICK F \in Int : F = FundingPnl
  BY FundingIs
<1>4. PICK fees : fees = SumOf([l \in Legs |-> Commission * LatestReport(l).filled], Legs)
  OBVIOUS
<1>5. ~Rejected(Booked, C)
  BY <1>1 DEF ProjectAccount
<1>6. C \in Nat
  BY <1>1, <1>5 DEF Rejected
<1>7. account' = [at |-> moment, seen |-> SeenReports, cash |-> C, equity |-> E,
                  daily |-> DailyPnl(E), pricePnl |-> E - Capital - F + fees,
                  funding |-> F, fees |-> fees,
                  positions |-> Booked.positions, sleeves |-> Booked.sleeves]
  BY <1>1, <1>2, <1>3, <1>4 DEF ProjectAccount
<1>8. /\ account'.at = moment /\ account'.cash = C /\ account'.equity = E
      /\ account'.daily = DailyPnl(E) /\ account'.fees = fees
      /\ account'.pricePnl = E - Capital - F + fees
      /\ account'.positions = Booked.positions /\ account'.sleeves = Booked.sleeves
  BY <1>7
<1>9. /\ closedDays' = IF account.at >= 0 /\ account.at \div DayLength < moment \div DayLength
                       THEN closedDays + account.daily ELSE closedDays
      /\ UNCHANGED <<moment, rankOf, reports, fundingSeen>>
  BY DEF ProjectAccount
<1>10. QED
  BY <1>1, <1>2, <1>3, <1>4, <1>6, <1>8, <1>9

\* Days do not go back.
LEMMA DaysGoOn ==
    ASSUME NEW m \in Nat, NEW n \in Nat, m <= n, NEW k \in Nat, k > 0
    PROVE  m \div k <= n \div k /\ m \div k \in Nat /\ n \div k \in Nat
<1>1. PICK a \in Nat, b \in Nat : a = m \div k /\ b = n \div k
  BY DivFacts
<1>2. k * a <= m /\ n < k * b + k
  BY <1>1, DivFacts
<1>3. ASSUME a > b PROVE FALSE
  <2>1. PICK c \in Nat : a = b + 1 + c
    BY <1>3
  <2>2. k * a = k * b + k + k * c /\ k * c \in Nat /\ k * b \in Nat
    BY <2>1
  <2>3. QED
    BY <1>2, <2>2
<1>4. QED
  BY <1>1, <1>3

\* The days so far make the result so far.
LEMMA DaysAddUp ==
    ASSUME AccountInvariant, NEW E \in Int
    PROVE  LET closed == IF account.at >= 0 /\ account.at \div DayLength < moment \div DayLength
                         THEN closedDays + account.daily ELSE closedDays
           IN  DailyPnl(E) \in Int /\ closed \in Int /\ closed + DailyPnl(E) = E - Capital
<1>1. PICK c \in Int, d \in Int, e \in Int, n \in Nat :
          /\ c = closedDays /\ d = account.daily /\ e = account.equity /\ n = Capital
          /\ c + d = e - n
  BY AccountNumbers DEF AccountInvariant, AccountTypeOK
<1>2. moment \in Nat /\ account.at \in -1..moment
  BY DEF AccountInvariant, AccountTypeOK
<1>3. CASE account = NoAccount
  <2>1. account.at = -1 /\ d = 0 /\ e = n
    BY <1>1, <1>3 DEF NoAccount
  <2>2. DailyPnl(E) = E - n
    <3>1. ~(account.at >= 0)
      BY <2>1
    <3>2. DailyPnl(E) = E - Capital
      BY <1>3, <3>1 DEF DailyPnl
    <3>3. QED
      BY <1>1, <3>2
  <2>3. c = 0
    BY <1>1, <2>1
  <2>4. QED
    BY <1>1, <2>1, <2>2, <2>3
<1>4. CASE account # NoAccount
  <2>1. account.at >= 0 /\ account.at \in Nat /\ account.at <= moment
    BY <1>2, <1>4 DEF AccountInvariant
  <2>2. PICK a \in Nat, b \in Nat : a = account.at \div DayLength /\ b = moment \div DayLength /\ a <= b
    BY <1>2, <2>1, AccountNumbers, DaysGoOn
  <2>3. CASE a = b
    <3>1. DailyPnl(E) = d + E - e
      BY <1>1, <1>4, <2>1, <2>2, <2>3 DEF DailyPnl
    <3>2. QED
      BY <1>1, <2>1, <2>2, <2>3, <3>1
  <2>4. CASE a < b
    <3>1. DailyPnl(E) = E - e
      BY <1>1, <1>4, <2>2, <2>4 DEF DailyPnl
    <3>2. QED
      BY <1>1, <2>1, <2>2, <2>4, <3>1
  <2>5. QED
    BY <2>2, <2>3, <2>4
<1>5. QED
  BY <1>3, <1>4

LEMMA ProjectAccountSafe ==
    ASSUME AccountInvariant, ProjectAccount
    PROVE  AccountInvariant'
<1>1. PICK C \in Nat, E \in Int :
          /\ account'.at = moment /\ account'.cash = C /\ account'.equity = E
          /\ account'.daily = DailyPnl(E)
          /\ closedDays' = IF account.at >= 0 /\ account.at \div DayLength < moment \div DayLength
                           THEN closedDays + account.daily ELSE closedDays
          /\ UNCHANGED <<moment, rankOf, reports, fundingSeen>>
  BY ProjectionWrites
<1>2. account'.daily \in Int /\ closedDays' \in Int /\ closedDays' + account'.daily = E - Capital
  BY <1>1, DaysAddUp
<1>3. moment \in 0..LastMoment /\ LastMoment \in Nat
  BY AccountNumbers DEF AccountInvariant, AccountTypeOK
<1>4. AccountTypeOK'
  BY <1>1, <1>2, <1>3 DEF AccountInvariant, AccountTypeOK
<1>5. account'.at >= 0
  BY <1>1, <1>3
<1>6. QED
  BY <1>1, <1>2, <1>4, <1>5 DEF AccountInvariant

LEMMA AccountStep == AccountInvariant /\ [AccountNext]_accountVars => AccountInvariant'
<1>. SUFFICES ASSUME AccountInvariant, [AccountNext]_accountVars PROVE AccountInvariant'
  OBVIOUS
<1>1. CASE UNCHANGED accountVars
  BY <1>1 DEF accountVars, AccountInvariant, AccountTypeOK
<1>2. CASE MomentPasses
  BY <1>2, MomentPassesSafe
<1>3. CASE CollectFunding
  BY <1>3, CollectFundingSafe
<1>4. CASE ProjectAccount
  BY <1>4, ProjectAccountSafe
<1>5. CASE \E l \in Legs : ReportOrder(l)
  BY <1>5, ReportOrderSafe
<1>6. QED
  BY <1>1, <1>2, <1>3, <1>4, <1>5 DEF AccountNext

\* What is recorded of the orders goes on only, in what was filled and in time,
\* and the daily results make up the result: what the projection of
\* accounting.py is made from, and what it makes of one day after the other.
THEOREM AccountSafe == AccountSpec => []AccountInvariant
<1>1. AccountInit => AccountInvariant
  BY AccountBegins
<1>2. AccountInvariant /\ [AccountNext]_accountVars => AccountInvariant'
  BY AccountStep
<1>3. QED
  BY <1>1, <1>2, PTL DEF AccountSpec

\* The cash of an account is never negative, and nothing is seen before it was
\* observed.
THEOREM AccountTypeCorrect == AccountSpec => []AccountTypeOK
<1>1. AccountInvariant => AccountTypeOK
  BY DEF AccountInvariant
<1>2. QED
  BY <1>1, AccountSafe, PTL

\* Only a projection changes what the account says.
Projects == account'.at # account.at \/ account'.seen # account.seen

LEMMA OnlyProjections ==
    ASSUME [AccountNext]_accountVars, Projects PROVE ProjectAccount
BY DEF AccountNext, accountVars, Projects, MomentPasses, CollectFunding, ReportOrder

\* The sleeves own what the account holds.
LEMMA SleevesOwn ==
    ASSUME AccountInvariant, ProjectAccount PROVE SleevesOwnIt(account')
<1>1. account'.positions = Booked.positions /\ account'.sleeves = Booked.sleeves
  BY ProjectionWrites
<1>2. HoldsOf(Booked, FilledLegs)
  BY BookedHoldsOrders
<1>3. PICK P, W : P = account'.positions /\ W = account'.sleeves
  OBVIOUS
<1>4. ASSUME NEW p \in HeldProducts
      PROVE  /\ P[p].quantity = NetHeld(p)
             /\ SumOf([s \in Sleeves |-> W[s][p].quantity], Sleeves) = NetHeld(p)
  <2>1. PICK f : f = [s \in Sleeves |-> W[s][p].quantity]
    OBVIOUS
  <2>2. f = OwnedTerms(Booked, p)
    BY <1>1, <1>3, <2>1 DEF OwnedTerms
  <2>3. SumOf(f, Sleeves) = Total(f, Sleeves)
    BY SumIsTotal
  <2>4. /\ Booked.positions[p].quantity = Total(SignedTerms(p), FilledLegs)
        /\ Total(OwnedTerms(Booked, p), Sleeves) = Total(SignedTerms(p), FilledLegs)
    BY <1>2 DEF HoldsOf
  <2>5. QED
    BY <1>1, <1>3, <2>1, <2>2, <2>3, <2>4, NetHeldIs
<1>5. QED
  BY <1>3, <1>4 DEF SleevesOwnIt

\* The trading cost is the result and the fees of the account.
LEMMA CostFollows ==
    ASSUME AccountInvariant, AveragesAreWhole, ProjectAccount, NoLotOpen(TradingCost)
    PROVE  TradingCost.gross = account'.pricePnl /\ TradingCost.fees = account'.fees
<1>1. PICK C \in Nat, E \in Int, F \in Int :
          /\ C = Booked.cash + FundingPnl /\ E = EquityOf(C, Booked.positions) /\ F = FundingPnl
          /\ account'.fees = SumOf([l \in Legs |-> Commission * LatestReport(l).filled], Legs)
          /\ account'.pricePnl = E - Capital - F + account'.fees
  BY ProjectionWrites
<1>2. PICK T \in Int, K \in Int, n \in Nat :
          /\ T = SumOf([l \in Legs |-> Flow(l)], Legs)
          /\ K = SumOf([l \in Legs |-> Commission * LatestReport(l).filled], Legs)
          /\ n = Capital
  BY FlowsAre, CostIsFlows, AccountNumbers
<1>3. TradingCost.fees = K /\ TradingCost.gross = T + K
  BY <1>2, CostIsFlows
<1>4. SumOf([p \in HeldProducts |-> WouldBring(NetHeld(p))], HeldProducts) = 0
  <2>1. PICK f : f = [p \in HeldProducts |-> WouldBring(NetHeld(p))]
    OBVIOUS
  <2>2. PICK b \in Int, c \in Int : b = BidAt[moment] /\ c = BidAt[moment] + Spread
    <3>1. moment \in 0..LastMoment
      BY DEF AccountInvariant, AccountTypeOK
    <3>2. BidAt[moment] \in Nat /\ Spread \in Nat
      BY <3>1, AccountNumbers
    <3>3. QED
      BY <3>2
  <2>3. ASSUME NEW p \in HeldProducts PROVE f[p] = 0
    <3>1. NetHeld(p) = 0
      BY CostIsFlows
    <3>2. WouldBring(0) = 0
      BY <2>2 DEF WouldBring
    <3>3. QED
      BY <2>1, <3>1, <3>2
  <2>4. f \in [HeldProducts -> Int] /\ f["spot"] = 0 /\ f["perp"] = 0
    BY <2>1, <2>3 DEF HeldProducts
  <2>5. QED
    BY <2>1, <2>4, BothProducts
<1>5. E = n + T + 0 + F
  BY <1>1, <1>2, <1>4, EquityIsFlows, FundingIs
<1>6. account'.pricePnl = T + K
  BY <1>1, <1>2, <1>5
<1>7. QED
  BY <1>1, <1>2, <1>3, <1>6

\* Whatever the orders are and in whatever order they are taken, the sleeves of a
\* projection own what it holds and the daily results add up to the net result.
SleevesAndDaysFollow ==
    [][Projects => /\ SleevesOwnIt(account')
                   /\ closedDays' + account'.daily = account'.equity - Capital]_accountVars

THEOREM SleevesAndDays == AccountSpec => SleevesAndDaysFollow
<1>1. ASSUME AccountInvariant, AccountInvariant', [AccountNext]_accountVars, Projects
      PROVE  /\ SleevesOwnIt(account')
             /\ closedDays' + account'.daily = account'.equity - Capital
  <2>1. ProjectAccount
    BY <1>1, OnlyProjections
  <2>2. QED
    BY <1>1, <2>1, SleevesOwn DEF AccountInvariant
<1>2. AccountInvariant /\ AccountInvariant' /\ [AccountNext]_accountVars
        => [Projects => /\ SleevesOwnIt(account')
                        /\ closedDays' + account'.daily = account'.equity - Capital]_accountVars
  BY <1>1
<1>3. QED
  BY <1>2, AccountSafe, PTL DEF AccountSpec, SleevesAndDaysFollow

\* The whole of what a projection (accounting.py) agrees with, where averaging
\* lost nothing: its equity is what the orders paid and would bring, in whatever
\* order they were taken, its sleeves add up, its days add up, and a cost matched
\* lot by lot (evaluation.py) is the one of the account.
THEOREM ProjectionFollowsFacts == AccountSpec /\ []AveragesAreWhole => AccountFollowsFacts
<1>. DEFINE Agrees == /\ EquityFollows(account') /\ SleevesOwnIt(account')
                      /\ closedDays' + account'.daily = account'.equity - Capital
                      /\ LET cost == TradingCost
                         IN  NoLotOpen(cost) => /\ cost.gross = account'.pricePnl
                                                /\ cost.fees = account'.fees
<1>1. ASSUME AccountInvariant, AccountInvariant', AveragesAreWhole, [AccountNext]_accountVars, Projects
      PROVE  Agrees
  <2>1. ProjectAccount
    BY <1>1, OnlyProjections
  <2>2. EquityFollows(account')
    <3>1. account'.equity = EquityOf(Booked.cash + FundingPnl, Booked.positions)
      BY <1>1, <2>1, ProjectionWrites
    <3>2. QED
      BY <1>1, <3>1, EquityIsFlows DEF EquityFollows
  <2>3. SleevesOwnIt(account')
    BY <1>1, <2>1, SleevesOwn
  <2>4. closedDays' + account'.daily = account'.equity - Capital
    BY <1>1 DEF AccountInvariant
  <2>5. NoLotOpen(TradingCost) => /\ TradingCost.gross = account'.pricePnl
                                  /\ TradingCost.fees = account'.fees
    BY <1>1, <2>1, CostFollows
  <2>6. QED
    BY <2>2, <2>3, <2>4, <2>5
<1>2. AccountInvariant /\ AccountInvariant' /\ AveragesAreWhole /\ [AccountNext]_accountVars
        => [(account'.at # account.at \/ account'.seen # account.seen) => Agrees]_accountVars
  BY <1>1 DEF Projects
<1>3. QED
  BY <1>2, AccountSafe, PTL DEF AccountSpec, AccountFollowsFacts
================================================================================
