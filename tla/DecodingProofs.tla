--------------------------- MODULE DecodingProofs ---------------------------
(***************************************************************************)
(* What the arrival clock promises for every bucket, window and delay: a   *)
(* sample is dated exactly as long as each bucket had one packet on time.  *)
(***************************************************************************)
EXTENDS MCDecoding, FiniteSetTheorems, WellFoundedInduction, TLAPS

(* Every non-empty set of numbers has a least one.                         *)
LEMMA NatMin == ASSUME NEW T \in SUBSET Nat, T # {} PROVE \E x \in T : \A y \in T : x <= y
<1> DEFINE R == OpToRel(<, Nat)
<1>1. IsWellFoundedOn(R, Nat)
  BY NatLessThanWellFounded
<1>3. \A x, y \in Nat : <<y, x>> \in R <=> y < x
  BY DEF OpToRel
<1> HIDE DEF R
<1>2. PICK x \in T : \A y \in T : ~(<<y, x>> \in R)
  BY <1>1, WFMin
<1>4. \A y \in T : x <= y
  <2> TAKE y \in T
  <2>1. x \in Nat /\ y \in Nat /\ ~(y < x)
    BY <1>2, <1>3
  <2> QED BY <2>1
<1> QED BY <1>4

(* Of the subsets of a finite set that lack a property, one lacks it with  *)
(* none of its own members removed: an induction over finite sets.         *)
LEMMA SmallestSubset ==
  ASSUME NEW S, IsFiniteSet(S), NEW B \in SUBSET SUBSET S, B # {}
  PROVE  \E s \in B : IsFiniteSet(s) /\ \A x \in s : s \ {x} \notin B
<1>1. \A s \in B : IsFiniteSet(s) /\ Cardinality(s) \in Nat
  BY FS_Subset, FS_CardinalityType
<1> DEFINE T == {Cardinality(s) : s \in B}
<1>2. T \in SUBSET Nat /\ T # {}
  BY <1>1
<1>3. PICK n \in T : \A m \in T : n <= m
  BY <1>2, NatMin
<1>4. PICK s \in B : n = Cardinality(s)
  BY <1>3
<1>5. ASSUME NEW x \in s PROVE s \ {x} \notin B
  <2>1. Cardinality(s \ {x}) = Cardinality(s) - 1
    BY <1>1, <1>4, FS_RemoveElement
  <2>2. ASSUME s \ {x} \in B PROVE FALSE
    <3>1. n <= Cardinality(s \ {x})
      BY <1>3, <2>2
    <3> QED BY <1>1, <1>4, <2>1, <3>1
  <2> QED BY <2>2
<1> QED BY <1>1, <1>4, <1>5

(* A sum over a set is taken one element at a time.                        *)
AnyOf(s) == CHOOSE x \in s : TRUE
Others(s) == s \ {AnyOf(s)}
SumOf(g, f, s) == IF s = {} THEN 0 ELSE f[AnyOf(s)] + g[Others(s)]

(* The element taken is of the set, and so are the others.                 *)
LEMMA AnyAndOthers ==
  ASSUME NEW S, NEW s \in SUBSET S, s # {}
  PROVE  AnyOf(s) \in s /\ AnyOf(s) \in S /\ Others(s) \in SUBSET S /\ Others(s) = s \ {AnyOf(s)}
<1>1. AnyOf(s) \in s
  BY DEF AnyOf
<1> QED BY <1>1 DEF Others

(* The recursion has a solution, so the choice that defines the fold makes *)
(* one.                                                                    *)
LEMMA SumExists ==
  ASSUME NEW S, IsFiniteSet(S), NEW f \in [S -> Int]
  PROVE  \E g \in [SUBSET S -> Int] : \A s \in SUBSET S : g[s] = SumOf(g, f, s)
<1> DEFINE W(n) == {s \in SUBSET S : Cardinality(s) <= n}
           Good(n, g) == g \in [W(n) -> Int] /\ \A s \in W(n) : g[s] = SumOf(g, f, s)
           Bad == {n \in Nat : ~\E g : Good(n, g)}
<1>1. \A s \in SUBSET S : IsFiniteSet(s) /\ Cardinality(s) \in Nat /\ (Cardinality(s) = 0 <=> s = {})
  BY FS_Subset, FS_CardinalityType, FS_EmptySet
<1>2. \A s \in SUBSET S : s # {} => Cardinality(Others(s)) = Cardinality(s) - 1
  <2> SUFFICES ASSUME NEW s \in SUBSET S, s # {} PROVE Cardinality(Others(s)) = Cardinality(s) - 1
    OBVIOUS
  <2>1. AnyOf(s) \in s /\ Others(s) = s \ {AnyOf(s)} /\ IsFiniteSet(s)
    BY <1>1, AnyAndOthers
  <2> QED BY <2>1, FS_RemoveElement
<1>3. \E g : Good(0, g)
  <2> DEFINE g == [s \in W(0) |-> 0]
  <2>1. g \in [W(0) -> Int]
    OBVIOUS
  <2>2. ASSUME NEW s \in W(0) PROVE g[s] = SumOf(g, f, s)
    <3>1. s = {}
      BY <1>1
    <3> QED BY <3>1 DEF SumOf
  <2>3. Good(0, g)
    BY <2>1, <2>2
  <2> QED BY <2>3
<1>4. ASSUME NEW n \in Nat, \E g : Good(n, g) PROVE \E g : Good(n + 1, g)
  <2>1. PICK h : Good(n, h)
    BY <1>4
  <2> DEFINE g == [s \in W(n + 1) |-> SumOf(h, f, s)]
  <2>2. ASSUME NEW s \in W(n + 1), s # {}
        PROVE  Others(s) \in W(n) /\ AnyOf(s) \in S
    <3>1. AnyOf(s) \in S /\ Others(s) \in SUBSET S /\ s \in SUBSET S
      BY <2>2, AnyAndOthers
    <3>2. Cardinality(Others(s)) = Cardinality(s) - 1 /\ Cardinality(s) \in Nat /\ Cardinality(s) <= n + 1
      BY <1>1, <1>2, <2>2
    <3>3. Cardinality(Others(s)) \in Nat
      BY <1>1, <3>1
    <3> QED BY <3>1, <3>2, <3>3
  <2>3. ASSUME NEW s \in W(n + 1) PROVE SumOf(h, f, s) \in Int
    <3>1. CASE s = {}
      BY <3>1 DEF SumOf
    <3>2. CASE s # {}
      <4>1. h[Others(s)] \in Int /\ f[AnyOf(s)] \in Int
        BY <2>1, <2>2, <3>2
      <4> QED BY <3>2, <4>1 DEF SumOf
    <3> QED BY <3>1, <3>2
  <2>4. ASSUME NEW s \in W(n) PROVE s \in W(n + 1) /\ g[s] = h[s]
    <3>1. s \in W(n + 1)
      BY <1>1
    <3> QED BY <3>1, <2>1
  <2>5. ASSUME NEW s \in W(n + 1) PROVE g[s] = SumOf(g, f, s)
    <3>1. CASE s = {}
      BY <3>1 DEF SumOf
    <3>2. CASE s # {}
      <4>1. g[Others(s)] = h[Others(s)]
        BY <2>2, <2>4, <3>2
      <4> QED BY <4>1, <3>2 DEF SumOf
    <3> QED BY <3>1, <3>2
  <2>6. g \in [W(n + 1) -> Int]
    BY <2>3
  <2> HIDE DEF g
  <2> QED BY <2>5, <2>6
<1> HIDE DEF Good
<1>5. Bad = {}
  <2> SUFFICES ASSUME Bad # {} PROVE FALSE
    OBVIOUS
  <2>1. PICK n \in Bad : \A m \in Bad : n <= m
    BY NatMin
  <2>2. n # 0
    BY <1>3, <2>1
  <2>3. n - 1 \in Nat /\ n - 1 \notin Bad /\ (n - 1) + 1 = n
    BY <2>1, <2>2
  <2>4. \E g : Good(n - 1, g)
    BY <2>3
  <2>5. \E g : Good((n - 1) + 1, g)
    BY <1>4, <2>3, <2>4
  <2> QED BY <2>1, <2>3, <2>5
<1>6. Cardinality(S) \in Nat
  BY FS_CardinalityType
<1>7. PICK g : Good(Cardinality(S), g)
  BY <1>5, <1>6
<1>8. W(Cardinality(S)) = SUBSET S
  BY FS_Subset, <1>1, <1>6
<1> QED BY <1>7, <1>8 DEF Good

(* A sum over a finite set obeys the recursion.                            *)
LEMMA SumRec ==
  ASSUME NEW S, IsFiniteSet(S), NEW f \in [S -> Int]
  PROVE  \E g \in [SUBSET S -> Int] :
           g[S] = SumFunction(f) /\ \A s \in SUBSET S : g[s] = SumOf(g, f, s)
<1> DEFINE Def(h) == [s \in SUBSET S |-> IF s = {} THEN 0
                          ELSE f[CHOOSE x \in s : TRUE] + h[s \ {CHOOSE x \in s : TRUE}]]
           iter == CHOOSE h : h = Def(h)
<1>1. DOMAIN f = S
  OBVIOUS
<1>2. SumFunction(f) = iter[S]
  BY <1>1 DEF SumFunction, SumFunctionOnSet, FoldFunctionOnSet, MapThenFoldSet
<1>3. PICK g \in [SUBSET S -> Int] : \A s \in SUBSET S : g[s] = SumOf(g, f, s)
  BY SumExists
<1>4. g = Def(g)
  BY <1>3 DEF SumOf, AnyOf, Others
<1>5. iter = Def(iter)
  BY <1>4
<1> HIDE DEF iter
<1>6. iter = [s \in SUBSET S |-> iter[s]]
  BY <1>5
<1>7. \A s \in SUBSET S : iter[s] = SumOf(iter, f, s)
  BY <1>5 DEF SumOf, AnyOf, Others
<1>8. \A s \in SUBSET S : iter[s] \in Int
  <2> DEFINE B == {s \in SUBSET S : iter[s] \notin Int}
  <2> SUFFICES ASSUME B # {} PROVE FALSE
    OBVIOUS
  <2>1. B \in SUBSET SUBSET S
    OBVIOUS
  <2>2. PICK s \in B : \A x \in s : s \ {x} \notin B
    BY <2>1, SmallestSubset
  <2>3. s \in SUBSET S /\ iter[s] \notin Int /\ iter[s] = SumOf(iter, f, s)
    BY <1>7, <2>2
  <2>4. s # {}
    BY <2>3 DEF SumOf
  <2>5. AnyOf(s) \in s /\ AnyOf(s) \in S /\ Others(s) \in SUBSET S /\ Others(s) = s \ {AnyOf(s)}
    BY <2>3, <2>4, AnyAndOthers
  <2>6. Others(s) \notin B
    BY <2>2, <2>5
  <2>7. iter[Others(s)] \in Int /\ f[AnyOf(s)] \in Int
    BY <2>5, <2>6
  <2> QED BY <2>3, <2>4, <2>7 DEF SumOf
<1> QED BY <1>2, <1>6, <1>7, <1>8

(* A sum of equal terms is a product.                                      *)
LEMMA SumOfEqual ==
  ASSUME NEW S, IsFiniteSet(S), NEW v \in Int
  PROVE  SumFunction([x \in S |-> v]) = Cardinality(S) * v
<1> DEFINE f == [x \in S |-> v]
<1>1. f \in [S -> Int]
  OBVIOUS
<1>2. PICK g \in [SUBSET S -> Int] :
        g[S] = SumFunction(f) /\ \A s \in SUBSET S : g[s] = SumOf(g, f, s)
  <2> HIDE DEF f
  <2> QED BY <1>1, SumRec
<1> DEFINE B == {s \in SUBSET S : g[s] # Cardinality(s) * v}
<1>3. B = {}
  <2> SUFFICES ASSUME B # {} PROVE FALSE
    OBVIOUS
  <2>1. B \in SUBSET SUBSET S
    OBVIOUS
  <2>2. PICK s \in B : IsFiniteSet(s) /\ \A x \in s : s \ {x} \notin B
    <3> HIDE DEF B
    <3> QED BY <2>1, SmallestSubset
  <2>3. s \in SUBSET S /\ g[s] # Cardinality(s) * v /\ g[s] = SumOf(g, f, s) /\ Cardinality(s) \in Nat
    BY <1>2, <2>2, FS_CardinalityType
  <2>4. s # {}
    <3> SUFFICES ASSUME s = {} PROVE FALSE
      OBVIOUS
    <3>1. Cardinality(s) = 0
      BY FS_EmptySet
    <3>2. g[s] = 0
      BY <2>3 DEF SumOf
    <3>3. 0 * v = 0
      OBVIOUS
    <3> QED BY <2>3, <3>1, <3>2, <3>3
  <2>5. AnyOf(s) \in s /\ AnyOf(s) \in S /\ Others(s) \in SUBSET S /\ Others(s) = s \ {AnyOf(s)}
    BY <2>3, <2>4, AnyAndOthers
  <2>6. Cardinality(Others(s)) = Cardinality(s) - 1
    BY <2>2, <2>5, FS_RemoveElement
  <2>7. g[Others(s)] = Cardinality(Others(s)) * v /\ f[AnyOf(s)] = v
    BY <2>2, <2>5
  <2>8. g[s] = v + (Cardinality(s) - 1) * v
    BY <2>3, <2>4, <2>6, <2>7 DEF SumOf
  <2> DEFINE n == Cardinality(s)
  <2>9. v + (n - 1) * v = n * v
    <3>1. n \in Nat
      BY <2>3
    <3> HIDE DEF n
    <3> QED BY <3>1
  <2> QED BY <2>3, <2>8, <2>9
<1>4. g[S] = Cardinality(S) * v
  BY <1>3
<1> HIDE DEF B
<1> QED BY <1>2, <1>4

(* A point of the envelope, and one that is no earlier than its sample     *)
(* allows, and as early as that when some packet was on time.              *)
Points == [sample : Int, host : Int]
OnTime(p, soon) == p \in Points /\ Residual(p) >= base /\ (soon => Residual(p) = base)

(* Each kept point, and the best of the bucket that is filling, is late at *)
(* most, and is on time whenever a packet of its bucket was.               *)
EnvelopeInv ==
  /\ part # "arrival" => envelope = <<>>
  /\ part = "arrival" =>
       /\ sample \in Int /\ now \in Int /\ base \in Int /\ prompt \in BOOLEAN
       /\ envelope \in Seq(Points) /\ fast \in Seq(BOOLEAN) /\ Len(fast) = Len(envelope)
       /\ \A i \in DOMAIN envelope : OnTime(envelope[i], fast[i])
       /\ \/ bucket = <<>> /\ ~prompt
          \/ \E p, t : bucket = <<[best |-> p, start |-> t]>> /\ OnTime(p, prompt) /\ t \in Int

(* A line fitted through points of one residual has no slope of its own,   *)
(* and passes through that residual at every sample.                       *)
LEMMA ExactFit ==
  ASSUME NEW b \in Int, NEW s \in Int, envelope \in Seq(Points),
         \A i \in DOMAIN envelope : Residual(envelope[i]) = b
  PROVE  HostResidual(Refit, s) = Refit.n * Refit.den * b
<1> DEFINE D == DOMAIN envelope
           n == Len(envelope)
           X == SumFunction([i \in D |-> envelope[i].sample])
           Y == SumFunction([i \in D |-> Residual(envelope[i])])
           x == [i \in D |-> n * envelope[i].sample - X]
           y == [i \in D |-> n * Residual(envelope[i]) - Y]
           sxx == SumFunction([i \in D |-> x[i] * x[i]])
           sxy == SumFunction([i \in D |-> x[i] * y[i]])
           held == sxx = 0 \/ Plausible * Max({sxy, -sxy}) > sxx
<1>1. D = 1..n /\ n \in Nat /\ IsFiniteSet(D) /\ Cardinality(D) = n
  <2>1. D = 1..n /\ n \in Nat
    OBVIOUS
  <2> HIDE DEF D, n
  <2> QED BY <2>1, FS_Interval
<1>2. \A i \in D : envelope[i].sample \in Int /\ Residual(envelope[i]) = b
  <2>1. \A i \in D : envelope[i] \in Points
    OBVIOUS
  <2> HIDE DEF D
  <2>2. \A i \in D : Residual(envelope[i]) = b
    BY DEF D
  <2> QED BY <2>1, <2>2 DEF Points
<1>3. Refit = [n |-> n, samples |-> X, residuals |-> Y,
               num |-> IF held THEN 0 ELSE sxy, den |-> IF held THEN 1 ELSE sxx]
  BY Zenon DEF Refit
<1>4. Y = n * b
  <2>1. [i \in D |-> Residual(envelope[i])] = [i \in D |-> b]
    BY <1>2
  <2>2. SumFunction([i \in D |-> b]) = n * b
    <3> HIDE DEF D, n
    <3> QED BY <1>1, SumOfEqual
  <2> QED BY <2>1, <2>2
<1>5. X \in Int
  <2> DEFINE f == [i \in D |-> envelope[i].sample]
  <2>1. f \in [D -> Int]
    BY <1>2
  <2> HIDE DEF f, D
  <2>2. PICK g \in [SUBSET D -> Int] : g[D] = SumFunction(f)
    BY <1>1, <2>1, SumRec
  <2>3. SumFunction(f) \in Int
    BY <2>2
  <2> QED BY <2>3 DEF f
<1> HIDE DEF X, Y
<1>6. \A i \in D : x[i] \in Int /\ y[i] = 0
  <2> SUFFICES ASSUME NEW i \in D PROVE x[i] \in Int /\ y[i] = 0
    OBVIOUS
  <2>1. n * envelope[i].sample - X \in Int
    <3> HIDE DEF n
    <3> QED BY <1>1, <1>2, <1>5
  <2>2. n * Residual(envelope[i]) - Y = 0
    <3>1. n * b \in Int
      <4> HIDE DEF n
      <4> QED BY <1>1
    <3> QED BY <1>2, <1>4, <3>1
  <2> QED BY <2>1, <2>2
<1>7. sxy = 0
  <2> HIDE DEF x, y
  <2>1. [i \in D |-> x[i] * y[i]] = [i \in D |-> 0]
    <3> SUFFICES ASSUME NEW i \in D PROVE x[i] * y[i] = 0
      OBVIOUS
    <3> DEFINE a == x[i]
    <3>1. a \in Int /\ y[i] = 0
      BY <1>6
    <3> HIDE DEF a
    <3>2. a * 0 = 0
      BY <3>1
    <3> QED BY <3>1, <3>2 DEF a
  <2>2. SumFunction([i \in D |-> 0]) = n * 0
    <3>1. ASSUME NEW v \in Int PROVE SumFunction([i \in D |-> v]) = n * v
      <4> HIDE DEF D, n
      <4> QED BY <1>1, SumOfEqual
    <3>2. 0 \in Int
      OBVIOUS
    <3> HIDE DEF D, n
    <3> QED BY <3>1, <3>2, Zenon
  <2>3. n * 0 = 0
    BY <1>1
  <2> QED BY <2>1, <2>2, <2>3
<1>8. sxx \in Int
  <2> DEFINE f == [i \in D |-> x[i] * x[i]]
  <2>1. f \in [D -> Int]
    <3> HIDE DEF x
    <3> QED BY <1>6
  <2> HIDE DEF f, D
  <2>2. PICK g \in [SUBSET D -> Int] : g[D] = SumFunction(f)
    BY <1>1, <2>1, SumRec
  <2>3. SumFunction(f) \in Int
    BY <2>2
  <2> QED BY <2>3 DEF f
<1> DEFINE den == IF held THEN 1 ELSE sxx
<1>9. Refit.n = n /\ Refit.residuals = Y /\ Refit.samples = X /\ Refit.den = den /\ Refit.num = 0
  <2> HIDE DEF sxx, sxy, n
  <2> QED BY <1>3, <1>7
<1>10. den \in Int
  <2> HIDE DEF held, sxx
  <2> QED BY <1>8
<1> HIDE DEF den, n, D
<1>11. HostResidual(Refit, s) = Y * den + (n * s - X) * 0
  BY <1>9 DEF HostResidual
<1>12. (n * s - X) * 0 = 0 /\ (n * b) * den = n * den * b
  BY <1>1, <1>5, <1>10
<1>13. n * b * den \in Int
  BY <1>1, <1>10
<1> QED BY <1>4, <1>9, <1>11, <1>12, <1>13

(* Ageing takes from the front only.                                       *)
LEMMA AgedFrom ==
  ASSUME NEW pts \in Seq(Points), Len(pts) >= 1
  PROVE  \E m \in 1..Len(pts) : Aged(pts) = SubSeq(pts, m, Len(pts))
<1> DEFINE n == Len(pts)
           kept == {i \in DOMAIN pts : pts[Len(pts)].host - pts[i].host <= WindowSec \/ i > Len(pts) - 2}
<1>1. n \in Nat /\ n \in DOMAIN pts /\ n > n - 2 /\ DOMAIN pts = 1..n
  OBVIOUS
<1>2. n \in kept /\ kept \in SUBSET Nat /\ kept \in SUBSET 1..n
  BY <1>1
<1>3. Aged(pts) = SubSeq(pts, Min(kept), Len(pts))
  BY DEF Aged
<1> HIDE DEF kept
<1>4. Min(kept) \in kept
  BY <1>2, NatMin DEF Min
<1> QED BY <1>2, <1>3, <1>4

(* The earlier of two points is on time when either is.                    *)
LEMMA FasterOnTime ==
  ASSUME base \in Int, NEW p, NEW q, NEW a \in BOOLEAN, NEW b \in BOOLEAN, OnTime(p, a), OnTime(q, b)
  PROVE  OnTime(Faster(p, q), b \/ a)
<1>1. Residual(p) \in Int /\ Residual(q) \in Int
  BY DEF OnTime, Points, Residual
<1>2. CASE Residual(p) < Residual(q)
  BY <1>1, <1>2 DEF OnTime, Faster
<1>3. CASE ~(Residual(p) < Residual(q))
  BY <1>1, <1>3 DEF OnTime, Faster
<1> QED BY <1>2, <1>3

(* A packet fills the bucket, or closes it into the envelope.              *)
LEMMA ArriveKeeps ==
  ASSUME EnvelopeInv, Arrive
  PROVE  EnvelopeInv'
<1>1. /\ part = "arrival" /\ part' = part /\ base' = base
      /\ sample \in Int /\ now \in Int /\ base \in Int /\ prompt \in BOOLEAN
      /\ envelope \in Seq(Points) /\ fast \in Seq(BOOLEAN) /\ Len(fast) = Len(envelope)
      /\ \A i \in DOMAIN envelope : OnTime(envelope[i], fast[i])
      /\ \/ bucket = <<>> /\ ~prompt
         \/ \E p, t : bucket = <<[best |-> p, start |-> t]>> /\ OnTime(p, prompt) /\ t \in Int
  BY DEF EnvelopeInv, Arrive
<1>2. PICK delay \in 0 .. MaxDelay :
        /\ sample' = sample + 1 /\ now' = base + sample' + delay
        /\ Observe(sample', now')
        /\ LET soon == prompt \/ delay = 0
               grown == Append(fast, soon)
               closed == bucket # <<>> /\ bucket' = <<>>
           IN /\ prompt' = (soon /\ ~closed)
              /\ fast' = IF closed THEN SubSeq(grown, Len(grown) - Len(envelope') + 1, Len(grown)) ELSE fast
  BY DEF Arrive
<1> DEFINE p == [sample |-> sample', host |-> now']
           here == (delay = 0)
           soon == prompt \/ here
           grown == Append(fast, soon)
<1>3. sample' \in Int /\ now' \in Int /\ delay \in Int /\ delay >= 0
  BY <1>1, <1>2
<1>4. OnTime(p, here)
  BY <1>1, <1>2, <1>3 DEF OnTime, Points, Residual
<1>6. CASE bucket = <<>>
  <2>1. bucket' = <<[best |-> p, start |-> now']>> /\ envelope' = envelope
    BY <1>2, <1>6 DEF Observe
  <2>2. fast' = fast /\ prompt' = here
    <3>1. prompt = FALSE
      BY <1>1, <1>6
    <3>2. fast' = fast /\ (prompt' <=> here) /\ prompt' \in BOOLEAN /\ here \in BOOLEAN
      BY <1>2, <1>6, <3>1
    <3> HIDE DEF here
    <3>3. CASE here
      BY <3>2, <3>3
    <3>4. CASE ~here
      BY <3>2, <3>4
    <3> QED BY <3>3, <3>4
  <2>4. here \in BOOLEAN
    OBVIOUS
  <2> HIDE DEF here, p
  <2> QED BY <1>1, <1>3, <1>4, <2>1, <2>2, <2>4 DEF EnvelopeInv, OnTime
<1>7. CASE bucket # <<>>
  <2>1. PICK q, t : bucket = <<[best |-> q, start |-> t]>> /\ OnTime(q, prompt) /\ t \in Int
    BY <1>1, <1>7
  <2> DEFINE best == Faster(p, q)
  <2>2. bucket[1].best = q /\ bucket[1].start = t /\ bucket[1] = [best |-> q, start |-> t]
    BY <2>1
  <2>3. OnTime(best, soon)
    <3> HIDE DEF p, here
    <3>1. here \in BOOLEAN
      BY DEF here
    <3> QED BY <1>1, <1>4, <2>1, <3>1, FasterOnTime
  <2> HIDE DEF best
  <2>4. CASE ~(now' - t >= BucketSec)
    <3>1. bucket' = <<[best |-> best, start |-> t]>> /\ envelope' = envelope
      BY <1>2, <1>7, <2>2, <2>4 DEF Observe, best
    <3>2. fast' = fast /\ prompt' = soon /\ soon \in BOOLEAN
      BY <1>1, <1>2, <3>1
    <3> HIDE DEF soon
    <3> QED BY <1>1, <1>3, <2>1, <2>3, <3>1, <3>2 DEF EnvelopeInv, OnTime
  <2>5. CASE now' - t >= BucketSec
    <3> DEFINE pts == Append(envelope, best)
    <3>1. bucket' = <<>> /\ envelope' = Aged(pts)
      BY <1>2, <1>7, <2>2, <2>5 DEF Observe, best
    <3>2. /\ prompt' = FALSE
          /\ fast' = SubSeq(grown, Len(grown) - Len(envelope') + 1, Len(grown))
      BY <1>2, <1>7, <3>1
    <3> DEFINE n == Len(envelope) + 1
    <3>3. n \in Nat /\ n >= 1
      BY <1>1
    <3>4. /\ pts \in Seq(Points) /\ Len(pts) = n
          /\ \A i \in 1..n : pts[i] = IF i = n THEN best ELSE envelope[i]
      BY <1>1, <2>3 DEF OnTime
    <3>5. /\ grown \in Seq(BOOLEAN) /\ Len(grown) = n
          /\ \A i \in 1..n : grown[i] = IF i = n THEN soon ELSE fast[i]
      <4>1. soon \in BOOLEAN
        BY <1>1
      <4> HIDE DEF soon
      <4> QED BY <1>1, <4>1
    <3>6. \A i \in 1..n : OnTime(pts[i], grown[i])
      <4> SUFFICES ASSUME NEW i \in 1..n PROVE OnTime(pts[i], grown[i])
        OBVIOUS
      <4> HIDE DEF pts, grown, soon
      <4>1. CASE i = n
        BY <2>3, <3>4, <3>5, <4>1
      <4>2. CASE i # n
        <5>1. i \in DOMAIN envelope
          BY <1>1, <4>2
        <5> QED BY <1>1, <3>4, <3>5, <4>2, <5>1
      <4> QED BY <4>1, <4>2
    <3> HIDE DEF pts, grown, n
    <3>7. PICK m \in 1..n : envelope' = SubSeq(pts, m, n)
      BY <3>1, <3>3, <3>4, AgedFrom
    <3>8. /\ envelope' \in Seq(Points) /\ Len(envelope') = n - m + 1
          /\ \A i \in 1..(n - m + 1) : envelope'[i] = pts[m + i - 1]
      BY <3>3, <3>4, <3>7
    <3>9. fast' = SubSeq(grown, m, n)
      <4>1. n - Len(envelope') + 1 = m
        BY <3>3, <3>8
      <4> QED BY <3>2, <3>5, <4>1
    <3>10. /\ fast' \in Seq(BOOLEAN) /\ Len(fast') = n - m + 1
           /\ \A i \in 1..(n - m + 1) : fast'[i] = grown[m + i - 1]
      BY <3>3, <3>5, <3>9
    <3>11. \A i \in DOMAIN envelope' : OnTime(envelope'[i], fast'[i])
      <4> SUFFICES ASSUME NEW i \in DOMAIN envelope' PROVE OnTime(envelope'[i], fast'[i])
        OBVIOUS
      <4>1. i \in 1..(n - m + 1)
        BY <3>8
      <4>2. m + i - 1 \in 1..n
        BY <3>3, <4>1
      <4> QED BY <3>6, <3>8, <3>10, <4>1, <4>2
    <3> QED BY <1>1, <1>3, <3>1, <3>2, <3>8, <3>10, <3>11 DEF EnvelopeInv, OnTime
  <2> QED BY <2>4, <2>5
<1> QED BY <1>6, <1>7

(* No step of the decoding model puts an early point into the envelope, or *)
(* a late one where a packet was on time.                                  *)
LEMMA EnvelopeInvStep == EnvelopeInv /\ [Next]_vars => EnvelopeInv'
<1> SUFFICES ASSUME EnvelopeInv, [Next]_vars PROVE EnvelopeInv'
  OBVIOUS
<1>1. CASE UNCHANGED vars
  BY <1>1 DEF vars, arrivalVars, clockVars, streamVars, EnvelopeInv, OnTime
<1>2. CASE part # "arrival"
  <2>1. part' = part /\ UNCHANGED arrivalVars
    BY <1>1, <1>2 DEF Next, VoteMinute, VoteReset, OnAir, Retune, Arrive, Reconnect, Capture,
             Begin, Over, vars
  <2> QED BY <1>2, <2>1 DEF EnvelopeInv, arrivalVars, clockVars
<1>3. CASE Arrive
  BY <1>3, ArriveKeeps
<1>4. CASE Reconnect
  <2>1. part' = "arrival" /\ envelope' = <<>> /\ bucket' = <<>> /\ fast' = <<>> /\ prompt' = FALSE
    BY <1>4 DEF Reconnect, SampleClockReset, NoClock
  <2>2. sample' \in Int /\ now' \in Int /\ base' \in Int
    BY <1>4 DEF Reconnect, EnvelopeInv
  <2>3. /\ envelope' \in Seq(Points) /\ fast' \in Seq(BOOLEAN) /\ Len(fast') = Len(envelope')
        /\ DOMAIN envelope' = {}
    BY <2>1
  <2> QED BY <2>1, <2>2, <2>3 DEF EnvelopeInv
<1>5. CASE part = "arrival" /\ ~Arrive /\ ~Reconnect /\ ~UNCHANGED vars
  <2>1. part \notin Decoders
    BY <1>5 DEF Decoders
  <2> QED BY <1>5, <2>1 DEF Next, VoteMinute, VoteReset, OnAir, Retune, Capture, Begin, Over,
             MsfAir, WwvbAir, AllouisAir, Dcf77Air, WwvAir
<1> QED BY <1>1, <1>2, <1>3, <1>4, <1>5

(* The envelope starts empty.                                              *)
LEMMA EnvelopeInvInit == Init => EnvelopeInv
<1> SUFFICES ASSUME Init PROVE EnvelopeInv
  OBVIOUS
<1>1. /\ envelope = <<>> /\ bucket = <<>> /\ fast = <<>> /\ prompt = FALSE
      /\ sample = 0 /\ now = 0 /\ base = 0
  BY DEF Init, SampleClockInit
<1>2. envelope \in Seq(Points) /\ fast \in Seq(BOOLEAN)
  BY <1>1
<1>3. Len(fast) = Len(envelope) /\ Len(envelope) = 0
  BY <1>1
<1>4. DOMAIN envelope = {}
  BY <1>2, <1>3
<1>5. prompt \in BOOLEAN
  BY <1>1, Zenon
<1>6. sample \in Int /\ now \in Int /\ base \in Int
  BY <1>1
<1>7. \A i \in DOMAIN envelope : OnTime(envelope[i], fast[i])
  BY <1>4
<1>8. bucket = <<>> /\ ~prompt
  BY <1>1
<1> QED BY <1>1, <1>2, <1>3, <1>5, <1>6, <1>7, <1>8, Zenon DEF EnvelopeInv

(* One packet on time in each bucket is enough: for every bucket and window*)
(* length, and whatever the delays of the others, over reconnections too,  *)
(* the fitted line dates every sample exactly (SampleClock::observe, refit *)
(* and hostTimeAt).                                                        *)
THEOREM EnvelopeIsExact == Spec => []EnvelopeExact
<1>1. EnvelopeInv => EnvelopeExact
  <2> SUFFICES ASSUME EnvelopeInv, FitValid, \A i \in DOMAIN fast : fast[i]
               PROVE  HostResidual(Refit, sample) = Refit.n * Refit.den * base
    BY DEF EnvelopeExact
  <2>1. part = "arrival"
    BY DEF EnvelopeInv, FitValid
  <2>2. /\ envelope \in Seq(Points) /\ sample \in Int /\ base \in Int
        /\ \A i \in DOMAIN envelope : Residual(envelope[i]) = base
    <3>1. envelope \in Seq(Points) /\ fast \in Seq(BOOLEAN) /\ Len(fast) = Len(envelope)
      BY <2>1 DEF EnvelopeInv
    <3>2. DOMAIN envelope = DOMAIN fast
      BY <3>1
    <3> QED BY <2>1, <3>1, <3>2 DEF EnvelopeInv, OnTime
  <2> QED BY <2>2, ExactFit
<1> QED BY <1>1, EnvelopeInvInit, EnvelopeInvStep, PTL DEF Spec
=============================================================================
