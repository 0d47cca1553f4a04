------------------------------ MODULE Recursion ------------------------------
(***************************************************************************)
(* That a recursive function is what its definition says.  A module        *)
(* instantiates this for each of its recursive functions: the arguments S, *)
(* the one that each of them goes back to, a rank that decreases on the    *)
(* way, and what the step makes of the value there.                        *)
(***************************************************************************)
EXTENDS Integers, WellFoundedInduction, TLAPS

CONSTANTS S, Rank(_), Rest(_), Step(_, _)

\* Every set of natural numbers has a least one, which is what induction comes to.
LEMMA LeastNatural ==
    ASSUME NEW T \in SUBSET Nat, T # {}
    PROVE  \E n \in T : \A m \in T : n <= m
<1>1. PICK n \in T : \A m \in T : ~(<<m, n>> \in OpToRel(<, Nat))
  BY NatLessThanWellFounded, WFMin
<1>2. \A m \in T : ~(m < n)
  BY <1>1 DEF OpToRel
<1>. QED
  BY <1>2

\* A set of natural numbers that has 0, and with a number the next one, has them all.
LEMMA Induction ==
    ASSUME NEW T \in SUBSET Nat, 0 \in T, \A n \in T : n + 1 \in T
    PROVE  T = Nat
<1>. SUFFICES ASSUME Nat \ T # {} PROVE FALSE
  OBVIOUS
<1>1. PICK n \in Nat \ T : \A m \in Nat \ T : n <= m
  BY LeastNatural
<1>2. n - 1 \in T
  BY <1>1
<1>. QED
  BY <1>2

Body(f, x) == Step(x, f[Rest(x)])

\* The arguments of a rank below n, and a solution of the equation for those
Below(n) == {x \in S : Rank(x) < n}
Solves(g, n) == g = [x \in Below(n) |-> Body(g, x)]

Solution == CHOOSE f : f = [x \in S |-> Body(f, x)]
Descends ==
    \A x \in S : /\ Rank(x) \in Nat
                 /\ \/ Rest(x) \in S /\ Rank(Rest(x)) < Rank(x)
                    \/ \A p, q : Step(x, p) = Step(x, q)

\* Solutions for all arguments below each rank, put together, are one for all arguments.
LEMMA SolutionExists ==
    ASSUME \A x \in S : Rank(x) \in Nat,
           \A g, h : \A x \in S :
               (\A y \in S : Rank(y) < Rank(x) => g[y] = h[y]) => Body(g, x) = Body(h, x)
    PROVE  \E g : g = [x \in S |-> Body(g, x)]
<1>1. ASSUME NEW g, NEW m \in Nat, Solves(g, m), NEW h, NEW n \in Nat, Solves(h, n)
      PROVE  \A x \in S : Rank(x) < m /\ Rank(x) < n => g[x] = h[x]
  <2>. DEFINE Bad == {x \in S : Rank(x) < m /\ Rank(x) < n /\ g[x] # h[x]}
              Ranks == {Rank(x) : x \in Bad}
  <2>. SUFFICES ASSUME Bad # {} PROVE FALSE
    OBVIOUS
  <2>1. Ranks \in SUBSET Nat /\ Ranks # {}
    OBVIOUS
  <2>2. PICK r \in Ranks : \A q \in Ranks : r <= q
    BY <2>1, LeastNatural
  <2>3. PICK x \in Bad : Rank(x) = r
    OBVIOUS
  <2>4. \A y \in S : Rank(y) < Rank(x) => g[y] = h[y]
    <3>. SUFFICES ASSUME NEW y \in S, Rank(y) < Rank(x), g[y] # h[y] PROVE FALSE
      OBVIOUS
    <3>1. Rank(x) \in Nat /\ Rank(y) \in Nat /\ Rank(x) < m /\ Rank(x) < n
      OBVIOUS
    <3>2. y \in Bad
      BY <3>1
    <3>. QED
      BY <3>1, <3>2, <2>2, <2>3
  <2>5. g[x] = Body(g, x) /\ h[x] = Body(h, x)
    BY <1>1 DEF Solves, Below
  <2>. QED
    BY <2>4, <2>5
<1>2. \A n \in Nat : \E g : Solves(g, n)
  <2>. DEFINE Bad == {n \in Nat : ~ \E g : Solves(g, n)}
  <2>. SUFFICES ASSUME Bad # {} PROVE FALSE
    OBVIOUS
  <2>1. PICK n \in Bad : \A m \in Bad : n <= m
    BY LeastNatural
  <2>2. n # 0
    <3>1. Below(0) = {}
      BY DEF Below
    <3>2. [x \in Below(0) |-> Body(0, x)] = [x \in Below(0) |-> Body([z \in Below(0) |-> Body(0, z)], x)]
      BY <3>1
    <3>. QED
      BY <3>2 DEF Solves
  <2>3. n - 1 \in Nat /\ n - 1 \notin Bad
    BY <2>1, <2>2
  <2>4. PICK g : Solves(g, n - 1)
    BY <2>3
  <2>. DEFINE h == [x \in Below(n) |-> Body(g, x)]
  <2>5. ASSUME NEW x \in Below(n) PROVE Body(g, x) = Body(h, x)
    <3>1. ASSUME NEW y \in S, Rank(y) < Rank(x) PROVE g[y] = h[y]
      <4>1. Rank(x) \in Nat /\ Rank(y) \in Nat /\ Rank(x) < n
        BY DEF Below
      <4>2. y \in Below(n - 1) /\ y \in Below(n)
        BY <3>1, <4>1 DEF Below
      <4>3. g[y] = Body(g, y)
        BY <2>4, <4>2 DEF Solves
      <4>. QED
        BY <4>2, <4>3
    <3>2. x \in S
      BY DEF Below
    <3>. QED
      BY <3>1, <3>2
  <2>6. h = [x \in Below(n) |-> Body(h, x)]
    <3>. HIDE DEF h
    <3>1. h = [x \in Below(n) |-> Body(g, x)]
      BY DEF h
    <3>. QED
      BY <3>1, <2>5
  <2>. QED
    BY <2>6 DEF Solves
<1>. DEFINE Part(x) == CHOOSE g : Solves(g, Rank(x))
            f == [x \in S |-> Body(Part(x), x)]
<1>3. \A x \in S : Solves(Part(x), Rank(x))
  BY <1>2
<1>. HIDE DEF Part
<1>4. ASSUME NEW x \in S PROVE Body(Part(x), x) = Body(f, x)
  <2>1. ASSUME NEW y \in S, Rank(y) < Rank(x) PROVE Part(x)[y] = f[y]
    <3>1. Part(x)[y] = Body(Part(x), y)
      BY <1>3, <2>1 DEF Solves, Below
    <3>2. ASSUME NEW z \in S, Rank(z) < Rank(y) PROVE Part(x)[z] = Part(y)[z]
      <4>1. Rank(z) \in Nat /\ Rank(y) \in Nat /\ Rank(x) \in Nat /\ Rank(z) < Rank(x)
        BY <2>1, <3>2
      <4>. QED
        BY <4>1, <3>2, <1>1, <1>3
    <3>3. Body(Part(x), y) = Body(Part(y), y)
      BY <3>2
    <3>. QED
      BY <3>1, <3>3
  <2>. QED
    BY <2>1
<1>5. f = [x \in S |-> Body(f, x)]
  <2>. HIDE DEF f
  <2>1. f = [x \in S |-> Body(Part(x), x)]
    BY DEF f
  <2>. QED
    BY <2>1, <1>4
<1>. QED
  BY <1>5

\* A recursive function whose argument descends is what its definition says: those that
\* extractFromSegments and its like are modelled by.
THEOREM Equation ==
    ASSUME Descends
    PROVE  \A x \in S : Solution[x] = Step(x, Solution[Rest(x)])
<1>. DEFINE Is(f) == f = [x \in S |-> Body(f, x)]
<1>1. Solution = CHOOSE f : Is(f)
  BY DEF Solution
<1>2. ASSUME NEW g, NEW h, NEW x \in S, \A y \in S : Rank(y) < Rank(x) => g[y] = h[y]
      PROVE  Body(g, x) = Body(h, x)
  BY <1>2 DEF Descends, Body
<1>3. \E f : Is(f)
  <2>1. \A x \in S : Rank(x) \in Nat
    BY DEF Descends
  <2>2. \A g, h : \A x \in S :
            (\A y \in S : Rank(y) < Rank(x) => g[y] = h[y]) => Body(g, x) = Body(h, x)
    BY <1>2
  <2>3. \E g : g = [x \in S |-> Body(g, x)]
    <3>. HIDE DEF Body
    <3>. QED
      BY <2>1, <2>2, SolutionExists
  <2>. QED
    BY <2>3
<1>4. Is(Solution)
  <2>. HIDE DEF Is
  <2>. QED
    BY <1>1, <1>3
<1>5. ASSUME NEW x \in S PROVE Solution[x] = Body(Solution, x)
  <2>. HIDE DEF Body
  <2>. QED
    BY <1>4
<1>. QED
  BY <1>5 DEF Body
=============================================================================
