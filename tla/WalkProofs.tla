----------------------------- MODULE WalkProofs -----------------------------
(***************************************************************************)
(* What the proofs about walks share.  Induction over the naturals, stated *)
(* for sets of numbers: a property of numbers is used as the set of those  *)
(* that have it.  And how a connected result grows.                        *)
(***************************************************************************)
EXTENDS Subgraph, Integers, WellFoundedInduction, TLAPS

-----------------------------------------------------------------------------
(* Numbers *)

\* A set of naturals that is not empty has a least member.
LEMMA LeastNatural ==
    ASSUME NEW T \in SUBSET Nat, T # {}
    PROVE  \E m \in T : \A n \in T : m <= n
<1>1. PICK m \in T : \A n \in T : ~(<<n, m>> \in OpToRel(<, Nat))
  BY NatLessThanWellFounded, WFMin, Zenon
<1>2. \A n \in T : ~(<<n, m>> \in OpToRel(<, Nat)) => ~(n < m)
  BY DEF OpToRel
<1>3. \A n \in T : ~(n < m)
  BY <1>1, <1>2, Zenon
<1>4. m \in Nat /\ \A n \in T : n \in Nat
  OBVIOUS
<1> QED BY <1>3, <1>4

\* A set of naturals that has 0 and the successor of each of its members has all.
LEMMA NaturalInduction ==
    ASSUME NEW T \in SUBSET Nat, 0 \in T, \A n \in T : n + 1 \in T
    PROVE  \A n \in Nat : n \in T
<1> SUFFICES ASSUME NEW k \in Nat, k \notin T PROVE FALSE
  OBVIOUS
<1>1. PICK m \in Nat \ T : \A n \in Nat \ T : m <= n
  BY LeastNatural
<1>2. m # 0 /\ m - 1 \in Nat
  BY <1>1
<1>3. m - 1 \in T
  BY <1>1, <1>2
<1>4. (m - 1) + 1 = m
  BY <1>1
<1> QED BY <1>1, <1>3, <1>4
(* The sequences of values that start with a and go on by step. *)
Iterates(S, a, step) ==
    {g \in [Nat -> S] : g[0] = a /\ \A n \in Nat : g[n + 1] = step[n][g[n]]}

\* A first value and a step from each value to the next make a sequence of values:
\* what a recursive definition over the naturals needs in order to define anything.
LEMMA NaturalRecursion ==
    ASSUME NEW S, NEW a \in S, NEW step \in [Nat -> [S -> S]]
    PROVE  Iterates(S, a, step) # {}
<1> DEFINE Start(n, f) == f[0] = a /\ \A i \in 0..(n - 1) : f[i + 1] = step[i][f[i]]
           Known == {n \in Nat : \E f \in [0..n -> S] : Start(n, f)}
<1>1. 0 \in Known
  <2> DEFINE f == [i \in 0..0 |-> a]
  <2>1. f \in [0..0 -> S] /\ f[0] = a
    OBVIOUS
  <2>2. 0..(0 - 1) = {}
    OBVIOUS
  <2> QED BY <2>1, <2>2
<1>2. ASSUME NEW n \in Known PROVE n + 1 \in Known
  <2>1. PICK f \in [0..n -> S] : Start(n, f)
    OBVIOUS
  <2>2. n \in Nat
    OBVIOUS
  <2> DEFINE h == [i \in 0..(n + 1) |-> IF i = n + 1 THEN step[n][f[n]] ELSE f[i]]
  <2>3. h \in [0..(n + 1) -> S] /\ h[0] = a
    BY <2>1, <2>2
  <2>4. ASSUME NEW i \in 0..((n + 1) - 1) PROVE h[i + 1] = step[i][h[i]]
    <3>1. CASE i = n
      <4>1. h[i] = f[n] /\ h[i + 1] = step[n][f[n]]
        BY <2>2, <3>1
      <4> QED BY <3>1, <4>1
    <3>2. CASE i # n
      <4>1. i \in 0..(n - 1) /\ h[i] = f[i] /\ h[i + 1] = f[i + 1]
        BY <2>2, <3>2
      <4> QED BY <2>1, <4>1
    <3> QED BY <3>1, <3>2
  <2> HIDE DEF h
  <2>5. Start(n + 1, h)
    BY <2>3, <2>4
  <2>6. n + 1 \in Nat
    BY <2>2
  <2> HIDE DEF Start
  <2> QED BY <2>3, <2>5, <2>6
<1> HIDE DEF Known
<1>3. \A n \in Nat : n \in Known
  BY <1>1, <1>2, NaturalInduction DEF Known
<1> DEFINE Choice(n) == CHOOSE f \in [0..n -> S] : Start(n, f)
           g == [n \in Nat |-> Choice(n)[n]]
<1>4. ASSUME NEW n \in Nat PROVE Choice(n) \in [0..n -> S] /\ Start(n, Choice(n))
  BY <1>3, Zenon DEF Known
<1> HIDE DEF Choice, Start
<1>5. ASSUME NEW n \in Nat PROVE Choice(n + 1)[n] = Choice(n)[n]
  <2> DEFINE f == Choice(n)
             h == Choice(n + 1)
             Same == {i \in Nat : i <= n => h[i] = f[i]}
  <2>1. /\ f[0] = a /\ \A i \in 0..(n - 1) : f[i + 1] = step[i][f[i]]
        /\ h[0] = a /\ \A i \in 0..((n + 1) - 1) : h[i + 1] = step[i][h[i]]
    BY <1>4 DEF Start
  <2> HIDE DEF f, h
  <2>2. 0 \in Same
    BY <2>1
  <2>3. ASSUME NEW i \in Same PROVE i + 1 \in Same
    <3>1. ASSUME i + 1 <= n PROVE h[i + 1] = f[i + 1]
      <4>1. i \in 0..(n - 1) /\ i \in 0..((n + 1) - 1) /\ h[i] = f[i]
        BY <3>1
      <4> QED BY <2>1, <4>1
    <3>2. i + 1 \in Nat
      OBVIOUS
    <3> QED BY <3>1, <3>2
  <2>4. \A i \in Nat : i \in Same
    BY <2>2, <2>3, NaturalInduction
  <2>5. h[n] = f[n]
    BY <2>4
  <2> QED BY <2>5 DEF f, h
<1>6. \A n \in Nat : g[n] = Choice(n)[n]
  OBVIOUS
<1>7. g \in [Nat -> S]
  <2>1. ASSUME NEW n \in Nat PROVE Choice(n)[n] \in S
    BY <1>4
  <2> QED BY <2>1
<1>8. g[0] = a
  BY <1>4, <1>6 DEF Start
<1>9. ASSUME NEW n \in Nat PROVE g[n + 1] = step[n][g[n]]
  <2>1. n \in 0..((n + 1) - 1)
    OBVIOUS
  <2>2. Choice(n + 1)[n + 1] = step[n][Choice(n + 1)[n]]
    BY <1>4, <2>1 DEF Start
  <2> QED BY <1>5, <1>6, <2>2
<1> HIDE DEF g
<1> QED BY <1>7, <1>8, <1>9 DEF Iterates

-----------------------------------------------------------------------------
(* Connected results *)

\* A walk that has only its root is connected.
LEMMA RootConnected ==
    ASSUME NEW r PROVE Connected({r}, {}, r)
BY DEF Connected

\* An edge between nodes already there, or to a node the graph lacks, cuts nothing
\* off.
LEMMA EdgeKeepsConnected ==
    ASSUME NEW N, NEW E, NEW r, NEW e, Connected(N, E, r)
    PROVE  Connected(N, E \cup {e}, r)
BY DEF Connected

\* A node that comes with an edge to one already there is not cut off.
LEMMA NodeKeepsConnected ==
    ASSUME NEW N, NEW E, NEW r \in N, NEW e, NEW m \in N, NEW n, Connected(N, E, r),
           \/ e.from = m /\ e.to = n
           \/ e.from = n /\ e.to = m
    PROVE  Connected(N \cup {n}, E \cup {e}, r)
<1> SUFFICES ASSUME NEW S \in SUBSET (N \cup {n}), r \in S,
                    \A x \in E \cup {e} :
                        Inside(x, N \cup {n}) => (x.from \in S <=> x.to \in S)
             PROVE  S = N \cup {n}
  BY DEF Connected
<1> DEFINE T == S \cap N
<1>1. T \in SUBSET N /\ r \in T
  OBVIOUS
<1>2. ASSUME NEW x \in E, Inside(x, N) PROVE x.from \in T <=> x.to \in T
  BY <1>2 DEF Inside
<1>3. T = N
  <2> HIDE DEF T
  <2> QED BY <1>1, <1>2 DEF Connected
<1>4. N \subseteq S
  BY <1>3
<1>5. n \in S
  BY <1>4 DEF Inside
<1> QED BY <1>4, <1>5

=============================================================================
