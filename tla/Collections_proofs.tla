-------------------------- MODULE Collections_proofs --------------------------
(***************************************************************************)
(* Lemmas about finite sets and sequences that the proofs of several       *)
(* modules need: induction, sums, filters, what is in a sequence and how   *)
(* often.                                                                  *)
(***************************************************************************)
EXTENDS Integers, Sequences, FiniteSets, Functions,
        FiniteSetTheorems, SequenceTheorems, TLAPS

-----------------------------------------------------------------------------
(* Sums over finite sets *)

\* A set of finite sets with which every set belongs whose proper subsets all do
\* has them all.
LEMMA SubsetInduction ==
  ASSUME NEW S, IsFiniteSet(S), NEW Good,
         \A T \in SUBSET S : (\A U \in SUBSET T : U # T => U \in Good) => T \in Good
  PROVE  \A T \in SUBSET S : T \in Good
<1> DEFINE Bad == (SUBSET S) \ Good
<1>1. IsWellFoundedOn(StrictSubsetOrdering(S), SUBSET S)
  BY FS_StrictSubsetOrderingWellFounded, FS_FiniteSubsetsOfFinite
<1>2. SUFFICES ASSUME Bad # {} PROVE FALSE
  OBVIOUS
<1>3. PICK T \in Bad : \A U \in Bad : ~(<<U, T>> \in StrictSubsetOrdering(S))
  <2>1. Bad \subseteq SUBSET S
    OBVIOUS
  <2> HIDE DEF Bad
  <2> QED
    BY <1>1, <1>2, <2>1, WFMin
<1>4. ASSUME NEW U \in SUBSET T, U # T PROVE U \in Good
  <2>1. <<U, T>> \in StrictSubsetOrdering(S)
    BY <1>3, <1>4 DEF StrictSubsetOrdering
  <2> QED
    BY <1>3, <1>4, <2>1
<1> QED
  BY <1>3, <1>4

\* The function by which the library adds up: it takes the elements off one by one.
Pick(s) == CHOOSE x \in s : TRUE
Rest(s) == s \ {Pick(s)}
Adds(g, f, T) == g = [s \in SUBSET T |-> IF s = {} THEN 0 ELSE f[Pick(s)] + g[Rest(s)]]
Adder(f, T) == CHOOSE g : Adds(g, f, T)

LEMMA PickRest ==
  ASSUME NEW s, s # {}
  PROVE  Pick(s) \in s /\ Rest(s) \subseteq s /\ Rest(s) # s
  BY DEF Pick, Rest

LEMMA SumIsAdder ==
  ASSUME NEW f, NEW S
  PROVE  SumFunctionOnSet(f, S) = Adder(f, S)[S]
  BY DEF SumFunctionOnSet, FoldFunctionOnSet, MapThenFoldSet, Adder, Adds, Pick, Rest

LEMMA AddsAgree ==
  ASSUME NEW S, IsFiniteSet(S), NEW f, NEW T \in SUBSET S, NEW U \in SUBSET S,
         NEW g, NEW h, Adds(g, f, T), Adds(h, f, U)
  PROVE  \A s \in SUBSET S : s \subseteq T /\ s \subseteq U => g[s] = h[s]
<1> DEFINE Good == {s \in SUBSET S : s \subseteq T /\ s \subseteq U => g[s] = h[s]}
<1>1. ASSUME NEW s \in SUBSET S, \A r \in SUBSET s : r # s => r \in Good
      PROVE  s \in Good
  <2>1. SUFFICES ASSUME s \subseteq T, s \subseteq U PROVE g[s] = h[s]
    OBVIOUS
  <2>2. /\ g[s] = IF s = {} THEN 0 ELSE f[Pick(s)] + g[Rest(s)]
        /\ h[s] = IF s = {} THEN 0 ELSE f[Pick(s)] + h[Rest(s)]
    BY <2>1 DEF Adds
  <2>3. CASE s # {}
    <3>1. Rest(s) \in SUBSET s /\ Rest(s) # s
      BY <2>3, PickRest
    <3>2. g[Rest(s)] = h[Rest(s)]
      BY <1>1, <2>1, <3>1
    <3> QED
      BY <2>2, <3>2
  <2> QED
    BY <2>2, <2>3
<1> HIDE DEF Good
<1>2. \A s \in SUBSET S : s \in Good
  BY <1>1, SubsetInduction
<1> QED
  BY <1>2 DEF Good

LEMMA AdderAdds ==
  ASSUME NEW S, IsFiniteSet(S), NEW f
  PROVE  \A T \in SUBSET S : Adds(Adder(f, T), f, T)
<1> DEFINE Good == {T \in SUBSET S : Adds(Adder(f, T), f, T)}
<1>1. ASSUME NEW T \in SUBSET S, \A U \in SUBSET T : U # T => U \in Good
      PROVE  T \in Good
  <2> DEFINE V(s) == IF s = {} THEN 0 ELSE f[Pick(s)] + Adder(f, Rest(s))[Rest(s)]
             g == [s \in SUBSET T |-> V(s)]
  <2>1. ASSUME NEW s \in SUBSET T, s # {}
        PROVE  g[Rest(s)] = Adder(f, Rest(s))[Rest(s)]
    <3>1. Rest(s) \subseteq s /\ Rest(s) # s
      BY <2>1, PickRest
    <3>2. PICK u : u = Rest(s)
      OBVIOUS
    <3>3. u \in SUBSET T /\ u # T /\ u \in SUBSET S
      BY <3>1, <3>2
    <3>4. Adds(Adder(f, u), f, u)
      BY <1>1, <3>3
    <3>5. Adder(f, u)[u] = IF u = {} THEN 0 ELSE f[Pick(u)] + Adder(f, u)[Rest(u)]
      BY <3>4 DEF Adds
    <3>6. g[u] = V(u)
      BY <3>3
    <3>7. ASSUME u # {} PROVE Adder(f, u)[Rest(u)] = Adder(f, Rest(u))[Rest(u)]
      <4>1. Rest(u) \subseteq u /\ Rest(u) # u
        BY <3>7, PickRest
      <4>2. PICK v : v = Rest(u)
        OBVIOUS
      <4>3. v \in SUBSET T /\ v # T /\ v \in SUBSET S /\ v \subseteq u
        BY <3>3, <4>1, <4>2
      <4>4. Adds(Adder(f, v), f, v)
        BY <1>1, <4>3
      <4>5. Adder(f, u)[v] = Adder(f, v)[v]
        BY <3>3, <3>4, <4>3, <4>4, AddsAgree
      <4> QED
        BY <4>2, <4>5
    <3> QED
      BY <3>2, <3>5, <3>6, <3>7
  <2>2. g = [s \in SUBSET T |-> IF s = {} THEN 0 ELSE f[Pick(s)] + g[Rest(s)]]
    BY <2>1
  <2>3. \E h : Adds(h, f, T)
    <3> HIDE DEF g
    <3> QED
      BY <2>2 DEF Adds
  <2>4. Adds(Adder(f, T), f, T)
    BY <2>3 DEF Adder
  <2> QED
    BY <2>4
<1> HIDE DEF Good
<1>2. \A T \in SUBSET S : T \in Good
  BY <1>1, SubsetInduction
<1> QED
  BY <1>2 DEF Good

LEMMA SumStep ==
  ASSUME NEW S, IsFiniteSet(S), NEW f
  PROVE  SumFunctionOnSet(f, S) =
           IF S = {} THEN 0 ELSE f[Pick(S)] + SumFunctionOnSet(f, Rest(S))
<1>1. Adds(Adder(f, S), f, S)
  BY AdderAdds
<1>2. Adder(f, S)[S] = IF S = {} THEN 0 ELSE f[Pick(S)] + Adder(f, S)[Rest(S)]
  BY <1>1 DEF Adds
<1>3. ASSUME S # {} PROVE Adder(f, S)[Rest(S)] = Adder(f, Rest(S))[Rest(S)]
  <2>1. Rest(S) \subseteq S
    BY <1>3, PickRest
  <2>2. PICK U : U = Rest(S)
    OBVIOUS
  <2>3. Adds(Adder(f, U), f, U) /\ U \in SUBSET S
    BY <2>1, <2>2, AdderAdds
  <2>4. Adder(f, S)[U] = Adder(f, U)[U]
    BY <1>1, <2>3, AddsAgree
  <2> QED
    BY <2>2, <2>4
<1> QED
  BY <1>2, <1>3, SumIsAdder

LEMMA SumEmpty ==
  ASSUME NEW f
  PROVE  SumFunctionOnSet(f, {}) = 0
  BY FS_EmptySet, SumStep

\* A sum stays in every set that 0 is in and that the summands do not lead out of.
LEMMA SumIn ==
  ASSUME NEW S, IsFiniteSet(S), NEW f, NEW V, 0 \in V,
         \A x \in S : \A v \in V : f[x] + v \in V
  PROVE  \A T \in SUBSET S : SumFunctionOnSet(f, T) \in V
<1> DEFINE Good == {T \in SUBSET S : SumFunctionOnSet(f, T) \in V}
<1>1. ASSUME NEW T \in SUBSET S, \A U \in SUBSET T : U # T => U \in Good
      PROVE  T \in Good
  <2>1. CASE T = {}
    BY <2>1, SumEmpty
  <2>2. CASE T # {}
    <3>1. Pick(T) \in T /\ Rest(T) \subseteq T /\ Rest(T) # T
      BY <2>2, PickRest
    <3>2. SumFunctionOnSet(f, T) = f[Pick(T)] + SumFunctionOnSet(f, Rest(T))
      BY <2>2, FS_Subset, SumStep
    <3>3. Rest(T) \in Good
      BY <1>1, <3>1
    <3> QED
      BY <3>1, <3>2, <3>3
  <2> QED
    BY <2>1, <2>2
<1> HIDE DEF Good
<1>2. \A T \in SUBSET S : T \in Good
  BY <1>1, SubsetInduction
<1> QED
  BY <1>2 DEF Good

LEMMA SumInt ==
  ASSUME NEW S, IsFiniteSet(S), NEW f, \A x \in S : f[x] \in Int
  PROVE  \A T \in SUBSET S : SumFunctionOnSet(f, T) \in Int
<1>1. PICK V : V = Int
  OBVIOUS
<1>2. 0 \in V /\ \A x \in S : \A v \in V : f[x] + v \in V
  BY <1>1
<1>3. \A T \in SUBSET S : SumFunctionOnSet(f, T) \in V
  BY <1>2, SumIn, Zenon
<1> QED
  BY <1>1, <1>3

\* It does not matter which element is added first.
LEMMA SumAny ==
  ASSUME NEW S, IsFiniteSet(S), NEW f, \A x \in S : f[x] \in Int
  PROVE  \A T \in SUBSET S : \A x \in T :
           SumFunctionOnSet(f, T) = f[x] + SumFunctionOnSet(f, T \ {x})
<1> DEFINE Good == {T \in SUBSET S : \A x \in T :
                      SumFunctionOnSet(f, T) = f[x] + SumFunctionOnSet(f, T \ {x})}
<1>1. ASSUME NEW T \in SUBSET S, \A U \in SUBSET T : U # T => U \in Good
      PROVE  T \in Good
  <2> SUFFICES ASSUME NEW x \in T
               PROVE  SumFunctionOnSet(f, T) = f[x] + SumFunctionOnSet(f, T \ {x})
    OBVIOUS
  <2>1. PICK y : y = Pick(T)
    OBVIOUS
  <2>2. y \in T /\ Rest(T) = T \ {y}
    BY <2>1, PickRest DEF Rest
  <2>3. SumFunctionOnSet(f, T) = f[y] + SumFunctionOnSet(f, T \ {y})
    BY <2>1, <2>2, FS_Subset, SumStep
  <2>4. CASE x # y
    <3>1. PICK A, B, C : A = T \ {y} /\ B = T \ {x} /\ C = (T \ {x}) \ {y}
      OBVIOUS
    <3>2. A \in Good /\ B \in Good
      BY <1>1, <2>2, <3>1
    <3>3. x \in A /\ y \in B /\ A \ {x} = C /\ B \ {y} = C
      BY <2>2, <2>4, <3>1
    <3>4. /\ SumFunctionOnSet(f, A) = f[x] + SumFunctionOnSet(f, C)
          /\ SumFunctionOnSet(f, B) = f[y] + SumFunctionOnSet(f, C)
      BY <3>2, <3>3
    <3>5. f[x] \in Int /\ f[y] \in Int /\ SumFunctionOnSet(f, C) \in Int
      BY <2>2, <3>1, SumInt
    <3>6. SumFunctionOnSet(f, T) = f[y] + SumFunctionOnSet(f, A)
      BY <2>3, <3>1
    <3>7. SumFunctionOnSet(f, T) = f[x] + SumFunctionOnSet(f, B)
      BY <3>4, <3>5, <3>6
    <3> QED
      BY <3>1, <3>7
  <2> QED
    BY <2>3, <2>4
<1> HIDE DEF Good
<1>2. \A T \in SUBSET S : T \in Good
  BY <1>1, SubsetInduction
<1> QED
  BY <1>2 DEF Good

LEMMA SumSame ==
  ASSUME NEW S, IsFiniteSet(S), NEW f, NEW g, \A x \in S : f[x] = g[x]
  PROVE  \A T \in SUBSET S : SumFunctionOnSet(f, T) = SumFunctionOnSet(g, T)
<1> DEFINE Good == {T \in SUBSET S : SumFunctionOnSet(f, T) = SumFunctionOnSet(g, T)}
<1>1. ASSUME NEW T \in SUBSET S, \A U \in SUBSET T : U # T => U \in Good
      PROVE  T \in Good
  <2>1. IsFiniteSet(T)
    BY FS_Subset
  <2>2. CASE T = {}
    BY <2>2, SumEmpty
  <2>3. CASE T # {}
    <3>1. Pick(T) \in T /\ Rest(T) \subseteq T /\ Rest(T) # T
      BY <2>3, PickRest
    <3>2. /\ SumFunctionOnSet(f, T) = f[Pick(T)] + SumFunctionOnSet(f, Rest(T))
          /\ SumFunctionOnSet(g, T) = g[Pick(T)] + SumFunctionOnSet(g, Rest(T))
      BY <2>1, <2>3, SumStep
    <3>3. Rest(T) \in Good
      BY <1>1, <3>1
    <3> QED
      BY <3>1, <3>2, <3>3
  <2> QED
    BY <2>2, <2>3
<1> HIDE DEF Good
<1>2. \A T \in SUBSET S : T \in Good
  BY <1>1, SubsetInduction
<1> QED
  BY <1>2 DEF Good

\* What a change of one summand does to the sum.
LEMMA SumChange ==
  ASSUME NEW S, IsFiniteSet(S), NEW f \in [S -> Int], NEW g \in [S -> Int],
         NEW x \in S, \A y \in S \ {x} : g[y] = f[y]
  PROVE  /\ SumFunction(f) \in Int /\ SumFunction(g) \in Int
         /\ SumFunction(g) = SumFunction(f) + g[x] - f[x]
<1>1. PICK R : R = S \ {x}
  OBVIOUS
<1>2. IsFiniteSet(R) /\ R \in SUBSET S
  BY <1>1, FS_Subset
<1>3. /\ SumFunctionOnSet(f, S) = f[x] + SumFunctionOnSet(f, R)
      /\ SumFunctionOnSet(g, S) = g[x] + SumFunctionOnSet(g, R)
  BY <1>1, SumAny
<1>4. SumFunctionOnSet(f, R) = SumFunctionOnSet(g, R)
  BY <1>1, <1>2, SumSame
<1>5. SumFunctionOnSet(f, R) \in Int /\ SumFunctionOnSet(f, S) \in Int /\ SumFunctionOnSet(g, S) \in Int
  BY <1>2, SumInt
<1>6. SumFunction(f) = SumFunctionOnSet(f, S) /\ SumFunction(g) = SumFunctionOnSet(g, S)
  BY DEF SumFunction
<1> QED
  BY <1>3, <1>4, <1>5, <1>6

LEMMA SumZero ==
  ASSUME NEW S, IsFiniteSet(S), NEW f \in [S -> Int], \A x \in S : f[x] = 0
  PROVE  SumFunction(f) = 0
<1>1. \A x \in S : \A v \in {0} : f[x] + v \in {0}
  OBVIOUS
<1>2. SumFunctionOnSet(f, S) \in {0}
  BY <1>1, SumIn
<1> QED
  BY <1>2 DEF SumFunction

\* A sum of amounts is no less than one of them.
LEMMA SumBounds ==
  ASSUME NEW S, IsFiniteSet(S), NEW f \in [S -> Nat]
  PROVE  /\ SumFunction(f) \in Nat
         /\ \A x \in S : f[x] <= SumFunction(f)
<1>1. \A x \in S : \A v \in Nat : f[x] + v \in Nat
  OBVIOUS
<1>2. \A T \in SUBSET S : SumFunctionOnSet(f, T) \in Nat
  BY <1>1, SumIn
<1>3. SumFunction(f) = SumFunctionOnSet(f, S)
  BY DEF SumFunction
<1>4. ASSUME NEW x \in S PROVE f[x] <= SumFunction(f)
  <2>1. SumFunctionOnSet(f, S) = f[x] + SumFunctionOnSet(f, S \ {x})
    BY SumAny
  <2>2. SumFunctionOnSet(f, S \ {x}) \in Nat
    BY <1>2
  <2> QED
    BY <1>3, <2>1, <2>2
<1> QED
  BY <1>2, <1>3, <1>4

LEMMA SumLeq ==
  ASSUME NEW S, IsFiniteSet(S), NEW f \in [S -> Int], NEW g \in [S -> Int],
         \A x \in S : f[x] <= g[x]
  PROVE  SumFunction(f) <= SumFunction(g)
<1> DEFINE Good == {T \in SUBSET S : SumFunctionOnSet(f, T) <= SumFunctionOnSet(g, T)}
<1>1. ASSUME NEW T \in SUBSET S, \A U \in SUBSET T : U # T => U \in Good
      PROVE  T \in Good
  <2>1. CASE T = {}
    BY <2>1, SumEmpty
  <2>2. CASE T # {}
    <3>1. Pick(T) \in T /\ Rest(T) \subseteq T /\ Rest(T) # T
      BY <2>2, PickRest
    <3>2. /\ SumFunctionOnSet(f, T) = f[Pick(T)] + SumFunctionOnSet(f, Rest(T))
          /\ SumFunctionOnSet(g, T) = g[Pick(T)] + SumFunctionOnSet(g, Rest(T))
      BY <2>2, FS_Subset, SumStep
    <3>3. Rest(T) \in Good
      BY <1>1, <3>1
    <3>4. SumFunctionOnSet(f, Rest(T)) \in Int /\ SumFunctionOnSet(g, Rest(T)) \in Int
      BY <3>1, SumInt
    <3> QED
      BY <3>1, <3>2, <3>3, <3>4
  <2> QED
    BY <2>1, <2>2
<1> HIDE DEF Good
<1>2. S \in Good
  BY <1>1, SubsetInduction
<1> QED
  BY <1>2 DEF Good, SumFunction

\* One more summand.
LEMMA SumExtend ==
  ASSUME NEW S, IsFiniteSet(S), NEW x, x \notin S, NEW f \in [S -> Int],
         NEW g \in [S \cup {x} -> Int], \A y \in S : g[y] = f[y]
  PROVE  SumFunction(g) = SumFunction(f) + g[x]
<1>1. PICK E : E = S \cup {x}
  OBVIOUS
<1>2. IsFiniteSet(E) /\ S \in SUBSET E /\ x \in E /\ E \ {x} = S
  BY <1>1, FS_AddElement
<1>3. \A y \in E : g[y] \in Int
  BY <1>1
<1>4. SumFunctionOnSet(g, E) = g[x] + SumFunctionOnSet(g, S)
  BY <1>2, <1>3, SumAny
<1>5. SumFunctionOnSet(g, S) = SumFunctionOnSet(f, S)
  BY SumSame
<1>6. SumFunctionOnSet(g, S) \in Int /\ g[x] \in Int
  BY <1>2, <1>3, SumInt
<1>7. SumFunction(g) = SumFunctionOnSet(g, E) /\ SumFunction(f) = SumFunctionOnSet(f, S)
  BY <1>1 DEF SumFunction
<1> QED
  BY <1>4, <1>5, <1>6, <1>7

-----------------------------------------------------------------------------
(* Sequences by what is in them *)

LEMMA SeqRange ==
  ASSUME NEW S, NEW q \in Seq(S)
  PROVE  /\ \A j \in 1 .. Len(q) : q[j] \in Range(q)
         /\ \A x \in Range(q) : \E j \in 1 .. Len(q) : x = q[j]
         /\ Range(q) \subseteq S /\ q \in Seq(Range(q))
  BY RangeEquality, RangeOfSeq, SeqOfRange

LEMMA EmptyRange == Range(<<>>) = {}
<1>1. /\ <<>> \in Seq({}) /\ Len(<<>>) = 0
  BY EmptySeq
<1>2. \A j \in 1 .. 0 : FALSE
  OBVIOUS
<1>3. \A x \in Range(<<>>) : \E j \in 1 .. 0 : x = <<>>[j]
  BY <1>1, SeqRange
<1> QED
  BY <1>2, <1>3

LEMMA TailRange ==
  ASSUME NEW S, NEW q \in Seq(S), q # <<>>
  PROVE  /\ Head(q) \in S /\ Tail(q) \in Seq(S)
         /\ Range(q) = Range(Tail(q)) \cup {Head(q)}
<1>1. PICK n \in Nat : n = Len(q) /\ n # 0
  BY EmptySeq, LenProperties
<1>2. /\ Head(q) \in S /\ Tail(q) \in Seq(S) /\ Len(Tail(q)) = n - 1
      /\ \A i \in 1 .. Len(Tail(q)) : Tail(q)[i] = q[i + 1]
  BY <1>1, HeadTailProperties
<1>3. PICK t : t = Tail(q)
  OBVIOUS
<1>4. Head(q) = q[1]
  OBVIOUS
<1>5. /\ \A j \in 1 .. n : q[j] \in Range(q)
      /\ \A x \in Range(q) : \E j \in 1 .. n : x = q[j]
  BY <1>1, SeqRange
<1>50. t \in Seq(S) /\ Len(t) = n - 1
  BY <1>2, <1>3
<1>51. /\ \A j \in 1 .. n - 1 : t[j] \in Range(t)
       /\ \A x \in Range(t) : \E j \in 1 .. n - 1 : x = t[j]
  BY <1>50, SeqRange
<1>6. \A i \in 1 .. n - 1 : t[i] = q[i + 1] /\ i + 1 \in 1 .. n
  BY <1>1, <1>2, <1>3
<1>7. \A i \in 1 .. n : i = 1 \/ (i - 1 \in 1 .. n - 1 /\ q[i] = t[i - 1])
  BY <1>6
<1>8. 1 \in 1 .. n
  BY <1>1
<1>9. Range(q) \subseteq Range(t) \cup {Head(q)}
  BY <1>4, <1>5, <1>51, <1>7
<1>10. Range(t) \cup {Head(q)} \subseteq Range(q)
  BY <1>4, <1>5, <1>51, <1>6, <1>8
<1> QED
  BY <1>2, <1>3, <1>9, <1>10

LEMMA AppendRange ==
  ASSUME NEW S, NEW q \in Seq(S), NEW e \in S
  PROVE  Append(q, e) \in Seq(S) /\ Range(Append(q, e)) = Range(q) \cup {e}
<1>1. PICK n \in Nat : n = Len(q)
  BY LenProperties
<1>2. PICK a : a = Append(q, e)
  OBVIOUS
<1>3. /\ a \in Seq(S) /\ Len(a) = n + 1 /\ a[n + 1] = e
      /\ \A i \in 1 .. n : a[i] = q[i]
  BY <1>1, <1>2, AppendProperties
<1>4. /\ \A j \in 1 .. n : q[j] \in Range(q)
      /\ \A x \in Range(q) : \E j \in 1 .. n : x = q[j]
      /\ \A j \in 1 .. n + 1 : a[j] \in Range(a)
      /\ \A x \in Range(a) : \E j \in 1 .. n + 1 : x = a[j]
  BY <1>1, <1>3, SeqRange
<1>5. /\ \A i \in 1 .. n + 1 : i \in 1 .. n \/ i = n + 1
      /\ n + 1 \in 1 .. n + 1 /\ \A i \in 1 .. n : i \in 1 .. n + 1
  OBVIOUS
<1>6. Range(a) \subseteq Range(q) \cup {e}
  BY <1>3, <1>4, <1>5
<1>7. Range(q) \cup {e} \subseteq Range(a)
  BY <1>3, <1>4, <1>5
<1> QED
  BY <1>2, <1>3, <1>6, <1>7

Distinct(q) == \A j, k \in 1 .. Len(q) : j < k => q[j] # q[k]

LEMMA TailDistinct ==
  ASSUME NEW S, NEW q \in Seq(S), q # <<>>, Distinct(q)
  PROVE  Distinct(Tail(q)) /\ Head(q) \notin Range(Tail(q))
<1>1. PICK n \in Nat : n = Len(q) /\ n # 0
  BY EmptySeq, LenProperties
<1>2. PICK t : t = Tail(q)
  OBVIOUS
<1>3. t \in Seq(S) /\ Len(t) = n - 1 /\ \A i \in 1 .. n - 1 : t[i] = q[i + 1]
  BY <1>1, <1>2, HeadTailProperties
<1>4. \A j, k \in 1 .. n : j < k => q[j] # q[k]
  BY <1>1 DEF Distinct
<1>5. \A j, k \in 1 .. n - 1 : j < k => t[j] # t[k]
  <2> TAKE j, k \in 1 .. n - 1
  <2> HAVE j < k
  <2>1. j + 1 \in 1 .. n /\ k + 1 \in 1 .. n /\ j + 1 < k + 1
    OBVIOUS
  <2> QED
    BY <1>3, <1>4, <2>1
<1>6. \A x \in Range(t) : \E i \in 1 .. n - 1 : x = t[i]
  BY <1>3, SeqRange
<1>7. \A i \in 1 .. n - 1 : t[i] # q[1]
  <2> TAKE i \in 1 .. n - 1
  <2>1. 1 \in 1 .. n /\ i + 1 \in 1 .. n /\ 1 < i + 1
    OBVIOUS
  <2> QED
    BY <1>3, <1>4, <2>1
<1>8. Head(q) = q[1]
  OBVIOUS
<1> QED
  BY <1>2, <1>3, <1>5, <1>6, <1>7, <1>8 DEF Distinct

-----------------------------------------------------------------------------
(* Filters, and their induction over 0 .. N *)

LEMMA CountInduction ==
  ASSUME NEW N \in Nat, NEW Good, 0 \in Good,
         \A n \in 0 .. N - 1 : n \in Good => n + 1 \in Good
  PROVE  \A n \in 0 .. N : n \in Good
<1> DEFINE Below(n) == {m \in 0 .. N : m < n}
           Sets == {T \in SUBSET (0 .. N) : \A n \in 0 .. N : T = Below(n) => n \in Good}
<1>1. IsFiniteSet(0 .. N)
  BY FS_Interval
<1>2. ASSUME NEW T \in SUBSET (0 .. N), \A U \in SUBSET T : U # T => U \in Sets
      PROVE  T \in Sets
  <2>1. SUFFICES ASSUME NEW n \in 0 .. N, T = Below(n) PROVE n \in Good
    OBVIOUS
  <2>2. CASE n # 0
    <3>1. PICK U : U = Below(n - 1)
      OBVIOUS
    <3>2. U \in SUBSET T /\ n - 1 \in T /\ n - 1 \notin U
      BY <2>1, <2>2, <3>1
    <3>3. U \in Sets
      BY <1>2, <3>2
    <3>4. n - 1 \in Good
      BY <2>2, <3>1, <3>3
    <3> QED
      BY <2>2, <3>4
  <2> QED
    BY <2>2
<1> HIDE DEF Sets
<1>3. \A T \in SUBSET (0 .. N) : T \in Sets
  BY <1>1, <1>2, SubsetInduction
<1>4. ASSUME NEW n \in 0 .. N PROVE n \in Good
  <2>1. Below(n) \in Sets
    BY <1>3
  <2> QED
    BY <2>1 DEF Sets
<1> QED
  BY <1>4

\* How a recursive function keeps, of the first n members of s, those at K.
Filters(g, s, K, n) ==
  g = [i \in 0 .. n |->
         IF i = 0 THEN <<>> ELSE IF i \in K THEN Append(g[i - 1], s[i]) ELSE g[i - 1]]

LEMMA FilterExists ==
  ASSUME NEW s, NEW K, NEW N \in Nat
  PROVE  \E g : Filters(g, s, K, N)
<1> DEFINE Good == {n \in Nat : \E g : Filters(g, s, K, n)}
<1>1. 0 \in Good
  <2>1. Filters([i \in 0 .. 0 |-> <<>>], s, K, 0)
    BY DEF Filters
  <2> QED
    BY <2>1
<1>2. ASSUME NEW n \in 0 .. N - 1, n \in Good PROVE n + 1 \in Good
  <2>1. PICK g : Filters(g, s, K, n)
    BY <1>2
  <2>2. PICK last : last = IF n + 1 \in K THEN Append(g[n], s[n + 1]) ELSE g[n]
    OBVIOUS
  <2>3. PICK h : h = [i \in 0 .. n + 1 |-> IF i = n + 1 THEN last ELSE g[i]]
    OBVIOUS
  <2>4. \A i \in 0 .. n : h[i] = g[i]
    BY <2>3
  <2>5. \A i \in 0 .. n + 1 :
          h[i] = IF i = 0 THEN <<>>
                 ELSE IF i \in K THEN Append(h[i - 1], s[i]) ELSE h[i - 1]
    <3> SUFFICES ASSUME NEW i \in 0 .. n + 1
                 PROVE  h[i] = IF i = 0 THEN <<>>
                               ELSE IF i \in K THEN Append(h[i - 1], s[i]) ELSE h[i - 1]
      OBVIOUS
    <3>1. CASE i = n + 1
      <4>1. h[i] = last /\ i - 1 = n /\ h[i - 1] = g[n] /\ i # 0
        BY <2>3, <2>4, <3>1
      <4> QED
        BY <2>2, <3>1, <4>1
    <3>2. CASE i = 0
      BY <2>1, <2>4, <3>2 DEF Filters
    <3>3. CASE i \in 1 .. n
      <4>1. h[i] = g[i] /\ h[i - 1] = g[i - 1]
        BY <2>4, <3>3
      <4>2. i \in 0 .. n /\ i # 0
        BY <3>3
      <4>3. g[i] = IF i \in K THEN Append(g[i - 1], s[i]) ELSE g[i - 1]
        BY <2>1, <4>2 DEF Filters
      <4> QED
        BY <4>1, <4>2, <4>3
    <3> QED
      BY <3>1, <3>2, <3>3
  <2>6. Filters(h, s, K, n + 1)
    BY <2>3, <2>5 DEF Filters
  <2> QED
    BY <2>6
<1> HIDE DEF Good
<1>3. N \in Good
  BY <1>1, <1>2, CountInduction
<1> QED
  BY <1>3 DEF Good

\* L holds those of the first n events that are among R, in their order.
Reports(L, events, R, n) ==
  /\ \A j \in 1 .. Len(L) : L[j] \in R /\ \E i \in 1 .. n : L[j] = events[i]
  /\ \A i \in 1 .. n : events[i] \in R => \E j \in 1 .. Len(L) : L[j] = events[i]
  /\ \A j, k \in 1 .. Len(L) : j < k =>
       \E a, b \in 1 .. n : a < b /\ L[j] = events[a] /\ L[k] = events[b]

LEMMA ReportsOneMore ==
  ASSUME NEW D, NEW events \in Seq(D), NEW R, NEW L \in Seq(D), NEW n \in Nat,
         n < Len(events), Reports(L, events, R, n),
         NEW M, M = IF events[n + 1] \in R THEN Append(L, events[n + 1]) ELSE L
  PROVE  M \in Seq(D) /\ Reports(M, events, R, n + 1)
<1>1. PICK e : e = events[n + 1]
  OBVIOUS
<1>2. e \in D
  BY <1>1, ElementOfSeq
<1>3. PICK m \in Nat : m = Len(L)
  BY LenProperties
<1>4. /\ \A j \in 1 .. m : L[j] \in R /\ \E i \in 1 .. n : L[j] = events[i]
      /\ \A i \in 1 .. n : events[i] \in R => \E j \in 1 .. m : L[j] = events[i]
      /\ \A j, k \in 1 .. m : j < k =>
           \E a, b \in 1 .. n : a < b /\ L[j] = events[a] /\ L[k] = events[b]
  BY <1>3 DEF Reports
<1>5. CASE e \notin R
  <2>1. M = L
    BY <1>1, <1>5
  <2>2. \A j \in 1 .. m : L[j] \in R /\ \E i \in 1 .. n + 1 : L[j] = events[i]
    BY <1>4
  <2>3. \A i \in 1 .. n + 1 : events[i] \in R => \E j \in 1 .. m : L[j] = events[i]
    BY <1>1, <1>4, <1>5
  <2>4. \A j, k \in 1 .. m : j < k =>
          \E a, b \in 1 .. n + 1 : a < b /\ L[j] = events[a] /\ L[k] = events[b]
    BY <1>4
  <2> QED
    BY <1>3, <2>1, <2>2, <2>3, <2>4 DEF Reports
<1>6. CASE e \in R
  <2>1. /\ M \in Seq(D) /\ Len(M) = m + 1 /\ M[m + 1] = e
        /\ \A j \in 1 .. m : M[j] = L[j]
    BY <1>1, <1>2, <1>3, <1>6, AppendProperties
  <2>2. \A j \in 1 .. m + 1 : M[j] \in R /\ \E i \in 1 .. n + 1 : M[j] = events[i]
    BY <1>1, <1>4, <1>6, <2>1
  <2>3. ASSUME NEW i \in 1 .. n + 1, events[i] \in R
        PROVE  \E j \in 1 .. m + 1 : M[j] = events[i]
    <3>1. CASE i = n + 1
      BY <1>1, <2>1, <3>1
    <3>2. CASE i \in 1 .. n
      BY <1>4, <2>1, <2>3, <3>2
    <3>3. i \in 1 .. n \/ i = n + 1
      OBVIOUS
    <3> QED
      BY <3>1, <3>2, <3>3, Zenon
  <2>4. ASSUME NEW j \in 1 .. m + 1, NEW k \in 1 .. m + 1, j < k
        PROVE  \E a, b \in 1 .. n + 1 : a < b /\ M[j] = events[a] /\ M[k] = events[b]
    <3>1. j \in 1 .. m
      BY <2>4
    <3>2. CASE k \in 1 .. m
      <4>1. PICK a \in 1 .. n, b \in 1 .. n : a < b /\ L[j] = events[a] /\ L[k] = events[b]
        BY <1>4, <2>4, <3>1, <3>2
      <4> QED
        BY <2>1, <3>1, <3>2, <4>1
    <3>3. CASE k = m + 1
      <4>1. PICK a \in 1 .. n : L[j] = events[a]
        BY <1>4, <3>1
      <4>2. M[j] = events[a] /\ M[k] = events[n + 1]
        BY <1>1, <2>1, <3>1, <3>3, <4>1
      <4>3. a \in 1 .. n + 1 /\ n + 1 \in 1 .. n + 1 /\ a < n + 1
        OBVIOUS
      <4> QED
        BY <4>2, <4>3, Zenon
    <3>4. k \in 1 .. m \/ k = m + 1
      OBVIOUS
    <3> QED
      BY <3>2, <3>3, <3>4, Zenon
  <2>5. \A j : j \in 1 .. Len(M) <=> j \in 1 .. m + 1
    BY <2>1
  <2>6. \A j \in 1 .. Len(M) : M[j] \in R /\ \E i \in 1 .. n + 1 : M[j] = events[i]
    BY <2>2, <2>5, Zenon
  <2>7. \A i \in 1 .. n + 1 : events[i] \in R => \E j \in 1 .. Len(M) : M[j] = events[i]
    BY <2>3, <2>5, Zenon
  <2>8. \A j, k \in 1 .. Len(M) : j < k =>
          \E a, b \in 1 .. n + 1 : a < b /\ M[j] = events[a] /\ M[k] = events[b]
    <3> TAKE j, k \in 1 .. Len(M)
    <3> HAVE j < k
    <3>1. j \in 1 .. m + 1 /\ k \in 1 .. m + 1
      BY <2>5
    <3> QED
      BY <2>4, <3>1, Zenon
  <2> QED
    BY <2>1, <2>6, <2>7, <2>8, Zenon DEF Reports
<1> QED
  BY <1>5, <1>6, Zenon

-----------------------------------------------------------------------------
(* How many members of a sequence are in a set *)

Places(s, R, n) == {i \in 1 .. n : s[i] \in R}
Hits(s, R) == Cardinality(Places(s, R, Len(s)))

LEMMA PlacesFinite ==
  ASSUME NEW s, NEW R, NEW n \in Nat
  PROVE  IsFiniteSet(Places(s, R, n)) /\ Cardinality(Places(s, R, n)) \in 0 .. n
<1>1. IsFiniteSet(1 .. n) /\ Cardinality(1 .. n) = n
  BY FS_Interval
<1>2. Places(s, R, n) \in SUBSET (1 .. n)
  BY DEF Places
<1> QED
  BY <1>1, <1>2, FS_Subset, FS_CardinalityType

LEMMA PlacesOneMore ==
  ASSUME NEW s, NEW R, NEW n \in Nat
  PROVE  Cardinality(Places(s, R, n + 1))
           = Cardinality(Places(s, R, n)) + IF s[n + 1] \in R THEN 1 ELSE 0
<1>1. IsFiniteSet(Places(s, R, n)) /\ Cardinality(Places(s, R, n)) \in Nat
  BY PlacesFinite
<1>2. n + 1 \notin Places(s, R, n)
  BY DEF Places
<1>3. CASE s[n + 1] \in R
  <2>1. Places(s, R, n + 1) = Places(s, R, n) \cup {n + 1}
    BY <1>3 DEF Places
  <2> QED
    BY <1>1, <1>2, <1>3, <2>1, FS_AddElement
<1>4. CASE s[n + 1] \notin R
  <2>1. Places(s, R, n + 1) = Places(s, R, n)
    BY <1>4 DEF Places
  <2> QED
    BY <1>1, <1>4, <2>1
<1> QED
  BY <1>3, <1>4

LEMMA HitsBounds ==
  ASSUME NEW D, NEW s \in Seq(D), NEW R
  PROVE  Hits(s, R) \in 0 .. Len(s)
  BY LenProperties, PlacesFinite DEF Hits

LEMMA HitsEmpty ==
  ASSUME NEW R
  PROVE  Hits(<<>>, R) = 0
<1>1. Len(<<>>) = 0
  OBVIOUS
<1>2. Cardinality(Places(<<>>, R, 0)) \in 0 .. 0
  BY PlacesFinite
<1> QED
  BY <1>1, <1>2 DEF Hits

LEMMA HitsAppend ==
  ASSUME NEW D, NEW s \in Seq(D), NEW x \in D, NEW R
  PROVE  Hits(Append(s, x), R) = Hits(s, R) + IF x \in R THEN 1 ELSE 0
<1>1. PICK n \in Nat : n = Len(s)
  BY LenProperties
<1>2. PICK t : t = Append(s, x)
  OBVIOUS
<1>3. Len(t) = n + 1 /\ t[n + 1] = x /\ \A i \in 1 .. n : t[i] = s[i]
  BY <1>1, <1>2, AppendProperties
<1>4. Places(t, R, n) = Places(s, R, n)
  BY <1>3 DEF Places
<1>5. Cardinality(Places(t, R, n + 1))
        = Cardinality(Places(t, R, n)) + IF t[n + 1] \in R THEN 1 ELSE 0
  BY PlacesOneMore
<1> QED
  BY <1>1, <1>2, <1>3, <1>4, <1>5 DEF Hits

LEMMA HitsTail ==
  ASSUME NEW D, NEW s \in Seq(D), s # <<>>, NEW R
  PROVE  Hits(s, R) = Hits(Tail(s), R) + IF Head(s) \in R THEN 1 ELSE 0
<1>1. PICK n \in Nat : Len(s) = n + 1
  <2>1. Len(s) \in Nat /\ Len(s) # 0
    BY LenProperties, EmptySeq
  <2>2. Len(s) - 1 \in Nat /\ Len(s) = (Len(s) - 1) + 1
    BY <2>1
  <2> QED
    BY <2>2
<1>2. PICK t : t = Tail(s)
  OBVIOUS
<1>3. Len(t) = n /\ (\A i \in 1 .. n : t[i] = s[i + 1]) /\ Head(s) = s[1]
  BY <1>1, <1>2, HeadTailProperties
<1> DEFINE Later == Places(s, R, n + 1) \ {1}
<1>4. IsFiniteSet(Places(s, R, n + 1)) /\ Cardinality(Places(s, R, n + 1)) \in Nat
  BY PlacesFinite
<1>5. Cardinality(Places(s, R, n + 1)) = Cardinality(Later) + IF s[1] \in R THEN 1 ELSE 0
  <2>1. 1 \in Places(s, R, n + 1) <=> s[1] \in R
    BY DEF Places
  <2>2. /\ IsFiniteSet(Later)
        /\ Cardinality(Later) = IF 1 \in Places(s, R, n + 1)
                                  THEN Cardinality(Places(s, R, n + 1)) - 1
                                  ELSE Cardinality(Places(s, R, n + 1))
    BY <1>4, FS_RemoveElement
  <2> QED
    BY <1>4, <2>1, <2>2
<1>6. Cardinality(Later) = Cardinality(Places(t, R, n))
  <2>1. IsFiniteSet(Places(t, R, n))
    BY PlacesFinite
  <2> DEFINE shift == [i \in Places(t, R, n) |-> i + 1]
  <2>2. shift \in Bijection(Places(t, R, n), Later)
    <3>1. \A i \in Places(t, R, n) : i + 1 \in Later
      BY <1>3 DEF Places
    <3>2. \A i, j \in Places(t, R, n) : i + 1 = j + 1 => i = j
      BY DEF Places
    <3>3. \A j \in Later : j - 1 \in Places(t, R, n) /\ shift[j - 1] = j
      <4>1. SUFFICES ASSUME NEW j \in Later PROVE j - 1 \in Places(t, R, n)
        BY DEF Places
      <4>2. j \in 2 .. n + 1 /\ s[j] \in R
        BY DEF Places
      <4>3. j - 1 \in 1 .. n /\ (j - 1) + 1 = j
        BY <4>2
      <4> QED
        BY <1>3, <4>2, <4>3 DEF Places
    <3> HIDE DEF Later
    <3> QED
      BY <3>1, <3>2, <3>3 DEF Bijection, Injection, Surjection, IsInjective
  <2> QED
    BY <2>1, <2>2, FS_Bijection DEF ExistsBijection
<1> QED
  BY <1>1, <1>2, <1>3, <1>5, <1>6 DEF Hits

\* What passes a filter is counted after it as often as before.
LEMMA FilterHits ==
  ASSUME NEW D, NEW s \in Seq(D), NEW K, NEW g, Filters(g, s, K, Len(s)),
         NEW R, \A i \in 1 .. Len(s) : s[i] \in R => i \in K
  PROVE  g[Len(s)] \in Seq(D) /\ Hits(g[Len(s)], R) = Hits(s, R)
<1>1. PICK N \in Nat : N = Len(s)
  BY LenProperties
<1> DEFINE Good == {n \in 0 .. N : /\ g[n] \in Seq(D)
                                   /\ Hits(g[n], R) = Cardinality(Places(s, R, n))}
<1>2. 0 \in Good
  <2>1. g[0] = <<>>
    BY <1>1 DEF Filters
  <2>2. g[0] \in Seq(D) /\ Hits(g[0], R) = 0
    BY <2>1, HitsEmpty
  <2>3. Cardinality(Places(s, R, 0)) = 0
    <3>1. Cardinality(Places(s, R, 0)) \in 0 .. 0
      BY PlacesFinite
    <3> QED
      BY <3>1
  <2>4. 0 \in 0 .. N
    OBVIOUS
  <2> QED
    BY <2>2, <2>3, <2>4
<1>3. ASSUME NEW n \in 0 .. N - 1, n \in Good PROVE n + 1 \in Good
  <2>1. n + 1 \in 0 .. N /\ n + 1 # 0 /\ (n + 1) - 1 = n /\ n + 1 \in 1 .. N /\ n \in Nat
    OBVIOUS
  <2>2. g[n + 1] = IF n + 1 \in K THEN Append(g[n], s[n + 1]) ELSE g[n]
    BY <1>1, <2>1 DEF Filters
  <2>3. s[n + 1] \in D
    BY <1>1, <2>1, ElementOfSeq
  <2>4. g[n] \in Seq(D) /\ Hits(g[n], R) = Cardinality(Places(s, R, n))
    BY <1>3
  <2>5. Cardinality(Places(s, R, n + 1))
          = Cardinality(Places(s, R, n)) + IF s[n + 1] \in R THEN 1 ELSE 0
    BY <2>1, PlacesOneMore
  <2>6. Cardinality(Places(s, R, n)) \in Nat
    BY <2>1, PlacesFinite
  <2>7. g[n + 1] \in Seq(D) /\ Hits(g[n + 1], R) = Cardinality(Places(s, R, n + 1))
    <3>1. CASE n + 1 \in K
      <4>1. /\ Append(g[n], s[n + 1]) \in Seq(D)
            /\ Hits(Append(g[n], s[n + 1]), R)
                 = Hits(g[n], R) + IF s[n + 1] \in R THEN 1 ELSE 0
        BY <2>3, <2>4, AppendProperties, HitsAppend
      <4> QED
        BY <2>2, <2>4, <2>5, <3>1, <4>1
    <3>2. CASE n + 1 \notin K
      <4>1. s[n + 1] \notin R
        BY <1>1, <2>1, <3>2
      <4> QED
        BY <2>2, <2>4, <2>5, <2>6, <3>2, <4>1
    <3> QED
      BY <3>1, <3>2
  <2> QED
    BY <2>1, <2>7
<1> HIDE DEF Good
<1>4. N \in Good
  <2>1. \A n \in 0 .. N : n \in Good
    BY <1>2, <1>3, CountInduction
  <2> QED
    BY <2>1
<1>5. g[N] \in Seq(D) /\ Hits(g[N], R) = Cardinality(Places(s, R, N))
  BY <1>4 DEF Good
<1> QED
  BY <1>1, <1>5 DEF Hits

\* One entry replaced by another.
LEMMA HitsReplace ==
  ASSUME NEW D, NEW s \in Seq(D), NEW i \in 1 .. Len(s), NEW x \in D, NEW R
  PROVE  Hits([s EXCEPT ![i] = x], R) + (IF s[i] \in R THEN 1 ELSE 0)
           = Hits(s, R) + IF x \in R THEN 1 ELSE 0
<1>1. PICK n \in Nat : n = Len(s)
  BY LenProperties
<1>2. PICK t : t = [s EXCEPT ![i] = x]
  OBVIOUS
<1>3. Len(t) = n /\ t[i] = x /\ \A j \in 1 .. n : j # i => t[j] = s[j]
  BY <1>1, <1>2, ExceptSeq
<1>4. Places(t, R, n) \ {i} = Places(s, R, n) \ {i}
  BY <1>3 DEF Places
<1>5. ASSUME NEW u
      PROVE  Cardinality(Places(u, R, n))
               = Cardinality(Places(u, R, n) \ {i}) + IF u[i] \in R THEN 1 ELSE 0
  <2>1. i \in Places(u, R, n) <=> u[i] \in R
    BY <1>1 DEF Places
  <2>2. IsFiniteSet(Places(u, R, n)) /\ Cardinality(Places(u, R, n)) \in Nat
    BY PlacesFinite
  <2>3. Cardinality(Places(u, R, n) \ {i})
          = IF i \in Places(u, R, n) THEN Cardinality(Places(u, R, n)) - 1
            ELSE Cardinality(Places(u, R, n))
    BY <2>2, FS_RemoveElement
  <2> QED
    BY <2>1, <2>2, <2>3
<1>6. Cardinality(Places(s, R, n) \ {i}) \in Nat
  <2>1. IsFiniteSet(Places(s, R, n))
    BY PlacesFinite
  <2> QED
    BY <2>1, FS_RemoveElement, FS_CardinalityType
<1>7. /\ Cardinality(Places(s, R, n))
           = Cardinality(Places(s, R, n) \ {i}) + IF s[i] \in R THEN 1 ELSE 0
      /\ Cardinality(Places(t, R, n))
           = Cardinality(Places(s, R, n) \ {i}) + IF x \in R THEN 1 ELSE 0
  BY <1>3, <1>4, <1>5
<1> QED
  BY <1>1, <1>2, <1>3, <1>6, <1>7 DEF Hits

\* Of the places where something is, one is the first.
LEMMA FirstPlace ==
  ASSUME NEW N \in Nat, NEW P, NEW k \in 1 .. N, k \in P
  PROVE  \E i \in 1 .. N : i \in P /\ \A j \in 1 .. i - 1 : j \notin P
<1> SUFFICES ASSUME \A i \in 1 .. N : i \in P => \E j \in 1 .. i - 1 : j \in P
             PROVE  FALSE
  OBVIOUS
<1> DEFINE Good == {n \in 0 .. N : \A j \in 1 .. n : j \notin P}
<1>1. 0 \in Good
  OBVIOUS
<1>2. ASSUME NEW n \in 0 .. N - 1, n \in Good PROVE n + 1 \in Good
  <2>1. n + 1 \in 1 .. N /\ n + 1 \in 0 .. N /\ (n + 1) - 1 = n
    OBVIOUS
  <2>2. \A j \in 1 .. n : j \notin P
    BY <1>2
  <2>3. n + 1 \notin P
    BY <2>1, <2>2
  <2> QED
    BY <2>1, <2>2, <2>3
<1>3. \A n \in 0 .. N : n \in Good
  <2> HIDE DEF Good
  <2> QED
    BY <1>1, <1>2, CountInduction
<1> QED
  BY <1>3
=============================================================================
