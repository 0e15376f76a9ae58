---------------------------- MODULE SumTheorems ----------------------------
(***************************************************************************)
(* Sums over finite sets.  MapThenSumSet of the community modules is a     *)
(* recursive function on the subsets; what it adds up to is proved here by *)
(* induction, in the form of the least counterexample: WFMin says that a   *)
(* set of naturals that is not empty has a least element.                  *)
(***************************************************************************)
EXTENDS Integers, FiniteSetsExt, FiniteSetTheorems, WellFoundedInduction, TLAPS

\* The sum of the weights of the members of a set.
SumOver(w, S) == MapThenSumSet(LAMBDA x : w[x], S)

-----------------------------------------------------------------------------
(* Induction. *)

\* A set of naturals that holds 0 and the successor of each of its members is all of them.
LEMMA Induction ==
  ASSUME NEW G, 0 \in G, \A n \in Nat : n \in G => n + 1 \in G
  PROVE  \A n \in Nat : n \in G
<1> DEFINE less == {ss \in Nat \X Nat : ss[1] < ss[2]}
           bad == Nat \ G
<1>1. IsWellFoundedOn(less, Nat)
  BY NatLessThanWellFounded, Zenon DEF OpToRel
<1>2. \A x, y \in Nat : y < x => <<y, x>> \in less
  OBVIOUS
<1>3. bad \subseteq Nat
  OBVIOUS
<1> HIDE DEF less
<1>4. ASSUME bad # {} PROVE FALSE
  <2> HIDE DEF bad
  <2>1. PICK n \in bad : \A m \in bad : <<m, n>> \notin less
    BY <1>1, <1>3, <1>4, WFMin, Zenon
  <2>2. n \in Nat /\ n \notin G
    BY <2>1 DEF bad
  <2>3. n # 0 /\ n - 1 \in Nat /\ (n - 1) + 1 = n
    BY <2>2
  <2>4. n - 1 \notin G
    BY <2>2, <2>3
  <2>5. n - 1 \in bad /\ n - 1 < n
    BY <2>2, <2>3, <2>4 DEF bad
  <2> QED
    BY <1>2, <2>1, <2>2, <2>3, <2>5
<1> QED
  BY <1>4

\* What holds of the empty set and of a set with one more member holds of every finite set.
LEMMA SetInduction ==
  ASSUME NEW S, IsFiniteSet(S), NEW G, {} \in G,
         \A T \in SUBSET S, x \in S : T \in G /\ x \notin T => T \cup {x} \in G
  PROVE  S \in G
<1> DEFINE H == {n \in Nat : \A T \in SUBSET S : Cardinality(T) = n => T \in G}
<1>0. \A T \in SUBSET S : IsFiniteSet(T) /\ Cardinality(T) \in Nat
  BY FS_Subset, FS_CardinalityType
<1>1. 0 \in H
  BY <1>0, FS_EmptySet
<1>2. ASSUME NEW n \in Nat, n \in H PROVE n + 1 \in H
  <2> SUFFICES ASSUME NEW T \in SUBSET S, Cardinality(T) = n + 1 PROVE T \in G
    OBVIOUS
  <2>0. n + 1 # 0
    OBVIOUS
  <2>1. T # {}
    BY <2>0, FS_EmptySet, Zenon
  <2>2. PICK x \in T : TRUE
    BY <2>1
  <2> DEFINE U == T \ {x}
  <2>3. Cardinality(U) = n
    <3>1. IsFiniteSet(T) /\ x \in T
      BY <1>0, <2>2
    <3>2. Cardinality(U) = Cardinality(T) - 1
      BY <3>1, FS_RemoveElement
    <3> QED
      BY <3>2
  <2>4. U \in SUBSET S /\ x \in S /\ x \notin U /\ U \cup {x} = T
    BY <2>2
  <2> HIDE DEF U
  <2>5. U \in G
    BY <1>2, <2>3, <2>4
  <2>6. U \cup {x} \in G
    BY <2>4, <2>5
  <2> QED
    BY <2>4, <2>6
<1> HIDE DEF H
<1>3. \A n \in Nat : n \in H
  BY <1>1, <1>2, Induction
<1> QED
  BY <1>0, <1>3 DEF H

-----------------------------------------------------------------------------
(* The recursive function. *)

Pick(s) == CHOOSE x \in s : TRUE

\* One step of the recursion, and the function it defines on the subsets of S.
Add(w, g, s) == IF s = {} THEN 0 ELSE w[Pick(s)] + g[s \ {Pick(s)}]
IsSum(g, w, S) == g = [s \in SUBSET S |-> Add(w, g, s)]

LEMMA Picked == \A s : s # {} => Pick(s) \in s
BY DEF Pick

\* It exists: built up by the size of the subsets.
LEMMA SumExists ==
  ASSUME NEW w, NEW S, IsFiniteSet(S)
  PROVE  \E g : IsSum(g, w, S)
<1> DEFINE Small(n) == {s \in SUBSET S : Cardinality(s) <= n}
           Upto(g, n) == g = [s \in Small(n) |-> Add(w, g, s)]
           H == {n \in Nat : \E g : Upto(g, n)}
<1>0. \A T \in SUBSET S : IsFiniteSet(T) /\ Cardinality(T) \in Nat /\ Cardinality(T) <= Cardinality(S)
  BY FS_Subset, FS_CardinalityType
<1>1. 0 \in H
  <2> DEFINE g == [s \in Small(0) |-> 0]
  <2>1. \A s \in Small(0) : s = {}
    BY <1>0, FS_EmptySet
  <2>2. \A s \in Small(0) : Add(w, g, s) = 0
    BY <2>1 DEF Add
  <2>3. Upto(g, 0)
    BY <2>2
  <2> QED
    BY <2>3
<1>2. ASSUME NEW n \in Nat, n \in H PROVE n + 1 \in H
  <2>1. PICK g : Upto(g, n)
    BY <1>2
  <2> DEFINE h == [s \in Small(n + 1) |-> Add(w, g, s)]
  <2>2. ASSUME NEW s \in Small(n + 1), s # {}
        PROVE  s \ {Pick(s)} \in Small(n) /\ s \ {Pick(s)} \in Small(n + 1)
    <3>1. Cardinality(s \ {Pick(s)}) = Cardinality(s) - 1
      BY <1>0, <2>2, Picked, FS_RemoveElement
    <3>2. Cardinality(s) \in Nat /\ Cardinality(s) <= n + 1
      BY <1>0
    <3> QED
      BY <3>1, <3>2
  <2>3. \A s \in Small(n) : s \in Small(n + 1) /\ h[s] = g[s]
    <3>1. \A s \in Small(n) : s \in Small(n + 1)
      BY <1>0
    <3>2. \A s \in Small(n) : g[s] = Add(w, g, s)
      <4> HIDE DEF Small
      <4> QED
        BY <2>1
    <3> HIDE DEF Small
    <3> QED
      BY <3>1, <3>2
  <2> HIDE DEF Small
  <2>4. \A s \in Small(n + 1) : Add(w, g, s) = Add(w, h, s)
    <3> SUFFICES ASSUME NEW s \in Small(n + 1) PROVE Add(w, g, s) = Add(w, h, s)
      OBVIOUS
    <3> HIDE DEF h
    <3>1. CASE s = {}
      BY <3>1 DEF Add
    <3>2. CASE s # {}
      <4>1. h[s \ {Pick(s)}] = g[s \ {Pick(s)}]
        BY <2>2, <2>3, <3>2
      <4> QED
        BY <4>1, Zenon DEF Add
    <3> QED
      BY <3>1, <3>2
  <2>5. Upto(h, n + 1) /\ n + 1 \in Nat
    BY <2>4
  <2> HIDE DEF h, Upto
  <2> QED
    BY <2>5
<1>3. \A s \in SUBSET S : s \in Small(Cardinality(S))
  BY <1>0
<1>4. Small(Cardinality(S)) = SUBSET S
  BY <1>3
<1>5. Cardinality(S) \in Nat
  BY FS_CardinalityType
<1> HIDE DEF H
<1>6. \A n \in Nat : n \in H
  BY <1>1, <1>2, Induction
<1>7. PICK g : Upto(g, Cardinality(S))
  BY <1>5, <1>6 DEF H
<1> HIDE DEF Small
<1> QED
  BY <1>4, <1>7 DEF IsSum

\* Two such functions whose weights agree agree on what both are defined for.
LEMMA SumsAgree ==
  ASSUME NEW S, IsFiniteSet(S), NEW T \in SUBSET S, NEW w, NEW v, NEW g, NEW h,
         IsSum(g, w, S), IsSum(h, v, T), \A x \in T : w[x] = v[x]
  PROVE  \A s \in SUBSET T : g[s] = h[s]
<1> DEFINE H == {n \in Nat : \A s \in SUBSET T : Cardinality(s) = n => g[s] = h[s]}
<1>0. \A s \in SUBSET T : IsFiniteSet(s) /\ Cardinality(s) \in Nat
  BY FS_Subset, FS_CardinalityType
<1>1. ASSUME NEW s \in SUBSET T PROVE g[s] = Add(w, g, s) /\ h[s] = Add(v, h, s)
  BY DEF IsSum
<1>2. g[{}] = 0 /\ h[{}] = 0
  BY <1>1 DEF Add
<1>3. 0 \in H
  BY <1>0, <1>2, FS_EmptySet
<1>4. ASSUME NEW n \in Nat, n \in H PROVE n + 1 \in H
  <2> SUFFICES ASSUME NEW s \in SUBSET T, Cardinality(s) = n + 1 PROVE g[s] = h[s]
    OBVIOUS
  <2>1. CASE s = {}
    BY <1>2, <2>1
  <2>2. CASE s # {}
    <3> DEFINE x == Pick(s)
               r == s \ {x}
    <3>1. x \in s
      BY <2>2, Picked
    <3>2. r \in SUBSET T /\ x \in T
      BY <3>1
    <3>3. Cardinality(r) = n
      <4>1. Cardinality(r) = Cardinality(s) - 1
        BY <1>0, <3>1, FS_RemoveElement
      <4> QED
        BY <4>1
    <3>4. g[r] = h[r]
      <4> HIDE DEF r
      <4> QED
        BY <1>4, <3>2, <3>3
    <3>5. g[s] = w[x] + g[r] /\ h[s] = v[x] + h[r]
      BY <1>1, <2>2, Zenon DEF Add
    <3>6. w[x] = v[x]
      BY <3>2
    <3> QED
      BY <3>4, <3>5, <3>6
  <2> QED
    BY <2>1, <2>2
<1> HIDE DEF H
<1>5. \A n \in Nat : n \in H
  BY <1>3, <1>4, Induction
<1> QED
  BY <1>0, <1>5 DEF H

\* MapThenSumSet is such a function at the whole set.
LEMMA SumIs ==
  ASSUME NEW S, IsFiniteSet(S), NEW w, NEW v, NEW g, IsSum(g, v, S), \A x \in S : w[x] = v[x]
  PROVE  SumOver(w, S) = g[S]
<1> DEFINE h == CHOOSE f : IsSum(f, w, S)
<1>1. IsSum(h, w, S)
  BY SumExists
<1>2. SumOver(w, S) = h[S]
  BY Zenon DEF SumOver, MapThenSumSet, MapThenFoldSet, IsSum, Add, Pick
<1> HIDE DEF h
<1>3. h[S] = g[S]
  BY <1>1, SumsAgree
<1> QED
  BY <1>2, <1>3

-----------------------------------------------------------------------------
(* What sums are. *)

LEMMA SumEmpty == \A w : SumOver(w, {}) = 0
<1> SUFFICES ASSUME NEW w PROVE SumOver(w, {}) = 0
  OBVIOUS
<1>1. PICK g : IsSum(g, w, {})
  BY FS_EmptySet, SumExists
<1>2. SumOver(w, {}) = g[{}]
  BY <1>1, FS_EmptySet, SumIs
<1>3. g[{}] = Add(w, g, {})
  BY <1>1 DEF IsSum
<1> QED
  BY <1>2, <1>3 DEF Add

LEMMA SumStep ==
  ASSUME NEW w, NEW S, IsFiniteSet(S), S # {}
  PROVE  Pick(S) \in S /\ SumOver(w, S) = w[Pick(S)] + SumOver(w, S \ {Pick(S)})
<1> DEFINE x == Pick(S)
           T == S \ {x}
<1>0. x \in S /\ T \in SUBSET S /\ IsFiniteSet(T)
  BY Picked, FS_Subset
<1>1. PICK g : IsSum(g, w, S)
  BY SumExists
<1>2. PICK h : IsSum(h, w, T)
  BY <1>0, SumExists
<1>3. SumOver(w, S) = g[S]
  BY <1>1, SumIs
<1>4. SumOver(w, T) = h[T]
  BY <1>0, <1>2, SumIs
<1>5. g[S] = Add(w, g, S)
  BY <1>1 DEF IsSum
<1>6. g[S] = w[x] + g[T]
  BY <1>5, Zenon DEF Add
<1> HIDE DEF T
<1>7. g[T] = h[T]
  <2>1. \A s \in SUBSET T : g[s] = h[s]
    BY <1>0, <1>1, <1>2, SumsAgree
  <2> QED
    BY <2>1
<1> QED
  BY <1>0, <1>3, <1>4, <1>6, <1>7 DEF T

\* Only the weights of the members count.
THEOREM SumSame ==
  ASSUME NEW S, IsFiniteSet(S), NEW w, NEW v, \A x \in S : w[x] = v[x]
  PROVE  SumOver(w, S) = SumOver(v, S)
<1>1. PICK g : IsSum(g, v, S)
  BY SumExists
<1>2. SumOver(w, S) = g[S] /\ SumOver(v, S) = g[S]
  BY <1>1, SumIs
<1> QED
  BY <1>2

\* Sums of numbers are numbers.
THEOREM SumType ==
  ASSUME NEW S, IsFiniteSet(S), NEW w, \A x \in S : w[x] \in Int
  PROVE  SumOver(w, S) \in Int
<1> DEFINE H == {n \in Nat : \A s \in SUBSET S : Cardinality(s) = n => SumOver(w, s) \in Int}
<1>0. \A s \in SUBSET S : IsFiniteSet(s) /\ Cardinality(s) \in Nat
  BY FS_Subset, FS_CardinalityType
<1>1. 0 \in H
  <2>1. \A s \in SUBSET S : Cardinality(s) = 0 => s = {}
    BY <1>0, FS_EmptySet
  <2> QED
    BY <2>1, SumEmpty
<1>2. ASSUME NEW n \in Nat, n \in H PROVE n + 1 \in H
  <2> SUFFICES ASSUME NEW s \in SUBSET S, Cardinality(s) = n + 1 PROVE SumOver(w, s) \in Int
    OBVIOUS
  <2>0. n + 1 # 0
    OBVIOUS
  <2>1. s # {}
    BY <2>0, FS_EmptySet, Zenon
  <2> DEFINE x == Pick(s)
             r == s \ {x}
  <2>2. x \in s /\ SumOver(w, s) = w[x] + SumOver(w, r)
    BY <1>0, <2>1, SumStep
  <2>3. r \in SUBSET S /\ Cardinality(r) = Cardinality(s) - 1
    BY <1>0, <2>2, FS_RemoveElement
  <2>4. Cardinality(r) = n
    BY <2>3
  <2> HIDE DEF x, r
  <2>5. SumOver(w, r) \in Int
    BY <1>2, <2>3, <2>4
  <2>6. w[x] \in Int
    BY <2>2
  <2> QED
    BY <2>2, <2>5, <2>6
<1> HIDE DEF H
<1>3. \A n \in Nat : n \in H
  BY <1>1, <1>2, Induction
<1> QED
  BY <1>0, <1>3 DEF H

\* Any member may be taken out first.
LEMMA SumTakeOut ==
  ASSUME NEW S, IsFiniteSet(S), NEW w, \A x \in S : w[x] \in Int
  PROVE  \A x \in S : SumOver(w, S) = w[x] + SumOver(w, S \ {x})
<1> DEFINE Any(s) == \A x \in s : SumOver(w, s) = w[x] + SumOver(w, s \ {x})
           H == {n \in Nat : \A s \in SUBSET S : Cardinality(s) = n => Any(s)}
<1>0. \A s \in SUBSET S : IsFiniteSet(s) /\ Cardinality(s) \in Nat
  BY FS_Subset, FS_CardinalityType
<1>1. 0 \in H
  <2>1. \A s \in SUBSET S : Cardinality(s) = 0 => s = {}
    BY <1>0, FS_EmptySet
  <2> QED
    BY <2>1
<1>2. ASSUME NEW n \in Nat, n \in H PROVE n + 1 \in H
  <2> SUFFICES ASSUME NEW s \in SUBSET S, Cardinality(s) = n + 1, NEW x \in s
               PROVE  SumOver(w, s) = w[x] + SumOver(w, s \ {x})
    OBVIOUS
  <2> DEFINE y == Pick(s)
  <2>1. y \in s /\ SumOver(w, s) = w[y] + SumOver(w, s \ {y})
    <3>1. s # {} /\ IsFiniteSet(s)
      BY <1>0
    <3> QED
      BY <3>1, SumStep
  <2>2. CASE x = y
    BY <2>1, <2>2
  <2>3. CASE x # y
    <3> DEFINE a == s \ {y}
               b == s \ {x}
               c == (s \ {y}) \ {x}
    <3>1. a \in SUBSET S /\ x \in a /\ Cardinality(a) = n
      <4>1. Cardinality(a) = Cardinality(s) - 1
        BY <1>0, <2>1, FS_RemoveElement
      <4> QED
        BY <2>3, <4>1
    <3>2. b \in SUBSET S /\ y \in b /\ Cardinality(b) = n
      <4>1. Cardinality(b) = Cardinality(s) - 1
        BY <1>0, FS_RemoveElement
      <4> QED
        BY <2>1, <2>3, <4>1
    <3>3. c = a \ {x} /\ c = b \ {y} /\ c \in SUBSET S
      OBVIOUS
    <3> HIDE DEF a, b, c, y
    <3>4. SumOver(w, a) = w[x] + SumOver(w, c)
      BY <1>2, <3>1, <3>3
    <3>5. SumOver(w, b) = w[y] + SumOver(w, c)
      BY <1>2, <3>2, <3>3
    <3>6. IsFiniteSet(c) /\ \A z \in c : w[z] \in Int
      BY <1>0, <3>3
    <3>7. SumOver(w, c) \in Int /\ w[x] \in Int /\ w[y] \in Int
      BY <2>1, <3>6, SumType
    <3>8. SumOver(w, s) = w[y] + SumOver(w, a)
      BY <2>1 DEF a
    <3> QED
      BY <3>4, <3>5, <3>7, <3>8 DEF b
  <2> QED
    BY <2>2, <2>3
<1> HIDE DEF H
<1>3. \A n \in Nat : n \in H
  BY <1>1, <1>2, Induction
<1> QED
  BY <1>0, <1>3 DEF H

\* A new member adds its weight.
THEOREM SumAdd ==
  ASSUME NEW S, IsFiniteSet(S), NEW x, x \notin S, NEW w, w[x] \in Int, \A y \in S : w[y] \in Int
  PROVE  SumOver(w, S \cup {x}) = SumOver(w, S) + w[x]
<1> DEFINE T == S \cup {x}
<1>1. IsFiniteSet(T) /\ x \in T /\ T \ {x} = S /\ \A y \in T : w[y] \in Int
  BY FS_AddElement
<1> HIDE DEF T
<1>2. SumOver(w, T) = w[x] + SumOver(w, S)
  BY <1>1, SumTakeOut
<1>3. SumOver(w, S) \in Int
  BY SumType
<1> QED
  BY <1>2, <1>3 DEF T

\* Disjoint sets add up.
THEOREM SumDisjoint ==
  ASSUME NEW S, IsFiniteSet(S), NEW T, IsFiniteSet(T), S \cap T = {},
         NEW w, \A y \in S \cup T : w[y] \in Int
  PROVE  SumOver(w, S \cup T) = SumOver(w, S) + SumOver(w, T)
<1> DEFINE G == {U \in SUBSET T : SumOver(w, S \cup U) = SumOver(w, S) + SumOver(w, U)}
<1>0. SumOver(w, S) \in Int
  BY SumType
<1>1. {} \in G
  BY <1>0, SumEmpty
<1>2. ASSUME NEW U \in SUBSET T, NEW x \in T, U \in G, x \notin U PROVE U \cup {x} \in G
  <2> DEFINE V == S \cup U
             both == V \cup {x}
  <2>0. IsFiniteSet(U)
    BY FS_Subset
  <2>1. /\ IsFiniteSet(U) /\ IsFiniteSet(V) /\ x \notin V /\ w[x] \in Int
        /\ (\A y \in U : w[y] \in Int) /\ (\A y \in V : w[y] \in Int)
    <3>1. IsFiniteSet(V)
      BY <2>0, FS_Union
    <3> QED
      BY <1>2, <2>0, <3>1
  <2>2. SumOver(w, V) = SumOver(w, S) + SumOver(w, U)
    BY <1>2
  <2>3. both = S \cup (U \cup {x})
    OBVIOUS
  <2> HIDE DEF V
  <2>4. SumOver(w, both) = SumOver(w, V) + w[x]
    BY <2>1, SumAdd
  <2>5. SumOver(w, U \cup {x}) = SumOver(w, U) + w[x]
    BY <1>2, <2>1, SumAdd
  <2>6. SumOver(w, U) \in Int
    BY <2>1, SumType
  <2> HIDE DEF both
  <2>7. SumOver(w, both) = SumOver(w, S) + SumOver(w, U \cup {x})
    BY <1>0, <2>1, <2>2, <2>4, <2>5, <2>6
  <2> QED
    BY <2>3, <2>7
<1> HIDE DEF G
<1>3. T \in G
  BY <1>1, <1>2, SetInduction
<1> QED
  BY <1>3 DEF G

\* Larger weights, larger sum.
THEOREM SumOrder ==
  ASSUME NEW S, IsFiniteSet(S), NEW v, NEW w,
         \A x \in S : v[x] \in Int /\ w[x] \in Int /\ v[x] <= w[x]
  PROVE  SumOver(v, S) <= SumOver(w, S)
<1> DEFINE G == {T \in SUBSET S : SumOver(v, T) <= SumOver(w, T)}
<1>1. {} \in G
  BY SumEmpty
<1>2. ASSUME NEW T \in SUBSET S, NEW x \in S, T \in G, x \notin T PROVE T \cup {x} \in G
  <2>1. IsFiniteSet(T) /\ (\A y \in T : v[y] \in Int) /\ (\A y \in T : w[y] \in Int)
    BY FS_Subset
  <2>2. v[x] \in Int /\ w[x] \in Int /\ v[x] <= w[x]
    OBVIOUS
  <2>3. SumOver(v, T \cup {x}) = SumOver(v, T) + v[x]
    BY <1>2, <2>1, <2>2, SumAdd
  <2>4. SumOver(w, T \cup {x}) = SumOver(w, T) + w[x]
    BY <1>2, <2>1, <2>2, SumAdd
  <2>5. SumOver(v, T) \in Int /\ SumOver(w, T) \in Int
    BY <2>1, SumType
  <2>6. SumOver(v, T) <= SumOver(w, T)
    BY <1>2
  <2> QED
    BY <2>2, <2>3, <2>4, <2>5, <2>6
<1> HIDE DEF G
<1>3. S \in G
  BY <1>1, <1>2, SetInduction
<1> QED
  BY <1>3 DEF G

\* A sum of naturals is a natural.
THEOREM SumNat ==
  ASSUME NEW S, IsFiniteSet(S), NEW w, \A x \in S : w[x] \in Nat
  PROVE  SumOver(w, S) \in Nat
<1> DEFINE G == {T \in SUBSET S : SumOver(w, T) \in Nat}
<1>1. {} \in G
  BY SumEmpty
<1>2. ASSUME NEW T \in SUBSET S, NEW x \in S, T \in G, x \notin T PROVE T \cup {x} \in G
  <2>1. IsFiniteSet(T) /\ (\A y \in T : w[y] \in Int) /\ w[x] \in Nat
    BY FS_Subset
  <2>2. SumOver(w, T \cup {x}) = SumOver(w, T) + w[x]
    BY <1>2, <2>1, SumAdd
  <2>3. SumOver(w, T) \in Nat
    BY <1>2
  <2> QED
    BY <2>1, <2>2, <2>3
<1> HIDE DEF G
<1>3. S \in G
  BY <1>1, <1>2, SetInduction
<1> QED
  BY <1>3 DEF G

\* Fewer members, smaller sum.
THEOREM SumSubset ==
  ASSUME NEW S, IsFiniteSet(S), NEW T \in SUBSET S, NEW w, \A x \in S : w[x] \in Nat
  PROVE  SumOver(w, T) <= SumOver(w, S)
<1> DEFINE U == S \ T
<1>1. IsFiniteSet(T) /\ IsFiniteSet(U) /\ T \cap U = {} /\ T \cup U = S
  BY FS_Subset
<1> HIDE DEF U
<1>2. \A y \in T \cup U : w[y] \in Int
  BY <1>1
<1>3. SumOver(w, T \cup U) = SumOver(w, T) + SumOver(w, U)
  BY <1>1, <1>2, SumDisjoint
<1>4. SumOver(w, T) \in Nat /\ SumOver(w, U) \in Nat
  BY <1>1, SumNat
<1>5. SumOver(w, S) = SumOver(w, T) + SumOver(w, U)
  BY <1>1, <1>3, Zenon
<1> QED
  BY <1>4, <1>5

\* One weight changes.
THEOREM SumChange ==
  ASSUME NEW S, IsFiniteSet(S), NEW x \in S, NEW v, NEW w,
         \A y \in S : v[y] \in Int /\ w[y] \in Int,
         \A y \in S \ {x} : v[y] = w[y]
  PROVE  SumOver(v, S) = SumOver(w, S) + v[x] - w[x]
<1> DEFINE T == S \ {x}
<1>1. IsFiniteSet(T) /\ \A y \in T : v[y] = w[y] /\ w[y] \in Int
  BY FS_Subset
<1>2. SumOver(v, S) = v[x] + SumOver(v, T)
  BY SumTakeOut
<1>3. SumOver(w, S) = w[x] + SumOver(w, T)
  BY SumTakeOut
<1> HIDE DEF T
<1>4. SumOver(v, T) = SumOver(w, T) /\ SumOver(w, T) \in Int
  BY <1>1, SumSame, SumType
<1>5. v[x] \in Int /\ w[x] \in Int
  OBVIOUS
<1> QED
  BY <1>2, <1>3, <1>4, <1>5

\* Weights that are all zero.
THEOREM SumZero ==
  ASSUME NEW S, IsFiniteSet(S), NEW w, \A x \in S : w[x] = 0
  PROVE  SumOver(w, S) = 0
<1> DEFINE G == {T \in SUBSET S : SumOver(w, T) = 0}
<1>1. {} \in G
  BY SumEmpty
<1>2. ASSUME NEW T \in SUBSET S, NEW x \in S, T \in G, x \notin T PROVE T \cup {x} \in G
  <2>1. IsFiniteSet(T) /\ (\A y \in T : w[y] \in Int) /\ w[x] = 0 /\ w[x] \in Int
    BY FS_Subset
  <2>2. SumOver(w, T \cup {x}) = SumOver(w, T) + w[x]
    BY <1>2, <2>1, SumAdd
  <2>3. SumOver(w, T) = 0
    BY <1>2
  <2> QED
    BY <2>1, <2>2, <2>3
<1> HIDE DEF G
<1>3. S \in G
  BY <1>1, <1>2, SetInduction
<1> QED
  BY <1>3 DEF G

\* Weights of one at most, a sum of at most the number of members.
THEOREM SumCounts ==
  ASSUME NEW S, IsFiniteSet(S), NEW w, \A x \in S : w[x] \in Int /\ w[x] <= 1
  PROVE  SumOver(w, S) <= Cardinality(S)
<1> DEFINE G == {T \in SUBSET S : SumOver(w, T) <= Cardinality(T)}
<1>1. {} \in G
  <2>1. SumOver(w, {}) <= Cardinality({})
    BY SumEmpty, FS_EmptySet
  <2> QED
    BY <2>1
<1>2. ASSUME NEW T \in SUBSET S, NEW x \in S, T \in G, x \notin T PROVE T \cup {x} \in G
  <2>1. IsFiniteSet(T) /\ (\A y \in T : w[y] \in Int) /\ w[x] \in Int /\ w[x] <= 1
    BY FS_Subset
  <2>2. SumOver(w, T \cup {x}) = SumOver(w, T) + w[x]
    BY <1>2, <2>1, SumAdd
  <2>3. SumOver(w, T) <= Cardinality(T) /\ SumOver(w, T) \in Int
    BY <1>2, <2>1, SumType
  <2>4. Cardinality(T \cup {x}) = Cardinality(T) + 1 /\ Cardinality(T) \in Nat
    BY <1>2, <2>1, FS_AddElement, FS_CardinalityType
  <2> QED
    BY <2>1, <2>2, <2>3, <2>4
<1> HIDE DEF G
<1>3. S \in G
  BY <1>1, <1>2, SetInduction
<1> QED
  BY <1>3 DEF G

\* Weights in proportion, sums in proportion.
THEOREM SumScaled ==
  ASSUME NEW S, IsFiniteSet(S), NEW v, NEW w, NEW k \in Int, NEW m \in Int,
         \A x \in S : v[x] \in Int /\ w[x] \in Int /\ k * v[x] <= m * w[x]
  PROVE  k * SumOver(v, S) <= m * SumOver(w, S)
<1> DEFINE G == {T \in SUBSET S : k * SumOver(v, T) <= m * SumOver(w, T)}
<1>1. {} \in G
  BY SumEmpty
<1>2. ASSUME NEW T \in SUBSET S, NEW x \in S, T \in G, x \notin T PROVE T \cup {x} \in G
  <2>1. IsFiniteSet(T) /\ (\A y \in T : v[y] \in Int) /\ (\A y \in T : w[y] \in Int)
    BY FS_Subset
  <2>2. v[x] \in Int /\ w[x] \in Int /\ k * v[x] <= m * w[x]
    OBVIOUS
  <2>3. SumOver(v, T \cup {x}) = SumOver(v, T) + v[x]
    BY <1>2, <2>1, <2>2, SumAdd
  <2>4. SumOver(w, T \cup {x}) = SumOver(w, T) + w[x]
    BY <1>2, <2>1, <2>2, SumAdd
  <2>5. SumOver(v, T) \in Int /\ SumOver(w, T) \in Int
    BY <2>1, SumType
  <2>6. k * SumOver(v, T) <= m * SumOver(w, T)
    BY <1>2
  <2>7. \A i, a, b \in Int : i * (a + b) = i * a + i * b /\ i * a \in Int /\ i * b \in Int
    OBVIOUS
  <2>8. /\ k * SumOver(v, T \cup {x}) = k * SumOver(v, T) + k * v[x]
        /\ m * SumOver(w, T \cup {x}) = m * SumOver(w, T) + m * w[x]
        /\ k * SumOver(v, T) \in Int /\ k * v[x] \in Int
        /\ m * SumOver(w, T) \in Int /\ m * w[x] \in Int
    BY <2>2, <2>3, <2>4, <2>5, <2>7
  <2> QED
    BY <2>2, <2>6, <2>8
<1> HIDE DEF G
<1>3. S \in G
  BY <1>1, <1>2, SetInduction
<1> QED
  BY <1>3 DEF G

\* The same when each member is off by no more than d.
THEOREM SumRounded ==
  ASSUME NEW S, IsFiniteSet(S), NEW v, NEW w, NEW k \in Int, NEW m \in Int, NEW d \in Int,
         \A x \in S : v[x] \in Int /\ w[x] \in Int /\ k * v[x] <= m * w[x] + d
  PROVE  k * SumOver(v, S) <= m * SumOver(w, S) + d * Cardinality(S)
<1> DEFINE G == {T \in SUBSET S : k * SumOver(v, T) <= m * SumOver(w, T) + d * Cardinality(T)}
<1>1. {} \in G
  BY SumEmpty, FS_EmptySet
<1>2. ASSUME NEW T \in SUBSET S, NEW x \in S, T \in G, x \notin T PROVE T \cup {x} \in G
  <2>1. IsFiniteSet(T) /\ (\A y \in T : v[y] \in Int) /\ (\A y \in T : w[y] \in Int)
    BY FS_Subset
  <2>2. v[x] \in Int /\ w[x] \in Int /\ k * v[x] <= m * w[x] + d
    OBVIOUS
  <2>3. SumOver(v, T \cup {x}) = SumOver(v, T) + v[x]
    BY <1>2, <2>1, <2>2, SumAdd
  <2>4. SumOver(w, T \cup {x}) = SumOver(w, T) + w[x]
    BY <1>2, <2>1, <2>2, SumAdd
  <2>5. SumOver(v, T) \in Int /\ SumOver(w, T) \in Int /\ Cardinality(T) \in Int
    BY <2>1, SumType, FS_CardinalityType
  <2>6. k * SumOver(v, T) <= m * SumOver(w, T) + d * Cardinality(T)
    BY <1>2
  <2>7. \A i, a, b \in Int : i * (a + b) = i * a + i * b /\ i * a \in Int /\ i * b \in Int
    OBVIOUS
  <2>8. Cardinality(T \cup {x}) = Cardinality(T) + 1
    BY <1>2, <2>1, FS_AddElement
  <2>9. /\ k * SumOver(v, T \cup {x}) = k * SumOver(v, T) + k * v[x]
        /\ m * SumOver(w, T \cup {x}) = m * SumOver(w, T) + m * w[x]
        /\ d * Cardinality(T \cup {x}) = d * Cardinality(T) + d
        /\ k * SumOver(v, T) \in Int /\ k * v[x] \in Int
        /\ m * SumOver(w, T) \in Int /\ m * w[x] \in Int /\ d * Cardinality(T) \in Int
    BY <2>2, <2>3, <2>4, <2>5, <2>7, <2>8
  <2> QED
    BY <2>2, <2>6, <2>9
<1> HIDE DEF G
<1>3. S \in G
  BY <1>1, <1>2, SetInduction
<1> QED
  BY <1>3 DEF G

\* Members that are named one to one.
THEOREM SumNamed ==
  ASSUME NEW S, IsFiniteSet(S), NEW f, NEW v, NEW w,
         \A x, y \in S : f[x] = f[y] => x = y,
         \A x \in S : w[f[x]] \in Int /\ v[x] = w[f[x]]
  PROVE  IsFiniteSet({f[x] : x \in S}) /\ SumOver(w, {f[x] : x \in S}) = SumOver(v, S)
<1> DEFINE Im(T) == {f[x] : x \in T}
           G == {T \in SUBSET S : IsFiniteSet(Im(T)) /\ SumOver(w, Im(T)) = SumOver(v, T)}
<1>1. {} \in G
  <2>1. Im({}) = {}
    OBVIOUS
  <2> QED
    BY <2>1, SumEmpty, FS_EmptySet
<1>2. ASSUME NEW T \in SUBSET S, NEW x \in S, T \in G, x \notin T PROVE T \cup {x} \in G
  <2>0. IsFiniteSet(T)
    BY FS_Subset, Zenon
  <2>1. IsFiniteSet(T) /\ (\A y \in T : v[y] \in Int) /\ v[x] \in Int
    BY <2>0
  <2>2. SumOver(v, T \cup {x}) = SumOver(v, T) + v[x]
    BY <1>2, <2>1, SumAdd
  <2>3. IsFiniteSet(Im(T)) /\ SumOver(w, Im(T)) = SumOver(v, T)
    BY <1>2, Zenon
  <2>4. Im(T \cup {x}) = Im(T) \cup {f[x]}
    OBVIOUS
  <2> HIDE DEF G
  <2>5. /\ f[x] \notin Im(T) /\ w[f[x]] \in Int /\ w[f[x]] = v[x]
        /\ \A y \in Im(T) : w[y] \in Int
    BY <1>2
  <2>6. PICK A, z : A = Im(T) /\ z = f[x] /\ A \cup {z} = Im(T \cup {x})
    BY <2>4, Zenon
  <2> HIDE DEF Im
  <2>7. IsFiniteSet(A) /\ z \notin A /\ w[z] \in Int /\ \A y \in A : w[y] \in Int
    BY <2>3, <2>5, <2>6, Zenon
  <2>8. SumOver(w, A \cup {z}) = SumOver(w, A) + w[z]
    BY <2>7, SumAdd, Zenon
  <2>9. IsFiniteSet(A \cup {z})
    BY <2>7, FS_AddElement, Zenon
  <2>10. SumOver(w, A) = SumOver(v, T) /\ w[z] = v[x]
    BY <2>3, <2>5, <2>6, Zenon
  <2>11. SumOver(w, Im(T \cup {x})) = SumOver(v, T \cup {x}) /\ IsFiniteSet(Im(T \cup {x}))
    BY <2>2, <2>6, <2>8, <2>9, <2>10, Zenon
  <2> QED
    BY <2>11 DEF G
<1> HIDE DEF G
<1>3. S \in G
  BY <1>1, <1>2, SetInduction
<1> QED
  BY <1>3 DEF G

============================================================================
