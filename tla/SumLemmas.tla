------------------------------- MODULE SumLemmas -------------------------------
(***************************************************************************)
(* Facts about SumFunction, the sum of the values of a function with a     *)
(* finite domain, that the totals of the pool and of the payouts rest on:  *)
(* what one more or one changed value, larger values, a common factor and  *)
(* a part of the domain do to a sum.                                       *)
(*                                                                         *)
(* A sum is a fold over a set, one chosen element after another, so each   *)
(* fact is shown by induction on the set: a smallest set for which it      *)
(* fails cannot be.                                                        *)
(***************************************************************************)
EXTENDS Integers, FiniteSets, Functions, FiniteSetTheorems, WellFoundedInduction, TLAPS

-----------------------------------------------------------------------------
(* The fold.                                                               *)

\* Of any sets of elements of S, one has none of the others below it.
LEMMA SmallestSet ==
  ASSUME NEW S, IsFiniteSet(S), NEW B \in SUBSET (SUBSET S), B # {}
  PROVE  \E R \in B : \A Q \in SUBSET R : Q # R => Q \notin B
<1>1. IsWellFoundedOn(StrictSubsetOrdering(S), SUBSET S)
  BY FS_StrictSubsetOrderingWellFounded, FS_FiniteSubsetsOfFinite
<1>2. PICK R \in B : \A Q \in B : ~(<<Q, R>> \in StrictSubsetOrdering(S))
  BY <1>1, WFMin
<1> QED  BY <1>2 DEF StrictSubsetOrdering

Chosen(s) == CHOOSE x \in s : TRUE

LEMMA ChosenIsIn == \A s : s # {} => Chosen(s) \in s
BY DEF Chosen

\* g is the function that a sum over S of the values of f iterates.
Iterates(f, S, g) ==
  g = [s \in SUBSET S |-> IF s = {} THEN 0 ELSE f[Chosen(s)] + g[s \ {Chosen(s)}]]

LEMMA SumIterates ==
  ASSUME NEW f, NEW S
  PROVE  SumFunctionOnSet(f, S) = (CHOOSE g : Iterates(f, S, g))[S]
BY DEF SumFunctionOnSet, FoldFunctionOnSet, MapThenFoldSet, Iterates, Chosen

LEMMA IterateStep ==
  ASSUME NEW f, NEW S, NEW g, Iterates(f, S, g), NEW s \in SUBSET S
  PROVE  g[s] = IF s = {} THEN 0 ELSE f[Chosen(s)] + g[s \ {Chosen(s)}]
BY DEF Iterates

\* However large the sets they were made for, iterates agree.
LEMMA IteratesAgree ==
  ASSUME NEW f, NEW S, IsFiniteSet(S), NEW A, NEW g, Iterates(f, A, g),
         NEW D, NEW h, Iterates(f, D, h), S \subseteq A, S \subseteq D
  PROVE  g[S] = h[S]
<1> DEFINE B == {s \in SUBSET S : g[s] # h[s]}
<1>1. ASSUME B # {} PROVE FALSE
  <2>1. PICK R \in B : \A Q \in SUBSET R : Q # R => Q \notin B
    <3>1. B \in SUBSET (SUBSET S)  OBVIOUS
    <3> HIDE DEF B
    <3> QED  BY <1>1, <3>1, SmallestSet
  <2>2. R \subseteq S /\ g[R] # h[R]  OBVIOUS
  <2>0. R \in SUBSET A /\ R \in SUBSET D  BY <2>2
  <2>8. /\ g[R] = IF R = {} THEN 0 ELSE f[Chosen(R)] + g[R \ {Chosen(R)}]
        /\ h[R] = IF R = {} THEN 0 ELSE f[Chosen(R)] + h[R \ {Chosen(R)}]
    <3> HIDE DEF B
    <3> QED  BY <2>0, IterateStep
  <2>3. R # {}  BY <2>2, <2>8
  <2> DEFINE c == Chosen(R)
  <2>4. c \in R  BY <2>3, ChosenIsIn
  <2>5. g[R \ {c}] = h[R \ {c}]  BY <2>1, <2>2, <2>4
  <2>6. g[R] = f[c] + g[R \ {c}]  BY <2>3, <2>8
  <2>7. h[R] = f[c] + h[R \ {c}]  BY <2>3, <2>8
  <2> QED  BY <2>2, <2>5, <2>6, <2>7
<1> QED  BY <1>1

LEMMA IterateExists ==
  ASSUME NEW f, NEW S, IsFiniteSet(S)
  PROVE  \E g : Iterates(f, S, g)
<1> DEFINE B == {s \in SUBSET S : ~\E g : Iterates(f, s, g)}
<1>1. ASSUME B # {} PROVE FALSE
  <2>1. PICK R \in B : \A Q \in SUBSET R : Q # R => Q \notin B
    <3>1. B \in SUBSET (SUBSET S)  OBVIOUS
    <3> HIDE DEF B
    <3> QED  BY <1>1, <3>1, SmallestSet
  <2>2. R \subseteq S  OBVIOUS
  <2> DEFINE G(Q) == CHOOSE g : Iterates(f, Q, g)
             v(s) == IF s = {} THEN 0 ELSE f[Chosen(s)] + G(s \ {Chosen(s)})[s \ {Chosen(s)}]
             k == [s \in SUBSET R |-> v(s)]
  <2>3. ASSUME NEW Q \in SUBSET R, Q # R PROVE Iterates(f, Q, G(Q))
    BY <2>1, <2>2, <2>3
  <2>4. ASSUME NEW Q \in SUBSET R, Q # R PROVE G(Q)[Q] = v(Q)
    <3>1. G(Q)[Q] = IF Q = {} THEN 0 ELSE f[Chosen(Q)] + G(Q)[Q \ {Chosen(Q)}]
      BY <2>3, <2>4, IterateStep
    <3>2. ASSUME Q # {} PROVE G(Q)[Q \ {Chosen(Q)}] = G(Q \ {Chosen(Q)})[Q \ {Chosen(Q)}]
      <4> DEFINE P == Q \ {Chosen(Q)}
      <4>1. P \in SUBSET R /\ P # R /\ P \subseteq Q  BY <2>4, <3>2, ChosenIsIn
      <4>2. IsFiniteSet(P)  BY <2>2, <4>1, FS_Subset
      <4>3. Iterates(f, P, G(P)) /\ Iterates(f, Q, G(Q))  BY <2>3, <2>4, <4>1
      <4> HIDE DEF P, G
      <4>4. G(Q)[P] = G(P)[P]  BY <4>1, <4>2, <4>3, IteratesAgree
      <4> QED  BY <4>4 DEF P
    <3> QED  BY <3>1, <3>2
  <2>5. Iterates(f, R, k)
    <3>1. ASSUME NEW s \in SUBSET R, s # {}
          PROVE  k[s \ {Chosen(s)}] = G(s \ {Chosen(s)})[s \ {Chosen(s)}]
      <4> DEFINE P == s \ {Chosen(s)}
      <4>1. P \in SUBSET R /\ P # R  BY <3>1, ChosenIsIn
      <4>2. G(P)[P] = v(P)  BY <2>4, <4>1
      <4>3. k[P] = v(P)  BY <4>1
      <4> HIDE DEF P, G, v, k
      <4>4. k[P] = G(P)[P]  BY <4>2, <4>3
      <4> QED  BY <4>4 DEF P
    <3>2. \A s \in SUBSET R :
            v(s) = IF s = {} THEN 0 ELSE f[Chosen(s)] + k[s \ {Chosen(s)}]
      <4> HIDE DEF G, k
      <4> QED  BY <3>1
    <3>3. k = [s \in SUBSET R |-> IF s = {} THEN 0 ELSE f[Chosen(s)] + k[s \ {Chosen(s)}]]
      <4> HIDE DEF v
      <4>1. k = [s \in SUBSET R |-> v(s)]  OBVIOUS
      <4> HIDE DEF k
      <4> QED  BY <4>1, <3>2
    <3> HIDE DEF k
    <3> QED  BY <3>3 DEF Iterates
  <2> HIDE DEF k
  <2>6. \E g : Iterates(f, R, g)  BY <2>5
  <2>7. ~\E g : Iterates(f, R, g)  BY <2>1
  <2> QED  BY <2>6, <2>7
<1> QED  BY <1>1

\* The sum over a set is that over the set without its chosen element, and that
\* element's value.
LEMMA SumOnSetStep ==
  ASSUME NEW f, NEW S, IsFiniteSet(S)
  PROVE  SumFunctionOnSet(f, S) =
           IF S = {} THEN 0 ELSE f[Chosen(S)] + SumFunctionOnSet(f, S \ {Chosen(S)})
<1> DEFINE G(Q) == CHOOSE g : Iterates(f, Q, g)
           P == S \ {Chosen(S)}
<1>1. IsFiniteSet(P) /\ P \subseteq S  BY FS_RemoveElement
<1>2. Iterates(f, S, G(S)) /\ Iterates(f, P, G(P))
  <2>1. \E g : Iterates(f, S, g)  BY IterateExists
  <2>2. \E g : Iterates(f, P, g)
    <3> HIDE DEF P
    <3> QED  BY <1>1, IterateExists
  <2> QED  BY <2>1, <2>2
<1>3. SumFunctionOnSet(f, S) = G(S)[S] /\ SumFunctionOnSet(f, P) = G(P)[P]  BY SumIterates
<1>4. G(S)[S] = IF S = {} THEN 0 ELSE f[Chosen(S)] + G(S)[P]
  <2>1. S \in SUBSET S  OBVIOUS
  <2> HIDE DEF G
  <2> QED  BY <1>2, <2>1, IterateStep
<1>5. G(S)[P] = G(P)[P]
  <2> HIDE DEF P, G
  <2> QED  BY <1>1, <1>2, IteratesAgree
<1> QED
  <2> HIDE DEF G
  <2> QED  BY <1>3, <1>4, <1>5

-----------------------------------------------------------------------------
(* Sums on a set.                                                          *)

\* Only the values on the set matter.
LEMMA SumOnSetSame ==
  ASSUME NEW S, IsFiniteSet(S), NEW f, NEW g, \A x \in S : f[x] = g[x]
  PROVE  SumFunctionOnSet(f, S) = SumFunctionOnSet(g, S)
<1> DEFINE B == {s \in SUBSET S : SumFunctionOnSet(f, s) # SumFunctionOnSet(g, s)}
<1>1. ASSUME B # {} PROVE FALSE
  <2>1. PICK R \in B : \A Q \in SUBSET R : Q # R => Q \notin B
    <3>1. B \in SUBSET (SUBSET S)  OBVIOUS
    <3> HIDE DEF B
    <3> QED  BY <1>1, <3>1, SmallestSet
  <2>2. R \subseteq S /\ SumFunctionOnSet(f, R) # SumFunctionOnSet(g, R)  OBVIOUS
  <2>3. IsFiniteSet(R)  BY <2>2, FS_Subset
  <2>4. /\ SumFunctionOnSet(f, R) =
             IF R = {} THEN 0 ELSE f[Chosen(R)] + SumFunctionOnSet(f, R \ {Chosen(R)})
        /\ SumFunctionOnSet(g, R) =
             IF R = {} THEN 0 ELSE g[Chosen(R)] + SumFunctionOnSet(g, R \ {Chosen(R)})
    <3> HIDE DEF B
    <3> QED  BY <2>3, SumOnSetStep
  <2>5. R # {}  BY <2>2, <2>4
  <2>6. Chosen(R) \in R  BY <2>5, ChosenIsIn
  <2>7. SumFunctionOnSet(f, R \ {Chosen(R)}) = SumFunctionOnSet(g, R \ {Chosen(R)})
    BY <2>1, <2>2, <2>6
  <2>8. f[Chosen(R)] = g[Chosen(R)]  BY <2>2, <2>6
  <2> QED  BY <2>2, <2>4, <2>7, <2>8
<1> QED  BY <1>1

LEMMA SumOnSetInt ==
  ASSUME NEW S, IsFiniteSet(S), NEW f, \A x \in S : f[x] \in Int
  PROVE  SumFunctionOnSet(f, S) \in Int
<1> DEFINE B == {s \in SUBSET S : SumFunctionOnSet(f, s) \notin Int}
<1>1. ASSUME B # {} PROVE FALSE
  <2>1. PICK R \in B : \A Q \in SUBSET R : Q # R => Q \notin B
    <3>1. B \in SUBSET (SUBSET S)  OBVIOUS
    <3> HIDE DEF B
    <3> QED  BY <1>1, <3>1, SmallestSet
  <2>2. R \subseteq S /\ SumFunctionOnSet(f, R) \notin Int  OBVIOUS
  <2>3. IsFiniteSet(R)  BY <2>2, FS_Subset
  <2>4. SumFunctionOnSet(f, R) =
          IF R = {} THEN 0 ELSE f[Chosen(R)] + SumFunctionOnSet(f, R \ {Chosen(R)})
    <3> HIDE DEF B
    <3> QED  BY <2>3, SumOnSetStep
  <2>5. R # {}  BY <2>2, <2>4
  <2>6. Chosen(R) \in R  BY <2>5, ChosenIsIn
  <2>7. SumFunctionOnSet(f, R \ {Chosen(R)}) \in Int  BY <2>1, <2>2, <2>6
  <2>8. f[Chosen(R)] \in Int  BY <2>2, <2>6
  <2> QED  BY <2>2, <2>4, <2>5, <2>7, <2>8
<1> QED  BY <1>1

\* Whichever element is taken first, the sum is the same.
LEMMA SumOnSetPick ==
  ASSUME NEW S, IsFiniteSet(S), NEW f, \A y \in S : f[y] \in Int, NEW x \in S
  PROVE  SumFunctionOnSet(f, S) = f[x] + SumFunctionOnSet(f, S \ {x})
<1> DEFINE B == {s \in SUBSET S :
                   \E y \in s : SumFunctionOnSet(f, s) # f[y] + SumFunctionOnSet(f, s \ {y})}
<1>1. ASSUME B # {} PROVE FALSE
  <2>1. PICK R \in B : \A Q \in SUBSET R : Q # R => Q \notin B
    <3>1. B \in SUBSET (SUBSET S)  OBVIOUS
    <3> HIDE DEF B
    <3> QED  BY <1>1, <3>1, SmallestSet
  <2>2. PICK z \in R : SumFunctionOnSet(f, R) # f[z] + SumFunctionOnSet(f, R \ {z})
    OBVIOUS
  <2> DEFINE c == Chosen(R)
             m == SumFunctionOnSet(f, (R \ {c}) \ {z})
  <2>3. R \subseteq S /\ c \in R  BY <2>2, ChosenIsIn
  <2>4. IsFiniteSet(R) /\ IsFiniteSet((R \ {c}) \ {z})
    BY <2>3, FS_Subset, FS_RemoveElement
  <2>5. SumFunctionOnSet(f, R) = f[c] + SumFunctionOnSet(f, R \ {c})
    <3> HIDE DEF B
    <3> QED  BY <2>2, <2>4, SumOnSetStep
  <2>6. c # z
    <3> HIDE DEF B, c
    <3> QED  BY <2>2, <2>5
  <2>7. SumFunctionOnSet(f, R \ {c}) = f[z] + m
    <3> HIDE DEF c
    <3>1. R \ {c} \in SUBSET R /\ R \ {c} # R /\ z \in R \ {c}  BY <2>2, <2>3, <2>6
    <3> QED  BY <2>1, <2>3, <3>1
  <2>8. SumFunctionOnSet(f, R \ {z}) = f[c] + m
    <3> HIDE DEF c
    <3>1. R \ {z} \in SUBSET R /\ R \ {z} # R /\ c \in R \ {z}  BY <2>2, <2>3, <2>6
    <3>2. (R \ {z}) \ {c} = (R \ {c}) \ {z}  OBVIOUS
    <3>3. SumFunctionOnSet(f, R \ {z}) = f[c] + SumFunctionOnSet(f, (R \ {z}) \ {c})
      BY <2>1, <2>3, <3>1
    <3> QED  BY <3>2, <3>3
  <2>9. m \in Int
    <3>1. \A y \in (R \ {c}) \ {z} : f[y] \in Int  BY <2>3
    <3> HIDE DEF B, c
    <3> QED  BY <2>4, <3>1, SumOnSetInt
  <2>10. f[z] \in Int /\ f[c] \in Int  BY <2>2, <2>3
  <2> HIDE DEF m, c, B
  <2> QED  BY <2>2, <2>5, <2>7, <2>8, <2>9, <2>10
<1>2. S \in SUBSET S /\ S \notin B  BY <1>1
<1> QED  BY <1>2

-----------------------------------------------------------------------------
(* Sums of functions: the facts other modules cite.                        *)

LEMMA SumInt ==
  ASSUME NEW S, IsFiniteSet(S), NEW f \in [S -> Int]
  PROVE  SumFunction(f) \in Int
<1>1. DOMAIN f = S /\ \A x \in S : f[x] \in Int  OBVIOUS
<1> QED  BY <1>1, SumOnSetInt DEF SumFunction

LEMMA SumNone ==
  ASSUME NEW f, DOMAIN f = {}
  PROVE  SumFunction(f) = 0
BY SumOnSetStep, FS_EmptySet DEF SumFunction

\* A larger domain adds the value of the new element.
LEMMA SumOneMore ==
  ASSUME NEW S, IsFiniteSet(S), NEW x, x \notin S, NEW T, T = S \cup {x},
         NEW f \in [S -> Int], NEW g \in [T -> Int], \A y \in S : g[y] = f[y]
  PROVE  SumFunction(g) = SumFunction(f) + g[x]
<1>1. IsFiniteSet(S \cup {x})  BY FS_AddElement
<1>2. SumFunction(g) = SumFunctionOnSet(g, S \cup {x}) /\ SumFunction(f) = SumFunctionOnSet(f, S)
  BY DEF SumFunction
<1>3. SumFunctionOnSet(g, S \cup {x}) = g[x] + SumFunctionOnSet(g, (S \cup {x}) \ {x})
  <2>1. \A y \in S \cup {x} : g[y] \in Int  OBVIOUS
  <2> QED  BY <1>1, <2>1, SumOnSetPick
<1>4. (S \cup {x}) \ {x} = S  OBVIOUS
<1>5. SumFunctionOnSet(g, S) = SumFunctionOnSet(f, S)  BY SumOnSetSame
<1>6. SumFunction(f) \in Int /\ g[x] \in Int  BY SumInt
<1>7. SumFunctionOnSet(g, (S \cup {x}) \ {x}) = SumFunction(f)  BY <1>2, <1>4, <1>5
<1>8. SumFunction(g) = g[x] + SumFunction(f)  BY <1>2, <1>3, <1>7
<1> QED  BY <1>6, <1>8

\* One value changes: the sum changes by the difference.
LEMMA SumChange ==
  ASSUME NEW S, IsFiniteSet(S), NEW x \in S,
         NEW f \in [S -> Int], NEW g \in [S -> Int], \A y \in S : y # x => g[y] = f[y]
  PROVE  SumFunction(g) = SumFunction(f) - f[x] + g[x]
<1> DEFINE r == SumFunctionOnSet(f, S \ {x})
<1>1. SumFunction(f) = SumFunctionOnSet(f, S) /\ SumFunction(g) = SumFunctionOnSet(g, S)
  BY DEF SumFunction
<1>2. (\A y \in S : f[y] \in Int) /\ (\A y \in S : g[y] \in Int)  OBVIOUS
<1>3. SumFunctionOnSet(f, S) = f[x] + r  BY <1>2, SumOnSetPick
<1>4. SumFunctionOnSet(g, S) = g[x] + SumFunctionOnSet(g, S \ {x})  BY <1>2, SumOnSetPick
<1>5. IsFiniteSet(S \ {x})  BY FS_RemoveElement
<1>6. SumFunctionOnSet(g, S \ {x}) = r
  <2>1. \A y \in S \ {x} : g[y] = f[y]  OBVIOUS
  <2> QED  BY <1>5, <2>1, SumOnSetSame
<1>7. r \in Int
  <2>1. \A y \in S \ {x} : f[y] \in Int  OBVIOUS
  <2> QED  BY <1>5, <2>1, SumOnSetInt
<1> HIDE DEF r
<1> QED  BY <1>1, <1>2, <1>3, <1>4, <1>6, <1>7

\* Two functions equal everywhere but at one element, which only one of them has.
LEMMA SumOneLess ==
  ASSUME NEW S, IsFiniteSet(S), NEW x \in S, NEW T, T = S \ {x},
         NEW f \in [S -> Int], NEW g \in [T -> Int], \A y \in T : g[y] = f[y]
  PROVE  SumFunction(g) = SumFunction(f) - f[x]
<1>1. IsFiniteSet(T) /\ x \notin T /\ S = T \cup {x}  BY FS_RemoveElement
<1>2. SumFunction(f) = SumFunction(g) + f[x]
  <2>1. \A y \in T : f[y] = g[y]  OBVIOUS
  <2> QED  BY <1>1, <2>1, SumOneMore
<1>3. SumFunction(g) \in Int /\ f[x] \in Int  BY <1>1, SumInt
<1> QED  BY <1>2, <1>3

\* Zeros add up to zero.
LEMMA SumZero ==
  ASSUME NEW S, IsFiniteSet(S), NEW f \in [S -> Int], \A x \in S : f[x] = 0
  PROVE  SumFunction(f) = 0
<1> DEFINE B == {s \in SUBSET S : SumFunctionOnSet(f, s) # 0}
<1>1. ASSUME B # {} PROVE FALSE
  <2>1. PICK R \in B : \A Q \in SUBSET R : Q # R => Q \notin B
    <3>1. B \in SUBSET (SUBSET S)  OBVIOUS
    <3> HIDE DEF B
    <3> QED  BY <1>1, <3>1, SmallestSet
  <2> DEFINE c == Chosen(R)
  <2>2. R \subseteq S /\ SumFunctionOnSet(f, R) # 0  OBVIOUS
  <2>3. IsFiniteSet(R)  BY <2>2, FS_Subset
  <2>4. SumFunctionOnSet(f, R) = IF R = {} THEN 0 ELSE f[c] + SumFunctionOnSet(f, R \ {c})
    <3> HIDE DEF B
    <3> QED  BY <2>3, SumOnSetStep
  <2>5. R # {}  BY <2>2, <2>4
  <2>6. c \in R  BY <2>5, ChosenIsIn
  <2>7. SumFunctionOnSet(f, R \ {c}) = 0
    <3> HIDE DEF c
    <3>1. R \ {c} \in SUBSET R /\ R \ {c} # R  BY <2>6
    <3> QED  BY <2>1, <2>2, <3>1
  <2>8. f[c] = 0  BY <2>2, <2>6
  <2> HIDE DEF c, B
  <2> QED  BY <2>2, <2>4, <2>7, <2>8
<1>2. S \in SUBSET S /\ S \notin B  BY <1>1
<1> QED  BY <1>2 DEF SumFunction

\* Larger values, larger sum.
LEMMA SumLe ==
  ASSUME NEW S, IsFiniteSet(S), NEW f \in [S -> Int], NEW g \in [S -> Int],
         \A x \in S : f[x] <= g[x]
  PROVE  SumFunction(f) <= SumFunction(g)
<1> DEFINE B == {s \in SUBSET S : ~(SumFunctionOnSet(f, s) <= SumFunctionOnSet(g, s))}
<1>1. ASSUME B # {} PROVE FALSE
  <2>1. PICK R \in B : \A Q \in SUBSET R : Q # R => Q \notin B
    <3>1. B \in SUBSET (SUBSET S)  OBVIOUS
    <3> HIDE DEF B
    <3> QED  BY <1>1, <3>1, SmallestSet
  <2> DEFINE c == Chosen(R)
  <2>2. R \subseteq S /\ ~(SumFunctionOnSet(f, R) <= SumFunctionOnSet(g, R))  OBVIOUS
  <2>3. IsFiniteSet(R) /\ IsFiniteSet(R \ {c})  BY <2>2, FS_Subset, FS_RemoveElement
  <2>4. /\ SumFunctionOnSet(f, R) = IF R = {} THEN 0 ELSE f[c] + SumFunctionOnSet(f, R \ {c})
        /\ SumFunctionOnSet(g, R) = IF R = {} THEN 0 ELSE g[c] + SumFunctionOnSet(g, R \ {c})
    <3> HIDE DEF B
    <3> QED  BY <2>3, SumOnSetStep
  <2>5. R # {}
    <3>1. 0 <= 0  OBVIOUS
    <3> HIDE DEF B, c
    <3> QED  BY <2>2, <2>4, <3>1
  <2>6. c \in R  BY <2>5, ChosenIsIn
  <2>7. SumFunctionOnSet(f, R \ {c}) <= SumFunctionOnSet(g, R \ {c})
    <3> HIDE DEF c
    <3>1. R \ {c} \in SUBSET R /\ R \ {c} # R  BY <2>6
    <3> QED  BY <2>1, <2>2, <3>1
  <2>8. f[c] \in Int /\ g[c] \in Int /\ f[c] <= g[c]  BY <2>2, <2>6
  <2>9. SumFunctionOnSet(f, R \ {c}) \in Int /\ SumFunctionOnSet(g, R \ {c}) \in Int
    <3>1. (\A y \in R \ {c} : f[y] \in Int) /\ (\A y \in R \ {c} : g[y] \in Int)  BY <2>2
    <3> HIDE DEF B, c
    <3> QED  BY <2>3, <3>1, SumOnSetInt
  <2> HIDE DEF B, c
  <2> QED  BY <2>2, <2>4, <2>5, <2>7, <2>8, <2>9
<1>2. S \in SUBSET S /\ S \notin B  BY <1>1
<1>3. SumFunction(f) = SumFunctionOnSet(f, S) /\ SumFunction(g) = SumFunctionOnSet(g, S)
  BY DEF SumFunction
<1> QED  BY <1>2, <1>3

\* A common factor of all values is one of the sum.
LEMMA SumTimes ==
  ASSUME NEW S, IsFiniteSet(S), NEW k \in Int, NEW f \in [S -> Int], NEW g \in [S -> Int],
         \A x \in S : g[x] = k * f[x]
  PROVE  SumFunction(g) = k * SumFunction(f)
<1> DEFINE B == {s \in SUBSET S : SumFunctionOnSet(g, s) # k * SumFunctionOnSet(f, s)}
<1>1. ASSUME B # {} PROVE FALSE
  <2>1. PICK R \in B : \A Q \in SUBSET R : Q # R => Q \notin B
    <3>1. B \in SUBSET (SUBSET S)  OBVIOUS
    <3> HIDE DEF B
    <3> QED  BY <1>1, <3>1, SmallestSet
  <2> DEFINE c == Chosen(R)  a == SumFunctionOnSet(f, R \ {c})  b == SumFunctionOnSet(g, R \ {c})
  <2>2. R \subseteq S /\ SumFunctionOnSet(g, R) # k * SumFunctionOnSet(f, R)  OBVIOUS
  <2>3. IsFiniteSet(R) /\ IsFiniteSet(R \ {c})  BY <2>2, FS_Subset, FS_RemoveElement
  <2>4. /\ SumFunctionOnSet(f, R) = IF R = {} THEN 0 ELSE f[c] + a
        /\ SumFunctionOnSet(g, R) = IF R = {} THEN 0 ELSE g[c] + b
    <3> HIDE DEF B
    <3> QED  BY <2>3, SumOnSetStep
  <2>5. R # {}
    <3>1. k * 0 = 0  OBVIOUS
    <3> HIDE DEF B, c, a, b
    <3> QED  BY <2>2, <2>4, <3>1
  <2>6. c \in R  BY <2>5, ChosenIsIn
  <2>7. b = k * a
    <3> HIDE DEF c
    <3>1. R \ {c} \in SUBSET R /\ R \ {c} # R  BY <2>6
    <3> QED  BY <2>1, <2>2, <3>1
  <2>8. f[c] \in Int /\ g[c] = k * f[c]  BY <2>2, <2>6
  <2>9. a \in Int
    <3>1. \A y \in R \ {c} : f[y] \in Int  BY <2>2
    <3> HIDE DEF B, c
    <3> QED  BY <2>3, <3>1, SumOnSetInt
  <2> HIDE DEF B, c, a, b
  <2>10. SumFunctionOnSet(f, R) = f[c] + a /\ SumFunctionOnSet(g, R) = g[c] + b
    BY <2>4, <2>5
  <2>11. \A y, z \in Int : k * (y + z) = k * y + k * z  OBVIOUS
  <2> QED  BY <2>2, <2>7, <2>8, <2>9, <2>10, <2>11
<1>2. S \in SUBSET S /\ S \notin B  BY <1>1
<1> QED  BY <1>2 DEF SumFunction

\* Part of some amounts, or less, adds up to no more than all of them.
LEMMA SumPart ==
  ASSUME NEW T, IsFiniteSet(T), NEW S \in SUBSET T, NEW f \in [T -> Nat], NEW g \in [S -> Int],
         \A x \in S : g[x] <= f[x]
  PROVE  SumFunction(g) <= SumFunction(f)
<1> DEFINE z == 0
           h == [x \in T |-> IF x \in S THEN g[x] ELSE z]
           B == {s \in SUBSET T : SumFunctionOnSet(h, s) # SumFunctionOnSet(g, s \cap S)}
<1>1. h \in [T -> Int] /\ (\A x \in S : h[x] = g[x]) /\ (\A x \in T \ S : h[x] = 0)
  OBVIOUS
<1>2. \A x \in T : h[x] <= f[x]
  <2>1. ASSUME NEW x \in T PROVE h[x] <= f[x]
    <3> DEFINE y == f[x]  v == h[x]
    <3>1. y \in Nat /\ (x \in S => v <= y) /\ (x \notin S => v = 0)  OBVIOUS
    <3> HIDE DEF y, v
    <3>2. v <= y  BY <3>1
    <3> QED  BY <3>2 DEF y, v
  <2> HIDE DEF h
  <2> QED  BY <2>1
<1> HIDE DEF h
<1>3. SumFunction(h) <= SumFunction(f)
  <2>1. f \in [T -> Int]  OBVIOUS
  <2> QED  BY <1>1, <1>2, <2>1, SumLe
<1>4. ASSUME B # {} PROVE FALSE
  <2>1. PICK R \in B : \A Q \in SUBSET R : Q # R => Q \notin B
    <3>1. B \in SUBSET (SUBSET T)  OBVIOUS
    <3> HIDE DEF B
    <3> QED  BY <1>4, <3>1, SmallestSet
  <2> DEFINE c == Chosen(R)  P == R \ {c}  a == SumFunctionOnSet(h, P)
  <2>2. R \subseteq T /\ SumFunctionOnSet(h, R) # SumFunctionOnSet(g, R \cap S)  OBVIOUS
  <2>3. IsFiniteSet(R) /\ IsFiniteSet(P) /\ IsFiniteSet(R \cap S)
    BY <2>2, FS_Subset, FS_RemoveElement, FS_Intersection
  <2>4. SumFunctionOnSet(h, R) = IF R = {} THEN 0 ELSE h[c] + a
    <3> HIDE DEF B
    <3> QED  BY <2>3, SumOnSetStep
  <2>5. R # {}
    <3>1. SumFunctionOnSet(g, {}) = 0  BY SumOnSetStep, FS_EmptySet
    <3>2. ASSUME R = {} PROVE R \cap S = {}  BY <3>2
    <3> HIDE DEF B, c, a
    <3> QED  BY <2>2, <2>4, <3>1, <3>2
  <2>6. c \in R  BY <2>5, ChosenIsIn
  <2>7. a = SumFunctionOnSet(g, P \cap S)
    <3> HIDE DEF c
    <3>1. P \in SUBSET R /\ P # R  BY <2>6
    <3> HIDE DEF P
    <3> QED  BY <2>1, <2>2, <3>1
  <2>8. SumFunctionOnSet(h, R) = h[c] + a  BY <2>4, <2>5
  <2>9. a \in Int /\ h[c] \in Int
    <3>1. \A y \in P : h[y] \in Int  BY <1>1, <2>2
    <3>2. h[c] \in Int  BY <1>1, <2>2, <2>6
    <3> HIDE DEF B, P, c
    <3> QED  BY <2>3, <3>1, <3>2, SumOnSetInt
  <2>10. SumFunctionOnSet(h, R) = SumFunctionOnSet(g, R \cap S)
    <3>1. CASE c \in S
      <4>1. (R \cap S) \ {c} = P \cap S /\ c \in R \cap S  BY <2>6, <3>1
      <4>2. \A y \in R \cap S : g[y] \in Int  OBVIOUS
      <4>3. SumFunctionOnSet(g, R \cap S) = g[c] + SumFunctionOnSet(g, (R \cap S) \ {c})
        <5> HIDE DEF B, c, P
        <5> QED  BY <2>3, <4>1, <4>2, SumOnSetPick
      <4>4. h[c] = g[c]  BY <1>1, <3>1
      <4> HIDE DEF B, c, P, a
      <4> QED  BY <2>7, <2>8, <4>1, <4>3, <4>4
    <3>2. CASE c \notin S
      <4>1. R \cap S = P \cap S  BY <3>2
      <4>2. h[c] = 0  BY <1>1, <2>2, <2>6, <3>2
      <4> HIDE DEF B, c, P, a
      <4> QED  BY <2>7, <2>8, <2>9, <4>1, <4>2
    <3> QED  BY <3>1, <3>2
  <2> QED  BY <2>2, <2>10
<1>5. T \in SUBSET T /\ T \notin B  BY <1>4
<1>6. SumFunctionOnSet(h, T) = SumFunctionOnSet(g, T \cap S)  BY <1>5
<1>7. DOMAIN h = T /\ DOMAIN g = S /\ T \cap S = S  BY <1>1
<1>8. SumFunction(h) = SumFunction(g)
  <2> HIDE DEF B
  <2> QED  BY <1>6, <1>7 DEF SumFunction
<1> QED  BY <1>3, <1>8

=============================================================================
