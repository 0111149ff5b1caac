---------------------------- MODULE MemoryProofs ----------------------------
(***************************************************************************)
(* TensorCache for any threads, keys, sizes and bounds; ModuleResidency    *)
(* for any number of blocks, tensors and budgets; StepCache for any skip   *)
(* counts, budget, sizes and schedule.                                     *)
(***************************************************************************)
EXTENDS MCMemory, SequenceTheorems, FiniteSetTheorems, TLAPS

-----------------------------------------------------------------------------
(***************************************************************************)
(* Finite sums.  The library's fold is a recursive function over the       *)
(* subsets of its index set; that it is defined everywhere, and that the   *)
(* order in which it takes indices out does not matter, is by contradiction *)
(* with a least counterexample.                                            *)
(***************************************************************************)
(* A set of counterexamples has one that contains no other. *)
LEMMA LeastCounterexample ==
  ASSUME NEW S, IsFiniteSet(S), NEW C, C \subseteq SUBSET S, C # {}
  PROVE  \E m \in C : \A t \in C : t \subseteq m => t = m
<1>1. IsWellFoundedOn(StrictSubsetOrdering(S), SUBSET S)
  BY FS_StrictSubsetOrderingWellFounded, FS_FiniteSubsetsOfFinite
<1>2. PICK m \in C : \A t \in C : <<t, m>> \notin StrictSubsetOrdering(S)
  BY <1>1, WFMin
<1>3. \A t \in C : t \subseteq m => t = m
  BY <1>2 DEF StrictSubsetOrdering
<1> QED BY <1>3

(* The recursion of the library's fold, for a sum. *)
Taken(s) == CHOOSE x \in s : TRUE

Adds(f, S, g) ==
  g = [s \in SUBSET S |-> IF s = {} THEN 0 ELSE f[Taken(s)] + g[s \ {Taken(s)}]]

LEMMA SumAdds ==
  ASSUME NEW f, NEW S PROVE SumFunctionOnSet(f, S) = (CHOOSE g : Adds(f, S, g))[S]
BY DEF SumFunctionOnSet, FoldFunctionOnSet, MapThenFoldSet, Adds, Taken

LEMMA AddsUniquely ==
  ASSUME NEW f, NEW S, IsFiniteSet(S), NEW T \in SUBSET S,
         NEW g, Adds(f, S, g), NEW h, Adds(f, T, h)
  PROVE  \A s \in SUBSET T : g[s] = h[s]
<1> DEFINE C == {s \in SUBSET T : g[s] # h[s]}
<1>1. SUFFICES ASSUME C # {} PROVE FALSE
  OBVIOUS
<1>2. PICK m \in C : \A t \in C : t \subseteq m => t = m
  <2>1. IsFiniteSet(T) /\ C \subseteq SUBSET T
    BY FS_Subset
  <2> HIDE DEF C
  <2> QED BY <1>1, <2>1, LeastCounterexample
<1>3. m \in SUBSET T /\ m \in SUBSET S /\ g[m] # h[m]
  OBVIOUS
<1>4. CASE m = {}
  BY <1>3, <1>4 DEF Adds
<1>5. CASE m # {}
  <2>1. Taken(m) \in m
    BY <1>5 DEF Taken
  <2>2. m \ {Taken(m)} \in SUBSET T /\ m \ {Taken(m)} # m
    BY <1>3, <2>1
  <2>3. g[m \ {Taken(m)}] = h[m \ {Taken(m)}]
    BY <1>2, <2>2
  <2>4. g[m] = f[Taken(m)] + g[m \ {Taken(m)}] /\ h[m] = f[Taken(m)] + h[m \ {Taken(m)}]
    BY <1>3, <1>5 DEF Adds
  <2> QED BY <1>3, <2>3, <2>4
<1> QED BY <1>4, <1>5

LEMMA AddsSomehow ==
  ASSUME NEW f, NEW S, IsFiniteSet(S) PROVE \E g : Adds(f, S, g)
<1> DEFINE C == {s \in SUBSET S : ~ \E g : Adds(f, s, g)}
           some(s) == CHOOSE g : Adds(f, s, g)
<1>1. SUFFICES ASSUME C # {} PROVE FALSE
  OBVIOUS
<1>2. PICK m \in C : \A t \in C : t \subseteq m => t = m
  <2>1. C \subseteq SUBSET S
    OBVIOUS
  <2> HIDE DEF C
  <2> QED BY <1>1, <2>1, LeastCounterexample
<1>3. m \in SUBSET S /\ IsFiniteSet(m) /\ ~ \E g : Adds(f, m, g)
  BY FS_Subset
<1>4. ASSUME NEW s \in SUBSET m, s # m PROVE Adds(f, s, some(s)) /\ IsFiniteSet(s)
  <2>1. s \in SUBSET S /\ IsFiniteSet(s)
    BY <1>3, FS_Subset
  <2>2. \E g : Adds(f, s, g)
    BY <1>2, <1>4, <2>1
  <2> QED BY <2>1, <2>2
<1> HIDE DEF some
<1> DEFINE g == [s \in SUBSET m |-> IF s = {} THEN 0
                                    ELSE f[Taken(s)] + some(s \ {Taken(s)})[s \ {Taken(s)}]]
<1>5. ASSUME NEW s \in SUBSET m, s # {}
      PROVE  g[s \ {Taken(s)}] = some(s \ {Taken(s)})[s \ {Taken(s)}]
  <2> DEFINE t == s \ {Taken(s)}
  <2> SUFFICES g[t] = some(t)[t]
    OBVIOUS
  <2>1. Taken(s) \in s
    BY <1>5 DEF Taken
  <2>2. t \in SUBSET m /\ t # m /\ Adds(f, t, some(t)) /\ IsFiniteSet(t)
    BY <1>4, <2>1
  <2> HIDE DEF t
  <2>3. CASE t = {}
    <3>1. t \in SUBSET t /\ some(t)[t] = 0
      BY <2>2, <2>3 DEF Adds
    <3>2. g[t] = 0
      BY <2>2, <2>3
    <3> HIDE DEF g, t
    <3> QED BY <2>3, <3>1, <3>2
  <2>4. CASE t # {}
    <3> DEFINE u == t \ {Taken(t)}
    <3>1. Taken(t) \in t
      BY <2>4 DEF Taken
    <3>2. u \in SUBSET t /\ u \in SUBSET m /\ u # m
      BY <2>2, <3>1
    <3>3. Adds(f, u, some(u))
      BY <1>4, <3>2
    <3> HIDE DEF u
    <3>4. some(t)[u] = some(u)[u]
      BY <2>2, <3>2, <3>3, AddsUniquely
    <3>5. some(t)[t] = f[Taken(t)] + some(t)[u]
      BY <2>2, <2>4 DEF Adds, u
    <3>6. g[t] = f[Taken(t)] + some(u)[u]
      BY <2>2, <2>4 DEF u
    <3> HIDE DEF g, t
    <3> QED BY <3>4, <3>5, <3>6
  <2> QED BY <2>3, <2>4
<1>6. g = [s \in SUBSET m |-> IF s = {} THEN 0 ELSE f[Taken(s)] + g[s \ {Taken(s)}]]
  <2>1. \A s \in SUBSET m : g[s] = IF s = {} THEN 0 ELSE f[Taken(s)] + g[s \ {Taken(s)}]
    BY <1>5
  <2>2. g = [s \in SUBSET m |-> g[s]]
    OBVIOUS
  <2> HIDE DEF g
  <2> QED BY <2>1, <2>2
<1> HIDE DEF g
<1>7. Adds(f, m, g)
  BY <1>6 DEF Adds
<1> QED BY <1>3, <1>7

(* What a sum of finitely many summands is. *)
LEMMA SumUnfolds ==
  ASSUME NEW f, NEW S, IsFiniteSet(S)
  PROVE  SumFunctionOnSet(f, S) =
           IF S = {} THEN 0 ELSE f[Taken(S)] + SumFunctionOnSet(f, S \ {Taken(S)})
<1> DEFINE g == CHOOSE h : Adds(f, S, h)
           T == S \ {Taken(S)}
           k == CHOOSE h : Adds(f, T, h)
<1>1. IsFiniteSet(T) /\ T \in SUBSET S
  BY FS_Subset
<1>2. Adds(f, S, g) /\ Adds(f, T, k)
  BY <1>1, AddsSomehow
<1>3. SumFunctionOnSet(f, S) = g[S] /\ SumFunctionOnSet(f, T) = k[T]
  BY SumAdds
<1> HIDE DEF g, k
<1>4. g[T] = k[T]
  <2>1. T \in SUBSET T
    OBVIOUS
  <2> HIDE DEF T
  <2> QED BY <1>1, <1>2, <2>1, AddsUniquely
<1>5. S \in SUBSET S
  OBVIOUS
<1>6. g[S] = IF S = {} THEN 0 ELSE f[Taken(S)] + g[T]
  BY <1>2, <1>5 DEF Adds
<1> QED BY <1>3, <1>4, <1>6

LEMMA SumIsNatural ==
  ASSUME NEW f, NEW S, IsFiniteSet(S), \A x \in S : f[x] \in Nat
  PROVE  SumFunctionOnSet(f, S) \in Nat
<1> DEFINE C == {s \in SUBSET S : SumFunctionOnSet(f, s) \notin Nat}
<1>1. SUFFICES ASSUME C # {} PROVE FALSE
  OBVIOUS
<1>2. PICK m \in C : \A t \in C : t \subseteq m => t = m
  <2>1. C \subseteq SUBSET S
    OBVIOUS
  <2> HIDE DEF C
  <2> QED BY <1>1, <2>1, LeastCounterexample
<1>3. m \in SUBSET S /\ IsFiniteSet(m) /\ SumFunctionOnSet(f, m) \notin Nat
  BY FS_Subset
<1>4. m # {} /\ SumFunctionOnSet(f, m) = f[Taken(m)] + SumFunctionOnSet(f, m \ {Taken(m)})
  BY <1>3, SumUnfolds
<1>5. Taken(m) \in m
  BY <1>4 DEF Taken
<1>6. SumFunctionOnSet(f, m \ {Taken(m)}) \in Nat
  BY <1>2, <1>3, <1>5
<1> QED BY <1>3, <1>4, <1>5, <1>6

(* Any summand may be taken out first. *)
LEMMA SumTakesOut ==
  ASSUME NEW f, NEW S, IsFiniteSet(S), \A x \in S : f[x] \in Nat, NEW x \in S
  PROVE  SumFunctionOnSet(f, S) = f[x] + SumFunctionOnSet(f, S \ {x})
<1> DEFINE Sum(s) == SumFunctionOnSet(f, s)
           C == {s \in SUBSET S : \E y \in s : Sum(s) # f[y] + Sum(s \ {y})}
<1>0. \A s \in SUBSET S : IsFiniteSet(s) /\ Sum(s) \in Nat
  BY FS_Subset, SumIsNatural
<1>1. SUFFICES ASSUME C # {} PROVE FALSE
  OBVIOUS
<1>2. PICK m \in C : \A t \in C : t \subseteq m => t = m
  <2>1. C \subseteq SUBSET S
    OBVIOUS
  <2> HIDE DEF C
  <2> QED BY <1>1, <2>1, LeastCounterexample
<1>3. PICK y \in m : Sum(m) # f[y] + Sum(m \ {y})
  OBVIOUS
<1> DEFINE c == Taken(m)
<1>4. m \in SUBSET S /\ c \in m
  BY DEF Taken
<1>5. Sum(m) = f[c] + Sum(m \ {c})
  BY <1>0, <1>4, SumUnfolds
<1> HIDE DEF c, Sum
<1>6. c # y
  BY <1>3, <1>5
<1>7. \A x1, x2 \in m : x1 # x2 => Sum(m \ {x1}) = f[x2] + Sum((m \ {x1}) \ {x2})
  <2> SUFFICES ASSUME NEW x1 \in m, NEW x2 \in m, x1 # x2
               PROVE  Sum(m \ {x1}) = f[x2] + Sum((m \ {x1}) \ {x2})
    OBVIOUS
  <2> DEFINE t == m \ {x1}
  <2>1. t \in SUBSET S /\ t \subseteq m /\ t # m /\ x2 \in t
    BY <1>4
  <2>2. t \notin C
    BY <1>2, <2>1
  <2> HIDE DEF t
  <2>3. Sum(t) = f[x2] + Sum(t \ {x2})
    BY <2>1, <2>2
  <2> QED BY <2>3 DEF t
<1>8. /\ Sum(m \ {c}) = f[y] + Sum((m \ {c}) \ {y})
      /\ Sum(m \ {y}) = f[c] + Sum((m \ {y}) \ {c})
  BY <1>4, <1>6, <1>7
<1>9. (m \ {c}) \ {y} = (m \ {y}) \ {c}
  OBVIOUS
<1>10. f[c] \in Nat /\ f[y] \in Nat /\ Sum((m \ {y}) \ {c}) \in Nat
  <2>1. (m \ {y}) \ {c} \in SUBSET S
    BY <1>4
  <2> QED BY <1>0, <1>4, <2>1
<1>11. Sum(m) = f[c] + (f[y] + Sum((m \ {y}) \ {c}))
  BY <1>5, <1>8, <1>9
<1>12. Sum(m) # f[y] + (f[c] + Sum((m \ {y}) \ {c}))
  BY <1>3, <1>8
<1> HIDE DEF C
<1> QED BY <1>10, <1>11, <1>12

(* Summands that correspond one to one have the same sum. *)
LEMMA SumMoves ==
  ASSUME NEW S, IsFiniteSet(S), NEW T, IsFiniteSet(T), NEW p \in Bijection(S, T),
         NEW f, \A x \in T : f[x] \in Nat, NEW g, \A x \in S : g[x] = f[p[x]]
  PROVE  SumFunctionOnSet(g, S) = SumFunctionOnSet(f, T)
<1> DEFINE image(s) == {p[x] : x \in s}
           C == {s \in SUBSET S : SumFunctionOnSet(g, s) # SumFunctionOnSet(f, image(s))}
<1>0. /\ \A x \in S : p[x] \in T /\ \A y \in S : p[x] = p[y] => x = y
      /\ image(S) = T
  BY DEF Bijection, Injection, Surjection, IsInjective
<1>1. SUFFICES ASSUME C # {} PROVE FALSE
  BY <1>0
<1>2. PICK m \in C : \A t \in C : t \subseteq m => t = m
  <2>1. C \subseteq SUBSET S
    OBVIOUS
  <2> HIDE DEF C
  <2> QED BY <1>1, <2>1, LeastCounterexample
<1>3. m \in SUBSET S /\ IsFiniteSet(m) /\ image(m) \in SUBSET T /\ IsFiniteSet(image(m))
  BY <1>0, FS_Subset
<1>4. CASE m = {}
  <2>1. image(m) = {}
    BY <1>4
  <2> QED BY <1>2, <1>4, <2>1, FS_EmptySet, SumUnfolds
<1>5. CASE m # {}
  <2>1. PICK c \in m : TRUE
    BY <1>5
  <2> DEFINE t == m \ {c}
  <2>2. image(t) = image(m) \ {p[c]} /\ p[c] \in image(m) /\ t \in SUBSET m /\ t # m
    BY <1>0, <1>3, <2>1
  <2>3. SumFunctionOnSet(g, t) = SumFunctionOnSet(f, image(t))
    <3> HIDE DEF image
    <3> QED BY <1>2, <1>3, <2>2
  <2>4. SumFunctionOnSet(g, m) = g[c] + SumFunctionOnSet(g, t)
    <3>1. \A x \in m : g[x] \in Nat
      BY <1>0, <1>3
    <3> QED BY <1>3, <3>1, <2>1, SumTakesOut
  <2>5. SumFunctionOnSet(f, image(m)) = f[p[c]] + SumFunctionOnSet(f, image(t))
    <3>1. \A x \in image(m) : f[x] \in Nat
      BY <1>3
    <3> HIDE DEF image, t
    <3> QED BY <1>3, <3>1, <2>2, SumTakesOut
  <2> QED BY <1>2, <1>3, <2>1, <2>3, <2>4, <2>5
<1> QED BY <1>4, <1>5

LEMMA SumAlike ==
  ASSUME NEW S, IsFiniteSet(S), NEW f, \A x \in S : f[x] \in Nat, NEW g, \A x \in S : g[x] = f[x]
  PROVE  SumFunctionOnSet(g, S) = SumFunctionOnSet(f, S)
<1> DEFINE p == [x \in S |-> x]
<1>1. p \in Bijection(S, S) /\ \A x \in S : g[x] = f[p[x]]
  BY DEF Bijection, Injection, Surjection, IsInjective
<1> QED BY <1>1, SumMoves

(* Sums over disjoint sets add up. *)
LEMMA SumSplits ==
  ASSUME NEW S, IsFiniteSet(S), NEW T, IsFiniteSet(T), S \cap T = {},
         NEW f, \A x \in S \cup T : f[x] \in Nat
  PROVE  SumFunctionOnSet(f, S \cup T) = SumFunctionOnSet(f, S) + SumFunctionOnSet(f, T)
<1> DEFINE Sum(s) == SumFunctionOnSet(f, s)
           C == {s \in SUBSET S : Sum(s \cup T) # Sum(s) + Sum(T)}
<1>1. SUFFICES ASSUME C # {} PROVE FALSE
  OBVIOUS
<1>2. PICK m \in C : \A t \in C : t \subseteq m => t = m
  <2>1. C \subseteq SUBSET S
    OBVIOUS
  <2> HIDE DEF C
  <2> QED BY <1>1, <2>1, LeastCounterexample
<1>3. m \in SUBSET S /\ IsFiniteSet(m) /\ IsFiniteSet(m \cup T) /\ Sum(m \cup T) # Sum(m) + Sum(T)
  BY FS_Subset, FS_Union
<1>4. Sum(T) \in Nat
  BY SumIsNatural
<1>5. CASE m = {}
  <2>1. m \cup T = T /\ Sum(m) = 0
    BY <1>5, FS_EmptySet, SumUnfolds
  <2> QED BY <1>3, <1>4, <2>1
<1>6. CASE m # {}
  <2>1. PICK c \in m : TRUE
    BY <1>6
  <2> DEFINE t == m \ {c}
  <2>2. t \in SUBSET S /\ t \subseteq m /\ t # m /\ (m \cup T) \ {c} = t \cup T /\ IsFiniteSet(t)
    BY <1>3, <2>1, FS_Subset
  <2>3. Sum(t \cup T) = Sum(t) + Sum(T)
    BY <1>2, <2>2
  <2>4. Sum(m) = f[c] + Sum(t)
    BY <1>3, <2>1, SumTakesOut
  <2>5. Sum(m \cup T) = f[c] + Sum(t \cup T)
    <3>1. c \in m \cup T /\ \A x \in m \cup T : f[x] \in Nat
      BY <1>3, <2>1
    <3> QED BY <1>3, <2>2, <3>1, SumTakesOut
  <2>6. f[c] \in Nat /\ Sum(t) \in Nat
    <3>1. \A x \in t : f[x] \in Nat
      BY <2>2
    <3> QED BY <1>3, <2>1, <2>2, <3>1, SumIsNatural
  <2> HIDE DEF Sum, C, t
  <2> QED BY <1>3, <1>4, <2>3, <2>4, <2>5, <2>6
<1> QED BY <1>5, <1>6

LEMMA SumOfNothing ==
  ASSUME NEW S, IsFiniteSet(S), NEW f, \A x \in S : f[x] = 0
  PROVE  SumFunctionOnSet(f, S) = 0
<1> DEFINE C == {s \in SUBSET S : SumFunctionOnSet(f, s) # 0}
<1>1. SUFFICES ASSUME C # {} PROVE FALSE
  OBVIOUS
<1>2. PICK m \in C : \A t \in C : t \subseteq m => t = m
  <2>1. C \subseteq SUBSET S
    OBVIOUS
  <2> HIDE DEF C
  <2> QED BY <1>1, <2>1, LeastCounterexample
<1>3. m \in SUBSET S /\ IsFiniteSet(m) /\ SumFunctionOnSet(f, m) # 0
  BY FS_Subset
<1>4. m # {} /\ SumFunctionOnSet(f, m) = f[Taken(m)] + SumFunctionOnSet(f, m \ {Taken(m)})
  BY <1>3, SumUnfolds
<1>5. Taken(m) \in m
  BY <1>4 DEF Taken
<1>6. SumFunctionOnSet(f, m \ {Taken(m)}) = 0
  BY <1>2, <1>3, <1>5
<1> QED BY <1>3, <1>4, <1>5, <1>6

(* The library's maximum is one. *)
LEMMA MaxIsMost ==
  ASSUME NEW S, IsFiniteSet(S), \A x \in S : x \in Nat, S # {}
  PROVE  Max(S) \in S /\ \A x \in S : x <= Max(S)
<1> DEFINE C == {s \in SUBSET S : s # {} /\ ~ \E x \in s : \A y \in s : x >= y}
<1>0. SUFFICES \E x \in S : \A y \in S : x >= y
  BY DEF Max
<1>1. SUFFICES ASSUME C # {} PROVE FALSE
  OBVIOUS
<1>2. PICK m \in C : \A t \in C : t \subseteq m => t = m
  <2>1. C \subseteq SUBSET S
    OBVIOUS
  <2> HIDE DEF C
  <2> QED BY <1>1, <2>1, LeastCounterexample
<1>3. PICK c \in m : TRUE
  OBVIOUS
<1>4. m \ {c} \in SUBSET S /\ m \ {c} # m
  BY <1>3
<1>5. m \ {c} = {} \/ \E x \in m \ {c} : \A y \in m \ {c} : x >= y
  BY <1>2, <1>4
<1>6. \E x \in m : \A y \in m : x >= y
  <2>1. m \subseteq Nat
    OBVIOUS
  <2>2. CASE m \ {c} = {}
    BY <1>3, <2>1, <2>2
  <2>3. CASE \E x \in m \ {c} : \A y \in m \ {c} : x >= y
    <3>1. PICK x \in m \ {c} : \A y \in m \ {c} : x >= y
      BY <2>3
    <3>2. x \in Nat /\ c \in Nat /\ (x >= c \/ c >= x)
      BY <2>1, <3>1
    <3>3. CASE x >= c
      BY <3>1, <3>3
    <3>4. CASE c >= x
      <4>1. \A y \in m : c >= y
        BY <2>1, <3>1, <3>2, <3>4
      <4> QED BY <1>3, <4>1
    <3> QED BY <3>2, <3>3, <3>4
  <2> QED BY <1>5, <2>2, <2>3
<1> QED BY <1>6

-----------------------------------------------------------------------------
(* The bytes of a sequence of entries, as a sum over its positions.        *)
SizesOf(es) == [i \in DOMAIN es |-> es[i].size]

Sized(S) == \A e \in S : e.size \in Nat

LEMMA BytesFacts ==
  ASSUME NEW S, Sized(S), NEW es \in Seq(S)
  PROVE  /\ Len(es) \in Nat /\ IsFiniteSet(1 .. Len(es))
         /\ \A i \in 1 .. Len(es) : es[i] \in S /\ SizesOf(es)[i] = es[i].size /\ SizesOf(es)[i] \in Nat
         /\ BytesOf(es) = SumFunctionOnSet(SizesOf(es), 1 .. Len(es)) /\ BytesOf(es) \in Nat
<1>1. DOMAIN es = 1 .. Len(es) /\ Len(es) \in Nat
  OBVIOUS
<1>2. IsFiniteSet(1 .. Len(es))
  BY <1>1, FS_Interval
<1>3. \A i \in 1 .. Len(es) : es[i] \in S /\ SizesOf(es)[i] = es[i].size /\ SizesOf(es)[i] \in Nat
  <2>1. \A i \in 1 .. Len(es) : es[i] \in S
    OBVIOUS
  <2> QED BY <1>1, <2>1 DEF SizesOf, Sized
<1>4. BytesOf(es) = SumFunctionOnSet(SizesOf(es), 1 .. Len(es))
  BY <1>1 DEF BytesOf, SumFunction, SizesOf
<1>5. BytesOf(es) \in Nat
  BY <1>2, <1>3, <1>4, SumIsNatural
<1> QED BY <1>1, <1>2, <1>3, <1>4, <1>5

LEMMA SizesMove ==
  ASSUME NEW J, IsFiniteSet(J), NEW I, IsFiniteSet(I), NEW p \in Bijection(J, I), NEW es, NEW ds,
         \A x \in I : SizesOf(es)[x] \in Nat, \A x \in J : SizesOf(ds)[x] = SizesOf(es)[p[x]]
  PROVE  SumFunctionOnSet(SizesOf(ds), J) = SumFunctionOnSet(SizesOf(es), I)
BY SumMoves

(* The bytes of a sequence that takes its entries from a stretch of another. *)
LEMMA BytesMove ==
  ASSUME NEW S, Sized(S), NEW es \in Seq(S), NEW ds \in Seq(S),
         NEW I, \A x \in I : x \in 1 .. Len(es), NEW p \in Bijection(1 .. Len(ds), I),
         \A i \in 1 .. Len(ds) : ds[i] = es[p[i]]
  PROVE  BytesOf(ds) = SumFunctionOnSet(SizesOf(es), I)
<1>1. IsFiniteSet(I) /\ IsFiniteSet(1 .. Len(ds))
  <2>1. IsFiniteSet(1 .. Len(es)) /\ IsFiniteSet(1 .. Len(ds))
    BY BytesFacts
  <2> QED BY <2>1, FS_Subset
<1>2. \A x \in I : SizesOf(es)[x] \in Nat /\ SizesOf(es)[x] = es[x].size
  BY BytesFacts
<1>3. \A i \in 1 .. Len(ds) : p[i] \in I
  BY DEF Bijection, Injection
<1>4. \A i \in 1 .. Len(ds) : SizesOf(ds)[i] = SizesOf(es)[p[i]]
  <2>1. \A i \in 1 .. Len(ds) : SizesOf(ds)[i] = ds[i].size
    BY BytesFacts
  <2> QED BY <1>2, <1>3, <2>1
<1>5. SumFunctionOnSet(SizesOf(ds), 1 .. Len(ds)) = SumFunctionOnSet(SizesOf(es), I)
  <2> DEFINE J == 1 .. Len(ds)
  <2>1. \A x \in I : SizesOf(es)[x] \in Nat
    BY <1>2
  <2>2. p \in Bijection(J, I) /\ IsFiniteSet(J) /\ \A i \in J : SizesOf(ds)[i] = SizesOf(es)[p[i]]
    BY <1>1, <1>4
  <2> HIDE DEF J
  <2>3. SumFunctionOnSet(SizesOf(ds), J) = SumFunctionOnSet(SizesOf(es), I)
    BY <1>1, <2>1, <2>2, SizesMove
  <2> QED BY <2>3 DEF J
<1>6. BytesOf(ds) = SumFunctionOnSet(SizesOf(ds), 1 .. Len(ds))
  BY BytesFacts
<1> QED BY <1>5, <1>6

LEMMA BytesOfPart ==
  ASSUME NEW S, Sized(S), NEW es \in Seq(S), NEW n \in 0 .. Len(es)
  PROVE  /\ BytesOf(SubSeq(es, 1, n)) \in Nat /\ BytesOf(SubSeq(es, n + 1, Len(es))) \in Nat
         /\ BytesOf(es) = BytesOf(SubSeq(es, 1, n)) + BytesOf(SubSeq(es, n + 1, Len(es)))
<1> DEFINE lower == SubSeq(es, 1, n)
           upper == SubSeq(es, n + 1, Len(es))
           low == [i \in 1 .. n |-> i]
           high == [i \in 1 .. Len(es) - n |-> i + n]
<1>0. n \in Nat /\ Len(es) \in Nat /\ n <= Len(es)
  OBVIOUS
<1>1. /\ lower \in Seq(S) /\ Len(lower) = n /\ \A i \in 1 .. n : lower[i] = es[i]
      /\ upper \in Seq(S) /\ Len(upper) = Len(es) - n
      /\ \A i \in 1 .. Len(es) - n : upper[i] = es[i + n]
  OBVIOUS
<1> HIDE DEF lower, upper
<1>2. BytesOf(lower) = SumFunctionOnSet(SizesOf(es), 1 .. n)
  <2>1. low \in Bijection(1 .. n, 1 .. n) /\ \A i \in 1 .. n : lower[i] = es[low[i]]
    BY <1>0, <1>1 DEF Bijection, Injection, Surjection, IsInjective
  <2> HIDE DEF low
  <2> DEFINE I == 1 .. n
  <2>2. /\ \A x \in I : x \in 1 .. Len(es)
        /\ low \in Bijection(1 .. Len(lower), I) /\ \A i \in 1 .. Len(lower) : lower[i] = es[low[i]]
    BY <1>0, <1>1, <2>1
  <2> HIDE DEF I
  <2>3. BytesOf(lower) = SumFunctionOnSet(SizesOf(es), I)
    BY <1>1, <2>2, BytesMove
  <2> QED BY <2>3 DEF I
<1>3. BytesOf(upper) = SumFunctionOnSet(SizesOf(es), n + 1 .. Len(es))
  <2>1. \A j \in n + 1 .. Len(es) : j - n \in 1 .. Len(es) - n /\ high[j - n] = j
    BY <1>0
  <2>2. high \in [1 .. Len(es) - n -> n + 1 .. Len(es)]
    BY <1>0
  <2>3. \A i, j \in 1 .. Len(es) - n : high[i] = high[j] => i = j
    BY <1>0
  <2>4. high \in Bijection(1 .. Len(es) - n, n + 1 .. Len(es))
    <3> HIDE DEF high
    <3> QED BY <2>1, <2>2, <2>3 DEF Bijection, Injection, Surjection, IsInjective
  <2>5. \A i \in 1 .. Len(es) - n : upper[i] = es[high[i]]
    BY <1>1
  <2>6. n + 1 .. Len(es) \subseteq 1 .. Len(es)
    BY <1>0
  <2> HIDE DEF high
  <2>7. /\ high \in Bijection(1 .. Len(upper), n + 1 .. Len(es))
        /\ \A i \in 1 .. Len(upper) : upper[i] = es[high[i]]
    BY <1>1, <2>4, <2>5
  <2> DEFINE I == n + 1 .. Len(es)
  <2>8. (\A x \in I : x \in 1 .. Len(es)) /\ high \in Bijection(1 .. Len(upper), I)
    BY <2>6, <2>7
  <2> HIDE DEF I
  <2>9. BytesOf(upper) = SumFunctionOnSet(SizesOf(es), I)
    BY <1>1, <2>7, <2>8, BytesMove
  <2> QED BY <2>9 DEF I
<1>4. /\ 1 .. Len(es) = (1 .. n) \cup (n + 1 .. Len(es)) /\ (1 .. n) \cap (n + 1 .. Len(es)) = {}
      /\ IsFiniteSet(1 .. n) /\ IsFiniteSet(n + 1 .. Len(es))
  <2>1. IsFiniteSet(1 .. n) /\ IsFiniteSet(n + 1 .. Len(es))
    <3>1. 1 \in Int /\ n \in Int /\ n + 1 \in Int /\ Len(es) \in Int
      BY <1>0
    <3> QED BY <3>1, FS_Interval
  <2> QED BY <1>0, <2>1
<1>6. SumFunctionOnSet(SizesOf(es), 1 .. Len(es))
        = SumFunctionOnSet(SizesOf(es), 1 .. n) + SumFunctionOnSet(SizesOf(es), n + 1 .. Len(es))
  <2>1. \A x \in (1 .. n) \cup (n + 1 .. Len(es)) : SizesOf(es)[x] \in Nat
    BY <1>4, BytesFacts
  <2> QED BY <1>4, <2>1, SumSplits
<1>7. BytesOf(lower) \in Nat /\ BytesOf(upper) \in Nat
  BY <1>1, BytesFacts
<1>8. BytesOf(es) = SumFunctionOnSet(SizesOf(es), 1 .. Len(es))
  BY BytesFacts
<1> QED BY <1>2, <1>3, <1>6, <1>7, <1>8 DEF lower, upper

LEMMA BytesOfMore ==
  ASSUME NEW S, Sized(S), NEW es \in Seq(S), NEW e \in S
  PROVE  /\ BytesOf(es) \in Nat /\ BytesOf(<<>>) = 0
         /\ BytesOf(Append(es, e)) = BytesOf(es) + e.size
<1> DEFINE ds == Append(es, e)
           n == Len(es)
<1>1. ds \in Seq(S) /\ Len(ds) = n + 1 /\ ds[n + 1] = e /\ n \in Nat
      /\ \A i \in 1 .. n : ds[i] = es[i]
  OBVIOUS
<1> HIDE DEF ds
<1>2. n + 1 \in 1 .. Len(ds) /\ (1 .. Len(ds)) \ {n + 1} = 1 .. n
  BY <1>1
<1>3. SumFunctionOnSet(SizesOf(ds), 1 .. Len(ds)) = SizesOf(ds)[n + 1] + SumFunctionOnSet(SizesOf(ds), 1 .. n)
  <2>1. IsFiniteSet(1 .. Len(ds)) /\ \A x \in 1 .. Len(ds) : SizesOf(ds)[x] \in Nat
    BY <1>1, BytesFacts
  <2>2. SumFunctionOnSet(SizesOf(ds), 1 .. Len(ds))
          = SizesOf(ds)[n + 1] + SumFunctionOnSet(SizesOf(ds), (1 .. Len(ds)) \ {n + 1})
    BY <1>2, <2>1, SumTakesOut
  <2> QED BY <1>2, <2>2
<1>4. SumFunctionOnSet(SizesOf(ds), 1 .. n) = SumFunctionOnSet(SizesOf(es), 1 .. n)
  <2>1. \A i \in 1 .. n : SizesOf(ds)[i] = ds[i].size
    <3>1. \A i \in 1 .. Len(ds) : SizesOf(ds)[i] = ds[i].size
      BY <1>1, BytesFacts
    <3> QED BY <1>1, <3>1
  <2>2. \A i \in 1 .. n : SizesOf(es)[i] = es[i].size /\ SizesOf(es)[i] \in Nat
    BY BytesFacts
  <2>3. IsFiniteSet(1 .. n)
    BY BytesFacts
  <2> DEFINE f == SizesOf(es)
             g == SizesOf(ds)
             J == 1 .. n
  <2>4. \A i \in J : f[i] \in Nat /\ g[i] = f[i]
    BY <1>1, <2>1, <2>2
  <2>5. IsFiniteSet(J)
    BY <2>3
  <2> HIDE DEF f, g, J
  <2>6. SumFunctionOnSet(g, J) = SumFunctionOnSet(f, J)
    BY <2>4, <2>5, SumAlike
  <2> QED BY <2>6 DEF f, g, J
<1>5. SizesOf(ds)[n + 1] = e.size /\ e.size \in Nat
  BY <1>1, <1>2, BytesFacts
<1>6. BytesOf(ds) = e.size + BytesOf(es) /\ BytesOf(es) \in Nat
  <2>1. BytesOf(ds) = SumFunctionOnSet(SizesOf(ds), 1 .. Len(ds))
    BY <1>1, BytesFacts
  <2>2. BytesOf(es) = SumFunctionOnSet(SizesOf(es), 1 .. n) /\ BytesOf(es) \in Nat
    BY BytesFacts
  <2> QED BY <1>3, <1>4, <1>5, <2>1, <2>2
<1>7. BytesOf(<<>>) = 0
  <2>1. <<>> \in Seq(S) /\ 1 .. Len(<<>>) = {}
    OBVIOUS
  <2>2. BytesOf(<<>>) = SumFunctionOnSet(SizesOf(<<>>), 1 .. Len(<<>>))
    BY <2>1, BytesFacts
  <2>3. BytesOf(<<>>) = SumFunctionOnSet(SizesOf(<<>>), {})
    BY <2>1, <2>2
  <2> QED BY <2>3, FS_EmptySet, SumUnfolds
<1> QED BY <1>5, <1>6, <1>7 DEF ds

LEMMA BytesOfNone == BytesOf(<<>>) = 0
<1>1. PICK e : e = [size |-> 0]
  OBVIOUS
<1>2. <<>> \in Seq({e}) /\ e \in {e} /\ Sized({e})
  BY <1>1 DEF Sized
<1> QED BY <1>2, BytesOfMore

(* The entry that was hit moves to the end.                                *)
Turn(n, i) == [j \in 1 .. n |-> IF j < i THEN j ELSE IF j < n THEN j + 1 ELSE i]

LEMMA TurnIsABijection ==
  ASSUME NEW n \in Nat, NEW i \in 1 .. n PROVE Turn(n, i) \in Bijection(1 .. n, 1 .. n)
<1> DEFINE p == Turn(n, i)
<1>1. \A j \in 1 .. n : p[j] = IF j < i THEN j ELSE IF j < n THEN j + 1 ELSE i
  BY DEF Turn
<1>2. p \in [1 .. n -> 1 .. n]
  BY DEF Turn
<1> HIDE DEF p
<1>3. \A j, k \in 1 .. n : p[j] = p[k] => j = k
  BY <1>1
<1>4. ASSUME NEW k \in 1 .. n PROVE \E j \in 1 .. n : p[j] = k
  <2>1. CASE k < i
    BY <1>1, <2>1
  <2>2. CASE k = i
    <3>1. n \in 1 .. n /\ p[n] = i
      BY <1>1
    <3> QED BY <2>2, <3>1
  <2>3. CASE k > i
    <3>1. k - 1 \in 1 .. n /\ p[k - 1] = k
      BY <1>1, <2>3
    <3> QED BY <3>1
  <2> QED BY <2>1, <2>2, <2>3
<1> QED BY <1>2, <1>3, <1>4 DEF p, Bijection, Injection, Surjection, IsInjective

Turned(es, i) == Append(RemoveAt(es, i), es[i])

LEMMA Joined ==
  ASSUME NEW S, NEW s \in Seq(S), NEW t \in Seq(S)
  PROVE  /\ s \o t \in Seq(S) /\ Len(s \o t) = Len(s) + Len(t)
         /\ \A j \in 1 .. Len(s) : (s \o t)[j] = s[j]
         /\ \A j \in Len(s) + 1 .. Len(s) + Len(t) : (s \o t)[j] = t[j - Len(s)]
OBVIOUS

LEMMA Appended ==
  ASSUME NEW S, NEW s \in Seq(S), NEW e \in S
  PROVE  /\ Append(s, e) \in Seq(S) /\ Len(Append(s, e)) = Len(s) + 1
         /\ \A j \in 1 .. Len(s) : Append(s, e)[j] = s[j]
         /\ Append(s, e)[Len(s) + 1] = e
OBVIOUS

LEMMA TurnedSequence ==
  ASSUME NEW S, NEW es \in Seq(S), NEW i \in 1 .. Len(es)
  PROVE  /\ Turned(es, i) \in Seq(S) /\ Len(Turned(es, i)) = Len(es)
         /\ \A j \in 1 .. Len(es) : Turned(es, i)[j] = es[Turn(Len(es), i)[j]]
<1> DEFINE n == Len(es)
           lower == SubSeq(es, 1, i - 1)
           upper == SubSeq(es, i + 1, n)
           rest == lower \o upper
           p == Turn(n, i)
           ds == Turned(es, i)
<1>1. n \in Nat /\ i \in 1 .. n /\ es[i] \in S
  OBVIOUS
<1>2. lower \in Seq(S) /\ Len(lower) = i - 1 /\ \A j \in 1 .. i - 1 : lower[j] = es[j]
  BY <1>1
<1>3. upper \in Seq(S) /\ Len(upper) = n - i /\ \A j \in 1 .. n - i : upper[j] = es[j + i]
  BY <1>1
<1>4. ds = Append(rest, es[i])
  BY DEF RemoveAt, Turned
<1>5. \A j \in 1 .. n : p[j] = IF j < i THEN j ELSE IF j < n THEN j + 1 ELSE i
  BY DEF Turn
<1> HIDE DEF lower, upper, p, ds
<1>6. /\ rest \in Seq(S) /\ Len(rest) = Len(lower) + Len(upper)
      /\ \A j \in 1 .. Len(lower) : rest[j] = lower[j]
      /\ \A j \in Len(lower) + 1 .. Len(lower) + Len(upper) : rest[j] = upper[j - Len(lower)]
  BY <1>1, <1>2, <1>3, Joined
<1> HIDE DEF rest, n
<1>7. Len(rest) = n - 1 /\ Len(lower) + 1 = i /\ Len(lower) + Len(upper) = n - 1
  <2>1. Len(lower) = i - 1
    BY <1>2
  <2>2. Len(upper) = n - i
    BY <1>3
  <2>3. Len(rest) = Len(lower) + Len(upper)
    BY <1>6
  <2> QED BY <1>1, <2>1, <2>2, <2>3
<1>8. \A j \in 1 .. i - 1 : rest[j] = es[j]
  BY <1>2, <1>6
<1>9. ASSUME NEW j \in i .. n - 1 PROVE rest[j] = es[j + 1]
  <2>1. j - (i - 1) \in 1 .. n - i /\ j - (i - 1) + i = j + 1
    BY <1>1
  <2>2. rest[j] = upper[j - (i - 1)]
    BY <1>2, <1>6, <1>7
  <2> QED BY <1>3, <2>1, <2>2
<1>10. /\ ds \in Seq(S) /\ Len(ds) = n - 1 + 1 /\ ds[n - 1 + 1] = es[i]
       /\ \A j \in 1 .. n - 1 : ds[j] = rest[j]
  BY <1>1, <1>4, <1>6, <1>7, Appended
<1>11. n - 1 + 1 = n
  BY <1>1
<1>12. ds \in Seq(S) /\ Len(ds) = n /\ ds[n] = es[i]
  BY <1>10, <1>11
<1>13. ASSUME NEW j \in 1 .. n PROVE ds[j] = es[p[j]]
  <2>1. CASE j < i
    <3>1. j \in 1 .. i - 1 /\ j \in 1 .. n - 1
      BY <1>1, <2>1
    <3> QED BY <1>5, <1>8, <1>10, <2>1, <3>1
  <2>2. CASE j >= i /\ j < n
    <3>1. j \in i .. n - 1 /\ j \in 1 .. n - 1 /\ ~ j < i
      BY <1>1, <2>2
    <3> QED BY <1>5, <1>9, <1>10, <2>2, <3>1
  <2>3. CASE j = n
    <3>1. ~ j < i /\ ~ j < n
      BY <1>1, <2>3
    <3>2. p[j] = i
      BY <1>5, <3>1
    <3> QED BY <1>12, <2>3, <3>2
  <2> QED BY <1>1, <2>1, <2>2, <2>3
<1>14. i \in 1 .. n /\ n \in Nat /\ \A j \in 1 .. n : ds[j] = es[p[j]]
  BY <1>1, <1>13
<1>15. ds \in Seq(S) /\ Len(ds) = n
  BY <1>12
<1> QED BY <1>14, <1>15, Zenon DEF n, p, ds

LEMMA BytesOfTurned ==
  ASSUME NEW S, Sized(S), NEW es \in Seq(S), NEW i \in 1 .. Len(es)
  PROVE  BytesOf(Turned(es, i)) = BytesOf(es)
<1> DEFINE p == Turn(Len(es), i)
           I == 1 .. Len(es)
           ds == Turned(es, i)
<1>1. ds \in Seq(S) /\ Len(ds) = Len(es) /\ \A j \in I : ds[j] = es[p[j]]
  BY TurnedSequence
<1>2. p \in Bijection(I, I)
  BY TurnIsABijection
<1>3. /\ \A x \in I : x \in 1 .. Len(es)
      /\ p \in Bijection(1 .. Len(ds), I) /\ \A j \in 1 .. Len(ds) : ds[j] = es[p[j]]
  BY <1>1, <1>2
<1> HIDE DEF p, I, ds
<1>4. BytesOf(ds) = SumFunctionOnSet(SizesOf(es), I)
  BY <1>1, <1>3, BytesMove
<1> QED BY <1>4, BytesFacts DEF I, ds

-----------------------------------------------------------------------------
(* Entries and computations that began after the last invalidation.        *)
CurrentEntry == [key : Keys, size : ResultSizes, from : {clears}]

CurrentQuery == [key : Keys, from : {clears}]

CacheIInv ==
  /\ cached \in Seq(CurrentEntry)
  /\ asking \in [Users -> Seq(CurrentQuery)]
  /\ NoStaleHit

LEMMA SequenceFacts ==
  ASSUME NEW S, NEW s \in Seq(S)
  PROVE  /\ \A i \in DOMAIN s : s[i] \in S /\ RemoveAt(s, i) \in Seq(S)
         /\ \A e \in S : Append(s, e) \in Seq(S)
         /\ \A n \in 0 .. Len(s) : SubSeq(s, n + 1, Len(s)) \in Seq(S)
         /\ s # <<>> => Front(s) \in Seq(S) /\ Last(s) \in S
<1>1. \A i \in 1 .. Len(s) : SubSeq(s, 1, i - 1) \in Seq(S) /\ SubSeq(s, i + 1, Len(s)) \in Seq(S)
  OBVIOUS
<1>2. \A i \in DOMAIN s : s[i] \in S /\ RemoveAt(s, i) \in Seq(S)
  BY <1>1 DEF RemoveAt
<1>3. s # <<>> => Front(s) \in Seq(S) /\ Last(s) \in S
  BY DEF Front, Last
<1> QED BY <1>2, <1>3

LEMMA CacheInitIInv == CacheInit => CacheIInv
BY DEF CacheInit, CacheIInv, NoStaleHit

LEMMA HitIsCurrent ==
  ASSUME CacheIInv, NEW u \in Users, NEW k \in Keys, Hit(u, k) PROVE CacheIInv'
<1> DEFINE i == CHOOSE j \in DOMAIN cached : cached[j].key = k
<1>1. i \in DOMAIN cached
  BY DEF Hit, CachedKeys
<1>2. /\ cached' = Append(RemoveAt(cached, i), cached[i])
      /\ hit' = [from |-> cached[i].from, now |-> clears]
      /\ UNCHANGED <<asking, clears>>
  BY DEF Hit
<1> HIDE DEF i
<1>3. cached[i] \in CurrentEntry /\ RemoveAt(cached, i) \in Seq(CurrentEntry)
  BY <1>1, SequenceFacts DEF CacheIInv
<1>4. cached' \in Seq(CurrentEntry)
  BY <1>2, <1>3, SequenceFacts
<1>5. NoStaleHit'
  BY <1>2, <1>3 DEF CurrentEntry, NoStaleHit
<1> QED BY <1>2, <1>4, <1>5 DEF CacheIInv, CurrentEntry, CurrentQuery

LEMMA CacheNextIInv == CacheIInv /\ [CacheNext]_cacheVars => CacheIInv'
<1> SUFFICES ASSUME CacheIInv, [CacheNext]_cacheVars PROVE CacheIInv'
  OBVIOUS
<1>1. ASSUME UNCHANGED clears PROVE CurrentEntry' = CurrentEntry /\ CurrentQuery' = CurrentQuery
  BY <1>1 DEF CurrentEntry, CurrentQuery
<1>2. ASSUME NEW u \in Users, NEW k \in Keys, Miss(u, k) PROVE CacheIInv'
  <2>1. [key |-> k, from |-> clears] \in CurrentQuery
    BY DEF CurrentQuery
  <2>2. Append(asking[u], [key |-> k, from |-> clears]) \in Seq(CurrentQuery)
    BY <2>1, SequenceFacts DEF CacheIInv
  <2> QED BY <1>1, <1>2, <2>2 DEF Miss, CacheIInv, NoStaleHit
<1>3. ASSUME NEW u \in Users, Computed(u)
      PROVE  /\ asking' \in [Users -> Seq(CurrentQuery)] /\ Last(asking[u]) \in CurrentQuery
             /\ UNCHANGED <<clears, hit>>
  <2>1. asking[u] \in Seq(CurrentQuery) /\ asking[u] # <<>>
    BY <1>3 DEF Computed, CacheIInv
  <2>2. Front(asking[u]) \in Seq(CurrentQuery) /\ Last(asking[u]) \in CurrentQuery
    BY <2>1, SequenceFacts
  <2> QED BY <1>3, <2>2 DEF Computed, CacheIInv
<1>4. ASSUME NEW u \in Users, NEW s \in ResultSizes, Store(u, s) PROVE CacheIInv'
  <2> DEFINE made == [key |-> Last(asking[u]).key, size |-> s, from |-> Last(asking[u]).from]
  <2>1. Computed(u)
    BY <1>4 DEF Store
  <2>2. made \in CurrentEntry
    BY <1>3, <2>1 DEF CurrentEntry, CurrentQuery
  <2>3. PICK n \in 0 .. Len(cached) : cached' = Append(SubSeq(cached, n + 1, Len(cached)), made)
    BY <1>4 DEF Store, Evictions
  <2> HIDE DEF made
  <2>4. SubSeq(cached, n + 1, Len(cached)) \in Seq(CurrentEntry)
    BY SequenceFacts DEF CacheIInv
  <2>5. cached' \in Seq(CurrentEntry)
    BY <2>2, <2>3, <2>4, SequenceFacts
  <2> QED BY <1>1, <1>3, <2>1, <2>5 DEF CacheIInv, NoStaleHit
<1>5. ASSUME NEW u \in Users, NotStored(u) PROVE CacheIInv'
  BY <1>1, <1>3, <1>5 DEF NotStored, CacheIInv, NoStaleHit
<1>6. ASSUME NEW u \in Users, Raises(u) PROVE CacheIInv'
  <2>1. <<>> \in Seq(CurrentQuery)
    OBVIOUS
  <2> QED BY <1>1, <1>6, <2>1 DEF Raises, CacheIInv, NoStaleHit
(* The lock is free: nobody computes. *)
<1>7. ASSUME NEW u \in Users, ClearCache(u) \/ CloseCache(u) PROVE CacheIInv'
  <2>1. \A v \in Users : asking[v] = <<>>
    BY <1>7 DEF ClearCache, CloseCache, LockIsFree
  <2>2. cached' = <<>> /\ UNCHANGED <<asking, hit>>
    BY <1>7 DEF ClearCache, CloseCache
  <2>3. asking \in [Users -> Seq(CurrentQuery')]
    BY <2>1 DEF CacheIInv
  <2> QED BY <2>2, <2>3 DEF CacheIInv, NoStaleHit
<1>8. ASSUME UNCHANGED cacheVars PROVE CacheIInv'
  BY <1>1, <1>8 DEF cacheVars, CacheIInv, NoStaleHit
<1>9. ASSUME NEW u \in Users, NEW s \in ResultSizes, StoreRaises(u, s) PROVE CacheIInv'
  <2>1. PICK n \in 0 .. Len(cached) : cached' = SubSeq(cached, n + 1, Len(cached))
    BY <1>9 DEF StoreRaises, Evictions
  <2>2. cached' \in Seq(CurrentEntry)
    BY <2>1, SequenceFacts DEF CacheIInv
  <2>3. <<>> \in Seq(CurrentQuery)
    OBVIOUS
  <2> QED BY <1>1, <1>9, <2>2, <2>3 DEF StoreRaises, CacheIInv, NoStaleHit
<1> QED BY <1>2, <1>4, <1>5, <1>6, <1>7, <1>8, <1>9, HitIsCurrent DEF CacheNext

(* A hit never returns what was computed before the last invalidation, for *)
(* any number of threads, keys and computations one inside the other.      *)
THEOREM HitsAreNeverStale == CacheSpec => []NoStaleHit
<1>1. CacheIInv => NoStaleHit
  BY DEF CacheIInv
<1> QED BY CacheInitIInv, CacheNextIInv, <1>1, PTL DEF CacheSpec

(* One entry for each key.                                                 *)
OneEach(es) == \A i, j \in DOMAIN es : es[i].key = es[j].key => i = j

KeysOf(es) == {es[i].key : i \in DOMAIN es}

(* Whoever computes does so alone, in an open cache, each key once, and    *)
(* none that the cache holds.                                              *)
BytesIInv ==
  /\ BytesAreCounted
  /\ OneEach(cached)
  /\ \A u \in Users : OneEach(asking[u]) /\ KeysOf(asking[u]) \cap CachedKeys = {}
  /\ \A u, v \in Users : asking[u] # <<>> /\ asking[v] # <<>> => u = v
  /\ sealed => \A u \in Users : asking[u] = <<>>

LEMMA OneEachIsCounted ==
  ASSUME NEW S, NEW es \in Seq(S), OneEach(es)
  PROVE  Len(es) = Cardinality(KeysOf(es))
<1> DEFINE n == Len(es)
           key == [i \in 1 .. n |-> es[i].key]
<1>1. n \in Nat /\ DOMAIN es = 1 .. n
  OBVIOUS
<1>2. key \in Bijection(1 .. n, KeysOf(es))
  BY <1>1 DEF OneEach, KeysOf, Bijection, Injection, Surjection, IsInjective
<1>3. IsFiniteSet(1 .. n) /\ Cardinality(1 .. n) = n
  BY <1>1, FS_Interval
<1> HIDE DEF key, n
<1>4. Cardinality(KeysOf(es)) = Cardinality(1 .. n)
  BY <1>2, <1>3, FS_Bijection DEF ExistsBijection
<1> QED BY <1>3, <1>4 DEF n

LEMMA EntriesAreSized == Sized(CurrentEntry)
BY CacheAssumption DEF Sized, CurrentEntry

LEMMA HitKeepsBytes ==
  ASSUME CacheIInv, BytesIInv, NEW u \in Users, NEW k \in Keys, Hit(u, k) PROVE BytesIInv'
<1> DEFINE i == CHOOSE j \in DOMAIN cached : cached[j].key = k
           n == Len(cached)
           p == Turn(n, i)
<1>1. i \in DOMAIN cached
  BY DEF Hit, CachedKeys
<1>2. cached' = Turned(cached, i) /\ UNCHANGED <<nbytes, sealed, asking>>
  BY DEF Hit, Turned
<1> HIDE DEF i
<1>3. cached \in Seq(CurrentEntry)
  BY DEF CacheIInv
<1>4. n \in Nat /\ i \in 1 .. n /\ DOMAIN cached = 1 .. n
  BY <1>1, <1>3
<1>5. cached' \in Seq(CurrentEntry) /\ Len(cached') = n /\ \A j \in 1 .. n : cached'[j] = cached[p[j]]
  BY <1>2, <1>3, <1>4, TurnedSequence
<1>6. DOMAIN cached' = 1 .. n
  BY <1>5
<1>7. BytesOf(cached') = BytesOf(cached)
  BY <1>2, <1>3, <1>4, BytesOfTurned, EntriesAreSized
<1>8. p \in Bijection(1 .. n, 1 .. n)
  BY <1>4, TurnIsABijection
<1> HIDE DEF p, n
<1>9. OneEach(cached')
  BY <1>4, <1>5, <1>6, <1>8 DEF BytesIInv, OneEach, Bijection, Injection, IsInjective
<1>10. KeysOf(cached') = KeysOf(cached)
  <2>1. KeysOf(cached') = {cached'[j].key : j \in 1 .. n} /\ KeysOf(cached) = {cached[j].key : j \in 1 .. n}
    BY <1>4, <1>6 DEF KeysOf
  <2>2. \A j \in 1 .. n : cached'[j].key = cached[p[j]].key /\ p[j] \in 1 .. n
    BY <1>5, <1>8 DEF Bijection, Injection
  <2>3. \A j \in 1 .. n : \E i0 \in 1 .. n : p[i0] = j
    BY <1>8 DEF Bijection, Surjection
  <2>4. \A j \in 1 .. n : \E i0 \in 1 .. n : cached'[i0].key = cached[j].key
    BY <2>2, <2>3
  <2> QED BY <2>1, <2>2, <2>4
<1>11. CachedKeys = KeysOf(cached) /\ CachedKeys' = KeysOf(cached')
  BY DEF CachedKeys, KeysOf
<1>12. BytesAreCounted'
  <2>1. sealed' => cached' = <<>>
    <3>1. ~sealed'
      BY <1>2 DEF Hit, LookUp
    <3> QED BY <3>1
  <2> QED BY <1>2, <1>5, <1>7, <1>10, <1>11, <2>1 DEF BytesIInv, BytesAreCounted, n
<1>13. CachedKeys' = CachedKeys
  BY <1>10, <1>11
<1> QED BY <1>2, <1>9, <1>12, <1>13 DEF BytesIInv

(* Whoever computes is alone.                                              *)
LEMMA AloneWhenComputing ==
  ASSUME BytesIInv, NEW u \in Users, asking[u] # <<>> \/ LockIsFree(u)
  PROVE  \A v \in Users \ {u} : asking[v] = <<>>
BY DEF BytesIInv, LockIsFree

LEMMA MissKeepsBytes ==
  ASSUME CacheIInv, BytesIInv, NEW u \in Users, NEW k \in Keys, Miss(u, k) PROVE BytesIInv'
<1> DEFINE q == [key |-> k, from |-> clears]
           s == asking[u]
<1>1. /\ k \notin CachedKeys /\ UNCHANGED <<cached, nbytes, sealed>> /\ ~sealed
      /\ asking' = [asking EXCEPT ![u] = Append(s, q)]
      /\ \A i \in DOMAIN s : s[i].key # k
  BY DEF Miss, LookUp
<1>2. s \in Seq(CurrentQuery) /\ q \in CurrentQuery /\ q.key = k
  BY DEF CacheIInv, CurrentQuery
<1>3. \A v \in Users \ {u} : asking[v] = <<>>
  BY AloneWhenComputing DEF Miss, LookUp
<1> HIDE DEF q
<1>4. /\ DOMAIN Append(s, q) = DOMAIN s \cup {Len(s) + 1} /\ Append(s, q)[Len(s) + 1] = q
      /\ \A i \in DOMAIN s : Append(s, q)[i] = s[i]
  BY <1>2
<1>5. OneEach(Append(s, q)) /\ KeysOf(Append(s, q)) \cap CachedKeys = {}
  <2>1. OneEach(s) /\ KeysOf(s) \cap CachedKeys = {}
    BY DEF BytesIInv
  <2> QED BY <1>1, <1>2, <1>4, <2>1 DEF OneEach, KeysOf
<1>6. CachedKeys' = CachedKeys /\ BytesAreCounted'
  BY <1>1 DEF BytesIInv, BytesAreCounted, CachedKeys
<1>7. /\ asking' \in [Users -> Seq(CurrentQuery)] /\ asking'[u] = Append(s, q)
      /\ \A v \in Users \ {u} : asking'[v] = asking[v]
  BY <1>1, <1>2 DEF CacheIInv
<1>8. \A v \in Users : OneEach(asking'[v]) /\ KeysOf(asking'[v]) \cap CachedKeys' = {}
  BY <1>5, <1>6, <1>7 DEF BytesIInv
<1>9. \A v, w \in Users : asking'[v] # <<>> /\ asking'[w] # <<>> => v = w
  BY <1>3, <1>7
<1> QED BY <1>1, <1>6, <1>8, <1>9 DEF BytesIInv

(* What is left to compute when the innermost computation ends.            *)
LEMMA ComputedFacts ==
  ASSUME CacheIInv, BytesIInv, NEW u \in Users, Computed(u)
  PROVE  /\ Last(asking[u]) \in CurrentQuery /\ Last(asking[u]).key \notin CachedKeys
         /\ ~sealed /\ UNCHANGED sealed
         /\ \A v \in Users : OneEach(asking'[v]) /\ KeysOf(asking'[v]) \cap CachedKeys = {}
                             /\ Last(asking[u]).key \notin KeysOf(asking'[v])
         /\ \A v, w \in Users : asking'[v] # <<>> /\ asking'[w] # <<>> => v = w
<1> DEFINE s == asking[u]
           n == Len(s)
<1>1. /\ s \in Seq(CurrentQuery) /\ s # <<>> /\ asking' = [asking EXCEPT ![u] = Front(s)]
      /\ asking \in [Users -> Seq(CurrentQuery)]
      /\ UNCHANGED sealed
  BY DEF Computed, CacheIInv
<1>2. n \in Nat \ {0} /\ DOMAIN s = 1 .. n /\ Last(s) = s[n] /\ DOMAIN Front(s) = 1 .. n - 1
      /\ \A i \in 1 .. n - 1 : Front(s)[i] = s[i]
  BY <1>1 DEF Last, Front
<1>3. OneEach(s) /\ KeysOf(s) \cap CachedKeys = {}
  BY DEF BytesIInv
<1>4. \A v \in Users \ {u} : asking[v] = <<>>
  BY <1>1, AloneWhenComputing
<1> HIDE DEF s, n
<1>5. Last(s) \in CurrentQuery /\ Last(s).key \notin CachedKeys
  <2>1. n \in DOMAIN s /\ s[n] \in CurrentQuery
    BY <1>1, <1>2 DEF n
  <2> QED BY <1>2, <1>3, <2>1 DEF KeysOf
<1>6. /\ OneEach(Front(s)) /\ KeysOf(Front(s)) \cap CachedKeys = {}
      /\ Last(s).key \notin KeysOf(Front(s))
  <2>1. \A i \in DOMAIN Front(s) : i \in DOMAIN s /\ n \in DOMAIN s /\ i # n /\ Front(s)[i] = s[i]
    BY <1>2
  <2>2. \A i \in DOMAIN Front(s) : Front(s)[i].key # s[n].key
    BY <1>3, <2>1 DEF OneEach
  <2> QED BY <1>2, <1>3, <2>1, <2>2 DEF OneEach, KeysOf
<1>7. asking'[u] = Front(s) /\ \A v \in Users \ {u} : asking'[v] = <<>>
  BY <1>1, <1>4
<1>8. OneEach(<<>>) /\ KeysOf(<<>>) = {}
  BY DEF OneEach, KeysOf
<1>9. ~sealed
  BY <1>1 DEF BytesIInv, s
<1> QED BY <1>1, <1>5, <1>6, <1>7, <1>8, <1>9 DEF s

LEMMA StoreKeepsBytes ==
  ASSUME CacheIInv, BytesIInv, NEW u \in Users, NEW z \in ResultSizes, Store(u, z)
  PROVE  BytesIInv'
<1> DEFINE made == [key |-> Last(asking[u]).key, size |-> z, from |-> Last(asking[u]).from]
           m == Len(cached)
<1>1. Computed(u) /\ z <= CacheBytes
  BY DEF Store
<1>2. PICK n \in 0 .. m :
        /\ Room(n, z)
        /\ cached' = Append(SubSeq(cached, n + 1, m), made)
        /\ nbytes' = nbytes - Oldest(n) + z
  BY DEF Store, Evictions
<1> DEFINE rest == SubSeq(cached, n + 1, m)
<1>3. made \in CurrentEntry /\ made.key = Last(asking[u]).key /\ made.size = z
  BY <1>1, ComputedFacts DEF CurrentEntry, CurrentQuery
<1>4. cached \in Seq(CurrentEntry) /\ m \in Nat /\ n \in Nat /\ n <= m /\ DOMAIN cached = 1 .. m
  BY DEF CacheIInv
<1> HIDE DEF made, m
<1>5. rest \in Seq(CurrentEntry) /\ Len(rest) = m - n /\ \A i \in 1 .. m - n : rest[i] = cached[i + n]
  BY <1>4 DEF m
<1>6. nbytes = Oldest(n) + BytesOf(rest) /\ Oldest(n) \in Nat /\ BytesOf(rest) \in Nat
  BY <1>4, BytesOfPart, EntriesAreSized DEF BytesIInv, BytesAreCounted, Oldest, m
<1> HIDE DEF rest
<1>7. z \in Nat /\ CacheBytes \in Nat /\ CacheEntries \in Nat /\ CacheEntries >= 1
  <2>1. z \in Nat /\ CacheBytes \in Nat
    BY CacheAssumption
  <2>2. CacheEntries \in Nat \ {0}
    BY CacheAssumption
  <2> QED BY <2>1, <2>2
<1>8. BytesOf(cached') = BytesOf(rest) + z
  BY <1>2, <1>3, <1>5, BytesOfMore, EntriesAreSized DEF rest
<1>9. nbytes' = BytesOf(cached') /\ nbytes' <= CacheBytes
  <2>1. nbytes' = BytesOf(rest) + z
    BY <1>2, <1>6, <1>7
  <2>2. CASE n = m
    <3>1. rest = <<>>
      BY <1>4, <1>5, <2>2
    <3>2. BytesOf(rest) = 0
      BY <3>1, <1>3, <1>5, BytesOfMore, EntriesAreSized
    <3> QED BY <1>1, <1>7, <1>8, <2>1, <3>2
  <2>3. CASE nbytes - Oldest(n) + z <= CacheBytes
    BY <1>2, <1>8, <2>1, <2>3
  <2> QED BY <1>2, <2>2, <2>3 DEF Room, m
<1>10. Len(cached') = m - n + 1 /\ Len(cached') <= CacheEntries
  <2>1. Len(cached') = m - n + 1
    BY <1>2, <1>5 DEF rest
  <2>2. n = m \/ m - n < CacheEntries
    BY <1>2 DEF Room, m
  <2> QED BY <1>4, <1>7, <2>1, <2>2
<1>11. /\ cached' \in Seq(CurrentEntry) /\ DOMAIN cached' = (1 .. m - n) \cup {m - n + 1}
       /\ cached'[m - n + 1] = made
       /\ \A i \in 1 .. m - n : cached'[i] = cached[i + n] /\ i + n \in DOMAIN cached
  <2>1. cached' = Append(rest, made)
    BY <1>2 DEF rest
  <2>2. \A i \in 1 .. m - n : i + n \in DOMAIN cached
    BY <1>4
  <2> QED BY <1>3, <1>4, <1>5, <2>1, <2>2
<1>12. OneEach(cached')
  <2>1. OneEach(cached) /\ made.key \notin KeysOf(cached)
    BY <1>1, <1>3, ComputedFacts DEF BytesIInv, CachedKeys, KeysOf
  <2>2. \A i \in 1 .. m - n : cached[i + n].key # made.key
    BY <1>11, <2>1 DEF KeysOf
  <2>3. ASSUME NEW i \in 1 .. m - n, NEW j \in 1 .. m - n, cached[i + n].key = cached[j + n].key
        PROVE  i = j
    <3>1. i + n \in DOMAIN cached /\ j + n \in DOMAIN cached
      BY <1>11
    <3>2. i + n = j + n
      BY <2>1, <2>3, <3>1 DEF OneEach
    <3> QED BY <1>4, <3>2
  <2> QED BY <1>11, <2>2, <2>3 DEF OneEach
<1>13. CachedKeys = KeysOf(cached) /\ CachedKeys' = KeysOf(cached')
  BY DEF CachedKeys, KeysOf
<1>14. CachedKeys' \subseteq CachedKeys \cup {made.key}
  BY <1>11, <1>13 DEF KeysOf
<1>15. Len(cached') = Cardinality(CachedKeys')
  BY <1>11, <1>12, <1>13, OneEachIsCounted
<1>16. sealed' = FALSE
  <2>1. ~sealed /\ sealed' = sealed
    BY <1>1, ComputedFacts
  <2> QED BY <2>1 DEF BytesIInv, BytesAreCounted
<1>17. BytesAreCounted'
  BY <1>9, <1>10, <1>15, <1>16 DEF BytesAreCounted
<1>18. /\ \A v \in Users : OneEach(asking'[v]) /\ KeysOf(asking'[v]) \cap CachedKeys = {}
                             /\ made.key \notin KeysOf(asking'[v])
       /\ \A v, w \in Users : asking'[v] # <<>> /\ asking'[w] # <<>> => v = w
  BY <1>1, <1>3, ComputedFacts
<1>19. \A v \in Users : KeysOf(asking'[v]) \cap CachedKeys' = {}
  BY <1>14, <1>18
<1> QED BY <1>12, <1>16, <1>17, <1>18, <1>19 DEF BytesIInv

(* What was evicted before the copy failed is counted no more.             *)
LEMMA StoreRaisesKeepsBytes ==
  ASSUME CacheIInv, BytesIInv, NEW u \in Users, NEW z \in ResultSizes, StoreRaises(u, z)
  PROVE  BytesIInv'
<1> DEFINE m == Len(cached)
<1>1. PICK n \in 0 .. m :
        cached' = SubSeq(cached, n + 1, m) /\ nbytes' = nbytes - Oldest(n)
  BY DEF StoreRaises, Evictions
<1>2. cached \in Seq(CurrentEntry) /\ m \in Nat /\ n \in Nat /\ n <= m /\ DOMAIN cached = 1 .. m
  BY DEF CacheIInv
<1> HIDE DEF m
<1>3. /\ cached' \in Seq(CurrentEntry) /\ Len(cached') = m - n
      /\ \A i \in 1 .. m - n : cached'[i] = cached[i + n] /\ i + n \in DOMAIN cached
  <2> DEFINE rest == SubSeq(cached, n + 1, m)
  <2>1. rest \in Seq(CurrentEntry) /\ Len(rest) = m - n /\ \A i \in 1 .. m - n : rest[i] = cached[i + n]
    BY <1>2 DEF m
  <2>2. \A i \in 1 .. m - n : i + n \in DOMAIN cached
    BY <1>2
  <2> HIDE DEF rest
  <2>3. cached' = rest
    BY <1>1 DEF rest
  <2> QED BY <2>1, <2>2, <2>3
<1>4. nbytes = Oldest(n) + BytesOf(cached') /\ Oldest(n) \in Nat /\ BytesOf(cached') \in Nat
  BY <1>1, <1>2, BytesOfPart, EntriesAreSized DEF BytesIInv, BytesAreCounted, Oldest, m
<1>5. nbytes' = BytesOf(cached') /\ nbytes' <= CacheBytes
  BY <1>1, <1>4, CacheAssumption DEF BytesIInv, BytesAreCounted
<1>6. Len(cached') <= CacheEntries
  <2>1. m <= CacheEntries /\ CacheEntries \in Nat
    BY CacheAssumption DEF BytesIInv, BytesAreCounted, m
  <2> QED BY <1>2, <1>3, <2>1
<1>7. OneEach(cached')
  <2> SUFFICES ASSUME NEW i \in DOMAIN cached', NEW j \in DOMAIN cached', cached'[i].key = cached'[j].key
               PROVE  i = j
    BY DEF OneEach
  <2>1. i \in 1 .. m - n /\ j \in 1 .. m - n
    BY <1>3
  <2>2. i + n = j + n
    BY <1>3, <2>1 DEF BytesIInv, OneEach
  <2> QED BY <1>2, <2>1, <2>2
<1>8. CachedKeys' = KeysOf(cached')
  BY DEF CachedKeys, KeysOf
<1>9. Len(cached') = Cardinality(CachedKeys')
  BY <1>3, <1>7, <1>8, OneEachIsCounted
<1>10. /\ asking[u] # <<>> /\ asking' = [asking EXCEPT ![u] = <<>>]
       /\ UNCHANGED sealed
  BY DEF StoreRaises
<1>11. \A v \in Users : asking'[v] = <<>>
  BY <1>10, AloneWhenComputing DEF CacheIInv
<1>12. OneEach(<<>>) /\ KeysOf(<<>>) = {}
  BY DEF OneEach, KeysOf
<1>13. ~sealed'
  BY <1>10 DEF BytesIInv
<1>14. BytesAreCounted'
  BY <1>5, <1>6, <1>9, <1>13 DEF BytesAreCounted
<1> QED BY <1>7, <1>11, <1>12, <1>13, <1>14 DEF BytesIInv

(* The lock is free, and the cache holds nothing from now on.              *)
LEMMA EmptyKeepsBytes ==
  ASSUME CacheIInv, BytesIInv, NEW u \in Users, asking[u] = <<>>, LockIsFree(u),
         cached' = <<>>, nbytes' = 0, UNCHANGED asking
  PROVE  BytesIInv'
<1>1. \A v \in Users : asking'[v] = <<>>
  BY DEF LockIsFree
<1>2. OneEach(<<>>) /\ KeysOf(<<>>) = {}
  BY DEF OneEach, KeysOf
<1>3. BytesOf(<<>>) = 0
  BY BytesOfNone
<1>4. CachedKeys' = {} /\ Cardinality({}) = 0 /\ Len(cached') = 0
  BY FS_EmptySet DEF CachedKeys
<1>5. BytesAreCounted'
  BY <1>3, <1>4, CacheAssumption DEF BytesAreCounted
<1> QED BY <1>1, <1>2, <1>5 DEF BytesIInv

LEMMA BytesInit == CacheInit => BytesIInv
<1> SUFFICES ASSUME CacheInit PROVE BytesIInv
  OBVIOUS
<1>1. \A v \in Users : asking[v] = <<>>
  BY DEF CacheInit
<1>2. OneEach(<<>>) /\ KeysOf(<<>>) = {}
  BY DEF OneEach, KeysOf
<1>3. BytesOf(<<>>) = 0
  BY BytesOfNone
<1>4. CachedKeys = {} /\ Cardinality({}) = 0 /\ Len(cached) = 0 /\ cached = <<>> /\ nbytes = 0
  BY FS_EmptySet DEF CachedKeys, CacheInit
<1>5. BytesAreCounted
  BY <1>3, <1>4, CacheAssumption DEF BytesAreCounted
<1> QED BY <1>1, <1>2, <1>4, <1>5 DEF BytesIInv

LEMMA BytesNext == CacheIInv /\ BytesIInv /\ [CacheNext]_cacheVars => BytesIInv'
<1> SUFFICES ASSUME CacheIInv, BytesIInv, [CacheNext]_cacheVars PROVE BytesIInv'
  OBVIOUS
<1>1. ASSUME NEW u \in Users, NotStored(u) PROVE BytesIInv'
  <2>1. Computed(u) /\ UNCHANGED <<cached, nbytes>>
    BY <1>1 DEF NotStored
  <2>2. BytesAreCounted' /\ CachedKeys' = CachedKeys /\ ~sealed'
    BY <2>1, ComputedFacts DEF BytesIInv, BytesAreCounted, CachedKeys
  <2> QED BY <2>1, <2>2, ComputedFacts DEF BytesIInv
<1>2. ASSUME NEW u \in Users, Raises(u) PROVE BytesIInv'
  <2>1. /\ UNCHANGED <<cached, nbytes, sealed>> /\ asking[u] # <<>>
        /\ asking' = [asking EXCEPT ![u] = <<>>]
    BY <1>2 DEF Raises
  <2>2. \A v \in Users : asking'[v] = <<>>
    BY <2>1, AloneWhenComputing DEF CacheIInv
  <2>3. OneEach(<<>>) /\ KeysOf(<<>>) = {}
    BY DEF OneEach, KeysOf
  <2>4. BytesAreCounted'
    BY <2>1 DEF BytesIInv, BytesAreCounted, CachedKeys
  <2> QED BY <2>1, <2>2, <2>3, <2>4 DEF BytesIInv
<1>3. ASSUME NEW u \in Users, ClearCache(u) \/ CloseCache(u) PROVE BytesIInv'
  BY <1>3, EmptyKeepsBytes DEF ClearCache, CloseCache
<1>4. ASSUME UNCHANGED cacheVars PROVE BytesIInv'
  BY <1>4 DEF cacheVars, BytesIInv, BytesAreCounted, CachedKeys
<1> QED BY <1>1, <1>2, <1>3, <1>4, HitKeepsBytes, MissKeepsBytes, StoreKeepsBytes, StoreRaisesKeepsBytes
       DEF CacheNext

(* The cache counts the bytes of the entries it has, keeps one entry for   *)
(* each key and stays within both of its bounds, whatever is computed in   *)
(* whatever other computation and whatever room has to be made.            *)
THEOREM BytesAreAlwaysCounted == CacheSpec => []BytesAreCounted
<1>1. BytesIInv => BytesAreCounted
  BY DEF BytesIInv
<1> QED BY CacheInitIInv, CacheNextIInv, BytesInit, BytesNext, <1>1, PTL DEF CacheSpec

-----------------------------------------------------------------------------
(* What a forward can have read, and the record of a forward under way.    *)
Sights == {"master", "copy", "swapped", "changed"}

FrameSet == [block : Blocks, read : SUBSET Sights, reentered : BOOLEAN]

(* Only the innermost forward runs on copies, and it is the one of the     *)
(* active block; every other one was disturbed by a refused call.          *)
ResidencyIInv ==
  /\ frames \in Seq(FrameSet)
  /\ place \in [Blocks -> [Weights -> {"master", "copy", "swapped"}]]
  /\ entered \in Blocks \cup {NoBlock}
  /\ entered # NoBlock => frames # <<>> /\ Top.block = entered /\ \A w \in Weights : place[entered][w] = "copy"
  /\ \A i \in DOMAIN frames : ~frames[i].reentered => i = Len(frames) /\ entered = frames[i].block
  /\ \A i \in DOMAIN frames : ~frames[i].reentered => frames[i].read \subseteq {"copy"} \/ touched # {}
  /\ ForwardsAreExact
  /\ MastersReturn

LEMMA ResidencyInitIInv == ResidencyInit => ResidencyIInv
BY ResidencyAssumption DEF ResidencyInit, ResidencyIInv, ForwardsAreExact, MastersReturn, Blocks, FrameSet

LEMMA FrameFacts ==
  ASSUME ResidencyIInv, NEW i \in DOMAIN frames
  PROVE  frames[i] \in FrameSet /\ frames[i].block \in Blocks /\ frames[i].block # NoBlock
<1>1. frames[i] \in FrameSet
  BY DEF ResidencyIInv
<1> QED BY <1>1, ResidencyAssumption DEF FrameSet, Blocks

LEMMA MappedSequence ==
  ASSUME NEW S, NEW s \in Seq(S), NEW t, t = [i \in DOMAIN s |-> t[i]], \A i \in DOMAIN s : t[i] \in S
  PROVE  t \in Seq(S) /\ Len(t) = Len(s) /\ DOMAIN t = DOMAIN s
OBVIOUS

LEMMA EnterKeepsIInv ==
  ASSUME ResidencyIInv, NEW b \in Blocks, Enter(b) PROVE ResidencyIInv'
<1> DEFINE n == Len(frames) + 1
<1>1. /\ frames' = Append(frames, Frame(b)) /\ entered' = b
      /\ place' = [place EXCEPT ![b] = [w \in Weights |-> "copy"]]
      /\ entered = NoBlock /\ b # NoBlock /\ UNCHANGED <<touched, done>>
  BY ResidencyAssumption DEF Enter, Blocks
<1>2. Frame(b) \in FrameSet
  BY DEF Frame, FrameSet
<1>3. frames' \in Seq(FrameSet) /\ DOMAIN frames' = 1 .. n /\ Len(frames') = n
  BY <1>1, <1>2 DEF ResidencyIInv
<1>4. frames'[n] = Frame(b) /\ \A i \in DOMAIN frames : i # n /\ frames'[i] = frames[i]
  BY <1>1 DEF ResidencyIInv
<1>5. frames'[n].block = b /\ frames'[n].read = {}
  BY <1>4 DEF Frame
<1>6. \A i \in DOMAIN frames : frames[i].reentered
  <2>1. \A i \in DOMAIN frames : frames[i].block # entered
    BY <1>1, FrameFacts
  <2> QED BY <2>1 DEF ResidencyIInv
<1>7. \A i \in 1 .. n : i = n \/ i \in DOMAIN frames
  BY DEF ResidencyIInv
<1>8. \A i \in DOMAIN frames' : ~frames'[i].reentered => i = n
  BY <1>3, <1>4, <1>6, <1>7
<1>9. /\ \A i \in DOMAIN frames' : ~frames'[i].reentered => i = Len(frames') /\ entered' = frames'[i].block
      /\ \A i \in DOMAIN frames' : ~frames'[i].reentered => frames'[i].read \subseteq {"copy"} \/ touched' # {}
  BY <1>1, <1>3, <1>5, <1>8
<1>10. frames' # <<>> /\ Top'.block = entered'
  BY <1>1, <1>3, <1>5 DEF Top
<1>11. ForwardsAreExact' /\ MastersReturn'
  BY <1>1, ResidencyAssumption DEF ResidencyIInv, ForwardsAreExact, MastersReturn, Blocks
<1>12. place' \in [Blocks -> [Weights -> {"master", "copy", "swapped"}]] /\ \A w \in Weights : place'[b][w] = "copy"
  BY <1>1 DEF ResidencyIInv
<1> QED BY <1>1, <1>3, <1>9, <1>10, <1>11, <1>12 DEF ResidencyIInv

(* What leave() does, whether or not the block is the active one.          *)
LEMMA LeaveFacts ==
  ASSUME ResidencyIInv, NEW b \in Blocks, Leave(b)
  PROVE  /\ place' \in [Blocks -> [Weights -> {"master", "copy", "swapped"}]]
         /\ entered' = IF entered = b THEN NoBlock ELSE entered
         /\ entered # b => UNCHANGED <<place, copies, touched>>
         /\ MastersReturn'
<1>1. CASE entered = b
  <2>1. place' = Restored(b) /\ entered' = NoBlock /\ copies' = {} /\ touched' = {}
    BY <1>1 DEF Leave
  <2>2. place' \in [Blocks -> [Weights -> {"master", "copy", "swapped"}]]
    BY <2>1 DEF Restored, ResidencyIInv
  <2>3. \A c \in Blocks : \A w \in Weights : place'[c][w] # "copy"
    BY <1>1, <2>1 DEF Restored, ResidencyIInv, MastersReturn
  <2> QED BY <1>1, <2>1, <2>2, <2>3 DEF MastersReturn
<1>2. CASE entered # b
  BY <1>2 DEF Leave, ResidencyIInv, MastersReturn
<1> QED BY <1>1, <1>2

LEMMA RefuseKeepsIInv ==
  ASSUME ResidencyIInv, NEW b \in Blocks, Refuse(b) PROVE ResidencyIInv'
<1>1. Leave(b) /\ done' = done
  BY DEF Refuse
<1> DEFINE now(i) == frames[i].reentered \/ frames[i].block = b
<1>10. frames' = [i \in DOMAIN frames |-> [frames[i] EXCEPT !.reentered = now(i)]]
  BY DEF Refuse
<1>11. \A i \in DOMAIN frames : now(i) \in BOOLEAN
  OBVIOUS
<1>12. \A i \in DOMAIN frames : ~now(i) => ~frames[i].reentered /\ frames[i].block # b
  OBVIOUS
<1> HIDE DEF now
<1>13. ASSUME NEW i \in DOMAIN frames
       PROVE  /\ frames'[i] \in FrameSet /\ frames'[i].reentered = now(i)
              /\ frames'[i].block = frames[i].block /\ frames'[i].read = frames[i].read
  <2>1. frames'[i] = [frames[i] EXCEPT !.reentered = now(i)]
    BY <1>10
  <2>2. frames[i] \in FrameSet
    BY DEF ResidencyIInv
  <2> QED BY <1>11, <2>1, <2>2 DEF FrameSet
<1>2. /\ frames' \in Seq(FrameSet) /\ DOMAIN frames' = DOMAIN frames /\ Len(frames') = Len(frames)
      /\ \A i \in DOMAIN frames : frames'[i].block = frames[i].block /\ frames'[i].read = frames[i].read
  <2>1. \A i \in DOMAIN frames : frames'[i] \in FrameSet
    BY <1>13
  <2>2. frames \in Seq(FrameSet)
    BY DEF ResidencyIInv
  <2>3. frames' = [i \in DOMAIN frames |-> frames'[i]]
    BY <1>10
  <2>4. frames' \in Seq(FrameSet) /\ Len(frames') = Len(frames) /\ DOMAIN frames' = DOMAIN frames
    BY <2>1, <2>2, <2>3, MappedSequence
  <2> QED BY <1>13, <2>4
<1>3. \A i \in DOMAIN frames : ~frames'[i].reentered => ~frames[i].reentered /\ frames[i].block # b
  BY <1>12, <1>13
<1>4. \A i \in DOMAIN frames : ~frames'[i].reentered => i = Len(frames) /\ entered = frames[i].block /\ entered # b
  BY <1>3 DEF ResidencyIInv
<1>5. \A i \in DOMAIN frames' : ~frames'[i].reentered => i = Len(frames') /\ entered' = frames'[i].block
  BY <1>1, <1>2, <1>4, LeaveFacts
<1>6. \A i \in DOMAIN frames' : ~frames'[i].reentered => frames'[i].read \subseteq {"copy"} \/ touched' # {}
  BY <1>1, <1>2, <1>3, <1>4, LeaveFacts DEF ResidencyIInv
<1>7. entered' # NoBlock => entered # b /\ entered' = entered
  BY <1>1, LeaveFacts
<1>8. entered' # NoBlock => frames' # <<>> /\ Top'.block = entered' /\ \A w \in Weights : place'[entered'][w] = "copy"
  <2> SUFFICES ASSUME entered' # NoBlock
               PROVE  frames' # <<>> /\ Top'.block = entered' /\ \A w \in Weights : place'[entered'][w] = "copy"
    OBVIOUS
  <2>1. entered # b /\ entered' = entered /\ place' = place
    BY <1>1, <1>7, LeaveFacts
  <2>2. frames # <<>> /\ Top.block = entered /\ \A w \in Weights : place[entered][w] = "copy"
    BY <2>1 DEF ResidencyIInv
  <2>3. Len(frames) \in DOMAIN frames
    BY <2>2 DEF ResidencyIInv
  <2> QED BY <1>2, <2>1, <2>2, <2>3 DEF Top
<1>9. entered' \in Blocks \cup {NoBlock} /\ ForwardsAreExact'
  BY <1>1, LeaveFacts DEF ResidencyIInv, ForwardsAreExact
<1> QED BY <1>1, <1>2, <1>5, <1>6, <1>8, <1>9, LeaveFacts DEF ResidencyIInv

LEMMA ComputeKeepsIInv ==
  ASSUME ResidencyIInv, NEW w \in Weights, Compute(w) PROVE ResidencyIInv'
<1> DEFINE n == Len(frames)
           sight == IF w \in touched THEN "changed" ELSE place[Top.block][w]
<1>1. n \in DOMAIN frames /\ Top \in FrameSet /\ Top = frames[n]
  BY DEF Compute, ResidencyIInv, Top
<1>2. sight \in Sights
  BY <1>1 DEF ResidencyIInv, FrameSet, Sights
<1>3. frames' = [frames EXCEPT ![n].read = @ \cup {sight}]
  BY DEF Compute
<1>4. UNCHANGED <<entered, copies, touched, place, done>>
  BY DEF Compute
<1>5. /\ frames' \in Seq(FrameSet) /\ DOMAIN frames' = DOMAIN frames /\ Len(frames') = n
      /\ \A i \in DOMAIN frames : frames'[i].block = frames[i].block /\ frames'[i].reentered = frames[i].reentered
      /\ \A i \in DOMAIN frames : i # n => frames'[i].read = frames[i].read
      /\ frames'[n].read = frames[n].read \cup {sight}
  <2> HIDE DEF sight
  <2> QED BY <1>1, <1>2, <1>3 DEF ResidencyIInv, FrameSet
<1>6. ~frames[n].reentered => sight = "copy" \/ touched # {}
  <2>1. ~frames[n].reentered => entered = Top.block
    BY <1>1 DEF ResidencyIInv
  <2>2. Top.block # NoBlock
    BY <1>1, ResidencyAssumption DEF FrameSet, Blocks
  <2> QED BY <2>1, <2>2 DEF ResidencyIInv
<1> HIDE DEF sight
<1>7. \A i \in DOMAIN frames' : ~frames'[i].reentered => frames'[i].read \subseteq {"copy"} \/ touched' # {}
  BY <1>4, <1>5, <1>6 DEF ResidencyIInv
<1>8. \A i \in DOMAIN frames' : ~frames'[i].reentered => i = Len(frames') /\ entered' = frames'[i].block
  BY <1>4, <1>5 DEF ResidencyIInv
<1>9. Top'.block = Top.block /\ frames' # <<>>
  BY <1>1, <1>5 DEF Top
<1> QED BY <1>4, <1>5, <1>7, <1>8, <1>9 DEF ResidencyIInv, ForwardsAreExact, MastersReturn

LEMMA EndKeepsIInv ==
  ASSUME ResidencyIInv, frames # <<>>, Leave(Top.block), frames' = Front(frames), ForwardsAreExact'
  PROVE  ResidencyIInv'
<1> DEFINE n == Len(frames)
<1>1. n \in DOMAIN frames /\ Top.block \in Blocks
  <2>1. n \in DOMAIN frames
    BY DEF ResidencyIInv
  <2> QED BY <2>1, FrameFacts DEF Top
<1>2. frames' \in Seq(FrameSet)
  BY SequenceFacts DEF ResidencyIInv
<1>3. \A i \in DOMAIN frames' : i \in DOMAIN frames /\ i # n /\ frames'[i] = frames[i]
  BY DEF ResidencyIInv, Front
<1>4. \A i \in DOMAIN frames' : frames'[i].reentered
  BY <1>3 DEF ResidencyIInv
<1>5. entered' = NoBlock
  BY <1>1, LeaveFacts DEF ResidencyIInv
<1> QED BY <1>1, <1>2, <1>4, <1>5, LeaveFacts DEF ResidencyIInv

LEMMA ResidencyNextIInv == ResidencyIInv /\ [ResidencyNext]_residencyVars => ResidencyIInv'
<1> SUFFICES ASSUME ResidencyIInv, [ResidencyNext]_residencyVars PROVE ResidencyIInv'
  OBVIOUS
<1>1. ASSUME NEW b \in Blocks, EnterStops(b) PROVE ResidencyIInv'
  <2>1. entered = NoBlock /\ place' = Restored(b) /\ UNCHANGED <<entered, copies, touched, frames, done>>
    BY <1>1 DEF EnterStops
  <2>2. /\ place' \in [Blocks -> [Weights -> {"master", "copy", "swapped"}]]
        /\ \A c \in Blocks : \A w \in Weights : place[c][w] # "copy" => place'[c][w] # "copy"
    BY <2>1 DEF Restored, ResidencyIInv
  <2> QED BY <2>1, <2>2 DEF ResidencyIInv, ForwardsAreExact, MastersReturn, Top
<1>2. ASSUME NEW b \in Blocks, NEW w \in Weights, Swap(b, w) PROVE ResidencyIInv'
  <2>1. entered = NoBlock /\ place' = [place EXCEPT ![b][w] = "swapped"]
        /\ UNCHANGED <<entered, copies, touched, frames, done>>
    BY <1>2 DEF Swap, ResidencyIInv
  <2>2. /\ place' \in [Blocks -> [Weights -> {"master", "copy", "swapped"}]]
        /\ \A c \in Blocks : \A v \in Weights : place[c][v] # "copy" => place'[c][v] # "copy"
    BY <2>1 DEF ResidencyIInv
  <2> QED BY <2>1, <2>2 DEF ResidencyIInv, ForwardsAreExact, MastersReturn, Top
<1>3. ASSUME NEW w \in Weights, Touch(w) PROVE ResidencyIInv'
  <2>1. entered # NoBlock
    <3>1. place[Top.block][w] = "copy" /\ Len(frames) \in DOMAIN frames
      BY <1>3 DEF Touch, ResidencyIInv
    <3>2. Top.block \in Blocks /\ Top.block # NoBlock
      BY <3>1, FrameFacts DEF Top
    <3> QED BY <3>1, <3>2 DEF ResidencyIInv, MastersReturn
  <2>2. touched' # {} /\ UNCHANGED <<entered, copies, place, frames, done>>
    BY <1>3 DEF Touch
  <2> QED BY <2>1, <2>2 DEF ResidencyIInv, ForwardsAreExact, MastersReturn, Top
<1>4. ASSUME Return PROVE ResidencyIInv'
  <2>1. frames # <<>> /\ Leave(Top.block) /\ frames' = Front(frames) /\ done' = Top
        /\ (entered = Top.block => touched = {})
    BY <1>4 DEF Return
  <2>2. Len(frames) \in DOMAIN frames
    BY <2>1 DEF ResidencyIInv
  <2>3. ForwardsAreExact'
    BY <2>1, <2>2 DEF ResidencyIInv, ForwardsAreExact, Top
  <2> QED BY <2>1, <2>3, EndKeepsIInv
<1>5. ASSUME Raise PROVE ResidencyIInv'
  <2>1. frames # <<>> /\ Leave(Top.block) /\ frames' = Front(frames) /\ done' = done
    BY <1>5 DEF Raise
  <2>2. ForwardsAreExact'
    BY <2>1 DEF ResidencyIInv, ForwardsAreExact
  <2> QED BY <2>1, <2>2, EndKeepsIInv
<1>6. ASSUME CloseResidency \/ UNCHANGED residencyVars PROVE ResidencyIInv'
  <2>1. UNCHANGED <<entered, copies, touched, place, frames, done>>
    BY <1>6 DEF CloseResidency, residencyVars
  <2> QED BY <2>1 DEF ResidencyIInv, ForwardsAreExact, MastersReturn, Top
<1> QED BY <1>1, <1>2, <1>3, <1>4, <1>5, <1>6, EnterKeepsIInv, RefuseKeepsIInv, ComputeKeepsIInv DEF ResidencyNext

(* A forward that returned normally computed on copies of its masters and  *)
(* on nothing else, unless its block was called again while it ran; for    *)
(* any number of blocks, tensors and forwards one inside the other.        *)
THEOREM ForwardsAreAlwaysExact == ResidencySpec => []ForwardsAreExact
<1>1. ResidencyIInv => ForwardsAreExact
  BY DEF ResidencyIInv
<1> QED BY ResidencyInitIInv, ResidencyNextIInv, <1>1, PTL DEF ResidencySpec

(* Whatever raises, is refused or is replaced, only the active block has   *)
(* copies on the device, and none is left when no block is active.         *)
THEOREM MastersAlwaysReturn == ResidencySpec => []MastersReturn
<1>1. ResidencyIInv => MastersReturn
  BY DEF ResidencyIInv
<1> QED BY ResidencyInitIInv, ResidencyNextIInv, <1>1, PTL DEF ResidencySpec

(* The plan was made for the sizes the blocks have, and a block that was   *)
(* entered is a streamed one.                                              *)
PlanIInv ==
  /\ weight \in [Blocks -> WeightBytes] /\ budget \in Budgets /\ resident \in 0 .. BlockCount
  /\ PlanFits(weight, resident, budget)
  /\ entered # NoBlock => entered \in Streamed

LEMMA PlanInit == ResidencyInit => PlanIInv
BY DEF ResidencyInit, PlanIInv

LEMMA PlanNext == ResidencyIInv /\ PlanIInv /\ [ResidencyNext]_residencyVars => PlanIInv'
<1> SUFFICES ASSUME ResidencyIInv, PlanIInv, [ResidencyNext]_residencyVars PROVE PlanIInv'
  OBVIOUS
<1>1. UNCHANGED sizesAndPlan => UNCHANGED <<weight, budget, resident>> /\ Streamed' = Streamed
  BY DEF sizesAndPlan, Streamed
<1>2. ASSUME UNCHANGED sizesAndPlan, entered' \in {entered, NoBlock} PROVE PlanIInv'
  <2>1. PlanFits(weight, resident, budget)'
    BY <1>1, <1>2 DEF PlanIInv, PlanFits, Resident, InTransit, BlockBytes
  <2> QED BY <1>1, <1>2, <2>1 DEF PlanIInv
<1>3. ASSUME NEW b \in Blocks, Enter(b) PROVE PlanIInv'
  <2>1. UNCHANGED sizesAndPlan /\ entered' = b /\ b \in Streamed
    BY <1>3 DEF Enter, Called
  <2>2. PlanFits(weight, resident, budget)'
    BY <1>1, <2>1 DEF PlanIInv, PlanFits, Resident, InTransit, BlockBytes
  <2> QED BY <1>1, <2>1, <2>2 DEF PlanIInv
<1>4. ASSUME NEW b \in Blocks, EnterStops(b) \/ Refuse(b) PROVE PlanIInv'
  BY <1>2, <1>4 DEF EnterStops, Refuse, Leave
<1>5. ASSUME NEW w \in Weights, (\E b \in Blocks : Swap(b, w)) \/ Compute(w) \/ Touch(w) PROVE PlanIInv'
  BY <1>2, <1>5 DEF Swap, Compute, Touch
<1>6. ASSUME Return \/ Raise \/ CloseResidency PROVE PlanIInv'
  BY <1>2, <1>6 DEF Return, Raise, CloseResidency, Leave
<1>7. ASSUME UNCHANGED residencyVars PROVE PlanIInv'
  BY <1>2, <1>7 DEF residencyVars, sizesAndPlan
<1> QED BY <1>3, <1>4, <1>5, <1>6, <1>7 DEF ResidencyNext

LEMMA BlocksAreSized ==
  ASSUME NEW ws \in [Blocks -> WeightBytes], NEW b \in Blocks PROVE BlockBytes(ws, b) \in Nat
<1>1. Cardinality(Weights) \in Nat
  BY ResidencyAssumption, FS_CardinalityType
<1>2. ws[b] \in Nat
  BY ResidencyAssumption
<1> QED BY <1>1, <1>2 DEF BlockBytes

(* The room kept in transit is enough for any streamed block.              *)
LEMMA RoomInTransit ==
  ASSUME NEW ws \in [Blocks -> WeightBytes], NEW n \in 0 .. BlockCount
  PROVE  /\ InTransit(ws, n) \in Nat
         /\ \A b \in n + 1 .. BlockCount : BlockBytes(ws, b) <= InTransit(ws, n)
<1> DEFINE B == n + 1 .. BlockCount
           most == {0} \cup {BlockBytes(ws, b) : b \in B}
<1>1. \A b \in B : b \in Blocks
  BY ResidencyAssumption DEF Blocks
<1>2. \A x \in most : x \in Nat
  BY <1>1, BlocksAreSized
<1>3. IsFiniteSet(most)
  <2>1. n + 1 \in Int /\ BlockCount \in Int
    BY ResidencyAssumption
  <2>2. IsFiniteSet(B)
    BY <2>1, FS_Interval
  <2>3. IsFiniteSet({BlockBytes(ws, b) : b \in B})
    <3> DEFINE T == {BlockBytes(ws, b) : b \in B}
    <3>1. [b \in B |-> BlockBytes(ws, b)] \in Surjection(B, T)
      BY DEF Surjection
    <3> HIDE DEF B, T
    <3>2. IsFiniteSet(T)
      BY <2>2, <3>1, FS_Surjection
    <3> QED BY <3>2 DEF T
  <2> QED BY <2>3, FS_Singleton, FS_Union
<1>4. Max(most) \in most /\ \A x \in most : x <= Max(most)
  <2>1. most # {}
    OBVIOUS
  <2> HIDE DEF most
  <2> QED BY <1>2, <1>3, <2>1, MaxIsMost
<1>5. InTransit(ws, n) = Max(most)
  BY DEF InTransit
<1> QED BY <1>2, <1>4, <1>5

LEMMA ResidentIsNatural ==
  ASSUME NEW ws \in [Blocks -> WeightBytes], NEW n \in 0 .. BlockCount
  PROVE  Resident(ws, n) \in Nat
<1> DEFINE f == [b \in Blocks |-> BlockBytes(ws, b)]
           B == 1 .. n
<1>1. \A b \in B : f[b] \in Nat
  <2>1. \A b \in B : b \in Blocks
    BY ResidencyAssumption DEF Blocks
  <2> QED BY <2>1, BlocksAreSized
<1>2. IsFiniteSet(B)
  BY FS_Interval
<1> HIDE DEF f, B
<1>3. SumFunctionOnSet(f, B) \in Nat
  BY <1>1, <1>2, SumIsNatural
<1> QED BY <1>3 DEF Resident, f, B

LEMMA PeakIsPlanned == ResidencyIInv /\ PlanIInv => PeakWithinBudget
<1> SUFFICES ASSUME ResidencyIInv, PlanIInv PROVE PeakWithinBudget
  OBVIOUS
<1> DEFINE S == Streamed
           f == CopyBytes
<1>1. /\ weight \in [Blocks -> WeightBytes] /\ resident \in 0 .. BlockCount
      /\ budget \in Nat
      /\ Resident(weight, resident) + InTransit(weight, resident) <= budget
  BY ResidencyAssumption DEF PlanIInv, PlanFits
<1>2. S = resident + 1 .. BlockCount /\ S \subseteq Blocks
  BY <1>1, ResidencyAssumption DEF Streamed, Blocks
<1>3. IsFiniteSet(S)
  <2>1. IsFiniteSet(1 .. BlockCount)
    BY ResidencyAssumption, FS_Interval
  <2> QED BY <1>2, <2>1, FS_Subset DEF Blocks
<1>4. \A b \in Blocks : f[b] = weight[b] * Cardinality({w \in Weights : place[b][w] = "copy"})
  BY DEF CopyBytes
<1>5. \A b \in S \ {entered} : f[b] = 0
  <2>1. ASSUME NEW b \in S \ {entered} PROVE f[b] = 0
    <3>1. {w \in Weights : place[b][w] = "copy"} = {}
      BY <1>2 DEF ResidencyIInv, MastersReturn
    <3>2. weight[b] \in Nat
      BY <1>1, <1>2, ResidencyAssumption
    <3> QED BY <1>2, <1>4, <3>1, <3>2, FS_EmptySet
  <2> QED BY <2>1
<1>6. Resident(weight, resident) \in Nat /\ InTransit(weight, resident) \in Nat
      /\ \A b \in S : BlockBytes(weight, b) <= InTransit(weight, resident)
  BY <1>1, <1>2, ResidentIsNatural, RoomInTransit
<1> HIDE DEF S, f
<1>7. SumFunctionOnSet(f, S) <= InTransit(weight, resident)
  <2>1. CASE entered \notin S
    <3>1. SumFunctionOnSet(f, S) = 0
      <4>1. \A b \in S : f[b] = 0
        BY <1>5, <2>1
      <4> QED BY <1>3, <4>1, SumOfNothing
    <3> QED BY <1>6, <3>1
  <2>2. CASE entered \in S
    <3>1. entered \in Blocks /\ entered # NoBlock
      BY <1>2, <2>2, ResidencyAssumption DEF Blocks
    <3>2. {w \in Weights : place[entered][w] = "copy"} = Weights
      BY <3>1 DEF ResidencyIInv
    <3>3. f[entered] = BlockBytes(weight, entered)
      <4>1. Cardinality(Weights) \in Nat /\ weight[entered] \in Nat
        BY <1>1, <3>1, ResidencyAssumption, FS_CardinalityType
      <4> QED BY <1>4, <3>1, <3>2, <4>1 DEF BlockBytes
    <3>4. BlockBytes(weight, entered) \in Nat
      BY <1>1, <3>1, BlocksAreSized
    <3>5. SumFunctionOnSet(f, S \ {entered}) = 0
      <4>1. IsFiniteSet(S \ {entered})
        BY <1>3, FS_Subset
      <4> QED BY <1>5, <4>1, SumOfNothing
    <3>6. SumFunctionOnSet(f, S) = f[entered] + SumFunctionOnSet(f, S \ {entered})
      <4>1. \A b \in S : f[b] \in Nat
        BY <1>5, <3>3, <3>4
      <4> QED BY <1>3, <2>2, <4>1, SumTakesOut
    <3> QED BY <1>6, <2>2, <3>3, <3>4, <3>5, <3>6
  <2> QED BY <2>1, <2>2
<1>8. SumFunctionOnSet(f, S) \in Nat
  <2>1. ASSUME NEW b \in S PROVE f[b] \in Nat
    <3>1. Cardinality({w \in Weights : place[b][w] = "copy"}) \in Nat
      <4>1. {w \in Weights : place[b][w] = "copy"} \in SUBSET Weights
        OBVIOUS
      <4>2. IsFiniteSet({w \in Weights : place[b][w] = "copy"})
        BY <4>1, ResidencyAssumption, FS_Subset
      <4> QED BY <4>2, FS_CardinalityType
    <3>2. weight[b] \in Nat /\ b \in Blocks
      BY <1>1, <1>2, ResidencyAssumption
    <3> QED BY <1>4, <3>1, <3>2
  <2> QED BY <1>3, <2>1, SumIsNatural
<1> QED BY <1>1, <1>6, <1>7, <1>8 DEF PeakWithinBudget, S, f

(* The resident blocks and the copies on the device never take more than   *)
(* the budget the plan was made for, for any sizes and whatever forward    *)
(* stops on the way.                                                       *)
THEOREM PeakStaysWithinBudget == ResidencySpec => []PeakWithinBudget
BY ResidencyInitIInv, ResidencyNextIInv, PlanInit, PlanNext, PeakIsPlanned, PTL DEF ResidencySpec

(* Both at once: what is counted in bytes is counted right and stays       *)
(* within its budget.                                                      *)
THEOREM BudgetsAreKept == CacheSpec /\ ResidencySpec => []WithinBudgets
<1>1. BytesAreCounted /\ PeakWithinBudget => WithinBudgets
  BY DEF WithinBudgets
<1> QED BY BytesAreAlwaysCounted, PeakStaysWithinBudget, <1>1, PTL

-----------------------------------------------------------------------------
(***************************************************************************)
(* The step cache: memory stays within the budget, reuse happens only in   *)
(* granted runs, the denoiser is given the latest prediction, and the      *)
(* counters add up.                                                        *)
(***************************************************************************)
Counters == [started : Nat, completed : Nat, aborted : Nat, computed : Nat, reused : Nat]

Types == ControllerTypeOK /\ generation \in Nat /\ aggregate \in Counters

(* Every decided slot is consumed, but the one whose decision is pending.  *)
Progress ==
  active =>
    /\ Len(trace) = next_index
    /\ pending = "none" => Len(output) = next_index
    /\ pending # "none" =>
         /\ next_index > 0 /\ Len(output) = next_index - 1
         /\ pending = "compute" <=> trace[next_index].compute

(* What is retained is the latest prediction used and the one before; a    *)
(* record that raised may have given up the older of the two.              *)
Retention ==
  /\ RetainedWithinBudget
  /\ size # 0 => Fits(size)
  /\ history # <<>> => size # 0
  /\ active =>
       /\ Len(history) <= Len(output)
       /\ output # <<>> => history # <<>> /\ Latest = output[Len(output)]
       /\ pending # "compute" /\ Len(output) > 1 => Len(history) = 2
       /\ pending = "reuse" => Len(output) > 1

(* ReusedRun of any sequence of decisions. *)
RunIn(s, i, j) ==
  /\ i <= j
  /\ \A k \in i .. j : ~s[k].compute
  /\ i = 1 \/ s[i - 1].compute

(* The countdown is what is left of the run the last slot belongs to. *)
RunOf(i) ==
  /\ RunIn(trace, i, Len(trace))
  /\ trace[i].granted > 0
  /\ countdown = SkipCounts[trace[i].granted] - (Len(trace) - i)

Counting ==
  active =>
    /\ countdown = 0 => trace = <<>> \/ trace[Len(trace)].compute
    /\ countdown > 0 => Len(trace) > 1 /\ \E i \in 1 .. Len(trace) : RunOf(i)

(* Slot k of these outputs was given what slot d computed. *)
UsedFrom(o, t, g, k, d) ==
  /\ o[k] = <<g, d>>
  /\ t[d].compute
  /\ \A e \in d + 1 .. k : ~t[e].compute
  /\ k <= 2 => d = k

Sums ==
  /\ aggregate.started = generation
  /\ aggregate.started = aggregate.completed + aggregate.aborted + (IF active THEN 1 ELSE 0)

IInv ==
  /\ Types /\ Progress /\ Retention /\ Counting /\ Sums
  /\ ReuseRunsAreGranted /\ OutputsAreLatest

-----------------------------------------------------------------------------
LEMMA InitIInv == ControllerInit => IInv
<1> SUFFICES ASSUME ControllerInit PROVE IInv
  OBVIOUS
<1>1. ControllerTypeOK
  <2>1. history \in Seq(Nat \X Nat) /\ output \in Seq(Nat \X Nat) /\ trace \in Seq(Decisions)
    BY DEF ControllerInit
  <2>2. total \in 0 .. MaxSteps /\ next_index \in 0 .. total /\ countdown \in Nat
    BY ConfigAssumption DEF ControllerInit
  <2>3. closed \in BOOLEAN /\ active \in BOOLEAN /\ pending = "none" /\ bytes \in Nat /\ size \in Nat
    BY DEF ControllerInit
  <2> QED BY <2>1, <2>2, <2>3 DEF ControllerTypeOK
<1>2. Types /\ Sums
  BY <1>1 DEF ControllerInit, Types, Counters, Sums
<1>3. Progress
  BY DEF ControllerInit, Progress
<1>4. Retention /\ Counting
  BY ConfigAssumption DEF ControllerInit, Retention, RetainedWithinBudget, Counting
<1>5. ReuseRunsAreGranted /\ OutputsAreLatest
  BY DEF ControllerInit, ReuseRunsAreGranted, OutputsAreLatest
<1> QED BY <1>2, <1>3, <1>4, <1>5 DEF IInv

LEMMA BeginKeepsIInv ==
  ASSUME IInv, NEW n \in 1 .. MaxSteps, Begin(n) PROVE IInv'
<1>1. Types'
  <2>1. ControllerTypeOK'
    BY ConfigAssumption DEF IInv, Types, ControllerTypeOK, Begin, Cleared
  <2>2. aggregate' \in Counters /\ generation' \in Nat
    BY DEF IInv, Types, Counters, Begin
  <2> QED BY <2>1, <2>2 DEF Types
<1>2. Progress' /\ Counting'
  BY DEF Begin, Cleared, Progress, Counting
<1>3. Retention'
  BY ConfigAssumption DEF Begin, Cleared, Retention, RetainedWithinBudget
<1>4. Sums'
  <2>1. /\ aggregate'.started = aggregate.started + 1
        /\ aggregate'.completed = aggregate.completed
        /\ aggregate'.aborted = aggregate.aborted
    BY DEF IInv, Types, Counters, Begin
  <2>2. /\ aggregate.started \in Nat /\ aggregate.completed \in Nat /\ aggregate.aborted \in Nat
        /\ active = FALSE /\ active' = TRUE
    BY DEF IInv, Types, ControllerTypeOK, Counters, Begin
  <2>3. aggregate.started = generation /\ generation' = generation + 1
    BY DEF IInv, Sums, Begin
  <2>4. aggregate.started = aggregate.completed + aggregate.aborted
    BY <2>2 DEF IInv, Sums
  <2> QED BY <2>1, <2>2, <2>3, <2>4 DEF Sums
<1>5. ReuseRunsAreGranted' /\ OutputsAreLatest'
  BY DEF Begin, ReuseRunsAreGranted, OutputsAreLatest
<1> QED BY <1>1, <1>2, <1>3, <1>4, <1>5 DEF IInv

(* Two runs that end at the same slot are the same run. *)
LEMMA RunsAreUnique ==
  ASSUME NEW s \in Seq(Decisions), NEW j \in 1 .. Len(s), NEW i \in 1 .. j, NEW k \in 1 .. j,
         RunIn(s, i, j), RunIn(s, k, j)
  PROVE  i = k
BY DEF RunIn

(* The runs after one more decision. *)
LEMMA AppendedRuns ==
  ASSUME NEW s \in Seq(Decisions), NEW d \in Decisions
  PROVE  LET t == Append(s, d)
             L == Len(s)
         IN /\ \A i, j \in 1 .. L : RunIn(t, i, j) <=> RunIn(s, i, j)
            /\ \A i \in 1 .. L : RunIn(t, i, L + 1) <=> ~d.compute /\ RunIn(s, i, L)
            /\ RunIn(t, L + 1, L + 1) <=> ~d.compute /\ (L = 0 \/ s[L].compute)
<1> DEFINE t == Append(s, d)
           L == Len(s)
<1>1. /\ L \in Nat /\ t[L + 1] = d
      /\ \A k \in 1 .. L : t[k] = s[k]
  OBVIOUS
<1> HIDE DEF t, L
<1>2. \A i, j \in 1 .. L : RunIn(t, i, j) <=> RunIn(s, i, j)
  BY <1>1 DEF RunIn
<1>3. ASSUME NEW i \in 1 .. L PROVE RunIn(t, i, L + 1) <=> ~d.compute /\ RunIn(s, i, L)
  <2>1. (\A k \in i .. L + 1 : ~t[k].compute) <=> ~d.compute /\ \A k \in i .. L : ~s[k].compute
    BY <1>1
  <2>2. (i = 1 \/ t[i - 1].compute) <=> (i = 1 \/ s[i - 1].compute)
    BY <1>1
  <2>3. i <= L /\ i <= L + 1
    BY <1>1
  <2> QED BY <2>1, <2>2, <2>3 DEF RunIn
<1>4. RunIn(t, L + 1, L + 1) <=> ~d.compute /\ (L = 0 \/ s[L].compute)
  <2>1. (\A k \in L + 1 .. L + 1 : ~t[k].compute) <=> ~d.compute
    BY <1>1
  <2>2. (L + 1 = 1 \/ t[(L + 1) - 1].compute) <=> (L = 0 \/ s[L].compute)
    BY <1>1
  <2> QED BY <1>1, <2>1, <2>2 DEF RunIn
<1> QED BY <1>2, <1>3, <1>4 DEF t, L

LEMMA DecideKeepsIInv ==
  ASSUME IInv, NEW level \in 0 .. Len(SkipCounts), Decide(level) PROVE IInv'
<1> PICK L \in Nat : L = Len(trace)
  BY DEF IInv, Types, ControllerTypeOK
<1> PICK d \in Decisions : d = Decision(level)
  <2>1. 0 \in 0 .. Len(SkipCounts)
    BY ConfigAssumption
  <2>2. Decision(level).compute \in BOOLEAN /\ Decision(level) \in Decisions
    BY <2>1, Zenon DEF Decision, Decisions
  <2> QED BY <2>2
<1>1. /\ trace \in Seq(Decisions) /\ L \in Nat /\ countdown \in Nat
      /\ d \in Decisions
      /\ trace' = Append(trace, d) /\ active /\ pending = "none"
      /\ pending' = IF d.compute THEN "compute" ELSE "reuse"
      /\ countdown' = Countdown(level)
      /\ next_index < total /\ next_index' = next_index + 1
      /\ UNCHANGED <<closed, generation, active, total, history, size, bytes, output, aggregate>>
  BY ConfigAssumption DEF IInv, Types, ControllerTypeOK, Decide, Decision, Decisions
<1>2. /\ Len(trace') = L + 1 /\ trace'[L + 1] = d
      /\ \A k \in 1 .. L : trace'[k] = trace[k]
  BY <1>1
<1>3. /\ L = next_index /\ Len(output) = next_index
      /\ (Len(history) < 2 <=> L < 2)
  <2>1. L = next_index /\ Len(output) = next_index
    BY <1>1 DEF IInv, Progress
  <2>2. Len(history) <= Len(output) /\ (Len(output) > 1 => Len(history) = 2)
    BY <1>1 DEF IInv, Retention
  <2>3. Len(history) \in Nat /\ Len(output) \in Nat
    BY DEF IInv, Types, ControllerTypeOK
  <2>4. L \in Nat
    OBVIOUS
  <2> QED BY ONLY <2>1, <2>2, <2>3, <2>4
<1>4. \A n \in 1 .. Len(SkipCounts) : SkipCounts[n] \in Nat \ {0}
  BY ConfigAssumption
(* What is decided, by what is left of a run. *)
<1>5. /\ countdown = 0 /\ level = 0 => d.compute /\ countdown' = 0
      /\ countdown = 0 /\ L < 2 => d.compute /\ countdown' = 0
      /\ countdown = 0 /\ L >= 2 /\ level > 0 =>
           ~d.compute /\ d.granted = level /\ countdown' = SkipCounts[level]
      /\ countdown > 0 =>
           L >= 2 /\ countdown' = countdown - 1 /\ (d.compute <=> countdown = 1)
  <2>1. countdown > 0 => L >= 2
    BY <1>1 DEF IInv, Counting
  <2>2. CASE L < 2
    BY <1>1, <1>3, <2>1, <2>2 DEF Decision, Countdown
  <2>3. CASE L >= 2 /\ countdown > 0
    <3>1. d = [compute |-> countdown = 1, granted |-> 0] /\ Countdown(level) = countdown - 1
      BY <1>3, <2>3 DEF Decision, Countdown
    <3>2. d.compute <=> countdown = 1
      BY ONLY <3>1, Zenon
    <3> QED BY <1>1, <2>3, <3>1, <3>2
  <2>4. CASE L >= 2 /\ countdown = 0
    <3>1. /\ d = [compute |-> level = 0, granted |-> level]
          /\ Countdown(level) = IF level = 0 THEN 0 ELSE SkipCounts[level]
      BY <1>3, <2>4 DEF Decision, Countdown
    <3>2. (d.compute <=> level = 0) /\ d.granted = level
      BY ONLY <3>1, Zenon
    <3> QED BY <1>1, <2>4, <3>1, <3>2
  <2> QED BY <1>1, <2>2, <2>3, <2>4
<1>6. Types'
  <2>1. countdown' \in Nat
    BY <1>1, <1>4 DEF Countdown, IInv, Types, ControllerTypeOK
  <2>2. trace' \in Seq(Decisions) /\ next_index' \in 0 .. total
    BY <1>1 DEF IInv, Types, ControllerTypeOK
  <2>3. pending' \in {"none", "compute", "reuse"}
    BY <1>1
  <2> QED BY <1>1, <2>1, <2>2, <2>3 DEF IInv, Types, ControllerTypeOK
<1>7. Progress'
  <2>1. Len(trace') = next_index' /\ Len(output') = next_index' - 1 /\ next_index' > 0
    BY <1>1, <1>2, <1>3
  <2>2. trace'[next_index'] = d
    BY <1>1, <1>2, <1>3
  <2>3. pending' # "none" /\ (pending' = "compute" <=> d.compute)
    BY <1>1
  <2> QED BY <2>1, <2>2, <2>3 DEF Progress
<1>8. Retention'
  BY <1>1, <1>3, <1>5 DEF IInv, Retention, RetainedWithinBudget, Latest, Fits, Types, ControllerTypeOK
<1>9. Sums'
  BY <1>1 DEF IInv, Sums
<1>10. OutputsAreLatest'
  <2> SUFFICES ASSUME NEW k \in 1 .. Len(output')
               PROVE  \E c \in 1 .. k : UsedFrom(output', trace', generation', k, c)
    BY DEF OutputsAreLatest, UsedFrom
  <2>1. k \in 1 .. Len(output) /\ k \in 1 .. L /\ k \in Nat
    BY <1>1, <1>3
  <2>2. PICK c \in 1 .. k : UsedFrom(output, trace, generation, k, c)
    BY <2>1 DEF IInv, OutputsAreLatest, UsedFrom
  <2>3. \A e \in 1 .. k : trace'[e] = trace[e]
    BY <1>2, <2>1
  <2>4. UsedFrom(output', trace', generation', k, c)
    BY <1>1, <2>1, <2>2, <2>3 DEF UsedFrom
  <2> QED BY <2>4
<1>11. /\ \A i, j \in 1 .. L : RunIn(trace', i, j) <=> RunIn(trace, i, j)
       /\ \A i \in 1 .. L : RunIn(trace', i, L + 1) <=> ~d.compute /\ RunIn(trace, i, L)
       /\ RunIn(trace', L + 1, L + 1) <=> ~d.compute /\ (L = 0 \/ trace[L].compute)
  BY <1>1, AppendedRuns
<1>12. countdown > 0 => \E i \in 1 .. L : RunOf(i)
  BY <1>1 DEF IInv, Counting
<1>13. countdown = 0 => L = 0 \/ trace[L].compute
  BY <1>1 DEF IInv, Counting
<1>14. Counting'
  <2>1. /\ Len(trace') = L + 1 /\ L + 1 > 0
        /\ trace'[L + 1].compute <=> d.compute
        /\ trace'[L + 1].granted = d.granted
        /\ \A i \in 1 .. L : trace'[i].granted = trace[i].granted
    BY <1>2
  <2>2. CASE d.compute
    <3>1. countdown' = 0
      BY <1>1, <1>4, <1>5, <2>2
    <3> QED BY <2>1, <2>2, <3>1 DEF Counting
  <2>3. CASE ~d.compute /\ countdown = 0
    <3>1. L >= 2 /\ d.granted = level /\ level > 0 /\ countdown' = SkipCounts[level]
      BY <1>1, <1>5, <2>3
    <3>2. countdown' > 0 /\ countdown' = SkipCounts[level] - ((L + 1) - (L + 1))
      BY <1>4, <3>1
    <3>3. RunOf(L + 1)'
      BY <1>11, <1>13, <2>1, <2>3, <3>1, <3>2 DEF RunOf
    <3> QED BY <2>1, <3>1, <3>2, <3>3 DEF Counting
  <2>4. CASE ~d.compute /\ countdown > 0
    <3>1. PICK i \in 1 .. L : RunOf(i)
      BY <1>12, <2>4
    <3>2. L >= 2 /\ countdown' = countdown - 1 /\ countdown' > 0
      BY <1>1, <1>5, <2>4
    <3>3. SkipCounts[trace[i].granted] \in Nat
      <4>1. trace[i] \in Decisions /\ trace[i].granted > 0
        BY <1>1, <3>1 DEF RunOf
      <4> QED BY <1>4, <4>1 DEF Decisions
    <3>4. /\ RunIn(trace', i, L + 1) /\ trace'[i].granted = trace[i].granted
          /\ trace[i].granted > 0 /\ countdown = SkipCounts[trace[i].granted] - (L - i)
      BY <1>11, <2>1, <2>4, <3>1 DEF RunOf
    <3>5. countdown' = SkipCounts[trace[i].granted] - ((L + 1) - i)
      BY <3>2, <3>3, <3>4
    <3>6. RunOf(i)'
      BY <2>1, <3>4, <3>5 DEF RunOf
    <3> QED BY <2>1, <3>2, <3>6 DEF Counting
  <2> QED BY <1>1, <2>2, <2>3, <2>4
<1>15. ReuseRunsAreGranted'
  <2> DEFINE Permitted(s, i, j) ==
               /\ s[i].granted > 0
               /\ j - i + 1 <= SkipCounts[s[i].granted]
               /\ j < Len(s) /\ s[j + 1].compute => j - i + 1 = SkipCounts[s[i].granted]
  <2> SUFFICES ASSUME NEW i \in 1 .. L + 1, NEW j \in 1 .. L + 1, RunIn(trace', i, j)
               PROVE  Permitted(trace', i, j)
    BY <1>2 DEF ReuseRunsAreGranted, ReusedRun, RunIn
  <2>1. \A a, b \in 1 .. L : RunIn(trace, a, b) => Permitted(trace, a, b)
    BY DEF IInv, ReuseRunsAreGranted, ReusedRun, RunIn
  <2>2. i <= j
    BY DEF RunIn
  <2>3. CASE j < L
    <3>1. Permitted(trace, i, j)
      BY <1>11, <2>1, <2>2, <2>3
    <3> QED BY <1>2, <2>2, <2>3, <3>1
  (* The run the last slot belongs to: the countdown ends it. *)
  <2>4. ASSUME countdown > 0, i <= L, RunIn(trace, i, L)
        PROVE  /\ trace[i].granted > 0 /\ SkipCounts[trace[i].granted] \in Nat
               /\ countdown = SkipCounts[trace[i].granted] - (L - i)
    <3>1. PICK k \in 1 .. L : RunOf(k)
      BY <1>12, <2>4
    <3>2. L >= 1 /\ i \in 1 .. L /\ RunIn(trace, k, L)
      BY <2>4, <3>1 DEF RunOf
    <3>3. i = k
      BY <1>1, <2>4, <3>2, RunsAreUnique
    <3>4. trace[i] \in Decisions /\ trace[i].granted > 0
      BY <1>1, <3>1, <3>3 DEF RunOf
    <3>5. SkipCounts[trace[i].granted] \in Nat
      BY <1>4, <3>4 DEF Decisions
    <3> QED BY <1>1, <3>1, <3>3, <3>4, <3>5 DEF RunOf
  <2>5. CASE j = L
    <3>1. RunIn(trace, i, L) /\ i <= L /\ ~trace[L].compute
      BY <1>11, <2>2, <2>5 DEF RunIn
    <3>2. countdown > 0
      BY <1>1, <1>13, <2>5, <3>1
    <3>3. Permitted(trace, i, L)
      BY <2>1, <2>5, <3>1
    <3>4. d.compute => countdown = 1
      BY <1>5, <3>2
    <3> QED BY <1>1, <1>2, <2>4, <2>5, <3>1, <3>2, <3>3, <3>4
  <2>6. CASE j = L + 1 /\ i <= L
    <3>1. RunIn(trace, i, L) /\ ~d.compute /\ ~trace[L].compute
      BY <1>11, <2>6 DEF RunIn
    <3>2. countdown > 1
      BY <1>1, <1>5, <1>13, <2>6, <3>1
    <3> QED BY <1>1, <1>2, <2>4, <2>6, <3>1, <3>2
  <2>7. CASE j = L + 1 /\ i = L + 1
    <3>1. ~d.compute /\ (L = 0 \/ trace[L].compute)
      BY <1>11, <2>7
    <3>2. countdown = 0
      BY <1>1, <1>12, <3>1 DEF RunOf, RunIn
    <3>3. d.granted = level /\ level > 0
      BY <1>1, <1>5, <3>1, <3>2
    <3> QED BY <1>2, <1>4, <2>7, <3>3
  <2>8. j < L \/ j = L \/ (j = L + 1 /\ i <= L) \/ (j = L + 1 /\ i = L + 1)
    BY <1>1, <2>2
  <2> HIDE DEF Permitted
  <2> QED BY <2>3, <2>5, <2>6, <2>7, <2>8
<1> QED BY <1>6, <1>7, <1>8, <1>9, <1>10, <1>14, <1>15 DEF IInv

LEMMA TailOfTwo ==
  ASSUME NEW S, NEW h \in Seq(S), Len(h) = 2
  PROVE  Tail(h) \in Seq(S) /\ Len(Tail(h)) = 1 /\ Tail(h)[1] = h[2]
<1>1. h # <<>>
  OBVIOUS
<1>2. Tail(h) \in Seq(S) /\ Len(Tail(h)) = 1
  BY <1>1, HeadTailProperties
<1>3. Tail(h)[1] = h[1 + 1]
  <2>1. \A i \in 1 .. Len(Tail(h)) : Tail(h)[i] = h[i + 1]
    BY <1>1, HeadTailProperties
  <2>2. PICK n \in Nat : n = Len(Tail(h)) /\ n = 1
    BY <1>2
  <2>3. \A i \in 1 .. n : Tail(h)[i] = h[i + 1]
    BY <2>1, <2>2
  <2> QED BY ONLY <2>2, <2>3
<1> QED BY <1>2, <1>3

(* Retiring leaves at most one prediction, the latest. *)
LEMMA RetiredFacts ==
  ASSUME IInv
  PROVE  /\ history \in Seq(Nat \X Nat) /\ Len(history) \in 0 .. 2 /\ size \in Nat
         /\ Retired \in Seq(Nat \X Nat) /\ Len(Retired) \in 0 .. 1
         /\ Len(Retired) = 0 => history = <<>> /\ RetiredBytes = 0
         /\ Len(Retired) = 1 => RetiredBytes = size /\ Retired[1] = Latest
         /\ Len(Retired) <= Len(history) /\ (history # <<>> => Len(Retired) = 1)
<1>1. history \in Seq(Nat \X Nat) /\ size \in Nat /\ bytes \in Nat
  BY DEF IInv, Types, ControllerTypeOK
<1>2. Len(history) <= 2 /\ bytes = Len(history) * size
  BY DEF IInv, Retention, RetainedWithinBudget
<1>3. PICK n \in Nat : n = Len(history)
  BY <1>1
<1>4. n \in 0 .. 2 /\ bytes = n * size
  BY <1>2, <1>3
<1>5. CASE n = 2
  <2>1. bytes = 2 * size
    BY <1>4, <1>5
  <2>2. RetiredBytes = size /\ Retired = Tail(history)
    BY <1>1, <1>3, <1>5, <2>1 DEF RetiredBytes, Retired
  <2>3. Len(Retired) = 1 /\ Retired[1] = history[2] /\ Retired \in Seq(Nat \X Nat)
    BY <1>1, <1>3, <1>5, <2>2, TailOfTwo
  <2>4. Latest = history[2]
    BY <1>3, <1>5 DEF Latest
  <2>5. /\ Len(history) \in 0 .. 2 /\ Len(Retired) \in 0 .. 1
        /\ Len(Retired) # 0 /\ Len(Retired) <= Len(history)
    BY <1>3, <1>5, <2>3
  <2> QED BY ONLY <1>1, <2>2, <2>3, <2>4, <2>5
<1>6. CASE n = 1
  <2>1. bytes = size
    BY <1>1, <1>4, <1>6
  <2>2. RetiredBytes = size /\ Retired = history
    BY <1>3, <1>6, <2>1 DEF RetiredBytes, Retired
  <2>3. Latest = history[1]
    BY <1>3, <1>6 DEF Latest
  <2>4. Len(history) \in 0 .. 2 /\ Len(Retired) = 1 /\ Len(Retired) <= Len(history)
    <3>1. Len(history) = 1 /\ Len(Retired) = 1
      BY <1>3, <1>6, <2>2
    <3> QED BY ONLY <3>1
  <2> QED BY ONLY <1>1, <2>2, <2>3, <2>4
<1>7. CASE n = 0
  <2>1. bytes = 0 /\ history = <<>>
    <3>1. bytes = 0
      BY <1>1, <1>4, <1>7
    <3>2. history = <<>>
      BY <1>1, <1>3, <1>7, EmptySeq
    <3> QED BY <3>1, <3>2
  <2>2. RetiredBytes = 0 /\ Retired = history
    BY <1>3, <1>7, <2>1 DEF RetiredBytes, Retired
  <2> QED BY <1>1, <1>3, <1>7, <2>1, <2>2
<1> QED BY <1>4, <1>5, <1>6, <1>7

LEMMA RecordKeepsIInv ==
  ASSUME IInv, NEW s \in Sizes, Record(s) PROVE IInv'
<1>1. /\ active /\ pending = "compute" /\ size \in {0, s} /\ Fits(s)
      /\ history' = Append(Retired, <<generation, next_index>>)
      /\ bytes' = RetiredBytes + s /\ size' = s
      /\ output' = Append(output, <<generation, next_index>>)
      /\ pending' = "none"
      /\ aggregate' = [aggregate EXCEPT !.computed = @ + 1]
      /\ UNCHANGED <<closed, generation, active, total, next_index, countdown, trace>>
  BY DEF Record, Acceptable
<1>2. s \in Nat \ {0} /\ total \in Nat /\ next_index \in 1 .. total /\ generation \in Nat
  BY <1>1, ConfigAssumption DEF IInv, Types, ControllerTypeOK, Progress
<1>3. /\ output \in Seq(Nat \X Nat) /\ Len(output) = next_index - 1
      /\ Len(trace) = next_index /\ trace[next_index].compute
  BY <1>1 DEF IInv, Types, ControllerTypeOK, Progress
<1>4. Types'
  <2>1. aggregate' \in Counters
    <3>1. aggregate \in Counters /\ aggregate.computed + 1 \in Nat
      BY DEF IInv, Types, Counters
    <3> QED BY <1>1, <3>1 DEF Counters
  <2>2. bytes' \in Nat
    <3>1. RetiredBytes \in Nat
      BY RetiredFacts
    <3> QED BY <1>1, <1>2, <3>1
  <2>3. history' \in Seq(Nat \X Nat) /\ output' \in Seq(Nat \X Nat)
    BY <1>1, <1>2, <1>3, RetiredFacts
  <2> QED BY <1>1, <1>2, <2>1, <2>2, <2>3 DEF IInv, Types, ControllerTypeOK
<1>5. Progress'
  BY <1>1, <1>3, <1>2 DEF IInv, Progress
<1>6. Retention'
  <2>1. Len(history') = Len(Retired) + 1 /\ history'[Len(history')] = <<generation, next_index>>
    BY <1>1, <1>2, RetiredFacts
  <2>2. Len(output') = next_index /\ output'[next_index] = <<generation, next_index>>
    BY <1>1, <1>2, <1>3
  <2>3. Len(Retired) <= Len(output) /\ (Len(output) > 0 => Len(Retired) = 1)
    <3>1. Len(history) <= Len(output) /\ (output # <<>> => history # <<>>)
      BY <1>1 DEF IInv, Retention
    <3>2. output # <<>> => Len(Retired) = 1
      BY <3>1, RetiredFacts
    <3>3. Len(Retired) \in Nat /\ Len(Retired) <= Len(history) /\ Len(history) \in Nat
      BY RetiredFacts
    <3>4. Len(output) \in Nat /\ (Len(output) > 0 => output # <<>>)
      BY <1>3
    <3> QED BY ONLY <3>1, <3>2, <3>3, <3>4
  <2>4. bytes' = Len(history') * s
    <3>1. Len(Retired) = 0 \/ size = s
      BY <1>1, RetiredFacts DEF IInv, Retention
    <3>2. CASE Len(Retired) = 0
      BY <1>1, <1>2, <2>1, <3>2, RetiredFacts DEF IInv, Types, ControllerTypeOK
    <3>3. CASE Len(Retired) = 1 /\ size = s
      BY <1>1, <1>2, <2>1, <3>3, RetiredFacts
    <3> QED BY <3>1, <3>2, <3>3, RetiredFacts
  <2>5. Len(history') \in 1 .. 2 /\ Len(history') <= total
    <3>1. Len(Retired) \in 0 .. 1
      BY RetiredFacts
    <3>2. PICK r \in 0 .. 1 : r = Len(Retired)
      BY <3>1
    <3>3. PICK o \in Nat : o = Len(output)
      BY <1>3
    <3>4. r <= o /\ o = next_index - 1
      BY <1>3, <2>3, <3>2, <3>3
    <3>5. Len(history') = r + 1
      BY <2>1, <3>2
    <3> QED BY <1>2, <3>4, <3>5
  <2>6. bytes' <= MaxBytes
    <3>1. CASE total < 2
      <4>1. Len(history') = 1 /\ total = 1
        BY <2>5, <3>1, <1>2
      <4> QED BY <1>1, <1>2, <2>4, <4>1 DEF Fits
    <3>2. CASE ~(total < 2)
      <4>1. 2 * s <= MaxBytes
        BY <1>1, <3>2 DEF Fits
      <4>2. bytes' = s \/ bytes' = 2 * s
        <5>1. CASE Len(history') = 1
          BY <1>2, <2>4, <5>1
        <5>2. CASE Len(history') = 2
          BY <1>2, <2>4, <5>2
        <5> QED BY <2>5, <5>1, <5>2
      <4> QED BY <1>2, <4>1, <4>2, ConfigAssumption
    <3> QED BY <3>1, <3>2
  <2>7. Fits(s)'
    BY <1>1 DEF Fits
  <2>8. RetainedWithinBudget'
    BY <1>1, <2>4, <2>5, <2>6 DEF RetainedWithinBudget
  <2>9. (size # 0 => Fits(size))' /\ size' # 0
    BY <1>1, <1>2, <2>7 DEF Fits
  <2>10. /\ Len(history') <= Len(output') /\ history' # <<>>
         /\ history'[Len(history')] = output'[Len(output')]
         /\ Len(output') > 1 => Len(history') = 2
    <3>1. PICK r \in 0 .. 1 : r = Len(Retired)
      BY RetiredFacts
    <3>2. PICK o \in Nat : o = Len(output)
      BY <1>3
    <3>3. r <= o /\ (o > 0 => r = 1)
      BY <2>3, <3>1, <3>2
    <3>4. Len(history') = r + 1 /\ Len(output') = o + 1 /\ next_index = o + 1
      BY <1>2, <1>3, <2>1, <2>2, <3>1, <3>2
    <3>5. Len(history') <= Len(output') /\ (Len(output') > 1 => Len(history') = 2)
      BY <3>3, <3>4
    <3>6. history' # <<>>
      BY <3>4
    <3>7. history'[Len(history')] = output'[Len(output')]
      BY <2>1, <2>2
    <3> QED BY <3>5, <3>6, <3>7
  <2> QED BY <1>1, <2>8, <2>9, <2>10 DEF Retention, Latest
<1>7. Counting'
  BY <1>1 DEF IInv, Counting, RunOf
<1>8. Sums'
  BY <1>1 DEF IInv, Sums, Types, Counters
<1>9. ReuseRunsAreGranted'
  BY <1>1 DEF IInv, ReuseRunsAreGranted, ReusedRun
<1>10. OutputsAreLatest'
  <2> SUFFICES ASSUME NEW k \in 1 .. Len(output')
               PROVE  \E c \in 1 .. k : UsedFrom(output', trace', generation', k, c)
    BY DEF OutputsAreLatest, UsedFrom
  <2>1. Len(output') = next_index /\ output'[next_index] = <<generation, next_index>>
    BY <1>1, <1>2, <1>3
  <2>2. k \in 1 .. next_index - 1 \/ k = next_index
    BY <1>2, <2>1
  <2>3. CASE k \in 1 .. next_index - 1
    <3>1. output'[k] = output[k] /\ k \in 1 .. Len(output)
      BY <1>1, <1>3, <2>3
    <3>2. PICK c \in 1 .. k : UsedFrom(output, trace, generation, k, c)
      BY <3>1 DEF IInv, OutputsAreLatest, UsedFrom
    <3>3. UsedFrom(output', trace', generation', k, c)
      BY <1>1, <3>1, <3>2 DEF UsedFrom
    <3> QED BY <3>3
  <2>4. CASE k = next_index
    <3>1. k \in 1 .. k /\ k + 1 .. k = {}
      BY <1>2, <2>4
    <3>2. UsedFrom(output', trace', generation', k, k)
      BY <1>1, <1>3, <2>1, <2>4, <3>1 DEF UsedFrom
    <3> QED BY <3>1, <3>2
  <2> QED BY <2>2, <2>3, <2>4
<1> QED BY <1>4, <1>5, <1>6, <1>7, <1>8, <1>9, <1>10 DEF IInv

LEMMA RecordRaisesKeepsIInv ==
  ASSUME IInv, NEW s \in Sizes, RecordRaises(s) PROVE IInv'
<1>1. /\ active /\ pending = "compute"
      /\ history' = Retired /\ bytes' = RetiredBytes
      /\ UNCHANGED <<closed, generation, active, total, next_index, countdown, pending,
                     size, trace, output, aggregate>>
  BY DEF RecordRaises, Acceptable
<1>2. Types'
  <2>1. bytes' \in Nat /\ history' \in Seq(Nat \X Nat)
    BY <1>1, RetiredFacts DEF IInv, Types, ControllerTypeOK
  <2> QED BY <1>1, <2>1 DEF IInv, Types, ControllerTypeOK
<1>3. Progress' /\ Counting' /\ Sums'
  BY <1>1 DEF IInv, Progress, Counting, RunOf, Sums
<1>4. ReuseRunsAreGranted' /\ OutputsAreLatest'
  BY <1>1 DEF IInv, ReuseRunsAreGranted, ReusedRun, OutputsAreLatest
<1>5. Retention'
  <2>1. Len(Retired) <= Len(history) /\ Len(history) \in Nat
    BY RetiredFacts DEF Retired, IInv, Types, ControllerTypeOK
  <2>2. bytes' <= bytes /\ bytes \in Nat
    BY <1>1 DEF RetiredBytes, IInv, Types, ControllerTypeOK
  <2>3. RetainedWithinBudget'
    <3>1. Len(Retired) <= 2 /\ RetiredBytes = Len(Retired) * size
      <4>1. CASE Len(Retired) = 0
        BY <4>1, RetiredFacts
      <4>2. CASE Len(Retired) = 1
        BY <4>2, RetiredFacts
      <4> QED BY <4>1, <4>2, RetiredFacts
    <3>2. bytes' <= MaxBytes
      BY <2>2, <1>2, ConfigAssumption DEF IInv, Retention, RetainedWithinBudget, Types, ControllerTypeOK
    <3> QED BY <1>1, <3>1, <3>2 DEF RetainedWithinBudget
  <2>4. (size # 0 => Fits(size))'
    BY <1>1 DEF IInv, Retention, Fits
  <2>5. (history # <<>> => size # 0)'
    BY <1>1, RetiredFacts DEF IInv, Retention
  <2>6. Len(history') <= Len(output') /\ (output' # <<>> => history' # <<>> /\ Latest' = output'[Len(output')])
    <3>1. Len(history) <= Len(output) /\ Len(output) \in Nat
      BY <1>1 DEF IInv, Retention, Types, ControllerTypeOK
    <3>2. Len(history') <= Len(output')
      BY <1>1, <2>1, <3>1, RetiredFacts
    <3>3. ASSUME output' # <<>> PROVE history' # <<>> /\ Latest' = output'[Len(output')]
      <4>1. history # <<>> /\ Latest = output[Len(output)]
        BY <1>1, <3>3 DEF IInv, Retention
      <4>2. Len(Retired) = 1 /\ Retired[1] = Latest
        BY <4>1, RetiredFacts
      <4>3. Latest' = Retired[1] /\ history' # <<>>
        BY <1>1, <4>2 DEF Latest
      <4> QED BY <1>1, <4>1, <4>2, <4>3
    <3> QED BY <3>2, <3>3
  <2> QED BY <1>1, <2>3, <2>4, <2>5, <2>6 DEF Retention
<1> QED BY <1>2, <1>3, <1>4, <1>5 DEF IInv

LEMMA ReuseKeepsIInv == ASSUME IInv, Reuse PROVE IInv'
<1>1. /\ active /\ pending = "reuse"
      /\ output' = Append(output, Latest) /\ pending' = "none"
      /\ aggregate' = [aggregate EXCEPT !.reused = @ + 1]
      /\ UNCHANGED <<closed, generation, active, total, next_index, countdown,
                     history, size, bytes, trace>>
  BY DEF Reuse
<1>2. /\ output \in Seq(Nat \X Nat) /\ Len(output) = next_index - 1 /\ next_index \in Nat
      /\ Len(trace) = next_index /\ ~trace[next_index].compute /\ Len(output) > 1
  BY <1>1 DEF IInv, Types, ControllerTypeOK, Progress, Retention
<1>3. /\ Len(history) = 2 /\ Latest = output[Len(output)] /\ Latest \in Nat \X Nat
  BY <1>1, <1>2 DEF IInv, Types, ControllerTypeOK, Retention, Latest
<1>4. Len(output') = next_index /\ output'[next_index] = Latest
  BY <1>1, <1>2, <1>3
<1>5. Types'
  <2>1. aggregate' \in Counters
    BY <1>1 DEF IInv, Types, Counters
  <2>2. output' \in Seq(Nat \X Nat)
    BY <1>1, <1>2, <1>3
  <2> QED BY <1>1, <2>1, <2>2 DEF IInv, Types, ControllerTypeOK
<1>6. Progress' /\ Counting'
  BY <1>1, <1>2, <1>4 DEF IInv, Progress, Counting, RunOf
<1>7. Retention'
  BY <1>1, <1>2, <1>3, <1>4 DEF IInv, Retention, RetainedWithinBudget, Latest, Fits
<1>8. Sums'
  BY <1>1 DEF IInv, Sums, Types, Counters
<1>9. ReuseRunsAreGranted'
  BY <1>1 DEF IInv, ReuseRunsAreGranted, ReusedRun
<1>10. OutputsAreLatest'
  <2> SUFFICES ASSUME NEW k \in 1 .. Len(output')
               PROVE  \E c \in 1 .. k : UsedFrom(output', trace', generation', k, c)
    BY DEF OutputsAreLatest, UsedFrom
  <2>1. k \in 1 .. next_index - 1 \/ k = next_index
    BY <1>2, <1>4
  <2>2. CASE k \in 1 .. next_index - 1
    <3>1. output'[k] = output[k] /\ k \in 1 .. Len(output)
      BY <1>1, <1>2, <2>2
    <3>2. PICK c \in 1 .. k : UsedFrom(output, trace, generation, k, c)
      BY <3>1 DEF IInv, OutputsAreLatest, UsedFrom
    <3>3. UsedFrom(output', trace', generation', k, c)
      BY <1>1, <3>1, <3>2 DEF UsedFrom
    <3> QED BY <3>3
  (* The slot before and this one were given the same prediction. *)
  <2>3. CASE k = next_index
    <3>1. PICK j \in Nat : j = next_index - 1 /\ j \in 1 .. Len(output) /\ k = j + 1 /\ j > 1
      BY <1>2, <2>3
    <3>2. PICK c \in 1 .. j : UsedFrom(output, trace, generation, j, c)
      BY <3>1 DEF IInv, OutputsAreLatest, UsedFrom
    <3>3. output'[k] = output[j]
      BY <1>2, <1>3, <1>4, <2>3, <3>1
    <3>4. \A e \in c + 1 .. k : ~trace[e].compute
      <4>1. \A e \in c + 1 .. j : ~trace[e].compute
        BY <3>2 DEF UsedFrom
      <4>2. ~trace[k].compute
        BY <1>2, <2>3
      <4>3. \A e \in c + 1 .. k : e \in c + 1 .. j \/ e = k
        BY <3>1
      <4> QED BY <4>1, <4>2, <4>3
    <3>5. c \in 1 .. k /\ ~(k <= 2)
      BY <3>1
    <3>6. UsedFrom(output', trace', generation', k, c)
      BY <1>1, <3>2, <3>3, <3>4, <3>5 DEF UsedFrom
    <3> QED BY <3>5, <3>6
  <2> QED BY <2>1, <2>2, <2>3
<1> QED BY <1>5, <1>6, <1>7, <1>8, <1>9, <1>10 DEF IInv

LEMMA FinishKeepsIInv ==
  ASSUME IInv, active, NEW status \in {"completed", "aborted"}, Finish(status),
         closed' \in BOOLEAN
  PROVE  IInv'
<1>1. /\ active' = FALSE
      /\ history' = <<>> /\ size' = 0 /\ bytes' = 0
      /\ pending' = "none" /\ next_index' = 0 /\ countdown' = 0
      /\ UNCHANGED <<generation, total, trace, output>>
  BY DEF Finish, Cleared
<1>2. /\ aggregate' \in Counters
      /\ aggregate'.started = aggregate.started
      /\ aggregate'.completed + aggregate'.aborted = aggregate.completed + aggregate.aborted + 1
  <2>1. aggregate \in Counters
    BY DEF IInv, Types
  <2>2. CASE status = "completed"
    <3>1. aggregate' = [aggregate EXCEPT !.completed = @ + 1]
      BY <2>2 DEF Finish
    <3> QED BY <2>1, <3>1 DEF Counters
  <2>3. CASE status = "aborted"
    <3>1. aggregate' = [aggregate EXCEPT !.aborted = @ + 1]
      BY <2>3 DEF Finish
    <3> QED BY <2>1, <3>1 DEF Counters
  <2> QED BY <2>2, <2>3
<1>7. Types'
  <2>1. history' \in Seq(Nat \X Nat)
    BY <1>1
  <2>2. total' \in 0 .. MaxSteps /\ next_index' \in 0 .. total'
    BY <1>1 DEF IInv, Types, ControllerTypeOK
  <2>3. trace' \in Seq(Decisions) /\ output' \in Seq(Nat \X Nat) /\ generation' \in Nat
    BY <1>1 DEF IInv, Types, ControllerTypeOK
  <2>4. active' \in BOOLEAN /\ pending' = "none" /\ bytes' \in Nat /\ size' \in Nat /\ countdown' \in Nat
    BY <1>1
  <2> QED BY <1>2, <2>1, <2>2, <2>3, <2>4 DEF Types, ControllerTypeOK
<1>3. Progress' /\ Counting'
  BY <1>1 DEF Progress, Counting
<1>4. Retention'
  BY <1>1, ConfigAssumption DEF Retention, RetainedWithinBudget
<1>5. Sums'
  <2>1. aggregate.started = generation /\ aggregate.started = aggregate.completed + aggregate.aborted + 1
    BY DEF IInv, Sums
  <2>2. PICK c \in Nat, a \in Nat : c = aggregate.completed /\ a = aggregate.aborted
    BY DEF IInv, Types, Counters
  <2>3. PICK c2 \in Nat, a2 \in Nat : c2 = aggregate'.completed /\ a2 = aggregate'.aborted
    BY <1>2 DEF Counters
  <2>4. aggregate'.started = generation' /\ aggregate'.started = c2 + a2 + 0
    BY <1>1, <1>2, <2>1, <2>2, <2>3
  <2> QED BY <1>1, <2>3, <2>4 DEF Sums
<1>6. ReuseRunsAreGranted' /\ OutputsAreLatest'
  BY <1>1 DEF IInv, ReuseRunsAreGranted, ReusedRun, OutputsAreLatest
<1> QED BY <1>7, <1>3, <1>4, <1>5, <1>6 DEF IInv

-----------------------------------------------------------------------------
LEMMA StepKeepsIInv == IInv /\ [ControllerNext]_controllerVars => IInv'
<1> SUFFICES ASSUME IInv, [ControllerNext]_controllerVars PROVE IInv'
  OBVIOUS
<1>1. CASE UNCHANGED <<generation, active, total, next_index, countdown, pending,
                       history, size, bytes, trace, output, aggregate>> /\ closed' \in BOOLEAN
  <2>1. Types' /\ Progress' /\ Counting' /\ Sums'
    BY <1>1 DEF IInv, Types, ControllerTypeOK, Progress, Counting, RunOf, Sums
  <2>2. Retention'
    BY <1>1 DEF IInv, Retention, RetainedWithinBudget, Fits, Latest
  <2>3. ReuseRunsAreGranted' /\ OutputsAreLatest'
    BY <1>1 DEF IInv, ReuseRunsAreGranted, ReusedRun, OutputsAreLatest
  <2> QED BY <2>1, <2>2, <2>3 DEF IInv
<1>2. CASE UNCHANGED controllerVars
  BY <1>1, <1>2 DEF controllerVars, IInv, Types, ControllerTypeOK
<1>3. CASE End \/ Abort
  BY <1>3, FinishKeepsIInv DEF End, Abort, IInv, Types, ControllerTypeOK
<1>4. CASE Close
  BY <1>1, <1>4, FinishKeepsIInv DEF Close
<1> QED BY <1>2, <1>3, <1>4, BeginKeepsIInv, DecideKeepsIInv, RecordKeepsIInv,
           RecordRaisesKeepsIInv, ReuseKeepsIInv DEF ControllerNext

LEMMA ControllerInvariant == ControllerSpec => []IInv
BY InitIInv, StepKeepsIInv, PTL DEF ControllerSpec

(* For any configuration and schedule the controller's fields keep their   *)
(* types, and no more slots are decided than the schedule has.             *)
THEOREM ControllerTypes == ControllerSpec => []ControllerTypeOK
<1>1. IInv => ControllerTypeOK
  BY DEF IInv, Types
<1> QED BY <1>1, ControllerInvariant, PTL

(* For any configuration and schedule: at most two predictions are owned,  *)
(* accounted for exactly and within max_bytes, whatever clones raise.      *)
THEOREM BudgetIsKept == ControllerSpec => []RetainedWithinBudget
<1>1. IInv => RetainedWithinBudget
  BY DEF IInv, Retention
<1> QED BY <1>1, ControllerInvariant, PTL

(* For any skip counts: slots are reused in granted runs, each as long as  *)
(* its skip count unless the schedule ends first.                          *)
THEOREM ReuseIsGranted == ControllerSpec => []ReuseRunsAreGranted
<1>1. IInv => ReuseRunsAreGranted
  BY DEF IInv
<1> QED BY <1>1, ControllerInvariant, PTL

(* For any schedule: the denoiser uses the slot's own prediction or the    *)
(* one of the latest computed slot of the same generation.                 *)
THEOREM LatestIsUsed == ControllerSpec => []OutputsAreLatest
<1>1. IInv => OutputsAreLatest
  BY DEF IInv
<1> QED BY <1>1, ControllerInvariant, PTL

(* For any number of generations the counters add up, and one counted as   *)
(* completed has consumed each of its slots.                               *)
THEOREM CountersAlwaysAddUp == ControllerSpec => CountersAddUp
<1>1. IInv => /\ aggregate.started = generation
              /\ aggregate.started = aggregate.completed + aggregate.aborted
                                      + (IF active THEN 1 ELSE 0)
  BY DEF IInv, Sums
<1>2. IInv /\ [ControllerNext]_controllerVars =>
        [aggregate'.completed > aggregate.completed => Len(output) = total]_controllerVars
  <2> SUFFICES ASSUME IInv, ControllerNext, aggregate'.completed > aggregate.completed
               PROVE  Len(output) = total
    OBVIOUS
  <2>1. aggregate \in Counters
    BY DEF IInv, Types
  <2>2. aggregate'.completed # aggregate.completed
    BY <2>1 DEF Counters
  <2>3. End
    <3>1. ASSUME NEW n \in 1 .. MaxSteps, Begin(n) PROVE FALSE
      BY <2>1, <2>2, <3>1 DEF Begin, Counters
    <3>2. ASSUME NEW level \in 0 .. Len(SkipCounts), Decide(level) PROVE FALSE
      BY <2>2, <3>2 DEF Decide
    <3>3. ASSUME NEW s \in Sizes, Record(s) \/ RecordRaises(s) PROVE FALSE
      BY <2>1, <2>2, <3>3 DEF Record, RecordRaises, Counters
    <3>4. CASE Reuse
      BY <2>1, <2>2, <3>4 DEF Reuse, Counters
    <3>5. CASE Abort \/ Close
      BY <2>1, <2>2, <3>5 DEF Abort, Close, Finish, Counters
    <3> QED BY <3>1, <3>2, <3>3, <3>4, <3>5 DEF ControllerNext
  <2> QED BY <2>3 DEF End, IInv, Progress
<1> QED BY <1>1, <1>2, ControllerInvariant, PTL DEF ControllerSpec, CountersAddUp

=============================================================================
