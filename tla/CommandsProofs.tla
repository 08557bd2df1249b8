--------------------------- MODULE CommandsProofs ---------------------------
(***************************************************************************)
(* Proofs about Commands, for any processes, command lines and hosts: the  *)
(* readings of one command line agree, whatever its length and its tokens; *)
(* a deep check that has ended leaves nothing behind that its result does  *)
(* not name; a host carries out what a command line asks for and nothing   *)
(* else; what was deleted can be asked back; a dry run tells the next      *)
(* release.                                                                *)
(*                                                                         *)
(* A line is a sequence of tokens and the walk over it a recursive         *)
(* function, so the first proofs, about Invocation, go by the least place  *)
(* at which something would be wrong.                                      *)
(***************************************************************************)
EXTENDS Commands, FiniteSetTheorems, SequenceTheorems, WellFoundedInduction, TLAPS

(***************************************************************************)
(* Induction: a set of naturals that is not empty has a least element,     *)
(* because the intervals below its elements are finite sets.               *)
(***************************************************************************)
LEMMA LeastNatural ==
    ASSUME NEW T, T \subseteq Nat, T # {}
    PROVE  \E m \in T : \A k \in T : m <= k
<1> DEFINE Below == {1..m : m \in T}
           R == StrictSubsetOrdering(Nat)
<1>1. IsWellFoundedOn(R, FiniteSubsetsOf(Nat))
  BY FS_StrictSubsetOrderingWellFounded
<1>2. Below \subseteq FiniteSubsetsOf(Nat) /\ Below # {}
  <2>1. ASSUME NEW m \in T PROVE 1..m \in FiniteSubsetsOf(Nat)
    <3>1. IsFiniteSet(1..m) /\ 1..m \subseteq Nat
      BY FS_Interval
    <3> QED BY <3>1 DEF FiniteSubsetsOf
  <2> QED BY <2>1
<1> HIDE DEF R
<1>3. PICK x \in Below : \A y \in Below : <<y, x>> \notin R
  BY <1>1, <1>2, WFMin
<1>4. PICK m \in T : x = 1..m
  BY <1>3
<1>5. ASSUME NEW k \in T, k < m PROVE FALSE
  <2>1. 1..k \subseteq 1..m /\ m \in 1..m /\ m \notin 1..k
    BY <1>5
  <2>2. <<1..k, x>> \in R
    BY <1>4, <2>1 DEF R, StrictSubsetOrdering
  <2> QED BY <1>3, <2>2
<1> QED BY <1>4, <1>5

\* What holds at 0 and passes from each number to the next holds up to n; Good is the set
\* of the numbers where it holds.
LEMMA UpTo ==
    ASSUME NEW n \in Nat, NEW Good, 0 \in Good,
           \A i \in 1..n : i - 1 \in Good => i \in Good
    PROVE  0..n \subseteq Good
<1> SUFFICES ASSUME NEW b \in 0..n, b \notin Good PROVE FALSE
  OBVIOUS
<1> DEFINE Bad == (0..n) \ Good
<1>0. Bad \subseteq Nat /\ Bad # {}
  OBVIOUS
<1>1. PICK m \in Bad : \A k \in Bad : m <= k
  <2> HIDE DEF Bad
  <2> QED BY <1>0, LeastNatural
<1>2. m # 0 /\ m - 1 \in 0..n /\ m - 1 \notin Bad
  BY <1>1
<1> QED BY <1>1, <1>2

\* Least is what its name says.
LEMMA LeastIs ==
    ASSUME NEW S, S \subseteq Nat, NEW d
    PROVE  /\ S = {} => Least(S, d) = d
           /\ S # {} => Least(S, d) \in S /\ \A j \in S : Least(S, d) <= j
  BY LeastNatural DEF Least

\* The n-th of a set of places is one of them.
Ranked(S, i) == {j \in S : j <= i}
LEMMA NthPlace ==
    ASSUME NEW N \in Nat, NEW S, S \subseteq 1..N, NEW n \in Nat \ {0}, ~(Cardinality(S) < n)
    PROVE  \E i \in S : Cardinality(Ranked(S, i)) = n
<1> DEFINE Upto(m) == {j \in S : j <= m}
           T == {m \in 0..N : Cardinality(Upto(m)) >= n}
<1>0. \A j \in S : j \in Nat /\ 1 <= j /\ j <= N
  OBVIOUS
<1>1. IsFiniteSet(S) /\ \A m \in 0..N : IsFiniteSet(Upto(m)) /\ Cardinality(Upto(m)) \in Nat
  <2>1. IsFiniteSet(S)
    <3>1. IsFiniteSet(1..N)
      BY FS_Interval
    <3> QED BY <3>1, FS_Subset
  <2>2. ASSUME NEW m \in 0..N PROVE IsFiniteSet(Upto(m)) /\ Cardinality(Upto(m)) \in Nat
    <3>1. Upto(m) \subseteq S
      OBVIOUS
    <3> QED BY <2>1, <3>1, FS_Subset, FS_CardinalityType
  <2> QED BY <2>1, <2>2
<1>2. N \in T
  <2>1. Upto(N) = S
    BY <1>0
  <2>2. Cardinality(S) \in Nat
    BY <1>1, FS_CardinalityType
  <2> QED BY <2>1, <2>2
<1>3. PICK m \in T : \A k \in T : m <= k
  <2>1. T \subseteq Nat
    OBVIOUS
  <2>2. T # {}
    <3> HIDE DEF T
    <3> QED BY <1>2
  <2> HIDE DEF T
  <2> QED BY <2>1, <2>2, LeastNatural
<1>4. m # 0
  <2>1. Upto(0) = {}
    <3>1. \A j \in S : ~(j <= 0)
      BY <1>0
    <3> QED BY <3>1
  <2> QED BY <1>3, <2>1, FS_EmptySet
<1>5. m - 1 \in 0..N /\ Cardinality(Upto(m - 1)) < n
  <2>1. m \in 0..N /\ m - 1 \in 0..N
    BY <1>3, <1>4
  <2>2. m - 1 \notin T
    <3> HIDE DEF T
    <3> QED BY <1>3, <2>1
  <2>3. Cardinality(Upto(m - 1)) \in Nat /\ ~(Cardinality(Upto(m - 1)) >= n)
    BY <1>1, <2>1, <2>2
  <2> HIDE DEF Upto
  <2> QED BY <2>1, <2>3
<1>6. m \in S
  <2> SUFFICES ASSUME m \notin S PROVE FALSE
    OBVIOUS
  <2>1. Upto(m) = Upto(m - 1)
    <3>1. \A j \in S : j <= m <=> j <= m - 1
      BY <1>0, <1>3
    <3> QED BY <3>1
  <2> QED BY <1>1, <1>3, <1>5, <2>1
<1>7. Upto(m) = Upto(m - 1) \cup {m} /\ m \notin Upto(m - 1)
  <2>1. \A j \in S : (j <= m <=> j <= m - 1 \/ j = m)
    BY <1>0, <1>3
  <2>2. m \in Nat
    BY <1>3
  <2>3. Upto(m) = Upto(m - 1) \cup {m}
    <3>1. m \in Upto(m)
      BY <1>6, <2>2
    <3>2. \A j : j \in Upto(m) <=> j \in Upto(m - 1) \/ j = m
      BY <2>1, <3>1
    <3> HIDE DEF Upto
    <3> QED BY <3>2
  <2>4. ~(m <= m - 1)
    BY <2>2
  <2> QED BY <2>3, <2>4
<1>8. Cardinality(Upto(m)) = Cardinality(Upto(m - 1)) + 1
  BY <1>1, <1>5, <1>7, FS_AddElement
<1>9. Cardinality(Upto(m)) = n
  <2>1. Cardinality(Upto(m)) >= n /\ Cardinality(Upto(m - 1)) \in Nat
    BY <1>1, <1>3, <1>5
  <2> HIDE DEF Upto
  <2> QED BY <1>5, <1>8, <2>1
<1>10. Ranked(S, m) = Upto(m)
  BY DEF Ranked
<1> HIDE DEF Upto
<1> QED BY <1>6, <1>9, <1>10

(***************************************************************************)
(* The recursive functions of Invocation have their defining equations.    *)
(***************************************************************************)
\* A sequence of steps exists: one value after another, each from the one before.
LEMMA WalksIs ==
    ASSUME NEW takes, NEW args, Len(args) \in Nat
    PROVE  Walks(takes, args) = [i \in 0..Len(args) |->
               IF i = 0 THEN [values |-> {}, end |-> 0]
               ELSE WalkOver(takes, args, Walks(takes, args)[i - 1], i)]
<1> DEFINE B(f, i) == IF i = 0 THEN [values |-> {}, end |-> 0]
                      ELSE WalkOver(takes, args, f[i - 1], i)
           Made(n) == \E f : f = [i \in 0..n |-> B(f, i)]
           Good == {n \in Nat : Made(n)}
<1>1. Made(0)
  <2> DEFINE f == [i \in 0..0 |-> [values |-> {}, end |-> 0]]
  <2>1. f = [i \in 0..0 |-> B(f, i)]
    OBVIOUS
  <2> QED BY <2>1
<1>2. ASSUME NEW n \in Nat, n # 0, Made(n - 1) PROVE Made(n)
  <2>1. PICK f : f = [i \in 0..(n - 1) |-> B(f, i)]
    BY <1>2
  <2> DEFINE g == [i \in 0..n |-> IF i = n THEN WalkOver(takes, args, f[n - 1], n) ELSE f[i]]
  <2>2. ASSUME NEW i \in 0..n PROVE g[i] = B(g, i)
    <3>1. CASE i = 0
      <4>1. 0 \in 0..(n - 1)
        BY <1>2
      <4> QED BY <2>1, <3>1, <4>1, <1>2
    <3>2. CASE i = n
      <4>1. g[n] = WalkOver(takes, args, f[n - 1], n) /\ g[n - 1] = f[n - 1]
        BY <1>2
      <4> HIDE DEF g
      <4> QED BY <1>2, <3>2, <4>1
    <3>3. CASE i # 0 /\ i # n
      <4>1. i \in 0..(n - 1) /\ i - 1 \in 0..n /\ i - 1 # n
        BY <3>3
      <4>2. g[i] = f[i] /\ g[i - 1] = f[i - 1]
        BY <3>3, <4>1
      <4>3. f[i] = WalkOver(takes, args, f[i - 1], i)
        BY <2>1, <3>3, <4>1
      <4> HIDE DEF g
      <4> QED BY <3>3, <4>2, <4>3
    <3> QED BY <3>1, <3>2, <3>3
  <2>3. g = [i \in 0..n |-> B(g, i)]
    <3>1. g = [i \in 0..n |-> g[i]]
      OBVIOUS
    <3> HIDE DEF g
    <3> QED BY <2>2, <3>1
  <2> QED BY <2>3
<1> HIDE DEF Made
<1>3. Made(Len(args))
  <2>1. 0..Len(args) \subseteq Good
    <3>1. 0 \in Good
      BY <1>1
    <3>2. ASSUME NEW i \in 1..Len(args), i - 1 \in Good PROVE i \in Good
      BY <1>2, <3>2
    <3> HIDE DEF Good
    <3> QED BY <3>1, <3>2, UpTo
  <2> QED BY <2>1
<1> QED BY <1>3 DEF Walks, Made

LEMMA StripsIs ==
    ASSUME NEW args, Len(args) \in Nat
    PROVE  Strips(args) = [i \in 0..Len(args) |->
               IF i = 0 THEN <<>>
               ELSE IF args[i] \in OutputFlags /\ i < Stop(args) THEN Strips(args)[i - 1]
               ELSE Append(Strips(args)[i - 1], args[i])]
<1> DEFINE Next1(s, i) == IF args[i] \in OutputFlags /\ i < Stop(args) THEN s ELSE Append(s, args[i])
           B(f, i) == IF i = 0 THEN <<>> ELSE Next1(f[i - 1], i)
           Made(n) == \E f : f = [i \in 0..n |-> B(f, i)]
           Good == {n \in Nat : Made(n)}
<1>1. Made(0)
  <2> DEFINE f == [i \in 0..0 |-> <<>>]
  <2>1. f = [i \in 0..0 |-> B(f, i)]
    OBVIOUS
  <2> QED BY <2>1
<1> HIDE DEF Next1
<1>2. ASSUME NEW n \in Nat, n # 0, Made(n - 1) PROVE Made(n)
  <2>1. PICK f : f = [i \in 0..(n - 1) |-> B(f, i)]
    BY <1>2
  <2> DEFINE g == [i \in 0..n |-> IF i = n THEN Next1(f[n - 1], n) ELSE f[i]]
  <2>2. ASSUME NEW i \in 0..n PROVE g[i] = B(g, i)
    <3>1. CASE i = 0
      <4>1. 0 \in 0..(n - 1)
        BY <1>2
      <4> QED BY <2>1, <3>1, <4>1, <1>2
    <3>2. CASE i = n
      <4>1. g[n] = Next1(f[n - 1], n) /\ g[n - 1] = f[n - 1]
        BY <1>2
      <4> HIDE DEF g
      <4> QED BY <1>2, <3>2, <4>1
    <3>3. CASE i # 0 /\ i # n
      <4>1. i \in 0..(n - 1) /\ i - 1 \in 0..n /\ i - 1 # n
        BY <3>3
      <4>2. g[i] = f[i] /\ g[i - 1] = f[i - 1]
        BY <3>3, <4>1
      <4>3. f[i] = Next1(f[i - 1], i)
        BY <2>1, <3>3, <4>1
      <4> HIDE DEF g
      <4> QED BY <3>3, <4>2, <4>3
    <3> QED BY <3>1, <3>2, <3>3
  <2>3. g = [i \in 0..n |-> B(g, i)]
    <3>1. g = [i \in 0..n |-> g[i]]
      OBVIOUS
    <3> HIDE DEF g
    <3> QED BY <2>2, <3>1
  <2> QED BY <2>3
<1> HIDE DEF Made
<1>3. Made(Len(args))
  <2>1. 0..Len(args) \subseteq Good
    <3>1. 0 \in Good
      BY <1>1
    <3>2. ASSUME NEW i \in 1..Len(args), i - 1 \in Good PROVE i \in Good
      BY <1>2, <3>2
    <3> HIDE DEF Good
    <3> QED BY <3>1, <3>2, UpTo
  <2> QED BY <2>1
<1> QED BY <1>3 DEF Strips, Made, Next1

\* Step by step.
LEMMA WalkSteps ==
    ASSUME NEW takes, NEW args, Len(args) \in Nat
    PROVE  /\ Walks(takes, args)[0] = [values |-> {}, end |-> 0]
           /\ \A i \in 1..Len(args) :
                 Walks(takes, args)[i] = WalkOver(takes, args, Walks(takes, args)[i - 1], i)
<1> DEFINE f == Walks(takes, args)
           g == [i \in 0..Len(args) |-> IF i = 0 THEN [values |-> {}, end |-> 0]
                                        ELSE WalkOver(takes, args, f[i - 1], i)]
<1>1. f = g
  BY WalksIs
<1> HIDE DEF f
<1>2. g[0] = [values |-> {}, end |-> 0]
  OBVIOUS
<1>3. \A i \in 1..Len(args) : g[i] = WalkOver(takes, args, f[i - 1], i)
  OBVIOUS
<1> HIDE DEF g
<1>4. f[0] = [values |-> {}, end |-> 0] /\ \A i \in 1..Len(args) : f[i] = WalkOver(takes, args, f[i - 1], i)
  BY <1>1, <1>2, <1>3, Zenon
<1> QED BY <1>4 DEF f

LEMMA StripSteps ==
    ASSUME NEW args, Len(args) \in Nat
    PROVE  /\ Strips(args)[0] = <<>>
           /\ \A i \in 1..Len(args) :
                 Strips(args)[i] \in {Strips(args)[i - 1], Append(Strips(args)[i - 1], args[i])}
<1> DEFINE f == Strips(args)
           Next1(s, i) == IF args[i] \in OutputFlags /\ i < Stop(args) THEN s ELSE Append(s, args[i])
           g == [i \in 0..Len(args) |-> IF i = 0 THEN <<>> ELSE Next1(f[i - 1], i)]
<1>1. f = g
  BY StripsIs
<1> HIDE DEF f
<1>2. g[0] = <<>>
  OBVIOUS
<1>3. \A i \in 1..Len(args) : g[i] = Next1(f[i - 1], i)
  OBVIOUS
<1> HIDE DEF g
<1>4. f[0] = <<>> /\ \A i \in 1..Len(args) : f[i] = Next1(f[i - 1], i)
  BY <1>1, <1>2, <1>3, Zenon
<1> QED BY <1>4 DEF f

\* What is left of a line of tokens is a line of tokens.
LEMMA StrippedIsALine == ASSUME NEW S, NEW args \in Seq(S) PROVE Stripped(args) \in Seq(S)
<1> DEFINE f == Strips(args)
           Good == {i \in 0..Len(args) : f[i] \in Seq(S)}
<1>0. Len(args) \in Nat /\ \A i \in 1..Len(args) : args[i] \in S
  OBVIOUS
<1>1. f[0] = <<>> /\ \A i \in 1..Len(args) : f[i] \in {f[i - 1], Append(f[i - 1], args[i])}
  BY <1>0, StripSteps
<1> HIDE DEF f
<1>2. 0 \in Good
  <2>1. 0 \in 0..Len(args) /\ <<>> \in Seq(S)
    BY <1>0
  <2> QED BY <1>1, <2>1
<1>3. ASSUME NEW i \in 1..Len(args), i - 1 \in Good PROVE i \in Good
  <2>1. f[i] \in {f[i - 1], Append(f[i - 1], args[i])} /\ i \in 0..Len(args)
    BY <1>1
  <2>2. f[i - 1] \in Seq(S) /\ args[i] \in S
    BY <1>0, <1>3
  <2>3. Append(f[i - 1], args[i]) \in Seq(S)
    BY <2>2
  <2> QED BY <2>1, <2>2, <2>3
<1>4. 0..Len(args) \subseteq Good
  <2> HIDE DEF Good
  <2> QED BY <1>0, <1>2, <1>3, UpTo
<1> QED BY <1>0, <1>4 DEF Stripped, f

(***************************************************************************)
(* The walk, up to each place.                                             *)
(***************************************************************************)
\* What has been read up to i: the places of values come right after an option that
\* takes one, the end is a "--" that is no value, and before it nothing was overlooked.
WalkedTo(takes, args, w, i) ==
    /\ w = [values |-> w.values, end |-> w.end]
    /\ w.values \subseteq 2..(i + 1)
    /\ \A j \in w.values : args[j - 1] \in takes /\ j - 1 \notin w.values /\ (w.end # 0 => j < w.end)
    /\ w.end \in 0..i
    /\ w.end # 0 => args[w.end] = Delimiter /\ w.end \notin w.values
    /\ \A j \in 1..i : j \notin w.values /\ (w.end = 0 \/ j < w.end) =>
          args[j] # Delimiter /\ (args[j] \in takes => j + 1 \in w.values)

LEMMA ValuesGrow ==
    ASSUME NEW A, NEW B, NEW w, w = [values |-> A, end |-> 0]
    PROVE  [w EXCEPT !.values = B] = [values |-> B, end |-> 0]
  OBVIOUS

LEMMA WalkOverKeeps ==
    ASSUME NEW takes, NEW args, NEW w, NEW i \in Nat \ {0}, WalkedTo(takes, args, w, i - 1)
    PROVE  WalkedTo(takes, args, WalkOver(takes, args, w, i), i)
<1>0. /\ w = [values |-> w.values, end |-> w.end]
      /\ w.values \subseteq 2..i
      /\ \A j \in w.values : args[j - 1] \in takes /\ j - 1 \notin w.values /\ (w.end # 0 => j < w.end)
      /\ w.end \in 0..(i - 1)
      /\ w.end # 0 => args[w.end] = Delimiter /\ w.end \notin w.values
      /\ \A j \in 1..(i - 1) : j \notin w.values /\ (w.end = 0 \/ j < w.end) =>
            args[j] # Delimiter /\ (args[j] \in takes => j + 1 \in w.values)
  BY DEF WalkedTo
<1>1. CASE i \in w.values \/ w.end # 0
  <2>1. WalkOver(takes, args, w, i) = w
    BY <1>1 DEF WalkOver
  <2>2. WalkedTo(takes, args, w, i)
    BY <1>0, <1>1 DEF WalkedTo
  <2> QED BY <2>1, <2>2
<1>2. CASE i \notin w.values /\ w.end = 0 /\ args[i] = Delimiter
  <2> DEFINE v == [values |-> w.values, end |-> i]
  <2>1. WalkOver(takes, args, w, i) = v
    <3>1. WalkOver(takes, args, w, i) = [w EXCEPT !.end = i]
      BY <1>2 DEF WalkOver
    <3>2. [w EXCEPT !.end = i] = v
      BY <1>0
    <3> QED BY <3>1, <3>2
  <2>2. v.values = w.values /\ v.end = i
    OBVIOUS
  <2>3. \A j \in w.values : j < i
    BY <1>0, <1>2
  <2> HIDE DEF v
  <2>4. v = [values |-> v.values, end |-> v.end]
    BY <2>2 DEF v
  <2>5. WalkedTo(takes, args, v, i)
    BY <1>0, <1>2, <2>2, <2>3, <2>4 DEF WalkedTo
  <2> QED BY <2>1, <2>5
<1>3. CASE i \notin w.values /\ w.end = 0 /\ args[i] # Delimiter /\ args[i] \in takes
  <2> DEFINE v == [values |-> w.values \cup {i + 1}, end |-> 0]
  <2>1. WalkOver(takes, args, w, i) = v
    <3>1. WalkOver(takes, args, w, i) = [w EXCEPT !.values = @ \cup {i + 1}]
      BY <1>3 DEF WalkOver
    <3>2. w = [values |-> w.values, end |-> 0]
      BY <1>0, <1>3
    <3>3. [w EXCEPT !.values = @ \cup {i + 1}] = [w EXCEPT !.values = w.values \cup {i + 1}]
      BY <3>2
    <3>4. [w EXCEPT !.values = w.values \cup {i + 1}] = v
      BY <3>2, ValuesGrow
    <3> QED BY <3>1, <3>3, <3>4
  <2>2. v.values = w.values \cup {i + 1} /\ v.end = 0 /\ v = [values |-> v.values, end |-> v.end]
    OBVIOUS
  <2> HIDE DEF v
  <2>3. v.values \subseteq 2..(i + 1)
    BY <1>0, <2>2
  <2>4. \A j \in v.values : args[j - 1] \in takes /\ j - 1 \notin v.values
    <3>1. ASSUME NEW j \in w.values PROVE args[j - 1] \in takes /\ j - 1 \notin v.values
      BY <1>0, <2>2
    <3>2. i + 1 - 1 = i /\ i # i + 1
      OBVIOUS
    <3> QED BY <1>3, <2>2, <3>1, <3>2
  <2>5. ASSUME NEW j \in 1..i, j \notin v.values
        PROVE  args[j] # Delimiter /\ (args[j] \in takes => j + 1 \in v.values)
    <3>1. CASE j = i
      BY <1>3, <2>2, <3>1
    <3>2. CASE j # i
      BY <1>0, <1>3, <2>2, <2>5, <3>2
    <3> QED BY <3>1, <3>2
  <2>6. WalkedTo(takes, args, v, i)
    BY <2>2, <2>3, <2>4, <2>5 DEF WalkedTo
  <2> QED BY <2>1, <2>6
<1>4. CASE i \notin w.values /\ w.end = 0 /\ args[i] # Delimiter /\ args[i] \notin takes
  <2>1. WalkOver(takes, args, w, i) = w
    BY <1>4 DEF WalkOver
  <2>2. \A j \in 1..i : j = i \/ j \in 1..(i - 1)
    OBVIOUS
  <2>3. WalkedTo(takes, args, w, i)
    BY <1>0, <1>4, <2>2 DEF WalkedTo
  <2> QED BY <2>1, <2>3
<1> QED BY <1>1, <1>2, <1>3, <1>4

LEMMA Walked ==
    ASSUME NEW takes, NEW args, Len(args) \in Nat
    PROVE  WalkedTo(takes, args, Walk(takes, args), Len(args))
<1> DEFINE f == Walks(takes, args)
           Good == {i \in 0..Len(args) : WalkedTo(takes, args, f[i], i)}
<1>1. /\ f[0] = [values |-> {}, end |-> 0]
      /\ \A i \in 1..Len(args) : f[i] = WalkOver(takes, args, f[i - 1], i)
  BY WalkSteps
<1> HIDE DEF f
<1>2. 0 \in Good
  <2>1. WalkedTo(takes, args, [values |-> {}, end |-> 0], 0)
    BY DEF WalkedTo
  <2> QED BY <1>1, <2>1
<1>3. ASSUME NEW i \in 1..Len(args), i - 1 \in Good PROVE i \in Good
  <2>1. WalkedTo(takes, args, f[i - 1], i - 1) /\ i \in Nat \ {0} /\ i \in 0..Len(args)
    BY <1>3
  <2>2. WalkedTo(takes, args, WalkOver(takes, args, f[i - 1], i), i)
    BY <2>1, WalkOverKeeps
  <2> QED BY <1>1, <2>1, <2>2
<1>4. 0..Len(args) \subseteq Good
  <2> HIDE DEF Good
  <2> QED BY <1>2, <1>3, UpTo
<1>5. Len(args) \in Good
  <2>1. Len(args) \in 0..Len(args)
    OBVIOUS
  <2> QED BY <1>4, <2>1
<1> QED BY <1>5 DEF Walk, f

(***************************************************************************)
(* The readings of one line agree.                                         *)
(***************************************************************************)
\* The tables name options of this program.
LEMMA TableNames ==
    ASSUME NEW command \in DOMAIN Table
    PROVE  Table[command].takes \subseteq Options /\ Delimiter \notin Options
  BY DEF Table, Entry, Options, OutputFlags, Delimiter

\* A line that was accepted, and where no option was given another for its value.
Accepted(command, args) == Validate(command, args) = "ok" /\ Plain(command, args)

LEMMA AcceptedWalk ==
    ASSUME NEW command \in DOMAIN Table, NEW args, Len(args) \in Nat, DOMAIN args = 1..Len(args),
           Accepted(command, args)
    PROVE  LET w == Walk(Table[command].takes, args)
           IN  /\ w.values \subseteq 2..Len(args)
               /\ \A i \in w.values : args[i] \notin Options \cup {Delimiter}
               /\ Stop(args) = IF w.end = 0 THEN Len(args) + 1 ELSE w.end
               /\ OptionsAt(w, args) = {i \in 1..Len(args) : args[i] \in Options /\ i < Stop(args)}
               /\ \A i \in 1..Len(args) : i < Stop(args) /\ args[i] \in Table[command].takes =>
                     i + 1 \in w.values
<1> DEFINE takes == Table[command].takes
           w == Walk(takes, args)
           n == Len(args)
           D == {i \in 1..n : args[i] = Delimiter}
<1>1. WalkedTo(takes, args, w, n)
  BY Walked
<1>2. \A i \in w.values : ~(i > n)
  BY DEF Accepted, Validate
<1>3. Plain(command, args)
  BY DEF Accepted
<1>4. \A i \in w.values : i <= n => args[i] \notin Options \cup {Delimiter}
  BY <1>3 DEF Plain
<1>5. takes \subseteq Options /\ Delimiter \notin Options
  BY TableNames
<1>6. Stop(args) = Least(D, n + 1)
  BY DEF Stop
<1> HIDE DEF takes, w
<1>7. w.values \subseteq 2..(n + 1) /\ w.end \in 0..n
  BY <1>1 DEF WalkedTo
<1>8. w.values \subseteq 2..n
  BY <1>2, <1>7
<1>9. \A i \in w.values : args[i] \notin Options \cup {Delimiter}
  BY <1>4, <1>8
<1>10. \A j \in 1..n : w.end = 0 \/ j < w.end => j \notin D
  BY <1>1, <1>9 DEF WalkedTo
<1>11. w.end # 0 => w.end \in D
  BY <1>1 DEF WalkedTo
<1>12. Stop(args) = IF w.end = 0 THEN n + 1 ELSE w.end
  <2>1. D \subseteq Nat /\ D \subseteq 1..n
    OBVIOUS
  <2> HIDE DEF D
  <2>2. /\ D = {} => Stop(args) = n + 1
        /\ D # {} => Stop(args) \in D /\ \A j \in D : Stop(args) <= j
    <3>1. /\ D = {} => Least(D, n + 1) = n + 1
          /\ D # {} => Least(D, n + 1) \in D /\ \A j \in D : Least(D, n + 1) <= j
      BY <2>1, LeastIs
    <3> QED BY <1>6, <3>1
  <2>3. CASE w.end = 0
    BY <1>10, <2>1, <2>2, <2>3
  <2>4. CASE w.end # 0
    <3>1. Stop(args) \in D /\ Stop(args) <= w.end
      BY <1>11, <2>2, <2>4
    <3>2. ~(Stop(args) < w.end)
      BY <1>10, <2>1, <3>1
    <3>3. Stop(args) \in Nat /\ w.end \in Nat
      <4>1. Stop(args) \in Nat
        BY <2>1, <3>1
      <4>2. w.end \in Nat
        BY <1>7
      <4> QED BY <4>1, <4>2
    <3> QED BY <2>4, <3>1, <3>2, <3>3
  <2> QED BY <2>3, <2>4
<1>13. ASSUME NEW i \in 1..n, args[i] \in Options
       PROVE  (i \notin w.values /\ ~AfterOptions(w, i)) <=> i < Stop(args)
  <2>1. i \notin w.values
    BY <1>9, <1>13
  <2>2. i # w.end
    BY <1>5, <1>11, <1>13
  <2>3. ~AfterOptions(w, i) <=> w.end = 0 \/ ~(i > w.end)
    BY DEF AfterOptions
  <2> QED BY <1>7, <1>12, <2>1, <2>2, <2>3
<1>14. OptionsAt(w, args) = {i \in 1..n : args[i] \in Options /\ i < Stop(args)}
  BY <1>13 DEF OptionsAt
<1>15. ASSUME NEW i \in 1..n, i < Stop(args), args[i] \in takes PROVE i + 1 \in w.values
  <2>1. i \notin w.values
    BY <1>5, <1>9, <1>15
  <2>2. w.end = 0 \/ i < w.end
    BY <1>12, <1>15
  <2> QED BY <1>1, <1>15, <2>1, <2>2 DEF WalkedTo
<1> QED BY <1>8, <1>9, <1>12, <1>14, <1>15 DEF w, takes

\* Each handler looks its options and words up by itself; on a line that was accepted and
\* where no option was given another one for its value, it finds what reading the line once
\* from left to right finds: quick_cmd_value, quick_cmd_flag and site_admin_nth_positional
\* agree with app_command_validate_invocation.
THEOREM ReadingsAgree ==
    ASSUME NEW command \in DOMAIN Table, NEW args, Len(args) \in Nat, DOMAIN args = 1..Len(args),
           Accepted(command, args)
    PROVE  LET line == Meant(command, args)
           IN  /\ \A name \in Table[command].takes : Value(args, name) = line.value[name]
               /\ \A name \in Options : Flag(args, name) <=> name \in line.flags
               /\ \A n \in Nat \ {0} : Word(Table[command].takes, args, n) =
                     IF n \in DOMAIN line.words THEN line.words[n] ELSE None
<1> DEFINE takes == Table[command].takes
           w == Walk(takes, args)
           found(name) == {i \in OptionsAt(w, args) : args[i] = name}
           P(name) == {i \in 1..Len(args) : i < Stop(args) /\ args[i] = name}
           words == WordsAt(w, args)
           line == Meant(command, args)
<1>1. /\ w.values \subseteq 2..Len(args)
      /\ OptionsAt(w, args) = {i \in 1..Len(args) : args[i] \in Options /\ i < Stop(args)}
      /\ \A i \in 1..Len(args) : i < Stop(args) /\ args[i] \in takes => i + 1 \in w.values
  BY AcceptedWalk
<1>2. takes \subseteq Options
  BY TableNames
<1>3. /\ line.value = [name \in Options |-> IF name \notin takes \/ found(name) = {} THEN None
                                               ELSE args[Least(found(name), 0) + 1]]
      /\ line.flags = {args[i] : i \in OptionsAt(w, args)}
      /\ line.words = [n \in 1..Cardinality(words) |->
                         args[CHOOSE i \in words : Cardinality({j \in words : j <= i}) = n]]
  BY DEF Meant
<1>4. \A name \in Options : P(name) = found(name)
  BY <1>1
<1>5. \A name : Value(args, name) = LET i == Least(P(name), 0)
                                    IN  IF i = 0 \/ i + 1 > Len(args) THEN None ELSE args[i + 1]
  BY DEF Value
<1>6. \A name : Flag(args, name) <=> P(name) # {}
  BY DEF Flag
<1>7. IsFiniteSet(words) /\ Cardinality(words) \in Nat
  <2>1. words \subseteq 1..Len(args)
    BY DEF WordsAt
  <2>2. IsFiniteSet(1..Len(args))
    BY FS_Interval
  <2> QED BY <2>1, <2>2, FS_Subset, FS_CardinalityType
<1>8. \A n : Word(takes, args, n) = IF Cardinality(words) < n THEN None
                 ELSE args[CHOOSE i \in words : Cardinality({j \in words : j <= i}) = n]
  BY DEF Word
<1> HIDE DEF line, w, words
<1>9. ASSUME NEW name \in takes PROVE Value(args, name) = line.value[name]
  <2>1. name \in Options /\ P(name) = found(name)
    BY <1>2, <1>4
  <2>2. line.value[name] = IF P(name) = {} THEN None ELSE args[Least(P(name), 0) + 1]
    BY <1>3, <2>1
  <2>3. P(name) = {} => Least(P(name), 0) = 0
    BY LeastIs
  <2>4. P(name) # {} => Least(P(name), 0) \in P(name)
    <3>1. P(name) \subseteq Nat
      OBVIOUS
    <3> HIDE DEF P
    <3> QED BY <3>1, LeastIs
  <2>5. \A i \in P(name) : i \in Nat /\ i # 0 /\ i + 1 <= Len(args)
    BY <1>1
  <2> HIDE DEF P, found
  <2> QED BY <1>5, <2>2, <2>3, <2>4, <2>5
<1>10. ASSUME NEW name \in Options PROVE Flag(args, name) <=> name \in line.flags
  <2>1. P(name) = found(name)
    BY <1>4
  <2>2. name \in line.flags <=> found(name) # {}
    BY <1>3
  <2> HIDE DEF P, found
  <2> QED BY <1>6, <2>1, <2>2
<1>11. ASSUME NEW n \in Nat \ {0}
       PROVE  Word(takes, args, n) = IF n \in DOMAIN line.words THEN line.words[n] ELSE None
  <2> DEFINE nth(m) == args[CHOOSE i \in words : Cardinality({j \in words : j <= i}) = m]
  <2>1. line.words = [m \in 1..Cardinality(words) |-> nth(m)]
    BY <1>3
  <2>2. Word(takes, args, n) = IF Cardinality(words) < n THEN None ELSE nth(n)
    BY <1>8
  <2> HIDE DEF nth
  <2> QED BY <1>7, <2>1, <2>2
<1> QED BY <1>9, <1>10, <1>11 DEF line, takes

\* What a handler looks up is one of the tokens, or nothing.
LEMMA ReadsTokens ==
    ASSUME NEW S, NEW args \in Seq(S)
    PROVE  /\ \A name : Value(args, name) \in S \cup {None}
           /\ \A takes : \A n \in Nat \ {0} : Word(takes, args, n) \in S \cup {None}
<1>0. Len(args) \in Nat /\ DOMAIN args = 1..Len(args) /\ \A i \in 1..Len(args) : args[i] \in S
  OBVIOUS
<1>1. ASSUME NEW name PROVE Value(args, name) \in S \cup {None}
  <2> DEFINE P == {i \in DOMAIN args : i < Stop(args) /\ args[i] = name}
             i == Least(P, 0)
  <2>1. Value(args, name) = IF i = 0 \/ i + 1 > Len(args) THEN None ELSE args[i + 1]
    BY DEF Value
  <2>2. P \subseteq Nat
    BY <1>0
  <2>3. P = {} => i = 0
    BY LeastIs
  <2>4. P # {} => i \in P
    <3> HIDE DEF P
    <3> QED BY <2>2, LeastIs
  <2>5. i = 0 \/ i \in 1..Len(args)
    <3>1. P \subseteq 1..Len(args)
      BY <1>0
    <3> HIDE DEF P, i
    <3> QED BY <2>3, <2>4, <3>1
  <2> HIDE DEF i
  <2> QED BY <1>0, <2>1, <2>5
<1>2. ASSUME NEW takes, NEW n \in Nat \ {0} PROVE Word(takes, args, n) \in S \cup {None}
  <2> DEFINE w == WordsAt(Walk(takes, args), args)
             i == CHOOSE i \in w : Cardinality({j \in w : j <= i}) = n
  <2>1. Word(takes, args, n) = IF Cardinality(w) < n THEN None ELSE args[i]
    BY DEF Word
  <2>2. w \subseteq 1..Len(args)
    BY <1>0 DEF WordsAt
  <2> HIDE DEF w
  <2>3. ~(Cardinality(w) < n) => i \in w
    <3>1. ASSUME ~(Cardinality(w) < n)
          PROVE  \E k \in w : Cardinality({j \in w : j <= k}) = n
      <4> DEFINE N == Len(args)
      <4>1. N \in Nat /\ w \subseteq 1..N
        BY <1>0, <2>2
      <4> HIDE DEF N
      <4>2. \E k \in w : Cardinality(Ranked(w, k)) = n
        BY <3>1, <4>1, NthPlace
      <4> QED BY <4>2 DEF Ranked
    <3> QED BY <3>1
  <2> HIDE DEF i
  <2> QED BY <1>0, <2>1, <2>2, <2>3
<1> QED BY <1>1, <1>2


(***************************************************************************)
(* The inductive invariant.  What a process's doctor may have made depends *)
(* on where the process is: nothing before the deep check and in any other *)
(* command (Clean), nothing that is live before the activate, anything     *)
(* until the delete has been answered, and at the end only what is told.   *)
(* An activate that nobody waits for can still finish after the end; it is *)
(* harmless where the delete failed, since that is told, and where it did  *)
(* not, since nothing is there to activate.                                *)
(***************************************************************************)
Stages == {"doctor-transfer", "doctor-activate"}
Deep == Stages \cup {"doctor-probe", "doctor-delete"}

DoctorRecord ==
    [tui : BOOLEAN, remote : BOOLEAN, deep : BOOLEAN, cancel : BOOLEAN, curl : BOOLEAN,
     ok : BOOLEAN, temp : BOOLEAN, site : {"none", "staged", "live"}, running : BOOLEAN,
     probed : BOOLEAN, interrupted : BOOLEAN, deleted : BOOLEAN,
     said : {"none", "ok", "fail", "warn", "skip", "cleanup-failed"}]

Clean(d) == ~d.temp /\ d.site = "none" /\ ~d.running /\ d.said = "none"
Unpublished(d) == d.site # "live" /\ ~d.running
Told(d) ==
    /\ ~d.temp
    /\ d.said = "ok" => d.site = "none"
    /\ d.site = "live" => d.said = "cleanup-failed"
    /\ d.running => d.said = "cleanup-failed" \/ d.site = "none"

Good(where, d) ==
    /\ where \in Codes => Told(d)
    /\ where \in Stages => Unpublished(d)
    /\ where \notin Codes \cup Deep => Clean(d)

DoctorInv ==
    /\ DOMAIN crowd \subseteq Procs
    /\ at = [p \in Procs |-> at[p]]
    /\ doctor \in [Procs -> DoctorRecord]
    /\ \A p \in Procs : Good(at[p], doctor[p])

\* A doctor that has made nothing is good wherever its process goes.
LEMMA CleanIsGood ==
    ASSUME NEW d, Clean(d), NEW where PROVE Good(where, d)
  BY DEF Clean, Good, Told, Unpublished

\* A step of one process: where it goes, and what its doctor is then.
LEMMA OneMoves ==
    ASSUME DoctorInv, NEW p \in Procs, NEW where, NEW d \in DoctorRecord, Good(where, d),
           at' = [at EXCEPT ![p] = where], doctor' = [doctor EXCEPT ![p] = d], crowd' = crowd
    PROVE  DoctorInv'
<1>1. at' = [q \in Procs |-> at'[q]] /\ doctor' \in [Procs -> DoctorRecord]
  BY DEF DoctorInv
<1>2. ASSUME NEW q \in Procs PROVE Good(at'[q], doctor'[q])
  <2>1. CASE q = p
    <3>1. at'[q] = where /\ doctor'[q] = d
      BY <2>1 DEF DoctorInv
    <3> QED
      BY <3>1
  <2>2. CASE q # p
    <3>1. at'[q] = at[q] /\ doctor'[q] = doctor[q]
      BY <2>2 DEF DoctorInv
    <3> QED
      BY <3>1 DEF DoctorInv
  <2> QED
    BY <2>1, <2>2
<1>3. DOMAIN crowd' \subseteq Procs
  BY DEF DoctorInv
<1> QED
  BY <1>1, <1>2, <1>3 DEF DoctorInv

\* A step in which a process that has made nothing goes on without its doctor.
LEMMA OtherMoves ==
    ASSUME DoctorInv, NEW p \in Procs, NEW where, at[p] \notin Codes \cup Deep,
           at' = [at EXCEPT ![p] = where], UNCHANGED doctor, crowd' = crowd
    PROVE  DoctorInv'
<1>1. doctor[p] \in DoctorRecord /\ Clean(doctor[p])
  BY DEF DoctorInv, Good
<1>2. doctor' = [doctor EXCEPT ![p] = doctor[p]]
  BY DEF DoctorInv
<1>3. Good(where, doctor[p])
  BY <1>1, CleanIsGood
<1> QED
  BY <1>1, <1>2, <1>3, OneMoves

\* The doctor of one process changes and the process stays where it is.
LEMMA DoctorChanges ==
    ASSUME DoctorInv, NEW p \in Procs, NEW d \in DoctorRecord, Good(at[p], d),
           at' = at, doctor' = [doctor EXCEPT ![p] = d], crowd' = crowd
    PROVE  DoctorInv'
<1>1. at' = [at EXCEPT ![p] = at[p]]
  BY DEF DoctorInv
<1> QED
  BY <1>1, OneMoves

(***************************************************************************)
(* Steps of the other commands.                                            *)
(***************************************************************************)
\* The operations on sites and the steps of a deploy move one process, whose doctor has
\* made nothing.
LEMMA AdminMoves ==
    ASSUME NEW p \in Procs, AdminStep(p)
    PROVE  at[p] \notin Codes \cup Deep /\ \E where : at' = [at EXCEPT ![p] = where]
<1>1. CASE Fetch(p)
  BY <1>1 DEF Fetch, Ends, Call, Codes, Unasked, Deep, Stages
<1>2. CASE Ask(p)
  BY <1>2 DEF Ask, Ends, Call, Codes, Unasked, Deep, Stages
<1>3. CASE Send(p)
  BY <1>3 DEF Send, Ends, Codes, Unasked, Deep, Stages
<1>4. CASE SitesScreen(p)
  BY <1>4 DEF SitesScreen, Ends, Call, Codes, Unasked, Deep, Stages
<1> QED
  BY <1>1, <1>2, <1>3, <1>4 DEF AdminStep

LEMMA DeployMoves ==
    ASSUME NEW p \in Procs, DeployStep(p)
    PROVE  at[p] \notin Codes \cup Deep /\ \E where : at' = [at EXCEPT ![p] = where]
<1>1. CASE Build(p)
  BY <1>1 DEF Build, Ends, Codes, Unasked, Deep, Stages
<1>2. CASE Prepare(p)
  BY <1>2 DEF Prepare, Ends, Codes, Unasked, Deep, Stages
<1>3. CASE AskOverwrite(p)
  BY <1>3 DEF AskOverwrite, Ends, Codes, Unasked, Deep, Stages
<1>4. CASE Transfer(p)
  BY <1>4 DEF Transfer, Ends, Codes, Unasked, Deep, Stages
<1>5. CASE Activate(p)
  BY <1>5 DEF Activate, Ends, Codes, Unasked, Deep, Stages
<1>6. CASE RecordSuccess(p)
  BY <1>6 DEF RecordSuccess, Ends, Codes, Unasked, Deep, Stages
<1> QED
  BY <1>1, <1>2, <1>3, <1>4, <1>5, <1>6 DEF DeployStep

\* A command that starts has no doctor yet, or one that has made nothing.
LEMMA StartMoves ==
    ASSUME DoctorInv, NEW p \in Procs, Start(p)
    PROVE  DoctorInv'
<1>1. at[p] \notin Codes \cup Deep /\ crowd' = crowd
  BY DEF Start, Codes, Unasked, Deep, Stages
<1>2. CASE \E where : at' = [at EXCEPT ![p] = where] /\ UNCHANGED doctor
  BY <1>1, <1>2, OtherMoves
<1>3. CASE DoctorStart(p, Args(p), Quiet(p))
  <2> DEFINE d == [NoDoctor EXCEPT
                     !.remote = Flag(Args(p), "--remote") \/ Value(Args(p), "--profile") # None,
                     !.deep = Flag(Args(p), "--deep")]
             where == IF Quiet(p) THEN "ok" ELSE "checks"
  <2>1. Flag(Args(p), "--remote") \in BOOLEAN /\ Flag(Args(p), "--deep") \in BOOLEAN
    BY DEF Flag
  <2>2. d \in DoctorRecord /\ Clean(d)
    BY <2>1 DEF NoDoctor, DoctorRecord, Clean
  <2>3. at' = [at EXCEPT ![p] = where] /\ doctor' = [doctor EXCEPT ![p] = d]
    BY <1>3 DEF DoctorStart, Ends
  <2> HIDE DEF d, where
  <2>4. Good(where, d)
    BY <2>2, CleanIsGood
  <2> QED
    BY <1>1, <2>2, <2>3, <2>4, OneMoves
<1>4. CASE AdminStart(p, Command(p), Args(p)) /\ UNCHANGED doctor
  BY <1>2, <1>4 DEF AdminStart, Ends, Call
<1>5. CASE ListStart(p, Args(p)) /\ UNCHANGED doctor
  BY <1>2, <1>5 DEF ListStart, Ends
<1>6. CASE DeployStart(p, Args(p)) /\ UNCHANGED doctor
  BY <1>2, <1>6 DEF DeployStart, Ends
<1>7. CASE \E where : Ends(p, where) /\ UNCHANGED doctor
  BY <1>2, <1>7 DEF Ends
<1>8. CASE Handler(p)
  BY <1>3, <1>4, <1>5, <1>6, <1>7, <1>8 DEF Handler
<1> QED
  BY <1>7, <1>8 DEF Start

(***************************************************************************)
(* Steps of the doctor.                                                    *)
(***************************************************************************)
\* What the deep check says changes nothing else of the doctor's record but ok.
LEMMA SaysOnly ==
    ASSUME NEW d \in DoctorRecord, NEW said \in {"ok", "fail", "warn", "skip", "cleanup-failed"}
    PROVE  /\ Says(d, said) \in DoctorRecord
           /\ Says(d, said).said = said /\ Says(d, said).site = d.site
           /\ Says(d, said).temp = d.temp /\ Says(d, said).running = d.running
<1>1. (d.ok /\ said \notin {"fail", "cleanup-failed"}) \in BOOLEAN
  OBVIOUS
<1> QED
  BY <1>1 DEF Says, DoctorRecord

LEMMA CheckedOnly ==
    ASSUME DoctorInv, NEW p \in Procs, NEW passed
    PROVE  /\ Checked(p, passed) \in DoctorRecord
           /\ Clean(doctor[p]) => Clean(Checked(p, passed))
<1>1. doctor[p] \in DoctorRecord
  BY DEF DoctorInv
<1>2. (doctor[p].ok /\ passed) \in BOOLEAN
  OBVIOUS
<1> QED
  BY <1>1, <1>2 DEF Checked, Clean, DoctorRecord

\* The deep check ends with its directory removed.
LEMMA LeaveIsGood ==
    ASSUME DoctorInv, NEW p \in Procs, NEW d \in DoctorRecord, NEW code \in {"ok", "interrupted"},
           Leave(p, d, code), crowd' = crowd,
           d.said = "ok" => d.site = "none",
           d.site = "live" => d.said = "cleanup-failed",
           d.running => d.said = "cleanup-failed" \/ d.site = "none"
    PROVE  DoctorInv'
<1> DEFINE e == [d EXCEPT !.temp = FALSE]
<1>1. e \in DoctorRecord /\ Told(e)
  BY DEF DoctorRecord, Told
<1>2. code \in Codes /\ code \notin Stages
  BY DEF Codes, Stages
<1>3. Good(code, e)
  BY <1>1, <1>2 DEF Good
<1>4. at' = [at EXCEPT ![p] = code] /\ doctor' = [doctor EXCEPT ![p] = e]
  BY DEF Leave, Ends
<1> QED
  BY <1>1, <1>3, <1>4, OneMoves

\* Before the deep check nothing has been made, and its checks make nothing.
LEMMA ChecksKeep ==
    ASSUME DoctorInv, NEW p \in Procs, crowd' = crowd,
           LocalChecks(p) \/ RemoteChecks(p) \/ HttpProbe(p) \/ DoctorScreen(p)
    PROVE  DoctorInv'
<1>1. at[p] \notin Codes \cup Deep
  BY DEF LocalChecks, RemoteChecks, HttpProbe, DoctorScreen, Codes, Unasked, Deep, Stages
<1>2. doctor[p] \in DoctorRecord /\ Clean(doctor[p])
  BY <1>1 DEF DoctorInv, Good
<1>3. ASSUME NEW where, NEW d \in DoctorRecord, Clean(d),
             at' = [at EXCEPT ![p] = where], doctor' = [doctor EXCEPT ![p] = d]
      PROVE  DoctorInv'
  <2>1. Good(where, d)
    BY <1>3, CleanIsGood
  <2> QED
    BY <1>3, <2>1, OneMoves
<1>4. CASE LocalChecks(p)
  <2>1. PICK passed, curl \in BOOLEAN :
          doctor' = [doctor EXCEPT ![p] = [Checked(p, passed /\ plan[p].ok) EXCEPT !.curl = curl]]
    BY <1>4 DEF LocalChecks
  <2> DEFINE c == Checked(p, passed /\ plan[p].ok)
             d == [c EXCEPT !.curl = curl]
  <2>2. c \in DoctorRecord /\ Clean(c)
    BY <1>2, CheckedOnly
  <2>3. d \in DoctorRecord /\ Clean(d)
    <3> HIDE DEF c
    <3> QED
      BY <2>2 DEF DoctorRecord, Clean
  <2>4. doctor' = [doctor EXCEPT ![p] = d]
    BY <2>1
  <2>5. \E where : at' = [at EXCEPT ![p] = where]
    BY <1>4 DEF LocalChecks, Ends
  <2> HIDE DEF d
  <2> QED
    BY <1>3, <2>3, <2>4, <2>5
<1>5. CASE RemoteChecks(p)
  <2>1. CASE UNCHANGED doctor /\ Ends(p, "probe")
    BY <1>1, <2>1, OtherMoves DEF Ends
  <2>2. CASE \E passed \in BOOLEAN : /\ \E where : Ends(p, where)
                                     /\ doctor' = [doctor EXCEPT ![p] = Checked(p, passed)]
    <3>1. PICK passed \in BOOLEAN : /\ \E where : Ends(p, where)
                                    /\ doctor' = [doctor EXCEPT ![p] = Checked(p, passed)]
      BY <2>2
    <3>2. Checked(p, passed) \in DoctorRecord /\ Clean(Checked(p, passed))
      BY <1>2, CheckedOnly
    <3> QED
      BY <1>3, <3>1, <3>2 DEF Ends
  <2> QED
    BY <1>5, <2>1, <2>2 DEF RemoteChecks
<1>6. CASE HttpProbe(p)
  <2>1. PICK passed \in BOOLEAN : doctor' = [doctor EXCEPT ![p] = Checked(p, passed)]
    BY <1>6 DEF HttpProbe
  <2>2. Checked(p, passed) \in DoctorRecord /\ Clean(Checked(p, passed))
    BY <1>2, CheckedOnly
  <2>3. \E where : at' = [at EXCEPT ![p] = where]
    BY <1>6 DEF HttpProbe, Ends
  <2> QED
    BY <1>3, <2>1, <2>2, <2>3
<1>7. CASE DoctorScreen(p)
  <2>1. CASE Ends(p, "closed") /\ UNCHANGED doctor
    BY <1>1, <2>1, OtherMoves DEF Ends
  <2>2. ASSUME NEW scope \in {"local", "remote", "deep"}, Ends(p, "checks"),
               doctor' = [doctor EXCEPT ![p] = [NoDoctor EXCEPT !.tui = TRUE,
                              !.remote = scope # "local", !.deep = scope = "deep"]]
        PROVE  DoctorInv'
    <3> DEFINE d == [NoDoctor EXCEPT !.tui = TRUE, !.remote = scope # "local",
                                     !.deep = scope = "deep"]
    <3>1. d \in DoctorRecord /\ Clean(d)
      BY DEF NoDoctor, DoctorRecord, Clean
    <3>2. at' = [at EXCEPT ![p] = "checks"]
      BY <2>2 DEF Ends
    <3> HIDE DEF d
    <3>3. doctor' = [doctor EXCEPT ![p] = d]
      BY <2>2 DEF d
    <3> QED
      BY <1>3, <3>1, <3>2, <3>3
  <2> QED
    BY <1>7, <2>1, <2>2 DEF DoctorScreen
<1> QED
  BY <1>4, <1>5, <1>6, <1>7

\* Ctrl-C only sets the flag; an activate that nobody waits for may still finish.
LEMMA AroundKeeps ==
    ASSUME DoctorInv, NEW p \in Procs, crowd' = crowd, Cancel(p) \/ HostActivates(p)
    PROVE  DoctorInv'
<1>1. doctor[p] \in DoctorRecord /\ Good(at[p], doctor[p]) /\ at' = at
  BY DEF DoctorInv, Cancel, HostActivates
<1>2. CASE Cancel(p)
  <2> DEFINE d == [doctor[p] EXCEPT !.cancel = TRUE]
  <2>1. d \in DoctorRecord
    BY <1>1 DEF DoctorRecord
  <2>2. Good(at[p], d)
    BY <1>1 DEF Good, Told, Unpublished, Clean, DoctorRecord
  <2>3. doctor' = [doctor EXCEPT ![p] = d]
    BY <1>2 DEF Cancel, DoctorInv
  <2> HIDE DEF d
  <2> QED
    BY <1>1, <2>1, <2>2, <2>3, DoctorChanges
<1>3. CASE HostActivates(p)
  <2>1. PICK site \in {doctor[p].site} \cup (IF doctor[p].site = "staged" THEN {"live"} ELSE {}) :
          doctor' = [doctor EXCEPT ![p].running = FALSE, ![p].site = site]
    BY <1>3 DEF HostActivates
  <2> DEFINE d == [doctor[p] EXCEPT !.running = FALSE, !.site = site]
  <2>2. d \in DoctorRecord
    BY <1>1 DEF DoctorRecord
  <2>3. doctor[p].running
    BY <1>3 DEF HostActivates
  <2>4. at[p] \notin Stages /\ at[p] \in Codes \cup Deep
    BY <1>1, <2>3 DEF Good, Unpublished, Clean
  <2>5. Told(doctor[p]) => Told(d)
    BY <1>1, <2>3 DEF Told, DoctorRecord
  <2>6. Good(at[p], d)
    BY <1>1, <2>4, <2>5 DEF Good
  <2>7. doctor' = [doctor EXCEPT ![p] = d]
    BY <2>1 DEF DoctorInv
  <2> HIDE DEF d
  <2> QED
    BY <1>1, <2>2, <2>6, <2>7, DoctorChanges
<1> QED
  BY <1>2, <1>3

\* The deep check up to the transfer has at most a staging directory on the host.
LEMMA StagingKeeps ==
    ASSUME DoctorInv, NEW p \in Procs, crowd' = crowd,
           DeepLocal(p) \/ DeepPrepare(p) \/ DeepTransfer(p)
    PROVE  DoctorInv'
<1>1. doctor[p] \in DoctorRecord /\ Good(at[p], doctor[p])
  BY DEF DoctorInv
<1>2. at[p] = "deep" => Clean(doctor[p])
  BY <1>1 DEF Good, Codes, Unasked, Deep, Stages
<1>3. CASE DeepLocal(p)
  <2>1. Clean(doctor[p])
    BY <1>2, <1>3 DEF DeepLocal
  <2>2. PICK said \in {"ok", "fail", "warn", "skip"} : Leave(p, Says(doctor[p], said), "ok")
    BY <1>3 DEF DeepLocal
  <2> DEFINE e == Says(doctor[p], said)
  <2>3. said \in {"ok", "fail", "warn", "skip", "cleanup-failed"}
    OBVIOUS
  <2>4. e \in DoctorRecord /\ e.site = doctor[p].site /\ e.running = doctor[p].running
    BY <1>1, <2>3, SaysOnly
  <2>5. e.site = "none" /\ ~e.running
    BY <2>1, <2>4 DEF Clean
  <2>6. Leave(p, e, "ok")
    BY <2>2
  <2> HIDE DEF e
  <2> QED
    BY <2>4, <2>5, <2>6, LeaveIsGood
<1>4. CASE DeepPrepare(p)
  <2>1. Clean(doctor[p])
    BY <1>2, <1>4 DEF DeepPrepare
  <2>2. CASE /\ Ends(p, "doctor-transfer")
             /\ doctor' = [doctor EXCEPT ![p] = [@ EXCEPT !.temp = TRUE, !.site = "staged"]]
    <3> DEFINE d == [doctor[p] EXCEPT !.temp = TRUE, !.site = "staged"]
    <3>1. d \in DoctorRecord /\ Unpublished(d)
      BY <1>1, <2>1 DEF DoctorRecord, Unpublished, Clean
    <3>2. Good("doctor-transfer", d)
      BY <3>1 DEF Good, Codes, Unasked, Deep, Stages
    <3>3. at' = [at EXCEPT ![p] = "doctor-transfer"] /\ doctor' = [doctor EXCEPT ![p] = d]
      BY <2>2 DEF Ends, DoctorInv
    <3> HIDE DEF d
    <3> QED
      BY <3>1, <3>2, <3>3, OneMoves
  <2>3. ASSUME NEW left \in {"none", "staged"},
               Leave(p, [Says(doctor[p], "fail") EXCEPT !.site = left],
                     IF Cancelled(p) THEN "interrupted" ELSE "ok")
        PROVE  DoctorInv'
    <3> DEFINE s == Says(doctor[p], "fail")
               d == [s EXCEPT !.site = left]
    <3>1. s \in DoctorRecord /\ ~s.running /\ s.said = "fail"
      BY <1>1, <2>1, SaysOnly DEF Clean
    <3> HIDE DEF s
    <3>2. d \in DoctorRecord /\ ~d.running /\ d.said = "fail" /\ d.site = left
      BY <3>1 DEF DoctorRecord
    <3>3. Leave(p, d, IF Cancelled(p) THEN "interrupted" ELSE "ok")
      BY <2>3 DEF s
    <3> HIDE DEF d
    <3> QED
      BY <3>2, <3>3, LeaveIsGood
  <2> QED
    BY <1>4, <2>2, <2>3 DEF DeepPrepare
<1>5. CASE DeepTransfer(p)
  <2>1. at[p] = "doctor-transfer" /\ Unpublished(doctor[p])
    BY <1>1, <1>5 DEF DeepTransfer, Good, Stages
  <2>2. CASE Ends(p, "doctor-activate") /\ UNCHANGED doctor
    <3>1. Good("doctor-activate", doctor[p])
      BY <2>1 DEF Good, Codes, Unasked, Deep, Stages
    <3>2. doctor' = [doctor EXCEPT ![p] = doctor[p]]
      BY <2>2 DEF DoctorInv
    <3> QED
      BY <1>1, <2>2, <3>1, <3>2, OneMoves DEF Ends
  <2>3. CASE Leave(p, Says(doctor[p], "fail"), IF Cancelled(p) THEN "interrupted" ELSE "ok")
    <3>1. /\ Says(doctor[p], "fail") \in DoctorRecord /\ Says(doctor[p], "fail").said = "fail"
          /\ Says(doctor[p], "fail").site # "live" /\ ~Says(doctor[p], "fail").running
      BY <1>1, <2>1, SaysOnly DEF Unpublished
    <3> QED
      BY <2>3, <3>1, LeaveIsGood
  <2> QED
    BY <1>5, <2>2, <2>3 DEF DeepTransfer
<1> QED
  BY <1>3, <1>4, <1>5

\* While the site is live the process is on its way to delete it.
LEMMA LiveKeeps ==
    ASSUME DoctorInv, NEW p \in Procs, crowd' = crowd, DeepActivate(p) \/ DeepProbe(p)
    PROVE  DoctorInv'
<1>1. doctor[p] \in DoctorRecord
  BY DEF DoctorInv
<1>2. ASSUME NEW where \in {"doctor-probe", "doctor-delete"}, NEW d \in DoctorRecord,
             Ends(p, where), doctor' = [doctor EXCEPT ![p] = d]
      PROVE  DoctorInv'
  <2>1. Good(where, d)
    BY DEF Good, Codes, Unasked, Deep, Stages
  <2> QED
    BY <1>2, <2>1, OneMoves DEF Ends
<1>3. CASE DeepActivate(p)
  <2>1. ASSUME NEW site \in {"staged", "live"}, NEW running \in BOOLEAN, Ends(p, "doctor-probe"),
               doctor' = [doctor EXCEPT ![p].site = site, ![p].running = running]
        PROVE  DoctorInv'
    <3>1. [doctor[p] EXCEPT !.site = site, !.running = running] \in DoctorRecord
      BY <1>1 DEF DoctorRecord
    <3>2. doctor' = [doctor EXCEPT ![p] = [doctor[p] EXCEPT !.site = site, !.running = running]]
      BY <2>1 DEF DoctorInv
    <3> QED
      BY <1>2, <2>1, <3>1, <3>2
  <2>2. ASSUME NEW running \in BOOLEAN, Ends(p, "doctor-delete"),
               doctor' = [doctor EXCEPT ![p].interrupted = TRUE, ![p].running = running]
        PROVE  DoctorInv'
    <3>1. [doctor[p] EXCEPT !.interrupted = TRUE, !.running = running] \in DoctorRecord
      BY <1>1 DEF DoctorRecord
    <3>2. doctor' = [doctor EXCEPT ![p] = [doctor[p] EXCEPT !.interrupted = TRUE, !.running = running]]
      BY <2>2 DEF DoctorInv
    <3> QED
      BY <1>2, <2>2, <3>1, <3>2
  <2> QED
    BY <1>3, <2>1, <2>2 DEF DeepActivate
<1>4. CASE DeepProbe(p)
  <2>1. PICK answers \in BOOLEAN : doctor' = [doctor EXCEPT ![p].probed = answers]
    BY <1>4 DEF DeepProbe
  <2>2. [doctor[p] EXCEPT !.probed = answers] \in DoctorRecord
    BY <1>1 DEF DoctorRecord
  <2>3. doctor' = [doctor EXCEPT ![p] = [doctor[p] EXCEPT !.probed = answers]]
    BY <2>1 DEF DoctorInv
  <2> QED
    BY <1>2, <1>4, <2>2, <2>3 DEF DeepProbe
<1> QED
  BY <1>3, <1>4

\* The delete: it is called done only when the site is gone.
LEMMA DeleteTells ==
    ASSUME DoctorInv, NEW p \in Procs, crowd' = crowd, DeepDelete(p)
    PROVE  DoctorInv'
<1>1. PICK answered, succeeded \in BOOLEAN :
        LET gone == Deleted(answered, succeeded)
            d == [doctor[p] EXCEPT !.site = IF succeeded THEN "none" ELSE @, !.deleted = gone]
        IN  Leave(p, Says(d, CASE ~gone -> "cleanup-failed"
                               [] gone /\ d.probed /\ ~d.interrupted /\ ~Cancelled(p) -> "ok"
                               [] OTHER -> "fail"),
                  IF d.interrupted \/ Cancelled(p) THEN "interrupted" ELSE "ok")
  BY DEF DeepDelete
<1> DEFINE gone == Deleted(answered, succeeded)
           d == [doctor[p] EXCEPT !.site = IF succeeded THEN "none" ELSE @, !.deleted = gone]
           said == CASE ~gone -> "cleanup-failed"
                     [] gone /\ d.probed /\ ~d.interrupted /\ ~Cancelled(p) -> "ok"
                     [] OTHER -> "fail"
           code == IF d.interrupted \/ Cancelled(p) THEN "interrupted" ELSE "ok"
<1>2. d \in DoctorRecord
  <2>1. doctor[p] \in DoctorRecord
    BY DEF DoctorInv
  <2>2. gone \in BOOLEAN
    BY DEF Deleted
  <2> HIDE DEF gone
  <2> QED
    BY <2>1, <2>2 DEF DoctorRecord
<1>3. gone => d.site = "none"
  BY DEF DoctorInv, DoctorRecord, Deleted
<1>4. Leave(p, Says(d, said), code)
  BY <1>1
<1> HIDE DEF gone, d
<1>5. said \in {"ok", "fail", "cleanup-failed"} /\ (said # "cleanup-failed" => gone)
  OBVIOUS
<1>6. code \in {"ok", "interrupted"}
  OBVIOUS
<1> HIDE DEF said, code
<1>8. said \in {"ok", "fail", "warn", "skip", "cleanup-failed"}
  BY <1>5
<1>7. Says(d, said) \in DoctorRecord /\ Says(d, said).said = said /\ Says(d, said).site = d.site
  BY <1>2, <1>8, SaysOnly
<1> QED
  BY <1>3, <1>4, <1>5, <1>6, <1>7, LeaveIsGood

(***************************************************************************)
(* The deep check: the theorem.                                            *)
(***************************************************************************)
LEMMA DoctorInvInit == Init => DoctorInv
<1> SUFFICES ASSUME Init PROVE DoctorInv
  OBVIOUS
<1>1. NoDoctor \in DoctorRecord /\ Clean(NoDoctor)
  BY DEF NoDoctor, DoctorRecord, Clean
<1>2. DOMAIN crowd \subseteq Procs
  BY CrowdAssumption DEF Init
<1>3. at = [p \in Procs |-> at[p]] /\ doctor \in [Procs -> DoctorRecord]
  BY <1>1 DEF Init
<1>4. ASSUME NEW p \in Procs PROVE Good(at[p], doctor[p])
  <2>1. doctor[p] = NoDoctor
    BY DEF Init
  <2> QED
    BY <1>1, <2>1, CleanIsGood
<1> QED
  BY <1>2, <1>3, <1>4 DEF DoctorInv

LEMMA DoctorInvNext == DoctorInv /\ [Next]_vars => DoctorInv'
<1> SUFFICES ASSUME DoctorInv, [Next]_vars PROVE DoctorInv'
  OBVIOUS
<1>1. ASSUME at' = at, doctor' = doctor, crowd' = crowd PROVE DoctorInv'
  BY <1>1 DEF DoctorInv
<1>2. CASE UNCHANGED vars
  BY <1>1, <1>2 DEF vars, adminVars
<1>3. CASE Reconfigure
  BY <1>1, <1>3 DEF Reconfigure
<1>4. CASE Edit /\ UNCHANGED <<doctor, crowd>>
  BY <1>1, <1>4 DEF Edit, adminVars
<1>5. ASSUME NEW p \in Procs, Start(p) PROVE DoctorInv'
  BY <1>5, StartMoves
<1>6. ASSUME NEW p \in Procs, AdminStep(p), UNCHANGED <<deployVars, doctor, crowd>> PROVE DoctorInv'
  BY <1>6, AdminMoves, OtherMoves
<1>7. ASSUME NEW p \in Procs, DeployStep(p), UNCHANGED <<doctor, crowd>> PROVE DoctorInv'
  BY <1>7, DeployMoves, OtherMoves
<1>8. ASSUME NEW p \in Procs, DoctorStep(p), UNCHANGED crowd PROVE DoctorInv'
  BY <1>8, ChecksKeep, AroundKeeps, StagingKeeps, LiveKeeps, DeleteTells DEF DoctorStep
<1> QED
  BY <1>2, <1>3, <1>4, <1>5, <1>6, <1>7, <1>8 DEF Next

\* A deep check that has ended has removed its directory; it is called ok only when its
\* site is gone from the host, and a site that stays is reported, whatever failed, when
\* the user gave up, and however late an abandoned activate finishes.
THEOREM DeepCheckCleansUp == Spec => []DoctorCleansUp
<1>1. DoctorInv => DoctorCleansUp
  BY DEF DoctorInv, DoctorCleansUp, Good, Told
<1> QED
  BY <1>1, DoctorInvInit, DoctorInvNext, PTL DEF Spec

(***************************************************************************)
(* Plans.                                                                  *)
(***************************************************************************)
\* The first that is not None.
LEMMA FirstIs ==
    ASSUME NEW s, NEW n \in Nat, DOMAIN s = 1..n, NEW i \in 1..n, s[i] # None,
           \A j \in 1..(i - 1) : s[j] = None
    PROVE  First(s) = s[i]
<1> DEFINE Q(k) == s[k] # None /\ \A j \in 1..(k - 1) : s[j] = None
<1>1. Q(i)
  OBVIOUS
<1>2. ASSUME NEW k \in 1..n, Q(k) PROVE k = i
  BY <1>2
<1>3. i \in DOMAIN s /\ \A k \in DOMAIN s : Q(k) <=> k = i
  BY <1>1, <1>2
<1>4. First(s) = s[CHOOSE k \in DOMAIN s : Q(k)]
  BY DEF First
<1>5. (CHOOSE k \in DOMAIN s : Q(k)) = i
  <2> HIDE DEF Q
  <2> QED BY <1>3
<1> QED BY <1>4, <1>5

LEMMA FirstOf3 ==
    ASSUME NEW a, NEW b, NEW c
    PROVE  First(<<a, b, c>>) = IF a # None THEN a ELSE IF b # None THEN b ELSE c
<1> DEFINE s == <<a, b, c>>
<1>1. DOMAIN s = 1..3 /\ s[1] = a /\ s[2] = b /\ s[3] = c
  OBVIOUS
<1> HIDE DEF s
<1>2. CASE a # None
  <2>1. 1 \in 1..3 /\ s[1] # None /\ \A j \in 1..(1 - 1) : s[j] = None
    BY <1>1, <1>2
  <2>2. First(s) = s[1]
    BY <1>1, <2>1, FirstIs
  <2> QED BY <1>1, <1>2, <2>2 DEF s
<1>3. CASE a = None /\ b # None
  <2>1. 2 \in 1..3 /\ s[2] # None /\ \A j \in 1..(2 - 1) : s[j] = None
    BY <1>1, <1>3
  <2>2. First(s) = s[2]
    BY <1>1, <2>1, FirstIs
  <2> QED BY <1>1, <1>3, <2>2 DEF s
<1>4. CASE a = None /\ b = None /\ c # None
  <2>1. 3 \in 1..3 /\ s[3] # None /\ \A j \in 1..(3 - 1) : s[j] = None
    BY <1>1, <1>4
  <2>2. First(s) = s[3]
    BY <1>1, <2>1, FirstIs
  <2> QED BY <1>1, <1>4, <2>2 DEF s
<1>5. CASE a = None /\ b = None /\ c = None
  <2>1. ~ \E j \in DOMAIN s : s[j] # None
    BY <1>1, <1>5
  <2> QED BY <1>5, <2>1 DEF First, s
<1> QED BY <1>2, <1>3, <1>4, <1>5

LEMMA FirstOf4 ==
    ASSUME NEW a, NEW b, NEW c, NEW d
    PROVE  First(<<a, b, c, d>>) =
             IF a # None THEN a ELSE IF b # None THEN b ELSE IF c # None THEN c ELSE d
<1> DEFINE s == <<a, b, c, d>>
<1>1. DOMAIN s = 1..4 /\ s[1] = a /\ s[2] = b /\ s[3] = c /\ s[4] = d
  OBVIOUS
<1> HIDE DEF s
<1>2. CASE a # None
  <2>1. 1 \in 1..4 /\ s[1] # None /\ \A j \in 1..(1 - 1) : s[j] = None
    BY <1>1, <1>2
  <2>2. First(s) = s[1]
    BY <1>1, <2>1, FirstIs
  <2> QED BY <1>1, <1>2, <2>2 DEF s
<1>3. CASE a = None /\ b # None
  <2>1. 2 \in 1..4 /\ s[2] # None /\ \A j \in 1..(2 - 1) : s[j] = None
    BY <1>1, <1>3
  <2>2. First(s) = s[2]
    BY <1>1, <2>1, FirstIs
  <2> QED BY <1>1, <1>3, <2>2 DEF s
<1>4. CASE a = None /\ b = None /\ c # None
  <2>1. 3 \in 1..4 /\ s[3] # None /\ \A j \in 1..(3 - 1) : s[j] = None
    BY <1>1, <1>4
  <2>2. First(s) = s[3]
    BY <1>1, <2>1, FirstIs
  <2> QED BY <1>1, <1>4, <2>2 DEF s
<1>5. CASE a = None /\ b = None /\ c = None /\ d # None
  <2>1. 4 \in 1..4 /\ s[4] # None /\ \A j \in 1..(4 - 1) : s[j] = None
    BY <1>1, <1>5
  <2>2. First(s) = s[4]
    BY <1>1, <2>1, FirstIs
  <2> QED BY <1>1, <1>5, <2>2 DEF s
<1>6. CASE a = None /\ b = None /\ c = None /\ d = None
  <2>1. ~ \E j \in DOMAIN s : s[j] # None
    BY <1>1, <1>6
  <2> QED BY <1>6, <2>1 DEF First, s
<1> QED BY <1>2, <1>3, <1>4, <1>5, <1>6

\* a plan names a label, a host and a profile that can be
PlanGood(to) ==
    /\ to.ok \in BOOLEAN
    /\ to.ok => /\ to.ssh \in Hosts \cup {None} /\ to.profile \in Names
                /\ to.site \in Sites /\ Slug[to.site] = to.site

\* and the site and the profile that were asked for
Fits(to, site, profile) ==
    /\ site # None => to.site = Slug[site]
    /\ profile # None /\ ShellEnv.remote = None /\ to.ssh # None =>
          to.ssh = Find(Loaded(config), profile).ssh

LEMMA ResolveIsGood ==
    ASSUME config \in File, json \in SiteFile,
           NEW profile \in Names \cup {None}, NEW site \in Sites \cup {None},
           NEW to, to = Resolve([NoOverrides EXCEPT !.profile = profile, !.site = site],
                                ShellEnv, json, NoFile, None, Loaded(config))
    PROVE  PlanGood(to) /\ (to.ok => Fits(to, site, profile))
<1> DEFINE o == [NoOverrides EXCEPT !.profile = profile, !.site = site]
           here == SiteRoot(json, NoFile).config
           cfg == Loaded(config)
           name == PlanProfile(o, ShellEnv, here, cfg)
           found == Find(cfg, name)
           label == PlanSite(o, ShellEnv, here, None)
           ssh == PlanSsh(o, ShellEnv, found)
<1>1. o.profile = profile /\ o.site = site /\ o.remote = None
  BY DEF NoOverrides
<1>2. /\ ShellEnv.profile \in Names \cup {None} /\ ShellEnv.site \in Sites \cup {None}
      /\ ShellEnv.remote \in Hosts \cup {None}
  BY PathAssumption DEF Env
<1>3. here # Malformed => here.profile \in Names \cup {None} /\ here.name \in Sites \cup {None}
  <2>1. here = IF json = NoFile THEN BlankSite ELSE json
    BY DEF SiteRoot
  <2>2. BlankSite.profile = None /\ BlankSite.name = None
    BY DEF BlankSite
  <2>3. json \in SiteConfig => json.profile \in Names \cup {None} /\ json.name \in Sites \cup {None}
    BY DEF SiteConfig
  <2>4. json \in SiteConfig \/ json = NoFile \/ json = Malformed
    BY DEF SiteFile
  <2> QED BY <2>1, <2>2, <2>3, <2>4
<1>4. /\ cfg.default \in Names \cup {None}
      /\ \A n \in Names : cfg.profiles[n] = None \/ cfg.profiles[n].ssh \in Hosts \cup {None}
  <2>1. NoProfiles \in Config
    <3>1. [n \in Names |-> None] \in [Names -> Profile \cup {None}]
      OBVIOUS
    <3> QED BY <3>1 DEF NoProfiles, Config
  <2>2. cfg \in Config
    BY <2>1 DEF Loaded, File
  <2>3. cfg.default \in Names \cup {None} /\ cfg.profiles \in [Names -> Profile \cup {None}]
    BY <2>2 DEF Config
  <2>4. \A x \in Profile : x.ssh \in Hosts \cup {None}
    BY DEF Profile
  <2> HIDE DEF cfg
  <2> QED BY <2>3, <2>4
<1>5. CASE ~to.ok
  <2>1. to = NoPlan \/ to.ok = TRUE
    BY DEF Resolve
  <2>2. to.ok \in BOOLEAN
    <3>1. NoPlan.ok = FALSE
      BY DEF NoPlan
    <3> QED BY <2>1, <3>1
  <2> QED BY <1>5, <2>2 DEF PlanGood
<1>6. CASE to.ok
  <2>1. to # NoPlan
    BY <1>6 DEF NoPlan
  <2>2. /\ here # Malformed /\ label # None
        /\ to.ok = TRUE /\ to.profile = name /\ to.site = label /\ to.ssh = ssh
    BY <2>1 DEF Resolve
  <2> HIDE DEF here, cfg, o
  <2>3. name \in Names /\ (profile # None => name = profile)
    <3>1. First(<<o.profile, ShellEnv.profile, here.profile, cfg.default>>) \in Names \cup {None}
      BY <1>1, <1>2, <1>3, <1>4, <2>2, FirstOf4
    <3>2. profile # None =>
             First(<<o.profile, ShellEnv.profile, here.profile, cfg.default>>) = profile
      BY <1>1, FirstOf4
    <3> QED BY <3>1, <3>2, ConfigAssumption DEF PlanProfile
  <2>4. found = cfg.profiles[name] /\ name # None
    BY <2>3, ConfigAssumption DEF Find
  <2>5. /\ ssh \in Hosts \cup {None}
        /\ ShellEnv.remote = None => ssh = IF found = None THEN None ELSE found.ssh
    <3> HIDE DEF found, name
    <3>1. ssh = First(<<o.remote, ShellEnv.remote, IF found = None THEN None ELSE found.ssh>>)
      BY DEF PlanSsh
    <3>2. ssh = IF o.remote # None THEN o.remote ELSE IF ShellEnv.remote # None THEN ShellEnv.remote
                ELSE IF found = None THEN None ELSE found.ssh
      BY <3>1, FirstOf3
    <3> QED BY <1>1, <1>2, <1>4, <2>3, <2>4, <3>2
  <2>6. /\ label \in Sites /\ Slug[label] = label
        /\ site # None => label = Slug[site]
    <3> DEFINE x == First(<<o.site, ShellEnv.site, here.name>>)
    <3>1. x = IF o.site # None THEN o.site ELSE IF ShellEnv.site # None THEN ShellEnv.site ELSE here.name
      BY FirstOf3
    <3>2. x \in Sites \cup {None} /\ (site # None => x = site)
      BY <1>1, <1>2, <1>3, <2>2, <3>1
    <3>3. label = Slugged(IF x = None THEN None ELSE x)
      BY DEF PlanSite
    <3> HIDE DEF x
    <3>4. label = IF x = None THEN None ELSE Slug[x]
      BY <3>3 DEF Slugged
    <3> QED BY <2>2, <3>2, <3>4, ConfigAssumption
  <2>7. PlanGood(to)
    <3> HIDE DEF name, label, ssh
    <3> QED BY <2>2, <2>3, <2>5, <2>6 DEF PlanGood
  <2>8. Fits(to, site, profile)
    <3>1. profile # None => Find(Loaded(config), profile) = found
      BY <2>3, ConfigAssumption DEF cfg
    <3> HIDE DEF name, label, ssh, found
    <3> QED BY <2>2, <2>5, <2>6, <3>1 DEF Fits
  <2> QED BY <2>7, <2>8
<1> QED BY <1>5, <1>6

(***************************************************************************)
(* The hosts.                                                              *)
(***************************************************************************)
Kept(hs) == DOMAIN hs = Hosts /\ \A h \in Hosts : HostKeeps(h, hs[h])
HostsInv == Kept(hosts)

\* an archive that Delete made of a site with a label
WellNamed(h, a) ==
    /\ a.site \in Sites /\ Slug[a.site] = a.site /\ a.path \in Archives
    /\ \E n \in DOMAIN Stamps : IsArchive(h, a.site, n, a.path)

\* A request changes one site of its host, and its trash.
LEMMA HostChanges ==
    ASSUME HostsInv, NEW h \in Hosts, NEW s \in Sites, Slug[s] = s,
           NEW hs, DOMAIN hs = Hosts, \A g \in Hosts \ {h} : hs[g] = hosts[g],
           DOMAIN hs[h] = DOMAIN hosts[h], DOMAIN hs[h].site = Sites,
           \A t \in Sites \ {s} : hs[h].site[t] = hosts[h].site[t],
           \A a \in hs[h].trash : a \in hosts[h].trash \/ WellNamed(h, a)
    PROVE  Kept(hs)
<1>1. HostKeeps(h, hosts[h])
  BY DEF HostsInv, Kept
<1>2. HostKeeps(h, hs[h])
  BY <1>1 DEF HostKeeps, WellNamed
<1> QED BY <1>2 DEF HostsInv, Kept

LEMMA DeleteKeeps ==
    ASSUME HostsInv, NEW h \in Hosts, NEW s \in Sites, Slug[s] = s, NEW hs \in Delete(h, s)
    PROVE  Kept(hs)
<1> DEFINE n == hosts[h].deletes + 1
           a0 == [path |-> ArchiveAt(h, s, n), site |-> s, record |-> hosts[h].site[s]]
<1>0. CASE hs = hosts
  BY <1>0 DEF HostsInv
<1>1. CASE hs # hosts
  <2>1. /\ n \in DOMAIN Stamps /\ \E a \in Archives : IsArchive(h, s, n, a)
        /\ hs = [hosts EXCEPT ![h].site[s] = None, ![h].deletes = n,
                              ![h].domains = {d \in @ : d[2] # s},
                              ![h].trash = @ \cup {a0}]
    BY <1>1 DEF Delete, Where
  <2>2. DOMAIN hosts = Hosts /\ HostKeeps(h, hosts[h])
    BY DEF HostsInv, Kept
  <2>3. ArchiveAt(h, s, n) \in Archives /\ IsArchive(h, s, n, ArchiveAt(h, s, n))
    BY <2>1 DEF ArchiveAt
  <2>4. WellNamed(h, a0)
    BY <2>1, <2>3 DEF WellNamed
  <2> HIDE DEF a0, n
  <2>5. /\ DOMAIN hosts[h] = {"site", "trash", "domains", "deletes", "deploys"}
        /\ DOMAIN hosts[h].site = Sites
    BY <2>2 DEF HostKeeps
  <2>6. /\ DOMAIN hs = Hosts /\ \A g \in Hosts \ {h} : hs[g] = hosts[g]
        /\ DOMAIN hs[h] = DOMAIN hosts[h]
        /\ hs[h].site = [hosts[h].site EXCEPT ![s] = None]
        /\ hs[h].trash = hosts[h].trash \cup {a0}
    BY <2>1, <2>2, <2>5
  <2>7. DOMAIN hs[h].site = Sites /\ \A t \in Sites \ {s} : hs[h].site[t] = hosts[h].site[t]
    BY <2>5, <2>6
  <2>8. \A a \in hs[h].trash : a \in hosts[h].trash \/ WellNamed(h, a)
    BY <2>4, <2>6
  <2> QED BY <2>6, <2>7, <2>8, HostChanges
<1> QED BY <1>0, <1>1

LEMMA CarriedKeeps ==
    ASSUME HostsInv, NEW h \in Hosts, NEW s \in Sites, Slug[s] = s, NEW r,
           NEW hs \in Carried(h, s, r)
    PROVE  Kept(hs)
<1>0. DOMAIN hosts = Hosts /\ HostKeeps(h, hosts[h])
  BY DEF HostsInv, Kept
<1>1. /\ DOMAIN hosts[h] = {"site", "trash", "domains", "deletes", "deploys"}
      /\ DOMAIN hosts[h].site = Sites
  BY <1>0 DEF HostKeeps
<1>2. ASSUME DOMAIN hs = Hosts, \A g \in Hosts \ {h} : hs[g] = hosts[g],
             DOMAIN hs[h] = DOMAIN hosts[h], DOMAIN hs[h].site = Sites,
             \A t \in Sites \ {s} : hs[h].site[t] = hosts[h].site[t],
             hs[h].trash \subseteq hosts[h].trash
      PROVE  Kept(hs)
  BY <1>2, HostChanges
<1>3. CASE hs = hosts
  BY <1>3 DEF HostsInv
<1>4. CASE hs \in Delete(h, s)
  BY <1>4, DeleteKeeps
<1>5. CASE hs \in Restore(h, s, r.value)
  <2>1. PICK a \in hosts[h].trash :
          hs = [hosts EXCEPT ![h].site[s] = [a.record EXCEPT !.public = FALSE, !.by = "other"],
                             ![h].trash = @ \ {a}]
    BY <1>5 DEF Restore
  <2> DEFINE v == [a.record EXCEPT !.public = FALSE, !.by = "other"]
  <2>2. hs = [hosts EXCEPT ![h].site[s] = v, ![h].trash = @ \ {a}]
    BY <2>1
  <2> HIDE DEF v
  <2>3. /\ DOMAIN hs = Hosts /\ \A g \in Hosts \ {h} : hs[g] = hosts[g]
        /\ DOMAIN hs[h] = DOMAIN hosts[h]
        /\ hs[h].site = [hosts[h].site EXCEPT ![s] = v]
        /\ hs[h].trash = hosts[h].trash \ {a}
    BY <1>0, <1>1, <2>2
  <2> QED BY <1>1, <1>2, <2>3
<1>6. CASE hs \in Rollback(h, s, r.value)
  <2> DEFINE h1 == [hosts EXCEPT ![h].site[s].release = hosts[h].site[s].previous]
             h2 == [h1 EXCEPT ![h].site[s].previous = hosts[h].site[s].release]
             Same(g) == /\ DOMAIN g = Hosts /\ \A k \in Hosts \ {h} : g[k] = hosts[k]
                        /\ DOMAIN g[h] = DOMAIN hosts[h] /\ g[h].trash = hosts[h].trash
                        /\ DOMAIN g[h].site = Sites
                        /\ \A t \in Sites \ {s} : g[h].site[t] = hosts[h].site[t]
  <2>1. hs = [h2 EXCEPT ![h].site[s].by = "other"]
    BY <1>6 DEF Rollback, Where
  <2>2. Same(h1)
    BY <1>0, <1>1
  <2> HIDE DEF h1
  <2>3. Same(h2)
    BY <1>0, <1>1, <2>2
  <2> HIDE DEF h2
  <2>4. Same(hs)
    BY <1>0, <1>1, <2>1, <2>3
  <2> QED BY <1>2, <2>4
<1>7. ASSUME NEW on, hs \in Public(h, s, on) PROVE Kept(hs)
  <2>1. hs = [hosts EXCEPT ![h].site[s].public = on]
    BY <1>7 DEF Public, Where
  <2>2. /\ DOMAIN hs = Hosts /\ \A g \in Hosts \ {h} : hs[g] = hosts[g]
        /\ DOMAIN hs[h] = DOMAIN hosts[h]
        /\ hs[h].site = [hosts[h].site EXCEPT ![s].public = on]
        /\ hs[h].trash = hosts[h].trash
    BY <1>0, <1>1, <2>1
  <2> QED BY <1>1, <1>2, <2>2
<1>8. CASE \E dm : hs = [hosts EXCEPT ![h].domains = dm]
  <2>1. PICK dm : hs = [hosts EXCEPT ![h].domains = dm]
    BY <1>8
  <2>2. /\ DOMAIN hs = Hosts /\ \A g \in Hosts \ {h} : hs[g] = hosts[g]
        /\ DOMAIN hs[h] = DOMAIN hosts[h]
        /\ hs[h].site = hosts[h].site /\ hs[h].trash = hosts[h].trash
    BY <1>0, <1>1, <2>1
  <2> QED BY <1>1, <1>2, <2>2
<1>9. CASE hs \in DomainAdd(h, s, r.value)
  <2>1. hs = [hosts EXCEPT ![h].domains = @ \cup {<<r.value, s>>}]
    BY <1>9 DEF DomainAdd, Where
  <2>2. hs = [hosts EXCEPT ![h].domains = hosts[h].domains \cup {<<r.value, s>>}]
    BY <1>0, <1>1, <2>1
  <2> QED BY <1>8, <2>2
<1>10. CASE hs \in DomainRemove(h, r.value)
  <2> DEFINE dm == {d \in hosts[h].domains : d[1] # r.value}
  <2>1. hs = [hosts EXCEPT ![h].domains = {d \in @ : d[1] # r.value}]
    BY <1>10 DEF DomainRemove, Where
  <2>2. hs = [hosts EXCEPT ![h].domains = dm]
    BY <1>0, <1>1, <2>1
  <2> HIDE DEF dm
  <2> QED BY <1>8, <2>2
<1> QED BY <1>3, <1>4, <1>5, <1>6, <1>7, <1>9, <1>10 DEF Carried

LEMMA DeployedKeeps ==
    ASSUME HostsInv, NEW h \in Hosts, NEW s \in Sites, Slug[s] = s
    PROVE  Kept(Deployed(h, s))
<1>0. DOMAIN hosts = Hosts /\ HostKeeps(h, hosts[h])
  BY DEF HostsInv, Kept
<1>1. /\ DOMAIN hosts[h] = {"site", "trash", "domains", "deletes", "deploys"}
      /\ DOMAIN hosts[h].site = Sites
  BY <1>0 DEF HostKeeps
<1> DEFINE n == hosts[h].deploys + 1
           site == hosts[h].site[s]
           v == IF site = None THEN Record(FALSE, Releases[n], None, "me")
                ELSE Record(site.public, Releases[n], site.release, "me")
           hs == [hosts EXCEPT ![h].deploys = n, ![h].site[s] = v]
<1>2. Deployed(h, s) = hs
  BY DEF Deployed
<1> HIDE DEF v
<1>3. /\ DOMAIN hs = Hosts /\ \A g \in Hosts \ {h} : hs[g] = hosts[g]
      /\ DOMAIN hs[h] = DOMAIN hosts[h]
      /\ hs[h].site = [hosts[h].site EXCEPT ![s] = v]
      /\ hs[h].trash = hosts[h].trash
  BY <1>0, <1>1
<1> HIDE DEF hs
<1>4. DOMAIN hs[h].site = Sites /\ \A t \in Sites \ {s} : hs[h].site[t] = hosts[h].site[t]
  BY <1>1, <1>3
<1>5. \A a \in hs[h].trash : a \in hosts[h].trash \/ WellNamed(h, a)
  BY <1>3
<1>6. Kept(hs)
  BY <1>3, <1>4, <1>5, HostChanges
<1> QED BY <1>2, <1>6

(***************************************************************************)
(* The processes: the inductive invariant of DoneAsAsked.                  *)
(***************************************************************************)
AdminWay == {"fetch", "ask", "send"}
DeployWay == {"build", "prepare", "overwrite", "transfer", "activate", "record"}
DoctorWay == {"checks", "remote", "probe", "deep"} \cup Deep

\* where a command can be that is on its way
Ways(command) ==
    CASE command \in AdminCommands -> AdminWay
      [] command = "deploy" -> DeployWay
      [] command = "doctor" -> DoctorWay
      [] command = "menu" -> AdminWay \cup DoctorWay \cup {"sites", "doctor"}
      [] OTHER -> {}

ShapeInv ==
    /\ DOMAIN crowd \subseteq Procs
    /\ \A p \in DOMAIN crowd : Given(p) \in Seq(Sites \cap Names)
    /\ config \in File /\ json \in SiteFile
    /\ DOMAIN at = Procs /\ DOMAIN req = Procs /\ DOMAIN plan = Procs
    /\ DOMAIN typed = Procs /\ DOMAIN done = Procs /\ DOMAIN session = Procs
    /\ \A p \in Procs : DOMAIN session[p] = {"sent", "edited", "last"}

\* a process that talks to a host has a plan with that host
PlanHas(p) ==
    /\ PlanGood(plan[p])
    /\ at[p] \in AdminWay \cup DeployWay => plan[p].ok
    /\ at[p] \in AdminWay \cup (DeployWay \ {"build"}) => plan[p].ssh # None

Request(p) == HandlerRequest(Command(p), Args(p))
OwnSite(r) == IF r.op \in {"domain-remove", "domain-list"} THEN None ELSE r.site

\* the request of a command on its way is the one its handler made, confirmed or not
AdminGoes(p) ==
    /\ HandlerRefuses(Command(p), Args(p)) = "none"
    /\ req[p] \in {Request(p), [Request(p) EXCEPT !.confirmed = TRUE]}
    /\ req[p].confirmed => typed[p] = req[p].site
    /\ Fits(plan[p], OwnSite(req[p]), req[p].profile)
    /\ at[p] = "send" => ~Asks(req[p]) /\ req[p].op # "status"

DeployGoes(p) ==
    /\ ~Flag(Args(p), "--dry-run")
    /\ DOMAIN req[p] = DOMAIN NoRequest
    /\ req[p].yes = Flag(Args(p), "--yes")
    /\ req[p].confirmed => typed[p] = plan[p].site
    /\ Fits(plan[p], Value(Args(p), "--site"), Value(Args(p), "--profile"))
    /\ at[p] \in {"transfer", "activate"} =>
          session[p].last # "other" \/ req[p].yes \/ req[p].confirmed

MenuGoes(p) ==
    /\ DOMAIN req[p] = DOMAIN NoRequest
    /\ req[p].site \in Sites /\ Slug[req[p].site] = req[p].site /\ req[p].tui
    /\ req[p].op \in {"delete", "status", "on", "off"} /\ ~req[p].yes
    /\ req[p].profile = None
    /\ req[p].confirmed => typed[p] = req[p].site
    /\ plan[p].site = req[p].site
    /\ at[p] = "send" => req[p].op # "status" /\ (req[p].op = "off" \/ req[p].confirmed)

Goes(p) ==
    CASE Command(p) \in AdminCommands -> at[p] \in AdminWay => AdminGoes(p)
      [] Command(p) = "deploy" -> at[p] \in DeployWay => DeployGoes(p)
      [] Command(p) = "menu" -> at[p] \in AdminWay => MenuGoes(p)
      [] OTHER -> TRUE

\* what was carried out is what the handler asked for
AdminDid(p, e) ==
    LET r == Request(p)
    IN  /\ e.op = r.op /\ e.value = r.value /\ ~Reads(e.op)
        /\ HandlerRefuses(Command(p), Args(p)) = "none"
        /\ OwnSite(r) # None => e.site = Slug[r.site]
        /\ r.profile # None /\ ShellEnv.remote = None => e.host = Find(Loaded(config), r.profile).ssh
        /\ e.op \in {"delete", "restore", "rollback", "on"} => r.yes \/ typed[p] = r.site

DeployDid(p, e) ==
    LET site == Value(Args(p), "--site")
        profile == Value(Args(p), "--profile")
    IN  /\ e.op = "deploy" /\ ~Flag(Args(p), "--dry-run")
        /\ site # None => e.site = Slug[site]
        /\ profile # None /\ ShellEnv.remote = None => e.host = Find(Loaded(config), profile).ssh
        /\ e.value # "other" \/ Flag(Args(p), "--yes") \/ typed[p] = e.site

Did(p, e) ==
    CASE Command(p) \in AdminCommands -> AdminDid(p, e)
      [] Command(p) = "deploy" -> DeployDid(p, e)
      [] Command(p) = "menu" -> e.op = "off" \/ typed[p] = e.site
      [] OTHER -> FALSE

\* what is over, and no host was asked to do anything
NothingToDo(p) ==
    CASE Command(p) \in AdminCommands ->
           HandlerRefuses(Command(p), Args(p)) = "none" /\ Reads(Request(p).op)
      [] Command(p) = "deploy" -> Flag(Args(p), "--dry-run")
      [] OTHER -> TRUE

\* one thing at most is done, at the end
Results(p) ==
    \/ done[p] = <<>> /\ at[p] # "record"
    \/ /\ at[p] \in {"ok", "io", "record"} /\ Dispatch(p) = "ok"
       /\ \E e : done[p] = <<e>> /\ Did(p, e)

Started(p) ==
    /\ p \in DOMAIN crowd
    /\ at[p] \in Codes \/ (Dispatch(p) = "ok" /\ at[p] \in Ways(Command(p)))
    /\ Goes(p) /\ Results(p)
    /\ at[p] = "ok" /\ done[p] = <<>> => Dispatch(p) = "ok" /\ NothingToDo(p)

ProcInv(p) == (at[p] = "shell" /\ done[p] = <<>>) \/ Started(p)

Inv == ShapeInv /\ HostsInv /\ \A p \in Procs : PlanHas(p) /\ ProcInv(p)

\* what a process's own invariants look at
Same(q) ==
    /\ at'[q] = at[q] /\ req'[q] = req[q] /\ plan'[q] = plan[q] /\ typed'[q] = typed[q]
    /\ done'[q] = done[q] /\ session'[q].last = session[q].last

LEMMA SameKeeps ==
    ASSUME NEW q, PlanHas(q), ProcInv(q), Same(q), crowd' = crowd, config' = config
    PROVE  PlanHas(q)' /\ ProcInv(q)'
<1>1. PlanHas(q)'
  BY DEF PlanHas, PlanGood, Same
<1>2. /\ Command(q)' = Command(q) /\ Args(q)' = Args(q) /\ Dispatch(q)' = Dispatch(q)
      /\ Request(q)' = Request(q)
  BY DEF Command, Args, Given, Dispatch, Request
<1>3. Goes(q)' <=> Goes(q)
  <2>1. AdminGoes(q)' <=> AdminGoes(q)
    BY <1>2 DEF AdminGoes, Same, Fits
  <2>2. DeployGoes(q)' <=> DeployGoes(q)
    BY <1>2 DEF DeployGoes, Same, Fits
  <2>3. MenuGoes(q)' <=> MenuGoes(q)
    BY DEF MenuGoes, Same
  <2> QED BY <1>2, <2>1, <2>2, <2>3 DEF Goes, Same
<1>4. ASSUME NEW e PROVE Did(q, e)' <=> Did(q, e)
  <2>1. AdminDid(q, e)' <=> AdminDid(q, e)
    BY <1>2 DEF AdminDid, Same
  <2>2. DeployDid(q, e)' <=> DeployDid(q, e)
    BY <1>2 DEF DeployDid, Same
  <2> QED BY <1>2, <2>1, <2>2 DEF Did, Same
<1>5. Results(q)' <=> Results(q)
  BY <1>2, <1>4 DEF Results, Same
<1>6. NothingToDo(q)' <=> NothingToDo(q)
  BY <1>2 DEF NothingToDo
<1>7. ProcInv(q)'
  BY <1>2, <1>3, <1>5, <1>6 DEF ProcInv, Started, Same
<1> QED BY <1>1, <1>7

\* A step of one process leaves the others what they are.
Alone(p) ==
    /\ DOMAIN at' = Procs /\ DOMAIN req' = Procs /\ DOMAIN plan' = Procs
    /\ DOMAIN typed' = Procs /\ DOMAIN done' = Procs /\ DOMAIN session' = Procs
    /\ \A q \in Procs : DOMAIN session'[q] = {"sent", "edited", "last"}
    /\ \A q \in Procs \ {p} : Same(q)
    /\ crowd' = crowd /\ config' = config /\ json' = json

LEMMA OneSteps ==
    ASSUME Inv, NEW p \in Procs, Alone(p), HostsInv', PlanHas(p)', ProcInv(p)'
    PROVE  Inv'
<1>1. ShapeInv'
  BY DEF Inv, ShapeInv, Alone, Given
<1>2. ASSUME NEW q \in Procs PROVE PlanHas(q)' /\ ProcInv(q)'
  <2>1. CASE q = p
    BY <2>1
  <2>2. CASE q # p
    BY <2>2, SameKeeps DEF Inv, Alone
  <2> QED BY <2>1, <2>2
<1> QED BY <1>1, <1>2 DEF Inv

(***************************************************************************)
(* A call of an operation, from a handler or from the sites screen, and    *)
(* the steps after it.                                                     *)
(***************************************************************************)
\* The request that the handler of a command makes.
LEMMA RequestIs ==
    ASSUME NEW command \in AdminCommands, NEW args
    PROVE  LET r == HandlerRequest(command, args)
               word1 == Word(ValueOptions(command), args, 1)
               word2 == Word(ValueOptions(command), args, 2)
           IN  /\ DOMAIN r = DOMAIN NoRequest /\ ~r.confirmed /\ ~r.tui
               /\ r.profile = Value(args, "--profile") /\ (r.yes <=> Flag(args, "--yes"))
               /\ r.site = IF command = "domain" THEN Value(args, "--site") ELSE word1
               /\ command = "delete" => r.value = None
               /\ command = "public" => r.value = None
               /\ command = "restore" => r.value = Value(args, "--from")
               /\ command = "rollback" => r.value = Value(args, "--to")
               /\ command = "domain" => r.value = word2
               /\ command \in {"delete", "restore", "rollback"} => r.op = command
               /\ command = "public" => r.op = IF word2 = None THEN "status" ELSE word2
               /\ command = "domain" => r.op = IF word1 = "add" THEN "domain-add"
                                              ELSE IF word1 = "remove" THEN "domain-remove"
                                              ELSE "domain-list"
<1> DEFINE word(n) == Word(ValueOptions(command), args, n)
           request == [NoRequest EXCEPT !.profile = Value(args, "--profile"), !.yes = Flag(args, "--yes")]
           r == HandlerRequest(command, args)
<1>1. /\ DOMAIN request = DOMAIN NoRequest /\ ~request.confirmed /\ ~request.tui
      /\ request.profile = Value(args, "--profile") /\ (request.yes <=> Flag(args, "--yes"))
      /\ request.site = None /\ request.value = None
      /\ DOMAIN request = {"op", "site", "profile", "value", "yes", "confirmed", "tui"}
  BY DEF NoRequest
<1>2. CASE command = "delete"
  <2>1. r = [request EXCEPT !.op = "delete", !.site = word(1)]
    BY <1>2 DEF HandlerRequest
  <2> HIDE DEF request, r
  <2>2. /\ DOMAIN r = DOMAIN NoRequest /\ ~r.confirmed /\ ~r.tui
        /\ r.profile = Value(args, "--profile") /\ (r.yes <=> Flag(args, "--yes"))
        /\ r.op = "delete" /\ r.site = word(1) /\ r.value = None
    <3> HIDE DEF word
    <3> QED BY <1>1, <2>1
  <2> QED BY <1>2, <2>2 DEF r
<1>3. CASE command = "restore"
  <2>1. r = [request EXCEPT !.op = "restore", !.site = word(1), !.value = Value(args, "--from")]
    BY <1>3 DEF HandlerRequest
  <2> HIDE DEF request, r
  <2>2. /\ DOMAIN r = DOMAIN NoRequest /\ ~r.confirmed /\ ~r.tui
        /\ r.profile = Value(args, "--profile") /\ (r.yes <=> Flag(args, "--yes"))
        /\ r.op = "restore" /\ r.site = word(1) /\ r.value = Value(args, "--from")
    <3> HIDE DEF word
    <3> QED BY <1>1, <2>1
  <2> QED BY <1>3, <2>2 DEF r
<1>4. CASE command = "rollback"
  <2>1. r = [request EXCEPT !.op = "rollback", !.site = word(1), !.value = Value(args, "--to")]
    BY <1>4 DEF HandlerRequest
  <2> HIDE DEF request, r
  <2>2. /\ DOMAIN r = DOMAIN NoRequest /\ ~r.confirmed /\ ~r.tui
        /\ r.profile = Value(args, "--profile") /\ (r.yes <=> Flag(args, "--yes"))
        /\ r.op = "rollback" /\ r.site = word(1) /\ r.value = Value(args, "--to")
    <3> HIDE DEF word
    <3> QED BY <1>1, <2>1
  <2> QED BY <1>4, <2>2 DEF r
<1>5. CASE command = "public"
  <2> DEFINE op == IF word(2) = None THEN "status" ELSE word(2)
  <2>1. r = [request EXCEPT !.site = word(1), !.op = op]
    BY <1>5 DEF HandlerRequest
  <2> HIDE DEF request, r
  <2>2. /\ DOMAIN r = DOMAIN NoRequest /\ ~r.confirmed /\ ~r.tui
        /\ r.profile = Value(args, "--profile") /\ (r.yes <=> Flag(args, "--yes"))
        /\ r.op = op /\ r.site = word(1) /\ r.value = None
    <3> HIDE DEF op, word
    <3> QED BY <1>1, <2>1
  <2> QED BY <1>5, <2>2 DEF r
<1>6. CASE command = "domain"
  <2> DEFINE op == CASE word(1) = "add" -> "domain-add" [] word(1) = "remove" -> "domain-remove"
                     [] OTHER -> "domain-list"
  <2>1. r = [request EXCEPT !.site = Value(args, "--site"), !.value = word(2), !.op = op]
    BY <1>6 DEF HandlerRequest
  <2> HIDE DEF request, r
  <2>2. /\ r.op = op /\ DOMAIN r = DOMAIN NoRequest /\ ~r.confirmed /\ ~r.tui
        /\ r.profile = Value(args, "--profile") /\ (r.yes <=> Flag(args, "--yes"))
        /\ r.site = Value(args, "--site") /\ r.value = word(2)
    <3> HIDE DEF op, word
    <3> QED BY <1>1, <2>1
  <2> QED BY <1>6, <2>2 DEF r
<1> QED BY <1>2, <1>3, <1>4, <1>5, <1>6 DEF AdminCommands

LEMMA NamesAreTokens ==
    ASSUME ShapeInv, NEW p \in DOMAIN crowd
    PROVE  /\ Args(p) \in Seq(Sites \cap Names)
           /\ \A name : Value(Args(p), name) \in (Sites \cap Names) \cup {None}
           /\ \A takes : \A n \in Nat \ {0} : Word(takes, Args(p), n) \in (Sites \cap Names) \cup {None}
<1>1. Args(p) \in Seq(Sites \cap Names)
  BY StrippedIsALine DEF ShapeInv, Args
<1> QED BY <1>1, ReadsTokens

\* A call: where it goes, and how far.
LEMMA CallGoes ==
    ASSUME ShapeInv, NEW p \in Procs, NEW r, r.site \in Sites \cup {None},
           r.profile \in Names \cup {None}, Call(p, r)
    PROVE  /\ at'[p] \in Unasked \cup AdminWay /\ req'[p] = r /\ PlanGood(plan'[p])
           /\ at'[p] \in AdminWay => /\ plan'[p].ok /\ plan'[p].ssh # None
                                     /\ Fits(plan'[p], OwnSite(r), r.profile)
           /\ at'[p] = "send" => ~Fetches(r.op) /\ ~Asks(r)
           /\ DOMAIN at' = Procs /\ DOMAIN req' = Procs /\ DOMAIN plan' = Procs
           /\ \A q \in Procs \ {p} : at'[q] = at[q] /\ req'[q] = req[q] /\ plan'[q] = plan[q]
<1> DEFINE to == ResolveRemote(r)
           safe == SafeArchive(r.value, Root[to.ssh], to.site)
           next == CASE Refusal(r) # "none" -> Refusal(r)
                [] Refusal(r) = "none" /\ (~to.ok \/ to.ssh = None) -> "config"
                [] Refusal(r) = "none" /\ to.ok /\ to.ssh # None ->
                     CASE r.op = "restore" /\ ~safe -> "validation"
                       [] Fetches(r.op) -> "fetch"
                       [] r.op = "restore" /\ safe /\ Asks(r) -> "ask"
                       [] OTHER -> "send"
<1>1. /\ req' = [req EXCEPT ![p] = r] /\ plan' = [plan EXCEPT ![p] = to]
      /\ at' = [at EXCEPT ![p] = next]
  BY DEF Call
<1>2. PlanGood(to) /\ (to.ok => Fits(to, OwnSite(r), r.profile))
  <2>1. to = Resolve([NoOverrides EXCEPT !.profile = r.profile, !.site = OwnSite(r)],
                     ShellEnv, json, NoFile, None, Loaded(config))
    BY DEF ResolveRemote, OwnSite
  <2>2. OwnSite(r) \in Sites \cup {None}
    BY DEF OwnSite
  <2> HIDE DEF to
  <2> QED BY <2>1, <2>2, ResolveIsGood DEF ShapeInv
<1>3. Refusal(r) \in {"none", "validation", "missing"}
  BY DEF Refusal
<1>4. to.ok \in BOOLEAN
  BY <1>2 DEF PlanGood
<1> HIDE DEF to, safe
<1>5. /\ next \in Unasked \cup AdminWay
      /\ next \in AdminWay => to.ok /\ to.ssh # None
      /\ next = "send" => ~Fetches(r.op) /\ ~Asks(r)
  <2>1. Refusal(r) # "none" => next = Refusal(r)
    OBVIOUS
  <2>2. Refusal(r) = "none" /\ (~to.ok \/ to.ssh = None) => next = "config"
    OBVIOUS
  <2>3. Refusal(r) = "none" /\ to.ok /\ to.ssh # None =>
           \/ next \in {"validation", "fetch", "ask"}
           \/ /\ next = "send" /\ ~Fetches(r.op)
              /\ ~(r.op = "restore" /\ ~safe) /\ ~(r.op = "restore" /\ safe /\ Asks(r))
    BY <1>4
  <2>4. Asks(r) => r.op = "restore" \/ Fetches(r.op)
    BY DEF Asks, Fetches
  <2> HIDE DEF next
  <2> QED BY <1>3, <1>4, <2>1, <2>2, <2>3, <2>4 DEF Unasked, AdminWay
<1> HIDE DEF next
<1>6. at'[p] = next /\ req'[p] = r /\ plan'[p] = to
  BY <1>1 DEF ShapeInv
<1>7. /\ DOMAIN at' = Procs /\ DOMAIN req' = Procs /\ DOMAIN plan' = Procs
      /\ \A q \in Procs \ {p} : at'[q] = at[q] /\ req'[q] = req[q] /\ plan'[q] = plan[q]
  BY <1>1 DEF ShapeInv
<1> QED BY <1>2, <1>5, <1>6, <1>7

\* A step that leaves the fields of the other processes.
Moves(p) ==
    /\ DOMAIN at' = Procs /\ DOMAIN req' = Procs /\ DOMAIN plan' = Procs
    /\ \A q \in Procs \ {p} : at'[q] = at[q] /\ req'[q] = req[q] /\ plan'[q] = plan[q]

LEMMA SameReading ==
    ASSUME NEW p, crowd' = crowd
    PROVE  /\ Command(p)' = Command(p) /\ Args(p)' = Args(p) /\ Dispatch(p)' = Dispatch(p)
           /\ Request(p)' = Request(p)
  BY DEF Command, Args, Given, Dispatch, Request

\* The end of a process that has done nothing.
LEMMA EndsWell ==
    ASSUME NEW p, p \in DOMAIN crowd, crowd' = crowd, PlanGood(plan'[p]), done'[p] = <<>>,
           at'[p] \in Codes, at'[p] = "ok" => Dispatch(p) = "ok" /\ NothingToDo(p)
    PROVE  PlanHas(p)' /\ ProcInv(p)'
<1>1. at'[p] \notin AdminWay \cup DeployWay /\ at'[p] # "record"
  BY DEF Codes, Unasked, AdminWay, DeployWay
<1>2. PlanHas(p)'
  BY <1>1 DEF PlanHas, PlanGood
<1>3. Goes(p)'
  BY <1>1 DEF Goes
<1>4. Results(p)'
  BY <1>1 DEF Results
<1>5. NothingToDo(p)' <=> NothingToDo(p)
  BY SameReading DEF NothingToDo
<1> QED BY <1>1, <1>2, <1>3, <1>4, <1>5, SameReading DEF ProcInv, Started

\* A call of the operation that the command's handler asks for.
LEMMA RequestGoes ==
    ASSUME ShapeInv, NEW p \in Procs, p \in DOMAIN crowd, Dispatch(p) = "ok",
           Command(p) \in AdminCommands, HandlerRefuses(Command(p), Args(p)) = "none",
           NEW r \in {Request(p), [Request(p) EXCEPT !.confirmed = TRUE]},
           r.confirmed => typed'[p] = r.site,
           Call(p, r), done'[p] = <<>>, crowd' = crowd, config' = config
    PROVE  PlanHas(p)' /\ ProcInv(p)' /\ Moves(p)
<1>1. r.site \in Sites \cup {None} /\ r.profile \in Names \cup {None}
  <2>1. /\ Request(p).site \in Sites \cup {None} /\ Request(p).profile \in Names \cup {None}
        /\ DOMAIN Request(p) = DOMAIN NoRequest
    <3> DEFINE req0 == HandlerRequest(Command(p), Args(p))
               word == Word(ValueOptions(Command(p)), Args(p), 1)
    <3>1. /\ DOMAIN req0 = DOMAIN NoRequest /\ req0.profile = Value(Args(p), "--profile")
          /\ req0.site = IF Command(p) = "domain" THEN Value(Args(p), "--site") ELSE word
      BY RequestIs
    <3>2. word \in (Sites \cap Names) \cup {None}
      BY NamesAreTokens
    <3>3. /\ Value(Args(p), "--profile") \in (Sites \cap Names) \cup {None}
          /\ Value(Args(p), "--site") \in (Sites \cap Names) \cup {None}
      BY NamesAreTokens
    <3> HIDE DEF req0, word
    <3>4. req0.site \in Sites \cup {None} /\ req0.profile \in Names \cup {None}
      BY <3>1, <3>2, <3>3
    <3> QED BY <3>1, <3>4 DEF Request, req0
  <2>2. r.site = Request(p).site /\ r.profile = Request(p).profile
    <3> DEFINE x == Request(p)
    <3>1. DOMAIN x = {"op", "site", "profile", "value", "yes", "confirmed", "tui"}
      BY <2>1 DEF NoRequest
    <3> HIDE DEF x
    <3>2. r \in {x, [x EXCEPT !.confirmed = TRUE]}
      BY DEF x
    <3> QED BY <3>1, <3>2 DEF x
  <2> QED BY <2>1, <2>2
<1>2. /\ at'[p] \in Unasked \cup AdminWay /\ req'[p] = r /\ PlanGood(plan'[p])
      /\ at'[p] \in AdminWay => /\ plan'[p].ok /\ plan'[p].ssh # None
                                /\ Fits(plan'[p], OwnSite(r), r.profile)
      /\ at'[p] = "send" => ~Fetches(r.op) /\ ~Asks(r)
      /\ Moves(p)
  BY <1>1, CallGoes DEF Moves
<1>3. CASE at'[p] \in Unasked
  <2>1. at'[p] \in Codes /\ at'[p] # "ok"
    BY <1>3 DEF Codes, Unasked
  <2> QED BY <1>2, <2>1, EndsWell
<1>4. CASE at'[p] \in AdminWay
  <2>1. PlanHas(p)'
    BY <1>2, <1>4 DEF PlanHas, PlanGood
  <2>2. AdminGoes(p)'
    <3>1. at'[p] = "send" => ~Asks(r) /\ r.op # "status"
      BY <1>2 DEF Fetches
    <3> QED BY <1>2, <1>4, <3>1, SameReading DEF AdminGoes, Fits
  <2>3. at'[p] \in Ways(Command(p)) /\ at'[p] \notin {"shell", "ok", "record"}
    BY <1>4 DEF Ways, AdminWay, AdminCommands
  <2>4. Results(p)' /\ Goes(p)'
    BY <2>2, <2>3, SameReading DEF Results, Goes, AdminCommands
  <2> QED BY <1>2, <2>1, <2>3, <2>4, SameReading DEF ProcInv, Started
<1> QED BY <1>2, <1>3, <1>4

\* A call from the sites screen.
MenuAsks(r) ==
    /\ DOMAIN r = DOMAIN NoRequest /\ r.site \in Sites /\ Slug[r.site] = r.site /\ r.tui
    /\ r.op \in {"delete", "status", "on", "off"} /\ ~r.yes /\ r.profile = None

LEMMA MenuCallGoes ==
    ASSUME ShapeInv, NEW p \in Procs, p \in DOMAIN crowd, Dispatch(p) = "ok",
           Command(p) = "menu", NEW r, MenuAsks(r), r.confirmed => typed'[p] = r.site,
           Call(p, r), done'[p] = <<>>, crowd' = crowd, config' = config
    PROVE  PlanHas(p)' /\ ProcInv(p)' /\ Moves(p)
<1>2. /\ at'[p] \in Unasked \cup AdminWay /\ req'[p] = r /\ PlanGood(plan'[p])
      /\ at'[p] \in AdminWay => /\ plan'[p].ok /\ plan'[p].ssh # None
                                /\ Fits(plan'[p], OwnSite(r), r.profile)
      /\ at'[p] = "send" => ~Fetches(r.op) /\ ~Asks(r)
      /\ Moves(p)
  BY CallGoes DEF Moves, MenuAsks
<1>3. CASE at'[p] \in Unasked
  <2>1. at'[p] \in Codes /\ at'[p] # "ok"
    BY <1>3 DEF Codes, Unasked
  <2> QED BY <1>2, <2>1, EndsWell
<1>4. CASE at'[p] \in AdminWay
  <2>1. PlanHas(p)'
    BY <1>2, <1>4 DEF PlanHas, PlanGood
  <2>2. MenuGoes(p)'
    <3>1. at'[p] # "send"
      BY <1>2 DEF Fetches, MenuAsks
    <3>2. plan'[p].site = r.site
      <4>1. OwnSite(r) = r.site
        BY DEF OwnSite, MenuAsks
      <4>2. r.site # None
        BY ConfigAssumption DEF MenuAsks
      <4> QED BY <1>2, <1>4, <4>1, <4>2 DEF Fits, MenuAsks
    <3> QED BY <1>2, <3>1, <3>2 DEF MenuGoes, MenuAsks
  <2>3. at'[p] \in Ways(Command(p)) /\ at'[p] \notin {"shell", "ok", "record"}
    BY <1>4 DEF Ways, AdminWay, AdminCommands
  <2>4. Results(p)' /\ Goes(p)'
    BY <2>2, <2>3, SameReading DEF Results, Goes, AdminCommands
  <2> QED BY <1>2, <2>1, <2>3, <2>4, SameReading DEF ProcInv, Started
<1> QED BY <1>2, <1>3, <1>4

LEMMA Quietly ==
    ASSUME Inv, NEW p \in Procs, Moves(p), PlanHas(p)', ProcInv(p)',
           UNCHANGED <<typed, done, hosts, config, json, session, crowd>>
    PROVE  Inv'
<1>1. Alone(p)
  BY DEF Inv, ShapeInv, Alone, Moves, Same
<1>2. HostsInv'
  BY DEF Inv, HostsInv
<1> QED BY <1>1, <1>2, OneSteps

\* A process on its way to a host is one of the commands on sites, or the sites screen.
LEMMA AdminIsOnItsWay ==
    ASSUME Inv, NEW p \in Procs, at[p] \in AdminWay
    PROVE  /\ p \in DOMAIN crowd /\ Dispatch(p) = "ok" /\ done[p] = <<>>
           /\ PlanGood(plan[p]) /\ plan[p].ok /\ plan[p].ssh # None
           /\ \/ Command(p) \in AdminCommands /\ AdminGoes(p)
              \/ Command(p) = "menu" /\ MenuGoes(p)
<1>1. at[p] # "shell" /\ at[p] \notin Codes
  BY DEF AdminWay, Codes, Unasked
<1>2. p \in DOMAIN crowd /\ Dispatch(p) = "ok" /\ at[p] \in Ways(Command(p)) /\ Goes(p) /\ Results(p)
  BY <1>1 DEF Inv, ProcInv, Started
<1>3. done[p] = <<>>
  BY <1>2 DEF Results, AdminWay
<1>4. Command(p) \in AdminCommands \/ Command(p) = "menu"
  BY <1>2 DEF Ways, AdminWay, DeployWay, DoctorWay, Deep, Stages
<1>5. \/ Command(p) \in AdminCommands /\ AdminGoes(p)
      \/ Command(p) = "menu" /\ MenuGoes(p)
  BY <1>2, <1>4 DEF Goes, AdminCommands
<1> QED BY <1>2, <1>3, <1>5 DEF Inv, PlanHas

\* The request of a command, once confirmed or not, is the handler's.
LEMMA AdminRequest ==
    ASSUME NEW p, Command(p) \in AdminCommands, AdminGoes(p)
    PROVE  /\ DOMAIN req[p] = DOMAIN NoRequest /\ ~req[p].tui
           /\ \A f \in DOMAIN NoRequest \ {"confirmed"} : req[p][f] = Request(p)[f]
<1> DEFINE x == Request(p)
<1>1. DOMAIN x = DOMAIN NoRequest /\ ~x.tui
  BY RequestIs DEF Request
<1>2. req[p] \in {x, [x EXCEPT !.confirmed = TRUE]}
  BY DEF AdminGoes
<1> HIDE DEF x
<1>3. \A f \in DOMAIN NoRequest \ {"confirmed"} : req[p][f] = x[f]
  BY <1>1, <1>2
<1>4. "tui" \in DOMAIN NoRequest \ {"confirmed"}
  BY DEF NoRequest
<1> QED BY <1>1, <1>2, <1>3, <1>4 DEF x

LEMMA FetchKeeps ==
    ASSUME Inv, NEW p \in Procs, Fetch(p), UNCHANGED <<deployVars, doctor, crowd>>
    PROVE  Inv'
<1> DEFINE r == req[p]
           site == hosts[plan[p].ssh].site[plan[p].site]
<1>1. /\ p \in DOMAIN crowd /\ Dispatch(p) = "ok" /\ done[p] = <<>>
      /\ PlanGood(plan[p]) /\ plan[p].ok /\ plan[p].ssh # None
      /\ \/ Command(p) \in AdminCommands /\ AdminGoes(p)
         \/ Command(p) = "menu" /\ MenuGoes(p)
  BY AdminIsOnItsWay DEF Fetch, AdminWay
<1>2. /\ UNCHANGED <<typed, done, hosts, config, json, session, crowd>>
      /\ ShapeInv
  BY DEF Fetch, deployVars, Inv
<1>3. SUFFICES Moves(p) /\ PlanHas(p)' /\ ProcInv(p)'
  BY <1>2, Quietly
<1>4. ASSUME NEW code, Ends(p, code), UNCHANGED <<req, plan>>
      PROVE  /\ Moves(p) /\ at'[p] = code /\ req'[p] = r /\ plan'[p] = plan[p]
  BY <1>2, <1>4 DEF Ends, Moves, ShapeInv
<1>5. CASE Ends(p, "io") /\ UNCHANGED <<req, plan>>
  <2>1. "io" \in Codes /\ "io" # "ok"
    BY DEF Codes
  <2> QED BY <1>1, <1>2, <1>4, <1>5, <2>1, EndsWell
<1>6. CASE Asks(r) /\ Ends(p, "ask") /\ UNCHANGED <<req, plan>>
  <2>1. Moves(p) /\ at'[p] = "ask" /\ req'[p] = r /\ plan'[p] = plan[p]
    BY <1>4, <1>6
  <2>2. PlanHas(p)'
    BY <1>1, <2>1 DEF PlanHas, PlanGood
  <2>3. Goes(p)'
    <3>1. CASE Command(p) \in AdminCommands /\ AdminGoes(p)
      <4>1. AdminGoes(p)'
        BY <1>2, <2>1, <3>1, SameReading DEF AdminGoes, Fits
      <4> QED BY <1>2, <3>1, <4>1, SameReading DEF Goes, AdminCommands
    <3>2. CASE Command(p) = "menu" /\ MenuGoes(p)
      <4>1. MenuGoes(p)'
        BY <1>2, <2>1, <3>2 DEF MenuGoes
      <4> QED BY <1>2, <3>2, <4>1, SameReading DEF Goes, AdminCommands
    <3> QED BY <1>1, <3>1, <3>2
  <2>4. Results(p)' /\ "ask" \in Ways(Command(p))
    BY <1>1, <1>2, <2>1 DEF Results, Ways, AdminWay, AdminCommands
  <2> QED BY <1>1, <1>2, <2>1, <2>2, <2>3, <2>4, SameReading DEF ProcInv, Started
<1>7. CASE r.op = "status" /\ ~r.tui /\ Ends(p, "ok") /\ UNCHANGED <<req, plan>>
  <2>1. Moves(p) /\ at'[p] = "ok" /\ plan'[p] = plan[p]
    BY <1>4, <1>7
  <2>2. NothingToDo(p)
    <3>1. Command(p) \in AdminCommands /\ AdminGoes(p)
      BY <1>1, <1>7 DEF MenuGoes
    <3>2. Request(p).op = "status"
      BY <1>7, <3>1, AdminRequest DEF NoRequest
    <3> QED BY <3>1, <3>2 DEF NothingToDo, Reads, AdminGoes, AdminCommands
  <2>3. at'[p] \in Codes
    BY <2>1 DEF Codes
  <2> QED BY <1>1, <1>2, <2>1, <2>2, <2>3, EndsWell
<1>8. CASE /\ r.op = "status" /\ r.tui /\ Ends(p, "ask")
           /\ req' = [req EXCEPT ![p].op = "on"] /\ UNCHANGED plan
  <2>1. Command(p) = "menu" /\ MenuGoes(p)
    BY <1>1, <1>8, AdminRequest
  <2>2. /\ Moves(p) /\ at'[p] = "ask" /\ plan'[p] = plan[p]
        /\ req'[p] = [r EXCEPT !.op = "on"]
    BY <1>2, <1>8 DEF Ends, Moves, ShapeInv
  <2>3. PlanHas(p)'
    BY <1>1, <2>2 DEF PlanHas, PlanGood
  <2>4. MenuGoes(p)'
    <3>1. DOMAIN r = {"op", "site", "profile", "value", "yes", "confirmed", "tui"}
      BY <2>1 DEF MenuGoes, NoRequest
    <3>2. /\ DOMAIN req'[p] = DOMAIN r /\ req'[p].op = "on"
          /\ req'[p].site = r.site /\ req'[p].profile = r.profile /\ req'[p].yes = r.yes
          /\ req'[p].confirmed = r.confirmed /\ req'[p].tui = r.tui
      <4> HIDE DEF r
      <4> QED BY <2>2, <3>1
    <3> QED BY <1>2, <2>1, <2>2, <3>2 DEF MenuGoes
  <2>5. Goes(p)' /\ Results(p)' /\ "ask" \in Ways(Command(p))
    BY <1>1, <1>2, <2>1, <2>2, <2>4, SameReading DEF Goes, Results, Ways, AdminWay, AdminCommands
  <2> QED BY <1>1, <1>2, <2>2, <2>3, <2>5, SameReading DEF ProcInv, Started
<1>9. CASE r.op = "status" /\ r.tui /\ Call(p, [r EXCEPT !.op = "off"])
  <2>1. Command(p) = "menu" /\ MenuGoes(p)
    BY <1>1, <1>9, AdminRequest
  <2> DEFINE r1 == [r EXCEPT !.op = "off"]
  <2>2. MenuAsks(r1) /\ (r1.confirmed => typed'[p] = r1.site)
    <3>1. DOMAIN r = {"op", "site", "profile", "value", "yes", "confirmed", "tui"}
      BY <2>1 DEF MenuGoes, NoRequest
    <3>2. /\ DOMAIN r1 = DOMAIN r /\ r1.op = "off"
          /\ r1.site = r.site /\ r1.profile = r.profile /\ r1.yes = r.yes
          /\ r1.confirmed = r.confirmed /\ r1.tui = r.tui
      <4> HIDE DEF r
      <4> QED BY <3>1
    <3> HIDE DEF r1
    <3> QED BY <1>2, <2>1, <3>2 DEF MenuGoes, MenuAsks
  <2> HIDE DEF r1
  <2> QED BY <1>1, <1>2, <1>9, <2>1, <2>2, MenuCallGoes DEF r1
<1>10. CASE ~Asks(r) /\ r.op # "status" /\ Ends(p, "send") /\ UNCHANGED <<req, plan>>
  <2>1. Moves(p) /\ at'[p] = "send" /\ req'[p] = r /\ plan'[p] = plan[p]
    BY <1>4, <1>10
  <2>2. PlanHas(p)'
    BY <1>1, <2>1 DEF PlanHas, PlanGood
  <2>3. Goes(p)'
    <3>1. CASE Command(p) \in AdminCommands /\ AdminGoes(p)
      <4>1. AdminGoes(p)'
        BY <1>2, <1>10, <2>1, <3>1, SameReading DEF AdminGoes, Fits
      <4> QED BY <1>2, <3>1, <4>1, SameReading DEF Goes, AdminCommands
    <3>2. CASE Command(p) = "menu" /\ MenuGoes(p)
      <4>1. MenuGoes(p)'
        BY <1>2, <1>10, <2>1, <3>2 DEF MenuGoes, Asks
      <4> QED BY <1>2, <3>2, <4>1, SameReading DEF Goes, AdminCommands
    <3> QED BY <1>1, <3>1, <3>2
  <2>4. Results(p)' /\ "send" \in Ways(Command(p))
    BY <1>1, <1>2, <2>1 DEF Results, Ways, AdminWay, AdminCommands
  <2> QED BY <1>1, <1>2, <2>1, <2>2, <2>3, <2>4, SameReading DEF ProcInv, Started
<1>11. \/ Ends(p, "io") /\ UNCHANGED <<req, plan>>
       \/ Asks(r) /\ Ends(p, "ask") /\ UNCHANGED <<req, plan>>
       \/ r.op = "status" /\ ~r.tui /\ Ends(p, "ok") /\ UNCHANGED <<req, plan>>
       \/ /\ r.op = "status" /\ r.tui /\ Ends(p, "ask")
          /\ req' = [req EXCEPT ![p].op = "on"] /\ UNCHANGED plan
       \/ r.op = "status" /\ r.tui /\ Call(p, [r EXCEPT !.op = "off"])
       \/ ~Asks(r) /\ r.op # "status" /\ Ends(p, "send") /\ UNCHANGED <<req, plan>>
  <2> HIDE DEF r
  <2>1. \/ Ends(p,"io") /\ UNCHANGED <<req, plan>>
        \/ CASE Asks(r) -> Ends(p, "ask") /\ UNCHANGED <<req, plan>>
             [] r.op = "status" /\ ~r.tui -> Ends(p, "ok") /\ UNCHANGED <<req, plan>>
             [] r.op = "status" /\ r.tui /\ ~site.public ->
                  Ends(p, "ask") /\ req' = [req EXCEPT ![p].op = "on"] /\ UNCHANGED plan
             [] r.op = "status" /\ r.tui /\ site.public -> Call(p, [r EXCEPT !.op = "off"])
             [] OTHER -> Ends(p, "send") /\ UNCHANGED <<req, plan>>
    BY DEF Fetch, r
  <2> HIDE DEF site
  <2> QED BY <2>1
<1> QED BY <1>5, <1>6, <1>7, <1>8, <1>9, <1>10, <1>11

LEMMA AskKeeps ==
    ASSUME Inv, NEW p \in Procs, Ask(p), UNCHANGED <<deployVars, doctor, crowd>>
    PROVE  Inv'
<1>1. /\ p \in DOMAIN crowd /\ Dispatch(p) = "ok" /\ done[p] = <<>>
      /\ PlanGood(plan[p])
      /\ \/ Command(p) \in AdminCommands /\ AdminGoes(p)
         \/ Command(p) = "menu" /\ MenuGoes(p)
  BY AdminIsOnItsWay DEF Ask, AdminWay
<1>2. /\ UNCHANGED <<done, hosts, config, json, session, crowd>>
      /\ ShapeInv
  BY DEF Ask, deployVars, Inv
<1>3. PICK answer : /\ typed' = [typed EXCEPT ![p] = answer]
                    /\ IF answer = req[p].site
                       THEN Call(p, [req[p] EXCEPT !.confirmed = TRUE])
                       ELSE Ends(p, "validation") /\ UNCHANGED <<req, plan>>
  BY DEF Ask
<1>4. /\ typed'[p] = answer /\ DOMAIN typed' = Procs
      /\ \A q \in Procs \ {p} : typed'[q] = typed[q]
  BY <1>2, <1>3 DEF ShapeInv
<1>5. Moves(p) /\ PlanHas(p)' /\ ProcInv(p)'
  <2>1. CASE answer # req[p].site
    <3>1. Ends(p, "validation") /\ UNCHANGED <<req, plan>>
      BY <1>3, <2>1
    <3>2. Moves(p) /\ at'[p] = "validation" /\ plan'[p] = plan[p]
      BY <1>2, <3>1 DEF Ends, Moves, ShapeInv
    <3>3. at'[p] \in Codes /\ at'[p] # "ok"
      BY <3>2 DEF Codes, Unasked
    <3> QED BY <1>1, <1>2, <3>2, <3>3, EndsWell
  <2>2. CASE answer = req[p].site /\ Command(p) \in AdminCommands /\ AdminGoes(p)
    <3> DEFINE r == [Request(p) EXCEPT !.confirmed = TRUE]
    <3>1. [req[p] EXCEPT !.confirmed = TRUE] = r
      <4> DEFINE x == Request(p)
                 y == [x EXCEPT !.confirmed = TRUE]
      <4>1. req[p] = x \/ req[p] = y
        BY <2>2 DEF AdminGoes
      <4> HIDE DEF x
      <4>2. [y EXCEPT !.confirmed = TRUE] = y
        OBVIOUS
      <4> QED BY <4>1, <4>2 DEF x
    <3>2. typed'[p] = r.site
      <4>1. req[p].site = Request(p).site /\ DOMAIN Request(p) = DOMAIN NoRequest
        <5>1. "site" \in DOMAIN NoRequest \ {"confirmed"}
          BY DEF NoRequest
        <5>2. req[p].site = Request(p).site
          BY <2>2, <5>1, AdminRequest
        <5>3. DOMAIN Request(p) = DOMAIN NoRequest
          BY <2>2, RequestIs DEF Request
        <5> QED BY <5>2, <5>3
      <4>2. r.site = Request(p).site
        <5> DEFINE x == Request(p)
        <5>1. DOMAIN x = {"op", "site", "profile", "value", "yes", "confirmed", "tui"}
          BY <4>1 DEF NoRequest
        <5> HIDE DEF x
        <5>2. [x EXCEPT !.confirmed = TRUE].site = x.site
          BY <5>1
        <5> QED BY <5>2 DEF x
      <4> HIDE DEF r
      <4> QED BY <1>4, <2>2, <4>1, <4>2
    <3> HIDE DEF r
    <3>3. Call(p, r)
      BY <1>3, <2>2, <3>1
    <3>4. r \in {Request(p), [Request(p) EXCEPT !.confirmed = TRUE]}
      BY DEF r
    <3>5. HandlerRefuses(Command(p), Args(p)) = "none"
      BY <2>2 DEF AdminGoes
    <3> QED BY <1>1, <1>2, <2>2, <3>2, <3>3, <3>4, <3>5, RequestGoes
  <2>3. CASE answer = req[p].site /\ Command(p) = "menu" /\ MenuGoes(p)
    <3> DEFINE r0 == req[p]
               r == [r0 EXCEPT !.confirmed = TRUE]
    <3>1. DOMAIN r0 = {"op", "site", "profile", "value", "yes", "confirmed", "tui"}
      BY <2>3 DEF MenuGoes, NoRequest
    <3>2. /\ DOMAIN r = DOMAIN r0 /\ r.op = r0.op
          /\ r.site = r0.site /\ r.profile = r0.profile /\ r.yes = r0.yes /\ r.tui = r0.tui
      <4> HIDE DEF r0
      <4> QED BY <3>1
    <3>3. Call(p, r)
      BY <1>3, <2>3
    <3> HIDE DEF r
    <3>4. MenuAsks(r) /\ typed'[p] = r.site
      BY <1>4, <2>3, <3>2 DEF MenuGoes, MenuAsks
    <3> QED BY <1>1, <1>2, <2>3, <3>3, <3>4, MenuCallGoes
  <2> QED BY <1>1, <2>1, <2>2, <2>3
<1>6. Alone(p)
  BY <1>2, <1>4, <1>5 DEF ShapeInv, Alone, Moves, Same
<1>7. HostsInv'
  BY <1>2 DEF Inv, HostsInv
<1> QED BY <1>5, <1>6, <1>7, OneSteps

LEMMA SendKeeps ==
    ASSUME Inv, NEW p \in Procs, Send(p), UNCHANGED <<deployVars, doctor, crowd>>
    PROVE  Inv'
<1> DEFINE h == plan[p].ssh
           s == plan[p].site
           r == req[p]
           e == [op |-> r.op, host |-> h, site |-> s, value |-> r.value]
<1>1. /\ p \in DOMAIN crowd /\ Dispatch(p) = "ok" /\ done[p] = <<>>
      /\ PlanGood(plan[p]) /\ plan[p].ok /\ plan[p].ssh # None
      /\ \/ Command(p) \in AdminCommands /\ AdminGoes(p)
         \/ Command(p) = "menu" /\ MenuGoes(p)
  BY AdminIsOnItsWay DEF Send, AdminWay
<1>2. /\ UNCHANGED <<req, plan, typed, config, json, session, crowd>>
      /\ ShapeInv /\ at[p] = "send"
  BY DEF Send, deployVars, Inv
<1>3. \/ Ends(p, "io") /\ UNCHANGED <<done, hosts>>
      \/ /\ hosts' \in Carried(h, s, r)
         /\ done' = IF Reads(r.op) THEN done ELSE [done EXCEPT ![p] = Append(@, e)]
         /\ \E code \in {"ok", "io"} : Ends(p, code)
  BY DEF Send
<1>4. PICK code \in {"ok", "io"} :
         /\ Ends(p, code)
         /\ \/ code = "io" /\ UNCHANGED <<done, hosts>>
            \/ hosts' \in Carried(h, s, r) /\ UNCHANGED done /\ Reads(r.op)
            \/ /\ hosts' \in Carried(h, s, r) /\ ~Reads(r.op)
               /\ done' = [done EXCEPT ![p] = Append(@, e)]
  BY <1>3
<1>5. /\ Moves(p) /\ at'[p] = code /\ code \in Codes
  BY <1>2, <1>4 DEF Ends, Moves, ShapeInv, Codes
<1>6. HostsInv'
  <2>1. CASE UNCHANGED hosts
    BY <2>1 DEF Inv, HostsInv
  <2>2. CASE hosts' \in Carried(h, s, r)
    <3>1. h \in Hosts /\ s \in Sites /\ Slug[s] = s /\ HostsInv
      BY <1>1 DEF PlanGood, Inv
    <3>2. Kept(hosts')
      BY <2>2, <3>1, CarriedKeeps
    <3> QED BY <3>2 DEF HostsInv
  <2> QED BY <1>4, <2>1, <2>2
<1>7. DOMAIN done' = Procs /\ \A q \in Procs \ {p} : done'[q] = done[q]
  BY <1>2, <1>3 DEF ShapeInv
<1>8. PlanHas(p)' /\ ProcInv(p)'
  <2>1. CASE UNCHANGED done /\ (code = "io" \/ Reads(r.op))
    <3>1. code = "ok" => NothingToDo(p)
      <4>1. CASE Command(p) \in AdminCommands /\ AdminGoes(p) /\ Reads(r.op)
        <5>1. "op" \in DOMAIN NoRequest \ {"confirmed"}
          BY DEF NoRequest
        <5>2. Request(p).op = r.op
          BY <4>1, <5>1, AdminRequest
        <5> QED BY <4>1, <5>2 DEF NothingToDo, AdminGoes, AdminCommands
      <4>2. CASE Command(p) = "menu"
        BY <4>2 DEF NothingToDo, AdminCommands
      <4> QED BY <1>1, <2>1, <4>1, <4>2
    <3> QED BY <1>1, <1>2, <1>5, <2>1, <3>1, EndsWell
  <2>2. CASE ~Reads(r.op) /\ done' = [done EXCEPT ![p] = Append(@, e)]
    <3>0. PICK d : d = e
      OBVIOUS
    <3>1. done'[p] = <<d>>
      BY <1>1, <1>2, <2>2, <3>0 DEF ShapeInv
    <3>2. Did(p, d)'
      <4>1. d.op = r.op /\ d.host = h /\ d.site = s /\ d.value = r.value
        BY <3>0
      <4> HIDE DEF e
      <4>2. CASE Command(p) \in AdminCommands /\ AdminGoes(p)
        <5> DEFINE x == Request(p)
        <5>1. /\ r.op = x.op /\ r.value = x.value /\ r.site = x.site /\ r.profile = x.profile
              /\ r.yes = x.yes
          <6>1. {"op", "value", "site", "profile", "yes"} \subseteq DOMAIN NoRequest \ {"confirmed"}
            BY DEF NoRequest
          <6> QED BY <4>2, <6>1, AdminRequest
        <5>2. OwnSite(x) = OwnSite(r) /\ OwnSite(r) \in {None, r.site}
          BY <5>1 DEF OwnSite
        <5>3. /\ OwnSite(r) # None => s = Slug[OwnSite(r)]
              /\ r.profile # None /\ ShellEnv.remote = None => h = Find(Loaded(config), r.profile).ssh
          BY <1>1, <4>2 DEF AdminGoes, Fits
        <5>4. r.op \in {"delete", "restore", "rollback", "on"} => r.yes \/ typed[p] = r.site
          BY <1>2, <4>2 DEF AdminGoes, Asks
        <5> HIDE DEF x, r, h, s
        <5>5. AdminDid(p, d)
          BY <2>2, <4>1, <4>2, <5>1, <5>2, <5>3, <5>4 DEF AdminDid, AdminGoes, x
        <5>6. AdminDid(p, d)'
          BY <1>2, <5>5, SameReading DEF AdminDid
        <5> QED BY <1>2, <4>2, <5>6, SameReading DEF Did, AdminCommands
      <4>3. CASE Command(p) = "menu" /\ MenuGoes(p)
        <5>1. r.op = "off" \/ typed[p] = s
          BY <1>2, <4>3 DEF MenuGoes
        <5> QED BY <1>2, <4>1, <4>3, <5>1, SameReading DEF Did, AdminCommands
      <4> QED BY <1>1, <4>2, <4>3
    <3>3. Results(p)'
      BY <1>1, <1>2, <1>5, <3>1, <3>2, SameReading DEF Results
    <3>4. at'[p] \notin AdminWay \cup DeployWay
      BY <1>5 DEF AdminWay, DeployWay
    <3>5. PlanHas(p)' /\ Goes(p)'
      BY <1>1, <1>2, <3>4 DEF PlanHas, PlanGood, Goes
    <3>6. done'[p] # <<>>
      BY <3>1
    <3> HIDE DEF e, r, h, s
    <3> QED BY <1>1, <1>2, <1>5, <3>3, <3>5, <3>6 DEF ProcInv, Started
  <2> QED BY <1>4, <2>1, <2>2
<1>9. Alone(p)
  BY <1>2, <1>5, <1>7 DEF ShapeInv, Alone, Moves, Same
<1> QED BY <1>6, <1>8, <1>9, OneSteps

LEMMA SitesScreenKeeps ==
    ASSUME Inv, NEW p \in Procs, SitesScreen(p), UNCHANGED <<deployVars, doctor, crowd>>
    PROVE  Inv'
<1>1. /\ p \in DOMAIN crowd /\ Dispatch(p) = "ok" /\ done[p] = <<>>
      /\ PlanGood(plan[p]) /\ Command(p) = "menu"
  <2>1. at[p] = "sites" /\ at[p] # "shell" /\ at[p] \notin Codes
    BY DEF SitesScreen, Codes, Unasked
  <2>2. p \in DOMAIN crowd /\ Dispatch(p) = "ok" /\ at[p] \in Ways(Command(p)) /\ Results(p)
    BY <2>1 DEF Inv, ProcInv, Started
  <2>3. Command(p) = "menu"
    BY <2>1, <2>2 DEF Ways, AdminWay, DeployWay, DoctorWay, Deep, Stages
  <2> QED BY <2>1, <2>2, <2>3 DEF Inv, PlanHas, Results
<1>2. /\ UNCHANGED <<typed, done, hosts, config, json, session, crowd>>
      /\ ShapeInv
  BY DEF SitesScreen, deployVars, Inv
<1>3. SUFFICES Moves(p) /\ PlanHas(p)' /\ ProcInv(p)'
  BY <1>2, Quietly
<1>4. CASE Ends(p, "closed") /\ UNCHANGED <<req, plan>>
  <2>1. Moves(p) /\ at'[p] = "closed" /\ plan'[p] = plan[p]
    BY <1>2, <1>4 DEF Ends, Moves, ShapeInv
  <2>2. at'[p] \in Codes /\ at'[p] # "ok"
    BY <2>1 DEF Codes, Unasked
  <2> QED BY <1>1, <1>2, <2>1, <2>2, EndsWell
<1>5. ASSUME NEW op \in {"delete", "status"}, NEW s \in Sites, Slug[s] = s,
             Call(p, [NoRequest EXCEPT !.op = op, !.site = s, !.tui = TRUE])
      PROVE  Moves(p) /\ PlanHas(p)' /\ ProcInv(p)'
  <2> DEFINE r == [NoRequest EXCEPT !.op = op, !.site = s, !.tui = TRUE]
  <2>1. /\ DOMAIN r = DOMAIN NoRequest /\ r.site = s /\ r.tui = TRUE /\ r.op = op
        /\ r.yes = FALSE /\ r.profile = None /\ r.confirmed = FALSE
    BY DEF NoRequest
  <2>2. Call(p, r)
    BY <1>5
  <2> HIDE DEF r
  <2>3. MenuAsks(r)
    BY <1>5, <2>1 DEF MenuAsks
  <2> QED BY <1>1, <1>2, <2>1, <2>2, <2>3, MenuCallGoes
<1>6. CASE \E rows \in Listed(ResolveRemote(NoRequest)) : \E s \in rows, op \in {"delete", "status"} :
             Call(p, [NoRequest EXCEPT !.op = op, !.site = s, !.tui = TRUE])
           /\ ResolveRemote(NoRequest).ok
  <2> DEFINE to == ResolveRemote(NoRequest)
  <2>0. PICK rows \in Listed(to) : \E s \in rows, op \in {"delete", "status"} :
             Call(p, [NoRequest EXCEPT !.op = op, !.site = s, !.tui = TRUE])
    BY <1>6
  <2>1. PICK s \in rows, op \in {"delete", "status"} :
             Call(p, [NoRequest EXCEPT !.op = op, !.site = s, !.tui = TRUE])
    BY <2>0
  <2>2. PlanGood(to) /\ to.ok
    <3>1. NoRequest.profile = None /\ NoRequest.site = None /\ NoRequest.op = "none"
      BY DEF NoRequest
    <3>2. to = Resolve([NoOverrides EXCEPT !.profile = None, !.site = None],
                       ShellEnv, json, NoFile, None, Loaded(config))
      BY <3>1 DEF ResolveRemote
    <3>3. to.ok
      BY <1>6
    <3> HIDE DEF to
    <3> QED BY <1>2, <3>2, <3>3, ResolveIsGood DEF ShapeInv
  <2> HIDE DEF to
  <2>3. s \in Sites /\ Exists(to.ssh, s) /\ to.ssh # None
    BY <2>1 DEF Listed
  <2>4. to.ssh \in Hosts
    BY <2>2, <2>3 DEF PlanGood
  <2>5. Slug[s] = s
    BY <2>3, <2>4 DEF Inv, HostsInv, Kept, HostKeeps, Exists
  <2> QED BY <1>5, <2>1, <2>3, <2>5
<1> QED BY <1>4, <1>6 DEF SitesScreen

\* A site's confirmation, request and answer leave what every process's invariants say.
LEMMA AdminKeeps ==
    ASSUME Inv, NEW p \in Procs, AdminStep(p), UNCHANGED <<deployVars, doctor, crowd>>
    PROVE  Inv'
  BY FetchKeeps, AskKeeps, SendKeeps, SitesScreenKeeps DEF AdminStep

(***************************************************************************)
(* The start of a process.                                                 *)
(***************************************************************************)
\* The handlers, before they have called anything.
LEMMA FromTheShell ==
    ASSUME Inv, NEW p \in Procs, p \in DOMAIN crowd, at[p] = "shell"
    PROVE  done[p] = <<>> /\ PlanGood(plan[p])
<1>1. at[p] \notin Codes /\ at[p] \notin Ways(Command(p))
  BY DEF Codes, Unasked, Ways, AdminWay, DeployWay, DoctorWay, Deep, Stages
<1> QED BY <1>1 DEF Inv, ProcInv, Started, PlanHas

LEMMA AdminStartKeeps ==
    ASSUME Inv, NEW p \in Procs, p \in DOMAIN crowd, at[p] = "shell", Dispatch(p) = "ok",
           Command(p) \in AdminCommands, AdminStart(p, Command(p), Args(p)),
           UNCHANGED <<deployVars, doctor, crowd>>
    PROVE  Inv'
<1>1. done[p] = <<>> /\ PlanGood(plan[p])
  BY FromTheShell
<1>2. /\ UNCHANGED <<typed, done, hosts, config, json, session, crowd>>
      /\ ShapeInv
  BY DEF AdminStart, deployVars, Inv
<1>3. SUFFICES Moves(p) /\ PlanHas(p)' /\ ProcInv(p)'
  BY <1>2, Quietly
<1>4. ASSUME NEW code \in Codes \ {"ok"}, Ends(p, code), UNCHANGED <<req, plan>>
      PROVE  Moves(p) /\ PlanHas(p)' /\ ProcInv(p)'
  <2>1. Moves(p) /\ at'[p] = code /\ plan'[p] = plan[p]
    BY <1>2, <1>4 DEF Ends, Moves, ShapeInv
  <2> QED BY <1>1, <1>2, <2>1, EndsWell
<1>5. CASE /\ HandlerRefuses(Command(p), Args(p)) # "none"
           /\ Ends(p, HandlerRefuses(Command(p), Args(p))) /\ UNCHANGED <<req, plan>>
  <2>1. HandlerRefuses(Command(p), Args(p)) \in {"none", "missing", "validation"}
    BY DEF HandlerRefuses
  <2>2. {"missing", "validation"} \subseteq Codes \ {"ok"}
    BY DEF Codes, Unasked
  <2> QED BY <1>4, <1>5, <2>1, <2>2
<1>6. CASE Ends(p, "config") /\ UNCHANGED <<req, plan>>
  BY <1>4, <1>6 DEF Codes, Unasked
<1>7. CASE /\ HandlerRefuses(Command(p), Args(p)) = "none"
           /\ Call(p, HandlerRequest(Command(p), Args(p)))
  <2>1. Call(p, Request(p))
    BY <1>7 DEF Request
  <2>2. ~Request(p).confirmed
    BY RequestIs DEF Request
  <2> QED BY <1>1, <1>2, <1>7, <2>1, <2>2, RequestGoes
<1>8. \/ /\ HandlerRefuses(Command(p), Args(p)) # "none"
         /\ Ends(p, HandlerRefuses(Command(p), Args(p))) /\ UNCHANGED <<req, plan>>
      \/ Ends(p, "config") /\ UNCHANGED <<req, plan>>
      \/ /\ HandlerRefuses(Command(p), Args(p)) = "none"
         /\ Call(p, HandlerRequest(Command(p), Args(p)))
  BY DEF AdminStart
<1> QED BY <1>5, <1>6, <1>7, <1>8

LEMMA ListStartKeeps ==
    ASSUME Inv, NEW p \in Procs, p \in DOMAIN crowd, at[p] = "shell", Dispatch(p) = "ok",
           Command(p) = "list", ListStart(p, Args(p)), UNCHANGED <<deployVars, doctor, crowd>>
    PROVE  Inv'
<1>1. done[p] = <<>> /\ PlanGood(plan[p])
  BY FromTheShell
<1>2. /\ UNCHANGED <<req, plan, typed, done, hosts, config, json, session, crowd>>
      /\ ShapeInv
  BY DEF ListStart, deployVars, Inv
<1>3. PICK code \in {"config", "ok"} : Ends(p, code)
  BY DEF ListStart
<1>4. Moves(p) /\ at'[p] = code /\ plan'[p] = plan[p]
  BY <1>2, <1>3 DEF Ends, Moves, ShapeInv
<1>5. code \in Codes
  BY DEF Codes, Unasked
<1>6. NothingToDo(p)
  BY DEF NothingToDo, AdminCommands
<1> QED BY <1>1, <1>2, <1>4, <1>5, <1>6, EndsWell, Quietly

LEMMA PlansAreGood ==
    ASSUME ShapeInv, NEW p \in DOMAIN crowd, NEW to,
           to = DeployPlan(Args(p)) \/ to = DoctorPlan(Value(Args(p), "--profile"), Value(Args(p), "--site"))
    PROVE  /\ PlanGood(to)
           /\ to.ok => Fits(to, Value(Args(p), "--site"), Value(Args(p), "--profile"))
<1> DEFINE profile == Value(Args(p), "--profile")
           site == Value(Args(p), "--site")
<1>1. profile \in Names \cup {None} /\ site \in Sites \cup {None}
  BY NamesAreTokens
<1>2. to = Resolve([NoOverrides EXCEPT !.profile = profile, !.site = site],
                   ShellEnv, json, NoFile, None, Loaded(config))
  BY DEF DeployPlan, DoctorPlan
<1> HIDE DEF profile, site
<1>3. PlanGood(to) /\ (to.ok => Fits(to, site, profile))
  BY <1>1, <1>2, ResolveIsGood DEF ShapeInv
<1> QED BY <1>3 DEF profile, site

LEMMA DeployStartKeeps ==
    ASSUME Inv, NEW p \in Procs, p \in DOMAIN crowd, at[p] = "shell", Dispatch(p) = "ok",
           Command(p) = "deploy", DeployStart(p, Args(p)), UNCHANGED <<doctor, crowd>>
    PROVE  Inv'
<1> DEFINE to == DeployPlan(Args(p))
<1>1. done[p] = <<>> /\ PlanGood(plan[p])
  BY FromTheShell
<1>2. /\ UNCHANGED <<typed, done, hosts, config, json, session, crowd>>
      /\ ShapeInv /\ plan' = [plan EXCEPT ![p] = to]
  BY DEF DeployStart, Inv
<1>3. PlanGood(to) /\ (to.ok => Fits(to, Value(Args(p), "--site"), Value(Args(p), "--profile")))
  BY <1>2, PlansAreGood
<1>4. SUFFICES Moves(p) /\ PlanHas(p)' /\ ProcInv(p)'
  BY <1>2, Quietly
<1>5. ASSUME NEW code, Ends(p, code), UNCHANGED req
      PROVE  Moves(p) /\ at'[p] = code /\ plan'[p] = to
  <2> HIDE DEF to
  <2> QED BY <1>2, <1>5 DEF Ends, Moves, ShapeInv
<1>6. ASSUME NEW code \in {"config", "io"}, Ends(p, code), UNCHANGED req
      PROVE  Moves(p) /\ PlanHas(p)' /\ ProcInv(p)'
  <2>1. Moves(p) /\ at'[p] = code /\ plan'[p] = to
    BY <1>5, <1>6
  <2>2. code \in Codes /\ code # "ok"
    BY <1>6 DEF Codes, Unasked
  <2> HIDE DEF to
  <2> QED BY <1>1, <1>2, <1>3, <2>1, <2>2, EndsWell
<1>7. CASE Flag(Args(p), "--dry-run") /\ Ends(p, "ok") /\ UNCHANGED req
  <2>1. Moves(p) /\ at'[p] = "ok" /\ plan'[p] = to
    BY <1>5, <1>7
  <2>2. "ok" \in Codes
    BY DEF Codes
  <2>3. NothingToDo(p)
    BY <1>7 DEF NothingToDo, AdminCommands
  <2> HIDE DEF to
  <2> QED BY <1>1, <1>2, <1>3, <2>1, <2>2, <2>3, EndsWell
<1>8. CASE /\ to.ok /\ ~Flag(Args(p), "--dry-run")
           /\ at' = [at EXCEPT ![p] = "build"]
           /\ req' = [req EXCEPT ![p] = [NoRequest EXCEPT !.op = "deploy", !.site = to.site,
                                                          !.yes = Flag(Args(p), "--yes")]]
  <2> DEFINE r == [NoRequest EXCEPT !.op = "deploy", !.site = to.site, !.yes = Flag(Args(p), "--yes")]
  <2>1. DOMAIN r = DOMAIN NoRequest /\ r.yes = Flag(Args(p), "--yes") /\ r.confirmed = FALSE
    <3> HIDE DEF to
    <3> QED BY DEF NoRequest
  <2> HIDE DEF r
  <2>2. Moves(p) /\ at'[p] = "build" /\ plan'[p] = to /\ req'[p] = r
    <3>1. req' = [req EXCEPT ![p] = r]
      BY <1>8 DEF r
    <3> HIDE DEF to
    <3> QED BY <1>2, <1>8, <3>1 DEF Moves, ShapeInv
  <2> HIDE DEF to
  <2>3. PlanHas(p)'
    BY <1>3, <1>8, <2>2 DEF PlanHas, PlanGood, AdminWay, DeployWay
  <2>4. DeployGoes(p)'
    BY <1>2, <1>3, <1>8, <2>1, <2>2, SameReading DEF DeployGoes, Fits
  <2>5. Goes(p)' /\ Results(p)' /\ "build" \in Ways(Command(p))
    BY <1>1, <1>2, <2>2, <2>4, SameReading DEF Goes, Results, Ways, DeployWay, AdminCommands
  <2> QED BY <1>1, <1>2, <2>2, <2>3, <2>5, SameReading DEF ProcInv, Started
<1> HIDE DEF to
<1> QED BY <1>6, <1>7, <1>8 DEF DeployStart, to

LEMMA DoctorStartKeeps ==
    ASSUME Inv, NEW p \in Procs, p \in DOMAIN crowd, at[p] = "shell", Dispatch(p) = "ok",
           Command(p) = "doctor", DoctorStart(p, Args(p), Quiet(p)), UNCHANGED crowd
    PROVE  Inv'
<1> DEFINE to == DoctorPlan(Value(Args(p), "--profile"), Value(Args(p), "--site"))
<1>1. done[p] = <<>>
  BY FromTheShell
<1>2. /\ UNCHANGED <<req, typed, done, hosts, config, json, session, crowd>>
      /\ ShapeInv /\ plan' = [plan EXCEPT ![p] = to]
  BY DEF DoctorStart, othersOfDoctor, deployVars, Inv
<1>3. PlanGood(to)
  BY <1>2, PlansAreGood
<1>4. PICK code \in {"ok", "checks"} : Ends(p, code)
  BY DEF DoctorStart
<1> HIDE DEF to
<1>5. Moves(p) /\ at'[p] = code /\ plan'[p] = to
  BY <1>2, <1>4 DEF Ends, Moves, ShapeInv
<1>6. PlanHas(p)' /\ ProcInv(p)'
  <2>1. CASE code = "ok"
    <3>1. NothingToDo(p) /\ "ok" \in Codes
      BY DEF NothingToDo, AdminCommands, Codes
    <3> QED BY <1>1, <1>2, <1>3, <1>5, <2>1, <3>1, EndsWell
  <2>2. CASE code = "checks"
    <3>1. PlanHas(p)'
      BY <1>3, <1>5, <2>2 DEF PlanHas, PlanGood, AdminWay, DeployWay
    <3>2. Goes(p)' /\ Results(p)' /\ "checks" \in Ways(Command(p))
      BY <1>1, <1>2, <1>5, <2>2, SameReading DEF Goes, Results, Ways, DoctorWay, AdminCommands
    <3> QED BY <1>1, <1>2, <1>5, <2>2, <3>1, <3>2, SameReading DEF ProcInv, Started
  <2> QED BY <2>1, <2>2
<1> QED BY <1>2, <1>5, <1>6, Quietly

LEMMA StartKeeps ==
    ASSUME Inv, NEW p \in Procs, Start(p)
    PROVE  Inv'
<1>1. p \in DOMAIN crowd /\ at[p] = "shell" /\ UNCHANGED crowd
  BY DEF Start
<1>2. done[p] = <<>> /\ PlanGood(plan[p]) /\ ShapeInv
  BY <1>1, FromTheShell DEF Inv
<1>3. CASE /\ Dispatch(p) # "ok" /\ Ends(p, Dispatch(p))
           /\ UNCHANGED <<req, plan, typed, told, done, hosts, config, json, deployVars, doctor>>
  <2>1. UNCHANGED <<req, plan, typed, done, hosts, config, json, session, crowd>>
    BY <1>1, <1>3 DEF deployVars
  <2>2. Dispatch(p) \in Codes
    <3>1. Validate(Command(p), Args(p)) \in {"unknown-option", "missing", "invalid", "ok"}
      BY DEF Validate
    <3>2. Dispatch(p) \in {"unknown-option", "missing", "invalid", "ok", "help"}
      BY <3>1 DEF Dispatch
    <3> QED BY <3>2 DEF Codes, Unasked
  <2>3. Moves(p) /\ at'[p] = Dispatch(p) /\ plan'[p] = plan[p]
    BY <1>2, <1>3, <2>1 DEF Ends, Moves, ShapeInv
  <2> QED BY <1>1, <1>2, <1>3, <2>1, <2>2, <2>3, EndsWell, Quietly
<1>4. CASE /\ Dispatch(p) = "ok" /\ Command(p) = "menu"
           /\ \E screen \in {"sites", "doctor"} : Ends(p, screen)
           /\ UNCHANGED <<req, plan, typed, told, done, hosts, config, json, deployVars, doctor>>
  <2>1. UNCHANGED <<req, plan, typed, done, hosts, config, json, session, crowd>>
    BY <1>1, <1>4 DEF deployVars
  <2>2. PICK screen \in {"sites", "doctor"} : Ends(p, screen)
    BY <1>4
  <2>3. Moves(p) /\ at'[p] = screen /\ plan'[p] = plan[p]
    BY <1>2, <2>1, <2>2 DEF Ends, Moves, ShapeInv
  <2>4. PlanHas(p)'
    BY <1>2, <2>1, <2>3 DEF PlanHas, PlanGood, AdminWay, DeployWay
  <2>5. Goes(p)' /\ Results(p)' /\ screen \in Ways(Command(p))
    BY <1>2, <1>4, <2>1, <2>3, SameReading DEF Goes, Results, Ways, AdminWay, AdminCommands
  <2>6. ProcInv(p)'
    BY <1>1, <1>2, <1>4, <2>1, <2>3, <2>5, SameReading DEF ProcInv, Started
  <2> QED BY <2>1, <2>3, <2>4, <2>6, Quietly
<1>5. CASE Dispatch(p) = "ok" /\ Handler(p)
  BY <1>1, <1>4, <1>5, AdminStartKeeps, ListStartKeeps, DeployStartKeeps, DoctorStartKeeps DEF Handler
<1> QED BY <1>3, <1>5 DEF Start

(***************************************************************************)
(* The steps of a deploy.                                                  *)
(***************************************************************************)
\* A process on the way of a deploy.
LEMMA DeployIsOnItsWay ==
    ASSUME Inv, NEW p \in Procs, at[p] \in DeployWay
    PROVE  /\ p \in DOMAIN crowd /\ Dispatch(p) = "ok" /\ Command(p) = "deploy"
           /\ PlanGood(plan[p]) /\ plan[p].ok /\ (at[p] # "build" => plan[p].ssh # None)
           /\ DeployGoes(p) /\ Results(p) /\ (at[p] # "record" => done[p] = <<>>)
           /\ ShapeInv
<1>1. at[p] # "shell" /\ at[p] \notin Codes
  BY DEF DeployWay, Codes, Unasked
<1>2. p \in DOMAIN crowd /\ Dispatch(p) = "ok" /\ at[p] \in Ways(Command(p)) /\ Goes(p) /\ Results(p)
  BY <1>1 DEF Inv, ProcInv, Started
<1>3. Command(p) = "deploy"
  BY <1>2 DEF Ways, AdminWay, DeployWay, DoctorWay, Deep, Stages
<1>4. DeployGoes(p)
  BY <1>2, <1>3 DEF Goes, AdminCommands
<1>5. at[p] # "record" => done[p] = <<>>
  BY <1>2 DEF Results, DeployWay
<1> QED BY <1>2, <1>3, <1>4, <1>5 DEF Inv, PlanHas, DeployWay

\* A deploy that goes on, and has not been carried out.
LEMMA DeployGoesOn ==
    ASSUME NEW p \in Procs, p \in DOMAIN crowd, crowd' = crowd, Dispatch(p) = "ok",
           Command(p) = "deploy", PlanGood(plan'[p]), plan'[p].ok, DeployGoes(p)',
           at'[p] \in DeployWay, at'[p] # "build" => plan'[p].ssh # None,
           at'[p] # "record", done'[p] = <<>>
    PROVE  PlanHas(p)' /\ ProcInv(p)'
<1>1. PlanHas(p)'
  BY DEF PlanHas, PlanGood, AdminWay, DeployWay
<1>2. Goes(p)' /\ Results(p)' /\ at'[p] \in Ways(Command(p)) /\ at'[p] # "ok"
  BY SameReading DEF Goes, Results, Ways, DeployWay, AdminCommands
<1> QED BY <1>1, <1>2, SameReading DEF ProcInv, Started

LEMMA TouchKeeps ==
    ASSUME ShapeInv, NEW t, Touch(t)
    PROVE  /\ DOMAIN session' = Procs
           /\ \A q \in Procs : /\ DOMAIN session'[q] = {"sent", "edited", "last"}
                               /\ session'[q].last = session[q].last
  BY DEF Touch, ShapeInv

\* A step of a deploy by itself: only its process, its session and the files.
LEMMA DeployAlone ==
    ASSUME Inv, NEW p \in Procs, Moves(p), UNCHANGED <<config, json, crowd>>,
           DOMAIN typed' = Procs, DOMAIN done' = Procs, DOMAIN session' = Procs,
           \A q \in Procs \ {p} : typed'[q] = typed[q] /\ done'[q] = done[q],
           \A q \in Procs : DOMAIN session'[q] = {"sent", "edited", "last"},
           \A q \in Procs \ {p} : session'[q].last = session[q].last,
           HostsInv', PlanHas(p)', ProcInv(p)'
    PROVE  Inv'
<1>1. Alone(p)
  BY DEF Alone, Moves, Same
<1> QED BY <1>1, OneSteps

LEMMA BuildKeeps ==
    ASSUME Inv, NEW p \in Procs, Build(p), UNCHANGED <<doctor, crowd>>
    PROVE  Inv'
<1>1. /\ p \in DOMAIN crowd /\ Dispatch(p) = "ok" /\ Command(p) = "deploy"
      /\ PlanGood(plan[p]) /\ plan[p].ok /\ DeployGoes(p) /\ done[p] = <<>> /\ ShapeInv
  BY DeployIsOnItsWay DEF Build, DeployWay
<1>2. UNCHANGED <<req, plan, typed, done, hosts, config, json, crowd>>
  BY DEF Build
<1>3. /\ DOMAIN session' = Procs
      /\ \A q \in Procs : /\ DOMAIN session'[q] = {"sent", "edited", "last"}
                          /\ session'[q].last = session[q].last
  BY <1>1, TouchKeeps DEF Build, ShapeInv
<1>4. PICK code \in {"io", "config", "prepare"} :
         Ends(p, code) /\ (code = "prepare" => plan[p].ssh # None)
  BY DEF Build
<1>5. Moves(p) /\ at'[p] = code
  BY <1>1, <1>2, <1>4 DEF Ends, Moves, ShapeInv
<1>6. PlanHas(p)' /\ ProcInv(p)'
  <2>1. CASE code # "prepare"
    <3>1. code \in Codes /\ code # "ok"
      BY <2>1 DEF Codes, Unasked
    <3> QED BY <1>1, <1>2, <1>5, <3>1, EndsWell
  <2>2. CASE code = "prepare"
    <3>1. DeployGoes(p)'
      BY <1>1, <1>2, <1>5, <2>2, SameReading DEF DeployGoes, Fits
    <3> QED BY <1>1, <1>2, <1>4, <1>5, <2>2, <3>1, DeployGoesOn DEF DeployWay
  <2> QED BY <2>1, <2>2
<1>7. HostsInv'
  BY <1>2 DEF Inv, HostsInv
<1> QED BY <1>1, <1>2, <1>3, <1>5, <1>6, <1>7, DeployAlone DEF ShapeInv

LEMMA PrepareKeeps ==
    ASSUME Inv, NEW p \in Procs, Prepare(p), UNCHANGED <<doctor, crowd>>
    PROVE  Inv'
<1>1. /\ p \in DOMAIN crowd /\ Dispatch(p) = "ok" /\ Command(p) = "deploy"
      /\ PlanGood(plan[p]) /\ plan[p].ok /\ plan[p].ssh # None
      /\ DeployGoes(p) /\ done[p] = <<>> /\ ShapeInv
  BY DeployIsOnItsWay DEF Prepare, DeployWay
<1>2. UNCHANGED <<req, plan, typed, done, hosts, config, json, crowd>>
  BY DEF Prepare
<1>3. PICK code, last :
         /\ code \in {"io", "overwrite", "transfer"} /\ Ends(p, code)
         /\ \/ UNCHANGED session /\ code = "io"
            \/ /\ session' = [session EXCEPT ![p].last = last]
               /\ code = "transfer" => ~(last = "other" /\ ~req[p].yes /\ ~req[p].confirmed)
  <2> DEFINE site == hosts[plan[p].ssh].site[plan[p].site]
             last == IF site = None THEN None ELSE site.by
             asks == last = "other" /\ ~req[p].yes /\ ~req[p].confirmed
  <2>1. \/ Ends(p, "io") /\ UNCHANGED session
        \/ /\ Ends(p, IF asks THEN "overwrite" ELSE "transfer")
           /\ session' = [session EXCEPT ![p].last = last]
    BY DEF Prepare
  <2> HIDE DEF last
  <2> QED BY <2>1
<1>4. Moves(p) /\ at'[p] = code
  BY <1>1, <1>2, <1>3 DEF Ends, Moves, ShapeInv
<1>5. /\ DOMAIN session' = Procs
      /\ \A q \in Procs : DOMAIN session'[q] = {"sent", "edited", "last"}
      /\ \A q \in Procs \ {p} : session'[q].last = session[q].last
      /\ code = "transfer" => session'[p].last = last
  BY <1>1, <1>3 DEF ShapeInv
<1>6. PlanHas(p)' /\ ProcInv(p)'
  <2>1. CASE code = "io"
    <3>1. code \in Codes /\ code # "ok"
      BY <2>1 DEF Codes, Unasked
    <3> QED BY <1>1, <1>2, <1>4, <3>1, EndsWell
  <2>2. CASE code # "io"
    <3>1. DeployGoes(p)'
      BY <1>1, <1>2, <1>3, <1>4, <1>5, <2>2, SameReading DEF DeployGoes, Fits
    <3> QED BY <1>1, <1>2, <1>3, <1>4, <2>2, <3>1, DeployGoesOn DEF DeployWay
  <2> QED BY <2>1, <2>2
<1>7. HostsInv'
  BY <1>2 DEF Inv, HostsInv
<1> QED BY <1>1, <1>2, <1>4, <1>5, <1>6, <1>7, DeployAlone DEF ShapeInv

LEMMA AskOverwriteKeeps ==
    ASSUME Inv, NEW p \in Procs, AskOverwrite(p), UNCHANGED <<doctor, crowd>>
    PROVE  Inv'
<1>1. /\ p \in DOMAIN crowd /\ Dispatch(p) = "ok" /\ Command(p) = "deploy"
      /\ PlanGood(plan[p]) /\ plan[p].ok
      /\ DeployGoes(p) /\ done[p] = <<>> /\ ShapeInv
  BY DeployIsOnItsWay DEF AskOverwrite, DeployWay
<1>2. UNCHANGED <<plan, done, hosts, config, json, session, crowd>>
  BY DEF AskOverwrite, deployVars
<1>3. PICK answer : /\ typed' = [typed EXCEPT ![p] = answer]
                    /\ IF answer = plan[p].site
                       THEN at' = [at EXCEPT ![p] = "build"] /\ req' = [req EXCEPT ![p].confirmed = TRUE]
                       ELSE Ends(p, "validation") /\ UNCHANGED req
  BY DEF AskOverwrite
<1>4. /\ typed'[p] = answer /\ DOMAIN typed' = Procs
      /\ \A q \in Procs \ {p} : typed'[q] = typed[q]
  BY <1>1, <1>3 DEF ShapeInv
<1>5. Moves(p) /\ PlanHas(p)' /\ ProcInv(p)'
  <2>1. CASE answer # plan[p].site
    <3>1. Ends(p, "validation") /\ UNCHANGED req
      BY <1>3, <2>1
    <3>2. Moves(p) /\ at'[p] = "validation"
      BY <1>1, <1>2, <3>1 DEF Ends, Moves, ShapeInv
    <3>3. at'[p] \in Codes /\ at'[p] # "ok"
      BY <3>2 DEF Codes, Unasked
    <3> QED BY <1>1, <1>2, <3>2, <3>3, EndsWell
  <2>2. CASE answer = plan[p].site
    <3>1. at' = [at EXCEPT ![p] = "build"] /\ req' = [req EXCEPT ![p].confirmed = TRUE]
      BY <1>3, <2>2
    <3>2. /\ Moves(p) /\ at'[p] = "build" /\ req'[p] = [req[p] EXCEPT !.confirmed = TRUE]
      BY <1>1, <1>2, <3>1 DEF Moves, ShapeInv
    <3>3. DOMAIN req'[p] = DOMAIN NoRequest /\ req'[p].yes = req[p].yes
      <4>1. DOMAIN req[p] = {"op", "site", "profile", "value", "yes", "confirmed", "tui"}
        BY <1>1 DEF DeployGoes, NoRequest
      <4> QED BY <1>1, <3>2, <4>1 DEF DeployGoes
    <3>4. DeployGoes(p)'
      BY <1>1, <1>2, <1>4, <2>2, <3>2, <3>3, SameReading DEF DeployGoes, Fits
    <3> QED BY <1>1, <1>2, <3>2, <3>4, DeployGoesOn DEF DeployWay
  <2> QED BY <2>1, <2>2
<1>6. HostsInv'
  BY <1>2 DEF Inv, HostsInv
<1> QED BY <1>1, <1>2, <1>4, <1>5, <1>6, DeployAlone DEF ShapeInv

LEMMA TransferKeeps ==
    ASSUME Inv, NEW p \in Procs, Transfer(p), UNCHANGED <<doctor, crowd>>
    PROVE  Inv'
<1>1. /\ p \in DOMAIN crowd /\ Dispatch(p) = "ok" /\ Command(p) = "deploy"
      /\ PlanGood(plan[p]) /\ plan[p].ok /\ plan[p].ssh # None
      /\ DeployGoes(p) /\ done[p] = <<>> /\ ShapeInv /\ at[p] = "transfer"
  BY DeployIsOnItsWay DEF Transfer, DeployWay
<1>2. UNCHANGED <<req, plan, typed, done, hosts, config, json, crowd>>
  BY DEF Transfer
<1>3. PICK code \in {"io", "activate"} :
         /\ Ends(p, code)
         /\ \/ UNCHANGED session
            \/ session' = [session EXCEPT ![p].sent = Selected, ![p].edited = FALSE]
  BY DEF Transfer
<1>4. Moves(p) /\ at'[p] = code
  BY <1>1, <1>2, <1>3 DEF Ends, Moves, ShapeInv
<1>5. /\ DOMAIN session' = Procs
      /\ \A q \in Procs : DOMAIN session'[q] = {"sent", "edited", "last"}
      /\ \A q \in Procs : session'[q].last = session[q].last
  <2> DEFINE s1 == [session EXCEPT ![p].sent = Selected]
  <2>1. /\ DOMAIN s1 = Procs
        /\ \A q \in Procs : DOMAIN s1[q] = {"sent", "edited", "last"} /\ s1[q].last = session[q].last
    BY <1>1 DEF ShapeInv
  <2>2. CASE session' = [s1 EXCEPT ![p].edited = FALSE]
    <3> HIDE DEF s1
    <3> QED BY <2>1, <2>2
  <2> QED BY <1>1, <1>3, <2>2 DEF ShapeInv
<1>6. PlanHas(p)' /\ ProcInv(p)'
  <2>1. CASE code = "io"
    <3>1. code \in Codes /\ code # "ok"
      BY <2>1 DEF Codes, Unasked
    <3> QED BY <1>1, <1>2, <1>4, <3>1, EndsWell
  <2>2. CASE code # "io"
    <3>1. DeployGoes(p)'
      BY <1>1, <1>2, <1>4, <1>5, <2>2, SameReading DEF DeployGoes, Fits
    <3> QED BY <1>1, <1>2, <1>4, <2>2, <3>1, DeployGoesOn DEF DeployWay
  <2> QED BY <2>1, <2>2
<1>7. HostsInv'
  BY <1>2 DEF Inv, HostsInv
<1> QED BY <1>1, <1>2, <1>4, <1>5, <1>6, <1>7, DeployAlone DEF ShapeInv

LEMMA ActivateKeeps ==
    ASSUME Inv, NEW p \in Procs, Activate(p), UNCHANGED <<doctor, crowd>>
    PROVE  Inv'
<1> DEFINE h == plan[p].ssh
           s == plan[p].site
           e == [op |-> "deploy", host |-> h, site |-> s, value |-> session[p].last]
<1>1. /\ p \in DOMAIN crowd /\ Dispatch(p) = "ok" /\ Command(p) = "deploy"
      /\ PlanGood(plan[p]) /\ plan[p].ok /\ plan[p].ssh # None
      /\ DeployGoes(p) /\ done[p] = <<>> /\ ShapeInv /\ at[p] = "activate"
  BY DeployIsOnItsWay DEF Activate, DeployWay
<1>2. UNCHANGED <<req, plan, typed, config, json, session, crowd>>
  BY DEF Activate
<1>3. PICK code \in {"io", "record"} :
         /\ Ends(p, code)
         /\ \/ code = "io" /\ UNCHANGED <<done, hosts>>
            \/ hosts' = Deployed(h, s) /\ done' = [done EXCEPT ![p] = Append(@, e)]
  BY DEF Activate
<1>4. Moves(p) /\ at'[p] = code
  BY <1>1, <1>2, <1>3 DEF Ends, Moves, ShapeInv
<1>5. HostsInv'
  <2>1. CASE UNCHANGED hosts
    BY <2>1 DEF Inv, HostsInv
  <2>2. CASE hosts' = Deployed(h, s)
    <3>1. h \in Hosts /\ s \in Sites /\ Slug[s] = s /\ HostsInv
      BY <1>1 DEF PlanGood, Inv
    <3>2. Kept(Deployed(h, s))
      BY <3>1, DeployedKeeps
    <3> QED BY <2>2, <3>2 DEF HostsInv
  <2> QED BY <1>3, <2>1, <2>2
<1>6. DOMAIN done' = Procs /\ \A q \in Procs \ {p} : done'[q] = done[q]
  BY <1>1, <1>3 DEF ShapeInv
<1>7. PlanHas(p)' /\ ProcInv(p)'
  <2>1. CASE code = "io" /\ UNCHANGED done
    <3>1. code \in Codes /\ code # "ok"
      BY <2>1 DEF Codes, Unasked
    <3> QED BY <1>1, <1>2, <1>4, <2>1, <3>1, EndsWell
  <2>2. CASE done' = [done EXCEPT ![p] = Append(@, e)]
    <3>0. PICK d : d = e
      OBVIOUS
    <3>1. done'[p] = <<d>>
      BY <1>1, <1>2, <2>2, <3>0 DEF ShapeInv
    <3>2. Did(p, d)'
      <4>1. d.op = "deploy" /\ d.host = h /\ d.site = s /\ d.value = session[p].last
        BY <3>0
      <4>2. /\ Value(Args(p), "--site") # None => s = Slug[Value(Args(p), "--site")]
            /\ Value(Args(p), "--profile") # None /\ ShellEnv.remote = None =>
                  h = Find(Loaded(config), Value(Args(p), "--profile")).ssh
        BY <1>1 DEF DeployGoes, Fits
      <4>3. d.value # "other" \/ Flag(Args(p), "--yes") \/ typed[p] = s
        BY <1>1, <4>1 DEF DeployGoes
      <4>4. DeployDid(p, d)
        BY <1>1, <4>1, <4>2, <4>3 DEF DeployDid, DeployGoes
      <4>5. DeployDid(p, d)'
        BY <1>2, <4>4, SameReading DEF DeployDid
      <4> QED BY <1>1, <1>2, <4>5, SameReading DEF Did, AdminCommands
    <3>3. Results(p)' /\ done'[p] # <<>>
      BY <1>1, <1>2, <1>4, <3>1, <3>2, SameReading DEF Results
    <3>4. Goes(p)'
      <4>1. DeployGoes(p)'
        BY <1>1, <1>2, <1>4, SameReading DEF DeployGoes, Fits
      <4> QED BY <1>1, <1>2, <4>1, SameReading DEF Goes, AdminCommands
    <3>5. PlanHas(p)'
      BY <1>1, <1>2, <1>4 DEF PlanHas, PlanGood
    <3>6. code \in Codes \cup Ways(Command(p)) /\ code # "ok"
      BY <1>1 DEF Codes, Unasked, Ways, DeployWay, AdminCommands
    <3> HIDE DEF e, h, s
    <3> QED BY <1>1, <1>2, <1>4, <3>3, <3>4, <3>5, <3>6, SameReading DEF ProcInv, Started
  <2> QED BY <1>3, <2>1, <2>2
<1> QED BY <1>1, <1>2, <1>4, <1>5, <1>6, <1>7, DeployAlone DEF ShapeInv

LEMMA RecordSuccessKeeps ==
    ASSUME Inv, NEW p \in Procs, RecordSuccess(p), UNCHANGED <<doctor, crowd>>
    PROVE  Inv'
<1>1. /\ p \in DOMAIN crowd /\ Dispatch(p) = "ok" /\ Command(p) = "deploy"
      /\ PlanGood(plan[p]) /\ Results(p) /\ ShapeInv /\ at[p] = "record"
  BY DeployIsOnItsWay DEF RecordSuccess, DeployWay
<1>2. UNCHANGED <<req, plan, typed, done, hosts, config, json, session, crowd>>
  BY DEF RecordSuccess
<1>3. Moves(p) /\ at'[p] = "ok"
  BY <1>1, <1>2 DEF RecordSuccess, Ends, Moves, ShapeInv
<1>4. PICK d : done[p] = <<d>> /\ Did(p, d)
  BY <1>1 DEF Results
<1>5. Did(p, d)'
  <2>1. DeployDid(p, d)
    BY <1>1, <1>4 DEF Did, AdminCommands
  <2>2. DeployDid(p, d)'
    BY <1>2, <2>1, SameReading DEF DeployDid
  <2> QED BY <1>1, <1>2, <2>2, SameReading DEF Did, AdminCommands
<1>6. Results(p)' /\ done'[p] # <<>>
  BY <1>1, <1>2, <1>3, <1>4, <1>5, SameReading DEF Results
<1>7. Goes(p)' /\ PlanHas(p)' /\ at'[p] \in Codes
  BY <1>1, <1>2, <1>3, SameReading DEF Goes, PlanHas, PlanGood, AdminWay, DeployWay, Codes, AdminCommands
<1>8. ProcInv(p)'
  BY <1>1, <1>2, <1>6, <1>7 DEF ProcInv, Started
<1> QED BY <1>2, <1>3, <1>7, <1>8, Quietly

(***************************************************************************)
(* Everybody else: the editor, quick.json, the doctor; and the invariant.  *)
(***************************************************************************)
\* What changes nothing that the processes' invariants look at.
LEMMA NobodyMoves ==
    ASSUME Inv, DOMAIN session' = Procs,
           \A q \in Procs : DOMAIN session'[q] = {"sent", "edited", "last"}
                            /\ session'[q].last = session[q].last,
           UNCHANGED <<at, req, plan, typed, done, hosts, config, crowd>>, json' \in SiteFile
    PROVE  Inv'
<1>1. ShapeInv'
  BY DEF Inv, ShapeInv, Given
<1>2. HostsInv'
  BY DEF Inv, HostsInv
<1>3. ASSUME NEW q \in Procs PROVE PlanHas(q)' /\ ProcInv(q)'
  <2>1. Same(q)
    BY DEF Same
  <2> QED BY <2>1, SameKeeps DEF Inv
<1> QED BY <1>1, <1>2, <1>3 DEF Inv

LEMMA EditKeeps ==
    ASSUME Inv, Edit, UNCHANGED <<doctor, crowd>>
    PROVE  Inv'
<1>1. /\ UNCHANGED <<at, req, plan, typed, done, hosts, config, json, crowd>>
      /\ ShapeInv
  BY DEF Edit, adminVars, Inv
<1>2. /\ DOMAIN session' = Procs
      /\ \A q \in Procs : /\ DOMAIN session'[q] = {"sent", "edited", "last"}
                          /\ session'[q].last = session[q].last
  BY <1>1, TouchKeeps DEF Edit
<1>3. json' \in SiteFile
  BY <1>1 DEF ShapeInv
<1> QED BY <1>1, <1>2, <1>3, NobodyMoves

LEMMA ReconfigureKeeps == ASSUME Inv, Reconfigure PROVE Inv'
<1>1. /\ UNCHANGED <<at, req, plan, typed, done, hosts, config, session, crowd>>
      /\ ShapeInv /\ json' \in SiteFile
  BY WorldAssumption DEF Reconfigure, deployVars, Inv
<1> QED BY <1>1, NobodyMoves DEF ShapeInv

\* A doctor that goes on, or ends.
LEMMA DoctorGoesOn ==
    ASSUME Inv, NEW p \in Procs, at[p] \in DoctorWay \cup {"doctor"},
           NEW code \in DoctorWay \cup {"closed", "ok", "interrupted"}, Ends(p, code),
           NEW to, PlanGood(to), plan' = plan \/ plan' = [plan EXCEPT ![p] = to],
           UNCHANGED <<othersOfDoctor, crowd>>
    PROVE  Inv'
<1>1. /\ UNCHANGED <<req, typed, done, hosts, config, json, session, crowd>>
      /\ ShapeInv
  BY DEF othersOfDoctor, deployVars, Inv
<1>2. /\ p \in DOMAIN crowd /\ Dispatch(p) = "ok" /\ done[p] = <<>> /\ PlanGood(plan[p])
      /\ Command(p) = "doctor" \/ Command(p) = "menu"
  <2>1. at[p] # "shell" /\ at[p] \notin Codes
    BY DEF DoctorWay, Deep, Stages, Codes, Unasked
  <2>2. p \in DOMAIN crowd /\ Dispatch(p) = "ok" /\ at[p] \in Ways(Command(p)) /\ Results(p)
    BY <2>1 DEF Inv, ProcInv, Started
  <2>3. Command(p) = "doctor" \/ Command(p) = "menu"
    BY <2>2 DEF Ways, AdminWay, DeployWay, DoctorWay, Deep, Stages
  <2>4. done[p] = <<>>
    BY <2>2 DEF Results, DoctorWay, Deep, Stages
  <2> QED BY <2>2, <2>3, <2>4 DEF Inv, PlanHas
<1>3. Moves(p) /\ at'[p] = code /\ PlanGood(plan'[p])
  BY <1>1, <1>2 DEF Ends, Moves, ShapeInv
<1>4. PlanHas(p)' /\ ProcInv(p)'
  <2>1. CASE code \in {"closed", "ok", "interrupted"}
    <3>1. code \in Codes
      BY <2>1 DEF Codes, Unasked
    <3>2. NothingToDo(p)
      BY <1>2 DEF NothingToDo, AdminCommands
    <3> QED BY <1>1, <1>2, <1>3, <3>1, <3>2, EndsWell
  <2>2. CASE code \in DoctorWay
    <3>1. code \notin AdminWay \cup DeployWay \cup {"ok", "record"}
      BY <2>2 DEF DoctorWay, Deep, Stages, AdminWay, DeployWay
    <3>2. PlanHas(p)'
      BY <1>3, <3>1 DEF PlanHas, PlanGood
    <3>3. Goes(p)' /\ Results(p)' /\ code \in Ways(Command(p))
      BY <1>1, <1>2, <1>3, <2>2, <3>1, SameReading DEF Goes, Results, Ways, AdminCommands
    <3> QED BY <1>1, <1>2, <1>3, <3>1, <3>2, <3>3, SameReading DEF ProcInv, Started
  <2> QED BY <2>1, <2>2
<1> QED BY <1>1, <1>3, <1>4, Quietly

LEMMA DoctorKeeps ==
    ASSUME Inv, NEW p \in Procs, DoctorStep(p), UNCHANGED crowd
    PROVE  Inv'
<1> DEFINE Goal == DoctorWay \cup {"closed", "ok", "interrupted"}
<1>1. CASE Cancel(p) \/ HostActivates(p)
  <2>1. /\ UNCHANGED <<at, req, plan, typed, done, hosts, config, json, session, crowd>>
        /\ ShapeInv
    BY <1>1 DEF Cancel, HostActivates, othersOfDoctor, deployVars, Inv
  <2> QED BY <2>1, NobodyMoves DEF ShapeInv
<1>2. ASSUME at[p] \in DoctorWay, UNCHANGED <<plan, othersOfDoctor>>,
             \E code \in Goal : Ends(p, code)
      PROVE  Inv'
  <2>1. PlanGood(plan[p])
    BY DEF Inv, PlanHas
  <2> QED BY <1>2, <2>1, DoctorGoesOn
<1>3. CASE DoctorScreen(p)
  <2>1. at[p] = "doctor" /\ UNCHANGED othersOfDoctor /\ ShapeInv
    BY <1>3 DEF DoctorScreen, Inv
  <2>2. CASE Ends(p, "closed") /\ UNCHANGED <<plan, doctor>>
    <3>1. PlanGood(plan[p])
      BY DEF Inv, PlanHas
    <3> QED BY <2>1, <2>2, <3>1, DoctorGoesOn
  <2>3. ASSUME NEW n \in ScreenProfiles \cup {None}, Ends(p, "checks"),
               plan' = [plan EXCEPT ![p] = DoctorPlan(n, None)]
        PROVE  Inv'
    <3>1. n \in Names \cup {None}
      <4>1. Loaded(config).default \in Names \cup {None}
        <5>1. NoProfiles.default = None
          BY DEF NoProfiles
        <5>2. \A c \in Config : c.default \in Names \cup {None}
          BY DEF Config
        <5> QED BY <2>1, <5>1, <5>2 DEF Loaded, ShapeInv, File
      <4> QED BY <4>1, <2>3, ConfigAssumption DEF ScreenProfiles
    <3> DEFINE to == DoctorPlan(n, None)
    <3>2. PlanGood(to)
      <4>1. to = Resolve([NoOverrides EXCEPT !.profile = n, !.site = None],
                         ShellEnv, json, NoFile, None, Loaded(config))
        BY DEF DoctorPlan
      <4> HIDE DEF to
      <4> QED BY <2>1, <3>1, <4>1, ResolveIsGood DEF ShapeInv
    <3>3. "checks" \in DoctorWay
      BY DEF DoctorWay
    <3> HIDE DEF to
    <3> QED BY <2>1, <2>3, <3>2, <3>3, DoctorGoesOn DEF to
  <2>4. \/ Ends(p, "closed") /\ UNCHANGED <<plan, doctor>>
        \/ \E n \in ScreenProfiles \cup {None} :
              Ends(p, "checks") /\ plan' = [plan EXCEPT ![p] = DoctorPlan(n, None)]
    BY <1>3 DEF DoctorScreen
  <2> QED BY <2>2, <2>3, <2>4
<1>4. CASE LocalChecks(p)
  BY <1>2, <1>4 DEF LocalChecks, DoctorWay
<1>5. CASE RemoteChecks(p)
  BY <1>2, <1>5 DEF RemoteChecks, DoctorWay
<1>6. CASE HttpProbe(p)
  BY <1>2, <1>6 DEF HttpProbe, AfterProbe, DoctorWay
<1>7. CASE DeepLocal(p)
  BY <1>2, <1>7 DEF DeepLocal, Leave, DoctorWay
<1>8. CASE DeepPrepare(p)
  BY <1>2, <1>8 DEF DeepPrepare, Leave, DoctorWay, Deep, Stages
<1>9. CASE DeepTransfer(p)
  BY <1>2, <1>9 DEF DeepTransfer, Leave, DoctorWay, Deep, Stages
<1>10. CASE DeepActivate(p)
  BY <1>2, <1>10 DEF DeepActivate, DoctorWay, Deep, Stages
<1>11. CASE DeepProbe(p)
  BY <1>2, <1>11 DEF DeepProbe, DoctorWay, Deep, Stages
<1>12. CASE DeepDelete(p)
  BY <1>2, <1>12 DEF DeepDelete, Leave, DoctorWay, Deep, Stages
<1> QED BY <1>1, <1>3, <1>4, <1>5, <1>6, <1>7, <1>8, <1>9, <1>10, <1>11, <1>12 DEF DoctorStep

LEMMA InvInit == Init => Inv
<1> SUFFICES ASSUME Init PROVE Inv
  OBVIOUS
<1>1. PICK w \in Worlds : config = w[1] /\ json = w[2] /\ hosts = w[3]
  BY DEF Init
<1>2. ShapeInv
  <2>1. DOMAIN NoSession = {"sent", "edited", "last"}
    BY DEF NoSession
  <2>2. DOMAIN crowd \subseteq Procs /\ \A p \in DOMAIN crowd : Given(p) \in Seq(Sites \cap Names)
    BY CrowdAssumption DEF Init, Given
  <2>3. config \in File /\ json \in SiteFile
    BY <1>1, WorldAssumption
  <2> HIDE DEF NoSession
  <2>4. /\ DOMAIN at = Procs /\ DOMAIN req = Procs /\ DOMAIN plan = Procs
        /\ DOMAIN typed = Procs /\ DOMAIN done = Procs /\ DOMAIN session = Procs
        /\ \A p \in Procs : DOMAIN session[p] = {"sent", "edited", "last"}
    BY <2>1 DEF Init
  <2> QED BY <2>2, <2>3, <2>4 DEF ShapeInv
<1>3. HostsInv
  BY <1>1, WorldAssumption DEF HostsInv, Kept
<1>4. ASSUME NEW p \in Procs PROVE PlanHas(p) /\ ProcInv(p)
  <2>1. at[p] = "shell" /\ plan[p] = NoPlan /\ done[p] = <<>>
    BY DEF Init
  <2>2. ~NoPlan.ok /\ NoPlan.ok \in BOOLEAN
    BY DEF NoPlan
  <2>3. PlanHas(p)
    BY <2>1, <2>2 DEF PlanHas, PlanGood, AdminWay, DeployWay
  <2> QED BY <2>1, <2>3 DEF ProcInv
<1> QED BY <1>2, <1>3, <1>4 DEF Inv

LEMMA InvNext == Inv /\ [Next]_vars => Inv'
<1> SUFFICES ASSUME Inv, [Next]_vars PROVE Inv'
  OBVIOUS
<1>1. ASSUME NEW p \in Procs, DeployStep(p), UNCHANGED <<doctor, crowd>> PROVE Inv'
  BY <1>1, BuildKeeps, PrepareKeeps, AskOverwriteKeeps, TransferKeeps, ActivateKeeps,
     RecordSuccessKeeps DEF DeployStep
<1>2. CASE UNCHANGED vars
  <2>1. /\ UNCHANGED <<at, req, plan, typed, done, hosts, config, json, session, crowd>>
        /\ ShapeInv
    BY <1>2 DEF vars, adminVars, deployVars, Inv
  <2> QED BY <2>1, NobodyMoves DEF ShapeInv
<1>3. CASE Next
  <2>1. CASE Edit /\ UNCHANGED <<doctor, crowd>>
    BY <2>1, EditKeeps
  <2>2. CASE Reconfigure
    BY <2>2, ReconfigureKeeps
  <2>3. ASSUME NEW p \in Procs,
               \/ Start(p)
               \/ AdminStep(p) /\ UNCHANGED <<deployVars, doctor, crowd>>
               \/ DeployStep(p) /\ UNCHANGED <<doctor, crowd>>
               \/ DoctorStep(p) /\ UNCHANGED crowd
        PROVE  Inv'
    BY <1>1, <2>3, StartKeeps, AdminKeeps, DoctorKeeps
  <2> QED BY <1>3, <2>1, <2>2, <2>3 DEF Next
<1> QED BY <1>2, <1>3

(***************************************************************************)
(* Deletes can be undone.                                                  *)
(***************************************************************************)
\* The name of an archive tells its site.
LEMMA NameTellsSite ==
    ASSUME NEW s \in Sites, NEW t \in Sites, NEW m, NEW n, Append(Parts[s], m) = Append(Parts[t], n)
    PROVE  s = t
<1> DEFINE S1 == {Parts[s][i] : i \in DOMAIN Parts[s]}
           S2 == {Parts[t][i] : i \in DOMAIN Parts[t]}
           S == S1 \cup S2 \cup {m, n}
<1>1. Parts[s] \in Seq(S1) /\ Parts[t] \in Seq(S2)
  BY PathAssumption
<1>2. S1 \subseteq S /\ S2 \subseteq S /\ m \in S /\ n \in S
  OBVIOUS
<1> HIDE DEF S1, S2, S
<1>3. Parts[s] \in Seq(S) /\ Parts[t] \in Seq(S)
  BY <1>1, <1>2
<1>4. Parts[s] = Parts[t]
  BY <1>2, <1>3, AppendInjective
<1> QED BY <1>4, PathAssumption

LEMMA UndoableHolds == HostsInv => Undoable
<1> SUFFICES ASSUME HostsInv, NEW h \in Hosts, NEW a \in hosts[h].trash,
                    NEW s \in Sites, Slug[s] = s, NEW root \in {None, Root[h]}
             PROVE  /\ SafeArchive(a.path, root, s) <=> a.site = s
                    /\ a.site = s /\ ~Exists(h, s) => Restore(h, s, a.path) # {}
  BY DEF Undoable, HostsInv, Kept
<1>1. /\ a.site \in Sites /\ Slug[a.site] = a.site /\ a.path \in Archives
      /\ \E n \in DOMAIN Stamps : IsArchive(h, a.site, n, a.path)
  BY DEF HostsInv, Kept, HostKeeps
<1>2. PICK n \in DOMAIN Stamps : PathOf[a.path] = [root |-> Root[h], name |-> Append(Parts[a.site], Stamps[n])]
  BY <1>1 DEF IsArchive
<1>3. PathOf[a.path].root = Root[h] /\ PathOf[a.path].name = Append(Parts[a.site], Stamps[n])
  BY <1>2
<1>4. ASSUME SafeArchive(a.path, root, s) PROVE a.site = s
  <2>1. PICK m \in DOMAIN Stamps : PathOf[a.path].name = Append(Parts[s], Stamps[m])
    BY <1>4 DEF SafeArchive
  <2>2. Append(Parts[s], Stamps[m]) = Append(Parts[a.site], Stamps[n])
    BY <1>3, <2>1
  <2>3. \A t \in Sites : Append(Parts[s], Stamps[m]) = Append(Parts[t], Stamps[n]) => s = t
    BY NameTellsSite
  <2> QED BY <1>1, <2>2, <2>3
<1>5. a.site = s => SafeArchive(a.path, root, s)
  BY <1>1, <1>3 DEF SafeArchive
<1>6. a.site = s /\ ~Exists(h, s) => Restore(h, s, a.path) # {}
  BY DEF Restore
<1> QED BY <1>4, <1>5, <1>6

(***************************************************************************)
(* What the invariant says of a command line that is read at its places.   *)
(***************************************************************************)
\* What the handlers read of an accepted line, and what it means.
LEMMA LineIs ==
    ASSUME ShapeInv, NEW p \in DOMAIN crowd, Command(p) \in DOMAIN Table, Dispatch(p) = "ok",
           Plain(Command(p), Args(p))
    PROVE  /\ \A name \in Table[Command(p)].takes : Line(p).value[name] = Value(Args(p), name)
           /\ \A name \in Options : name \in Line(p).flags <=> Flag(Args(p), name)
           /\ \A n \in Nat \ {0} : (IF n \in DOMAIN Line(p).words THEN Line(p).words[n] ELSE None)
                                     = Word(Table[Command(p)].takes, Args(p), n)
           /\ Line(p).flags \subseteq Table[Command(p)].takes \cup Table[Command(p)].flags
<1> DEFINE c == Command(p)
           args == Args(p)
<1>1. Validate(c, args) = "ok"
  BY DEF Dispatch
<1>2. Len(args) \in Nat /\ DOMAIN args = 1..Len(args)
  <2>1. args \in Seq(Sites \cap Names)
    BY NamesAreTokens
  <2> HIDE DEF args
  <2> QED BY <2>1
<1>3. Line(p).flags \subseteq Table[c].takes \cup Table[c].flags
  <2>1. \A i \in OptionsAt(Walk(Table[c].takes, args), args) : args[i] \in Table[c].takes \cup Table[c].flags
    BY <1>1 DEF Validate
  <2>2. Line(p).flags = {args[i] : i \in OptionsAt(Walk(Table[c].takes, args), args)}
    BY DEF Line, Meant
  <2> QED BY <2>1, <2>2
<1> HIDE DEF c, args
<1>4. Accepted(c, args)
  BY <1>1 DEF Accepted, c, args
<1>5. c \in DOMAIN Table
  BY DEF c
<1>6. /\ \A name \in Table[c].takes : Value(args, name) = Meant(c, args).value[name]
      /\ \A name \in Options : Flag(args, name) <=> name \in Meant(c, args).flags
      /\ \A n \in Nat \ {0} : Word(Table[c].takes, args, n) =
            IF n \in DOMAIN Meant(c, args).words THEN Meant(c, args).words[n] ELSE None
  BY <1>2, <1>4, <1>5, ReadingsAgree
<1>7. Line(p) = Meant(c, args)
  BY DEF Line, c, args
<1>8. /\ \A name \in Table[c].takes : Line(p).value[name] = Value(args, name)
      /\ \A name \in Options : name \in Line(p).flags <=> Flag(args, name)
      /\ \A n \in Nat \ {0} : (IF n \in DOMAIN Line(p).words THEN Line(p).words[n] ELSE None)
                                = Word(Table[c].takes, args, n)
  BY <1>6, <1>7
<1> QED BY <1>3, <1>8 DEF c, args

LEMMA TableIs ==
    /\ AdminCommands \cup {"deploy", "list", "doctor", "menu"} \subseteq DOMAIN Table
    /\ \A c \in AdminCommands \cup {"deploy"} : "--profile" \in Table[c].takes
    /\ "--from" \in Table["restore"].takes /\ "--to" \in Table["rollback"].takes
    /\ "--site" \in Table["domain"].takes /\ "--site" \in Table["deploy"].takes
    /\ \A c \in AdminCommands : "--dry-run" \notin Table[c].takes \cup Table[c].flags
    /\ \A c \in AdminCommands \cup {"deploy"} : "--help" \notin Table[c].takes \cup Table[c].flags
    /\ {"--help", "--dry-run", "--yes"} \subseteq Options
  BY DEF Table, Entry, AdminCommands, Options, OutputFlags

\* What the places of a command line mean is what its handler asks the host for.
LEMMA AskedIsRequested ==
    ASSUME ShapeInv, NEW p \in DOMAIN crowd, Command(p) \in AdminCommands, Dispatch(p) = "ok",
           Plain(Command(p), Args(p)), HandlerRefuses(Command(p), Args(p)) = "none"
    PROVE  LET r == Request(p)
           IN  /\ ~Reads(r.op) => /\ Asked(p).op = r.op /\ Asked(p).value = r.value
                                  /\ Asked(p).site = OwnSite(r)
               /\ Reads(r.op) => Asked(p).op \notin {"delete", "restore", "rollback", "on", "off", "deploy"}
               /\ r.op \in {"delete", "restore", "rollback", "on"} =>
                     r.site # None /\ OwnSite(r) = r.site
               /\ r.op \in {"delete", "restore", "rollback", "on", "off", "domain-add",
                            "domain-remove", "domain-list", "status"}
<1> DEFINE c == Command(p)
           args == Args(p)
           r == Request(p)
           line == Line(p)
           v1 == Word(ValueOptions(c), args, 1)
           v2 == Word(ValueOptions(c), args, 2)
           word(n) == IF n \in DOMAIN line.words THEN line.words[n] ELSE None
<1>1. word(1) = v1 /\ word(2) = v2
  <2>1. c \in DOMAIN Table
    BY TableIs
  <2> QED BY <2>1, LineIs DEF ValueOptions
<1>2. /\ r.site = IF c = "domain" THEN Value(args, "--site") ELSE v1
      /\ c = "delete" => r.value = None
      /\ c = "public" => r.value = None
      /\ c = "restore" => r.value = Value(args, "--from")
      /\ c = "rollback" => r.value = Value(args, "--to")
      /\ c = "domain" => r.value = v2
      /\ c \in {"delete", "restore", "rollback"} => r.op = c
      /\ c = "public" => r.op = IF v2 = None THEN "status" ELSE v2
      /\ c = "domain" => r.op = IF v1 = "add" THEN "domain-add"
                                ELSE IF v1 = "remove" THEN "domain-remove" ELSE "domain-list"
  BY RequestIs DEF Request
<1>3. /\ c = "restore" => line.value["--from"] = Value(args, "--from")
      /\ c = "rollback" => line.value["--to"] = Value(args, "--to")
      /\ c = "domain" => line.value["--site"] = Value(args, "--site")
  BY TableIs, LineIs
<1>4. /\ v1 # None
      /\ c = "public" => v2 \in {None, "on", "off"}
      /\ c = "domain" => v1 \in {"add", "remove", "list"}
  BY DEF HandlerRefuses
<1>5. Asked(p) = CASE c = "delete" -> [op |-> "delete", site |-> word(1), value |-> None]
                   [] c = "restore" -> [op |-> "restore", site |-> word(1), value |-> line.value["--from"]]
                   [] c = "rollback" -> [op |-> "rollback", site |-> word(1), value |-> line.value["--to"]]
                   [] c = "public" -> [op |-> IF word(2) = None THEN "status" ELSE word(2),
                                       site |-> word(1), value |-> None]
                   [] c = "domain" -> [op |-> IF word(1) = "add" THEN "domain-add" ELSE "domain-remove",
                                       site |-> IF word(1) = "add" THEN line.value["--site"] ELSE None,
                                       value |-> word(2)]
                   [] OTHER -> [op |-> c, site |-> line.value["--site"], value |-> None]
  BY DEF Asked
<1> HIDE DEF c, args, r, line, v1, v2, word
<1>6. CASE c \in {"delete", "restore", "rollback"}
  <2>1. Asked(p).op = r.op /\ Asked(p).value = r.value /\ Asked(p).site = r.site
    BY <1>1, <1>2, <1>3, <1>5, <1>6
  <2> QED BY <1>2, <1>4, <1>6, <2>1 DEF OwnSite, Reads, r
<1>7. CASE c = "public"
  <2>1. Asked(p).op = r.op /\ Asked(p).value = r.value /\ Asked(p).site = r.site
    BY <1>1, <1>2, <1>3, <1>5, <1>7
  <2>2. r.op \in {"on", "off", "status"} /\ r.site # None
    BY <1>2, <1>4, <1>7
  <2> QED BY <2>1, <2>2 DEF OwnSite, Reads, r
<1>8. CASE c = "domain"
  <2>1. /\ Asked(p).op = IF v1 = "add" THEN "domain-add" ELSE "domain-remove"
        /\ Asked(p).site = IF v1 = "add" THEN r.site ELSE None
        /\ Asked(p).value = r.value
    BY <1>1, <1>2, <1>3, <1>5, <1>8
  <2> QED BY <1>2, <1>4, <1>8, <2>1 DEF OwnSite, Reads, r
<1> QED BY <1>6, <1>7, <1>8 DEF AdminCommands, c

LEMMA NoHelp ==
    ASSUME ShapeInv, NEW p \in DOMAIN crowd, Command(p) \in AdminCommands \cup {"deploy"}, Dispatch(p) = "ok",
           Plain(Command(p), Args(p)), Command(p) = "deploy" => ~Flag(Args(p), "--dry-run")
    PROVE  {"--help", "--dry-run"} \cap Line(p).flags = {}
<1>1. Command(p) \in DOMAIN Table
  BY TableIs
<1>2. "--help" \notin Line(p).flags
  BY <1>1, TableIs, LineIs
<1>3. "--dry-run" \notin Line(p).flags
  <2>1. CASE Command(p) = "deploy"
    BY <1>1, <2>1, TableIs, LineIs
  <2>2. CASE Command(p) \in AdminCommands
    BY <1>1, <2>2, TableIs, LineIs
  <2> QED BY <2>1, <2>2
<1> QED BY <1>2, <1>3

\* What was done is what was asked.
LEMMA DidAsAsked ==
    ASSUME ShapeInv, NEW p \in DOMAIN crowd, Command(p) \in DOMAIN Table, Command(p) # "menu",
           Plain(Command(p), Args(p)), Dispatch(p) = "ok", NEW e, Did(p, e)
    PROVE  AsAsked(p, e)
<1> DEFINE asked == Asked(p)
           profile == Line(p).value["--profile"]
           r == Request(p)
<1>1. CASE Command(p) \in AdminCommands
  <2>1. AdminDid(p, e)
    BY <1>1 DEF Did, AdminCommands
  <2>2. /\ e.op = r.op /\ e.value = r.value /\ ~Reads(r.op)
        /\ HandlerRefuses(Command(p), Args(p)) = "none"
        /\ OwnSite(r) # None => e.site = Slug[r.site]
        /\ r.profile # None /\ ShellEnv.remote = None => e.host = Find(Loaded(config), r.profile).ssh
        /\ e.op \in {"delete", "restore", "rollback", "on"} => r.yes \/ typed[p] = r.site
    BY <2>1 DEF AdminDid
  <2>3. /\ asked.op = r.op /\ asked.value = r.value /\ asked.site = OwnSite(r)
        /\ r.op \in {"delete", "restore", "rollback", "on"} => r.site # None /\ OwnSite(r) = r.site
        /\ r.op \in {"delete", "restore", "rollback", "on", "off", "domain-add",
                     "domain-remove", "domain-list", "status"}
    BY <1>1, <2>2, AskedIsRequested
  <2>4. OwnSite(r) # None => OwnSite(r) = r.site
    BY DEF OwnSite
  <2>5. r.profile = profile /\ (r.yes <=> "--yes" \in Line(p).flags)
    <3>1. "--profile" \in Table[Command(p)].takes /\ "--yes" \in Options
      BY <1>1, TableIs
    <3>2. profile = Value(Args(p), "--profile") /\ ("--yes" \in Line(p).flags <=> Flag(Args(p), "--yes"))
      BY <3>1, LineIs
    <3>3. r.profile = Value(Args(p), "--profile") /\ (r.yes <=> Flag(Args(p), "--yes"))
      BY <1>1, RequestIs DEF Request
    <3> QED BY <3>2, <3>3
  <2>6. {"--help", "--dry-run"} \cap Line(p).flags = {}
    BY <1>1, NoHelp DEF AdminCommands
  <2>7. NeedsNoWord(e) \/ Agreed(p, IF asked.site = None \/ e.op = "deploy" THEN e.site ELSE asked.site)
    <3> HIDE DEF r, asked
    <3> QED BY <2>2, <2>3, <2>5 DEF NeedsNoWord, Agreed, Reads
  <2> HIDE DEF r
  <2> QED BY <2>2, <2>3, <2>4, <2>5, <2>6, <2>7 DEF AsAsked
<1>2. CASE Command(p) = "deploy"
  <2>1. DeployDid(p, e)
    BY <1>2 DEF Did, AdminCommands
  <2>2. /\ Line(p).value["--site"] = Value(Args(p), "--site")
        /\ profile = Value(Args(p), "--profile")
        /\ "--yes" \in Line(p).flags <=> Flag(Args(p), "--yes")
    BY <1>2, TableIs, LineIs
  <2>3. asked.op = "deploy" /\ asked.site = Value(Args(p), "--site")
    BY <1>2, <2>2 DEF Asked
  <2>4. {"--help", "--dry-run"} \cap Line(p).flags = {}
    BY <1>2, <2>1, NoHelp DEF DeployDid
  <2> HIDE DEF asked, profile
  <2>5. NeedsNoWord(e) \/ Agreed(p, IF asked.site = None \/ e.op = "deploy" THEN e.site ELSE asked.site)
    BY <2>1, <2>2 DEF DeployDid, NeedsNoWord, Agreed
  <2> QED BY <2>1, <2>2, <2>3, <2>4, <2>5 DEF AsAsked, DeployDid, asked, profile
<1>3. Command(p) \in AdminCommands \/ Command(p) = "deploy"
  BY DEF Did
<1> QED BY <1>1, <1>2, <1>3

LEMMA DoneAsAskedHolds == Inv => DoneAsAsked
<1> SUFFICES ASSUME Inv, NEW p \in DOMAIN crowd
             PROVE  IF Command(p) = "menu"
                    THEN \A i \in DOMAIN done[p] : done[p][i].op = "off" \/ typed[p] = done[p][i].site
                    ELSE Command(p) \in DOMAIN Table /\ Plain(Command(p), Args(p)) =>
                            /\ Len(done[p]) <= 1 /\ \A i \in DOMAIN done[p] : AsAsked(p, done[p][i])
                            /\ ReportsTrue(p)
  BY DEF DoneAsAsked
<1>1. ShapeInv /\ p \in Procs /\ ProcInv(p)
  BY DEF Inv, ShapeInv
<1>2. \/ done[p] = <<>>
      \/ /\ at[p] \in {"ok", "io", "record"} /\ Dispatch(p) = "ok"
         /\ \E e : done[p] = <<e>> /\ Did(p, e)
  BY <1>1 DEF ProcInv, Started, Results
<1>3. CASE Command(p) = "menu"
  <2>1. CASE done[p] = <<>>
    BY <1>3, <2>1
  <2>2. ASSUME NEW e, done[p] = <<e>>, Did(p, e)
        PROVE  \A i \in DOMAIN done[p] : done[p][i].op = "off" \/ typed[p] = done[p][i].site
    <3>1. e.op = "off" \/ typed[p] = e.site
      BY <1>3, <2>2 DEF Did, AdminCommands
    <3> QED BY <2>2, <3>1
  <2> QED BY <1>2, <1>3, <2>1, <2>2
<1>4. CASE Command(p) # "menu" /\ Command(p) \in DOMAIN Table /\ Plain(Command(p), Args(p))
  <2>1. Len(done[p]) <= 1 /\ \A i \in DOMAIN done[p] : AsAsked(p, done[p][i])
    <3>1. CASE done[p] = <<>>
      BY <3>1
    <3>2. ASSUME NEW e, done[p] = <<e>>, Did(p, e), Dispatch(p) = "ok"
          PROVE  Len(done[p]) <= 1 /\ \A i \in DOMAIN done[p] : AsAsked(p, done[p][i])
      <4>1. AsAsked(p, e)
        BY <1>1, <1>4, <3>2, DidAsAsked
      <4> QED BY <3>2, <4>1
    <3> QED BY <1>2, <3>1, <3>2
  <2>2. at[p] \in Unasked => done[p] = <<>>
    BY <1>2 DEF Unasked
  <2>3. ASSUME at[p] = "ok", {"--help", "--dry-run"} \cap Line(p).flags = {}, done[p] = <<>>
        PROVE  Asked(p).op \notin {"delete", "restore", "rollback", "on", "off", "deploy"}
    <3>1. Dispatch(p) = "ok" /\ NothingToDo(p)
      BY <1>1, <2>3 DEF ProcInv, Started
    <3>2. CASE Command(p) \in AdminCommands
      <4>1. HandlerRefuses(Command(p), Args(p)) = "none" /\ Reads(Request(p).op)
        BY <3>1, <3>2 DEF NothingToDo, AdminCommands
      <4> QED BY <1>1, <1>4, <3>1, <3>2, <4>1, AskedIsRequested
    <3>3. CASE Command(p) = "deploy"
      <4>1. Flag(Args(p), "--dry-run")
        BY <3>1, <3>3 DEF NothingToDo, AdminCommands
      <4> QED BY <1>1, <1>4, <2>3, <3>1, <3>3, <4>1, TableIs, LineIs
    <3>4. CASE Command(p) \notin AdminCommands \cup {"deploy"}
      <4>1. Asked(p).op = Command(p)
        BY <3>4 DEF Asked, AdminCommands
      <4>2. Command(p) \notin {"delete", "restore", "rollback", "on", "off", "deploy"}
        BY <1>4, <3>4 DEF AdminCommands, Table
      <4> QED BY <4>1, <4>2
    <3> QED BY <3>2, <3>3, <3>4
  <2> QED BY <1>4, <2>1, <2>2, <2>3 DEF ReportsTrue
<1> QED BY <1>3, <1>4

\* What a host carries out for a command is at most one thing, and the one that its line asks
\* for: the operation and its object at their places, on the host of the profile that is
\* named, with --yes or the name that was typed in quick_cmd_prompt_site_confirmation where
\* it is needed; and a process that says ok, or that it refused, says so truly.
THEOREM DoesAsAsked == Spec => []DoneAsAsked
<1>1. Spec => []Inv
  BY InvInit, InvNext, PTL DEF Spec
<1> QED BY <1>1, DoneAsAskedHolds, PTL

\* The archive name that Service.DeleteSite makes is taken by the client's own check,
\* quick_restore_archive_path_is_safe, for its site and for no other, whatever the names.
THEOREM DeletesAreUndoable == Spec => []Undoable
<1>1. Spec => []Inv
  BY InvInit, InvNext, PTL DEF Spec
<1>2. Inv => HostsInv
  BY DEF Inv
<1> QED BY <1>1, <1>2, UndoableHolds, PTL

(***************************************************************************)
(* What a dry run is compared with.                                        *)
(***************************************************************************)
DataInv ==
    /\ DOMAIN tree = {"files", "ignored", "edits"} /\ tree.files \in Listing
    /\ manifest \in [Names -> Listing]
    /\ DOMAIN report = Procs /\ DOMAIN live = Names /\ DOMAIN exact = Names
    /\ \A n \in Names : exact[n] => manifest[n] = live[n].files
    /\ \A p \in Procs :
          /\ at[p] = "activate" /\ ~session[p].edited => session[p].sent = Selected
          /\ at[p] = "record" /\ ~session[p].edited /\ live[plan[p].profile].by = p =>
                live[plan[p].profile].files = Selected

LEMMA SelectedIsAListing == DataInv => Selected \in Listing /\ Nothing \in Listing
  BY DEF DataInv, Selected, Nothing, Listing

\* What leaves the files, the records and the transfers.
LEMMA DataKept ==
    ASSUME DataInv, UNCHANGED <<tree, manifest, live, exact>>, DOMAIN report' = Procs,
           \A q \in Procs : session'[q].sent = session[q].sent /\ session'[q].edited = session[q].edited,
           \A q \in Procs : at'[q] \in {"activate", "record"} => at'[q] = at[q] /\ plan'[q] = plan[q]
    PROVE  DataInv'
<1>1. Selected' = Selected
  BY DEF Selected
<1>2. ASSUME NEW q \in Procs
      PROVE  /\ at'[q] = "activate" /\ ~session'[q].edited => session'[q].sent = Selected'
             /\ at'[q] = "record" /\ ~session'[q].edited /\ live'[plan'[q].profile].by = q =>
                   live'[plan'[q].profile].files = Selected'
  BY <1>1 DEF DataInv
<1> QED BY <1>2 DEF DataInv

\* A step of one process that is not at the end of a deploy.
LEMMA OneKeepsData ==
    ASSUME DataInv, NEW p \in Procs, UNCHANGED <<tree, manifest, session, live, exact>>,
           DOMAIN report' = Procs, \A q \in Procs \ {p} : at'[q] = at[q] /\ plan'[q] = plan[q],
           at'[p] \notin {"activate", "record"}
    PROVE  DataInv'
<1>1. \A q \in Procs : at'[q] \in {"activate", "record"} => at'[q] = at[q] /\ plan'[q] = plan[q]
  OBVIOUS
<1> QED BY <1>1, DataKept

LEMMA OnlyDeploys ==
    ASSUME Inv', NEW p \in Procs, crowd' = crowd, Command(p) # "deploy"
    PROVE  at'[p] \notin {"activate", "record"}
<1> SUFFICES ASSUME at'[p] \in {"activate", "record"} PROVE FALSE
  OBVIOUS
<1>1. at'[p] # "shell" /\ at'[p] \notin Codes
  BY DEF Codes, Unasked
<1>2. (at[p] \in Ways(Command(p)))'
  BY <1>1 DEF Inv, ProcInv, Started
<1>3. Command(p)' = Command(p)
  BY SameReading
<1>4. at'[p] \in Ways(Command(p))
  BY <1>2, <1>3 DEF Ways
<1> QED BY <1>4 DEF Ways, AdminWay, DoctorWay, Deep, Stages

\* The processes that are on their way, and are no deploys.
LEMMA WayTellsCommand ==
    ASSUME Inv, NEW p \in Procs, at[p] \in AdminWay \cup DoctorWay \cup {"sites", "doctor"}
    PROVE  Command(p) # "deploy"
<1>1. at[p] \notin Codes \cup DeployWay /\ at[p] # "shell"
  BY DEF Codes, Unasked, AdminWay, DoctorWay, DeployWay, Deep, Stages
<1>2. at[p] \in Ways(Command(p))
  BY <1>1 DEF Inv, ProcInv, Started
<1> QED BY <1>1, <1>2 DEF Ways, AdminCommands

LEMMA CallMoves ==
    ASSUME ShapeInv, NEW p \in Procs, NEW r, Call(p, r)
    PROVE  \A q \in Procs \ {p} : at'[q] = at[q] /\ plan'[q] = plan[q]
<1>1. PICK to : plan' = [plan EXCEPT ![p] = to]
  BY DEF Call
<1>2. PICK next : at' = [at EXCEPT ![p] = next]
  BY DEF Call
<1> QED BY <1>1, <1>2 DEF ShapeInv

LEMMA EndMoves ==
    ASSUME ShapeInv, NEW p \in Procs, NEW code, Ends(p, code), UNCHANGED plan
    PROVE  \A q \in Procs \ {p} : at'[q] = at[q] /\ plan'[q] = plan[q]
  BY DEF Ends, ShapeInv

LEMMA TouchKeepsData ==
    ASSUME ShapeInv, DataInv, NEW t, t = tree \/ t \in Edited(tree), Touch(t),
           UNCHANGED <<manifest, report, live, exact>>,
           \A q \in Procs : at'[q] \in {"activate", "record"} => at'[q] = at[q] /\ plan'[q] = plan[q]
    PROVE  DataInv'
<1>1. CASE t = tree
  BY <1>1, DataKept DEF Touch, DataInv
<1>2. CASE t # tree
  <2>1. DOMAIN t = {"files", "ignored", "edits"} /\ t.files \in Listing
    <3>1. DOMAIN tree = {"files", "ignored", "edits"} /\ tree.files \in Listing
      BY DEF DataInv
    <3>2. ASSUME NEW f \in Paths, NEW v \in Versions \cup {None}, t = WithFile(tree, f, v)
          PROVE  DOMAIN t = {"files", "ignored", "edits"} /\ t.files \in Listing
      <4>1. DOMAIN t = {"files", "ignored", "edits"} /\ t.files = [tree.files EXCEPT ![f] = v]
        BY <3>1, <3>2 DEF WithFile
      <4> QED BY <3>1, <4>1 DEF Listing
    <3>3. ASSUME NEW f \in Paths, t = WithRule(tree, f)
          PROVE  DOMAIN t = {"files", "ignored", "edits"} /\ t.files = tree.files
      <4> DEFINE x == IF f \in tree.ignored THEN tree.ignored \ {f} ELSE tree.ignored \cup {f}
      <4>1. t = [tree EXCEPT !.ignored = x, !.edits = @ + 1]
        BY <3>3 DEF WithRule
      <4> HIDE DEF x
      <4> QED BY <3>1, <4>1
    <3>4. \/ \E f \in Paths, v \in Versions \cup {None} : t = WithFile(tree, f, v)
          \/ \E f \in Paths : t = WithRule(tree, f)
      BY <1>2 DEF Edited
    <3> QED BY <3>1, <3>2, <3>3, <3>4
  <2>2. tree' = t /\ session' = [p \in Procs |-> [session[p] EXCEPT
                                    !.edited = @ \/ at[p] \in {"activate", "record"}]]
    BY <1>2 DEF Touch
  <2>3. \A q \in Procs : at[q] \in {"activate", "record"} => session'[q].edited
    BY <2>2 DEF ShapeInv
  <2> QED BY <2>1, <2>2, <2>3 DEF DataInv
<1> QED BY <1>1, <1>2

LEMMA BuildKeepsData ==
    ASSUME Inv, DataInv, NEW p \in Procs, Build(p)
    PROVE  DataInv'
<1>1. UNCHANGED <<plan, manifest, report, live, exact>> /\ ShapeInv
  BY DEF Build, Inv
<1>2. PICK code \in {"io", "config", "prepare"} : Ends(p, code)
  BY DEF Build
<1>3. \A q \in Procs : at'[q] \in {"activate", "record"} => at'[q] = at[q] /\ plan'[q] = plan[q]
  BY <1>1, <1>2 DEF Ends, ShapeInv
<1>4. CASE UNCHANGED <<tree, session>>
  BY <1>1, <1>3, <1>4, DataKept DEF DataInv
<1>5. CASE \E t \in {tree} \cup Edited(tree) : Touch(t)
  BY <1>1, <1>3, <1>5, TouchKeepsData
<1> QED BY <1>4, <1>5 DEF Build

LEMMA TransferKeepsData ==
    ASSUME Inv, DataInv, NEW p \in Procs, Transfer(p)
    PROVE  DataInv'
<1>1. UNCHANGED <<plan, tree, manifest, report, live, exact>> /\ ShapeInv
  BY DEF Transfer, Inv
<1>2. Selected' = Selected
  BY <1>1 DEF Selected
<1>3. CASE Ends(p, "io") /\ UNCHANGED session
  <2>1. \A q \in Procs : at'[q] \in {"activate", "record"} => at'[q] = at[q] /\ plan'[q] = plan[q]
    BY <1>1, <1>3 DEF Ends, ShapeInv
  <2> QED BY <1>1, <1>3, <2>1, DataKept DEF DataInv
<1>4. CASE Ends(p, "activate") /\ session' = [session EXCEPT ![p].sent = Selected, ![p].edited = FALSE]
  <2> DEFINE x == Selected
             s1 == [session EXCEPT ![p].sent = x]
  <2>1. DOMAIN s1 = Procs /\ \A q \in Procs \ {p} : s1[q] = session[q]
    BY <1>1 DEF ShapeInv
  <2>2. DOMAIN s1[p] = {"sent", "edited", "last"} /\ s1[p].sent = x
    <3> HIDE DEF x
    <3> QED BY <1>1 DEF ShapeInv
  <2>3. session' = [s1 EXCEPT ![p].edited = FALSE]
    BY <1>4
  <2> HIDE DEF s1, x
  <2>4. session'[p].sent = x /\ \A q \in Procs \ {p} : session'[q] = session[q]
    BY <2>1, <2>2, <2>3
  <2>5. at'[p] = "activate" /\ \A q \in Procs \ {p} : at'[q] = at[q]
    BY <1>1, <1>4 DEF Ends, ShapeInv
  <2>6. ASSUME NEW q \in Procs
        PROVE  /\ at'[q] = "activate" /\ ~session'[q].edited => session'[q].sent = Selected'
               /\ at'[q] = "record" /\ ~session'[q].edited /\ live'[plan'[q].profile].by = q =>
                     live'[plan'[q].profile].files = Selected'
    BY <1>1, <1>2, <2>4, <2>5 DEF DataInv, x
  <2> QED BY <1>1, <2>6 DEF DataInv
<1> QED BY <1>3, <1>4 DEF Transfer

LEMMA ActivateKeepsData ==
    ASSUME Inv, DataInv, NEW p \in Procs, Activate(p)
    PROVE  DataInv'
<1> DEFINE n == plan[p].profile
<1>1. UNCHANGED <<plan, tree, manifest, session, report>> /\ ShapeInv /\ at[p] = "activate"
  BY DEF Activate, Inv
<1>2. Selected' = Selected
  BY <1>1 DEF Selected
<1>3. n \in Names
  BY <1>1, DeployIsOnItsWay DEF DeployWay, PlanGood
<1>4. PICK code \in {"io", "record"} :
         /\ Ends(p, code)
         /\ \/ code = "io" /\ UNCHANGED <<live, exact>>
            \/ /\ live' = [live EXCEPT ![n] = [files |-> session[p].sent, by |-> p]]
               /\ exact' = [exact EXCEPT ![n] = FALSE]
  BY DEF Activate
<1>5. at'[p] = code /\ \A q \in Procs \ {p} : at'[q] = at[q]
  BY <1>1, <1>4 DEF Ends, ShapeInv
<1>6. CASE code = "io" /\ UNCHANGED <<live, exact>>
  <2>1. \A q \in Procs : at'[q] \in {"activate", "record"} => at'[q] = at[q] /\ plan'[q] = plan[q]
    BY <1>1, <1>5, <1>6
  <2> QED BY <1>1, <1>6, <2>1, DataKept DEF DataInv
<1>7. CASE /\ live' = [live EXCEPT ![n] = [files |-> session[p].sent, by |-> p]]
           /\ exact' = [exact EXCEPT ![n] = FALSE]
  <2>1. /\ DOMAIN live' = Names /\ DOMAIN exact' = Names
        /\ live'[n].files = session[p].sent /\ live'[n].by = p /\ ~exact'[n]
        /\ \A m \in Names \ {n} : live'[m] = live[m] /\ exact'[m] = exact[m]
    BY <1>3, <1>7 DEF DataInv
  <2>2. \A m \in Names : exact'[m] => manifest'[m] = live'[m].files
    BY <1>1, <2>1 DEF DataInv
  <2> HIDE DEF n
  <2>3. ASSUME NEW q \in Procs
        PROVE  /\ at'[q] = "activate" /\ ~session'[q].edited => session'[q].sent = Selected'
               /\ at'[q] = "record" /\ ~session'[q].edited /\ live'[plan'[q].profile].by = q =>
                     live'[plan'[q].profile].files = Selected'
    <3>1. CASE q = p
      <4>1. at'[p] # "activate"
        BY <1>4, <1>5
      <4>2. ~session[p].edited => session[p].sent = Selected
        BY <1>1 DEF DataInv
      <4> QED BY <1>1, <1>2, <2>1, <3>1, <4>1, <4>2 DEF n
    <3>2. CASE q # p
      <4>1. at'[q] = at[q]
        BY <1>5, <3>2
      <4>2. at[q] = "record" => plan[q].profile \in Names
        BY <4>1, DeployIsOnItsWay DEF DeployWay, PlanGood
      <4>3. at'[q] = "activate" /\ ~session'[q].edited => session'[q].sent = Selected'
        BY <1>1, <1>2, <4>1 DEF DataInv
      <4>4. CASE at[q] = "record" /\ plan[q].profile = n
        BY <1>1, <2>1, <3>2, <4>1, <4>4
      <4>5. CASE at[q] = "record" /\ plan[q].profile # n
        <5>1. live'[plan'[q].profile] = live[plan[q].profile]
          BY <1>1, <2>1, <4>2, <4>5
        <5> QED BY <1>1, <1>2, <4>1, <4>5, <5>1 DEF DataInv
      <4> QED BY <4>1, <4>3, <4>4, <4>5
    <3> QED BY <3>1, <3>2
  <2> QED BY <1>1, <2>1, <2>2, <2>3 DEF DataInv
<1> QED BY <1>4, <1>6, <1>7

LEMMA RecordSuccessKeepsData ==
    ASSUME Inv, DataInv, NEW p \in Procs, RecordSuccess(p)
    PROVE  DataInv'
<1> DEFINE n == plan[p].profile
<1>1. UNCHANGED <<plan, tree, session, report, live>> /\ ShapeInv /\ at[p] = "record"
  BY DEF RecordSuccess, Inv
<1>2. Selected' = Selected
  BY <1>1 DEF Selected
<1>3. n \in Names
  BY <1>1, DeployIsOnItsWay DEF DeployWay, PlanGood
<1>4. at'[p] = "ok" /\ \A q \in Procs \ {p} : at'[q] = at[q]
  BY <1>1 DEF RecordSuccess, Ends, ShapeInv
<1>5. PICK kept, now :
         /\ kept \in Listing
         /\ manifest' = [manifest EXCEPT ![n] = kept] /\ exact' = [exact EXCEPT ![n] = now]
         /\ now => kept = Selected /\ ~session[p].edited /\ live[n].by = p
  <2>1. CASE /\ manifest' = [manifest EXCEPT ![n] = Selected]
             /\ exact' = [exact EXCEPT ![n] = ~session[p].edited /\ live[n].by = p]
    <3> DEFINE now == ~session[p].edited /\ live[n].by = p
    <3>1. exact' = [exact EXCEPT ![n] = now] /\ (now => ~session[p].edited /\ live[n].by = p)
      BY <2>1
    <3> HIDE DEF now
    <3> QED BY <2>1, <3>1, SelectedIsAListing
  <2>2. CASE /\ \E kept \in {manifest[n], Nothing} : manifest' = [manifest EXCEPT ![n] = kept]
             /\ exact' = [exact EXCEPT ![n] = FALSE]
    <3>1. manifest[n] \in Listing /\ Nothing \in Listing
      BY <1>3, SelectedIsAListing DEF DataInv
    <3> QED BY <2>2, <3>1
  <2> QED BY <2>1, <2>2 DEF RecordSuccess
<1>6. manifest' \in [Names -> Listing]
  BY <1>5 DEF DataInv
<1>7. ASSUME NEW m \in Names, exact'[m] PROVE manifest'[m] = live'[m].files
  <2>1. CASE m = n
    <3>1. manifest'[m] = kept /\ exact'[m] = now
      BY <1>3, <1>5, <2>1 DEF DataInv
    <3> QED BY <1>1, <1>5, <1>7, <2>1, <3>1 DEF DataInv
  <2>2. CASE m # n
    BY <1>1, <1>5, <1>7, <2>2 DEF DataInv
  <2> QED BY <2>1, <2>2
<1>8. DOMAIN exact' = Names
  BY <1>5 DEF DataInv
<1>9. ASSUME NEW q \in Procs
      PROVE  /\ at'[q] = "activate" /\ ~session'[q].edited => session'[q].sent = Selected'
             /\ at'[q] = "record" /\ ~session'[q].edited /\ live'[plan'[q].profile].by = q =>
                   live'[plan'[q].profile].files = Selected'
  BY <1>1, <1>2, <1>4 DEF DataInv
<1> QED BY <1>1, <1>6, <1>7, <1>8, <1>9 DEF DataInv

LEMMA PrepareKeepsData ==
    ASSUME Inv, DataInv, NEW p \in Procs, Prepare(p)
    PROVE  DataInv'
<1>1. UNCHANGED <<plan, tree, manifest, report, live, exact>> /\ ShapeInv
  BY DEF Prepare, Inv
<1>2. PICK code \in {"io", "overwrite", "transfer"} : Ends(p, code)
  BY DEF Prepare
<1>3. \A q \in Procs : at'[q] \in {"activate", "record"} => at'[q] = at[q] /\ plan'[q] = plan[q]
  BY <1>1, <1>2 DEF Ends, ShapeInv
<1>4. PICK last : session' = session \/ session' = [session EXCEPT ![p].last = last]
  BY DEF Prepare
<1>5. \A q \in Procs : session'[q].sent = session[q].sent /\ session'[q].edited = session[q].edited
  <2>1. CASE session' = [session EXCEPT ![p].last = last]
    BY <1>1, <2>1 DEF ShapeInv
  <2> QED BY <1>4, <2>1
<1> QED BY <1>1, <1>3, <1>5, DataKept DEF DataInv

LEMMA AskOverwriteKeepsData ==
    ASSUME Inv, DataInv, NEW p \in Procs, AskOverwrite(p)
    PROVE  DataInv'
<1>1. UNCHANGED <<plan, tree, manifest, session, report, live, exact>> /\ ShapeInv
  BY DEF AskOverwrite, deployVars, Inv
<1>2. PICK code \in {"build", "validation"} : at' = [at EXCEPT ![p] = code]
  BY DEF AskOverwrite, Ends
<1>3. at'[p] \notin {"activate", "record"} /\ \A q \in Procs \ {p} : at'[q] = at[q] /\ plan'[q] = plan[q]
  BY <1>1, <1>2 DEF ShapeInv
<1> QED BY <1>1, <1>3, OneKeepsData DEF DataInv

LEMMA AdminKeepsData ==
    ASSUME Inv, Inv', DataInv, NEW p \in Procs, AdminStep(p), UNCHANGED <<deployVars, crowd>>
    PROVE  DataInv'
<1>1. UNCHANGED <<tree, manifest, session, report, live, exact>> /\ ShapeInv
  BY DEF deployVars, Inv
<1>2. at[p] \in AdminWay \cup {"sites"}
  BY DEF AdminStep, Fetch, Ask, Send, SitesScreen, AdminWay
<1>3. \A q \in Procs \ {p} : at'[q] = at[q] /\ plan'[q] = plan[q]
  <2>1. ASSUME NEW code, Ends(p, code), UNCHANGED plan
        PROVE  \A q \in Procs \ {p} : at'[q] = at[q] /\ plan'[q] = plan[q]
    BY <1>1, <2>1, EndMoves
  <2>2. ASSUME NEW r, Call(p, r)
        PROVE  \A q \in Procs \ {p} : at'[q] = at[q] /\ plan'[q] = plan[q]
    BY <1>1, <2>2, CallMoves
  <2>3. (\E code : Ends(p, code) /\ UNCHANGED plan) \/ (\E r : Call(p, r))
    <3>1. CASE Fetch(p)
      BY <3>1 DEF Fetch
    <3>2. CASE Ask(p)
      BY <3>2 DEF Ask
    <3>3. CASE Send(p)
      BY <3>3 DEF Send
    <3>4. CASE SitesScreen(p)
      BY <3>4 DEF SitesScreen
    <3> QED BY <3>1, <3>2, <3>3, <3>4 DEF AdminStep
  <2> QED BY <2>1, <2>2, <2>3
<1>4. at'[p] \notin {"activate", "record"}
  BY <1>2, WayTellsCommand, OnlyDeploys
<1> QED BY <1>1, <1>3, <1>4, OneKeepsData DEF DataInv

LEMMA DoctorKeepsData ==
    ASSUME Inv, Inv', DataInv, NEW p \in Procs, DoctorStep(p), UNCHANGED crowd
    PROVE  DataInv' /\ report' = report
<1>1. UNCHANGED <<tree, manifest, session, report, live, exact>> /\ ShapeInv
  BY DEF DoctorStep, DoctorScreen, Cancel, LocalChecks, RemoteChecks, HttpProbe, DeepLocal,
         DeepPrepare, DeepTransfer, DeepActivate, HostActivates, DeepProbe, DeepDelete,
         othersOfDoctor, deployVars, Inv
<1>2. CASE Cancel(p) \/ HostActivates(p)
  <2>1. UNCHANGED <<at, plan>>
    BY <1>2 DEF Cancel, HostActivates
  <2> QED BY <1>1, <2>1, DataKept DEF DataInv
<1>3. CASE ~(Cancel(p) \/ HostActivates(p))
  <2>1. at[p] \in DoctorWay \cup {"doctor"}
    BY <1>3 DEF DoctorStep, DoctorScreen, LocalChecks, RemoteChecks, HttpProbe, DeepLocal,
                DeepPrepare, DeepTransfer, DeepActivate, DeepProbe, DeepDelete, DoctorWay, Deep, Stages
  <2>2. /\ \E code : Ends(p, code)
        /\ \E to : plan' = plan \/ plan' = [plan EXCEPT ![p] = to]
    <3>1. CASE DoctorScreen(p)
      BY <3>1 DEF DoctorScreen
    <3>2. CASE LocalChecks(p) \/ RemoteChecks(p) \/ HttpProbe(p)
      BY <3>2 DEF LocalChecks, RemoteChecks, HttpProbe
    <3>3. CASE DeepLocal(p) \/ DeepPrepare(p) \/ DeepTransfer(p)
      BY <3>3 DEF DeepLocal, DeepPrepare, DeepTransfer, Leave
    <3>4. CASE DeepActivate(p) \/ DeepProbe(p) \/ DeepDelete(p)
      BY <3>4 DEF DeepActivate, DeepProbe, DeepDelete, Leave
    <3> QED BY <1>3, <3>1, <3>2, <3>3, <3>4 DEF DoctorStep
  <2>3. \A q \in Procs \ {p} : at'[q] = at[q] /\ plan'[q] = plan[q]
    BY <1>1, <2>2 DEF Ends, ShapeInv
  <2>4. at'[p] \notin {"activate", "record"}
    BY <2>1, WayTellsCommand, OnlyDeploys
  <2> QED BY <1>1, <2>3, <2>4, OneKeepsData DEF DataInv
<1> QED BY <1>2, <1>3

\* what a dry run reports
DryRuns(p) ==
    LET to == DeployPlan(Args(p))
    IN  /\ p \in DOMAIN crowd /\ Dispatch(p) = "ok" /\ Command(p) = "deploy"
        /\ to.ok /\ plan' = [plan EXCEPT ![p] = to]
        /\ report' = [report EXCEPT ![p] = Summary(manifest[to.profile], Selected,
                                                   Flag(Args(p), "--no-delete"))]

LEMMA StartFrame ==
    ASSUME ShapeInv, NEW p \in Procs, Start(p)
    PROVE  /\ UNCHANGED <<tree, manifest, session, live, exact, crowd>>
           /\ report' = report \/ DryRuns(p)
           /\ \A q \in Procs \ {p} : at'[q] = at[q] /\ plan'[q] = plan[q]
           /\ Command(p) = "deploy" => at'[p] \notin {"activate", "record"}
<1>1. UNCHANGED crowd /\ p \in DOMAIN crowd
  BY DEF Start
<1>2. CASE /\ Dispatch(p) # "ok" /\ Ends(p, Dispatch(p))
           /\ UNCHANGED <<req, plan, typed, told, done, hosts, config, json, deployVars, doctor>>
  <2>1. Dispatch(p) \notin {"activate", "record"}
    <3>1. Validate(Command(p), Args(p)) \in {"unknown-option", "missing", "invalid", "ok"}
      BY DEF Validate
    <3> QED BY <3>1 DEF Dispatch
  <2>2. at'[p] = Dispatch(p) /\ \A q \in Procs \ {p} : at'[q] = at[q]
    BY <1>2 DEF Ends, ShapeInv
  <2>3. UNCHANGED <<plan, tree, manifest, session, report, live, exact>>
    BY <1>2 DEF deployVars
  <2> QED BY <1>1, <2>1, <2>2, <2>3
<1>3. CASE Dispatch(p) = "ok" /\ Handler(p)
  <2>1. CASE /\ Command(p) \in AdminCommands
             /\ AdminStart(p, Command(p), Args(p)) /\ UNCHANGED <<deployVars, doctor>>
    <3>1. UNCHANGED <<tree, manifest, session, report, live, exact>>
      BY <2>1 DEF deployVars
    <3>2. (\E code : Ends(p, code) /\ UNCHANGED plan) \/ (\E r : Call(p, r))
      BY <2>1 DEF AdminStart
    <3>3. \A q \in Procs \ {p} : at'[q] = at[q] /\ plan'[q] = plan[q]
      BY <3>2, EndMoves, CallMoves
    <3> QED BY <1>1, <2>1, <3>1, <3>3 DEF AdminCommands
  <2>2. CASE /\ Command(p) = "list"
             /\ ListStart(p, Args(p)) /\ UNCHANGED <<deployVars, doctor>>
    <3>1. UNCHANGED <<plan, tree, manifest, session, report, live, exact>>
      BY <2>2 DEF ListStart, deployVars
    <3>2. \E code : Ends(p, code)
      BY <2>2 DEF ListStart
    <3> QED BY <1>1, <2>2, <3>1, <3>2, EndMoves
  <2>3. CASE /\ Command(p) = "deploy"
             /\ DeployStart(p, Args(p)) /\ UNCHANGED doctor
    <3> DEFINE to == DeployPlan(Args(p))
    <3>1. UNCHANGED <<tree, manifest, session, live, exact>> /\ plan' = [plan EXCEPT ![p] = to]
      BY <2>3 DEF DeployStart
    <3>2. PICK code \in {"config", "ok", "io", "build"} : at' = [at EXCEPT ![p] = code]
      BY <2>3 DEF DeployStart, Ends
    <3>3. report' = report \/ DryRuns(p)
      BY <1>1, <1>3, <2>3, <3>1 DEF DeployStart, DryRuns
    <3> HIDE DEF to
    <3> QED BY <1>1, <3>1, <3>2, <3>3 DEF ShapeInv
  <2>4. CASE /\ Command(p) = "doctor"
             /\ DoctorStart(p, Args(p), Quiet(p))
    <3>1. UNCHANGED <<tree, manifest, session, report, live, exact>>
      BY <2>4 DEF DoctorStart, othersOfDoctor, deployVars
    <3>2. PICK to : plan' = [plan EXCEPT ![p] = to]
      BY <2>4 DEF DoctorStart
    <3>3. PICK code : at' = [at EXCEPT ![p] = code]
      BY <2>4 DEF DoctorStart, Ends
    <3> QED BY <1>1, <2>4, <3>1, <3>2, <3>3 DEF ShapeInv
  <2>5. CASE /\ Command(p) = "menu"
             /\ \E screen \in {"sites", "doctor"} : Ends(p, screen)
             /\ UNCHANGED <<req, plan, typed, told, done, hosts, config, json, deployVars, doctor>>
    <3>1. UNCHANGED <<plan, tree, manifest, session, report, live, exact>>
      BY <2>5 DEF deployVars
    <3>2. \E code : Ends(p, code)
      BY <2>5
    <3> QED BY <1>1, <2>5, <3>1, <3>2, EndMoves
  <2> QED BY <1>3, <2>1, <2>2, <2>3, <2>4, <2>5 DEF Handler
<1> QED BY <1>2, <1>3 DEF Start

LEMMA StartKeepsData ==
    ASSUME Inv, Inv', DataInv, NEW p \in Procs, Start(p)
    PROVE  DataInv'
<1>1. /\ UNCHANGED <<tree, manifest, session, live, exact, crowd>>
      /\ report' = report \/ DryRuns(p)
      /\ \A q \in Procs \ {p} : at'[q] = at[q] /\ plan'[q] = plan[q]
      /\ Command(p) = "deploy" => at'[p] \notin {"activate", "record"}
  BY StartFrame DEF Inv
<1>2. at'[p] \notin {"activate", "record"}
  BY <1>1, OnlyDeploys
<1>3. DOMAIN report' = Procs
  BY <1>1 DEF DataInv, DryRuns
<1> QED BY <1>1, <1>2, <1>3, OneKeepsData

LEMMA EditKeepsData ==
    ASSUME Inv, DataInv, Edit
    PROVE  DataInv'
<1>1. UNCHANGED <<at, plan, manifest, report, live, exact>> /\ ShapeInv
  BY DEF Edit, adminVars, Inv
<1>2. PICK t \in Edited(tree) : Touch(t)
  BY DEF Edit
<1> QED BY <1>1, <1>2, TouchKeepsData

LEMMA DataInit == Init => DataInv
<1> SUFFICES ASSUME Init PROVE DataInv
  OBVIOUS
<1>1. tree = [files |-> Output, ignored |-> {}, edits |-> 0] /\ Output \in Listing
  BY VersionAssumption DEF Init
<1>2. /\ Nothing \in Listing /\ manifest = [n \in Names |-> Nothing]
      /\ live = [n \in Names |-> [files |-> Nothing, by |-> None]]
      /\ exact = [n \in Names |-> TRUE] /\ DOMAIN report = Procs
      /\ \A p \in Procs : at[p] = "shell"
  BY DEF Init, Nothing, Listing
<1> HIDE DEF Nothing
<1>3. manifest \in [Names -> Listing] /\ DOMAIN live = Names /\ DOMAIN exact = Names
      /\ \A n \in Names : manifest[n] = live[n].files
  BY <1>2
<1> QED BY <1>1, <1>2, <1>3 DEF DataInv

LEMMA DataNext == Inv /\ Inv' /\ DataInv /\ [Next]_vars => DataInv'
<1> SUFFICES ASSUME Inv, Inv', DataInv, [Next]_vars PROVE DataInv'
  OBVIOUS
<1>1. CASE UNCHANGED vars
  <2>1. UNCHANGED <<at, plan, tree, manifest, session, report, live, exact>>
    BY <1>1 DEF vars, adminVars, deployVars
  <2> QED BY <2>1, DataKept DEF DataInv
<1>2. CASE Next
  <2>1. CASE Edit
    BY <2>1, EditKeepsData
  <2>2. CASE Reconfigure
    <3>1. UNCHANGED <<at, plan, tree, manifest, session, report, live, exact>>
      BY <2>2 DEF Reconfigure, deployVars
    <3> QED BY <3>1, DataKept DEF DataInv
  <2>3. ASSUME NEW p \in Procs, DeployStep(p) PROVE DataInv'
    BY <2>3, BuildKeepsData, PrepareKeepsData, AskOverwriteKeepsData, TransferKeepsData,
       ActivateKeepsData, RecordSuccessKeepsData DEF DeployStep
  <2>4. ASSUME NEW p \in Procs,
               \/ Start(p)
               \/ AdminStep(p) /\ UNCHANGED <<deployVars, doctor, crowd>>
               \/ DeployStep(p) /\ UNCHANGED <<doctor, crowd>>
               \/ DoctorStep(p) /\ UNCHANGED crowd
        PROVE  DataInv'
    BY <2>3, <2>4, StartKeepsData, AdminKeepsData, DoctorKeepsData
  <2> QED BY <1>2, <2>1, <2>2, <2>4 DEF Next
<1> QED BY <1>1, <1>2

(***************************************************************************)
(* What a dry run reports.                                                 *)
(***************************************************************************)
LEMMA DryRunIsExact ==
    ASSUME Inv, DataInv, NEW p \in Procs, DryRuns(p), exact[plan'[p].profile]
    PROVE  LET was == live[plan'[p].profile].files
               r == report'[p]
           IN  /\ r.added = {f \in Paths : Selected[f] # None /\ was[f] = None}
               /\ r.changed = {f \in Paths : None \notin {Selected[f], was[f]} /\ Selected[f] # was[f]}
               /\ Plain(Command(p), Args(p)) /\ "--no-delete" \notin Line(p).flags =>
                    r.deleted = {f \in Paths : Selected[f] = None /\ was[f] # None}
<1> DEFINE to == DeployPlan(Args(p))
           n == to.profile
           cur == Selected
           old == manifest[n]
           keep == Flag(Args(p), "--no-delete")
           s == Summary(old, cur, keep)
<1>1. /\ p \in DOMAIN crowd /\ Dispatch(p) = "ok" /\ Command(p) = "deploy"
      /\ to.ok /\ plan' = [plan EXCEPT ![p] = to] /\ report' = [report EXCEPT ![p] = s]
      /\ ShapeInv
  BY DEF DryRuns, Inv
<1>2. n \in Names
  <2>1. PlanGood(to)
    BY <1>1, PlansAreGood
  <2> HIDE DEF to
  <2> QED BY <1>1, <2>1 DEF PlanGood
<1>3. plan'[p] = to
  <2> HIDE DEF to
  <2> QED BY <1>1 DEF ShapeInv
<1>4. report'[p] = s
  <2> HIDE DEF s
  <2> QED BY <1>1 DEF DataInv
<1>5. old = live[n].files /\ old \in Listing /\ cur \in Listing
  <2>1. exact[n]
    BY <1>3
  <2> HIDE DEF to
  <2> QED BY <1>2, <2>1, SelectedIsAListing DEF DataInv
<1> HIDE DEF to, cur
<1>6. /\ s.added = {f \in Paths : cur[f] # None /\ old[f] = None}
      /\ s.changed = {f \in Paths : cur[f] # None /\ old[f] # None /\ Differs(old[f], cur[f])}
      /\ s.deleted = IF keep THEN {} ELSE {f \in Paths : cur[f] = None /\ old[f] # None}
  <2> HIDE DEF old, keep
  <2> QED BY DEF Summary
<1> HIDE DEF old, s
<1>7. s.changed = {f \in Paths : None \notin {cur[f], old[f]} /\ cur[f] # old[f]}
  <2>1. ASSUME NEW f \in Paths, cur[f] # None, old[f] # None
        PROVE  Differs(old[f], cur[f]) <=> cur[f] # old[f]
    <3>1. cur[f] \in Versions /\ old[f] \in Versions
      BY <1>5, <2>1 DEF Listing
    <3> QED BY <3>1, VersionAssumption DEF Differs
  <2> QED BY <1>6, <2>1
<1>8. Plain(Command(p), Args(p)) /\ "--no-delete" \notin Line(p).flags => ~keep
  <2>1. Command(p) \in DOMAIN Table /\ "--no-delete" \in Options
    BY <1>1, TableIs DEF Options, OutputFlags, Table, Entry
  <2> QED BY <1>1, <2>1, LineIs
<1> HIDE DEF keep
<1>9. /\ live[plan'[p].profile].files = old /\ report'[p] = s /\ Selected = cur
  BY <1>3, <1>4, <1>5 DEF cur, n
<1> QED BY <1>6, <1>7, <1>8, <1>9

LEMMA OnlyDryRunsReport ==
    ASSUME Inv, Inv', DataInv, [Next]_vars, report' # report
    PROVE  \E p \in Procs : DryRuns(p)
<1>1. report' # report => ~ UNCHANGED vars
  BY DEF vars, deployVars
<1>2. ~(Edit /\ UNCHANGED <<doctor, crowd>>) /\ ~Reconfigure
  BY DEF Edit, Reconfigure, deployVars
<1>3. ASSUME NEW p \in Procs,
             \/ Start(p)
             \/ AdminStep(p) /\ UNCHANGED <<deployVars, doctor, crowd>>
             \/ DeployStep(p) /\ UNCHANGED <<doctor, crowd>>
             \/ DoctorStep(p) /\ UNCHANGED crowd
      PROVE  DryRuns(p)
  <2>1. ~(DoctorStep(p) /\ UNCHANGED crowd)
    BY DoctorKeepsData
  <2>2. ~(AdminStep(p) /\ UNCHANGED <<deployVars, doctor, crowd>>)
    BY DEF deployVars
  <2>3. ~DeployStep(p)
    BY DEF DeployStep, Build, Prepare, AskOverwrite, Transfer, Activate, RecordSuccess, deployVars
  <2> QED BY <1>3, <2>1, <2>2, <2>3, StartFrame DEF Inv
<1> QED BY <1>1, <1>2, <1>3 DEF Next

LEMMA DryRunStep ==
    ASSUME Inv, Inv', DataInv, [Next]_vars, NEW p \in Procs, report'[p] # report[p]
    PROVE  DryRuns(p)
<1>1. PICK q \in Procs : DryRuns(q)
  BY OnlyDryRunsReport
<1>2. DOMAIN report = Procs
  BY DEF DataInv
<1>3. PICK x : report' = [report EXCEPT ![q] = x]
  BY <1>1 DEF DryRuns
<1>4. p = q
  BY <1>2, <1>3
<1> QED BY <1>1, <1>4

\* A dry run (deploy_dry_summary_build) names exactly the files in which the next release
\* differs from the last one of its profile, where deploy_manifest_record_success recorded
\* that one from files that had not changed meanwhile; with --no-delete it names those that
\* are added and changed.
THEOREM DryRunsTell == Spec => DryRunExact
<1>1. Init => Inv /\ DataInv
  BY InvInit, DataInit
<1>2. Inv /\ DataInv /\ [Next]_vars => (Inv /\ DataInv)'
  BY InvNext, DataNext
<1> DEFINE Exact ==
      \A p \in Procs : report'[p] # report[p] =>
          LET was == live[plan'[p].profile].files
              r == report'[p]
          IN  exact[plan'[p].profile] =>
                /\ r.added = {f \in Paths : Selected[f] # None /\ was[f] = None}
                /\ r.changed = {f \in Paths : None \notin {Selected[f], was[f]} /\ Selected[f] # was[f]}
                /\ Plain(Command(p), Args(p)) /\ "--no-delete" \notin Line(p).flags =>
                     r.deleted = {f \in Paths : Selected[f] = None /\ was[f] # None}
<1>3. Inv /\ DataInv /\ [Next]_vars => [Exact]_vars
  <2> SUFFICES ASSUME Inv, DataInv, [Next]_vars PROVE Exact
    OBVIOUS
  <2>1. Inv'
    BY InvNext
  <2>2. ASSUME NEW p \in Procs, report'[p] # report[p], exact[plan'[p].profile]
        PROVE  LET was == live[plan'[p].profile].files
                   r == report'[p]
               IN  /\ r.added = {f \in Paths : Selected[f] # None /\ was[f] = None}
                   /\ r.changed = {f \in Paths : None \notin {Selected[f], was[f]} /\ Selected[f] # was[f]}
                   /\ Plain(Command(p), Args(p)) /\ "--no-delete" \notin Line(p).flags =>
                        r.deleted = {f \in Paths : Selected[f] = None /\ was[f] # None}
    <3>1. DryRuns(p)
      BY <2>1, <2>2, DryRunStep
    <3> QED BY <2>2, <3>1, DryRunIsExact
  <2> QED BY <2>2
<1>4. DryRunExact <=> [][Exact]_vars
  BY DEF DryRunExact
<1> HIDE DEF Exact
<1> QED BY <1>1, <1>2, <1>3, <1>4, PTL DEF Spec
==============================================================================
