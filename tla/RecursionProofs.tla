---------------------------- MODULE RecursionProofs ----------------------------
(***************************************************************************)
(* What the recursive functions of Lists and Sums compute, for every list  *)
(* and every finite set.                                                   *)
(***************************************************************************)
EXTENDS Lists, Sums, FiniteSets, FiniteSetTheorems, SequenceTheorems, WellFoundedInduction, TLAPS

(* Induction over the naturals comes from their least elements.             *)
LEMMA Induction ==
  ASSUME NEW N \in SUBSET Nat, 0 \in N, \A n \in N : n + 1 \in N
  PROVE  N = Nat
<1> SUFFICES ASSUME Nat \ N # {} PROVE FALSE
  OBVIOUS
<1>1. PICK x \in Nat \ N : \A y \in Nat \ N : ~(y < x)
  <2>1. PICK x \in Nat \ N : \A y \in Nat \ N : <<y, x>> \notin OpToRel(<, Nat)
    BY WFMin, NatLessThanWellFounded
  <2> QED BY <2>1 DEF OpToRel
<1>2. x - 1 \in Nat /\ x - 1 \notin Nat \ N
  BY <1>1
<1> QED BY <1>2

-----------------------------------------------------------------------------
(* Filtered lists.                                                          *)

\* f is the function of the definition of Kept, up to n.
IsKept(f, seq, S, n) ==
    f = [i \in 0 .. n |->
            IF i = 0 THEN <<>>
            ELSE IF seq[i] \in S THEN Append(f[i - 1], seq[i]) ELSE f[i - 1]]

LEMMA KeptExists ==
  ASSUME NEW S, NEW seq, NEW n \in Nat
  PROVE  \E f : IsKept(f, seq, S, n)
<1> DEFINE N == {k \in Nat : \E f : IsKept(f, seq, S, k)}
<1>1. 0 \in N
  <2>1. IsKept([i \in 0 .. 0 |-> <<>>], seq, S, 0)
    BY DEF IsKept
  <2> QED BY <2>1
<1>2. ASSUME NEW k \in N PROVE k + 1 \in N
  <2>1. PICK f : IsKept(f, seq, S, k)
    OBVIOUS
  <2> DEFINE last == IF seq[k + 1] \in S THEN Append(f[k], seq[k + 1]) ELSE f[k]
             g == [i \in 0 .. (k + 1) |-> IF i = k + 1 THEN last ELSE f[i]]
  <2>2. /\ DOMAIN g = 0 .. (k + 1) /\ g[k + 1] = last
        /\ \A i \in 0 .. k : g[i] = f[i]
    OBVIOUS
  <2>3. \A i \in 0 .. k :
           f[i] = IF i = 0 THEN <<>>
                  ELSE IF seq[i] \in S THEN Append(f[i - 1], seq[i]) ELSE f[i - 1]
    BY <2>1 DEF IsKept
  <2>4. \A i \in 0 .. (k + 1) :
           g[i] = IF i = 0 THEN <<>>
                  ELSE IF seq[i] \in S THEN Append(g[i - 1], seq[i]) ELSE g[i - 1]
    <3> TAKE i \in 0 .. (k + 1)
    <3>1. CASE i = k + 1
      BY <2>2, <3>1
    <3>2. CASE i # k + 1
      <4>1. i \in 0 .. k /\ (i # 0 => i - 1 \in 0 .. k)
        BY <3>2
      <4> QED BY <2>2, <2>3, <4>1
    <3> QED BY <3>1, <3>2
  <2>5. g = [i \in 0 .. (k + 1) |-> g[i]]
    OBVIOUS
  <2> HIDE DEF g
  <2>6. IsKept(g, seq, S, k + 1)
    BY <2>4, <2>5 DEF IsKept
  <2> QED BY <2>6
<1>3. N = Nat
  BY <1>1, <1>2, Induction
<1> QED BY <1>3

(* A list of members of T, filtered, is a list of members of T and of S; it *)
(* has what the list has of S, and repeats nothing that the list does not.  *)
LEMMA KeptIs ==
  ASSUME NEW S, NEW T, NEW seq \in Seq(T)
  PROVE  /\ Kept(seq, S) \in Seq(T \cap S)
         /\ {Kept(seq, S)[j] : j \in DOMAIN Kept(seq, S)} = {seq[j] : j \in DOMAIN seq} \cap S
         /\ (\A j, k \in DOMAIN seq : seq[j] = seq[k] => j = k) =>
               \A j, k \in DOMAIN Kept(seq, S) : Kept(seq, S)[j] = Kept(seq, S)[k] => j = k
<1> DEFINE f == CHOOSE f : IsKept(f, seq, S, Len(seq))
           Members(s) == {s[j] : j \in DOMAIN s}
           Once(s) == \A j, k \in DOMAIN s : s[j] = s[k] => j = k
           Good(i) == /\ f[i] \in Seq(T \cap S)
                      /\ Members(f[i]) = {seq[j] : j \in 1 .. i} \cap S
                      /\ Once(seq) => Once(f[i])
<1>1. Len(seq) \in Nat /\ DOMAIN seq = 1 .. Len(seq)
  OBVIOUS
<1>2. IsKept(f, seq, S, Len(seq))
  BY <1>1, KeptExists
<1>3. Kept(seq, S) = f[Len(seq)]
  BY DEF Kept, IsKept
<1> HIDE DEF f
<1>4. Good(0)
  <2>1. f[0] = <<>>
    BY <1>1, <1>2 DEF IsKept
  <2> QED BY <2>1
<1>5. ASSUME NEW n \in Nat, n + 1 <= Len(seq), Good(n) PROVE Good(n + 1)
  <2>1. Good(n) /\ n + 1 <= Len(seq)
    BY <1>5
  <2>2. f[n + 1] = IF seq[n + 1] \in S THEN Append(f[n], seq[n + 1]) ELSE f[n]
    <3>1. n + 1 \in 0 .. Len(seq) /\ n + 1 # 0 /\ (n + 1) - 1 = n
      BY <1>1, <2>1
    <3>2. f[n + 1] = IF n + 1 = 0 THEN <<>>
                     ELSE IF seq[n + 1] \in S THEN Append(f[(n + 1) - 1], seq[n + 1])
                     ELSE f[(n + 1) - 1]
      BY <1>2, <3>1 DEF IsKept
    <3> QED BY <3>1, <3>2
  <2>3. seq[n + 1] \in T /\ n + 1 \in DOMAIN seq
    BY <1>1, <1>5
  <2>4. {seq[j] : j \in 1 .. (n + 1)} = {seq[j] : j \in 1 .. n} \cup {seq[n + 1]}
    <3>1. 1 .. (n + 1) = (1 .. n) \cup {n + 1}
      OBVIOUS
    <3> QED BY <3>1
  <2>5. CASE seq[n + 1] \notin S
    <3>1. f[n + 1] = f[n]
      BY <2>2, <2>5
    <3>2. {seq[j] : j \in 1 .. (n + 1)} \cap S = {seq[j] : j \in 1 .. n} \cap S
      BY <2>4, <2>5
    <3> QED BY <2>1, <3>1, <3>2
  <2>6. CASE seq[n + 1] \in S
    <3> DEFINE s == f[n]  x == seq[n + 1]
    <3>1. f[n + 1] = Append(s, x) /\ s \in Seq(T \cap S) /\ x \in T \cap S
      BY <2>1, <2>2, <2>3, <2>6
    <3>2. /\ Len(s) \in Nat /\ DOMAIN s = 1 .. Len(s)
          /\ DOMAIN Append(s, x) = 1 .. (Len(s) + 1)
          /\ Append(s, x)[Len(s) + 1] = x
          /\ \A j \in 1 .. Len(s) : Append(s, x)[j] = s[j]
      BY <3>1
    <3>3. f[n + 1] \in Seq(T \cap S)
      BY <3>1
    <3>4. Members(f[n + 1]) = Members(s) \cup {x}
      <4> DEFINE t == Append(s, x)
      <4>1. /\ DOMAIN t = DOMAIN s \cup {Len(s) + 1} /\ t[Len(s) + 1] = x
            /\ \A j \in DOMAIN s : t[j] = s[j]
        BY <3>2
      <4> HIDE DEF t
      <4>2. {t[j] : j \in DOMAIN t} = {s[j] : j \in DOMAIN s} \cup {x}
        BY <4>1
      <4> QED BY <3>1, <4>2 DEF t
    <3>5. Members(f[n + 1]) = {seq[j] : j \in 1 .. (n + 1)} \cap S
      BY <2>1, <2>4, <2>6, <3>4
    <3>6. ASSUME Once(seq) PROVE Once(f[n + 1])
      <4>1. x \notin Members(s)
        <5>1. \A j \in 1 .. n : j \in DOMAIN seq /\ j # n + 1
          BY <1>1, <1>5
        <5>2. x \notin {seq[j] : j \in 1 .. n}
          BY <2>3, <3>6, <5>1
        <5> QED BY <2>1, <5>2
      <4>2. Once(s)
        BY <2>1, <3>6
      <4> QED BY <3>1, <3>2, <4>1, <4>2
    <3> QED BY <3>3, <3>5, <3>6
  <2> QED BY <2>5, <2>6
<1>6. Good(Len(seq))
  <2> HIDE DEF Good
  <2> DEFINE N == {n \in Nat : n <= Len(seq) => Good(n)}
  <2>1. 0 \in N
    BY <1>4
  <2>2. \A n \in N : n + 1 \in N
    <3> TAKE n \in N
    <3>1. n \in Nat /\ n + 1 \in Nat /\ (n + 1 <= Len(seq) => n <= Len(seq))
      BY <1>1
    <3> QED BY <1>5, <3>1
  <2>3. N = Nat
    <3> HIDE DEF N
    <3>1. N \in SUBSET Nat
      BY DEF N
    <3> QED BY <2>1, <2>2, <3>1, Induction
  <2> QED BY <1>1, <2>3
<1> QED BY <1>1, <1>3, <1>6

-----------------------------------------------------------------------------
(* Sums over finite sets.                                                   *)

\* sum gives the sum of f over each of the sets Sets, all of whose subsets it has.
Step(f, sum, s) ==
    IF s = {} THEN 0
    ELSE LET x == CHOOSE x \in s : TRUE IN f[x] + sum[s \ {x}]
IsSum(f, sum, Sets) == sum = [s \in Sets |-> Step(f, sum, s)]

\* The subsets of a finite set with at most n members.
Small(S, n) == {s \in SUBSET S : Cardinality(s) <= n}

LEMMA SmallerIs ==
  ASSUME NEW S, IsFiniteSet(S), S # {}, NEW x \in S
  PROVE  /\ IsFiniteSet(S \ {x}) /\ Cardinality(S) \in Nat
         /\ Cardinality(S \ {x}) = Cardinality(S) - 1 /\ Cardinality(S) > 0
BY FS_RemoveElement, FS_CardinalityType, FS_EmptySet

LEMMA SumExists ==
  ASSUME NEW f, NEW S, IsFiniteSet(S)
  PROVE  \E sum : IsSum(f, sum, SUBSET S)
<1> DEFINE N == {n \in Nat : \E sum : IsSum(f, sum, Small(S, n))}
<1>0. \A s \in SUBSET S : IsFiniteSet(s) /\ Cardinality(s) \in Nat
  BY FS_Subset, FS_CardinalityType
<1>1. 0 \in N
  <2>1. Small(S, 0) = {{}}
    BY <1>0, FS_EmptySet DEF Small
  <2>2. IsSum(f, [s \in Small(S, 0) |-> 0], Small(S, 0))
    BY <2>1 DEF IsSum, Step
  <2> QED BY <2>2
<1>2. ASSUME NEW n \in N PROVE n + 1 \in N
  <2>1. PICK g : IsSum(f, g, Small(S, n))
    OBVIOUS
  <2> DEFINE h == [s \in Small(S, n + 1) |-> IF s \in Small(S, n) THEN g[s] ELSE Step(f, g, s)]
  <2>2. ASSUME NEW s \in Small(S, n + 1) PROVE h[s] = Step(f, h, s)
    <3>1. CASE s = {}
      <4>1. {} \in Small(S, n)
        BY FS_EmptySet DEF Small
      <4> QED BY <2>1, <3>1, <4>1 DEF IsSum, Step
    <3>2. CASE s # {}
      <4> DEFINE x == CHOOSE x \in s : TRUE
      <4>1. x \in s
        BY <3>2
      <4>2. s \ {x} \in Small(S, n) /\ s \ {x} \in Small(S, n + 1)
        <5>1. Cardinality(s \ {x}) = Cardinality(s) - 1 /\ Cardinality(s) \in Nat
          BY <1>0, <3>2, <4>1, SmallerIs DEF Small
        <5> HIDE DEF x
        <5> QED BY <5>1 DEF Small
      <4>3. h[s \ {x}] = g[s \ {x}]
        BY <4>2
      <4>4. h[s] = Step(f, g, s)
        BY <2>1 DEF IsSum
      <4> HIDE DEF h
      <4> QED BY <3>2, <4>3, <4>4 DEF Step
    <3> QED BY <3>1, <3>2
  <2>3. h = [s \in Small(S, n + 1) |-> h[s]]
    OBVIOUS
  <2> HIDE DEF h
  <2>4. IsSum(f, h, Small(S, n + 1))
    BY <2>2, <2>3 DEF IsSum
  <2> QED BY <2>4
<1>3. N = Nat
  BY <1>1, <1>2, Induction
<1>4. Cardinality(S) \in N
  BY <1>3, FS_CardinalityType
<1>5. Small(S, Cardinality(S)) = SUBSET S
  BY <1>0, FS_Subset, FS_CardinalityType DEF Small
<1> QED BY <1>4, <1>5

(* A sum depends on the members of its set only.                            *)
LEMMA SumsAgree ==
  ASSUME NEW f, NEW g, NEW S, NEW T, NEW sum, NEW other, NEW R, IsFiniteSet(R),
         IsSum(f, sum, SUBSET S), IsSum(g, other, SUBSET T), R \subseteq S, R \subseteq T,
         \A x \in R : f[x] = g[x]
  PROVE  sum[R] = other[R]
<1> DEFINE N == {n \in Nat : \A s \in SUBSET R : Cardinality(s) = n => sum[s] = other[s]}
<1>0. \A s \in SUBSET R : IsFiniteSet(s) /\ Cardinality(s) \in Nat
  BY FS_Subset, FS_CardinalityType
<1>1. \A s \in SUBSET R : sum[s] = Step(f, sum, s) /\ other[s] = Step(g, other, s)
  BY DEF IsSum
<1>2. 0 \in N
  BY <1>0, <1>1, FS_EmptySet DEF Step
<1>3. ASSUME NEW n \in N PROVE n + 1 \in N
  <2> SUFFICES ASSUME NEW s \in SUBSET R, Cardinality(s) = n + 1 PROVE sum[s] = other[s]
    OBVIOUS
  <2> DEFINE x == CHOOSE x \in s : TRUE
  <2>1. s # {} /\ s \in SUBSET R
    BY <1>0, FS_EmptySet
  <2>2. x \in s
    BY <2>1
  <2>3. sum[s] = f[x] + sum[s \ {x}] /\ other[s] = g[x] + other[s \ {x}]
    BY <1>1, <2>1 DEF Step
  <2> HIDE DEF x
  <2>4. IsFiniteSet(s) /\ s \ {x} \in SUBSET R /\ n \in Nat
    BY <1>0
  <2>5. Cardinality(s \ {x}) = n
    <3>1. Cardinality(s \ {x}) = Cardinality(s) - 1
      BY <2>1, <2>2, <2>4, SmallerIs
    <3> QED BY <2>4, <3>1
  <2>6. sum[s \ {x}] = other[s \ {x}]
    BY <2>4, <2>5
  <2>7. f[x] = g[x]
    BY <2>2
  <2> QED BY <2>3, <2>6, <2>7
<1>4. N = Nat
  BY <1>2, <1>3, Induction
<1> QED BY <1>0, <1>4

LEMMA SumIs ==
  ASSUME NEW f, NEW S, IsFiniteSet(S)
  PROVE  \E sum : IsSum(f, sum, SUBSET S) /\ Total(f, S) = sum[S]
<1> DEFINE sum == CHOOSE sum : IsSum(f, sum, SUBSET S)
<1>1. IsSum(f, sum, SUBSET S)
  BY SumExists
<1>2. Total(f, S) = sum[S]
  BY DEF Total, IsSum, Step
<1> QED BY <1>1, <1>2

(* The sum over a set is any member's value and the sum over the rest.      *)
LEMMA SumOfNone ==
  ASSUME NEW f
  PROVE  Total(f, {}) = 0
<1>1. PICK sum : IsSum(f, sum, SUBSET {}) /\ Total(f, {}) = sum[{}]
  BY SumIs, FS_EmptySet
<1> QED BY <1>1 DEF IsSum, Step

LEMMA SumAgrees ==
  ASSUME NEW f, NEW g, NEW S, IsFiniteSet(S), \A x \in S : f[x] = g[x]
  PROVE  Total(f, S) = Total(g, S)
<1>1. PICK sum : IsSum(f, sum, SUBSET S) /\ Total(f, S) = sum[S]
  BY SumIs
<1>2. PICK other : IsSum(g, other, SUBSET S) /\ Total(g, S) = other[S]
  BY SumIs
<1> QED BY <1>1, <1>2, SumsAgree

LEMMA SumStarts ==
  ASSUME NEW f, NEW S, IsFiniteSet(S), S # {}
  PROVE  \E x \in S : Total(f, S) = f[x] + Total(f, S \ {x})
<1>1. PICK sum : IsSum(f, sum, SUBSET S) /\ Total(f, S) = sum[S]
  BY SumIs
<1> DEFINE x == CHOOSE x \in S : TRUE
<1>2. x \in S
  OBVIOUS
<1>3. sum[S] = f[x] + sum[S \ {x}]
  BY <1>1 DEF IsSum, Step
<1>4. IsFiniteSet(S \ {x})
  BY <1>2, SmallerIs
<1>5. PICK other : IsSum(f, other, SUBSET (S \ {x})) /\ Total(f, S \ {x}) = other[S \ {x}]
  BY <1>4, SumIs
<1> HIDE DEF x
<1>6. sum[S \ {x}] = other[S \ {x}]
  <2> DEFINE R == S \ {x}
  <2>1. IsSum(f, sum, SUBSET S) /\ IsSum(f, other, SUBSET R) /\ IsFiniteSet(R)
    BY <1>1, <1>4, <1>5
  <2>2. R \subseteq S /\ R \subseteq R
    OBVIOUS
  <2> HIDE DEF R
  <2>3. sum[R] = other[R]
    BY <2>1, <2>2, SumsAgree
  <2> QED BY <2>3 DEF R
<1> QED BY <1>1, <1>2, <1>3, <1>5, <1>6

LEMMA SumIsInt ==
  ASSUME NEW f, NEW S, IsFiniteSet(S), \A x \in S : f[x] \in Int
  PROVE  Total(f, S) \in Int
<1> DEFINE N == {n \in Nat : \A s \in SUBSET S : Cardinality(s) = n => Total(f, s) \in Int}
<1>0. \A s \in SUBSET S : IsFiniteSet(s) /\ Cardinality(s) \in Nat
  BY FS_Subset, FS_CardinalityType
<1>1. 0 \in N
  BY <1>0, FS_EmptySet, SumOfNone
<1>2. ASSUME NEW n \in N PROVE n + 1 \in N
  <2> SUFFICES ASSUME NEW s \in SUBSET S, Cardinality(s) = n + 1
               PROVE  Total(f, s) \in Int
    OBVIOUS
  <2>1. s # {} /\ IsFiniteSet(s)
    BY <1>0, FS_EmptySet
  <2>2. PICK x \in s : Total(f, s) = f[x] + Total(f, s \ {x})
    BY <2>1, SumStarts
  <2>3. Cardinality(s \ {x}) = n
    BY <2>1, SmallerIs
  <2> QED BY <2>2, <2>3
<1>3. N = Nat
  BY <1>1, <1>2, Induction
<1> QED BY <1>0, <1>3

LEMMA SumSplits ==
  ASSUME NEW f, NEW S, IsFiniteSet(S), \A x \in S : f[x] \in Int, NEW x \in S
  PROVE  Total(f, S) = f[x] + Total(f, S \ {x})
<1> DEFINE N == {n \in Nat : \A s \in SUBSET S : \A y \in s :
                    Cardinality(s) = n =>
                       Total(f, s) = f[y] + Total(f, s \ {y})}
<1>0. \A s \in SUBSET S : IsFiniteSet(s) /\ Cardinality(s) \in Nat /\ Total(f, s) \in Int
  BY FS_Subset, FS_CardinalityType, SumIsInt
<1>1. 0 \in N
  BY <1>0, FS_EmptySet
<1>2. ASSUME NEW n \in N PROVE n + 1 \in N
  <2> SUFFICES ASSUME NEW s \in SUBSET S, NEW y \in s, Cardinality(s) = n + 1
               PROVE  Total(f, s) = f[y] + Total(f, s \ {y})
    OBVIOUS
  <2>1. PICK c \in s : Total(f, s) = f[c] + Total(f, s \ {c})
    BY <1>0, SumStarts
  <2>2. CASE c = y
    BY <2>1, <2>2
  <2>3. CASE c # y
    <3>1. /\ y \in s \ {c} /\ c \in s \ {y}
          /\ Cardinality(s \ {c}) = n /\ Cardinality(s \ {y}) = n
          /\ (s \ {c}) \ {y} = (s \ {y}) \ {c}
      BY <1>0, <2>3, SmallerIs
    <3>2. Total(f, s \ {c}) = f[y] + Total(f, (s \ {c}) \ {y})
      BY <3>1
    <3>3. Total(f, s \ {y}) = f[c] + Total(f, (s \ {y}) \ {c})
      BY <3>1
    <3>4. /\ {f[c], f[y]} \subseteq Int
          /\ Total(f, (s \ {y}) \ {c}) \in Int
      BY <1>0
    <3> QED BY <2>1, <3>1, <3>2, <3>3, <3>4
  <2> QED BY <2>2, <2>3
<1>3. N = Nat
  BY <1>1, <1>2, Induction
<1>4. \A s \in SUBSET S : \A y \in s :
         Total(f, s) = f[y] + Total(f, s \ {y})
  BY <1>0, <1>3
<1> QED BY <1>4

(* A sum does not shrink when no member's value does.                       *)
LEMMA SumGrows ==
  ASSUME NEW f, NEW g, NEW S, IsFiniteSet(S),
         \A x \in S : f[x] \in Int /\ g[x] \in Int /\ f[x] <= g[x]
  PROVE  Total(f, S) <= Total(g, S)
<1> DEFINE N == {n \in Nat : \A s \in SUBSET S : Cardinality(s) = n => Total(f, s) <= Total(g, s)}
<1>0. \A s \in SUBSET S : IsFiniteSet(s) /\ Cardinality(s) \in Nat
  BY FS_Subset, FS_CardinalityType
<1>1. 0 \in N
  <2>1. \A s \in SUBSET S : Cardinality(s) = 0 => Total(f, s) = 0 /\ Total(g, s) = 0
    BY <1>0, FS_EmptySet, SumOfNone
  <2> QED BY <2>1
<1>2. ASSUME NEW n \in N PROVE n + 1 \in N
  <2> SUFFICES ASSUME NEW s \in SUBSET S, Cardinality(s) = n + 1
               PROVE  Total(f, s) <= Total(g, s)
    OBVIOUS
  <2>1. s # {} /\ IsFiniteSet(s)
    BY <1>0, FS_EmptySet
  <2>2. PICK x \in s : TRUE
    BY <2>1
  <2>3. Total(f, s) = f[x] + Total(f, s \ {x}) /\ Total(g, s) = g[x] + Total(g, s \ {x})
    BY <2>1, SumSplits
  <2>4. Cardinality(s \ {x}) = n
    BY <2>1, SmallerIs
  <2>5. Total(f, s \ {x}) <= Total(g, s \ {x})
    BY <2>4
  <2>6. Total(f, s \ {x}) \in Int /\ Total(g, s \ {x}) \in Int /\ f[x] <= g[x]
        /\ f[x] \in Int /\ g[x] \in Int
    BY <1>0, SumIsInt
  <2> QED BY <2>3, <2>5, <2>6
<1>3. N = Nat
  BY <1>1, <1>2, Induction
<1> QED BY <1>0, <1>3

(* What is zero adds nothing.                                               *)
LEMMA SumOfSupport ==
  ASSUME NEW f, NEW S, IsFiniteSet(S), \A x \in S : f[x] \in Int,
         NEW T \in SUBSET S, \A x \in S \ T : f[x] = 0
  PROVE  Total(f, S) = Total(f, T)
<1> DEFINE N == {n \in Nat : \A R \in SUBSET (S \ T) : Cardinality(R) = n => Total(f, T \cup R) = Total(f, T)}
<1>0. \A s \in SUBSET S : IsFiniteSet(s) /\ Cardinality(s) \in Nat
  BY FS_Subset, FS_CardinalityType
<1>1. 0 \in N
  <2>1. \A R \in SUBSET (S \ T) : Cardinality(R) = 0 => T \cup R = T
    BY <1>0, FS_EmptySet
  <2> QED BY <2>1
<1>2. ASSUME NEW n \in N PROVE n + 1 \in N
  <2> SUFFICES ASSUME NEW R \in SUBSET (S \ T), Cardinality(R) = n + 1
               PROVE  Total(f, T \cup R) = Total(f, T)
    OBVIOUS
  <2>1. R # {} /\ IsFiniteSet(R)
    BY <1>0, FS_EmptySet
  <2>2. PICK x \in R : TRUE
    BY <2>1
  <2>3. PICK U : U = T \cup R
    OBVIOUS
  <2>4. x \in U /\ U \in SUBSET S /\ U \ {x} = T \cup (R \ {x}) /\ R \ {x} \in SUBSET (S \ T)
    BY <2>2, <2>3
  <2>5. Total(f, U) = f[x] + Total(f, U \ {x})
    <3>1. IsFiniteSet(U) /\ \A y \in U : f[y] \in Int
      BY <1>0, <2>4
    <3> QED BY <2>4, <3>1, SumSplits
  <2>6. Cardinality(R \ {x}) = n
    BY <2>1, <2>2, SmallerIs
  <2>7. Total(f, U \ {x}) = Total(f, T)
    BY <2>4, <2>6
  <2>8. Total(f, T) \in Int
    BY <1>0, SumIsInt
  <2> QED BY <2>2, <2>3, <2>5, <2>7, <2>8
<1>3. N = Nat
  BY <1>1, <1>2, Induction
<1>4. T \cup (S \ T) = S /\ Cardinality(S \ T) \in Nat
  BY <1>0
<1> QED BY <1>3, <1>4

(* A sum changes by what one member's value changes.                        *)
LEMMA SumChanges ==
  ASSUME NEW f, NEW g, NEW S, IsFiniteSet(S), \A y \in S : f[y] \in Int /\ g[y] \in Int,
         NEW x \in S, \A y \in S \ {x} : f[y] = g[y]
  PROVE  /\ Total(f, S) \in Int
         /\ Total(g, S) = Total(f, S) + (g[x] - f[x])
<1>1. Total(f, S) = f[x] + Total(f, S \ {x})
  BY SumSplits
<1>2. Total(g, S) = g[x] + Total(g, S \ {x})
  BY SumSplits
<1>3. IsFiniteSet(S \ {x})
  BY FS_Subset
<1>4. Total(f, S \ {x}) = Total(g, S \ {x})
  BY <1>3, SumAgrees
<1>5. Total(f, S \ {x}) \in Int
  BY <1>3, SumIsInt
<1> QED BY <1>1, <1>2, <1>4, <1>5

(* Differences of successive members add up to the difference of the ends.  *)
LEMMA SumTelescopes ==
  ASSUME NEW change, NEW level, NEW m \in Nat,
         \A d \in 0 .. m : change[d] \in Int /\ level[d] \in Int,
         \A d \in 1 .. m : change[d] = level[d] - level[d - 1]
  PROVE  Total(change, 1 .. m) = level[m] - level[0]
<1> DEFINE N == {n \in Nat : n <= m => Total(change, 1 .. n) = level[n] - level[0]}
<1>1. 0 \in N
  <2>1. 1 .. 0 = {} /\ level[0] \in Int
    OBVIOUS
  <2> QED BY <2>1, SumOfNone
<1>2. ASSUME NEW n \in N PROVE n + 1 \in N
  <2> SUFFICES ASSUME n + 1 <= m
               PROVE  Total(change, 1 .. (n + 1)) = level[n + 1] - level[0]
    OBVIOUS
  <2>1. n \in Nat /\ n <= m /\ n + 1 <= m
    OBVIOUS
  <2>2. Total(change, 1 .. n) = level[n] - level[0]
    BY <2>1
  <2> HIDE DEF N
  <2>3. PICK S : S = 1 .. (n + 1)
    OBVIOUS
  <2>4. n + 1 \in S /\ S \ {n + 1} = 1 .. n /\ S \subseteq 0 .. m
    BY <2>1, <2>3
  <2>5. IsFiniteSet(S)
    BY <2>1, <2>3, FS_Interval
  <2>6. \A d \in S : change[d] \in Int
    BY <2>4
  <2>7. Total(change, S) = change[n + 1] + Total(change, S \ {n + 1})
    <3>1. \A d \in S : Total(change, S) = change[d] + Total(change, S \ {d})
      BY <2>5, <2>6, SumSplits
    <3> QED BY <2>4, <3>1
  <2>8. change[n + 1] = level[n + 1] - level[n]
    <3>1. n + 1 \in 1 .. m /\ (n + 1) - 1 = n
      BY <2>1
    <3> QED BY <3>1
  <2>9. {level[n + 1], level[n], level[0]} \subseteq Int
    BY <2>1
  <2>10. Total(change, S) = change[n + 1] + (level[n] - level[0])
    BY <2>2, <2>4, <2>7
  <2>11. change[n + 1] + (level[n] - level[0]) = level[n + 1] - level[0]
    BY <2>8, <2>9
  <2> QED BY <2>3, <2>10, <2>11
<1>3. N = Nat
  BY <1>1, <1>2, Induction
<1> QED BY <1>3

(* Sums over two sets with no common member are added.                      *)
LEMMA SumJoins ==
  ASSUME NEW f, NEW S, NEW T, IsFiniteSet(S), IsFiniteSet(T), S \cap T = {},
         \A x \in S \cup T : f[x] \in Int
  PROVE  Total(f, S \cup T) = Total(f, S) + Total(f, T)
<1> DEFINE N == {n \in Nat : \A R \in SUBSET T : Cardinality(R) = n =>
                                Total(f, S \cup R) = Total(f, S) + Total(f, R)}
<1>0. \A R \in SUBSET T : IsFiniteSet(R) /\ Cardinality(R) \in Nat /\ Total(f, R) \in Int
  <2> TAKE R \in SUBSET T
  <2>1. IsFiniteSet(R)
    BY FS_Subset
  <2>2. Total(f, R) \in Int
    BY <2>1, SumIsInt
  <2> QED BY <2>1, <2>2, FS_CardinalityType
<1>1. Total(f, S) \in Int
  BY SumIsInt
<1>2. 0 \in N
  <2>1. \A R \in SUBSET T : Cardinality(R) = 0 => R = {}
    BY <1>0, FS_EmptySet
  <2>2. S \cup {} = S /\ Total(f, {}) = 0
    BY SumOfNone
  <2>3. Total(f, S \cup {}) = Total(f, S) + Total(f, {})
    BY <1>1, <2>2
  <2> QED BY <2>1, <2>3
<1>3. ASSUME NEW n \in N PROVE n + 1 \in N
  <2> SUFFICES ASSUME NEW R \in SUBSET T, Cardinality(R) = n + 1
               PROVE  Total(f, S \cup R) = Total(f, S) + Total(f, R)
    OBVIOUS
  <2>1. R # {} /\ IsFiniteSet(R)
    BY <1>0, FS_EmptySet
  <2>2. PICK x \in R : TRUE
    BY <2>1
  <2>3. PICK U : U = S \cup R
    OBVIOUS
  <2>4. x \in U /\ U \ {x} = S \cup (R \ {x}) /\ R \ {x} \in SUBSET T /\ U \subseteq S \cup T
    BY <2>2, <2>3
  <2>5. IsFiniteSet(U) /\ \A y \in U : f[y] \in Int
    BY <2>1, <2>3, <2>4, FS_Union
  <2>6. Total(f, U) = f[x] + Total(f, U \ {x})
    BY <2>4, <2>5, SumSplits
  <2>7. Total(f, R) = f[x] + Total(f, R \ {x})
    <3>1. \A y \in R : f[y] \in Int
      OBVIOUS
    <3> QED BY <2>1, <2>2, <3>1, SumSplits
  <2>8. Cardinality(R \ {x}) = n
    BY <2>1, <2>2, SmallerIs
  <2>9. Total(f, U \ {x}) = Total(f, S) + Total(f, R \ {x})
    BY <2>4, <2>8
  <2>10. f[x] \in Int /\ Total(f, R \ {x}) \in Int
    BY <1>0, <2>2, <2>4
  <2> QED BY <1>1, <2>3, <2>6, <2>7, <2>9, <2>10
<1>4. N = Nat
  BY <1>2, <1>3, Induction
<1>5. T \in SUBSET T /\ Cardinality(T) \in Nat
  BY <1>0
<1> QED BY <1>4, <1>5

(* A sum stays the same when its members get other names.                   *)
LEMMA SumRenames ==
  ASSUME NEW f, NEW g, NEW S, NEW T, NEW b \in [S -> T], IsFiniteSet(S), IsFiniteSet(T),
         \A x, y \in S : b[x] = b[y] => x = y, \A z \in T : \E x \in S : b[x] = z,
         \A x \in S : g[x] = f[b[x]], \A z \in T : f[z] \in Int
  PROVE  Total(g, S) = Total(f, T)
<1> DEFINE Named(R) == {b[x] : x \in R}
           N == {n \in Nat : \A R \in SUBSET S : Cardinality(R) = n => Total(g, R) = Total(f, Named(R))}
<1>0. \A R \in SUBSET S : IsFiniteSet(R) /\ Cardinality(R) \in Nat /\ (R = {} <=> Cardinality(R) = 0)
  BY FS_Subset, FS_CardinalityType, FS_EmptySet
<1>1. \A R \in SUBSET S : /\ IsFiniteSet(R) /\ Cardinality(R) \in Nat
                          /\ IsFiniteSet(Named(R)) /\ Named(R) \subseteq T
  <2> TAKE R \in SUBSET S
  <2>1. IsFiniteSet(R)
    BY FS_Subset
  <2>2. Named(R) \in SUBSET T
    OBVIOUS
  <2>3. IsFiniteSet(Named(R))
    BY <2>2, FS_Subset
  <2> QED BY <2>1, <2>2, <2>3, FS_CardinalityType
<1>2. 0 \in N
  <2>1. \A R \in SUBSET S : Cardinality(R) = 0 => R = {}
    BY <1>1, FS_EmptySet
  <2>2. Total(f, {}) = 0 /\ Total(g, {}) = 0 /\ Named({}) = {}
    BY SumOfNone
  <2>3. Total(g, {}) = Total(f, Named({}))
    BY <2>2
  <2> QED BY <2>1, <2>3
<1>3. ASSUME NEW n \in N PROVE n + 1 \in N
  <2> SUFFICES ASSUME NEW R \in SUBSET S, Cardinality(R) = n + 1
               PROVE  Total(g, R) = Total(f, Named(R))
    OBVIOUS
  <2>1. R # {} /\ IsFiniteSet(R)
    BY <1>0
  <2>2. PICK x \in R : TRUE
    BY <2>1
  <2>3. PICK z \in T : z = b[x]
    BY <2>2
  <2>4. PICK M : M = Named(R)
    OBVIOUS
  <2>5. z \in M /\ M \ {z} = Named(R \ {x}) /\ IsFiniteSet(M) /\ M \subseteq T
    <3>1. z \in M /\ IsFiniteSet(M) /\ M \subseteq T
      BY <1>1, <2>2, <2>3, <2>4
    <3>2. \A v : v \in M \ {z} <=> \E y \in R : b[y] = v /\ y # x
      <4>1. \A y \in R : b[y] = z => y = x
        BY <2>2, <2>3
      <4>2. \A v : v \in M <=> \E y \in R : b[y] = v
        BY <2>4
      <4> QED BY <2>3, <4>1, <4>2
    <3>3. M \ {z} = Named(R \ {x})
      BY <3>2
    <3> QED BY <3>1, <3>3
  <2>6. Total(f, M) = f[z] + Total(f, M \ {z})
    <3>1. \A y \in M : f[y] \in Int
      BY <2>5
    <3> QED BY <2>5, <3>1, SumSplits
  <2>7. Total(g, R) = g[x] + Total(g, R \ {x})
    <3>1. \A y \in R : g[y] \in Int
      OBVIOUS
    <3> QED BY <2>1, <2>2, <3>1, SumSplits
  <2>8. Cardinality(R \ {x}) = n /\ R \ {x} \in SUBSET S
    <3>1. Cardinality(R \ {x}) = Cardinality(R) - 1
      BY <2>1, <2>2, SmallerIs
    <3> QED BY <3>1
  <2>9. Total(g, R \ {x}) = Total(f, M \ {z})
    BY <2>5, <2>8
  <2> QED BY <2>2, <2>3, <2>4, <2>6, <2>7, <2>9
<1>4. N = Nat
  BY <1>2, <1>3, Induction
<1>5. S \in SUBSET S /\ Cardinality(S) \in Nat /\ Named(S) = T
  BY <1>1
<1> QED BY <1>4, <1>5
=============================================================================
