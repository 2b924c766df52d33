---------------------------- MODULE OutputProofs ----------------------------
(***************************************************************************)
(* What is made of the packets of powstream, and of the answers of servers, *)
(* is what was measured and answered, however many there are.              *)
(***************************************************************************)
EXTENDS LibraryProofs

\* What is chosen of a sequence is chosen one by one.
LEMMA ChosenIs ==
    ASSUME NEW seq, NEW positions, seq \in Seq(Output!ToSet(seq))
    PROVE  \E f : /\ Output!Chosen(seq, positions) = f[Len(seq)] /\ f[0] = <<>>
                  /\ \A n \in 1 .. Len(seq) :
                        f[n] = IF n \in positions THEN Append(f[n - 1], seq[n]) ELSE f[n - 1]
  <1> DEFINE N == Len(seq)
             W == {seq[k] : k \in positions \cap DOMAIN seq}
             V == Seq(W)
             Next(n, x) == IF n \in positions THEN Append(x, seq[n]) ELSE x
             step == [n \in 1 .. N |-> [x \in V |-> Next(n, x)]]
             Is(f) == f = [n \in 0 .. N |-> IF n = 0 THEN <<>> ELSE Next(n, f[n - 1])]
             chosen == CHOOSE f : Is(f)
  <1>1. N \in Nat /\ DOMAIN seq = 1 .. N
    BY LenProperties
  <1>2. \A n \in 1 .. N, x \in V : Next(n, x) \in V
    <2> TAKE n \in 1 .. N, x \in V
    <2>1. CASE n \in positions
      <3>1. seq[n] \in W
        BY <1>1, <2>1
      <3> HIDE DEF W
      <3>2. QED
        BY <2>1, <3>1, AppendProperties
    <2>2. CASE n \notin positions
      BY <2>2
    <2>3. QED
      BY <2>1, <2>2
  <1>3. <<>> \in V
    OBVIOUS
  <1> HIDE DEF N, V, Next
  <1>4. Within(N, V, step) /\ \A n \in 1 .. N, x \in V : step[n][x] = Next(n, x)
    BY <1>2 DEF Within
  <1> HIDE DEF step
  <1>5. PICK f : Recurs(N, V, <<>>, step, f)
    BY <1>1, <1>3, <1>4, Recursion
  <1>6. Is(f)
    <2>1. f \in [0 .. N -> V] /\ f[0] = <<>> /\ \A n \in 1 .. N : f[n] = step[n][f[n - 1]]
      BY <1>5 DEF Recurs
    <2>2. \A n \in 1 .. N : f[n - 1] \in V
      BY <1>1, <2>1
    <2>3. \A n \in 1 .. N : f[n] = Next(n, f[n - 1])
      BY <1>4, <2>1, <2>2
    <2>4. f = [n \in 0 .. N |-> f[n]]
      BY <2>1
    <2>5. \A n \in 0 .. N : f[n] = IF n = 0 THEN <<>> ELSE Next(n, f[n - 1])
      BY <1>1, <2>1, <2>3
    <2>6. QED
      BY <2>4, <2>5, Zenon
  <1>7. Is(chosen)
    <2> HIDE DEF Is
    <2>1. QED
      BY <1>6, Zenon
  <1>8. Output!Chosen(seq, positions) = chosen[N]
    BY Zenon DEF Output!Chosen, N, Next
  <1> HIDE DEF chosen
  <1>9. chosen[0] = <<>> /\ \A n \in 1 .. N : chosen[n] = Next(n, chosen[n - 1])
    <2>1. \A n \in 0 .. N : chosen[n] = IF n = 0 THEN <<>> ELSE Next(n, chosen[n - 1])
      BY <1>7, Zenon
    <2>2. 0 \in 0 .. N /\ \A n \in 1 .. N : n \in 0 .. N /\ n # 0
      BY <1>1
    <2>3. QED
      BY <2>1, <2>2
  <1>10. QED
    <2> HIDE DEF V, W
    <2>1. QED
      BY <1>8, <1>9 DEF N, Next

\* It is of the sequence, at those positions.
LEMMA ChosenOf ==
    ASSUME NEW seq, NEW positions, seq \in Seq(Output!ToSet(seq))
    PROVE  Output!Chosen(seq, positions) \in Seq({seq[k] : k \in positions \cap DOMAIN seq})
  <1> DEFINE N == Len(seq)
             W == {seq[k] : k \in positions \cap DOMAIN seq}
  <1>1. N \in Nat /\ DOMAIN seq = 1 .. N
    BY LenProperties
  <1>2. PICK f : /\ Output!Chosen(seq, positions) = f[N] /\ f[0] = <<>>
                 /\ \A n \in 1 .. N :
                       f[n] = IF n \in positions THEN Append(f[n - 1], seq[n]) ELSE f[n - 1]
    BY ChosenIs
  <1> DEFINE Holds == {n \in 0 .. N : f[n] \in Seq(W)}
  <1>3. 0 \in Holds
    <2>1. f[0] = <<>> /\ <<>> \in Seq(W) /\ 0 \in 0 .. N
      BY <1>1, <1>2, EmptySeq
    <2> HIDE DEF W, N
    <2>2. QED
      BY <2>1, Zenon
  <1>4. ASSUME NEW n \in 0 .. N - 1, n \in Holds PROVE n + 1 \in Holds
    <2>1. n + 1 \in 1 .. N /\ (n + 1) - 1 = n /\ n + 1 \in 0 .. N /\ f[n] \in Seq(W)
      BY <1>1, <1>4
    <2>2. CASE n + 1 \in positions
      <3>1. seq[n + 1] \in W
        BY <1>1, <2>1, <2>2
      <3> HIDE DEF W
      <3>2. f[n + 1] = Append(f[n], seq[n + 1])
        BY <1>2, <2>1, <2>2, Zenon
      <3>3. Append(f[n], seq[n + 1]) \in Seq(W)
        BY <2>1, <3>1, AppendProperties
      <3>4. QED
        BY <2>1, <3>2, <3>3, Zenon
    <2>3. CASE n + 1 \notin positions
      BY <1>2, <2>1, <2>3
    <2>4. QED
      BY <2>2, <2>3
  <1>5. 0 .. N \subseteq Holds
    <2> HIDE DEF Holds
    <2>1. QED
      BY <1>1, <1>3, <1>4, Inductive, Zenon
  <1>6. f[N] \in Seq(W)
    <2>1. N \in Holds
      <3> HIDE DEF Holds, N
      <3>1. QED
        BY <1>1, <1>5
    <2>2. QED
      BY <2>1
  <1>7. QED
    BY <1>2, <1>6, Zenon

LEMMA SameCount ==
    \A S : Output!Cardinality(S) = Cardinality(S)
  BY Zenon DEF Output!Cardinality, Cardinality, Output!IsFiniteSet, IsFiniteSet

\* Each value is counted once.
LEMMA CountsAll ==
    ASSUME NEW c, NEW n \in Nat, DOMAIN c = 1 .. n
    PROVE  Output!Counted(Output!Counts(c)) = n
  <1>1. Output!Counts(c) = Archive!Histogram(c, {})
    <2>1. Output!Counts(c)
            = [x \in Output!ToSet(c) |-> Output!Cardinality({i \in DOMAIN c : c[i] = x})]
      BY Zenon DEF Output!Counts
    <2>2. Archive!Histogram(c, {})
            = [x \in Archive!ToSet(c) \ {} |-> Archive!Cardinality({i \in DOMAIN c : c[i] = x})]
      BY Zenon DEF Archive!Histogram
    <2>3. Archive!ToSet(c) \ {} = Output!ToSet(c)
      BY DEF Archive!ToSet, Output!ToSet
    <2>4. QED
      BY <2>1, <2>2, <2>3, SameCount, SameCardinality, Zenon
  <1>2. \A h : Output!Counted(h) = Archive!Counted(h)
    BY Zenon DEF Output!Counted, Archive!Counted, Output!Cardinality, Archive!Cardinality,
                 Output!IsFiniteSet, Archive!IsFiniteSet
  <1>3. {i \in DOMAIN c : c[i] \notin {}} = 1 .. n
    OBVIOUS
  <1>4. Archive!Counted(Archive!Histogram(c, {})) = Cardinality(1 .. n)
    BY <1>3, HistogramCounts
  <1>5. QED
    BY <1>1, <1>2, <1>4, FS_Interval

\* Numbers in their order.
LEMMA AscendingOf ==
    ASSUME NEW S, S \subseteq Int, IsFiniteSet(S)
    PROVE  LET b == Output!Ascending(S)
               N == Cardinality(S)
           IN  /\ N \in Nat /\ b \in [1 .. N -> S] /\ Len(b) = N
               /\ \A i, j \in 1 .. N : i < j => b[i] < b[j]
               /\ \A x \in S : \E i \in 1 .. N : b[i] = x
  <1> DEFINE b == Output!Ascending(S)
             N == Cardinality(S)
             Upto(x) == {y \in S : y <= x}
             rank == [x \in S |-> Cardinality(Upto(x))]
  <1>1. \A x : IsFiniteSet(Upto(x)) /\ Cardinality(Upto(x)) \in Nat /\ Cardinality(Upto(x)) <= N
    <2> TAKE x
    <2>1. Upto(x) \in SUBSET S
      OBVIOUS
    <2> HIDE DEF Upto
    <2>2. QED
      BY <2>1, FS_Subset, FS_CardinalityType
  <1>2. N \in Nat
    BY FS_CardinalityType
  <1>3. ASSUME NEW x \in S PROVE Cardinality(Upto(x)) \in 1 .. N
    <2>1. x \in Upto(x)
      OBVIOUS
    <2> HIDE DEF Upto
    <2>2. Cardinality(Upto(x)) # 0
      BY <1>1, <2>1, FS_EmptySet
    <2>3. QED
      BY <1>1, <1>2, <2>2
  <1>4. ASSUME NEW x \in S, NEW y \in S, x < y PROVE rank[x] < rank[y]
    <2>1. Upto(x) \cup {y} \in SUBSET Upto(y) /\ y \notin Upto(x)
      <3>1. \A z \in S : z \in Int
        OBVIOUS
      <3>2. \A z \in S : z <= x => z <= y
        BY <1>4, <3>1
      <3>3. y <= y /\ ~(y <= x)
        BY <1>4, <3>1
      <3>4. QED
        BY <3>2, <3>3, Zenon
    <2> HIDE DEF Upto
    <2>2. IsFiniteSet(Upto(x) \cup {y}) /\ Cardinality(Upto(x) \cup {y}) = Cardinality(Upto(x)) + 1
      BY <1>1, <2>1, FS_AddElement
    <2>3. Cardinality(Upto(x) \cup {y}) <= Cardinality(Upto(y))
      BY <1>1, <2>1, FS_Subset
    <2>4. QED
      BY <1>1, <2>2, <2>3
  <1>5. rank \in [S -> 1 .. N]
    BY <1>3
  <1>6. rank \in Injection(S, 1 .. N)
    <2>1. \A x, y \in S : rank[x] = rank[y] => x = y
      <3> TAKE x \in S, y \in S
      <3>1. x \in Int /\ y \in Int /\ rank[x] \in Int /\ rank[y] \in Int
        BY <1>2, <1>5
      <3> HIDE DEF rank
      <3>2. QED
        BY <1>4, <3>1
    <2> HIDE DEF rank
    <2>2. QED
      BY <1>5, <2>1 DEF Injection, IsInjective
  <1>7. rank \in Surjection(S, 1 .. N)
    <2>1. IsFiniteSet(1 .. N) /\ Cardinality(1 .. N) = N
      BY <1>2, FS_Interval
    <2> HIDE DEF rank
    <2>2. QED
      BY <1>6, <2>1, FS_Injection
  <1>8. ASSUME NEW n \in 1 .. N PROVE b[n] \in S /\ rank[b[n]] = n
    <2>1. PICK x \in S : rank[x] = n
      <3> HIDE DEF rank
      <3>1. QED
        BY <1>7 DEF Surjection
    <2>2. Cardinality(Upto(x)) = n
      BY <2>1
    <2>3. b[n] = CHOOSE y \in S : Cardinality(Upto(y)) = n
      <3>1. b = [m \in 1 .. Output!Cardinality(S) |->
                    CHOOSE y \in S : Output!Cardinality({z \in S : z <= y}) = m]
        BY Zenon DEF Output!Ascending
      <3>2. QED
        BY <3>1, SameCount, Zenon
    <2> HIDE DEF Upto, b
    <2>4. b[n] \in S /\ Cardinality(Upto(b[n])) = n
      BY <2>2, <2>3
    <2>5. QED
      BY <2>4
  <1>9. DOMAIN b = 1 .. N /\ b = [n \in 1 .. N |-> b[n]]
    <2>1. b = [m \in 1 .. Output!Cardinality(S) |->
                    CHOOSE y \in S : Output!Cardinality({z \in S : z <= y}) = m]
      BY Zenon DEF Output!Ascending
    <2>2. QED
      BY <2>1, SameCount, Zenon
  <1> HIDE DEF b, rank, N
  <1>10. b \in [1 .. N -> S]
    BY <1>8, <1>9
  <1>11. ASSUME NEW i \in 1 .. N, NEW j \in 1 .. N, i < j PROVE b[i] < b[j]
    <2>1. b[i] \in Int /\ b[j] \in Int /\ b[i] \in S /\ b[j] \in S /\ rank[b[i]] = i /\ rank[b[j]] = j
      BY <1>8, Zenon
    <2>2. i \in Int /\ j \in Int
      BY <1>2
    <2>3. ~(b[j] < b[i])
      BY <1>4, <1>11, <2>1, <2>2
    <2>4. b[i] # b[j]
      BY <1>11, <2>1, <2>2
    <2>5. QED
      BY <2>1, <2>3, <2>4
  <1>12. ASSUME NEW x \in S PROVE \E i \in 1 .. N : b[i] = x
    <2>1. rank[x] \in 1 .. N
      BY <1>5
    <2>2. b[rank[x]] \in S /\ rank[b[rank[x]]] = rank[x]
      BY <1>8, <2>1
    <2>3. QED
      BY <1>6, <2>1, <2>2, Zenon DEF Injection, IsInjective
  <1>13. Len(b) = N
    BY <1>2, <1>9
  <1>14. QED
    BY <1>2, <1>10, <1>11, <1>12, <1>13 DEF b, N

\* How many values are no more than x, and how many are less.
Upto(v, x) == Cardinality({i \in DOMAIN v : v[i] <= x})
Below(v, x) == Cardinality({i \in DOMAIN v : v[i] < x})

LEMMA HowMany ==
    ASSUME NEW v, NEW n \in Nat, v \in [1 .. n -> Int]
    PROVE  /\ \A x : Upto(v, x) \in 0 .. n /\ Below(v, x) \in 0 .. n
           /\ \A x, y \in Int : x < y => Upto(v, x) <= Below(v, y)
           /\ \A x \in Int : Upto(v, x) = Below(v, x) + Cardinality({i \in DOMAIN v : v[i] = x})
  <1>1. \A P \in SUBSET (1 .. n) : IsFiniteSet(P) /\ Cardinality(P) \in 0 .. n
    <2>1. IsFiniteSet(1 .. n) /\ Cardinality(1 .. n) = n
      BY FS_Interval
    <2> TAKE P \in SUBSET (1 .. n)
    <2>2. IsFiniteSet(P) /\ Cardinality(P) <= Cardinality(1 .. n)
      BY <2>1, FS_Subset, Zenon
    <2>3. Cardinality(P) \in Nat
      BY <2>2, FS_CardinalityType
    <2>4. QED
      BY <2>1, <2>2, <2>3
  <1> DEFINE Most(x) == {i \in DOMAIN v : v[i] <= x}
             Less(x) == {i \in DOMAIN v : v[i] < x}
             Same(x) == {i \in DOMAIN v : v[i] = x}
  <1>2. \A x : Most(x) \in SUBSET (1 .. n) /\ Less(x) \in SUBSET (1 .. n) /\ Same(x) \in SUBSET (1 .. n)
    OBVIOUS
  <1>3. \A x, y \in Int : x < y => Most(x) \subseteq Less(y)
    OBVIOUS
  <1>4. \A x \in Int : Most(x) = Less(x) \cup Same(x) /\ Less(x) \cap Same(x) = {}
    OBVIOUS
  <1>5. \A x : Upto(v, x) = Cardinality(Most(x)) /\ Below(v, x) = Cardinality(Less(x))
    BY DEF Upto, Below
  <1> HIDE DEF Most, Less
  <1>6. \A x : Upto(v, x) \in 0 .. n /\ Below(v, x) \in 0 .. n
    BY <1>1, <1>2, <1>5
  <1>7. ASSUME NEW x \in Int, NEW y \in Int, x < y PROVE Upto(v, x) <= Below(v, y)
    <2>1. IsFiniteSet(Less(y)) /\ Most(x) \in SUBSET Less(y)
      BY <1>1, <1>2, <1>3, <1>7
    <2>2. Cardinality(Most(x)) <= Cardinality(Less(y))
      BY <2>1, FS_Subset
    <2>3. QED
      BY <1>5, <2>2
  <1>8. ASSUME NEW x \in Int PROVE Upto(v, x) = Below(v, x) + Cardinality(Same(x))
    <2> HIDE DEF Same
    <2>1. IsFiniteSet(Less(x)) /\ IsFiniteSet(Same(x))
      BY <1>1, <1>2
    <2>2. Cardinality(Less(x) \cup Same(x))
            = Cardinality(Less(x)) + Cardinality(Same(x)) - Cardinality(Less(x) \cap Same(x))
      BY <2>1, FS_Union
    <2>3. Cardinality(Less(x)) \in Nat /\ Cardinality(Same(x)) \in Nat
      BY <1>1, <1>2
    <2>4. Cardinality(Less(x) \cap Same(x)) = 0
      BY <1>4, FS_EmptySet
    <2>5. Cardinality(Most(x)) = Cardinality(Less(x) \cup Same(x))
      BY <1>4, Zenon
    <2> DEFINE less == Cardinality(Less(x))
               same == Cardinality(Same(x))
    <2>6. less \in Nat /\ same \in Nat /\ Cardinality(Most(x)) = less + same - 0
      BY <2>2, <2>3, <2>4, <2>5
    <2>7. Upto(v, x) = Cardinality(Most(x)) /\ Below(v, x) = less
      BY <1>5
    <2> HIDE DEF less, same
    <2>8. Upto(v, x) = Below(v, x) + same
      BY <2>6, <2>7
    <2>9. QED
      BY <2>8 DEF same
  <1>9. QED
    BY <1>6, <1>7, <1>8

\* There is one that is the kth.
LEMMA RankedIs ==
    ASSUME NEW v, NEW n \in Nat, v \in [1 .. n -> Int], NEW x \in Output!ToSet(v), NEW k \in Nat,
           Below(v, x) < k, k <= Upto(v, x)
    PROVE  Output!Ranked(v, k) = x
  <1> DEFINE Is(y) == Below(v, y) < k /\ k <= Upto(v, y)
  <1>1. \A y \in Output!ToSet(v) : y \in Int
    BY DEF Output!ToSet
  <1>2. ASSUME NEW y \in Output!ToSet(v), Is(y) PROVE y = x
    <2>1. /\ Upto(v, y) \in Int /\ Below(v, x) \in Int /\ Upto(v, x) \in Int /\ Below(v, y) \in Int
          /\ x \in Int /\ y \in Int
      BY <1>1, HowMany
    <2>2. x < y => Upto(v, x) <= Below(v, y)
      BY <2>1, HowMany
    <2>3. y < x => Upto(v, y) <= Below(v, x)
      BY <2>1, HowMany
    <2>4. QED
      BY <1>2, <2>1, <2>2, <2>3
  <1>3. Output!Ranked(v, k) = CHOOSE y \in Output!ToSet(v) : Is(y)
    <2>1. Output!Ranked(v, k) = CHOOSE y \in Output!ToSet(v) :
              Output!Cardinality({i \in DOMAIN v : v[i] < y}) < k
              /\ k <= Output!Cardinality({i \in DOMAIN v : v[i] <= y})
      BY Zenon DEF Output!Ranked
    <2>2. QED
      BY <2>1, SameCount, Zenon DEF Upto, Below
  <1> HIDE DEF Is
  <1>4. Is(x)
    BY DEF Is
  <1>5. QED
    BY <1>2, <1>3, <1>4

\* Buckets b, in their order, that hold C[m] values up to the mth and size in all; R
\* lists the values.
Bucketed(N, b, C, size, R) ==
    /\ N \in Nat \ {0} /\ size \in Nat
    /\ b \in [1 .. N -> Int] /\ C \in [0 .. N -> Nat] /\ C[0] = 0 /\ C[N] = size
    /\ \A m \in 1 .. N : C[m - 1] < C[m] /\ C[m] <= size
    /\ \A m \in 1 .. N : \A k \in C[m - 1] + 1 .. C[m] : R[k] = b[m]

\* Of n values, each in the bucket of its own size.
LEMMA Buckets ==
    ASSUME NEW v, NEW n \in Nat \ {0}, v \in [1 .. n -> Int]
    PROVE  LET h == Output!Counts(v)
               b == Output!Ascending(DOMAIN h)
               N == Len(b)
               C == [m \in 0 .. N |-> IF m = 0 THEN 0 ELSE Upto(v, b[m])]
               R == [k \in 1 .. n |-> Output!Ranked(v, k)]
           IN  /\ Bucketed(N, b, C, n, R)
               /\ \A m \in 1 .. N : h[b[m]] \in Nat /\ C[m] = C[m - 1] + h[b[m]]
               /\ \A m \in 1 .. N :
                     /\ b[m] \in Output!ToSet(v)
                     /\ C[m - 1] = Below(v, b[m]) /\ C[m] = Upto(v, b[m])
  <1> DEFINE h == Output!Counts(v)
             S == Output!ToSet(v)
             b == Output!Ascending(DOMAIN h)
             N == Len(b)
             C == [m \in 0 .. N |-> IF m = 0 THEN 0 ELSE Upto(v, b[m])]
             R == [k \in 1 .. n |-> Output!Ranked(v, k)]
             Same(x) == {i \in DOMAIN v : v[i] = x}
  <1>1. DOMAIN h = S /\ \A x \in S : h[x] = Cardinality(Same(x))
    <2>1. h = [x \in S |-> Output!Cardinality(Same(x))]
      BY Zenon DEF Output!Counts
    <2> HIDE DEF h, S, Same
    <2>2. QED
      BY <2>1, SameCount
  <1>2. S \subseteq Int /\ IsFiniteSet(S) /\ S # {} /\ S = {v[i] : i \in 1 .. n}
    <2>1. S = {v[i] : i \in 1 .. n} /\ S \subseteq Int /\ v[1] \in S
      BY DEF Output!ToSet
    <2>2. v \in Surjection(1 .. n, S)
      <3> HIDE DEF S
      <3>1. v \in [1 .. n -> S] /\ \A x \in S : \E i \in 1 .. n : v[i] = x
        BY <2>1
      <3>2. QED
        BY <3>1 DEF Surjection
    <2>3. IsFiniteSet(S)
      <3> HIDE DEF S
      <3>1. IsFiniteSet(1 .. n)
        BY FS_Interval
      <3>2. QED
        BY <2>2, <3>1, FS_Surjection
    <2>4. QED
      BY <2>1, <2>3
  <1> HIDE DEF S, h
  <1>3. /\ N = Cardinality(S) /\ N \in Nat /\ b \in [1 .. N -> S]
        /\ \A i, j \in 1 .. N : i < j => b[i] < b[j]
        /\ \A x \in S : \E i \in 1 .. N : b[i] = x
    BY <1>1, <1>2, AscendingOf, Zenon
  <1> HIDE DEF b, N
  <1>4. N # 0
    BY <1>2, <1>3
  <1>5. b \in [1 .. N -> Int]
    BY <1>2, <1>3
  <1>6. C \in [0 .. N -> Nat] /\ \A m \in 0 .. N : C[m] <= n
    <2>1. \A m \in 0 .. N : Upto(v, b[m]) \in 0 .. n
      BY HowMany
    <2>2. QED
      BY <2>1
  <1>7. ASSUME NEW m \in 1 .. N PROVE C[m - 1] = Below(v, b[m])
    <2>1. CASE m = 1
      <3>1. {i \in DOMAIN v : v[i] < b[1]} = {}
        <4>1. SUFFICES ASSUME NEW i \in 1 .. n, v[i] < b[1] PROVE FALSE
          OBVIOUS
        <4>2. v[i] \in S
          BY <1>2
        <4>3. PICK j \in 1 .. N : b[j] = v[i]
          BY <1>3, <4>2
        <4>4. j = 1 \/ b[1] < b[j]
          BY <1>3, <1>4
        <4>5. b[1] \in Int /\ b[j] \in Int
          <5>1. 1 \in 1 .. N
            BY <1>3, <1>4
          <5>2. QED
            BY <1>5, <5>1
        <4>6. QED
          BY <4>1, <4>3, <4>4, <4>5
      <3>2. Below(v, b[1]) = 0
        BY <3>1, FS_EmptySet, Zenon DEF Below
      <3>3. C[m - 1] = 0
        BY <1>3, <2>1
      <3>4. QED
        BY <2>1, <3>2, <3>3
    <2>2. CASE m # 1
      <3>1. m - 1 \in 1 .. N /\ m - 1 \in 0 .. N /\ m - 1 # 0 /\ m - 1 < m
        BY <1>3, <2>2
      <3>2. b[m - 1] < b[m] /\ b[m - 1] \in Int /\ b[m] \in Int
        BY <1>3, <1>5, <3>1
      <3>3. {i \in DOMAIN v : v[i] <= b[m - 1]} = {i \in DOMAIN v : v[i] < b[m]}
        <4>1. ASSUME NEW i \in 1 .. n PROVE v[i] <= b[m - 1] <=> v[i] < b[m]
          <5>1. v[i] \in S /\ v[i] \in Int
            BY <1>2
          <5>2. PICK j \in 1 .. N : b[j] = v[i]
            BY <1>3, <5>1
          <5>3. j <= m - 1 \/ m <= j
            BY <1>3, <3>1
          <5>4. CASE j <= m - 1
            <6>1. b[j] <= b[m - 1]
              <7>1. b[j] \in Int /\ b[m - 1] \in Int
                BY <1>5, <3>1
              <7>2. j = m - 1 \/ j < m - 1
                BY <3>1, <5>4
              <7>3. j < m - 1 => b[j] < b[m - 1]
                BY <1>3, <3>1
              <7>4. QED
                BY <7>1, <7>2, <7>3
            <6>2. QED
              BY <3>2, <5>1, <5>2, <6>1
          <5>5. CASE m <= j
            <6>1. b[m] <= b[j]
              BY <1>3, <1>5, <5>5
            <6>2. QED
              BY <3>2, <5>1, <5>2, <6>1
          <5>6. QED
            BY <5>3, <5>4, <5>5
        <4>2. DOMAIN v = 1 .. n
          OBVIOUS
        <4>3. QED
          BY <4>1, <4>2
      <3>4. C[m - 1] = Upto(v, b[m - 1])
        BY <3>1
      <3>5. QED
        BY <3>3, <3>4, Zenon DEF Upto, Below
    <2>3. QED
      BY <2>1, <2>2
  <1>8. ASSUME NEW m \in 1 .. N
        PROVE  h[b[m]] \in Nat \ {0} /\ C[m] = C[m - 1] + h[b[m]] /\ C[m] = Upto(v, b[m])
    <2>1. b[m] \in S /\ b[m] \in Int /\ m \in 0 .. N /\ m # 0
      BY <1>3, <1>5
    <2>2. C[m] = Upto(v, b[m])
      BY <2>1
    <2>3. h[b[m]] = Cardinality(Same(b[m]))
      BY <1>1, <2>1
    <2>4. Upto(v, b[m]) = Below(v, b[m]) + Cardinality(Same(b[m]))
      BY <2>1, HowMany, Zenon
    <2>5. Cardinality(Same(b[m])) \in Nat \ {0}
      <3>1. Same(b[m]) \in SUBSET (1 .. n) /\ Same(b[m]) # {}
        BY <1>2, <2>1
      <3>2. IsFiniteSet(1 .. n)
        BY FS_Interval
      <3> HIDE DEF Same
      <3>3. IsFiniteSet(Same(b[m]))
        BY <3>1, <3>2, FS_Subset
      <3>4. QED
        BY <3>1, <3>3, FS_CardinalityType, FS_EmptySet
    <2> HIDE DEF C
    <2>6. QED
      BY <1>7, <2>2, <2>3, <2>4, <2>5
  <1>9. C[N] = n
    <2>1. {i \in DOMAIN v : v[i] <= b[N]} = 1 .. n
      <3>1. ASSUME NEW i \in 1 .. n PROVE v[i] <= b[N]
        <4>1. v[i] \in S
          BY <1>2
        <4>2. PICK j \in 1 .. N : b[j] = v[i]
          BY <1>3, <4>1
        <4>3. N \in 1 .. N /\ (j = N \/ j < N)
          BY <1>3, <1>4
        <4>4. b[j] <= b[N]
          BY <1>3, <1>5, <4>3
        <4>5. QED
          BY <4>2, <4>4
      <3>2. QED
        BY <3>1
    <2>2. N \in 0 .. N /\ N # 0
      BY <1>3, <1>4
    <2>3. C[N] = Upto(v, b[N])
      BY <2>2
    <2> HIDE DEF C
    <2>4. Cardinality(1 .. n) = n
      BY FS_Interval
    <2>5. Upto(v, b[N]) = Cardinality({i \in DOMAIN v : v[i] <= b[N]})
      BY DEF Upto
    <2>6. QED
      BY <2>1, <2>3, <2>4, <2>5, Zenon
  <1>10. ASSUME NEW m \in 1 .. N, NEW k \in C[m - 1] + 1 .. C[m] PROVE R[k] = b[m]
    <2>1. /\ m - 1 \in 0 .. N /\ m \in 0 .. N /\ b[m] \in S
          /\ C[m - 1] \in Nat /\ C[m] \in Nat /\ C[m] <= n
      <3>1. m \in 1 .. N
        OBVIOUS
      <3> HIDE DEF C
      <3>2. m - 1 \in 0 .. N /\ m \in 0 .. N /\ b[m] \in S
        BY <1>3, <3>1
      <3>3. QED
        BY <1>6, <3>2, Zenon
    <2>2. k \in Nat /\ k \in 1 .. n /\ C[m - 1] < k /\ k <= C[m]
      <3> HIDE DEF C
      <3>1. QED
        BY <2>1
    <2>3. Below(v, b[m]) < k /\ k <= Upto(v, b[m])
      <3> HIDE DEF C
      <3>1. QED
        BY <1>7, <1>8, <2>2
    <2>4. Output!Ranked(v, k) = b[m]
      BY <2>1, <2>2, <2>3, RankedIs DEF S
    <2>5. QED
      BY <2>2, <2>4
  <1>11. \A m \in 1 .. N : C[m - 1] < C[m] /\ C[m] <= n
    <2> TAKE m \in 1 .. N
    <2>1. m - 1 \in 0 .. N /\ m \in 0 .. N
      BY <1>3
    <2> HIDE DEF C
    <2>2. C[m - 1] \in Nat /\ C[m] \in Nat /\ C[m] <= n
      BY <1>6, <2>1
    <2>3. QED
      BY <1>8, <2>2
  <1>12. C[0] = 0
    BY <1>3
  <1> HIDE DEF C, R
  <1>13. Bucketed(N, b, C, n, R)
    BY <1>3, <1>4, <1>5, <1>6, <1>9, <1>10, <1>11, <1>12 DEF Bucketed
  <1>14. \A m \in 1 .. N : h[b[m]] \in Nat /\ C[m] = C[m - 1] + h[b[m]]
    BY <1>8
  <1>15. \A m \in 1 .. N : /\ b[m] \in Output!ToSet(v)
                          /\ C[m - 1] = Below(v, b[m]) /\ C[m] = Upto(v, b[m])
    BY <1>3, <1>7, <1>8 DEF S
  <1>16. QED
    BY <1>13, <1>14, <1>15, Zenon DEF h, b, N, C, R

\* Where the quantiles are: in the sample, and apart unless they are at its ends.
Where(q, size) == Output!K(Output!quantiles[q], size)

LEMMA Places ==
    ASSUME NEW size \in Nat \ {0}
    PROVE  /\ \A q \in 1 .. 4 :
                 LET p == Output!quantiles[q] IN
                 /\ Output!Place(p, size) \in Nat /\ Output!Place(p, size) % 100 \in Nat
                 /\ Where(q, size) \in 0 .. size
                 /\ \A c \in Nat : Where(q, size) < c <=> Output!Place(p, size) < 100 * c
           /\ \A q \in 1 .. 3 :
                 /\ Where(q, size) <= Where(q + 1, size)
                 /\ Where(q, size) \in 1 .. size - 1 => Where(q, size) < Where(q + 1, size)
  <1> DEFINE f(q) == Output!quantiles[q]
  <1>1. f(1) = 25 /\ f(2) = 50 /\ f(3) = 75 /\ f(4) = 95
    BY DEF Output!quantiles
  <1>2. \A q : Where(q, size) = (f(q) * (size + 1)) \div 100
               /\ Output!Place(f(q), size) = f(q) * (size + 1)
    BY DEF Where, Output!K, Output!Place
  <1> HIDE DEF f
  <1>3. /\ Where(1, size) = (25 * (size + 1)) \div 100 /\ Where(2, size) = (50 * (size + 1)) \div 100
        /\ Where(3, size) = (75 * (size + 1)) \div 100 /\ Where(4, size) = (95 * (size + 1)) \div 100
    BY <1>1, <1>2
  <1>4. ASSUME NEW q \in 1 .. 4
        PROVE  /\ Output!Place(f(q), size) \in Nat /\ Output!Place(f(q), size) % 100 \in Nat
               /\ Where(q, size) \in 0 .. size
               /\ \A c \in Nat : Where(q, size) < c <=> Output!Place(f(q), size) < 100 * c
    <2> DEFINE place == f(q) * (size + 1)
    <2>1. place \in Nat /\ place < 100 * (size + 1)
      <3>1. q = 1 \/ q = 2 \/ q = 3 \/ q = 4
        OBVIOUS
      <3>2. QED
        BY <1>1, <3>1
    <2>2. Where(q, size) = place \div 100 /\ Output!Place(f(q), size) = place
      BY <1>2
    <2> HIDE DEF place
    <2>3. place \div 100 \in Nat /\ place % 100 \in 0 .. 99
          /\ place = 100 * (place \div 100) + (place % 100)
      BY <2>1
    <2>4. QED
      BY <2>1, <2>2, <2>3
  <1>5. /\ Where(1, size) <= Where(2, size) /\ Where(2, size) <= Where(3, size)
        /\ Where(3, size) <= Where(4, size)
    BY <1>3
  <1>6. /\ Where(1, size) \in 1 .. size - 1 => Where(1, size) < Where(2, size)
        /\ Where(2, size) \in 1 .. size - 1 => Where(2, size) < Where(3, size)
    <2>1. CASE size >= 3
      BY <1>3, <2>1
    <2>2. CASE size = 1 \/ size = 2
      BY <1>3, <2>2
    <2>3. QED
      BY <2>1, <2>2
  <1>7. Where(3, size) \in 1 .. size - 1 => Where(3, size) < Where(4, size)
    <2>1. CASE size >= 4
      BY <1>3, <2>1
    <2>2. CASE size = 1 \/ size = 2 \/ size = 3
      BY <1>3, <2>2
    <2>3. QED
      BY <2>1, <2>2
  <1>8. ASSUME NEW q \in 1 .. 3
        PROVE  /\ Where(q, size) <= Where(q + 1, size)
               /\ Where(q, size) \in 1 .. size - 1 => Where(q, size) < Where(q + 1, size)
    <2>1. q = 1 \/ q = 2 \/ q = 3
      OBVIOUS
    <2>2. QED
      BY <1>5, <1>6, <1>7, <2>1
  <1>9. QED
    BY <1>4, <1>8 DEF f

\* A quantile of a sample that R lists.
Quantile(q, size, R) ==
    LET k == Where(q, size) IN
    IF k = 0 THEN 100 * R[1]
    ELSE IF k >= size THEN 100 * R[size]
    ELSE 100 * R[k] + (Output!Place(Output!quantiles[q], size) % 100) * (R[k + 1] - R[k])

Looks == {st \in [count : Nat, value : Int \cup {None}, stop : BOOLEAN, stats : Seq(Int)] :
             Len(st.stats) <= 4}

\* Those that have been found are right.
AreRight(st, size, R) == \A q \in 1 .. Len(st.stats) : st.stats[q] = Quantile(q, size, R)

\* After the mth bucket: all are found, or the next is further on, or just here and
\* waits for the next bucket.
After(m, st, b, C, size, R) ==
    LET next == Where(Len(st.stats) + 1, size) IN
    /\ st \in Looks /\ AreRight(st, size, R) /\ st.count = C[m]
    /\ Len(st.stats) = 4 => st.value = None
    /\ Len(st.stats) # 4 /\ st.value = None => m = 0 \/ C[m] < next
    /\ Len(st.stats) # 4 /\ st.value # None =>
         m # 0 /\ st.value = b[m] /\ next = C[m] /\ next \in 1 .. size - 1

\* Amid the looks at it.
Amid(m, st, b, C, size, R) ==
    LET next == Where(Len(st.stats) + 1, size) IN
    /\ st \in Looks /\ AreRight(st, size, R) /\ st.count = C[m]
    /\ st.stop => After(m, st, b, C, size, R)
    /\ ~st.stop /\ Len(st.stats) = 4 => st.value = None
    /\ ~st.stop /\ Len(st.stats) # 4 /\ st.value = None => m = 1 \/ C[m - 1] < next
    /\ ~st.stop /\ Len(st.stats) # 4 /\ st.value # None =>
         m # 1 /\ st.value = b[m - 1] /\ next = C[m - 1] /\ next \in 1 .. size - 1

\* What one look finds, if there is something to look for.
Found(st, size, x) ==
    Output!findvalue(Output!quantiles[Len(st.stats) + 1], size, st.value, st.count, x)

LEMMA FoundTyped ==
    ASSUME NEW size \in Nat \ {0}, NEW st \in Looks, Len(st.stats) # 4, NEW x \in Int
    PROVE  /\ Len(st.stats) + 1 \in 1 .. 4
           /\ Found(st, size, x) \in Int \cup {None}
  <1> DEFINE q == Len(st.stats) + 1
             frac == Output!Place(Output!quantiles[q], size) % 100
  <1>1. q \in 1 .. 4
    <2> DEFINE l == Len(st.stats)
    <2>1. l \in Nat /\ l <= 4 /\ l # 4
      BY LenProperties DEF Looks
    <2> HIDE DEF l
    <2>2. l + 1 \in 1 .. 4
      BY <2>1
    <2>3. QED
      BY <2>2 DEF l
  <1> HIDE DEF q
  <1>2. frac \in Int
    <2>1. \A r \in 1 .. 4 : Output!Place(Output!quantiles[r], size) % 100 \in Nat
      BY Places, Zenon
    <2>2. frac \in Nat
      BY <1>1, <2>1, Zenon
    <2> HIDE DEF frac
    <2>3. QED
      BY <2>2
  <1>3. st.value \in Int \cup {None}
    BY DEF Looks
  <1>4. Output!findvalue(Output!quantiles[q], size, st.value, st.count, x) \in
            {100 * st.value + frac * (x - st.value), 100 * x, None}
    BY Zenon DEF Output!findvalue
  <1>5. st.value # None => 100 * st.value + frac * (x - st.value) \in Int
    <2> HIDE DEF frac
    <2>1. QED
      BY <1>2, <1>3
  <1>6. st.value # None \/ Output!findvalue(Output!quantiles[q], size, st.value, st.count, x) \in {100 * x, None}
    BY Zenon DEF Output!findvalue
  <1>7. Output!findvalue(Output!quantiles[q], size, st.value, st.count, x) \in Int \cup {None}
    BY <1>4, <1>5, <1>6
  <1>8. QED
    BY <1>1, <1>7 DEF Found, q

LEMMA LookIs ==
    ASSUME NEW size, NEW st, NEW x
    PROVE  Output!Look(st, size, x) =
             IF st.stop \/ Len(st.stats) = 4 THEN st
             ELSE IF st.count < Where(Len(st.stats) + 1, size) THEN [st EXCEPT !.stop = TRUE]
             ELSE IF Found(st, size, x) = None THEN [st EXCEPT !.stop = TRUE, !.value = x]
             ELSE [st EXCEPT !.value = None, !.stats = Append(@, Found(st, size, x))]
  <1>1. Len(Output!quantiles) = 4
    BY DEF Output!quantiles
  <1>2. QED
    BY <1>1, Zenon DEF Output!Look, Found, Where

LEMMA LookTyped ==
    ASSUME NEW size \in Nat \ {0}, NEW st \in Looks, NEW x \in Int
    PROVE  Output!Look(st, size, x) \in Looks
  <1>1. CASE st.stop \/ Len(st.stats) = 4
    BY <1>1, LookIs, Zenon
  <1>2. CASE ~st.stop /\ Len(st.stats) # 4
    <2> DEFINE f == Found(st, size, x)
    <2>1. f \in Int \cup {None} /\ Len(st.stats) + 1 \in 1 .. 4
      BY <1>2, FoundTyped
    <2> HIDE DEF f
    <2>2. \/ Output!Look(st, size, x) = [st EXCEPT !.stop = TRUE]
          \/ Output!Look(st, size, x) = [st EXCEPT !.stop = TRUE, !.value = x]
          \/ /\ f # None
             /\ Output!Look(st, size, x) = [st EXCEPT !.value = None, !.stats = Append(@, f)]
      BY <1>2, LookIs, Zenon DEF f
    <2>3. [st EXCEPT !.stop = TRUE] \in Looks /\ [st EXCEPT !.stop = TRUE, !.value = x] \in Looks
      BY Zenon DEF Looks
    <2>4. f # None => [st EXCEPT !.value = None, !.stats = Append(@, f)] \in Looks
      <3>1. SUFFICES ASSUME f # None PROVE [st EXCEPT !.value = None, !.stats = Append(@, f)] \in Looks
        OBVIOUS
      <3>2. /\ Append(st.stats, f) \in Seq(Int)
            /\ Len(Append(st.stats, f)) = Len(st.stats) + 1 /\ Len(st.stats) \in Nat
        BY <2>1, <3>1, AppendProperties, LenProperties DEF Looks
      <3> DEFINE longer == Append(st.stats, f)
      <3>3. longer \in Seq(Int) /\ Len(longer) <= 4
        BY <2>1, <3>2
      <3> HIDE DEF longer
      <3>4. [st EXCEPT !.value = None, !.stats = longer] \in Looks
        BY <3>3, Zenon DEF Looks
      <3>5. QED
        BY <3>4 DEF longer
    <2>5. QED
      BY <2>2, <2>3, <2>4, Zenon
  <1>3. QED
    BY <1>1, <1>2 DEF Looks

\* What is found is the quantile, and if it is not, it waits here.
LEMMA FoundRight ==
    ASSUME NEW N, NEW b, NEW C, NEW size, NEW R, Bucketed(N, b, C, size, R),
           NEW m \in 1 .. N, NEW st, Amid(m, st, b, C, size, R), ~st.stop, Len(st.stats) # 4,
           C[m] >= Where(Len(st.stats) + 1, size)
    PROVE  LET q == Len(st.stats) + 1
               f == Found(st, size, b[m])
           IN  /\ f # None => f = Quantile(q, size, R)
               /\ f = None => Where(q, size) = C[m] /\ C[m] \in 1 .. size - 1
  <1> DEFINE q == Len(st.stats) + 1
             p == Output!quantiles[q]
             k == Where(q, size)
             frac == Output!Place(p, size) % 100
             x == b[m]
             c == C[m]
             d == C[m - 1]
             f == Output!findvalue(p, size, st.value, st.count, x)
  <1>1. /\ size \in Nat \ {0} /\ c \in Nat /\ d \in Nat /\ d < c /\ c <= size /\ x \in Int
        /\ m \in 1 .. N /\ m - 1 \in 0 .. N /\ N \in Nat
    BY DEF Bucketed
  <1>2. /\ st \in Looks /\ st.count = c /\ q \in 1 .. 4
    BY <1>1, FoundTyped DEF Amid
  <1>3. /\ Output!Place(p, size) \in Nat /\ frac \in Nat /\ k \in 0 .. size
        /\ k < c <=> Output!Place(p, size) < 100 * c
    <2>1. \A r \in 1 .. 4 :
            /\ Output!Place(Output!quantiles[r], size) \in Nat
            /\ Output!Place(Output!quantiles[r], size) % 100 \in Nat
            /\ Where(r, size) \in 0 .. size
            /\ \A e \in Nat : Where(r, size) < e <=> Output!Place(Output!quantiles[r], size) < 100 * e
      BY <1>1, Places, Zenon
    <2> HIDE DEF c
    <2>2. QED
      BY <1>1, <1>2, <2>1, Zenon
  <1>4. /\ k <= c
        /\ st.value = None => m = 1 \/ d < k
        /\ st.value # None => m # 1 /\ st.value = b[m - 1] /\ k = d /\ k \in 1 .. size - 1
    BY DEF Amid
  <1>5. \A j \in d + 1 .. c : R[j] = x
    BY DEF Bucketed
  <1>6. m = 1 => d = 0
    BY DEF Bucketed
  <1>7. Output!K(p, size) = k
    BY DEF Where
  <1>8. f = IF st.value # None THEN 100 * st.value + frac * (x - st.value)
            ELSE IF k = 0 \/ (c >= size /\ k >= size) \/ Output!Place(p, size) < 100 * c
            THEN 100 * x ELSE None
    BY <1>2, <1>7, Zenon DEF Output!findvalue
  <1>9. Quantile(q, size, R) =
            IF k = 0 THEN 100 * R[1] ELSE IF k >= size THEN 100 * R[size]
            ELSE 100 * R[k] + frac * (R[k + 1] - R[k])
    BY DEF Quantile
  <1>10. CASE st.value # None
    <2>1. R[k] = b[m - 1] /\ b[m - 1] \in Int
      <3>1. m - 1 \in 1 .. N /\ (m - 1) - 1 \in 0 .. N
        BY <1>1, <1>4, <1>10
      <3>2. C[(m - 1) - 1] \in Nat /\ C[(m - 1) - 1] < C[m - 1]
            /\ \A j \in C[(m - 1) - 1] + 1 .. C[m - 1] : R[j] = b[m - 1]
        BY <3>1, Zenon DEF Bucketed
      <3>3. k \in C[(m - 1) - 1] + 1 .. C[m - 1]
        BY <1>1, <1>4, <1>10, <3>2
      <3>4. QED
        BY <3>1, <3>2, <3>3, Zenon DEF Bucketed
    <2>2. R[k + 1] = x
      <3>1. k + 1 \in d + 1 .. c
        BY <1>1, <1>4, <1>10
      <3>2. QED
        BY <1>5, <3>1
    <2>3. k # 0 /\ ~(k >= size) /\ st.value = b[m - 1]
      BY <1>1, <1>4, <1>10
    <2>4. f = 100 * R[k] + frac * (R[k + 1] - R[k])
      BY <1>8, <1>10, <2>1, <2>2, <2>3, Zenon
    <2>5. f = Quantile(q, size, R)
      BY <1>9, <2>3, <2>4, Zenon
    <2>6. f # None
      <3> HIDE DEF frac, x, k
      <3>1. frac * (x - st.value) \in Int /\ 100 * st.value \in Int
        BY <1>1, <1>3, <2>1, <2>3
      <3>2. 100 * st.value + frac * (x - st.value) \in Int
        BY <3>1
      <3>3. f \in Int
        BY <1>8, <1>10, <3>2, Zenon
      <3>4. QED
        BY <3>3, LibraryAssumption DEF LibraryAssumption
    <2>7. QED
      BY <2>5, <2>6 DEF Found
  <1>11. CASE st.value = None /\ k = 0
    <2>1. d = 0
      BY <1>1, <1>4, <1>6, <1>11
    <2>2. R[1] = x
      <3>1. 1 \in d + 1 .. c
        BY <1>1, <2>1
      <3>2. QED
        BY <1>5, <3>1
    <2>3. f = 100 * x
      BY <1>8, <1>11, Zenon
    <2>4. f = Quantile(q, size, R)
      BY <1>9, <1>11, <2>2, <2>3, Zenon
    <2>5. f # None
      <3> HIDE DEF x
      <3>1. 100 * x \in Int
        BY <1>1
      <3>2. QED
        BY <2>3, <3>1, LibraryAssumption DEF LibraryAssumption
    <2>6. QED
      BY <2>4, <2>5 DEF Found
  <1>12. CASE st.value = None /\ k # 0
    <2>1. d < k
      BY <1>1, <1>3, <1>4, <1>6, <1>12
    <2>2. CASE k >= size
      <3>1. c >= size /\ size \in d + 1 .. c
        BY <1>1, <1>3, <1>4, <2>1, <2>2
      <3>2. R[size] = x
        BY <1>5, <3>1
      <3>3. f = 100 * x
        BY <1>8, <1>12, <2>2, <3>1, Zenon
      <3>4. f = Quantile(q, size, R)
        BY <1>9, <1>12, <2>2, <3>2, <3>3, Zenon
      <3>5. f # None
        <4> HIDE DEF x
        <4>1. 100 * x \in Int
          BY <1>1
        <4>2. QED
          BY <3>3, <4>1, LibraryAssumption DEF LibraryAssumption
      <3>6. QED
        BY <3>4, <3>5 DEF Found
    <2>3. CASE ~(k >= size) /\ k < c
      <3>1. k \in d + 1 .. c /\ k + 1 \in d + 1 .. c
        <4> HIDE DEF k, c, d
        <4>1. QED
          BY <1>1, <1>3, <2>1, <2>3
      <3>2. R[k] = x /\ R[k + 1] = x
        BY <1>5, <3>1
      <3>3. f = 100 * x
        BY <1>3, <1>8, <1>12, <2>3, Zenon
      <3>4. 100 * x = 100 * x + frac * (x - x) /\ 100 * x \in Int
        <4> HIDE DEF x, frac
        <4>1. x - x = 0 /\ 100 * x \in Int
          BY <1>1
        <4>2. frac * 0 = 0
          BY <1>3
        <4>3. QED
          BY <1>1, <4>1, <4>2
      <3>5. f = Quantile(q, size, R)
        BY <1>9, <1>12, <2>3, <3>2, <3>3, <3>4, Zenon
      <3>6. f # None
        BY <3>3, <3>4, LibraryAssumption DEF LibraryAssumption
      <3>7. QED
        BY <3>5, <3>6 DEF Found
    <2>4. CASE ~(k >= size) /\ ~(k < c)
      <3>1. k = c /\ c \in 1 .. size - 1
        BY <1>1, <1>3, <1>4, <1>12, <2>4
      <3>2. f = None
        BY <1>3, <1>8, <1>12, <2>4, Zenon
      <3>3. QED
        BY <3>1, <3>2 DEF Found
    <2>5. QED
      BY <2>2, <2>3, <2>4
  <1>13. QED
    BY <1>10, <1>11, <1>12

\* A look leaves it so, and either ends the looks or finds one more.
LEMMA LookKeeps ==
    ASSUME NEW N, NEW b, NEW C, NEW size, NEW R, Bucketed(N, b, C, size, R),
           NEW m \in 1 .. N, NEW st, Amid(m, st, b, C, size, R)
    PROVE  LET new == Output!Look(st, size, b[m]) IN
           /\ Amid(m, new, b, C, size, R)
           /\ \/ new.stop \/ Len(new.stats) = 4
              \/ ~st.stop /\ Len(new.stats) = Len(st.stats) + 1
  <1> DEFINE q == Len(st.stats) + 1
             x == b[m]
             new == Output!Look(st, size, x)
             f == Found(st, size, x)
  <1>1. /\ size \in Nat \ {0} /\ x \in Int /\ m - 1 \in 0 .. N
        /\ C[m] \in Nat /\ C[m - 1] \in Nat /\ C[m - 1] < C[m] /\ C[m] <= size
    BY DEF Bucketed
  <1>2. st \in Looks /\ st.count = C[m] /\ AreRight(st, size, R)
    BY DEF Amid
  <1>3. new \in Looks
    BY <1>1, <1>2, LookTyped, Zenon
  <1>4. CASE st.stop \/ Len(st.stats) = 4
    BY <1>4, LookIs, Zenon
  <1>5. CASE ~st.stop /\ Len(st.stats) # 4
    <2>1. q \in 1 .. 4 /\ Where(q, size) \in 0 .. size /\ Len(st.stats) \in Nat
      <3>1. q \in 1 .. 4
        BY <1>1, <1>2, <1>5, FoundTyped
      <3>2. \A r \in 1 .. 4 : Where(r, size) \in 0 .. size
        BY <1>1, Places, Zenon
      <3>3. Len(st.stats) \in Nat
        BY <1>2, LenProperties DEF Looks
      <3>4. QED
        BY <3>1, <3>2, <3>3, Zenon
    <2>2. CASE C[m] < Where(q, size)
      <3>1. new = [st EXCEPT !.stop = TRUE]
        BY <1>2, <1>5, <2>2, LookIs, Zenon
      <3>2. /\ new.stop /\ new.stats = st.stats /\ new.value = st.value /\ new.count = st.count
        BY <1>2, <3>1 DEF Looks
      <3>3. st.value = None
        BY <1>1, <1>5, <2>1, <2>2 DEF Amid
      <3>4. After(m, new, b, C, size, R)
        BY <1>2, <1>3, <1>5, <2>2, <3>2, <3>3 DEF After, AreRight
      <3>5. QED
        BY <3>2, <3>4 DEF Amid, After
    <2>3. CASE ~(C[m] < Where(q, size))
      <3>1. C[m] >= Where(q, size)
        BY <1>1, <2>1, <2>3
      <3>2. /\ f # None => f = Quantile(q, size, R)
            /\ f = None => Where(q, size) = C[m] /\ C[m] \in 1 .. size - 1
        BY <1>5, <3>1, FoundRight
      <3>3. CASE f = None
        <4>1. new = [st EXCEPT !.stop = TRUE, !.value = x]
          BY <1>2, <1>5, <2>3, <3>3, LookIs, Zenon
        <4>2. /\ new.stop /\ new.stats = st.stats /\ new.value = x /\ new.count = st.count
          BY <1>2, <4>1 DEF Looks
        <4>3. x # None /\ m # 0
          BY <1>1, LibraryAssumption DEF LibraryAssumption
        <4>4. After(m, new, b, C, size, R)
          BY <1>2, <1>3, <1>5, <3>2, <3>3, <4>2, <4>3 DEF After, AreRight
        <4>5. QED
          BY <4>2, <4>4 DEF Amid, After
      <3>4. CASE f # None
        <4>1. new = [st EXCEPT !.value = None, !.stats = Append(@, f)]
          BY <1>2, <1>5, <2>3, <3>4, LookIs, Zenon
        <4>2. /\ ~new.stop /\ new.stats = Append(st.stats, f) /\ new.value = None
              /\ new.count = st.count
          BY <1>2, <1>5, <4>1 DEF Looks
        <4>3. /\ Len(new.stats) = q /\ new.stats[q] = f
              /\ \A r \in 1 .. Len(st.stats) : new.stats[r] = st.stats[r]
          <5>1. st.stats \in Seq(Int)
            BY <1>2 DEF Looks
          <5>2. f \in Int \cup {None}
            BY <1>1, <1>2, <1>5, FoundTyped
          <5> HIDE DEF f
          <5>3. QED
            BY <3>4, <4>2, <5>1, <5>2, AppendProperties, LenProperties
        <4>4. AreRight(new, size, R)
          <5>1. \A r \in 1 .. q : r = q \/ r \in 1 .. Len(st.stats)
            BY <2>1
          <5>2. QED
            BY <1>2, <3>2, <3>4, <4>3, <5>1 DEF AreRight
        <4>5. q # 4 => C[m - 1] < Where(q + 1, size) \/ m = 1
          <5>1. SUFFICES ASSUME q # 4, m # 1 PROVE C[m - 1] < Where(q + 1, size)
            OBVIOUS
          <5>2. q \in 1 .. 3
            BY <2>1, <5>1
          <5>3. /\ Where(q, size) <= Where(q + 1, size)
                /\ Where(q, size) \in 1 .. size - 1 => Where(q, size) < Where(q + 1, size)
            <6> HIDE DEF q
            <6>1. QED
              BY <1>1, <5>2, Places, Zenon
          <5>4. q + 1 \in 1 .. 4
            BY <5>2
          <5>5. Where(q + 1, size) \in Nat
            <6>1. \A r \in 1 .. 4 : Where(r, size) \in 0 .. size
              BY <1>1, Places, Zenon
            <6> HIDE DEF q
            <6>2. QED
              BY <1>1, <5>4, <6>1
          <5>6. \/ C[m - 1] < Where(q, size)
                \/ Where(q, size) = C[m - 1] /\ Where(q, size) \in 1 .. size - 1
            BY <1>5, <5>1 DEF Amid
          <5> HIDE DEF q
          <5>7. QED
            BY <1>1, <2>1, <5>3, <5>5, <5>6
        <4>6. Amid(m, new, b, C, size, R)
          <5> DEFINE next == Len(new.stats) + 1
          <5>1. next = q + 1
            BY <4>3
          <5> HIDE DEF q, new
          <5>2. QED
            BY <1>2, <1>3, <4>2, <4>3, <4>4, <4>5, <5>1 DEF Amid
        <4>7. QED
          BY <1>5, <4>3, <4>6
      <3>5. QED
        BY <3>3, <3>4
    <2>4. QED
      BY <2>2, <2>3
  <1>6. QED
    BY <1>4, <1>5

\* Four looks are enough.
LEMMA BucketKeeps ==
    ASSUME NEW N, NEW b, NEW C, NEW size, NEW R, Bucketed(N, b, C, size, R),
           NEW m \in 1 .. N, NEW st, After(m - 1, st, b, C, size, R),
           NEW many \in Nat, C[m] = C[m - 1] + many
    PROVE  After(m, Output!AtBucket(st, size, many, b[m]), b, C, size, R)
  <1> DEFINE Next(s) == Output!Look(s, size, b[m])
             s0 == [st EXCEPT !.count = @ + many, !.stop = FALSE]
             s1 == Next(s0)
             s2 == Next(s1)
             s3 == Next(s2)
             s4 == Next(s3)
             In(s) == Amid(m, s, b, C, size, R)
             Far(s, n) == s.stop \/ Len(s.stats) \in n .. 4
             Another(s) == ~s.stop /\ Len(Next(s).stats) = Len(s.stats) + 1
  <1>1. Output!AtBucket(st, size, many, b[m]) = s4
    BY Zenon DEF Output!AtBucket
  <1>2. In(s0)
    <2>1. st \in Looks /\ st.count = C[m - 1] /\ C[m - 1] \in Nat
      BY DEF After, Bucketed
    <2>2. /\ s0 \in Looks /\ s0.count = C[m] /\ ~s0.stop /\ s0.value = st.value
          /\ s0.stats = st.stats
      <3> DEFINE count == st.count + many
      <3>1. count \in Nat /\ count = C[m]
        BY <2>1
      <3> HIDE DEF count
      <3>2. LET new == [st EXCEPT !.count = count, !.stop = FALSE] IN
            /\ new \in Looks /\ new.count = C[m] /\ ~new.stop /\ new.value = st.value
            /\ new.stats = st.stats
        BY <2>1, <3>1, Zenon DEF Looks
      <3>3. QED
        BY <3>2 DEF count
    <2>3. m - 1 = 0 <=> m = 1
      BY DEF Bucketed
    <2> HIDE DEF s0
    <2>4. QED
      BY <2>2, <2>3 DEF Amid, After, AreRight
  <1>3. \A s : In(s) => In(Next(s)) /\ (Next(s).stop \/ Len(Next(s).stats) = 4 \/ Another(s))
    <2> TAKE s
    <2> HAVE In(s)
    <2>1. QED
      BY LookKeeps
  <1>4. \A s : In(s) => Len(s.stats) \in 0 .. 4
    <2> TAKE s
    <2> HAVE In(s)
    <2> DEFINE l == Len(s.stats)
    <2>1. s.stats \in Seq(Int) /\ l <= 4
      BY DEF Amid, Looks
    <2>2. l \in Nat
      BY <2>1, LenProperties
    <2> HIDE DEF l
    <2>3. l \in 0 .. 4
      BY <2>1, <2>2
    <2>4. QED
      BY <2>3 DEF l
  <1>5. Far(s0, 0)
    BY <1>2, <1>4, Zenon
  <1>6. \A s : \A n \in 0 .. 3 : In(s) /\ Far(s, n) => In(Next(s)) /\ Far(Next(s), n + 1)
    <2> TAKE s
    <2> TAKE n \in 0 .. 3
    <2> HAVE In(s) /\ Far(s, n)
    <2>1. In(Next(s)) /\ (Next(s).stop \/ Len(Next(s).stats) = 4 \/ Another(s))
      BY <1>3
    <2>2. Len(Next(s).stats) \in 0 .. 4
      BY <1>4, <2>1
    <2>3. Len(s.stats) \in 0 .. 4
      BY <1>4
    <2> DEFINE l == Len(s.stats)
               k == Len(Next(s).stats)
    <2>4. Next(s).stop \/ k = 4 \/ (~s.stop /\ k = l + 1)
      BY <2>1
    <2>5. s.stop \/ l \in n .. 4
      OBVIOUS
    <2>6. k \in 0 .. 4 /\ l \in 0 .. 4
      BY <2>2, <2>3
    <2> HIDE DEF Next, In, k, l
    <2>7. Next(s).stop \/ k \in n + 1 .. 4
      BY <2>4, <2>5, <2>6
    <2>8. QED
      BY <2>1, <2>7 DEF k
  <1> HIDE DEF Next, In, Far, s0
  <1>7. In(s1) /\ Far(s1, 1)
    BY <1>2, <1>5, <1>6
  <1> HIDE DEF s1
  <1>8. In(s2) /\ Far(s2, 2)
    BY <1>6, <1>7
  <1> HIDE DEF s2
  <1>9. In(s3) /\ Far(s3, 3)
    BY <1>6, <1>8
  <1> HIDE DEF s3
  <1>10. In(s4) /\ Far(s4, 4)
    BY <1>6, <1>9
  <1> HIDE DEF s4
  <1>11. s4.stop \/ Len(s4.stats) = 4
    BY <1>10 DEF Far
  <1>12. After(m, s4, b, C, size, R)
    BY <1>10, <1>11 DEF In, Amid, After
  <1>13. QED
    BY <1>1, <1>12

LEMMA BucketTyped ==
    ASSUME NEW size \in Nat \ {0}, NEW st \in Looks, NEW many \in Nat, NEW x \in Int
    PROVE  Output!AtBucket(st, size, many, x) \in Looks
  <1> DEFINE Next(s) == Output!Look(s, size, x)
             s0 == [st EXCEPT !.count = @ + many, !.stop = FALSE]
  <1>1. Output!AtBucket(st, size, many, x) = Next(Next(Next(Next(s0))))
    BY Zenon DEF Output!AtBucket
  <1>2. s0 \in Looks
    <2> DEFINE count == st.count + many
    <2>1. count \in Nat
      BY DEF Looks
    <2> HIDE DEF count
    <2>2. [st EXCEPT !.count = count, !.stop = FALSE] \in Looks
      BY <2>1, Zenon DEF Looks
    <2>3. QED
      BY <2>2 DEF count
  <1>3. \A s \in Looks : Next(s) \in Looks
    BY LookTyped
  <1> HIDE DEF s0, Next
  <1>4. QED
    BY <1>1, <1>2, <1>3

\* The statistics of a histogram's quantiles are the quantiles of its sample.
LEMMA QuantilesAre ==
    ASSUME NEW v, NEW n \in Nat \ {0}, v \in [1 .. n -> Int]
    PROVE  Output!Quantiles(Output!Counts(v))
             = [q \in 1 .. 4 |-> Quantile(q, n, [k \in 1 .. n |-> Output!Ranked(v, k)])]
  <1> DEFINE h == Output!Counts(v)
             b == Output!Ascending(DOMAIN h)
             N == Len(b)
             C == [m \in 0 .. N |-> IF m = 0 THEN 0 ELSE Upto(v, b[m])]
             R == [k \in 1 .. n |-> Output!Ranked(v, k)]
             base == [count |-> 0, value |-> None, stop |-> FALSE, stats |-> <<>>]
             Next(m, st) == Output!AtBucket(st, n, h[b[m]], b[m])
             step == [m \in 1 .. N |-> [st \in Looks |-> Next(m, st)]]
             Is(f) == f = [m \in 0 .. N |-> IF m = 0 THEN base ELSE Next(m, f[m - 1])]
             after == CHOOSE f : Is(f)
  <1>1. Bucketed(N, b, C, n, R) /\ \A m \in 1 .. N : h[b[m]] \in Nat /\ C[m] = C[m - 1] + h[b[m]]
    BY Buckets, Zenon
  <1>2. Output!Counted(h) = n
    BY CountsAll
  <1>3. Output!Quantiles(h) = after[N].stats
    <2> HIDE DEF h
    <2>1. Output!Quantiles(h) =
            (CHOOSE f : f = [m \in 0 .. N |->
                IF m = 0 THEN base
                ELSE Output!AtBucket(f[m - 1], Output!Counted(h), h[b[m]], b[m])])[N].stats
      BY Zenon DEF Output!Quantiles
    <2>2. QED
      BY <1>2, <2>1, Zenon
  <1> HIDE DEF h, b, N, C, R
  <1>4. N \in Nat \ {0} /\ \A m \in 1 .. N : b[m] \in Int
    BY <1>1 DEF Bucketed
  <1>5. base \in Looks
    BY DEF Looks
  <1>6. \A m \in 1 .. N, st \in Looks : Next(m, st) \in Looks
    BY <1>1, <1>4, BucketTyped, Zenon
  <1> HIDE DEF base, Next
  <1>7. Within(N, Looks, step) /\ \A m \in 1 .. N, st \in Looks : step[m][st] = Next(m, st)
    BY <1>6 DEF Within
  <1> HIDE DEF step
  <1>8. PICK f : Recurs(N, Looks, base, step, f)
    BY <1>4, <1>5, <1>7, Recursion
  <1>9. Is(f)
    <2>1. f \in [0 .. N -> Looks] /\ f[0] = base /\ \A m \in 1 .. N : f[m] = step[m][f[m - 1]]
      BY <1>8 DEF Recurs
    <2>2. \A m \in 1 .. N : f[m - 1] \in Looks
      BY <1>4, <2>1
    <2>3. \A m \in 1 .. N : f[m] = Next(m, f[m - 1])
      BY <1>7, <2>1, <2>2, Zenon
    <2>4. f = [m \in 0 .. N |-> f[m]]
      BY <2>1
    <2>5. \A m \in 0 .. N : f[m] = IF m = 0 THEN base ELSE Next(m, f[m - 1])
      BY <1>4, <2>1, <2>3
    <2>6. QED
      BY <2>4, <2>5
  <1>10. Is(after)
    <2> HIDE DEF Is
    <2>1. QED
      BY <1>9, Zenon
  <1> HIDE DEF after
  <1>11. after[0] = base /\ \A m \in 1 .. N : after[m] = Next(m, after[m - 1])
    <2>1. \A m \in 0 .. N : after[m] = IF m = 0 THEN base ELSE Next(m, after[m - 1])
      BY <1>10, Zenon
    <2>2. 0 \in 0 .. N /\ \A m \in 1 .. N : m \in 0 .. N /\ m # 0
      BY <1>4
    <2>3. QED
      BY <2>1, <2>2
  <1> DEFINE Holds == {m \in 0 .. N : After(m, after[m], b, C, n, R)}
  <1>12. 0 \in Holds
    <2>1. After(0, base, b, C, n, R)
      <3>1. C[0] = 0
        BY <1>1 DEF Bucketed
      <3>2. base.count = 0 /\ base.value = None /\ base.stats = <<>> /\ Len(base.stats) = 0
        BY DEF base
      <3>3. QED
        BY <1>5, <3>1, <3>2 DEF After, AreRight
    <2>2. QED
      BY <1>4, <1>11, <2>1
  <1>13. ASSUME NEW m \in 0 .. N - 1, m \in Holds PROVE m + 1 \in Holds
    <2>1. m + 1 \in 1 .. N /\ (m + 1) - 1 = m /\ m + 1 \in 0 .. N
      BY <1>4
    <2>2. After(m, after[m], b, C, n, R)
      BY <1>13
    <2>3. after[m + 1] = Output!AtBucket(after[m], n, h[b[m + 1]], b[m + 1])
      BY <1>11, <2>1 DEF Next
    <2>4. h[b[m + 1]] \in Nat /\ C[m + 1] = C[m] + h[b[m + 1]]
      BY <1>1, <2>1
    <2> HIDE DEF Holds
    <2>5. After(m + 1, after[m + 1], b, C, n, R)
      BY <1>1, <2>1, <2>2, <2>3, <2>4, BucketKeeps
    <2>6. QED
      BY <2>1, <2>5 DEF Holds
  <1>14. 0 .. N \subseteq Holds
    <2> HIDE DEF Holds
    <2>1. QED
      BY <1>4, <1>12, <1>13, Inductive, Zenon
  <1> DEFINE st == after[N]
  <1>15. After(N, st, b, C, n, R)
    BY <1>4, <1>14
  <1> HIDE DEF Holds, st
  <1>16. C[N] = n /\ N # 0
    BY <1>1 DEF Bucketed
  <1>17. Len(st.stats) = 4
    <2>1. SUFFICES ASSUME Len(st.stats) # 4 PROVE FALSE
      OBVIOUS
    <2>2. Len(st.stats) + 1 \in 1 .. 4
      BY <1>15, <2>1, FoundTyped DEF After
    <2>3. \A r \in 1 .. 4 : Where(r, n) \in 0 .. n
      BY Places, Zenon
    <2>4. Where(Len(st.stats) + 1, n) \in 0 .. n
      BY <2>2, <2>3, Zenon
    <2>5. CASE st.value = None
      BY <1>15, <1>16, <2>1, <2>4, <2>5 DEF After
    <2>6. CASE st.value # None
      BY <1>15, <1>16, <2>1, <2>6 DEF After
    <2>7. QED
      BY <2>5, <2>6
  <1>18. st.stats = [q \in 1 .. 4 |-> Quantile(q, n, R)]
    <2>1. st.stats \in Seq(Int) /\ \A q \in 1 .. 4 : st.stats[q] = Quantile(q, n, R)
      BY <1>15, <1>17 DEF After, AreRight, Looks
    <2> DEFINE s == st.stats
               all == [q \in 1 .. 4 |-> Quantile(q, n, R)]
    <2>2. s \in [1 .. 4 -> Int]
      BY <1>17, <2>1, IsASeq DEF s
    <2>3. DOMAIN all = 1 .. 4 /\ \A q \in 1 .. 4 : all[q] = s[q]
      BY <2>1, Zenon
    <2>4. all = [q \in 1 .. 4 |-> all[q]]
      OBVIOUS
    <2> HIDE DEF s, all
    <2>5. s = all
      BY <2>2, <2>3, <2>4
    <2>6. QED
      BY <2>5 DEF s, all
  <1>19. QED
    BY <1>3, <1>18 DEF st, h, R

\* There is a kth of any values.
LEMMA RankedExists ==
    ASSUME NEW v, NEW n \in Nat \ {0}, v \in [1 .. n -> Int], NEW k \in 1 .. n
    PROVE  LET x == Output!Ranked(v, k) IN
           x \in Output!ToSet(v) /\ x \in Int /\ Below(v, x) < k /\ k <= Upto(v, x)
  <1> DEFINE b == Output!Ascending(DOMAIN Output!Counts(v))
             N == Len(b)
             C == [m \in 0 .. N |-> IF m = 0 THEN 0 ELSE Upto(v, b[m])]
             R == [j \in 1 .. n |-> Output!Ranked(v, j)]
             Enough == {m \in 1 .. N : k <= C[m]}
  <1>1. /\ Bucketed(N, b, C, n, R)
        /\ \A m \in 1 .. N : /\ b[m] \in Output!ToSet(v)
                             /\ C[m - 1] = Below(v, b[m]) /\ C[m] = Upto(v, b[m])
    BY Buckets, Zenon
  <1> HIDE DEF b, N, C, R
  <1>2. /\ N \in Nat \ {0} /\ b \in [1 .. N -> Int]
        /\ C \in [0 .. N -> Nat] /\ C[0] = 0 /\ C[N] = n
    BY <1>1, Zenon DEF Bucketed
  <1>3. Enough \subseteq Nat /\ N \in Enough
    BY <1>2
  <1>4. PICK m \in Enough : \A j \in Enough : m <= j
    <2> HIDE DEF Enough
    <2>1. QED
      BY <1>3, Least, Zenon
  <1>5. m \in 1 .. N /\ k <= C[m] /\ C[m - 1] < k
    <2>1. m \in 1 .. N /\ m - 1 \in 0 .. N /\ m - 1 < m
      BY <1>2
    <2>2. m - 1 \notin Enough
      <3> HIDE DEF Enough
      <3>1. QED
        BY <1>3, <1>4, <2>1
    <2>3. m - 1 = 0 => C[m - 1] = 0
      BY <1>2
    <2>4. m - 1 # 0 => m - 1 \in 1 .. N
      BY <1>2, <2>1
    <2>5. C[m - 1] \in Nat
      BY <1>2, <2>1
    <2>6. QED
      BY <2>1, <2>2, <2>3, <2>4, <2>5
  <1> DEFINE x == b[m]
  <1>6. x \in Output!ToSet(v) /\ x \in Int /\ Below(v, x) < k /\ k <= Upto(v, x)
    <2>1. b[m] \in Int
      BY <1>2, <1>5
    <2>2. QED
      BY <1>1, <1>5, <2>1
  <1> HIDE DEF x
  <1>7. Output!Ranked(v, k) = x
    BY <1>6, RankedIs
  <1>8. QED
    BY <1>6, <1>7, Zenon

\* A bucket is the one nearest, and of more there is a bucket no lower.
LEMMA BucketIs ==
    /\ \A x \in Int : Output!Bucket(x) \in Int /\ 3 * Output!Bucket(x) - x \in -1 .. 1
    /\ \A x, y \in Int : x <= y => Output!Bucket(x) <= Output!Bucket(y)
  BY DEF Output!Bucket

\* The kth of what is in buckets is in the bucket of the kth.
LEMMA RankedBucket ==
    ASSUME NEW d, NEW n \in Nat \ {0}, d \in [1 .. n -> Int], NEW k \in 1 .. n
    PROVE  /\ Output!Buckets(d) \in [1 .. n -> Int]
           /\ Output!Ranked(Output!Buckets(d), k) = Output!Bucket(Output!Ranked(d, k))
  <1> DEFINE w == Output!Buckets(d)
             x == Output!Ranked(d, k)
             B(y) == Output!Bucket(y)
  <1>1. w = [i \in 1 .. n |-> B(d[i])]
    BY Zenon DEF Output!Buckets
  <1>2. \A y \in Int : B(y) \in Int
    BY BucketIs
  <1>3. \A y, z \in Int : y <= z => B(y) <= B(z)
    BY BucketIs
  <1>4. x \in Output!ToSet(d) /\ x \in Int /\ Below(d, x) < k /\ k <= Upto(d, x)
    BY RankedExists, Zenon
  <1> HIDE DEF w, x, B
  <1>5. w \in [1 .. n -> Int] /\ \A i \in 1 .. n : w[i] = B(d[i]) /\ d[i] \in Int
    BY <1>1, <1>2
  <1>6. B(x) \in Output!ToSet(w)
    <2>1. PICK i \in 1 .. n : d[i] = x
      BY <1>4 DEF Output!ToSet
    <2>2. w[i] = B(x) /\ i \in DOMAIN w
      BY <1>5, <2>1
    <2>3. QED
      BY <2>2 DEF Output!ToSet
  <1>7. Below(w, B(x)) <= Below(d, x) /\ Upto(d, x) <= Upto(w, B(x))
    <2> DEFINE Less == {i \in DOMAIN d : d[i] < x}
               Most == {i \in DOMAIN w : w[i] <= B(x)}
    <2>1. {i \in DOMAIN w : w[i] < B(x)} \in SUBSET Less
      <3>1. ASSUME NEW i \in 1 .. n, w[i] < B(x) PROVE d[i] < x
        <4>1. x <= d[i] => B(x) <= B(d[i])
          BY <1>3, <1>4, <1>5
        <4>2. B(x) \in Int /\ B(d[i]) \in Int /\ d[i] \in Int /\ w[i] = B(d[i])
          BY <1>2, <1>4, <1>5
        <4>3. QED
          BY <1>4, <3>1, <4>1, <4>2
      <3>2. DOMAIN w = 1 .. n /\ DOMAIN d = 1 .. n
        BY <1>5
      <3>3. QED
        BY <3>1, <3>2
    <2>2. {i \in DOMAIN d : d[i] <= x} \in SUBSET Most
      <3>1. ASSUME NEW i \in 1 .. n, d[i] <= x PROVE w[i] <= B(x)
        BY <1>3, <1>4, <1>5, <3>1
      <3>2. DOMAIN w = 1 .. n /\ DOMAIN d = 1 .. n
        BY <1>5
      <3>3. QED
        BY <3>1, <3>2
    <2>3. IsFiniteSet(Less) /\ IsFiniteSet(Most)
      <3>1. Less \in SUBSET (1 .. n) /\ Most \in SUBSET (1 .. n)
        BY <1>5
      <3>2. IsFiniteSet(1 .. n)
        BY FS_Interval
      <3> HIDE DEF Less, Most
      <3>3. QED
        BY <3>1, <3>2, FS_Subset, Zenon
    <2>4. Cardinality({i \in DOMAIN w : w[i] < B(x)}) <= Cardinality(Less)
      <3> HIDE DEF Less, Most
      <3>1. QED
        BY <2>1, <2>3, FS_Subset
    <2>5. Cardinality({i \in DOMAIN d : d[i] <= x}) <= Cardinality(Most)
      <3> HIDE DEF Less, Most
      <3>1. QED
        BY <2>2, <2>3, FS_Subset
    <2>6. QED
      BY <2>4, <2>5, Zenon DEF Below, Upto
  <1>8. Below(w, B(x)) < k /\ k <= Upto(w, B(x))
    <2>1. /\ Below(w, B(x)) \in Int /\ Upto(w, B(x)) \in Int
          /\ Below(d, x) \in Int /\ Upto(d, x) \in Int
      BY <1>5, HowMany
    <2>2. QED
      BY <1>4, <1>7, <2>1
  <1>9. Output!Ranked(w, k) = B(x)
    BY <1>5, <1>6, <1>8, RankedIs
  <1>10. QED
    BY <1>5, <1>9 DEF w, x, B

\* Between two buckets is no farther from between the values than they are.
LEMMA Between ==
    ASSUME NEW f \in 0 .. 99, NEW a \in Int, NEW c \in Int, NEW x \in Int, NEW y \in Int,
           3 * a - x \in -1 .. 1, 3 * c - y \in -1 .. 1
    PROVE  3 * (100 * a + f * (c - a)) - (100 * x + f * (y - x)) \in -100 .. 100
  <1> DEFINE e == 3 * a - x
             g == 3 * c - y
             p == f * (c - a)
  <1>1. e \in {-1, 0, 1} /\ g \in {-1, 0, 1} /\ x = 3 * a - e /\ y = 3 * c - g
    OBVIOUS
  <1>2. p \in Int
    OBVIOUS
  <1>3. f * (y - x) = 3 * p + f * (e - g)
    <2>1. y - x = 3 * (c - a) + (e - g)
      BY <1>1
    <2> HIDE DEF e, g
    <2>2. \A r \in Int, t \in Int : f * (3 * r + t) = 3 * (f * r) + f * t
      OBVIOUS
    <2>3. c - a \in Int /\ e - g \in Int
      BY <1>1
    <2>4. QED
      BY <2>1, <2>2, <2>3
  <1>4. f * (e - g) \in Int /\ (100 * e - f * (e - g)) \in -100 .. 100
    <2> HIDE DEF e, g
    <2>1. CASE e = -1
      BY <1>1, <2>1
    <2>2. CASE e = 0
      BY <1>1, <2>2
    <2>3. CASE e = 1
      BY <1>1, <2>3
    <2>4. QED
      BY <1>1, <2>1, <2>2, <2>3
  <1> DEFINE t == f * (e - g)
  <1>5. t \in Int /\ f * (y - x) = 3 * p + t
    BY <1>3, <1>4
  <1>6. 100 * e - t \in -100 .. 100
    BY <1>4
  <1>7. 3 * (100 * a + p) - (100 * x + f * (y - x)) = 100 * e - t
    <2> DEFINE s == f * (y - x)
    <2>1. s = 3 * p + t
      BY <1>5
    <2> HIDE DEF s, p, t
    <2>2. QED
      BY <1>2, <1>5, <2>1 DEF s
  <1>8. QED
    BY <1>6, <1>7

\* What the code makes of packets is what they say.
LEMMA PacketsAre ==
    ASSUME NEW packets, Output!IsPackets(packets), NEW raw
    PROVE  Output!PacketsAgree(packets, raw)
  <1> DEFINE got == {i \in DOMAIN packets : ~Output!IsDuplicate(packets[i]) /\ ~packets[i].lost}
             double == {i \in DOMAIN packets : Output!IsDuplicate(packets[i])}
             here == Output!Received(packets)
             n == Len(here)
             d == Output!Delays(packets)
             v == Output!Buckets(d)
             t == [i \in DOMAIN here |-> here[i].ttl]
             parsed == Output!Parsed(packets, raw)
             W == {packets[k] : k \in got \cap DOMAIN packets}
  <1> SUFFICES ASSUME ~parsed.raises
               PROVE  /\ parsed.duplicated + parsed.lost + parsed.received = Len(packets)
                      /\ Output!Counted(parsed.latency) = parsed.received
                      /\ Output!Counted(parsed.ttl) = parsed.received
                      /\ parsed.received # 0 => \A q \in DOMAIN Output!quantiles :
                            3 * Output!get_stats(parsed.latency).quantiles[q]
                                - Output!NIST(Output!quantiles[q], d) \in -100 .. 100
    BY Zenon DEF Output!PacketsAgree
  <1>1. packets \in Seq(Output!ToSet(packets)) /\ Len(packets) \in Nat
    BY DEF Output!IsPackets
  <1>2. here \in Seq(W)
    <2>1. here = Output!Chosen(packets, got)
      BY Zenon DEF Output!Received
    <2> HIDE DEF got, here, W
    <2>2. Output!Chosen(packets, got) \in Seq({packets[k] : k \in got \cap DOMAIN packets})
      BY <1>1, ChosenOf
    <2>3. QED
      BY <2>1, <2>2, Zenon DEF W
  <1>3. n \in Nat /\ DOMAIN here = 1 .. n /\ \A i \in 1 .. n : here[i] \in W
    <2> HIDE DEF here, W
    <2>1. QED
      BY <1>2, LenProperties
  <1>4. \A p \in W : p.delay \in Int
    BY DEF Output!IsPackets, Output!ToSet
  <1>5. d = [i \in 1 .. n |-> here[i].delay]
    BY <1>3, Zenon DEF Output!Delays
  <1>6. Output!Cardinality(double) = 0
    <2>1. double = {}
      BY DEF Output!IsDuplicate, Output!packets_seen
    <2> HIDE DEF double
    <2>2. QED
      BY <2>1, SameCount, FS_EmptySet, Zenon
  <1>7. /\ parsed.duplicated = 0 /\ parsed.received = n /\ parsed.lost = Len(packets) - 0 - n
        /\ parsed.latency = Output!Counts(v) /\ parsed.ttl = Output!Counts(t)
    <2> HIDE DEF here, v, t, double
    <2>1. \/ parsed = [raises |-> TRUE]
          \/ \E reordered, error : parsed =
                [raises |-> FALSE,
                 sent |-> Len(packets) - Output!Cardinality(double), received |-> n,
                 duplicated |-> Output!Cardinality(double),
                 reordered |-> reordered,
                 lost |-> Len(packets) - Output!Cardinality(double) - n,
                 latency |-> Output!Counts(v), ttl |-> Output!Counts(t),
                 max_error |-> error]
      BY Zenon DEF Output!Parsed, here, v, d, t, double
    <2> HIDE DEF n, parsed
    <2>2. QED
      BY <1>6, <2>1
  <1> HIDE DEF parsed, here, W, double
  <1>8. DOMAIN t = 1 .. n /\ d \in [1 .. n -> Int]
    BY <1>3, <1>4, <1>5
  <1> HIDE DEF d, t, n
  <1>9. v \in [1 .. n -> Int]
    <2>1. v = [i \in 1 .. n |-> Output!Bucket(d[i])]
      BY <1>8, Zenon DEF Output!Buckets
    <2>2. \A i \in 1 .. n : Output!Bucket(d[i]) \in Int
      BY <1>8, BucketIs
    <2> HIDE DEF v
    <2>3. QED
      BY <2>1, <2>2
  <1> HIDE DEF v
  <1>10. Output!Counted(parsed.latency) = n /\ Output!Counted(parsed.ttl) = n
    <2>1. DOMAIN v = 1 .. n
      BY <1>9
    <2>2. QED
      BY <1>3, <1>7, <1>8, <2>1, CountsAll
  <1>11. parsed.duplicated + parsed.lost + parsed.received = Len(packets)
    BY <1>1, <1>3, <1>7
  <1>12. ASSUME n # 0, NEW q \in DOMAIN Output!quantiles
         PROVE  3 * Output!get_stats(parsed.latency).quantiles[q]
                    - Output!NIST(Output!quantiles[q], d) \in -100 .. 100
    <2> DEFINE h == parsed.latency
               R == [k \in 1 .. n |-> Output!Ranked(v, k)]
               D(k) == Output!Ranked(d, k)
    <2>1. n \in Nat \ {0} /\ h = Output!Counts(v)
      BY <1>3, <1>7, <1>12
    <2>2. Output!Quantiles(h) = [r \in 1 .. 4 |-> Quantile(r, n, R)]
      <3>1. Output!Quantiles(Output!Counts(v))
              = [r \in 1 .. 4 |-> Quantile(r, n, [k \in 1 .. n |-> Output!Ranked(v, k)])]
        BY <1>9, <2>1, QuantilesAre, Zenon
      <3> HIDE DEF h
      <3>2. QED
        BY <2>1, <3>1, Zenon DEF R
    <2>3. DOMAIN h # {}
      <3>1. DOMAIN h = {v[i] : i \in DOMAIN v}
        BY <2>1, Zenon DEF Output!Counts, Output!ToSet
      <3>2. v[1] \in {v[i] : i \in DOMAIN v}
        BY <1>9, <2>1
      <3>3. QED
        BY <3>1, <3>2
    <2>4. Output!get_stats(h).quantiles = Output!Quantiles(h)
      <3> HIDE DEF h
      <3>1. \E mode, least, most : Output!get_stats(h) =
                [mode |-> mode, minimum |-> least, maximum |-> most,
                 quantiles |-> Output!Quantiles(h)]
        BY <2>3, Zenon DEF Output!get_stats
      <3>2. QED
        BY <3>1
    <2>5. Len(d) = n /\ q \in 1 .. 4
      BY <1>8, <2>1 DEF Output!quantiles
    <2> DEFINE p == Output!quantiles[q]
               k == Output!K(p, n)
               f == Output!Place(p, n) % 100
    <2>6. k \in 0 .. n /\ f \in 0 .. 99
      <3>1. k \in 0 .. n
        BY <2>1, <2>5, Places, Zenon DEF Where
      <3>2. Output!Place(p, n) \in Int
        BY <2>1, <2>5 DEF Output!Place, Output!quantiles
      <3>3. QED
        BY <3>1, <3>2
    <2>7. Output!NIST(p, d) =
            IF k = 0 THEN 100 * D(1)
            ELSE IF k >= n THEN 100 * D(n) ELSE 100 * D(k) + f * (D(k + 1) - D(k))
      BY <2>5, Zenon DEF Output!NIST
    <2>8. Quantile(q, n, R) =
            IF k = 0 THEN 100 * R[1]
            ELSE IF k >= n THEN 100 * R[n] ELSE 100 * R[k] + f * (R[k + 1] - R[k])
      BY Zenon DEF Quantile, Where
    <2>9. \A j \in 1 .. n : R[j] \in Int /\ D(j) \in Int /\ 3 * R[j] - D(j) \in -1 .. 1
      <3> TAKE j \in 1 .. n
      <3>1. D(j) \in Int
        BY <1>8, <2>1, RankedExists, Zenon
      <3>2. R[j] = Output!Bucket(D(j))
        BY <1>8, <2>1, RankedBucket, Zenon DEF v
      <3> HIDE DEF R, D
      <3>3. QED
        BY <3>1, <3>2, BucketIs
    <2> HIDE DEF R, D, k, f, p
    <2> DEFINE Off == 3 * Quantile(q, n, R) - Output!NIST(p, d)
    <2>10. Off \in -100 .. 100
      <3>1. CASE k = 0
        <4>1. R[1] \in Int /\ D(1) \in Int /\ 3 * R[1] - D(1) \in -1 .. 1
          BY <2>1, <2>9
        <4>2. Off = 3 * (100 * R[1]) - 100 * D(1)
          BY <2>7, <2>8, <3>1, Zenon
        <4> HIDE DEF Off
        <4>3. QED
          BY <4>1, <4>2
      <3>2. CASE k # 0 /\ k >= n
        <4>1. R[n] \in Int /\ D(n) \in Int /\ 3 * R[n] - D(n) \in -1 .. 1
          BY <2>1, <2>9
        <4>2. Off = 3 * (100 * R[n]) - 100 * D(n)
          BY <2>7, <2>8, <3>2, Zenon
        <4> HIDE DEF Off
        <4>3. QED
          BY <4>1, <4>2
      <3>3. CASE k # 0 /\ ~(k >= n)
        <4>1. k \in 1 .. n /\ k + 1 \in 1 .. n
          BY <2>1, <2>6, <3>3
        <4>2. Off = 3 * (100 * R[k] + f * (R[k + 1] - R[k])) - (100 * D(k) + f * (D(k + 1) - D(k)))
          BY <2>7, <2>8, <3>3, Zenon
        <4> HIDE DEF Off
        <4>3. QED
          BY <2>6, <2>9, <4>1, <4>2, Between
      <3>4. QED
        BY <3>1, <3>2, <3>3
    <2>11. Output!get_stats(h).quantiles[q] = Quantile(q, n, R)
      BY <2>2, <2>4, <2>5
    <2> HIDE DEF h
    <2>12. QED
      BY <2>10, <2>11, Zenon DEF p, h
  <1>13. QED
    BY <1>7, <1>10, <1>11, <1>12

\* What is not heard is raised.
LEMMA HeardOrRaised ==
    \A status, body : Http!Heard(status, body) # Http!Raised
  <1> TAKE status, body
  <1>1. "status" \in DOMAIN Http!Heard(status, body) /\ "status" \notin DOMAIN Http!Raised
    BY DEF Http!Heard, Http!Raised
  <1>2. QED
    BY <1>1, Zenon

LEMMA RunnerIs ==
    ASSUME NEW reply, reply \in Http!Replies, NEW json \in BOOLEAN, NEW throw \in BOOLEAN
    PROVE  /\ Http!PycURLRunner(reply, json, throw) = Http!Raised =>
                  throw \/ (reply # None /\ reply.body \in {"junk", "bytes"})
           /\ Http!PycURLRunner(reply, FALSE, FALSE) = Http!Raised <=>
                  reply # None /\ reply.body = "bytes"
           /\ Http!PycURLRunner(reply, FALSE, FALSE) # Http!Raised =>
                  /\ Http!PycURLRunner(reply, FALSE, FALSE).body
                        = IF reply = None THEN "junk" ELSE reply.body
                  /\ Http!PycURLRunner(reply, FALSE, FALSE).status
                        = IF reply = None THEN 400
                          ELSE IF reply.status = 0 THEN 200 ELSE reply.status
  <1> DEFINE status == IF reply = None THEN 400 ELSE IF reply.status = 0 THEN 200 ELSE reply.status
             body == IF reply = None THEN "junk" ELSE reply.body
             Bad(j, t) == \/ body = "bytes"
                          \/ status \notin 200 .. 299 /\ t
                          \/ status \in 200 .. 299 /\ j /\ body \notin {"string", "json"}
  <1>1. \A j, t : Http!PycURLRunner(reply, j, t)
                    = IF Bad(j, t) THEN Http!Raised ELSE Http!Heard(status, body)
    BY Zenon DEF Http!PycURLRunner
  <1>2. reply = None => body = "junk" /\ status \notin 200 .. 299
    OBVIOUS
  <1>3. reply # None => body = reply.body /\ reply.body \in {"string", "json", "junk", "bytes"}
    BY DEF Http!Replies, Http!Bodies
  <1>4. Http!Heard(status, body).body = body /\ Http!Heard(status, body).status = status
    BY DEF Http!Heard
  <1> HIDE DEF status, body
  <1>5. \A j, t : Http!PycURLRunner(reply, j, t) = Http!Raised <=> Bad(j, t)
    <2> TAKE j, t
    <2>1. Http!Heard(status, body) # Http!Raised
      BY HeardOrRaised
    <2> HIDE DEF Bad
    <2>2. QED
      BY <1>1, <2>1, Zenon
  <1>6. Bad(FALSE, FALSE) <=> body = "bytes"
    OBVIOUS
  <1>7. Bad(json, throw) => throw \/ (reply # None /\ reply.body \in {"junk", "bytes"})
    BY <1>2, <1>3
  <1>8. body = "bytes" <=> reply # None /\ reply.body = "bytes"
    BY <1>2, <1>3
  <1> HIDE DEF Bad
  <1>9. Http!PycURLRunner(reply, FALSE, FALSE) # Http!Raised =>
            Http!PycURLRunner(reply, FALSE, FALSE) = Http!Heard(status, body)
    BY <1>1, <1>5, Zenon
  <1>10. Http!PycURLRunner(reply, json, throw) = Http!Raised =>
            throw \/ (reply # None /\ reply.body \in {"junk", "bytes"})
    BY <1>5, <1>7
  <1>11. Http!PycURLRunner(reply, FALSE, FALSE) = Http!Raised <=> reply # None /\ reply.body = "bytes"
    BY <1>5, <1>6, <1>8, Zenon
  <1>12. Http!PycURLRunner(reply, FALSE, FALSE) # Http!Raised =>
            /\ Http!PycURLRunner(reply, FALSE, FALSE).body = body
            /\ Http!PycURLRunner(reply, FALSE, FALSE).status = status
    BY <1>4, <1>9, Zenon
  <1>13. QED
    BY <1>10, <1>11, <1>12, Zenon DEF status, body

\* What servers answer is heard.
LEMMA AnswersAre ==
    ASSUME NEW replies, Http!AreReplies(replies)
    PROVE  Http!AnswersSound(replies)
  <1> DEFINE H == DOMAIN replies
             Bytes(h) == replies[h] # None /\ replies[h].body = "bytes"
             Run(h) == Http!PycURLRunner(replies[h], FALSE, FALSE)
  <1>1. "raised" \notin H /\ \A h \in H : replies[h] \in Http!Replies
    BY DEF Http!AreReplies
  <1>2. \A h \in H : /\ Run(h) = Http!Raised <=> Bytes(h)
                     /\ Run(h) # Http!Raised =>
                          /\ Run(h).body = IF replies[h] = None THEN "junk" ELSE replies[h].body
                          /\ Run(h).status = IF replies[h] = None THEN 400
                                             ELSE IF replies[h].status = 0 THEN 200
                                             ELSE replies[h].status
    BY <1>1, RunnerIs, Zenon
  <1>3. \A h \in H, json, throw \in BOOLEAN :
            Http!PycURLRunner(replies[h], json, throw) = Http!Raised =>
                throw \/ (replies[h] # None /\ replies[h].body \in {"junk", "bytes"})
    BY <1>1, RunnerIs, Zenon
  <1>4. Http!url_delete_list(replies) # Http!Raised <=> \A h \in H : ~Bytes(h)
    <2>1. [h \in H |-> Run(h)] # Http!Raised
      <3>1. DOMAIN [h \in H |-> Run(h)] = H /\ "raised" \in DOMAIN Http!Raised
        BY DEF Http!Raised
      <3> HIDE DEF Run, H
      <3>2. QED
        BY <1>1, <3>1
    <2>2. Http!url_delete_list(replies)
            = IF \E h \in H : Run(h) = Http!Raised THEN Http!Raised ELSE [h \in H |-> Run(h)]
      BY Zenon DEF Http!url_delete_list
    <2> HIDE DEF Run, H, Bytes
    <2>3. QED
      BY <1>2, <2>1, <2>2
  <1>5. LET all == Http!api_ping_all_up(replies) IN
            (IF all = Http!Raised THEN FALSE ELSE all.up) =>
                \A h \in H : /\ replies[h] # None /\ replies[h].body = "string"
                             /\ Http!api_has_pscheduler(TRUE, replies[h]).up
    <2> DEFINE all == Http!api_ping_all_up(replies)
               states == Http!api_ping_list(replies)
               Ping(h) == Http!api_ping(replies[h])
    <2> SUFFICES ASSUME all # Http!Raised, all.up, NEW h \in H
                 PROVE  /\ replies[h] # None /\ replies[h].body = "string"
                        /\ Http!api_has_pscheduler(TRUE, replies[h]).up
      BY Zenon
    <2>1. all = IF states = Http!Raised THEN Http!Raised
                ELSE [up |-> \A g \in DOMAIN states : states[g]]
      BY Zenon DEF Http!api_ping_all_up
    <2>2. states = IF \E g \in H : Ping(g) = Http!Raised THEN Http!Raised
                   ELSE [g \in H |-> Ping(g).up]
      BY Zenon DEF Http!api_ping_list
    <2>3. Ping(h) = IF Run(h) = Http!Raised THEN Http!Raised
                    ELSE [up |-> Run(h).status = 200 /\ Run(h).body = "string"]
      BY Zenon DEF Http!api_ping
    <2>4. Http!api_has_pscheduler(TRUE, replies[h])
            = IF Run(h) = Http!Raised THEN Http!Raised ELSE [up |-> Run(h).status = 200]
      BY Zenon DEF Http!api_has_pscheduler
    <2> HIDE DEF all, states, H, Run
    <2>5. states # Http!Raised /\ all.up = \A g \in DOMAIN states : states[g]
      BY <2>1
    <2>6. Ping(h) # Http!Raised /\ states = [g \in H |-> Ping(g).up]
      BY <2>2, <2>5
    <2>7. Run(h) # Http!Raised
      BY <2>3, <2>6
    <2>8. states[h] /\ states[h] = Ping(h).up
      <3> HIDE DEF Ping
      <3>1. QED
        BY <2>5, <2>6, Zenon
    <2>9. Run(h).status = 200 /\ Run(h).body = "string"
      <3> DEFINE up == Run(h).status = 200 /\ Run(h).body = "string"
      <3>1. Ping(h) = [up |-> up]
        BY <2>3, <2>7, Zenon
      <3> HIDE DEF up, Ping
      <3>2. Ping(h).up = up
        BY <3>1
      <3>3. QED
        BY <2>8, <3>2, Zenon DEF up
    <2>10. replies[h] # None /\ replies[h].body = "string"
      BY <1>2, <2>7, <2>9
    <2>11. Http!api_has_pscheduler(TRUE, replies[h]).up
      <3> DEFINE up == Run(h).status = 200
                 is == Http!api_has_pscheduler(TRUE, replies[h])
      <3>1. is = [up |-> up]
        BY <2>4, <2>7, Zenon
      <3> HIDE DEF up, is
      <3>2. is.up = up
        BY <3>1
      <3>3. QED
        BY <2>9, <3>2, Zenon DEF up, is
    <2>12. QED
      BY <2>10, <2>11, Zenon
  <1>6. (\A h \in H : ~Bytes(h)) <=> \A h \in H : replies[h] = None \/ replies[h].body # "bytes"
    OBVIOUS
  <1> HIDE DEF Bytes, Run
  <1>7. QED
    BY <1>3, <1>4, <1>5, <1>6, Zenon DEF Http!AnswersSound

\* Whatever packets powstream writes, each line is counted once, as lost or as received,
\* each packet received in either histogram, and each quantile of the histogram is within
\* half a bucket of NIST's over the delays themselves; and what servers answer is heard
\* (powstream_utils.py 155-257, latency_utils.py 73-135, psurl.py 62-91, api.py 150-261).
THEOREM OutputDoesAgree == LibrarySpec => []OutputAgrees
  <1>1. asked \in Asked => OutputAgrees
    <2> SUFFICES ASSUME asked \in Asked PROVE OutputAgrees
      OBVIOUS
    <2>1. /\ asked.of = "replies" => Http!AreReplies(asked.replies)
          /\ asked.of = "packets" => Output!IsPackets(asked.packets)
      BY AskedAssumption, Zenon DEF AskedAssumption
    <2>2. asked.of = "replies" => Http!AnswersSound(asked.replies)
      BY <2>1, AnswersAre
    <2>3. asked.of = "packets" => Output!PacketsAgree(asked.packets, asked.raw)
      BY <2>1, PacketsAre
    <2>4. QED
      BY <2>2, <2>3, Zenon DEF OutputAgrees
  <1>2. QED
    BY <1>1, AskedStays, PTL

=============================================================================
