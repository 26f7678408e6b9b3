--------------------------- MODULE QueryEngineProofs ---------------------------
(***************************************************************************)
(* Theorems about QueryEngine, for all partitions, command lines and        *)
(* numbers of threads.                                                      *)
(***************************************************************************)
EXTENDS QueryEngine, FiniteSetTheorems, WellFoundedInduction, TLAPS

-----------------------------------------------------------------------------
(* Numbers.                                                                 *)

\* Every nonempty set of natural numbers has a least element.
LEMMA SmallestNumber ==
    ASSUME NEW T \in SUBSET Nat, T # {}
    PROVE  \E x \in T : \A y \in T : x <= y
<1> DEFINE R == OpToRel(<, Nat)
<1>1. IsWellFoundedOn(R, Nat)
  BY NatLessThanWellFounded
<1>2. \A x, y \in Nat : <<x, y>> \in R <=> x < y
  BY DEF OpToRel
<1> HIDE DEF R
<1>3. PICK x \in T : \A y \in T : ~ (<<y, x>> \in R)
  BY <1>1, WFMin
<1>4. \A y \in T : ~ (y < x) /\ x \in Nat /\ y \in Nat
  BY <1>2, <1>3
<1> QED
  BY <1>3, <1>4

\* Min is the least of them.
LEMMA MinIsLeast ==
    ASSUME NEW T \in SUBSET Nat, T # {}
    PROVE  Min(T) \in T /\ \A y \in T : Min(T) <= y
<1>1. \E x \in T : \A y \in T : x <= y
  BY SmallestNumber
<1> QED
  BY <1>1 DEF Min

\* A bounded set of numbers has a greatest one, and Max is it.
LEMMA MaxIsGreatest ==
    ASSUME NEW n \in Nat, NEW T \in SUBSET (1 .. n), T # {}
    PROVE  Max(T) \in T
<1> DEFINE U == {n - x : x \in T}
<1>1. U \in SUBSET Nat /\ U # {}
  OBVIOUS
<1>2. PICK u \in U : \A v \in U : u <= v
  BY <1>1, SmallestNumber
<1>3. PICK x \in T : u = n - x
  OBVIOUS
<1>4. \A y \in T : n - x <= n - y
  BY <1>2, <1>3
<1>5. \E z \in T : \A y \in T : z >= y
  <2>1. ASSUME NEW y \in T PROVE x >= y
    <3>1. x \in Int /\ y \in Int /\ n \in Int /\ n - x <= n - y
      BY <1>4
    <3> QED
      BY ONLY <3>1
  <2> QED
    BY <2>1
<1> QED
  BY <1>5 DEF Max

-----------------------------------------------------------------------------
(* Sums.                                                                    *)

IsSums(f, values, k) ==
    /\ f \in [0 .. k -> Int]
    /\ f[0] = 0
    /\ \A n \in 1 .. k : f[n] = f[n - 1] + values[n]

LEMMA SumsExist ==
    ASSUME NEW values \in Seq(Int), NEW k \in 0 .. Len(values)
    PROVE  \E f : IsSums(f, values, k)
<1> DEFINE T == {j \in 0 .. Len(values) : ~ \E f : IsSums(f, values, j)}
<1> SUFFICES ASSUME T # {} PROVE FALSE
  OBVIOUS
<1>0. Len(values) \in Nat
  OBVIOUS
<1>1. PICK x \in T : \A y \in T : x <= y
  <2>1. T \in SUBSET Nat
    OBVIOUS
  <2> HIDE DEF T
  <2> QED
    BY <2>1, SmallestNumber
<1>2. CASE x = 0
  <2> DEFINE f == [i \in 0 .. 0 |-> 0]
  <2>1. IsSums(f, values, 0)
    BY DEF IsSums
  <2> QED
    BY <1>2, <2>1
<1>3. CASE x # 0
  <2>1. x \in Nat /\ x - 1 \in Nat /\ x - 1 \notin T /\ x \in 1 .. Len(values)
        /\ x - 1 \in 0 .. Len(values)
    BY <1>0, <1>1, <1>3
  <2>2. PICK f : IsSums(f, values, x - 1)
    BY <2>1
  <2>3. values[x] \in Int
    BY <2>1
  <2> DEFINE g == [i \in 0 .. x |-> IF i = x THEN f[x - 1] + values[x] ELSE f[i]]
  <2>4. g \in [0 .. x -> Int] /\ g[0] = 0
    BY <1>3, <2>1, <2>2, <2>3 DEF IsSums
  <2>5. ASSUME NEW n \in 1 .. x PROVE g[n] = g[n - 1] + values[n]
    <3>1. n \in 0 .. x /\ n - 1 \in 0 .. x /\ n - 1 # x /\ (n # x => n \in 1 .. x - 1)
      BY <2>1
    <3>2. g[n - 1] = f[n - 1] /\ g[n] = IF n = x THEN f[x - 1] + values[x] ELSE f[n]
      BY <3>1
    <3>3. n # x => f[n] = f[n - 1] + values[n]
      BY <2>2, <3>1 DEF IsSums
    <3> QED
      BY <3>2, <3>3
  <2>6. IsSums(g, values, x)
    BY <2>4, <2>5 DEF IsSums
  <2> QED
    BY <2>6
<1> QED
  BY <1>2, <1>3

\* Two functions with these values are the same.
LEMMA SumsAgree ==
    ASSUME NEW values, NEW k \in Nat, NEW f, NEW g, IsSums(f, values, k),
           g[0] = 0, \A n \in 1 .. k : g[n] = g[n - 1] + values[n]
    PROVE  \A n \in 0 .. k : g[n] = f[n]
<1> DEFINE T == {n \in 0 .. k : g[n] # f[n]}
<1> SUFFICES ASSUME T # {} PROVE FALSE
  OBVIOUS
<1>1. PICK x \in T : \A y \in T : x <= y
  <2>1. T \in SUBSET Nat
    OBVIOUS
  <2> HIDE DEF T
  <2> QED
    BY <2>1, SmallestNumber
<1>2. x # 0
  BY <1>1 DEF IsSums
<1>3. x \in 1 .. k /\ x - 1 \in 0 .. k /\ g[x - 1] = f[x - 1]
  BY <1>1, <1>2
<1> QED
  BY <1>1, <1>3 DEF IsSums

\* Sums has the values that it is declared to have, and no other function has.
LEMMA SumsAre ==
    ASSUME NEW values \in Seq(Int)
    PROVE  /\ IsSums(Sums(values), values, Len(values))
           /\ \A f : IsSums(f, values, Len(values)) => Sums(values)[Len(values)] = f[Len(values)]
<1> DEFINE Step(f) == [n \in 0 .. Len(values) |-> IF n = 0 THEN 0 ELSE f[n - 1] + values[n]]
           s == Sums(values)
<1>0. Len(values) \in Nat /\ Len(values) \in 0 .. Len(values)
  OBVIOUS
<1>1. PICK f : IsSums(f, values, Len(values))
  BY <1>0, SumsExist
<1>2. f = Step(f)
  BY <1>0, <1>1 DEF IsSums
<1>3. s = CHOOSE g : g = Step(g)
  BY DEF Sums
<1>4. s = Step(s)
  BY <1>2, <1>3
<1>5. s[0] = 0 /\ \A n \in 1 .. Len(values) : s[n] = s[n - 1] + values[n]
  BY <1>0, <1>4
<1>6. DOMAIN s = 0 .. Len(values) /\ s = [n \in DOMAIN s |-> s[n]]
  BY <1>4
<1> HIDE DEF s, Step
<1>7. \A n \in 0 .. Len(values) : s[n] = f[n]
  BY <1>0, <1>1, <1>5, SumsAgree
<1>8. s = f
  BY <1>1, <1>6, <1>7 DEF IsSums
<1>9. ASSUME NEW g, IsSums(g, values, Len(values))
      PROVE  s[Len(values)] = g[Len(values)]
  BY <1>0, <1>5, <1>9, SumsAgree
<1> QED
  BY <1>1, <1>8, <1>9 DEF s

-----------------------------------------------------------------------------
(* The fares of a set of records.                                           *)

FaresWithin(S) == [i \in DOMAIN table |-> IF i \in S THEN table[i].fare ELSE 0]
Fares(S) == Sums(FaresWithin(S))[Len(table)]

TableOK == table \in Seq([Columns -> Int])

\* What is used of the type of the data.
LEMMA TableIs ==
    ASSUME TableOK
    PROVE  /\ Len(table) \in Nat /\ DOMAIN table = 1 .. Len(table)
           /\ \A i \in DOMAIN table :
                  table[i].fare \in Int /\ table[i].pickup \in Int /\ table[i].location \in Int
<1>1. Len(table) \in Nat /\ DOMAIN table = 1 .. Len(table)
  BY DEF TableOK
<1>2. \A i \in DOMAIN table : table[i] \in [Columns -> Int]
  BY DEF TableOK
<1>3. "fare" \in Columns /\ "pickup" \in Columns /\ "location" \in Columns
  BY DEF Columns
<1> QED
  BY <1>1, <1>2, <1>3

LEMMA FaresWithinType ==
    ASSUME TableOK, NEW S
    PROVE  FaresWithin(S) \in Seq(Int) /\ Len(FaresWithin(S)) = Len(table)
<1>1. \A i \in DOMAIN table : table[i].fare \in Int
  BY TableIs
<1>2. DOMAIN table = 1 .. Len(table) /\ Len(table) \in Nat
  BY TableIs
<1>3. FaresWithin(S) \in [1 .. Len(table) -> Int]
  BY <1>1, <1>2 DEF FaresWithin
<1> QED
  BY <1>2, <1>3

LEMMA NoFares ==
    ASSUME TableOK
    PROVE  Fares({}) = 0
<1> DEFINE f == [n \in 0 .. Len(table) |-> 0]
<1>1. Len(table) \in Nat /\ DOMAIN table = 1 .. Len(table)
  BY DEF TableOK
<1>2. IsSums(f, FaresWithin({}), Len(table))
  BY <1>1 DEF IsSums, FaresWithin
<1>3. f[Len(table)] = 0
  BY <1>1
<1> HIDE DEF f
<1> QED
  BY <1>2, <1>3, FaresWithinType, SumsAre DEF Fares

LEMMA FaresOfOne ==
    ASSUME TableOK, NEW e \in DOMAIN table
    PROVE  Fares({e}) = table[e].fare
<1> DEFINE f == [n \in 0 .. Len(table) |-> IF n >= e THEN table[e].fare ELSE 0]
<1>1. Len(table) \in Nat /\ DOMAIN table = 1 .. Len(table) /\ e \in 1 .. Len(table)
      /\ table[e].fare \in Int
  BY TableIs
<1>2. IsSums(f, FaresWithin({e}), Len(table))
  BY <1>1 DEF IsSums, FaresWithin
<1>3. f[Len(table)] = table[e].fare
  BY <1>1
<1> HIDE DEF f
<1> QED
  BY <1>2, <1>3, FaresWithinType, SumsAre DEF Fares

LEMMA FaresOfBoth ==
    ASSUME TableOK, NEW S, NEW T, S \cap T = {}
    PROVE  /\ Fares(S \cup T) = Fares(S) + Fares(T)
           /\ Fares(S) \in Int
<1> DEFINE a == FaresWithin(S)
           b == FaresWithin(T)
           c == FaresWithin(S \cup T)
           f == [n \in 0 .. Len(table) |-> Sums(a)[n] + Sums(b)[n]]
<1>1. /\ a \in Seq(Int) /\ Len(a) = Len(table) /\ b \in Seq(Int) /\ Len(b) = Len(table)
      /\ c \in Seq(Int) /\ Len(c) = Len(table) /\ Len(table) \in Nat
  BY FaresWithinType DEF TableOK
<1>2. \A i \in 1 .. Len(table) : c[i] = a[i] + b[i] /\ a[i] \in Int /\ b[i] \in Int
  <2>1. \A i \in 1 .. Len(table) : i \in DOMAIN table /\ table[i].fare \in Int
    BY TableIs
  <2> QED
    BY <2>1 DEF FaresWithin
<1> HIDE DEF a, b, c
<1>3. IsSums(Sums(a), a, Len(table)) /\ IsSums(Sums(b), b, Len(table))
  BY <1>1, SumsAre
<1>4. IsSums(f, c, Len(table))
  <2> DEFINE p == Sums(a)
             q == Sums(b)
  <2>1. p \in [0 .. Len(table) -> Int] /\ q \in [0 .. Len(table) -> Int] /\ p[0] = 0 /\ q[0] = 0
    BY <1>3 DEF IsSums
  <2>2. \A n \in 1 .. Len(table) : p[n] = p[n - 1] + a[n] /\ q[n] = q[n - 1] + b[n]
    BY <1>3 DEF IsSums
  <2> HIDE DEF p, q
  <2>3. f = [n \in 0 .. Len(table) |-> p[n] + q[n]]
    BY DEF p, q
  <2> HIDE DEF f
  <2>4. f \in [0 .. Len(table) -> Int] /\ f[0] = 0
    BY <1>1, <2>1, <2>3
  <2>5. ASSUME NEW n \in 1 .. Len(table) PROVE f[n] = f[n - 1] + c[n]
    <3>1. n \in 0 .. Len(table) /\ n - 1 \in 0 .. Len(table)
      BY <1>1
    <3>2. /\ f[n] = p[n] + q[n] /\ f[n - 1] = p[n - 1] + q[n - 1]
          /\ p[n - 1] \in Int /\ q[n - 1] \in Int
      BY <2>1, <2>3, <3>1
    <3>3. /\ p[n] = p[n - 1] + a[n] /\ q[n] = q[n - 1] + b[n]
          /\ c[n] = a[n] + b[n] /\ a[n] \in Int /\ b[n] \in Int
      BY <1>2, <2>2
    <3> QED
      BY ONLY <3>2, <3>3, SMTT(30)
  <2> QED
    BY <2>4, <2>5 DEF IsSums
<1>5. Sums(c)[Len(table)] = f[Len(table)]
  <2> HIDE DEF f
  <2> QED
    BY <1>1, <1>4, SumsAre
<1>6. Len(table) \in 0 .. Len(table) /\ Sums(a)[Len(table)] \in Int
  BY <1>1, <1>3 DEF IsSums
<1> QED
  BY <1>5, <1>6 DEF Fares, a, b, c

\* The fares of a list of records, each there once, are those of the set: the order is
\* of no account.
LEMMA FareOfList ==
    ASSUME TableOK, NEW list \in Seq(DOMAIN table), IsInjective(list)
    PROVE  FareOf(list) = Fares(Range(list))
<1> DEFINE fares == [k \in DOMAIN list |-> table[list[k]].fare]
           Front(n) == {list[k] : k \in 1 .. n}
           f == [n \in 0 .. Len(list) |-> Fares(Front(n))]
<1>1. Len(list) \in Nat /\ DOMAIN list = 1 .. Len(list)
      /\ \A k \in 1 .. Len(list) : list[k] \in DOMAIN table
  OBVIOUS
<1>2. fares \in Seq(Int) /\ Len(fares) = Len(list)
  <2>1. \A k \in 1 .. Len(list) : table[list[k]].fare \in Int
    BY <1>1, TableIs
  <2>2. fares \in [1 .. Len(list) -> Int]
    BY <1>1, <2>1
  <2> QED
    BY <1>1, <2>2
<1>3. IsSums(f, fares, Len(list))
  <2>1. f \in [0 .. Len(list) -> Int]
    <3>1. \A S : Fares(S) \in Int
      <4>1. ASSUME NEW S PROVE Fares(S) \in Int
        <5>1. S \cap {} = {}
          OBVIOUS
        <5> QED
          BY <5>1, FaresOfBoth
      <4> QED
        BY <4>1
    <3> QED
      BY <3>1
  <2>2. f[0] = 0
    <3>1. Front(0) = {} /\ 0 \in 0 .. Len(list)
      BY <1>1
    <3> HIDE DEF Front
    <3> QED
      BY <3>1, NoFares
  <2>3. ASSUME NEW n \in 1 .. Len(list)
        PROVE  f[n] = f[n - 1] + fares[n]
    <3>1. /\ n \in 0 .. Len(list) /\ n - 1 \in 0 .. Len(list) /\ n \in DOMAIN list
          /\ list[n] \in DOMAIN table
      BY <1>1
    <3>2. Front(n) = Front(n - 1) \cup {list[n]}
      BY <1>1, <3>1
    <3>3. Front(n - 1) \cap {list[n]} = {}
      BY <1>1, <3>1 DEF IsInjective
    <3> HIDE DEF Front
    <3>4. Fares(Front(n)) = Fares(Front(n - 1)) + Fares({list[n]})
      BY <3>2, <3>3, FaresOfBoth
    <3> QED
      BY <3>1, <3>4, FaresOfOne
  <2> HIDE DEF f, fares
  <2> QED
    BY <2>1, <2>2, <2>3 DEF IsSums
<1>4. Front(Len(list)) = Range(list) /\ Len(list) \in 0 .. Len(list)
  BY <1>1 DEF Range
<1>5. FareOf(list) = Sums(fares)[Len(list)]
  BY DEF FareOf
<1>6. f[Len(list)] = Fares(Range(list))
  BY <1>4
<1> HIDE DEF f, fares, Front
<1> QED
  BY <1>2, <1>3, <1>5, <1>6, SumsAre

-----------------------------------------------------------------------------
(* The parts of a loop.                                                     *)

ThreadCount == Cardinality(OmpThreads)

LEMMA ThreadsAre == ThreadCount \in Nat \ {0} /\ OmpThreads = 1 .. ThreadCount
<1>1. ThreadCount \in Nat /\ OmpThreads = 1 .. ThreadCount /\ OmpThreads # {}
  BY OmpAssumption, FS_CardinalityType DEF ThreadCount
<1> QED
  BY <1>1

LEMMA DivisionIs ==
    ASSUME NEW n \in Nat, NEW p \in Nat \ {0}
    PROVE  /\ n \div p \in Nat /\ n % p \in Nat /\ n % p < p
           /\ n = p * (n \div p) + (n % p)
  OBVIOUS

\* The parts follow one another from the first place to the last, for any number of
\* threads, also if there are more of them than places.
LEMMA PartsFollow ==
    ASSUME NEW n \in Nat
    PROVE  /\ PartStart(n, 1) = 1 /\ PartStart(n, ThreadCount + 1) = n + 1
           /\ \A t \in 1 .. ThreadCount + 1 : PartStart(n, t) \in Nat \ {0}
           /\ \A t, u \in 1 .. ThreadCount + 1 : t <= u => PartStart(n, t) <= PartStart(n, u)
<1> DEFINE p == ThreadCount
           share == n \div p
           rest == n % p
           First(t) == (t - 1) * share + (IF t - 1 < rest THEN t - 1 ELSE rest) + 1
<1>1. p \in Nat \ {0}
  BY ThreadsAre
<1>2. share \in Nat /\ rest \in Nat /\ rest < p /\ n = p * share + rest
  BY <1>1, DivisionIs
<1>3. \A t : PartStart(n, t) = First(t)
  BY DEF PartStart, ThreadCount
<1> HIDE DEF p, share, rest
<1>4. First(1) = 1
  BY <1>2
<1>5. First(p + 1) = n + 1
  BY <1>1, <1>2
<1>6. ASSUME NEW t \in 1 .. p + 1
      PROVE  First(t) \in Nat \ {0}
  <2>1. (t - 1) * share \in Nat
    BY <1>1, <1>2
  <2> QED
    BY <1>1, <1>2, <2>1
<1>7. ASSUME NEW t \in 1 .. p + 1, NEW u \in 1 .. p + 1, t <= u
      PROVE  First(t) <= First(u)
  <2>1. t - 1 \in Nat /\ u - 1 \in Nat /\ u - t \in Nat /\ u - 1 = (t - 1) + (u - t)
    BY <1>1, <1>7
  <2>2. (u - 1) * share = (t - 1) * share + (u - t) * share
    BY <1>2, <2>1
  <2>3. (u - t) * share \in Nat /\ (t - 1) * share \in Nat
    BY <1>2, <2>1
  <2> DEFINE a == (t - 1) * share
             b == (u - t) * share
             c == (u - 1) * share
  <2>4. c = a + b /\ a \in Nat /\ b \in Nat
    BY <2>2, <2>3
  <2>5. (IF t - 1 < rest THEN t - 1 ELSE rest) <= (IF u - 1 < rest THEN u - 1 ELSE rest)
    BY <1>2, <1>7, <2>1
  <2> HIDE DEF a, b, c
  <2>6. a + (IF t - 1 < rest THEN t - 1 ELSE rest) + 1 <= c + (IF u - 1 < rest THEN u - 1 ELSE rest) + 1
    BY <1>2, <2>1, <2>4, <2>5
  <2> QED
    BY <2>6 DEF a, c
<1> HIDE DEF First
<1> QED
  BY <1>3, <1>4, <1>5, <1>6, <1>7 DEF p

\* Every place is in the part of a thread.
LEMMA PartsCover ==
    ASSUME NEW n \in Nat, NEW k \in 1 .. n
    PROVE  \E t \in OmpThreads : PartStart(n, t) <= k /\ k < PartStart(n, t + 1)
<1> DEFINE T == {t \in 1 .. ThreadCount + 1 : k < PartStart(n, t)}
<1>1. ThreadCount \in Nat \ {0} /\ OmpThreads = 1 .. ThreadCount
  BY ThreadsAre
<1>2. ThreadCount + 1 \in T
  BY <1>1, PartsFollow
<1>3. PICK u \in T : \A y \in T : u <= y
  <2>1. T \in SUBSET Nat /\ T # {}
    BY <1>1, <1>2
  <2> HIDE DEF T
  <2> QED
    BY <2>1, SmallestNumber
<1>4. u # 1
  BY <1>3, PartsFollow
<1>5. u - 1 \in 1 .. ThreadCount /\ u - 1 \notin T /\ u - 1 \in 1 .. ThreadCount + 1 /\ (u - 1) + 1 = u
  BY <1>1, <1>3, <1>4
<1>6. PartStart(n, u - 1) \in Nat
  BY <1>5, PartsFollow
<1>7. PartStart(n, u - 1) <= k
  BY <1>5, <1>6
<1> QED
  BY <1>1, <1>3, <1>5, <1>7

-----------------------------------------------------------------------------
(* The index.                                                               *)

IndexOK == indices \in SortedIndices(table)

\* The records that a binary search finds are those of the range, each once, in
\* whatever order the sort left records of the same time.
LEMMA LookupExact ==
    ASSUME TableOK, IndexOK, NEW start \in Int, NEW end \in Int
    PROVE  /\ Lookup(start, end) \in Seq(DOMAIN table)
           /\ IsInjective(Lookup(start, end))
           /\ Range(Lookup(start, end)) =
                  {i \in DOMAIN table : start <= table[i].pickup /\ table[i].pickup <= end}
<1> DEFINE n == Len(indices)
           Time(i) == table[indices[i]].pickup
           From == {i \in 1 .. n : Time(i) >= start} \cup {n + 1}
           lo == Min(From)
           Behind == {i \in lo .. n : Time(i) > end} \cup {n + 1}
           hi == Min(Behind)
           list == SubSeq(indices, lo, hi - 1)
<1>1. /\ Len(table) \in Nat /\ DOMAIN table = 1 .. Len(table)
      /\ \A i \in DOMAIN table : table[i].pickup \in Int
  BY TableIs
<1>2. /\ indices \in [1 .. Len(table) -> 1 .. Len(table)]
      /\ \A i, j \in 1 .. Len(table) : indices[i] = indices[j] => i = j
      /\ \A r \in 1 .. Len(table) : \E i \in 1 .. Len(table) : indices[i] = r
      /\ \A i, j \in 1 .. Len(table) :
             i < j => table[indices[i]].pickup <= table[indices[j]].pickup
  BY <1>1 DEF IndexOK, SortedIndices, Bijection, Injection, Surjection, IsInjective
<1>3. n = Len(table) /\ indices \in Seq(1 .. Len(table)) /\ n \in Nat
  <2>1. PICK m \in Nat : m = Len(table)
    BY <1>1
  <2>2. indices \in [1 .. m -> 1 .. m]
    BY <1>2, <2>1
  <2>3. indices \in Seq(1 .. m) /\ Len(indices) = m
    BY ONLY <2>1, <2>2, m \in Nat
  <2> QED
    BY <2>1, <2>3
<1>4. \A i \in 1 .. n : Time(i) \in Int
  BY <1>1, <1>2, <1>3
<1>5. \A i, j \in 1 .. n : i < j => Time(i) <= Time(j)
  BY <1>2, <1>3
<1> HIDE DEF n, Time
<1>6. lo \in From /\ \A i \in From : lo <= i
  <2>1. From \in SUBSET Nat /\ From # {}
    BY <1>3
  <2> HIDE DEF From
  <2> QED
    BY <2>1, MinIsLeast
<1> HIDE DEF lo
<1>7. lo \in 1 .. n + 1
  BY <1>3, <1>6
<1>8. hi \in Behind /\ \A i \in Behind : hi <= i
  <2>1. Behind \in SUBSET Nat /\ Behind # {}
    BY <1>3, <1>7
  <2> HIDE DEF Behind
  <2> QED
    BY <2>1, MinIsLeast
<1> HIDE DEF hi
<1>9. hi \in lo .. n + 1
  BY <1>3, <1>7, <1>8
<1>10. ASSUME NEW i \in 1 .. n
       PROVE  i \in lo .. hi - 1 <=> (start <= Time(i) /\ Time(i) <= end)
  <2>1. CASE i < lo
    BY <1>3, <1>4, <1>6, <1>7, <1>9, <2>1
  <2>2. CASE lo <= i /\ i < hi
    <3>1. Time(lo) >= start /\ lo \in 1 .. n
      BY <1>3, <1>6, <1>7, <1>9, <2>2
    <3>2. start <= Time(i)
      BY <1>3, <1>4, <1>5, <1>7, <2>2, <3>1
    <3>3. i \notin Behind
      BY <1>3, <1>7, <1>8, <1>9, <2>2
    <3>4. Time(i) <= end
      BY <1>3, <1>4, <1>7, <2>2, <3>3
    <3>5. i \in lo .. hi - 1
      BY <1>3, <1>7, <1>9, <2>2
    <3> QED
      BY <3>2, <3>4, <3>5
  <2>3. CASE hi <= i
    <3>1. Time(hi) > end /\ hi \in 1 .. n
      BY <1>3, <1>7, <1>8, <1>9, <2>3
    <3>2. Time(i) > end
      BY <1>3, <1>4, <1>5, <2>3, <3>1
    <3>3. i \notin lo .. hi - 1
      BY <1>3, <1>7, <1>9, <2>3
    <3> QED
      BY <1>4, <3>2, <3>3
  <2> QED
    BY <1>3, <1>7, <1>9, <2>1, <2>2, <2>3
<1> HIDE DEF From, Behind
<1>11. /\ list \in Seq(1 .. Len(table)) /\ Len(list) = hi - lo
       /\ \A k \in 1 .. hi - lo : list[k] = indices[lo + k - 1]
  BY <1>3, <1>7, <1>9 DEF n
<1>12. \A k \in 1 .. hi - lo : lo + k - 1 \in lo .. hi - 1 /\ lo + k - 1 \in 1 .. n
  BY <1>3, <1>7, <1>9
<1> HIDE DEF list
<1>13. IsInjective(list)
  <2> SUFFICES ASSUME NEW k \in 1 .. hi - lo, NEW l \in 1 .. hi - lo, list[k] = list[l]
               PROVE  k = l
    BY <1>11 DEF IsInjective
  <2>1. lo + k - 1 = lo + l - 1
    BY <1>2, <1>3, <1>11, <1>12
  <2> QED
    BY <1>7, <1>9, <2>1
<1>14. Range(list) = {i \in DOMAIN table : start <= table[i].pickup /\ table[i].pickup <= end}
  <2>1. ASSUME NEW k \in 1 .. hi - lo
        PROVE  list[k] \in DOMAIN table
               /\ start <= table[list[k]].pickup /\ table[list[k]].pickup <= end
    BY <1>1, <1>2, <1>3, <1>10, <1>11, <1>12 DEF Time
  <2>2. ASSUME NEW r \in DOMAIN table, start <= table[r].pickup, table[r].pickup <= end
        PROVE  \E k \in 1 .. hi - lo : list[k] = r
    <3>1. PICK i \in 1 .. n : indices[i] = r
      BY <1>1, <1>2, <1>3
    <3>2. i \in lo .. hi - 1
      BY <1>10, <2>2, <3>1 DEF Time
    <3>3. i - lo + 1 \in 1 .. hi - lo /\ lo + (i - lo + 1) - 1 = i
      BY <1>3, <1>7, <1>9, <3>2
    <3>4. list[i - lo + 1] = indices[lo + (i - lo + 1) - 1]
      BY <1>11, <3>3
    <3> QED
      BY <3>1, <3>3, <3>4
  <2>3. DOMAIN list = 1 .. hi - lo
    BY <1>11, <1>7, <1>9, <1>3
  <2> QED
    BY <2>1, <2>2, <2>3 DEF Range
<1>15. Lookup(start, end) = list
  BY DEF Lookup, list, hi, Behind, lo, From, Time, n
<1> QED
  BY <1>1, <1>11, <1>13, <1>14, <1>15

-----------------------------------------------------------------------------
(* What is asked.                                                           *)

OptionsOK(opt) ==
    /\ opt = [o \in DOMAIN NoOptions |-> opt[o]]
    /\ \A o \in Ranged : opt[o] \in Int

LEMMA NoOptionsOK ==
    /\ DOMAIN NoOptions = Ranged \cup {"type", "intMin", "intMax"}
    /\ \A o \in Ranged : NoOptions[o] = 0 /\ o # "type"
<1>1. DOMAIN NoOptions = Ranged \cup {"type", "intMin", "intMax"}
  BY DEF NoOptions, Ranged
<1>2. /\ NoOptions.start = 0 /\ NoOptions.end = 0 /\ NoOptions.min = 0 /\ NoOptions.max = 0
      /\ NoOptions.distMin = 0 /\ NoOptions.distMax = 0
      /\ NoOptions.passMin = 0 /\ NoOptions.passMax = 0
  BY DEF NoOptions
<1>3. \A o \in Ranged : NoOptions[o] = 0 /\ o # "type"
  BY <1>2, SMT DEF Ranged
<1> QED
  BY <1>1, <1>3

\* A command line is followed by numbers where numbers are due.
LEMMA GivenOK ==
    ASSUME NEW arguments \in CommandLines
    PROVE  OptionsOK(Given(arguments))
<1>1. arguments \in Seq(Arguments)
  BY CommandLinesAssumption
<1>2. Given(arguments) = [o \in DOMAIN NoOptions |-> Given(arguments)[o]]
  BY DEF Given
<1> SUFFICES ASSUME NEW o \in Ranged PROVE Given(arguments)[o] \in Int
  BY <1>2 DEF OptionsOK
<1> DEFINE places == {i \in DOMAIN arguments : arguments[i][1] = o}
<1>3. o \in DOMAIN NoOptions /\ NoOptions[o] \in Int /\ o # "type"
  BY NoOptionsOK
<1>4. Given(arguments)[o] = IF places = {} THEN NoOptions[o] ELSE arguments[Max(places)][2]
  BY <1>3 DEF Given
<1>5. CASE places # {}
  <2>1. Len(arguments) \in Nat /\ places \in SUBSET (1 .. Len(arguments))
    BY <1>1
  <2>2. Max(places) \in places
    BY <1>5, <2>1, MaxIsGreatest
  <2>3. arguments[Max(places)] \in Arguments /\ arguments[Max(places)][1] = o
    BY <1>1, <2>2
  <2>4. arguments[Max(places)][2] \in Int
    BY <1>3, <2>3 DEF Arguments
  <2> QED
    BY <1>4, <1>5, <2>4
<1> QED
  BY <1>3, <1>4, <1>5

\* A number in 32 bits: one that fits is left as it is.
LEMMA AsInt32Is ==
    ASSUME NEW n \in Int
    PROVE  AsInt32(n) \in Int32 /\ (n \in Int32 => AsInt32(n) = n)
<1>1. PICK h \in Nat \ {0} : h = Int32Half
  BY Int32Assumption
<1>2. PICK k \in Nat \ {0} : k = 2 * h
  BY <1>1
<1>3. (n + h) % k \in 0 .. k - 1
  BY <1>1, <1>2
<1>4. AsInt32(n) = ((n + h) % k) - h
  BY <1>1, <1>2 DEF AsInt32
<1>5. ASSUME n \in Int32 PROVE (n + h) % k = n + h
  <2>1. n + h \in 0 .. k - 1
    BY <1>1, <1>2, <1>5 DEF Int32
  <2> QED
    BY <1>2, <2>1
<1> QED
  BY <1>1, <1>2, <1>3, <1>4, <1>5 DEF Int32

LEMMA WholeType == ASSUME NEW n \in Int PROVE Whole(n) \in Int
  BY DEF Whole

\* What the casts change: the limits of passengers and of zones, and nothing else.
LEMMA NarrowedIs ==
    ASSUME NEW opt, OptionsOK(opt)
    PROVE  LET cast == Narrowed(opt)
           IN  /\ OptionsOK(cast) /\ cast.type = opt.type
               /\ \A o \in Ranged \ {"passMin", "passMax"} : cast[o] = opt[o]
               /\ cast.passMin = AsInt32(opt.passMin) /\ cast.passMax = AsInt32(opt.passMax)
               /\ opt.type = "location" => /\ cast.intMin = AsInt32(Whole(opt.min))
                                           /\ cast.intMax = AsInt32(Whole(opt.max))
               /\ \A o \in {"passMin", "passMax", "intMin", "intMax"} : cast[o] \in Int32
<1> DEFINE cast == Narrowed(opt)
           limit(o) == IF opt.type = "location" THEN AsInt32(Whole(opt[o])) ELSE 0
<1>1. DOMAIN opt = Ranged \cup {"type", "intMin", "intMax"}
  BY NoOptionsOK DEF OptionsOK
<1>2. cast = [o \in DOMAIN opt |->
                 CASE o \in {"passMin", "passMax"} -> AsInt32(opt[o])
                   [] o = "intMin" -> limit("min")
                   [] o = "intMax" -> limit("max")
                   [] OTHER -> opt[o]]
  <2>1. opt = [o \in DOMAIN opt |-> opt[o]]
    BY DEF OptionsOK
  <2> QED
    BY <2>1 DEF Narrowed
<1>3. DOMAIN cast = DOMAIN opt /\ cast = [o \in DOMAIN NoOptions |-> cast[o]]
  <2>1. DOMAIN cast = DOMAIN opt
    BY <1>2
  <2>2. DOMAIN opt = DOMAIN NoOptions
    BY <1>1, NoOptionsOK
  <2>3. cast = [o \in DOMAIN cast |-> cast[o]]
    BY <1>2
  <2> QED
    BY <2>1, <2>2, <2>3
<1> HIDE DEF cast
<1>4. cast.type = opt.type /\ \A o \in Ranged \ {"passMin", "passMax"} : cast[o] = opt[o]
  <2>1. cast.type = opt.type
    BY <1>1, <1>2
  <2>2. ASSUME NEW o \in Ranged \ {"passMin", "passMax"} PROVE cast[o] = opt[o]
    <3>1. o \in DOMAIN opt /\ o \notin {"passMin", "passMax", "intMin", "intMax"}
      BY <1>1, SMT DEF Ranged
    <3> QED
      BY <1>2, <3>1
  <2> QED
    BY <2>1, <2>2
<1>5. cast.passMin = AsInt32(opt.passMin) /\ cast.passMax = AsInt32(opt.passMax)
  BY <1>1, <1>2 DEF Ranged
<1>6. cast.intMin = limit("min") /\ cast.intMax = limit("max")
  BY <1>1, <1>2
<1>7. /\ opt.min \in Int /\ opt.max \in Int /\ opt.passMin \in Int /\ opt.passMax \in Int
  BY DEF OptionsOK, Ranged
<1>8. /\ AsInt32(opt.passMin) \in Int32 /\ AsInt32(opt.passMax) \in Int32
      /\ AsInt32(Whole(opt.min)) \in Int32 /\ AsInt32(Whole(opt.max)) \in Int32
  BY <1>7, WholeType, AsInt32Is
<1>9. 0 \in Int32 /\ \A n \in Int32 : n \in Int
  BY Int32Assumption DEF Int32
<1>10. \A o \in {"passMin", "passMax", "intMin", "intMax"} : cast[o] \in Int32
  BY <1>5, <1>6, <1>8, <1>9
<1>11. \A o \in Ranged : cast[o] \in Int
  BY <1>4, <1>9, <1>10 DEF OptionsOK
<1>12. OptionsOK(cast)
  BY <1>3, <1>11 DEF OptionsOK
<1> QED
  BY <1>4, <1>5, <1>6, <1>10, <1>12 DEF cast

RequestOK(q) ==
    /\ q.type \in Types
    /\ q.time[1] \in Int /\ q.time[2] \in Int
    /\ q.combined.time[1] \in Int /\ q.combined.time[2] \in Int

LEMMA FillRequestOK ==
    ASSUME NEW opt, opt.type \in Types, OptionsOK(opt)
    PROVE  RequestOK(FillQueryRequest(opt)) /\ FillQueryRequest(opt).type = opt.type
  BY DEF OptionsOK, Ranged, RequestOK, FillQueryRequest

KeptOf(q) == {i \in DOMAIN table : PyKeeps(q, table[i])}

\* The places the C++ node goes through hold each record that the query wants once, with
\* and without the index.
LEMMA CandidatesExact ==
    ASSUME TableOK, built => IndexOK, NEW q, RequestOK(q)
    PROVE  /\ Candidates(q) \in Seq(DOMAIN table)
           /\ IsInjective(Candidates(q))
           /\ {i \in Range(Candidates(q)) : Keeps(q, table[i])} = KeptOf(q)
<1>1. Len(table) \in Nat /\ DOMAIN table = 1 .. Len(table)
  BY DEF TableOK
<1>2. /\ AllRecords \in Seq(DOMAIN table) /\ IsInjective(AllRecords)
      /\ Range(AllRecords) = DOMAIN table
  <2>1. PICK m \in Nat : m = Len(table)
    BY <1>1
  <2>2. AllRecords = [i \in 1 .. m |-> i]
    BY <1>1, <2>1 DEF AllRecords
  <2>3. AllRecords \in Seq(1 .. m)
    BY <2>2
  <2> QED
    BY <1>1, <2>1, <2>2, <2>3 DEF IsInjective, Range
<1>3. CASE ~ built
  <2>1. Candidates(q) = AllRecords
    BY <1>3 DEF Candidates
  <2>2. \A i \in DOMAIN table : Keeps(q, table[i]) <=> PyKeeps(q, table[i])
    BY <1>3 DEF Keeps, PyKeeps, RequestOK, Types
  <2> QED
    BY <1>2, <2>1, <2>2 DEF KeptOf
<1>4. CASE built /\ q.type \in {"distance", "fare", "location"}
  <2>1. Candidates(q) = AllRecords
    BY <1>4 DEF Candidates
  <2>2. \A i \in DOMAIN table : Keeps(q, table[i]) <=> PyKeeps(q, table[i])
    BY <1>4 DEF Keeps, PyKeeps
  <2> QED
    BY <1>2, <2>1, <2>2 DEF KeptOf
<1>5. CASE built /\ q.type \in {"time", "aggregate"}
  <2>1. Candidates(q) = Lookup(q.time[1], q.time[2])
    BY <1>5 DEF Candidates
  <2>2. \A i \in DOMAIN table :
           /\ Keeps(q, table[i])
           /\ PyKeeps(q, table[i]) <=> q.time[1] <= table[i].pickup /\ table[i].pickup <= q.time[2]
    BY <1>5 DEF Keeps, PyKeeps, In
  <2>3. q.time[1] \in Int /\ q.time[2] \in Int
    BY DEF RequestOK
  <2>4. /\ Candidates(q) \in Seq(DOMAIN table) /\ IsInjective(Candidates(q))
        /\ Range(Candidates(q)) =
               {i \in DOMAIN table : q.time[1] <= table[i].pickup /\ table[i].pickup <= q.time[2]}
    BY <1>5, <2>1, <2>3, LookupExact
  <2> QED
    BY <2>2, <2>4 DEF KeptOf
<1>6. CASE built /\ q.type = "combined"
  <2> DEFINE r == q.combined.time
  <2>1. Candidates(q) = Lookup(r[1], r[2])
    BY <1>6 DEF Candidates
  <2>2. \A i \in DOMAIN table :
           PyKeeps(q, table[i]) <=>
               Keeps(q, table[i]) /\ r[1] <= table[i].pickup /\ table[i].pickup <= r[2]
    BY <1>6 DEF Keeps, PyKeeps, In
  <2>3. r[1] \in Int /\ r[2] \in Int
    BY DEF RequestOK
  <2> HIDE DEF r
  <2>4. /\ Candidates(q) \in Seq(DOMAIN table) /\ IsInjective(Candidates(q))
        /\ Range(Candidates(q)) =
               {i \in DOMAIN table : r[1] <= table[i].pickup /\ table[i].pickup <= r[2]}
    BY <1>6, <2>1, <2>3, LookupExact
  <2> QED
    BY <2>2, <2>4 DEF KeptOf
<1> QED
  BY <1>3, <1>4, <1>5, <1>6 DEF RequestOK, Types

\* What the Python node keeps is what the command line asks for, but for fares, for zones
\* whose fraction the client cuts off and for limits that 32 bits do not hold.
LEMMA KeptIsAsked ==
    ASSUME TableOK, OptionsOK(typed), typed.type \in Types \ {"fare"}, ~ CutZone, Fits,
           options = Narrowed(typed), request = FillQueryRequest(options),
           NEW i \in DOMAIN table
    PROVE  PyKeeps(request, table[i]) <=> Asked(table[i])
<1>0. /\ options.type = typed.type
      /\ \A o \in Ranged \ {"passMin", "passMax"} : options[o] = typed[o]
      /\ options.passMin = AsInt32(typed.passMin) /\ options.passMax = AsInt32(typed.passMax)
      /\ typed.type = "location" => /\ options.intMin = AsInt32(Whole(typed.min))
                                    /\ options.intMax = AsInt32(Whole(typed.max))
  BY NarrowedIs
<1>5. /\ options.start = typed.start /\ options.end = typed.end
      /\ options.min = typed.min /\ options.max = typed.max
      /\ options.distMin = typed.distMin /\ options.distMax = typed.distMax
  BY <1>0 DEF Ranged
<1>1. CASE typed.type \in {"time", "aggregate"}
  BY <1>0, <1>5, <1>1 DEF PyKeeps, Asked, FillQueryRequest
<1>2. CASE typed.type = "distance"
  BY <1>0, <1>5, <1>2 DEF PyKeeps, Asked, FillQueryRequest
<1>3. CASE typed.type = "combined"
  <2>1. typed.passMin \in Int /\ typed.passMax \in Int
    BY DEF OptionsOK, Ranged
  <2>2. options.passMin = typed.passMin /\ options.passMax = typed.passMax
    BY <1>0, <1>3, <2>1, AsInt32Is DEF Fits
  <2> QED
    BY <1>0, <1>5, <1>3, <2>2 DEF PyKeeps, Asked, FillQueryRequest
<1>4. CASE typed.type = "location"
  <2> DEFINE zone == table[i].location
             low == typed.min
             high == typed.max
  <2>1. zone \in Int /\ low \in Int /\ high \in Int
    BY TableIs DEF OptionsOK, Ranged
  <2>2. options.intMin = Whole(low) /\ options.intMax = Whole(high)
    BY <1>0, <1>4, <2>1, WholeType, AsInt32Is DEF Fits
  <2>3. PyKeeps(request, table[i]) <=> Whole(low) <= zone /\ zone <= Whole(high)
    BY <1>0, <1>4, <2>2 DEF PyKeeps, FillQueryRequest, In
  <2>4. Asked(table[i]) <=> low <= 10 * zone /\ 10 * zone <= high
    BY <1>4 DEF Asked, In
  <2>5. low > 0 => low % 10 = 0
    BY <1>4 DEF CutZone
  <2>6. high < 0 => high % 10 = 0
    BY <1>4 DEF CutZone
  <2> HIDE DEF zone, low, high
  <2>7. Whole(low) <= zone <=> low <= 10 * zone
    BY <2>1, <2>5 DEF Whole
  <2>8. zone <= Whole(high) <=> 10 * zone <= high
    BY <2>1, <2>6 DEF Whole
  <2> QED
    BY <2>3, <2>4, <2>7, <2>8
<1> QED
  BY <1>1, <1>2, <1>3, <1>4 DEF Types

-----------------------------------------------------------------------------
(* Lists in which nothing is there twice.                                   *)

\* Such a list is as long as the set of what is in it is large.
LEMMA LengthOfList ==
    ASSUME NEW S, NEW list \in Seq(S), IsInjective(list)
    PROVE  IsFiniteSet(Range(list)) /\ Cardinality(Range(list)) = Len(list)
<1>1. PICK n \in Nat : n = Len(list)
  OBVIOUS
<1>2. list \in [1 .. n -> S] /\ DOMAIN list = 1 .. n
  BY <1>1
<1>3. list \in [1 .. n -> Range(list)] /\ \A x \in Range(list) : \E k \in 1 .. n : list[k] = x
  BY <1>2 DEF Range
<1>4. list \in Bijection(1 .. n, Range(list))
  BY <1>3 DEF Bijection, Injection, Surjection
<1>5. IsFiniteSet(1 .. n) /\ Cardinality(1 .. n) = n
  BY FS_Interval
<1>6. ExistsBijection(1 .. n, Range(list))
  BY <1>4 DEF ExistsBijection
<1> QED
  BY <1>1, <1>5, <1>6, FS_Bijection

LEMMA RangeOfConcat ==
    ASSUME NEW S, NEW a \in Seq(S), NEW b \in Seq(S), IsInjective(a), IsInjective(b),
           Range(a) \cap Range(b) = {}
    PROVE  /\ a \o b \in Seq(S) /\ IsInjective(a \o b)
           /\ Range(a \o b) = Range(a) \cup Range(b)
<1> DEFINE c == a \o b
<1>1. PICK m \in Nat, n \in Nat : m = Len(a) /\ n = Len(b)
  OBVIOUS
<1>2. /\ c \in Seq(S) /\ Len(c) = m + n
      /\ \A k \in 1 .. m + n : c[k] = IF k <= m THEN a[k] ELSE b[k - m]
  BY <1>1
<1>3. DOMAIN a = 1 .. m /\ DOMAIN b = 1 .. n /\ DOMAIN c = 1 .. m + n
  BY <1>1, <1>2
<1> HIDE DEF c
<1>4. \A k \in 1 .. m : k \in 1 .. m + n /\ c[k] = a[k]
  BY <1>2
<1>5. \A k \in 1 .. n : m + k \in 1 .. m + n /\ c[m + k] = b[k]
  <2> SUFFICES ASSUME NEW k \in 1 .. n PROVE m + k \in 1 .. m + n /\ c[m + k] = b[k]
    OBVIOUS
  <2>1. m + k \in 1 .. m + n /\ ~ (m + k <= m) /\ (m + k) - m = k
    OBVIOUS
  <2> QED
    BY <1>2, <2>1
<1>6. \A k \in 1 .. m + n : k \in 1 .. m \/ (k - m \in 1 .. n /\ k = m + (k - m))
  OBVIOUS
<1>7. Range(c) = Range(a) \cup Range(b)
  <2>1. ASSUME NEW k \in 1 .. m + n PROVE c[k] \in Range(a) \cup Range(b)
    BY <1>3, <1>4, <1>5, <1>6 DEF Range
  <2>2. ASSUME NEW x \in Range(a) \cup Range(b) PROVE x \in Range(c)
    BY <1>3, <1>4, <1>5 DEF Range
  <2>3. Range(c) \subseteq Range(a) \cup Range(b)
    BY <1>3, <2>1 DEF Range
  <2> QED
    BY <2>2, <2>3
<1>8. IsInjective(c)
  <2> SUFFICES ASSUME NEW k \in 1 .. m + n, NEW l \in 1 .. m + n, c[k] = c[l] PROVE k = l
    BY <1>3 DEF IsInjective
  <2>1. \A i \in 1 .. m, j \in 1 .. n : a[i] # b[j]
    BY <1>3 DEF Range
  <2>2. CASE k \in 1 .. m /\ l \in 1 .. m
    BY <1>3, <1>4, <2>2 DEF IsInjective
  <2>3. CASE k - m \in 1 .. n /\ k = m + (k - m) /\ l - m \in 1 .. n /\ l = m + (l - m)
    <3>1. b[k - m] = b[l - m]
      BY <1>5, <2>3
    <3>2. k - m = l - m
      BY <1>3, <2>3, <3>1 DEF IsInjective
    <3> QED
      BY <3>2
  <2>4. CASE k \in 1 .. m /\ l - m \in 1 .. n /\ l = m + (l - m)
    BY <1>4, <1>5, <2>1, <2>4
  <2>5. CASE l \in 1 .. m /\ k - m \in 1 .. n /\ k = m + (k - m)
    BY <1>4, <1>5, <2>1, <2>5
  <2> QED
    BY <1>6, <2>2, <2>3, <2>4, <2>5
<1> QED
  BY <1>2, <1>7, <1>8 DEF c

LEMMA RangeOfAppend ==
    ASSUME NEW S, NEW list \in Seq(S), NEW e \in S, IsInjective(list), e \notin Range(list)
    PROVE  /\ Append(list, e) \in Seq(S) /\ IsInjective(Append(list, e))
           /\ Range(Append(list, e)) = Range(list) \cup {e}
<1>1. PICK n \in Nat : n = Len(list)
  OBVIOUS
<1> DEFINE c == Append(list, e)
<1>2. /\ c \in Seq(S) /\ Len(c) = n + 1 /\ c[n + 1] = e
      /\ \A k \in 1 .. n : c[k] = list[k]
  BY <1>1
<1>3. DOMAIN list = 1 .. n /\ DOMAIN c = 1 .. n + 1
  BY <1>1, <1>2
<1>4. \A k \in 1 .. n + 1 : k \in 1 .. n \/ k = n + 1
  OBVIOUS
<1>5. n + 1 \in 1 .. n + 1 /\ \A k \in 1 .. n : k \in 1 .. n + 1
  OBVIOUS
<1> HIDE DEF c
<1>6. IsInjective(c)
  BY <1>2, <1>3, <1>4 DEF IsInjective, Range
<1>7. Range(c) = Range(list) \cup {e}
  BY <1>2, <1>3, <1>4, <1>5 DEF Range
<1> QED
  BY <1>2, <1>6, <1>7 DEF c

-----------------------------------------------------------------------------
(* The inductive invariant.                                                 *)

TheIndex == built \in BOOLEAN /\ IF built THEN IndexOK ELSE indices = <<>>

\* Before the query there is nothing of it.
NothingYet ==
    search = "none" =>
        /\ request = FillQueryRequest(NoOptions) /\ todo = <<>>
        /\ place = [t \in OmpThreads |-> 1] /\ slice = [t \in OmpThreads |-> <<>>] /\ joined = {}
        /\ found = <<>> /\ sum = 0 /\ count = 0

\* The query is one the client can make, and the places gone through are right for it.
TheQuery ==
    search # "none" =>
        /\ OptionsOK(typed) /\ options = Narrowed(typed)
        /\ options.type \in Types /\ OptionsOK(options) /\ request = FillQueryRequest(options)
        /\ todo \in Seq(DOMAIN table) /\ IsInjective(todo)
        /\ {i \in Range(todo) : Keeps(request, table[i])} = KeptOf(request)

\* What a thread should have kept when it has gone up to a place.
KeptUpTo(t, k) ==
    {todo[j] : j \in {l \in PartStart(Len(todo), t) .. k - 1 : Keeps(request, table[todo[l]])}}

\* Each thread has kept what matches of the places it has gone through.
ThePart(t) ==
    /\ place[t] \in PartStart(Len(todo), t) .. PartEnd(t)
    /\ IsInjective(slice[t]) /\ Range(slice[t]) = KeptUpTo(t, place[t])

TheParts == search = "parallel" => \A t \in OmpThreads : ThePart(t)

\* What the threads have handed in.
Handed == UNION {Range(slice[t]) : t \in joined}

TheJoined ==
    search = "parallel" =>
        /\ \A t \in joined : place[t] = PartEnd(t)
        /\ IF request.type = "aggregate"
           THEN found = <<>> /\ sum = Fares(Handed) /\ count = Cardinality(Handed)
           ELSE IsInjective(found) /\ Range(found) = Handed /\ sum = 0 /\ count = 0

TheAnswer ==
    search = "done" =>
        /\ options.type # "aggregate" => IsInjective(found) /\ Range(found) = KeptOf(request)
        /\ sum = Fares(KeptOf(request)) /\ count = Cardinality(KeptOf(request))

EngineInv ==
    /\ TableOK /\ EngineTypeOK /\ TheIndex /\ NothingYet /\ TheQuery /\ TheParts /\ TheJoined
    /\ TheAnswer

LEMMA EngineInitInv == EngineInit => EngineInv
<1> SUFFICES ASSUME EngineInit PROVE EngineInv
  OBVIOUS
<1>1. TableOK
  BY PartitionsAssumption DEF EngineInit, TableOK
<1>2. FillQueryRequest(NoOptions).type = ""
  BY DEF FillQueryRequest, NoOptions
<1>3. EngineTypeOK
  <2>1. /\ <<>> \in Seq(DOMAIN table) /\ 0 \in Int /\ 0 \in Nat /\ Len(<<>>) = 0
        /\ 1 \in 1 .. Len(<<>>) + 1
    OBVIOUS
  <2>2. \A o \in {"passMin", "passMax", "intMin", "intMax"} : NoOptions[o] \in Int32
    <3>1. /\ NoOptions.passMin = 0 /\ NoOptions.passMax = 0
          /\ NoOptions.intMin = 0 /\ NoOptions.intMax = 0
      BY DEF NoOptions
    <3>2. 0 \in Int32
      BY Int32Assumption DEF Int32
    <3> QED
      BY <3>1, <3>2
  <2> QED
    BY <1>2, <2>1, <2>2 DEF EngineInit, EngineTypeOK
<1> QED
  BY <1>1, <1>3
  DEF EngineInit, EngineInv, TheIndex, NothingYet, TheQuery, TheParts, TheJoined, TheAnswer

LEMMA BuildKeepsInv == EngineInv /\ BuildIndexes => EngineInv'
<1> SUFFICES ASSUME EngineInv, BuildIndexes PROVE EngineInv'
  OBVIOUS
<1> USE DEF EngineInv, BuildIndexes, searchVars
<1>1. TableOK' /\ TheIndex'
  BY DEF TableOK, TheIndex, IndexOK
<1>2. EngineTypeOK'
  <2>1. Len(table) \in Nat /\ DOMAIN table = 1 .. Len(table)
    BY DEF TableOK
  <2>2. PICK p \in SortedIndices(table) : p = indices'
    OBVIOUS
  <2>3. PICK m \in Nat : m = Len(table)
    BY <2>1
  <2>4. p \in [1 .. m -> 1 .. m]
    BY <2>1, <2>2, <2>3 DEF SortedIndices, Bijection, Injection
  <2>5. p \in Seq(1 .. m)
    BY ONLY <2>3, <2>4, m \in Nat
  <2>6. indices' \in Seq(DOMAIN table')
    BY <2>1, <2>2, <2>3, <2>5
  <2> QED
    BY <2>6 DEF EngineTypeOK
<1>3. NothingYet' /\ TheQuery' /\ TheParts' /\ TheJoined' /\ TheAnswer'
  BY DEF NothingYet, TheQuery, TheParts, TheJoined, TheAnswer
<1> QED
  BY <1>1, <1>2, <1>3

LEMMA FaresType ==
    ASSUME TableOK, NEW S
    PROVE  Fares(S) \in Int
<1>1. S \cap {} = {}
  OBVIOUS
<1> QED
  BY <1>1, FaresOfBoth

LEMMA KeptIsFinite ==
    ASSUME TableOK, NEW q
    PROVE  IsFiniteSet(KeptOf(q)) /\ Cardinality(KeptOf(q)) \in Nat
<1>1. Len(table) \in Nat /\ DOMAIN table = 1 .. Len(table)
  BY DEF TableOK
<1>2. IsFiniteSet(DOMAIN table)
  BY <1>1, FS_Interval
<1>3. KeptOf(q) \in SUBSET (DOMAIN table)
  BY DEF KeptOf
<1> QED
  BY <1>2, <1>3, FS_Subset, FS_CardinalityType

LEMMA NothingIsEmpty == IsInjective(<<>>) /\ Range(<<>>) = {}
  BY DEF IsInjective, Range

\* A small time window is answered at once, any other query is cut into parts.
LEMMA SubmitKeepsInv == EngineInv /\ Submit => EngineInv'
<1> SUFFICES ASSUME EngineInv, Submit PROVE EngineInv'
  OBVIOUS
<1>1. PICK arguments \in CommandLines :
          /\ typed' = Given(arguments)
          /\ options' = ParseCli(arguments) /\ options'.type \in Types
          /\ request' = FillQueryRequest(options')
  BY DEF Submit
<1>2. PICK line, opt :
          /\ line = typed' /\ OptionsOK(line) /\ opt = Narrowed(line)
          /\ opt = options' /\ OptionsOK(opt) /\ opt.type \in Types
          /\ \A o \in {"passMin", "passMax", "intMin", "intMax"} : opt[o] \in Int32
  BY <1>1, GivenOK, NarrowedIs DEF ParseCli
<1>3. PICK q : q = request' /\ q = FillQueryRequest(opt) /\ RequestOK(q) /\ q.type = opt.type
  BY <1>1, <1>2, FillRequestOK
<1>4. PICK list : list = todo' /\ list = Candidates(q)
  BY <1>3 DEF Submit
<1>5. /\ search = "none" /\ table' = table /\ built' = built /\ indices' = indices
      /\ slice' = slice /\ joined' = joined
  BY DEF Submit
<1>6. /\ place = [t \in OmpThreads |-> 1] /\ slice = [t \in OmpThreads |-> <<>>]
      /\ joined = {} /\ found = <<>> /\ sum = 0 /\ count = 0
  BY <1>5 DEF EngineInv, NothingYet
<1>7. TableOK /\ TheIndex /\ indices \in Seq(DOMAIN table)
  BY DEF EngineInv, EngineTypeOK
<1>8. /\ list \in Seq(DOMAIN table) /\ IsInjective(list)
      /\ {i \in Range(list) : Keeps(q, table[i])} = KeptOf(q)
  BY <1>3, <1>4, <1>7, CandidatesExact DEF TheIndex
<1>9. TableOK' /\ TheIndex'
  BY <1>5, <1>7 DEF TableOK, TheIndex, IndexOK
<1>10. KeptOf(request)' = KeptOf(q)
  BY <1>3, <1>5 DEF KeptOf
<1>11. TheQuery'
  <2>1. \A i : Keeps(request, table[i])' <=> Keeps(q, table[i])
    <3>1. q.type \in Types
      BY <1>2, <1>3
    <3> QED
      BY <1>3, <1>5, <3>1 DEF Keeps, Types
  <2>2. {i \in Range(list) : Keeps(request, table[i])'} = KeptOf(q)
    BY <1>8, <2>1
  <2>3. {i \in Range(todo) : Keeps(request, table[i])}' = KeptOf(q)
    BY <1>4, <2>2
  <2> QED
    BY <1>1, <1>2, <1>4, <1>5, <1>8, <1>10, <2>3 DEF TheQuery
<1>12. PICK n \in Nat : n = Len(list)
  BY <1>8
<1>13. /\ search' \in {"parallel", "done"} /\ request'.type \in Types
       /\ <<>> \in Seq(DOMAIN table) /\ 0 \in Int /\ 0 \in Nat
  BY <1>2, <1>3 DEF Submit
<1>14. \A o \in {"passMin", "passMax", "intMin", "intMax"} : options'[o] \in Int32
  BY <1>2
<1>15. CASE q.type = "time" /\ built /\ Len(list) < SmallResult
  <2>1. /\ search' = "done" /\ found' = list /\ sum' = FareOf(todo') /\ count' = Len(list)
        /\ place' = place
    BY <1>3, <1>4, <1>15 DEF Submit
  <2>2. sum' = FareOf(list)
    BY <1>4, <2>1 DEF FareOf
  <2>3. \A i : Keeps(q, table[i])
    BY <1>15 DEF Keeps
  <2>4. Range(list) = KeptOf(q)
    BY <1>8, <2>3
  <2>5. sum' = Fares(KeptOf(q)) /\ count' = Cardinality(KeptOf(q))
    BY <1>7, <1>8, <2>1, <2>2, <2>4, FareOfList, LengthOfList
  <2>6. sum' \in Int /\ count' \in Nat
    BY <1>7, <2>5, FaresType, KeptIsFinite
  <2>7. EngineTypeOK'
    <3>1. 1 \in 1 .. n + 1
      BY <1>12
    <3>2. place' \in [OmpThreads -> 1 .. n + 1]
      BY <1>6, <2>1, <3>1
    <3> QED
      BY <1>4, <1>5, <1>6, <1>7, <1>8, <1>12, <1>13, <1>14, <2>1, <2>6, <3>2
      DEF EngineTypeOK
  <2>8. TheAnswer'
    <3>1. Fares(KeptOf(request))' = Fares(KeptOf(q))
      BY <1>5, <1>10 DEF Fares, FaresWithin
    <3>2. IsInjective(found)' /\ Range(found)' = KeptOf(q)
      BY <1>8, <2>1, <2>4 DEF IsInjective, Range
    <3>3. Cardinality(KeptOf(request))' = Cardinality(KeptOf(q))
      BY <1>10
    <3> QED
      BY <1>10, <2>5, <3>1, <3>2, <3>3 DEF TheAnswer
  <2>9. NothingYet' /\ TheParts' /\ TheJoined'
    BY <2>1 DEF NothingYet, TheParts, TheJoined
  <2> QED
    BY <1>9, <1>11, <2>7, <2>8, <2>9 DEF EngineInv
<1>16. CASE ~ (q.type = "time" /\ built /\ Len(list) < SmallResult)
  <2>1. /\ search' = "parallel" /\ place' = [t \in OmpThreads |-> PartStart(n, t)]
        /\ found' = found /\ sum' = sum /\ count' = count
    BY <1>3, <1>4, <1>12, <1>16 DEF Submit
  <2>2. \A t \in OmpThreads : PartStart(n, t) \in 1 .. n + 1
                              /\ PartStart(n, t) <= PartStart(n, t + 1)
                              /\ PartStart(n, t + 1) \in Nat
    <3>1. ThreadCount \in Nat \ {0} /\ OmpThreads = 1 .. ThreadCount
      BY ThreadsAre
    <3> SUFFICES ASSUME NEW t \in 1 .. ThreadCount
                 PROVE  /\ PartStart(n, t) \in 1 .. n + 1
                        /\ PartStart(n, t) <= PartStart(n, t + 1)
                        /\ PartStart(n, t + 1) \in Nat
      BY <3>1
    <3>2. /\ t \in 1 .. ThreadCount + 1 /\ t + 1 \in 1 .. ThreadCount + 1
          /\ ThreadCount + 1 \in 1 .. ThreadCount + 1 /\ t <= t + 1 /\ t <= ThreadCount + 1
      BY <3>1
    <3>3. /\ PartStart(n, t) \in Nat \ {0} /\ PartStart(n, t + 1) \in Nat \ {0}
          /\ PartStart(n, t) <= PartStart(n, t + 1)
          /\ PartStart(n, t) <= PartStart(n, ThreadCount + 1)
          /\ PartStart(n, ThreadCount + 1) = n + 1
      BY <3>2, PartsFollow
    <3> QED
      BY <3>3
  <2>3. EngineTypeOK'
    <3>1. place' \in [OmpThreads -> 1 .. n + 1]
      BY <2>1, <2>2
    <3> QED
      BY <1>4, <1>5, <1>6, <1>7, <1>8, <1>12, <1>13, <1>14, <2>1, <3>1
      DEF EngineTypeOK
  <2>4. TheParts'
    <3>1. ASSUME NEW t \in OmpThreads PROVE ThePart(t)'
      <4>1. place'[t] \in PartStart(n, t) .. PartStart(n, t + 1) /\ place'[t] = PartStart(n, t)
        BY <2>1, <2>2
      <4>2. slice'[t] = <<>>
        BY <1>5, <1>6
      <4>3. PartStart(n, t) .. place'[t] - 1 = {}
        BY <2>2, <4>1
      <4>4. KeptUpTo(t, place[t])' = {}
        BY <1>4, <1>12, <4>3 DEF KeptUpTo
      <4>5. PartEnd(t)' = PartStart(n, t + 1) /\ PartStart(Len(todo), t)' = PartStart(n, t)
        BY <1>4, <1>12 DEF PartEnd
      <4>6. IsInjective(slice[t])' /\ Range(slice[t])' = {}
        BY <4>2, NothingIsEmpty
      <4> QED
        BY <4>1, <4>4, <4>5, <4>6 DEF ThePart
    <3> QED
      BY <3>1 DEF TheParts
  <2>5. TheJoined'
    <3>1. Handed' = {}
      BY <1>5, <1>6 DEF Handed
    <3>2. Fares(Handed)' = Fares({})
      BY <1>5, <3>1 DEF Fares, FaresWithin
    <3>3. Fares({}) = 0 /\ Cardinality(Handed)' = 0
      BY <1>7, <3>1, NoFares, FS_EmptySet
    <3>4. IsInjective(found)' /\ Range(found)' = {}
      BY <1>6, <2>1, NothingIsEmpty
    <3> QED
      BY <1>5, <1>6, <2>1, <3>1, <3>2, <3>3, <3>4 DEF TheJoined
  <2>6. NothingYet' /\ TheAnswer'
    BY <2>1 DEF NothingYet, TheAnswer
  <2> QED
    BY <1>9, <1>11, <2>3, <2>4, <2>5, <2>6 DEF EngineInv
<1> QED
  BY <1>15, <1>16

\* A part lies between the first place and the last.
LEMMA PartBounds ==
    ASSUME NEW n \in Nat, NEW t \in OmpThreads
    PROVE  /\ PartStart(n, t) \in Nat \ {0} /\ PartStart(n, t + 1) \in Nat
           /\ PartStart(n, t) <= PartStart(n, t + 1) /\ PartStart(n, t + 1) <= n + 1
<1>1. ThreadCount \in Nat \ {0} /\ t \in 1 .. ThreadCount
  BY ThreadsAre
<1>2. /\ t \in 1 .. ThreadCount + 1 /\ t + 1 \in 1 .. ThreadCount + 1
      /\ ThreadCount + 1 \in 1 .. ThreadCount + 1 /\ t <= t + 1 /\ t + 1 <= ThreadCount + 1
  BY <1>1
<1> QED
  BY <1>2, PartsFollow

\* No record is kept by two threads.
LEMMA PartsApart ==
    ASSUME NEW S, todo \in Seq(S), IsInjective(todo),
           NEW t \in OmpThreads, NEW u \in OmpThreads, t # u,
           NEW j \in Int, j <= PartEnd(t), NEW k \in Int, k <= PartEnd(u)
    PROVE  KeptUpTo(t, j) \cap KeptUpTo(u, k) = {}
<1>1. PICK n \in Nat : n = Len(todo)
  OBVIOUS
<1>2. DOMAIN todo = 1 .. n
  BY <1>1
<1>3. /\ PartStart(n, t) \in Nat \ {0} /\ PartStart(n, t + 1) \in Nat /\ PartStart(n, t + 1) <= n + 1
      /\ PartStart(n, u) \in Nat \ {0} /\ PartStart(n, u + 1) \in Nat /\ PartStart(n, u + 1) <= n + 1
  BY PartBounds
<1>4. PartEnd(t) = PartStart(n, t + 1) /\ PartEnd(u) = PartStart(n, u + 1)
  BY <1>1 DEF PartEnd
<1>5. PartStart(n, t + 1) <= PartStart(n, u) \/ PartStart(n, u + 1) <= PartStart(n, t)
  <2>1. ThreadCount \in Nat \ {0} /\ t \in 1 .. ThreadCount /\ u \in 1 .. ThreadCount
    BY ThreadsAre
  <2>2. CASE t < u
    <3>1. t + 1 \in 1 .. ThreadCount + 1 /\ u \in 1 .. ThreadCount + 1 /\ t + 1 <= u
      BY <2>1, <2>2
    <3> QED
      BY <3>1, PartsFollow
  <2>3. CASE u < t
    <3>1. u + 1 \in 1 .. ThreadCount + 1 /\ t \in 1 .. ThreadCount + 1 /\ u + 1 <= t
      BY <2>1, <2>3
    <3> QED
      BY <3>1, PartsFollow
  <2> QED
    BY <2>1, <2>2, <2>3
<1> SUFFICES ASSUME NEW a \in PartStart(n, t) .. j - 1, NEW b \in PartStart(n, u) .. k - 1,
                    todo[a] = todo[b]
             PROVE  FALSE
  BY <1>1 DEF KeptUpTo
<1>6. a \in 1 .. n /\ b \in 1 .. n /\ a # b
  BY <1>3, <1>4, <1>5
<1> QED
  BY <1>2, <1>6 DEF IsInjective

LEMMA ScanKeepsInv == ASSUME NEW t \in OmpThreads, EngineInv, ScanRecord(t) PROVE EngineInv'
<1> DEFINE i == todo[place[t]]
<1>1. /\ search = "parallel" /\ search' = search /\ place[t] < PartEnd(t)
      /\ place' = [place EXCEPT ![t] = place[t] + 1]
      /\ slice' = IF Keeps(request, table[i]) THEN [slice EXCEPT ![t] = Append(slice[t], i)] ELSE slice
      /\ table' = table /\ built' = built /\ indices' = indices /\ typed' = typed
      /\ options' = options
      /\ request' = request /\ todo' = todo /\ joined' = joined
      /\ found' = found /\ sum' = sum /\ count' = count
  BY DEF ScanRecord
<1>2. /\ TableOK /\ EngineTypeOK /\ TheIndex /\ TheQuery /\ TheParts /\ TheJoined
  BY DEF EngineInv
<1>3. TableOK' /\ TheIndex'
  BY <1>1, <1>2 DEF TableOK, TheIndex, IndexOK
<1>5. /\ options.type \in Types /\ OptionsOK(options) /\ request = FillQueryRequest(options)
      /\ todo \in Seq(DOMAIN table) /\ IsInjective(todo)
  BY <1>1, <1>2 DEF TheQuery
<1>6. PICK n \in Nat : n = Len(todo) /\ DOMAIN todo = 1 .. n
  BY <1>5
<1>7. /\ place \in [OmpThreads -> 1 .. n + 1] /\ slice \in [OmpThreads -> Seq(DOMAIN table)]
  BY <1>2, <1>6 DEF EngineTypeOK
<1>8. \A u \in OmpThreads : ThePart(u)
  BY <1>1, <1>2 DEF TheParts
<1>9. PartEnd(t) = PartStart(n, t + 1) /\ PartStart(Len(todo), t) = PartStart(n, t)
  BY <1>6 DEF PartEnd
<1>10. /\ PartStart(n, t) \in Nat \ {0} /\ PartStart(n, t + 1) \in Nat
       /\ PartStart(n, t + 1) <= n + 1
       /\ place[t] \in PartStart(n, t) .. PartStart(n, t + 1)
  BY <1>8, <1>9, PartBounds DEF ThePart
<1>11. place[t] \in 1 .. n /\ place[t] + 1 \in 1 .. n + 1 /\ i \in DOMAIN table
       /\ place[t] + 1 \in PartStart(n, t) .. PartStart(n, t + 1)
       /\ (place[t] + 1) - 1 = place[t]
  BY <1>1, <1>5, <1>6, <1>9, <1>10
<1>12. IsInjective(slice[t]) /\ Range(slice[t]) = KeptUpTo(t, place[t])
  BY <1>8 DEF ThePart
<1>13. i \notin Range(slice[t])
  <2> SUFFICES ASSUME NEW l \in PartStart(n, t) .. place[t] - 1, todo[l] = i PROVE FALSE
    BY <1>9, <1>12 DEF KeptUpTo
  <2>1. l \in 1 .. n /\ l # place[t]
    BY <1>10, <1>11
  <2> QED
    BY <1>5, <1>6, <1>11, <2>1 DEF IsInjective
<1>14. KeptUpTo(t, place[t] + 1) = KeptUpTo(t, place[t]) \cup (IF Keeps(request, table[i]) THEN {i} ELSE {})
  <2>1. \A l \in Int : l \in PartStart(n, t) .. place[t] <=> l \in PartStart(n, t) .. place[t] - 1 \/ l = place[t]
    BY <1>10
  <2>2. \A l : l \in PartStart(n, t) .. place[t] <=> l \in PartStart(n, t) .. place[t] - 1 \/ l = place[t]
    BY <1>10, <2>1
  <2> QED
    BY <1>9, <1>11, <2>2 DEF KeptUpTo
<1>15. /\ slice'[t] \in Seq(DOMAIN table) /\ IsInjective(slice'[t])
       /\ Range(slice'[t]) = KeptUpTo(t, place[t] + 1)
  <2>1. CASE Keeps(request, table[i])
    <3>1. slice'[t] = Append(slice[t], i)
      BY <1>1, <1>7, <2>1
    <3>2. slice[t] \in Seq(DOMAIN table)
      BY <1>7
    <3>3. /\ Append(slice[t], i) \in Seq(DOMAIN table) /\ IsInjective(Append(slice[t], i))
          /\ Range(Append(slice[t], i)) = Range(slice[t]) \cup {i}
      BY <1>11, <1>12, <1>13, <3>2, RangeOfAppend
    <3> QED
      BY <1>12, <1>14, <2>1, <3>1, <3>3
  <2>2. CASE ~ Keeps(request, table[i])
    BY <1>1, <1>7, <1>12, <1>14, <2>2
  <2> QED
    BY <2>1, <2>2
<1>16. place'[t] = place[t] + 1 /\ \A u \in OmpThreads : u # t => place'[u] = place[u] /\ slice'[u] = slice[u]
  BY <1>1, <1>7
<1>17. EngineTypeOK'
  <2>1. place' \in [OmpThreads -> 1 .. n + 1]
    BY <1>1, <1>7, <1>11
  <2>2. slice' \in [OmpThreads -> Seq(DOMAIN table)]
    BY <1>1, <1>7, <1>15
  <2> QED
    BY <1>1, <1>2, <1>6, <2>1, <2>2 DEF EngineTypeOK
<1>18. ASSUME NEW u, NEW k
       PROVE  KeptUpTo(u, k)' = KeptUpTo(u, k)
  <2>1. \A l : Keeps(request, table[todo[l]])' <=> Keeps(request, table[todo[l]])
    BY <1>1 DEF Keeps
  <2>2. {l \in PartStart(Len(todo), u) .. k - 1 : Keeps(request, table[todo[l]])}' =
            {l \in PartStart(Len(todo), u) .. k - 1 : Keeps(request, table[todo[l]])}
    BY <1>1, <2>1
  <2> QED
    BY <1>1, <2>2 DEF KeptUpTo
<1>19. TheParts'
  <2>1. ASSUME NEW u \in OmpThreads PROVE ThePart(u)'
    <3>1. PICK k : k = place'[u]
      OBVIOUS
    <3>2. KeptUpTo(u, place[u])' = KeptUpTo(u, k)
      BY <1>18, <3>1
    <3>3. PartEnd(u)' = PartEnd(u) /\ PartStart(Len(todo), u)' = PartStart(Len(todo), u)
      BY <1>1 DEF PartEnd
    <3>4. CASE u = t
      <4>1. k = place[t] + 1
        BY <1>16, <3>1, <3>4
      <4>2. IsInjective(slice[u])' /\ Range(slice[u])' = KeptUpTo(t, place[t] + 1)
        BY <1>15, <3>4
      <4>3. place'[u] \in PartStart(Len(todo), u) .. PartEnd(u)
        BY <1>9, <1>11, <1>16, <3>4
      <4> QED
        BY <3>1, <3>2, <3>3, <3>4, <4>1, <4>2, <4>3 DEF ThePart
    <3>5. CASE u # t
      <4>1. k = place[u] /\ slice'[u] = slice[u]
        BY <1>16, <3>1, <3>5
      <4>2. ThePart(u)
        BY <1>8
      <4> QED
        BY <3>1, <3>2, <3>3, <4>1, <4>2 DEF ThePart
    <3> QED
      BY <3>4, <3>5
  <2> QED
    BY <2>1 DEF TheParts
<1>20. t \notin joined
  BY <1>1, <1>2, <1>7, <1>9, <1>10 DEF TheJoined
<1>21. \A u \in joined : place'[u] = place[u] /\ slice'[u] = slice[u] /\ u \in OmpThreads
  BY <1>2, <1>16, <1>20 DEF EngineTypeOK
<1>22. Handed' = Handed
  BY <1>1, <1>21 DEF Handed
<1>23. TheJoined'
  <2>1. Fares(Handed)' = Fares(Handed)
    BY <1>1, <1>22 DEF Fares, FaresWithin
  <2>2. \A u \in joined : PartEnd(u)' = PartEnd(u)
    BY <1>1 DEF PartEnd
  <2> QED
    BY <1>1, <1>2, <1>21, <1>22, <2>1, <2>2 DEF TheJoined
<1>24. TheQuery'
  <2>1. \A i0 : Keeps(request, table[i0])' <=> Keeps(request, table[i0])
    BY <1>1 DEF Keeps
  <2>2. KeptOf(request)' = KeptOf(request)
    BY <1>1 DEF KeptOf
  <2> QED
    BY <1>1, <1>2, <2>1, <2>2 DEF TheQuery
<1>25. NothingYet' /\ TheAnswer'
  BY <1>1 DEF NothingYet, TheAnswer
<1> QED
  BY <1>3, <1>17, <1>19, <1>23, <1>24, <1>25 DEF EngineInv

LEMMA JoinKeepsInv == ASSUME NEW t \in OmpThreads, EngineInv, JoinPart(t) PROVE EngineInv'
<1>1. /\ search = "parallel" /\ search' = search /\ place[t] = PartEnd(t) /\ t \notin joined
      /\ joined' = joined \cup {t}
      /\ table' = table /\ built' = built /\ indices' = indices /\ typed' = typed
      /\ options' = options
      /\ request' = request /\ todo' = todo /\ place' = place /\ slice' = slice
      /\ IF request.type = "aggregate"
         THEN /\ sum' = sum + FareOf(slice[t]) /\ count' = count + Len(slice[t])
              /\ found' = found
         ELSE found' = found \o slice[t] /\ sum' = sum /\ count' = count
  BY DEF JoinPart
<1>2. TableOK /\ EngineTypeOK /\ TheIndex /\ TheQuery /\ TheParts /\ TheJoined
  BY DEF EngineInv
<1>3. TableOK' /\ TheIndex'
  BY <1>1, <1>2 DEF TableOK, TheIndex, IndexOK
<1>4. todo \in Seq(DOMAIN table) /\ IsInjective(todo)
  BY <1>1, <1>2 DEF TheQuery
<1>5. /\ joined \subseteq OmpThreads /\ found \in Seq(DOMAIN table) /\ sum \in Int /\ count \in Nat
      /\ place \in [OmpThreads -> 1 .. Len(todo) + 1]
      /\ \A u \in OmpThreads : slice[u] \in Seq(DOMAIN table)
  BY <1>2 DEF EngineTypeOK
<1>6. \A u \in OmpThreads : ThePart(u)
  BY <1>1, <1>2 DEF TheParts
<1>7. \A u \in joined : place[u] = PartEnd(u)
  BY <1>1, <1>2 DEF TheJoined
<1> DEFINE mine == Range(slice[t])
<1>8. /\ slice[t] \in Seq(DOMAIN table) /\ IsInjective(slice[t])
      /\ mine = KeptUpTo(t, place[t])
  BY <1>5, <1>6 DEF ThePart
<1>9. Handed \cap mine = {}
  <2>1. ASSUME NEW u \in joined PROVE Range(slice[u]) \cap mine = {}
    <3>1. u \in OmpThreads /\ u # t
      BY <1>1, <1>5
    <3>2. place[u] \in Int /\ place[t] \in Int /\ place[u] <= PartEnd(u) /\ place[t] <= PartEnd(t)
      BY <1>1, <1>5, <1>7, <3>1
    <3>3. Range(slice[u]) = KeptUpTo(u, place[u])
      BY <1>6, <3>1 DEF ThePart
    <3>4. KeptUpTo(u, place[u]) \cap KeptUpTo(t, place[t]) = {}
      BY <1>4, <3>1, <3>2, PartsApart
    <3> QED
      BY <1>8, <3>3, <3>4
  <2> QED
    BY <2>1 DEF Handed
<1>10. Handed' = Handed \cup mine
  BY <1>1 DEF Handed
<1>11. IsFiniteSet(Handed) /\ Cardinality(Handed) \in Nat
  <2>1. ASSUME NEW u \in joined PROVE Range(slice[u]) \subseteq DOMAIN table
    <3>1. slice[u] \in Seq(DOMAIN table)
      BY <1>5
    <3> QED
      BY <3>1 DEF Range
  <2>2. Handed \in SUBSET (DOMAIN table)
    BY <2>1 DEF Handed
  <2>3. Len(table) \in Nat /\ DOMAIN table = 1 .. Len(table)
    BY <1>2 DEF TableOK
  <2>4. IsFiniteSet(DOMAIN table)
    BY <2>3, FS_Interval
  <2> QED
    BY <2>2, <2>4, FS_Subset, FS_CardinalityType
<1>12. IsFiniteSet(mine) /\ Cardinality(mine) = Len(slice[t]) /\ Len(slice[t]) \in Nat
  BY <1>8, LengthOfList
<1>13. TheJoined' /\ found' \in Seq(DOMAIN table) /\ sum' \in Int /\ count' \in Nat
  <2>1. \A u \in joined' : place'[u] = PartEnd(u)'
    BY <1>1, <1>7 DEF PartEnd
  <2>2. CASE request.type = "aggregate"
    <3>1. found = <<>> /\ sum = Fares(Handed) /\ count = Cardinality(Handed)
      BY <1>1, <1>2, <2>2 DEF TheJoined
    <3>2. Fares(Handed)' = Fares(Handed \cup mine)
      BY <1>1, <1>10 DEF Fares, FaresWithin
    <3>3. Fares(Handed \cup mine) = Fares(Handed) + Fares(mine)
      BY <1>2, <1>9, FaresOfBoth
    <3>4. FareOf(slice[t]) = Fares(mine)
      BY <1>2, <1>8, FareOfList
    <3>5. sum' = Fares(Handed)'
      BY <1>1, <2>2, <3>1, <3>2, <3>3, <3>4
    <3>6. Cardinality(Handed \cup mine) = Cardinality(Handed) + Cardinality(mine)
      <4>1. Cardinality(Handed \cap mine) = 0
        BY <1>9, FS_EmptySet
      <4>2. Cardinality(Handed \cup mine) =
                Cardinality(Handed) + Cardinality(mine) - Cardinality(Handed \cap mine)
        BY <1>11, <1>12, FS_Union
      <4> QED
        BY <1>11, <1>12, <4>1, <4>2
    <3>7. count' = Cardinality(Handed)' /\ count' \in Nat
      BY <1>1, <1>5, <1>10, <1>12, <2>2, <3>1, <3>6
    <3>8. sum' \in Int
      BY <1>2, <3>2, <3>5, FaresType
    <3> QED
      BY <1>1, <1>5, <2>1, <2>2, <3>1, <3>5, <3>7, <3>8 DEF TheJoined
  <2>3. CASE request.type # "aggregate"
    <3>1. IsInjective(found) /\ Range(found) = Handed /\ sum = 0 /\ count = 0
      BY <1>1, <1>2, <2>3 DEF TheJoined
    <3>2. found' = found \o slice[t] /\ sum' = sum /\ count' = count
      BY <1>1, <2>3
    <3>3. /\ found \o slice[t] \in Seq(DOMAIN table) /\ IsInjective(found \o slice[t])
          /\ Range(found \o slice[t]) = Handed \cup mine
      BY <1>5, <1>8, <1>9, <3>1, RangeOfConcat
    <3>4. IsInjective(found)' /\ Range(found)' = Handed'
      BY <1>10, <3>2, <3>3
    <3> QED
      BY <1>1, <1>5, <2>1, <2>3, <3>1, <3>2, <3>3, <3>4 DEF TheJoined
  <2> QED
    BY <2>2, <2>3
<1>14. EngineTypeOK'
  BY <1>1, <1>2, <1>13 DEF EngineTypeOK
<1>15. TheParts'
  <2>1. \A l : Keeps(request, table[todo[l]])' <=> Keeps(request, table[todo[l]])
    BY <1>1 DEF Keeps
  <2>2. ASSUME NEW u \in OmpThreads PROVE ThePart(u)'
    <3>1. PICK k : k = place[u]
      OBVIOUS
    <3>2. {l \in PartStart(Len(todo), u) .. k - 1 : Keeps(request, table[todo[l]])}' =
              {l \in PartStart(Len(todo), u) .. k - 1 : Keeps(request, table[todo[l]])}
      BY <1>1, <2>1
    <3>3. KeptUpTo(u, k)' = KeptUpTo(u, k)
      BY <1>1, <3>2 DEF KeptUpTo
    <3>4. KeptUpTo(u, place[u])' = KeptUpTo(u, place[u])
      BY <1>1, <3>1, <3>3
    <3>5. ThePart(u)
      BY <1>6
    <3> QED
      BY <1>1, <3>4, <3>5 DEF ThePart, PartEnd
  <2> QED
    BY <2>2 DEF TheParts
<1>16. TheQuery'
  <2>1. \A i : Keeps(request, table[i])' <=> Keeps(request, table[i])
    BY <1>1 DEF Keeps
  <2>2. KeptOf(request)' = KeptOf(request)
    BY <1>1 DEF KeptOf
  <2> QED
    BY <1>1, <1>2, <2>1, <2>2 DEF TheQuery
<1>17. NothingYet' /\ TheAnswer'
  BY <1>1 DEF NothingYet, TheAnswer
<1> QED
  BY <1>3, <1>13, <1>14, <1>15, <1>16, <1>17 DEF EngineInv

\* When every thread has handed in its part, what they have handed in is the answer.
LEMMA HandedIsAll ==
    ASSUME EngineInv, search = "parallel", joined = OmpThreads
    PROVE  Handed = KeptOf(request)
<1>1. TableOK /\ EngineTypeOK /\ TheQuery /\ TheParts /\ TheJoined
  BY DEF EngineInv
<1>2. /\ todo \in Seq(DOMAIN table)
      /\ {i \in Range(todo) : Keeps(request, table[i])} = KeptOf(request)
  BY <1>1 DEF TheQuery
<1>3. PICK n \in Nat : n = Len(todo) /\ DOMAIN todo = 1 .. n
  BY <1>2
<1>4. \A t \in OmpThreads : Range(slice[t]) = KeptUpTo(t, PartStart(n, t + 1))
  BY <1>1, <1>3 DEF TheParts, ThePart, TheJoined, PartEnd
<1>5. ASSUME NEW r \in Handed PROVE r \in KeptOf(request)
  <2>1. PICK t \in OmpThreads : r \in KeptUpTo(t, PartStart(n, t + 1))
    BY <1>4 DEF Handed
  <2>2. PICK l \in PartStart(n, t) .. PartStart(n, t + 1) - 1 :
            r = todo[l] /\ Keeps(request, table[todo[l]])
    BY <1>3, <2>1 DEF KeptUpTo
  <2>3. l \in 1 .. n
    <3>1. /\ PartStart(n, t) \in Nat \ {0} /\ PartStart(n, t + 1) \in Nat
          /\ PartStart(n, t + 1) <= n + 1
      BY PartBounds
    <3> QED
      BY <2>2, <3>1
  <2>4. r \in Range(todo)
    BY <1>3, <2>2, <2>3 DEF Range
  <2> QED
    BY <1>2, <2>2, <2>4
<1>6. ASSUME NEW r \in KeptOf(request) PROVE r \in Handed
  <2>1. r \in Range(todo) /\ Keeps(request, table[r])
    BY <1>2
  <2>2. PICK l \in 1 .. n : r = todo[l]
    BY <1>3, <2>1 DEF Range
  <2>3. PICK t \in OmpThreads : PartStart(n, t) <= l /\ l < PartStart(n, t + 1)
    BY PartsCover
  <2>4. l \in PartStart(n, t) .. PartStart(n, t + 1) - 1
    BY <2>3, PartBounds
  <2>5. r \in KeptUpTo(t, PartStart(n, t + 1))
    BY <1>3, <2>1, <2>2, <2>4 DEF KeptUpTo
  <2> QED
    BY <1>4, <2>5 DEF Handed
<1> QED
  BY <1>5, <1>6

LEMMA EndKeepsInv == EngineInv /\ EndSearch => EngineInv'
<1> SUFFICES ASSUME EngineInv, EndSearch PROVE EngineInv'
  OBVIOUS
<1>1. /\ search = "parallel" /\ joined = OmpThreads /\ search' = "done"
      /\ table' = table /\ built' = built /\ indices' = indices /\ typed' = typed
      /\ options' = options
      /\ request' = request /\ todo' = todo /\ place' = place /\ slice' = slice
      /\ joined' = joined /\ found' = found
      /\ IF request.type = "aggregate" THEN sum' = sum /\ count' = count
         ELSE sum' = FareOf(found) /\ count' = Len(found)
  BY DEF EndSearch
<1>2. TableOK /\ EngineTypeOK /\ TheIndex /\ TheQuery /\ TheJoined
  BY DEF EngineInv
<1>3. TableOK' /\ TheIndex'
  BY <1>1, <1>2 DEF TableOK, TheIndex, IndexOK
<1>4. Handed = KeptOf(request)
  BY <1>1, HandedIsAll
<1>5. options.type \in Types /\ OptionsOK(options) /\ request = FillQueryRequest(options)
  BY <1>1, <1>2 DEF TheQuery
<1>6. request.type = options.type
  BY <1>5, FillRequestOK
<1>7. found \in Seq(DOMAIN table)
  BY <1>2 DEF EngineTypeOK
<1>8. sum' = Fares(KeptOf(request)) /\ count' = Cardinality(KeptOf(request))
  <2>1. CASE request.type = "aggregate"
    BY <1>1, <1>2, <1>4, <2>1 DEF TheJoined
  <2>2. CASE request.type # "aggregate"
    <3>1. IsInjective(found) /\ Range(found) = KeptOf(request)
      BY <1>1, <1>2, <1>4, <2>2 DEF TheJoined
    <3> QED
      BY <1>1, <1>2, <1>7, <2>2, <3>1, FareOfList, LengthOfList
  <2> QED
    BY <2>1, <2>2
<1>9. sum' \in Int /\ count' \in Nat
  BY <1>2, <1>8, FaresType, KeptIsFinite
<1>10. EngineTypeOK'
  BY <1>1, <1>2, <1>9 DEF EngineTypeOK
<1>11. KeptOf(request)' = KeptOf(request)
  BY <1>1 DEF KeptOf
<1>12. TheAnswer'
  <2>1. Fares(KeptOf(request))' = Fares(KeptOf(request))
    BY <1>1, <1>11 DEF Fares, FaresWithin
  <2>2. options.type # "aggregate" => IsInjective(found) /\ Range(found) = KeptOf(request)
    BY <1>1, <1>2, <1>4, <1>6 DEF TheJoined
  <2> QED
    BY <1>1, <1>8, <1>11, <2>1, <2>2 DEF TheAnswer
<1>13. TheQuery'
  <2>1. \A i : Keeps(request, table[i])' <=> Keeps(request, table[i])
    BY <1>1 DEF Keeps
  <2> QED
    BY <1>1, <1>2, <1>11, <2>1 DEF TheQuery
<1>14. NothingYet' /\ TheParts' /\ TheJoined'
  BY <1>1 DEF NothingYet, TheParts, TheJoined
<1> QED
  BY <1>3, <1>10, <1>12, <1>13, <1>14 DEF EngineInv

LEMMA StutterKeepsEngineInv == EngineInv /\ UNCHANGED engineVars => EngineInv'
<1> SUFFICES ASSUME EngineInv, UNCHANGED engineVars PROVE EngineInv'
  OBVIOUS
<1>1. /\ table' = table /\ built' = built /\ indices' = indices /\ typed' = typed
      /\ options' = options
      /\ request' = request /\ search' = search /\ todo' = todo /\ place' = place
      /\ slice' = slice /\ joined' = joined /\ found' = found /\ sum' = sum /\ count' = count
  BY DEF engineVars
<1>2. TableOK' /\ EngineTypeOK' /\ TheIndex' /\ NothingYet'
  BY <1>1 DEF EngineInv, TableOK, EngineTypeOK, TheIndex, IndexOK, NothingYet
<1>3. KeptOf(request)' = KeptOf(request)
  BY <1>1 DEF KeptOf
<1>4. \A i : Keeps(request, i)' <=> Keeps(request, i)
  BY <1>1 DEF Keeps
<1>5. TheQuery'
  <2>1. \A i : Keeps(request, table[i])' <=> Keeps(request, table[i])
    BY <1>1 DEF Keeps
  <2> QED
    BY <1>1, <1>3, <2>1 DEF EngineInv, TheQuery
<1>6. TheParts'
  <2>1. \A l : Keeps(request, table[todo[l]])' <=> Keeps(request, table[todo[l]])
    BY <1>1 DEF Keeps
  <2>2. ASSUME NEW u \in OmpThreads, ThePart(u) PROVE ThePart(u)'
    <3>1. PICK k : k = place[u]
      OBVIOUS
    <3>2. {l \in PartStart(Len(todo), u) .. k - 1 : Keeps(request, table[todo[l]])}' =
              {l \in PartStart(Len(todo), u) .. k - 1 : Keeps(request, table[todo[l]])}
      BY <1>1, <2>1
    <3>3. KeptUpTo(u, k)' = KeptUpTo(u, k)
      BY <1>1, <3>2 DEF KeptUpTo
    <3>4. KeptUpTo(u, place[u])' = KeptUpTo(u, place[u])
      BY <1>1, <3>1, <3>3
    <3> QED
      BY <1>1, <2>2, <3>4 DEF ThePart, PartEnd
  <2> QED
    BY <1>1, <2>2 DEF EngineInv, TheParts
<1>7. Handed' = Handed
  BY <1>1 DEF Handed
<1>8. Fares(Handed)' = Fares(Handed) /\ Fares(KeptOf(request))' = Fares(KeptOf(request))
  BY <1>1, <1>3, <1>7 DEF Fares, FaresWithin
<1>9. TheJoined'
  BY <1>1, <1>7, <1>8 DEF EngineInv, TheJoined, PartEnd
<1>10. TheAnswer'
  BY <1>1, <1>3, <1>8 DEF EngineInv, TheAnswer
<1> QED
  BY <1>2, <1>5, <1>6, <1>9, <1>10 DEF EngineInv

LEMMA EngineInvHolds == EngineSpec => []EngineInv
<1>1. EngineInv /\ [EngineNext]_engineVars => EngineInv'
  <2> SUFFICES ASSUME EngineInv, [EngineNext]_engineVars PROVE EngineInv'
    OBVIOUS
  <2>1. CASE BuildIndexes
    BY <2>1, BuildKeepsInv
  <2>2. CASE Submit
    BY <2>2, SubmitKeepsInv
  <2>3. CASE EndSearch
    BY <2>3, EndKeepsInv
  <2>4. ASSUME NEW t \in OmpThreads, ScanRecord(t) PROVE EngineInv'
    BY <2>4, ScanKeepsInv
  <2>5. ASSUME NEW t \in OmpThreads, JoinPart(t) PROVE EngineInv'
    BY <2>5, JoinKeepsInv
  <2>6. CASE UNCHANGED engineVars
    BY <2>6, StutterKeepsEngineInv
  <2> QED
    BY <2>1, <2>2, <2>3, <2>4, <2>5, <2>6 DEF EngineNext
<1> QED
  BY EngineInitInv, <1>1, PTL DEF EngineSpec

-----------------------------------------------------------------------------

\* Every variable keeps its type: a search goes through records of the data only, no
\* thread leaves its part, and the count of an aggregate is not negative.
THEOREM EngineTypeCorrect == EngineSpec => []EngineTypeOK
<1>1. EngineInv => EngineTypeOK
  BY DEF EngineInv
<1> QED
  BY <1>1, EngineInvHolds, PTL

\* A search returns what the command line asks for, each record once and no other, for all
\* data, any number of threads and any order in which they come, through the client's
\* casts: a fare, zones given with a fraction and limits of 2^31 or more are left out.
THEOREM AnswerCorrect == EngineSpec => []ExactAnswer
<1>1. EngineInv => ExactAnswer
  <2> SUFFICES ASSUME EngineInv, search = "done", typed.type \notin {"aggregate", "fare"},
                      ~ CutZone, Fits
               PROVE  IsInjective(found) /\ Range(found) = {i \in DOMAIN table : Asked(table[i])}
    BY DEF ExactAnswer
  <2>1. /\ TableOK /\ OptionsOK(typed) /\ options = Narrowed(typed) /\ options.type \in Types
        /\ request = FillQueryRequest(options)
    BY DEF EngineInv, TheQuery
  <2>2. options.type = typed.type
    BY <2>1, NarrowedIs
  <2>3. IsInjective(found) /\ Range(found) = KeptOf(request)
    BY <2>2 DEF EngineInv, TheAnswer
  <2>4. \A i \in DOMAIN table : PyKeeps(request, table[i]) <=> Asked(table[i])
    BY <2>1, <2>2, KeptIsAsked
  <2> QED
    BY <2>3, <2>4 DEF KeptOf
<1> QED
  BY <1>1, EngineInvHolds, PTL

\* The C++ node and the Python node answer a request with the same records, the same
\* sum and the same count, with and without the time index.
THEOREM AgreementCorrect == EngineSpec => []NodesAgree
<1>1. EngineInv => NodesAgree
  <2> SUFFICES ASSUME EngineInv, search = "done" PROVE NodesAgree
    BY DEF NodesAgree
  <2>1. /\ options.type # "aggregate" => Range(found) = KeptOf(request)
        /\ sum = Fares(KeptOf(request)) /\ count = Cardinality(KeptOf(request))
    BY DEF EngineInv, TheAnswer
  <2>2. KeptOf(request) = PyMatched
    BY DEF KeptOf, PyMatched
  <2>3. PySum = Fares(PyMatched)
    BY DEF PySum, Fares, FaresWithin
  <2> QED
    BY <2>1, <2>2, <2>3 DEF NodesAgree
<1> QED
  BY <1>1, EngineInvHolds, PTL
===============================================================================
