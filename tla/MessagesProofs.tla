---------------------------- MODULE MessagesProofs ----------------------------
(***************************************************************************)
(* Theorems about Messages, for every type of message of the protocol, all  *)
(* values of the fields and any number of calls.                            *)
(***************************************************************************)
EXTENDS Messages, WellFoundedInduction, SequenceTheorems, TLAPS

-----------------------------------------------------------------------------
(* Numbers and sequences.                                                   *)

LEMMA LeastNumber ==
    ASSUME NEW S, S \subseteq Nat, S # {}
    PROVE  \E least \in S : \A n \in S : least <= n
<1> DEFINE R == OpToRel(<, Nat)
<1>1. IsWellFoundedOn(R, Nat)
  BY NatLessThanWellFounded, Zenon
<1>2. PICK least \in S : \A n \in S : <<n, least>> \notin R
  BY <1>1, WFMin, Zenon
<1>3. \A n \in S : ~ (n < least)
  BY <1>2 DEF OpToRel
<1> QED
  BY <1>3

\* Counting up from zero.
LEMMA Upward ==
    ASSUME NEW S, 0 \in S, \A n \in Nat : n \in S => n + 1 \in S
    PROVE  Nat \subseteq S
<1> DEFINE Missing == {n \in Nat : n \notin S}
<1> SUFFICES ASSUME Missing # {} PROVE FALSE
  OBVIOUS
<1>1. PICK least \in Missing : \A n \in Missing : least <= n
  <2>1. Missing \subseteq Nat /\ Missing # {}
    OBVIOUS
  <2> HIDE DEF Missing
  <2> QED
    BY <2>1, LeastNumber, Zenon
<1>2. least \in Nat /\ least # 0 /\ least \notin S
  BY <1>1
<1>3. PICK before \in Nat : before + 1 = least
  <2>1. least - 1 \in Nat /\ (least - 1) + 1 = least
    BY <1>2
  <2> QED
    BY <2>1
<1>4. before \in S
  BY <1>1, <1>3
<1> QED
  BY <1>2, <1>3, <1>4

-----------------------------------------------------------------------------
(* Sums.                                                                    *)

\* The recursion that a sum is defined by.
SumsUp(sizes, sum) == sum = [n \in Nat |-> IF n = 0 THEN 0 ELSE sum[n - 1] + sizes[n]]

\* There is a function that satisfies it.
LEMMA SumsExist ==
    ASSUME NEW sizes
    PROVE  \E sum : SumsUp(sizes, sum)
<1> DEFINE UpTo(m, g) == g = [n \in 0 .. m |-> IF n = 0 THEN 0 ELSE g[n - 1] + sizes[n]]
           S == {m \in Nat : \E g : UpTo(m, g)}
<1>1. 0 \in S
  <2>1. UpTo(0, [n \in 0 .. 0 |-> 0])
    OBVIOUS
  <2> QED
    BY <2>1
<1>2. ASSUME NEW m \in Nat, m \in S PROVE m + 1 \in S
  <2>1. PICK g : UpTo(m, g)
    BY <1>2
  <2> DEFINE h == [n \in 0 .. m + 1 |-> IF n = m + 1 THEN g[m] + sizes[m + 1] ELSE g[n]]
  <2>2. ASSUME NEW n \in 0 .. m + 1 PROVE h[n] = IF n = 0 THEN 0 ELSE h[n - 1] + sizes[n]
    <3>1. CASE n = m + 1
      <4>1. n # 0 /\ n - 1 = m /\ m # m + 1 /\ m \in 0 .. m + 1 /\ n \in 0 .. m + 1
        BY <3>1
      <4>2. h[n - 1] = g[m] /\ h[n] = g[m] + sizes[n]
        BY <4>1, <3>1
      <4> QED
        BY <4>1, <4>2
    <3>2. CASE n # m + 1
      <4>1. n \in 0 .. m /\ n - 1 # m + 1
        BY <3>2
      <4>2. h[n] = g[n] /\ (n # 0 => h[n - 1] = g[n - 1])
        BY <4>1
      <4> QED
        BY <2>1, <4>1, <4>2
    <3> QED
      BY <3>1, <3>2
  <2>3. UpTo(m + 1, h)
    BY <2>2
  <2>4. \E g2 : UpTo(m + 1, g2)
    <3> HIDE DEF UpTo, h
    <3> QED
      BY <2>3
  <2> QED
    BY <2>4
<1>3. Nat \subseteq S
  <2> HIDE DEF S
  <2> QED
    BY <1>1, <1>2, Upward, Zenon
<1> DEFINE G(m) == CHOOSE g : UpTo(m, g)
<1>4. ASSUME NEW m \in Nat PROVE UpTo(m, G(m))
  BY <1>3
<1> HIDE DEF G
<1> DEFINE Same == {n \in Nat : \A m \in Nat : n <= m => G(m)[n] = G(n)[n]}
<1>5. 0 \in Same
  BY <1>4
<1>6. ASSUME NEW n \in Nat, n \in Same PROVE n + 1 \in Same
  <2> SUFFICES ASSUME NEW m \in Nat, n + 1 <= m PROVE G(m)[n + 1] = G(n + 1)[n + 1]
    OBVIOUS
  <2>1. G(m)[n + 1] = G(m)[n] + sizes[n + 1]
    BY <1>4
  <2>2. G(n + 1)[n + 1] = G(n + 1)[n] + sizes[n + 1]
    BY <1>4
  <2>3. G(m)[n] = G(n)[n] /\ G(n + 1)[n] = G(n)[n]
    BY <1>6
  <2> QED
    BY <2>1, <2>2, <2>3
<1>7. Nat \subseteq Same
  <2> HIDE DEF Same
  <2> QED
    BY <1>5, <1>6, Upward, Zenon
<1> DEFINE sum == [n \in Nat |-> G(n)[n]]
<1>8. ASSUME NEW n \in Nat PROVE sum[n] = IF n = 0 THEN 0 ELSE sum[n - 1] + sizes[n]
  <2>1. CASE n = 0
    BY <1>4, <2>1
  <2>2. CASE n # 0
    <3>1. G(n)[n] = G(n)[n - 1] + sizes[n]
      BY <1>4, <2>2
    <3>2. n - 1 \in Nat /\ n - 1 <= n
      BY <2>2
    <3>3. G(n)[n - 1] = G(n - 1)[n - 1]
      BY <1>7, <3>2
    <3> QED
      BY <2>2, <3>1, <3>2, <3>3
  <2> QED
    BY <2>1, <2>2
<1>9. SumsUp(sizes, sum)
  BY <1>8 DEF SumsUp
<1> QED
  BY <1>9

\* The sum of the first n of a sequence.
First(sizes, n) == (CHOOSE sum : SumsUp(sizes, sum))[n]

LEMMA FirstStep ==
    ASSUME NEW sizes, NEW n \in Nat
    PROVE  First(sizes, 0) = 0 /\ First(sizes, n + 1) = First(sizes, n) + sizes[n + 1]
<1> DEFINE sum == CHOOSE sum : SumsUp(sizes, sum)
<1>1. SumsUp(sizes, sum)
  BY SumsExist
<1> HIDE DEF sum
<1>2. sum[0] = 0 /\ sum[n + 1] = sum[n] + sizes[n + 1]
  BY <1>1 DEF SumsUp
<1> QED
  BY <1>2 DEF First, sum

LEMMA TotalIsFirst ==
    ASSUME NEW sizes
    PROVE  Total(sizes) = First(sizes, Len(sizes))
  BY Zenon DEF Total, First, SumsUp


LEMMA FirstIsInt ==
    ASSUME NEW sizes, NEW last \in Nat, \A n \in 1 .. last : sizes[n] \in Int
    PROVE  \A n \in 0 .. last : First(sizes, n) \in Int
<1> DEFINE S == {n \in Nat : n <= last => First(sizes, n) \in Int}
<1>1. 0 \in S
  BY FirstStep
<1>2. ASSUME NEW n \in Nat, n \in S PROVE n + 1 \in S
  <2> SUFFICES ASSUME n + 1 <= last PROVE First(sizes, n + 1) \in Int
    OBVIOUS
  <2>1. First(sizes, n) \in Int /\ sizes[n + 1] \in Int
    BY <1>2
  <2>2. First(sizes, n + 1) = First(sizes, n) + sizes[n + 1]
    BY FirstStep
  <2> QED
    BY <2>1, <2>2
<1>3. Nat \subseteq S
  <2> HIDE DEF S
  <2> QED
    BY <1>1, <1>2, Upward, Zenon
<1> QED
  BY <1>3

LEMMA TotalIsInt ==
    ASSUME NEW last \in Nat, NEW sizes \in [1 .. last -> Int]
    PROVE  Total(sizes) \in Int /\ Total(sizes) = First(sizes, last)
<1>1. Len(sizes) = last
  OBVIOUS
<1>2. First(sizes, last) \in Int
  <2>1. \A n \in 1 .. last : sizes[n] \in Int
    OBVIOUS
  <2>2. last \in 0 .. last
    OBVIOUS
  <2> QED
    BY <2>1, <2>2, FirstIsInt
<1> QED
  BY <1>1, <1>2, TotalIsFirst

\* The sum goes on with what stands behind the first numbers.
LEMMA SumContinues ==
    ASSUME NEW sizes, NEW from \in Nat, NEW last \in Nat, NEW part,
           \A n \in 1 .. from + last : sizes[n] \in Int,
           \A n \in 1 .. last : part[n] = sizes[from + n]
    PROVE  First(sizes, from + last) = First(sizes, from) + First(part, last)
<1> DEFINE S == {n \in Nat : n <= last => First(sizes, from + n) = First(sizes, from) + First(part, n)}
<1>1. \A n \in 0 .. from + last : First(sizes, n) \in Int
  <2>1. from + last \in Nat
    OBVIOUS
  <2> QED
    BY <2>1, FirstIsInt
<1>2. \A n \in 0 .. last : First(part, n) \in Int
  <2>1. \A n \in 1 .. last : part[n] \in Int
    OBVIOUS
  <2> QED
    BY <2>1, FirstIsInt
<1>3. 0 \in S
  <2>1. First(part, 0) = 0 /\ First(sizes, from) \in Int /\ from + 0 = from
    BY <1>1, FirstStep
  <2> QED
    BY <2>1
<1>4. ASSUME NEW n \in Nat, n \in S PROVE n + 1 \in S
  <2> SUFFICES ASSUME n + 1 <= last
               PROVE  First(sizes, from + (n + 1)) = First(sizes, from) + First(part, n + 1)
    OBVIOUS
  <2>1. First(part, n + 1) = First(part, n) + part[n + 1]
    BY FirstStep
  <2>2. First(sizes, (from + n) + 1) = First(sizes, from + n) + sizes[(from + n) + 1]
    <3>1. from + n \in Nat
      OBVIOUS
    <3> QED
      BY <3>1, FirstStep
  <2>3. First(sizes, from + n) = First(sizes, from) + First(part, n)
    BY <1>4
  <2>4. (from + n) + 1 = from + (n + 1) /\ part[n + 1] = sizes[from + (n + 1)]
    OBVIOUS
  <2>5. /\ First(sizes, from) \in Int /\ First(part, n) \in Int
        /\ sizes[from + (n + 1)] \in Int
    BY <1>1, <1>2
  <2> QED
    BY <2>1, <2>2, <2>3, <2>4, <2>5
<1>5. Nat \subseteq S
  <2> HIDE DEF S
  <2> QED
    BY <1>3, <1>4, Upward, Zenon
<1> QED
  BY <1>5

\* The same numbers have the same sum.
LEMMA SameSum ==
    ASSUME NEW last \in Nat, NEW one, NEW other,
           \A n \in 1 .. last : one[n] \in Int /\ other[n] = one[n]
    PROVE  First(other, last) = First(one, last)
<1>1. First(one, 0 + last) = First(one, 0) + First(other, last)
  <2>1. \A n \in 1 .. 0 + last : one[n] \in Int
    OBVIOUS
  <2>2. \A n \in 1 .. last : other[n] = one[0 + n]
    OBVIOUS
  <2> QED
    BY <2>1, <2>2, SumContinues
<1>2. First(one, 0) = 0
  BY FirstStep
<1>3. First(other, last) \in Int
  <2>1. \A n \in 1 .. last : other[n] \in Int
    OBVIOUS
  <2>2. last \in 0 .. last
    OBVIOUS
  <2> QED
    BY <2>1, <2>2, FirstIsInt
<1> QED
  BY <1>1, <1>2, <1>3

LEMMA SumOfZeros ==
    ASSUME NEW last \in Nat, NEW sizes, \A n \in 1 .. last : sizes[n] = 0
    PROVE  First(sizes, last) = 0
<1> DEFINE S == {n \in Nat : n <= last => First(sizes, n) = 0}
<1>1. 0 \in S
  BY FirstStep
<1>2. ASSUME NEW n \in Nat, n \in S PROVE n + 1 \in S
  <2> SUFFICES ASSUME n + 1 <= last PROVE First(sizes, n + 1) = 0
    OBVIOUS
  <2>1. First(sizes, n + 1) = First(sizes, n) + sizes[n + 1]
    BY FirstStep
  <2>2. First(sizes, n) = 0 /\ sizes[n + 1] = 0
    BY <1>2
  <2> QED
    BY <2>1, <2>2
<1>3. Nat \subseteq S
  <2> HIDE DEF S
  <2> QED
    BY <1>1, <1>2, Upward, Zenon
<1> QED
  BY <1>3

\* Two sums that differ in one number.
LEMMA OneChanged ==
    ASSUME NEW last \in Nat, NEW one, NEW other, NEW place \in 1 .. last,
           \A n \in 1 .. last : one[n] \in Int /\ other[n] \in Int,
           \A n \in 1 .. last : n # place => other[n] = one[n]
    PROVE  First(one, last) - one[place] = First(other, last) - other[place]
<1>1. PICK before \in Nat : before + 1 = place
  <2>1. place - 1 \in Nat /\ (place - 1) + 1 = place
    OBVIOUS
  <2> QED
    BY <2>1
<1>2. PICK rest \in Nat : place + rest = last
  <2>1. last - place \in Nat /\ place + (last - place) = last
    OBVIOUS
  <2> QED
    BY <2>1
<1> DEFINE behind == [n \in 1 .. rest |-> one[place + n]]
<1>3. First(one, place + rest) = First(one, place) + First(behind, rest)
  <2>1. place \in Nat /\ \A n \in 1 .. rest : behind[n] = one[place + n]
    OBVIOUS
  <2> HIDE DEF behind
  <2> QED
    BY <1>2, <2>1, SumContinues
<1>4. First(other, place + rest) = First(other, place) + First(behind, rest)
  <2>1. place \in Nat /\ \A n \in 1 .. rest : behind[n] = other[place + n]
    BY <1>2
  <2> HIDE DEF behind
  <2> QED
    BY <1>2, <2>1, SumContinues
<1>5. First(one, place) = First(one, before) + one[place]
  BY <1>1, FirstStep
<1>6. First(other, place) = First(other, before) + other[place]
  BY <1>1, FirstStep
<1>7. First(other, before) = First(one, before)
  <2>1. \A n \in 1 .. before : one[n] \in Int /\ other[n] = one[n]
    BY <1>1, <1>2
  <2> QED
    BY <2>1, SameSum
<1>8. First(one, before) \in Int
  <2>1. before \in 0 .. last
    BY <1>1, <1>2
  <2> QED
    BY <2>1, FirstIsInt
<1>9. First(behind, rest) \in Int
  <2>1. \A n \in 1 .. rest : behind[n] \in Int
    BY <1>2
  <2>2. rest \in 0 .. rest
    OBVIOUS
  <2> HIDE DEF behind
  <2> QED
    BY <2>1, <2>2, FirstIsInt
<1> HIDE DEF behind
<1> QED
  BY <1>2, <1>3, <1>4, <1>5, <1>6, <1>7, <1>8, <1>9

\* A sum in another order.
Orders(last) ==
    {p \in [1 .. last -> 1 .. last] :
        /\ \A i, j \in 1 .. last : p[i] = p[j] => i = j
        /\ \A j \in 1 .. last : \E i \in 1 .. last : p[i] = j}

SumInOrder(last, sizes, p) == First([n \in 1 .. last |-> sizes[p[n]]], last) = First(sizes, last)

LEMMA OrderExtends ==
    ASSUME NEW n \in Nat,
           \A sizes \in [1 .. n -> Int], p \in Orders(n) : SumInOrder(n, sizes, p),
           NEW sizes \in [1 .. n + 1 -> Int], NEW p \in Orders(n + 1)
    PROVE  SumInOrder(n + 1, sizes, p)
<1> DEFINE m == n + 1
           t == [i \in 1 .. m |-> sizes[p[i]]]
           front == [i \in 1 .. n |-> sizes[i]]
<1>1. PICK r \in 1 .. m : p[r] = m
  BY DEF Orders
<1> DEFINE p2 == [i \in 1 .. n |-> IF i = r THEN p[m] ELSE p[i]]
           t2 == [i \in 1 .. n |-> front[p2[i]]]
<1>2. m \in 1 .. m /\ n \in Nat /\ \A i \in 1 .. n : i \in 1 .. m /\ i # m
  OBVIOUS
<1>3. \A i \in 1 .. m : p[i] \in 1 .. m
  BY DEF Orders
<1>4. p2 \in Orders(n)
  <2>1. ASSUME NEW i \in 1 .. n PROVE p2[i] \in 1 .. n
    <3>1. CASE i = r
      <4>1. p[m] # m
        BY <1>1, <1>2, <3>1 DEF Orders
      <4>2. p2[i] = p[m] /\ p[m] \in 1 .. m
        BY <1>2, <1>3, <3>1
      <4> QED
        BY <4>1, <4>2
    <3>2. CASE i # r
      <4>1. p[i] # m
        BY <1>1, <1>2, <3>2 DEF Orders
      <4>2. p2[i] = p[i] /\ p[i] \in 1 .. m
        BY <1>2, <1>3, <3>2
      <4> QED
        BY <4>1, <4>2
    <3> QED
      BY <3>1, <3>2
  <2>2. \A i, j \in 1 .. n : p2[i] = p2[j] => i = j
    BY <1>1, <1>2 DEF Orders
  <2>3. ASSUME NEW j \in 1 .. n PROVE \E i \in 1 .. n : p2[i] = j
    <3>1. PICK i \in 1 .. m : p[i] = j
      BY <1>2 DEF Orders
    <3>2. CASE i = m
      <4>1. r # m
        BY <1>1, <1>2, <3>1, <3>2
      <4>2. r \in 1 .. n /\ p2[r] = j
        BY <3>1, <3>2, <4>1
      <4> QED
        BY <4>2
    <3>3. CASE i # m
      <4>1. i # r /\ i \in 1 .. n
        BY <1>1, <1>2, <3>1, <3>3
      <4> QED
        BY <3>1, <4>1
    <3> QED
      BY <3>2, <3>3
  <2>4. p2 \in [1 .. n -> 1 .. n]
    BY <2>1
  <2> HIDE DEF p2
  <2> QED
    BY <2>2, <2>3, <2>4 DEF Orders
<1>5. First(t2, n) = First(front, n)
  <2>1. front \in [1 .. n -> Int]
    BY <1>2
  <2> HIDE DEF front, p2
  <2> QED
    BY <1>4, <2>1 DEF SumInOrder
<1>6. First(front, n) = First(sizes, n)
  <2>1. \A i \in 1 .. n : sizes[i] \in Int /\ front[i] = sizes[i]
    BY <1>2
  <2> HIDE DEF front
  <2> QED
    BY <2>1, SameSum
<1>7. First(sizes, m) = First(sizes, n) + sizes[m]
  BY FirstStep
<1>8. First(t, m) = First(t, n) + t[m]
  <2> HIDE DEF t
  <2> QED
    BY FirstStep
<1>9. \A i \in 1 .. m : t[i] = sizes[p[i]] /\ t[i] \in Int
  BY <1>3
<1>10. ASSUME NEW i \in 1 .. n PROVE t2[i] = sizes[p2[i]] /\ t2[i] \in Int
  <2>1. p2[i] \in 1 .. n
    <3> HIDE DEF p2
    <3> QED
      BY <1>4 DEF Orders
  <2> HIDE DEF p2
  <2> QED
    BY <1>2, <2>1
<1>11. First(t, n) \in Int /\ First(t2, n) \in Int
  <2>1. \A i \in 1 .. n : t[i] \in Int /\ t2[i] \in Int
    BY <1>2, <1>9, <1>10
  <2>2. n \in 0 .. n
    OBVIOUS
  <2> HIDE DEF t, t2
  <2> QED
    BY <2>1, <2>2, FirstIsInt
<1>12. CASE r = m
  <2>1. \A i \in 1 .. n : t2[i] \in Int /\ t[i] = t2[i]
    BY <1>2, <1>9, <1>10, <1>12
  <2>2. First(t, n) = First(t2, n)
    <3> HIDE DEF t, t2
    <3> QED
      BY <2>1, SameSum
  <2>3. t[m] = sizes[m]
    BY <1>1, <1>2, <1>12
  <2> HIDE DEF t, t2, front
  <2>4. First(t, m) = First(sizes, m)
    BY <1>5, <1>6, <1>7, <1>8, <2>2, <2>3
  <2> QED
    BY <2>4 DEF SumInOrder, t
<1>13. CASE r # m
  <2>1. r \in 1 .. n
    BY <1>1, <1>13
  <2>2. \A i \in 1 .. n : t[i] \in Int /\ t2[i] \in Int
    BY <1>2, <1>9, <1>10
  <2>3. \A i \in 1 .. n : i # r => t2[i] = t[i]
    BY <1>2, <1>9, <1>10
  <2>4. First(t, n) - t[r] = First(t2, n) - t2[r]
    <3> HIDE DEF t, t2
    <3> QED
      BY <2>1, <2>2, <2>3, OneChanged
  <2>5. t[r] = sizes[m] /\ t2[r] = t[m]
    BY <1>1, <1>2, <1>9, <1>10, <2>1
  <2>6. t[r] \in Int /\ t[m] \in Int
    BY <1>1, <1>2, <1>9
  <2> HIDE DEF t, t2, front
  <2>7. First(t, m) = First(sizes, m)
    BY <1>5, <1>6, <1>7, <1>8, <1>11, <2>4, <2>5, <2>6
  <2> QED
    BY <2>7 DEF SumInOrder, t
<1> QED
  BY <1>12, <1>13

\* A sum does not depend on the order of what is added.
LEMMA AnyOrder ==
    ASSUME NEW last \in Nat, NEW sizes \in [1 .. last -> Int], NEW p \in Orders(last)
    PROVE  SumInOrder(last, sizes, p)
<1> DEFINE S == {n \in Nat : \A s \in [1 .. n -> Int], q \in Orders(n) : SumInOrder(n, s, q)}
<1>1. 0 \in S
  BY FirstStep DEF SumInOrder
<1>2. ASSUME NEW n \in Nat, n \in S PROVE n + 1 \in S
  <2>1. \A s \in [1 .. n -> Int], q \in Orders(n) : SumInOrder(n, s, q)
    BY <1>2
  <2>2. \A s \in [1 .. n + 1 -> Int], q \in Orders(n + 1) : SumInOrder(n + 1, s, q)
    BY <2>1, OrderExtends
  <2> QED
    BY <2>2
<1>3. Nat \subseteq S
  <2> HIDE DEF S
  <2> QED
    BY <1>1, <1>2, Upward, Zenon
<1> QED
  BY <1>3

-----------------------------------------------------------------------------
(* What the tables of a message agree on.  Has-bits follow the members in   *)
(* memory, and MergeImpl and ByteSizeLong go through them by eights.        *)

FieldsAgree(T) ==
    LET t == Tables[T].table
        impl == Tables[T].impl
        accessors == Tables[T].accessors
        last == Len(impl)
    IN  /\ last \in Nat \ {0} /\ DOMAIN impl = 1 .. last /\ DOMAIN t = 1 .. last
        /\ DOMAIN accessors = {t[k][1] : k \in 1 .. last}
        /\ \A k \in 1 .. last :
              /\ t[k][2] \in 0 .. last - 1 /\ impl[t[k][2] + 1] = t[k][1]
              /\ accessors[t[k][1]] = t[k][2]
        /\ \A m \in 1 .. last : impl[m] \in DOMAIN accessors /\ accessors[impl[m]] = m - 1
        /\ \A j, k \in 1 .. last : t[j][2] = t[k][2] => j = k

\* _InternalSerialize writes the fields by number.
SerializeAgrees(T) ==
    LET t == Tables[T].table
        list == Tables[T].serialize
    IN  DOMAIN list = DOMAIN t /\ \A k \in DOMAIN t : list[k] = <<t[k][1], t[k][2], k>>

\* A line of Clear that resets the m-th member when its bit is set.
ResetsMember(T, line, m) ==
    LET impl == Tables[T].impl
    IN  /\ line[1] = {} \/ m - 1 \in line[1]
        /\ \E first, last \in DOMAIN impl :
              line[2] = impl[first] /\ line[3] = impl[last] /\ first <= m /\ m <= last

ClearAgrees(T) ==
    LET clear == Tables[T].clear
    IN  \A m \in DOMAIN Tables[T].impl : \E i \in DOMAIN clear : ResetsMember(T, clear[i], m)

\* The i-th group has eight members, or what is left, each under its bit.
GroupAgrees(T, group, i) ==
    LET impl == Tables[T].impl
        last == Len(impl)
    IN  /\ DOMAIN group[2] = 1 .. (IF 8 * i <= last THEN 8 ELSE last - 8 * (i - 1))
        /\ \A j \in DOMAIN group[2] :
              LET m == 8 * (i - 1) + j
              IN  group[2][j][1] = impl[m] /\ group[2][j][2] = m - 1 /\ m - 1 \in group[1]

GroupsAgree(T, groups) ==
    LET last == Len(Tables[T].impl)
    IN  /\ \E n \in Nat : DOMAIN groups = 1 .. n /\ 8 * (n - 1) < last /\ last <= 8 * n
        /\ \A i \in DOMAIN groups : GroupAgrees(T, groups[i], i)

\* The bytes of a tag: two from the sixteenth number on.
TagsAgree(T) ==
    LET t == Tables[T].table
        groups == Tables[T].byteSize
    IN  /\ \A i \in DOMAIN groups : \A j \in DOMAIN groups[i][2] : \A k \in DOMAIN t :
              t[k][1] = groups[i][2][j][1] => groups[i][2][j][3] = IF k <= 15 THEN 1 ELSE 2
        /\ \A k \in DOMAIN t : k < 2048

Agree(T) ==
    /\ FieldsAgree(T) /\ SerializeAgrees(T) /\ ClearAgrees(T)
    /\ GroupsAgree(T, Tables[T].merge) /\ GroupsAgree(T, Tables[T].byteSize) /\ TagsAgree(T)

LEMMA TimeRangeQueryAgrees == Agree("TimeRangeQuery")
<1>1. /\ Tables["TimeRangeQuery"].table = TimeRangeQuery_table
      /\ Tables["TimeRangeQuery"].accessors = TimeRangeQuery_accessors
      /\ Tables["TimeRangeQuery"].impl = TimeRangeQuery_Impl
      /\ Tables["TimeRangeQuery"].clear = TimeRangeQuery_Clear
      /\ Tables["TimeRangeQuery"].serialize = TimeRangeQuery_Serialize
      /\ Tables["TimeRangeQuery"].merge = TimeRangeQuery_Merge
      /\ Tables["TimeRangeQuery"].byteSize = TimeRangeQuery_ByteSize
  BY DEF Tables
<1>2. Len(TimeRangeQuery_Impl) = 2 /\ DOMAIN TimeRangeQuery_Impl = 1 .. 2
  BY DEF TimeRangeQuery_Impl
<1>3. FieldsAgree("TimeRangeQuery")
  BY <1>1 DEF FieldsAgree, TimeRangeQuery_Impl, TimeRangeQuery_table, TimeRangeQuery_accessors
<1>4. SerializeAgrees("TimeRangeQuery")
  BY <1>1 DEF SerializeAgrees, TimeRangeQuery_table, TimeRangeQuery_Serialize
<1>5. ClearAgrees("TimeRangeQuery")
  <2>1. \A m \in 1 .. 2 : ResetsMember("TimeRangeQuery", TimeRangeQuery_Clear[1], m)
    BY <1>1, <1>2 DEF ResetsMember, TimeRangeQuery_Clear, TimeRangeQuery_Impl
  <2>2. DOMAIN TimeRangeQuery_Clear = 1 .. 1
    BY DEF TimeRangeQuery_Clear
  <2> QED
    BY <1>1, <1>2, <2>1, <2>2 DEF ClearAgrees
<1>6. GroupsAgree("TimeRangeQuery", TimeRangeQuery_Merge)
  <2>1. GroupAgrees("TimeRangeQuery", TimeRangeQuery_Merge[1], 1)
    BY <1>1, <1>2 DEF GroupAgrees, TimeRangeQuery_Merge, TimeRangeQuery_Impl
  <2>2. DOMAIN TimeRangeQuery_Merge = 1 .. 1
    BY DEF TimeRangeQuery_Merge
  <2> QED
    BY <1>1, <1>2, <2>1, <2>2 DEF GroupsAgree
<1>7. GroupsAgree("TimeRangeQuery", TimeRangeQuery_ByteSize)
  <2>1. GroupAgrees("TimeRangeQuery", TimeRangeQuery_ByteSize[1], 1)
    BY <1>1, <1>2 DEF GroupAgrees, TimeRangeQuery_ByteSize, TimeRangeQuery_Impl
  <2>2. DOMAIN TimeRangeQuery_ByteSize = 1 .. 1
    BY DEF TimeRangeQuery_ByteSize
  <2> QED
    BY <1>1, <1>2, <2>1, <2>2 DEF GroupsAgree
<1>8. TagsAgree("TimeRangeQuery")
  BY <1>1 DEF TagsAgree, TimeRangeQuery_ByteSize, TimeRangeQuery_table
<1> QED
  BY <1>1, <1>3, <1>4, <1>5, <1>6, <1>7, <1>8 DEF Agree

LEMMA NumericRangeQueryAgrees == Agree("NumericRangeQuery")
<1>1. /\ Tables["NumericRangeQuery"].table = NumericRangeQuery_table
      /\ Tables["NumericRangeQuery"].accessors = NumericRangeQuery_accessors
      /\ Tables["NumericRangeQuery"].impl = NumericRangeQuery_Impl
      /\ Tables["NumericRangeQuery"].clear = NumericRangeQuery_Clear
      /\ Tables["NumericRangeQuery"].serialize = NumericRangeQuery_Serialize
      /\ Tables["NumericRangeQuery"].merge = NumericRangeQuery_Merge
      /\ Tables["NumericRangeQuery"].byteSize = NumericRangeQuery_ByteSize
  BY DEF Tables
<1>2. Len(NumericRangeQuery_Impl) = 2 /\ DOMAIN NumericRangeQuery_Impl = 1 .. 2
  BY DEF NumericRangeQuery_Impl
<1>3. FieldsAgree("NumericRangeQuery")
  BY <1>1 DEF FieldsAgree, NumericRangeQuery_Impl, NumericRangeQuery_table,
     NumericRangeQuery_accessors
<1>4. SerializeAgrees("NumericRangeQuery")
  BY <1>1 DEF SerializeAgrees, NumericRangeQuery_table, NumericRangeQuery_Serialize
<1>5. ClearAgrees("NumericRangeQuery")
  <2>1. \A m \in 1 .. 2 : ResetsMember("NumericRangeQuery", NumericRangeQuery_Clear[1], m)
    BY <1>1, <1>2 DEF ResetsMember, NumericRangeQuery_Clear, NumericRangeQuery_Impl
  <2>2. DOMAIN NumericRangeQuery_Clear = 1 .. 1
    BY DEF NumericRangeQuery_Clear
  <2> QED
    BY <1>1, <1>2, <2>1, <2>2 DEF ClearAgrees
<1>6. GroupsAgree("NumericRangeQuery", NumericRangeQuery_Merge)
  <2>1. GroupAgrees("NumericRangeQuery", NumericRangeQuery_Merge[1], 1)
    BY <1>1, <1>2 DEF GroupAgrees, NumericRangeQuery_Merge, NumericRangeQuery_Impl
  <2>2. DOMAIN NumericRangeQuery_Merge = 1 .. 1
    BY DEF NumericRangeQuery_Merge
  <2> QED
    BY <1>1, <1>2, <2>1, <2>2 DEF GroupsAgree
<1>7. GroupsAgree("NumericRangeQuery", NumericRangeQuery_ByteSize)
  <2>1. GroupAgrees("NumericRangeQuery", NumericRangeQuery_ByteSize[1], 1)
    BY <1>1, <1>2 DEF GroupAgrees, NumericRangeQuery_ByteSize, NumericRangeQuery_Impl
  <2>2. DOMAIN NumericRangeQuery_ByteSize = 1 .. 1
    BY DEF NumericRangeQuery_ByteSize
  <2> QED
    BY <1>1, <1>2, <2>1, <2>2 DEF GroupsAgree
<1>8. TagsAgree("NumericRangeQuery")
  BY <1>1 DEF TagsAgree, NumericRangeQuery_ByteSize, NumericRangeQuery_table
<1> QED
  BY <1>1, <1>3, <1>4, <1>5, <1>6, <1>7, <1>8 DEF Agree

LEMMA IntRangeQueryAgrees == Agree("IntRangeQuery")
<1>1. /\ Tables["IntRangeQuery"].table = IntRangeQuery_table
      /\ Tables["IntRangeQuery"].accessors = IntRangeQuery_accessors
      /\ Tables["IntRangeQuery"].impl = IntRangeQuery_Impl
      /\ Tables["IntRangeQuery"].clear = IntRangeQuery_Clear
      /\ Tables["IntRangeQuery"].serialize = IntRangeQuery_Serialize
      /\ Tables["IntRangeQuery"].merge = IntRangeQuery_Merge
      /\ Tables["IntRangeQuery"].byteSize = IntRangeQuery_ByteSize
  BY DEF Tables
<1>2. Len(IntRangeQuery_Impl) = 2 /\ DOMAIN IntRangeQuery_Impl = 1 .. 2
  BY DEF IntRangeQuery_Impl
<1>3. FieldsAgree("IntRangeQuery")
  BY <1>1 DEF FieldsAgree, IntRangeQuery_Impl, IntRangeQuery_table, IntRangeQuery_accessors
<1>4. SerializeAgrees("IntRangeQuery")
  BY <1>1 DEF SerializeAgrees, IntRangeQuery_table, IntRangeQuery_Serialize
<1>5. ClearAgrees("IntRangeQuery")
  <2>1. \A m \in 1 .. 2 : ResetsMember("IntRangeQuery", IntRangeQuery_Clear[1], m)
    BY <1>1, <1>2 DEF ResetsMember, IntRangeQuery_Clear, IntRangeQuery_Impl
  <2>2. DOMAIN IntRangeQuery_Clear = 1 .. 1
    BY DEF IntRangeQuery_Clear
  <2> QED
    BY <1>1, <1>2, <2>1, <2>2 DEF ClearAgrees
<1>6. GroupsAgree("IntRangeQuery", IntRangeQuery_Merge)
  <2>1. GroupAgrees("IntRangeQuery", IntRangeQuery_Merge[1], 1)
    BY <1>1, <1>2 DEF GroupAgrees, IntRangeQuery_Merge, IntRangeQuery_Impl
  <2>2. DOMAIN IntRangeQuery_Merge = 1 .. 1
    BY DEF IntRangeQuery_Merge
  <2> QED
    BY <1>1, <1>2, <2>1, <2>2 DEF GroupsAgree
<1>7. GroupsAgree("IntRangeQuery", IntRangeQuery_ByteSize)
  <2>1. GroupAgrees("IntRangeQuery", IntRangeQuery_ByteSize[1], 1)
    BY <1>1, <1>2 DEF GroupAgrees, IntRangeQuery_ByteSize, IntRangeQuery_Impl
  <2>2. DOMAIN IntRangeQuery_ByteSize = 1 .. 1
    BY DEF IntRangeQuery_ByteSize
  <2> QED
    BY <1>1, <1>2, <2>1, <2>2 DEF GroupsAgree
<1>8. TagsAgree("IntRangeQuery")
  BY <1>1 DEF TagsAgree, IntRangeQuery_ByteSize, IntRangeQuery_table
<1> QED
  BY <1>1, <1>3, <1>4, <1>5, <1>6, <1>7, <1>8 DEF Agree

LEMMA CombinedQueryAgrees == Agree("CombinedQuery")
<1>1. /\ Tables["CombinedQuery"].table = CombinedQuery_table
      /\ Tables["CombinedQuery"].accessors = CombinedQuery_accessors
      /\ Tables["CombinedQuery"].impl = CombinedQuery_Impl
      /\ Tables["CombinedQuery"].clear = CombinedQuery_Clear
      /\ Tables["CombinedQuery"].serialize = CombinedQuery_Serialize
      /\ Tables["CombinedQuery"].merge = CombinedQuery_Merge
      /\ Tables["CombinedQuery"].byteSize = CombinedQuery_ByteSize
  BY DEF Tables
<1>2. Len(CombinedQuery_Impl) = 3 /\ DOMAIN CombinedQuery_Impl = 1 .. 3
  BY DEF CombinedQuery_Impl
<1>3. FieldsAgree("CombinedQuery")
  BY <1>1 DEF FieldsAgree, CombinedQuery_Impl, CombinedQuery_table, CombinedQuery_accessors
<1>4. SerializeAgrees("CombinedQuery")
  BY <1>1 DEF SerializeAgrees, CombinedQuery_table, CombinedQuery_Serialize
<1>5. ClearAgrees("CombinedQuery")
  <2>1. \A m \in 1 .. 1 : ResetsMember("CombinedQuery", CombinedQuery_Clear[1], m)
    BY <1>1, <1>2 DEF ResetsMember, CombinedQuery_Clear, CombinedQuery_Impl
  <2>2. \A m \in 2 .. 2 : ResetsMember("CombinedQuery", CombinedQuery_Clear[2], m)
    BY <1>1, <1>2 DEF ResetsMember, CombinedQuery_Clear, CombinedQuery_Impl
  <2>3. \A m \in 3 .. 3 : ResetsMember("CombinedQuery", CombinedQuery_Clear[3], m)
    BY <1>1, <1>2 DEF ResetsMember, CombinedQuery_Clear, CombinedQuery_Impl
  <2>4. DOMAIN CombinedQuery_Clear = 1 .. 3
    BY DEF CombinedQuery_Clear
  <2> QED
    BY <1>1, <1>2, <2>1, <2>2, <2>3, <2>4 DEF ClearAgrees
<1>6. GroupsAgree("CombinedQuery", CombinedQuery_Merge)
  <2>1. GroupAgrees("CombinedQuery", CombinedQuery_Merge[1], 1)
    BY <1>1, <1>2 DEF GroupAgrees, CombinedQuery_Merge, CombinedQuery_Impl
  <2>2. DOMAIN CombinedQuery_Merge = 1 .. 1
    BY DEF CombinedQuery_Merge
  <2> QED
    BY <1>1, <1>2, <2>1, <2>2 DEF GroupsAgree
<1>7. GroupsAgree("CombinedQuery", CombinedQuery_ByteSize)
  <2>1. GroupAgrees("CombinedQuery", CombinedQuery_ByteSize[1], 1)
    BY <1>1, <1>2 DEF GroupAgrees, CombinedQuery_ByteSize, CombinedQuery_Impl
  <2>2. DOMAIN CombinedQuery_ByteSize = 1 .. 1
    BY DEF CombinedQuery_ByteSize
  <2> QED
    BY <1>1, <1>2, <2>1, <2>2 DEF GroupsAgree
<1>8. TagsAgree("CombinedQuery")
  BY <1>1 DEF TagsAgree, CombinedQuery_ByteSize, CombinedQuery_table
<1> QED
  BY <1>1, <1>3, <1>4, <1>5, <1>6, <1>7, <1>8 DEF Agree

LEMMA QueryRequestAgrees == Agree("QueryRequest")
<1>1. /\ Tables["QueryRequest"].table = QueryRequest_table
      /\ Tables["QueryRequest"].accessors = QueryRequest_accessors
      /\ Tables["QueryRequest"].impl = QueryRequest_Impl
      /\ Tables["QueryRequest"].clear = QueryRequest_Clear
      /\ Tables["QueryRequest"].serialize = QueryRequest_Serialize
      /\ Tables["QueryRequest"].merge = QueryRequest_Merge
      /\ Tables["QueryRequest"].byteSize = QueryRequest_ByteSize
  BY DEF Tables
<1>2. Len(QueryRequest_Impl) = 7 /\ DOMAIN QueryRequest_Impl = 1 .. 7
  BY DEF QueryRequest_Impl
<1>3. FieldsAgree("QueryRequest")
  BY <1>1 DEF FieldsAgree, QueryRequest_Impl, QueryRequest_table, QueryRequest_accessors
<1>4. SerializeAgrees("QueryRequest")
  BY <1>1 DEF SerializeAgrees, QueryRequest_table, QueryRequest_Serialize
<1>5. ClearAgrees("QueryRequest")
  <2>1. \A m \in 1 .. 1 : ResetsMember("QueryRequest", QueryRequest_Clear[1], m)
    BY <1>1, <1>2 DEF ResetsMember, QueryRequest_Clear, QueryRequest_Impl
  <2>2. \A m \in 2 .. 2 : ResetsMember("QueryRequest", QueryRequest_Clear[2], m)
    BY <1>1, <1>2 DEF ResetsMember, QueryRequest_Clear, QueryRequest_Impl
  <2>3. \A m \in 3 .. 3 : ResetsMember("QueryRequest", QueryRequest_Clear[3], m)
    BY <1>1, <1>2 DEF ResetsMember, QueryRequest_Clear, QueryRequest_Impl
  <2>4. \A m \in 4 .. 4 : ResetsMember("QueryRequest", QueryRequest_Clear[4], m)
    BY <1>1, <1>2 DEF ResetsMember, QueryRequest_Clear, QueryRequest_Impl
  <2>5. \A m \in 5 .. 5 : ResetsMember("QueryRequest", QueryRequest_Clear[5], m)
    BY <1>1, <1>2 DEF ResetsMember, QueryRequest_Clear, QueryRequest_Impl
  <2>6. \A m \in 6 .. 6 : ResetsMember("QueryRequest", QueryRequest_Clear[6], m)
    BY <1>1, <1>2 DEF ResetsMember, QueryRequest_Clear, QueryRequest_Impl
  <2>7. \A m \in 7 .. 7 : ResetsMember("QueryRequest", QueryRequest_Clear[7], m)
    BY <1>1, <1>2 DEF ResetsMember, QueryRequest_Clear, QueryRequest_Impl
  <2>8. DOMAIN QueryRequest_Clear = 1 .. 7
    BY DEF QueryRequest_Clear
  <2> QED
    BY <1>1, <1>2, <2>1, <2>2, <2>3, <2>4, <2>5, <2>6, <2>7, <2>8 DEF ClearAgrees
<1>6. GroupsAgree("QueryRequest", QueryRequest_Merge)
  <2>1. GroupAgrees("QueryRequest", QueryRequest_Merge[1], 1)
    BY <1>1, <1>2 DEF GroupAgrees, QueryRequest_Merge, QueryRequest_Impl
  <2>2. DOMAIN QueryRequest_Merge = 1 .. 1
    BY DEF QueryRequest_Merge
  <2> QED
    BY <1>1, <1>2, <2>1, <2>2 DEF GroupsAgree
<1>7. GroupsAgree("QueryRequest", QueryRequest_ByteSize)
  <2>1. GroupAgrees("QueryRequest", QueryRequest_ByteSize[1], 1)
    BY <1>1, <1>2 DEF GroupAgrees, QueryRequest_ByteSize, QueryRequest_Impl
  <2>2. DOMAIN QueryRequest_ByteSize = 1 .. 1
    BY DEF QueryRequest_ByteSize
  <2> QED
    BY <1>1, <1>2, <2>1, <2>2 DEF GroupsAgree
<1>8. TagsAgree("QueryRequest")
  BY <1>1 DEF TagsAgree, QueryRequest_ByteSize, QueryRequest_table
<1> QED
  BY <1>1, <1>3, <1>4, <1>5, <1>6, <1>7, <1>8 DEF Agree

LEMMA TripRecordMsgAgrees == Agree("TripRecordMsg")
<1>1. /\ Tables["TripRecordMsg"].table = TripRecordMsg_table
      /\ Tables["TripRecordMsg"].accessors = TripRecordMsg_accessors
      /\ Tables["TripRecordMsg"].impl = TripRecordMsg_Impl
      /\ Tables["TripRecordMsg"].clear = TripRecordMsg_Clear
      /\ Tables["TripRecordMsg"].serialize = TripRecordMsg_Serialize
      /\ Tables["TripRecordMsg"].merge = TripRecordMsg_Merge
      /\ Tables["TripRecordMsg"].byteSize = TripRecordMsg_ByteSize
  BY DEF Tables
<1>2. Len(TripRecordMsg_Impl) = 17 /\ DOMAIN TripRecordMsg_Impl = 1 .. 17
  BY DEF TripRecordMsg_Impl
<1>3. FieldsAgree("TripRecordMsg")
  BY <1>1 DEF FieldsAgree, TripRecordMsg_Impl, TripRecordMsg_table, TripRecordMsg_accessors
<1>4. SerializeAgrees("TripRecordMsg")
  BY <1>1 DEF SerializeAgrees, TripRecordMsg_table, TripRecordMsg_Serialize
<1>5. ClearAgrees("TripRecordMsg")
  <2>1. \A m \in 1 .. 8 : ResetsMember("TripRecordMsg", TripRecordMsg_Clear[1], m)
    BY <1>1, <1>2 DEF ResetsMember, TripRecordMsg_Clear, TripRecordMsg_Impl
  <2>2. \A m \in 9 .. 16 : ResetsMember("TripRecordMsg", TripRecordMsg_Clear[2], m)
    BY <1>1, <1>2 DEF ResetsMember, TripRecordMsg_Clear, TripRecordMsg_Impl
  <2>3. \A m \in 17 .. 17 : ResetsMember("TripRecordMsg", TripRecordMsg_Clear[3], m)
    BY <1>1, <1>2 DEF ResetsMember, TripRecordMsg_Clear, TripRecordMsg_Impl
  <2>4. DOMAIN TripRecordMsg_Clear = 1 .. 3
    BY DEF TripRecordMsg_Clear
  <2> QED
    BY <1>1, <1>2, <2>1, <2>2, <2>3, <2>4 DEF ClearAgrees
<1>6. GroupsAgree("TripRecordMsg", TripRecordMsg_Merge)
  <2>1. GroupAgrees("TripRecordMsg", TripRecordMsg_Merge[1], 1)
    BY <1>1, <1>2 DEF GroupAgrees, TripRecordMsg_Merge, TripRecordMsg_Impl
  <2>2. GroupAgrees("TripRecordMsg", TripRecordMsg_Merge[2], 2)
    BY <1>1, <1>2 DEF GroupAgrees, TripRecordMsg_Merge, TripRecordMsg_Impl
  <2>3. GroupAgrees("TripRecordMsg", TripRecordMsg_Merge[3], 3)
    BY <1>1, <1>2 DEF GroupAgrees, TripRecordMsg_Merge, TripRecordMsg_Impl
  <2>4. DOMAIN TripRecordMsg_Merge = 1 .. 3
    BY DEF TripRecordMsg_Merge
  <2> QED
    BY <1>1, <1>2, <2>1, <2>2, <2>3, <2>4 DEF GroupsAgree
<1>7. GroupsAgree("TripRecordMsg", TripRecordMsg_ByteSize)
  <2>1. GroupAgrees("TripRecordMsg", TripRecordMsg_ByteSize[1], 1)
    BY <1>1, <1>2 DEF GroupAgrees, TripRecordMsg_ByteSize, TripRecordMsg_Impl
  <2>2. GroupAgrees("TripRecordMsg", TripRecordMsg_ByteSize[2], 2)
    BY <1>1, <1>2 DEF GroupAgrees, TripRecordMsg_ByteSize, TripRecordMsg_Impl
  <2>3. GroupAgrees("TripRecordMsg", TripRecordMsg_ByteSize[3], 3)
    BY <1>1, <1>2 DEF GroupAgrees, TripRecordMsg_ByteSize, TripRecordMsg_Impl
  <2>4. DOMAIN TripRecordMsg_ByteSize = 1 .. 3
    BY DEF TripRecordMsg_ByteSize
  <2> QED
    BY <1>1, <1>2, <2>1, <2>2, <2>3, <2>4 DEF GroupsAgree
<1>8. TagsAgree("TripRecordMsg")
  <2>1. \A j \in DOMAIN TripRecordMsg_ByteSize[1][2] : \A k \in DOMAIN TripRecordMsg_table :
        TripRecordMsg_table[k][1] = TripRecordMsg_ByteSize[1][2][j][1] =>
            TripRecordMsg_ByteSize[1][2][j][3] = IF k <= 15 THEN 1 ELSE 2
    BY DEF TripRecordMsg_ByteSize, TripRecordMsg_table
  <2>2. \A j \in DOMAIN TripRecordMsg_ByteSize[2][2] : \A k \in DOMAIN TripRecordMsg_table :
        TripRecordMsg_table[k][1] = TripRecordMsg_ByteSize[2][2][j][1] =>
            TripRecordMsg_ByteSize[2][2][j][3] = IF k <= 15 THEN 1 ELSE 2
    BY DEF TripRecordMsg_ByteSize, TripRecordMsg_table
  <2>3. \A j \in DOMAIN TripRecordMsg_ByteSize[3][2] : \A k \in DOMAIN TripRecordMsg_table :
        TripRecordMsg_table[k][1] = TripRecordMsg_ByteSize[3][2][j][1] =>
            TripRecordMsg_ByteSize[3][2][j][3] = IF k <= 15 THEN 1 ELSE 2
    BY DEF TripRecordMsg_ByteSize, TripRecordMsg_table
  <2>4. DOMAIN TripRecordMsg_ByteSize = 1 .. 3 /\ DOMAIN TripRecordMsg_table = 1 .. 17
    BY DEF TripRecordMsg_ByteSize, TripRecordMsg_table
  <2> QED
    BY <1>1, <2>1, <2>2, <2>3, <2>4 DEF TagsAgree
<1> QED
  BY <1>1, <1>3, <1>4, <1>5, <1>6, <1>7, <1>8 DEF Agree

LEMMA ChunkResponseAgrees == Agree("ChunkResponse")
<1>1. /\ Tables["ChunkResponse"].table = ChunkResponse_table
      /\ Tables["ChunkResponse"].accessors = ChunkResponse_accessors
      /\ Tables["ChunkResponse"].impl = ChunkResponse_Impl
      /\ Tables["ChunkResponse"].clear = ChunkResponse_Clear
      /\ Tables["ChunkResponse"].serialize = ChunkResponse_Serialize
      /\ Tables["ChunkResponse"].merge = ChunkResponse_Merge
      /\ Tables["ChunkResponse"].byteSize = ChunkResponse_ByteSize
  BY DEF Tables
<1>2. Len(ChunkResponse_Impl) = 10 /\ DOMAIN ChunkResponse_Impl = 1 .. 10
  BY DEF ChunkResponse_Impl
<1>3. FieldsAgree("ChunkResponse")
  BY <1>1 DEF FieldsAgree, ChunkResponse_Impl, ChunkResponse_table, ChunkResponse_accessors
<1>4. SerializeAgrees("ChunkResponse")
  BY <1>1 DEF SerializeAgrees, ChunkResponse_table, ChunkResponse_Serialize
<1>5. ClearAgrees("ChunkResponse")
  <2>1. \A m \in 1 .. 1 : ResetsMember("ChunkResponse", ChunkResponse_Clear[1], m)
    BY <1>1, <1>2 DEF ResetsMember, ChunkResponse_Clear, ChunkResponse_Impl
  <2>2. \A m \in 2 .. 2 : ResetsMember("ChunkResponse", ChunkResponse_Clear[2], m)
    BY <1>1, <1>2 DEF ResetsMember, ChunkResponse_Clear, ChunkResponse_Impl
  <2>3. \A m \in 3 .. 3 : ResetsMember("ChunkResponse", ChunkResponse_Clear[3], m)
    BY <1>1, <1>2 DEF ResetsMember, ChunkResponse_Clear, ChunkResponse_Impl
  <2>4. \A m \in 4 .. 8 : ResetsMember("ChunkResponse", ChunkResponse_Clear[4], m)
    BY <1>1, <1>2 DEF ResetsMember, ChunkResponse_Clear, ChunkResponse_Impl
  <2>5. \A m \in 9 .. 10 : ResetsMember("ChunkResponse", ChunkResponse_Clear[5], m)
    BY <1>1, <1>2 DEF ResetsMember, ChunkResponse_Clear, ChunkResponse_Impl
  <2>6. DOMAIN ChunkResponse_Clear = 1 .. 5
    BY DEF ChunkResponse_Clear
  <2> QED
    BY <1>1, <1>2, <2>1, <2>2, <2>3, <2>4, <2>5, <2>6 DEF ClearAgrees
<1>6. GroupsAgree("ChunkResponse", ChunkResponse_Merge)
  <2>1. GroupAgrees("ChunkResponse", ChunkResponse_Merge[1], 1)
    BY <1>1, <1>2 DEF GroupAgrees, ChunkResponse_Merge, ChunkResponse_Impl
  <2>2. GroupAgrees("ChunkResponse", ChunkResponse_Merge[2], 2)
    BY <1>1, <1>2 DEF GroupAgrees, ChunkResponse_Merge, ChunkResponse_Impl
  <2>3. DOMAIN ChunkResponse_Merge = 1 .. 2
    BY DEF ChunkResponse_Merge
  <2> QED
    BY <1>1, <1>2, <2>1, <2>2, <2>3 DEF GroupsAgree
<1>7. GroupsAgree("ChunkResponse", ChunkResponse_ByteSize)
  <2>1. GroupAgrees("ChunkResponse", ChunkResponse_ByteSize[1], 1)
    BY <1>1, <1>2 DEF GroupAgrees, ChunkResponse_ByteSize, ChunkResponse_Impl
  <2>2. GroupAgrees("ChunkResponse", ChunkResponse_ByteSize[2], 2)
    BY <1>1, <1>2 DEF GroupAgrees, ChunkResponse_ByteSize, ChunkResponse_Impl
  <2>3. DOMAIN ChunkResponse_ByteSize = 1 .. 2
    BY DEF ChunkResponse_ByteSize
  <2> QED
    BY <1>1, <1>2, <2>1, <2>2, <2>3 DEF GroupsAgree
<1>8. TagsAgree("ChunkResponse")
  <2>1. \A j \in DOMAIN ChunkResponse_ByteSize[1][2] : \A k \in DOMAIN ChunkResponse_table :
        ChunkResponse_table[k][1] = ChunkResponse_ByteSize[1][2][j][1] =>
            ChunkResponse_ByteSize[1][2][j][3] = IF k <= 15 THEN 1 ELSE 2
    BY DEF ChunkResponse_ByteSize, ChunkResponse_table
  <2>2. \A j \in DOMAIN ChunkResponse_ByteSize[2][2] : \A k \in DOMAIN ChunkResponse_table :
        ChunkResponse_table[k][1] = ChunkResponse_ByteSize[2][2][j][1] =>
            ChunkResponse_ByteSize[2][2][j][3] = IF k <= 15 THEN 1 ELSE 2
    BY DEF ChunkResponse_ByteSize, ChunkResponse_table
  <2>3. DOMAIN ChunkResponse_ByteSize = 1 .. 2 /\ DOMAIN ChunkResponse_table = 1 .. 10
    BY DEF ChunkResponse_ByteSize, ChunkResponse_table
  <2> QED
    BY <1>1, <2>1, <2>2, <2>3 DEF TagsAgree
<1> QED
  BY <1>1, <1>3, <1>4, <1>5, <1>6, <1>7, <1>8 DEF Agree

LEMMA ChunkRequestAgrees == Agree("ChunkRequest")
<1>1. /\ Tables["ChunkRequest"].table = ChunkRequest_table
      /\ Tables["ChunkRequest"].accessors = ChunkRequest_accessors
      /\ Tables["ChunkRequest"].impl = ChunkRequest_Impl
      /\ Tables["ChunkRequest"].clear = ChunkRequest_Clear
      /\ Tables["ChunkRequest"].serialize = ChunkRequest_Serialize
      /\ Tables["ChunkRequest"].merge = ChunkRequest_Merge
      /\ Tables["ChunkRequest"].byteSize = ChunkRequest_ByteSize
  BY DEF Tables
<1>2. Len(ChunkRequest_Impl) = 2 /\ DOMAIN ChunkRequest_Impl = 1 .. 2
  BY DEF ChunkRequest_Impl
<1>3. FieldsAgree("ChunkRequest")
  BY <1>1 DEF FieldsAgree, ChunkRequest_Impl, ChunkRequest_table, ChunkRequest_accessors
<1>4. SerializeAgrees("ChunkRequest")
  BY <1>1 DEF SerializeAgrees, ChunkRequest_table, ChunkRequest_Serialize
<1>5. ClearAgrees("ChunkRequest")
  <2>1. \A m \in 1 .. 1 : ResetsMember("ChunkRequest", ChunkRequest_Clear[1], m)
    BY <1>1, <1>2 DEF ResetsMember, ChunkRequest_Clear, ChunkRequest_Impl
  <2>2. \A m \in 2 .. 2 : ResetsMember("ChunkRequest", ChunkRequest_Clear[2], m)
    BY <1>1, <1>2 DEF ResetsMember, ChunkRequest_Clear, ChunkRequest_Impl
  <2>3. DOMAIN ChunkRequest_Clear = 1 .. 2
    BY DEF ChunkRequest_Clear
  <2> QED
    BY <1>1, <1>2, <2>1, <2>2, <2>3 DEF ClearAgrees
<1>6. GroupsAgree("ChunkRequest", ChunkRequest_Merge)
  <2>1. GroupAgrees("ChunkRequest", ChunkRequest_Merge[1], 1)
    BY <1>1, <1>2 DEF GroupAgrees, ChunkRequest_Merge, ChunkRequest_Impl
  <2>2. DOMAIN ChunkRequest_Merge = 1 .. 1
    BY DEF ChunkRequest_Merge
  <2> QED
    BY <1>1, <1>2, <2>1, <2>2 DEF GroupsAgree
<1>7. GroupsAgree("ChunkRequest", ChunkRequest_ByteSize)
  <2>1. GroupAgrees("ChunkRequest", ChunkRequest_ByteSize[1], 1)
    BY <1>1, <1>2 DEF GroupAgrees, ChunkRequest_ByteSize, ChunkRequest_Impl
  <2>2. DOMAIN ChunkRequest_ByteSize = 1 .. 1
    BY DEF ChunkRequest_ByteSize
  <2> QED
    BY <1>1, <1>2, <2>1, <2>2 DEF GroupsAgree
<1>8. TagsAgree("ChunkRequest")
  BY <1>1 DEF TagsAgree, ChunkRequest_ByteSize, ChunkRequest_table
<1> QED
  BY <1>1, <1>3, <1>4, <1>5, <1>6, <1>7, <1>8 DEF Agree

LEMMA ForwardRequestAgrees == Agree("ForwardRequest")
<1>1. /\ Tables["ForwardRequest"].table = ForwardRequest_table
      /\ Tables["ForwardRequest"].accessors = ForwardRequest_accessors
      /\ Tables["ForwardRequest"].impl = ForwardRequest_Impl
      /\ Tables["ForwardRequest"].clear = ForwardRequest_Clear
      /\ Tables["ForwardRequest"].serialize = ForwardRequest_Serialize
      /\ Tables["ForwardRequest"].merge = ForwardRequest_Merge
      /\ Tables["ForwardRequest"].byteSize = ForwardRequest_ByteSize
  BY DEF Tables
<1>2. Len(ForwardRequest_Impl) = 4 /\ DOMAIN ForwardRequest_Impl = 1 .. 4
  BY DEF ForwardRequest_Impl
<1>3. FieldsAgree("ForwardRequest")
  BY <1>1 DEF FieldsAgree, ForwardRequest_Impl, ForwardRequest_table, ForwardRequest_accessors
<1>4. SerializeAgrees("ForwardRequest")
  BY <1>1 DEF SerializeAgrees, ForwardRequest_table, ForwardRequest_Serialize
<1>5. ClearAgrees("ForwardRequest")
  <2>1. \A m \in 1 .. 1 : ResetsMember("ForwardRequest", ForwardRequest_Clear[1], m)
    BY <1>1, <1>2 DEF ResetsMember, ForwardRequest_Clear, ForwardRequest_Impl
  <2>2. \A m \in 2 .. 2 : ResetsMember("ForwardRequest", ForwardRequest_Clear[2], m)
    BY <1>1, <1>2 DEF ResetsMember, ForwardRequest_Clear, ForwardRequest_Impl
  <2>3. \A m \in 3 .. 3 : ResetsMember("ForwardRequest", ForwardRequest_Clear[3], m)
    BY <1>1, <1>2 DEF ResetsMember, ForwardRequest_Clear, ForwardRequest_Impl
  <2>4. \A m \in 4 .. 4 : ResetsMember("ForwardRequest", ForwardRequest_Clear[4], m)
    BY <1>1, <1>2 DEF ResetsMember, ForwardRequest_Clear, ForwardRequest_Impl
  <2>5. DOMAIN ForwardRequest_Clear = 1 .. 4
    BY DEF ForwardRequest_Clear
  <2> QED
    BY <1>1, <1>2, <2>1, <2>2, <2>3, <2>4, <2>5 DEF ClearAgrees
<1>6. GroupsAgree("ForwardRequest", ForwardRequest_Merge)
  <2>1. GroupAgrees("ForwardRequest", ForwardRequest_Merge[1], 1)
    BY <1>1, <1>2 DEF GroupAgrees, ForwardRequest_Merge, ForwardRequest_Impl
  <2>2. DOMAIN ForwardRequest_Merge = 1 .. 1
    BY DEF ForwardRequest_Merge
  <2> QED
    BY <1>1, <1>2, <2>1, <2>2 DEF GroupsAgree
<1>7. GroupsAgree("ForwardRequest", ForwardRequest_ByteSize)
  <2>1. GroupAgrees("ForwardRequest", ForwardRequest_ByteSize[1], 1)
    BY <1>1, <1>2 DEF GroupAgrees, ForwardRequest_ByteSize, ForwardRequest_Impl
  <2>2. DOMAIN ForwardRequest_ByteSize = 1 .. 1
    BY DEF ForwardRequest_ByteSize
  <2> QED
    BY <1>1, <1>2, <2>1, <2>2 DEF GroupsAgree
<1>8. TagsAgree("ForwardRequest")
  BY <1>1 DEF TagsAgree, ForwardRequest_ByteSize, ForwardRequest_table
<1> QED
  BY <1>1, <1>3, <1>4, <1>5, <1>6, <1>7, <1>8 DEF Agree

LEMMA ForwardResponseAgrees == Agree("ForwardResponse")
<1>1. /\ Tables["ForwardResponse"].table = ForwardResponse_table
      /\ Tables["ForwardResponse"].accessors = ForwardResponse_accessors
      /\ Tables["ForwardResponse"].impl = ForwardResponse_Impl
      /\ Tables["ForwardResponse"].clear = ForwardResponse_Clear
      /\ Tables["ForwardResponse"].serialize = ForwardResponse_Serialize
      /\ Tables["ForwardResponse"].merge = ForwardResponse_Merge
      /\ Tables["ForwardResponse"].byteSize = ForwardResponse_ByteSize
  BY DEF Tables
<1>2. Len(ForwardResponse_Impl) = 9 /\ DOMAIN ForwardResponse_Impl = 1 .. 9
  BY DEF ForwardResponse_Impl
<1>3. FieldsAgree("ForwardResponse")
  BY <1>1 DEF FieldsAgree, ForwardResponse_Impl, ForwardResponse_table, ForwardResponse_accessors
<1>4. SerializeAgrees("ForwardResponse")
  BY <1>1 DEF SerializeAgrees, ForwardResponse_table, ForwardResponse_Serialize
<1>5. ClearAgrees("ForwardResponse")
  <2>1. \A m \in 1 .. 1 : ResetsMember("ForwardResponse", ForwardResponse_Clear[1], m)
    BY <1>1, <1>2 DEF ResetsMember, ForwardResponse_Clear, ForwardResponse_Impl
  <2>2. \A m \in 2 .. 2 : ResetsMember("ForwardResponse", ForwardResponse_Clear[2], m)
    BY <1>1, <1>2 DEF ResetsMember, ForwardResponse_Clear, ForwardResponse_Impl
  <2>3. \A m \in 3 .. 3 : ResetsMember("ForwardResponse", ForwardResponse_Clear[3], m)
    BY <1>1, <1>2 DEF ResetsMember, ForwardResponse_Clear, ForwardResponse_Impl
  <2>4. \A m \in 4 .. 4 : ResetsMember("ForwardResponse", ForwardResponse_Clear[4], m)
    BY <1>1, <1>2 DEF ResetsMember, ForwardResponse_Clear, ForwardResponse_Impl
  <2>5. \A m \in 5 .. 8 : ResetsMember("ForwardResponse", ForwardResponse_Clear[5], m)
    BY <1>1, <1>2 DEF ResetsMember, ForwardResponse_Clear, ForwardResponse_Impl
  <2>6. \A m \in 9 .. 9 : ResetsMember("ForwardResponse", ForwardResponse_Clear[6], m)
    BY <1>1, <1>2 DEF ResetsMember, ForwardResponse_Clear, ForwardResponse_Impl
  <2>7. DOMAIN ForwardResponse_Clear = 1 .. 6
    BY DEF ForwardResponse_Clear
  <2> QED
    BY <1>1, <1>2, <2>1, <2>2, <2>3, <2>4, <2>5, <2>6, <2>7 DEF ClearAgrees
<1>6. GroupsAgree("ForwardResponse", ForwardResponse_Merge)
  <2>1. GroupAgrees("ForwardResponse", ForwardResponse_Merge[1], 1)
    BY <1>1, <1>2 DEF GroupAgrees, ForwardResponse_Merge, ForwardResponse_Impl
  <2>2. GroupAgrees("ForwardResponse", ForwardResponse_Merge[2], 2)
    BY <1>1, <1>2 DEF GroupAgrees, ForwardResponse_Merge, ForwardResponse_Impl
  <2>3. DOMAIN ForwardResponse_Merge = 1 .. 2
    BY DEF ForwardResponse_Merge
  <2> QED
    BY <1>1, <1>2, <2>1, <2>2, <2>3 DEF GroupsAgree
<1>7. GroupsAgree("ForwardResponse", ForwardResponse_ByteSize)
  <2>1. GroupAgrees("ForwardResponse", ForwardResponse_ByteSize[1], 1)
    BY <1>1, <1>2 DEF GroupAgrees, ForwardResponse_ByteSize, ForwardResponse_Impl
  <2>2. GroupAgrees("ForwardResponse", ForwardResponse_ByteSize[2], 2)
    BY <1>1, <1>2 DEF GroupAgrees, ForwardResponse_ByteSize, ForwardResponse_Impl
  <2>3. DOMAIN ForwardResponse_ByteSize = 1 .. 2
    BY DEF ForwardResponse_ByteSize
  <2> QED
    BY <1>1, <1>2, <2>1, <2>2, <2>3 DEF GroupsAgree
<1>8. TagsAgree("ForwardResponse")
  <2>1. \A j \in DOMAIN ForwardResponse_ByteSize[1][2] : \A k \in DOMAIN ForwardResponse_table :
        ForwardResponse_table[k][1] = ForwardResponse_ByteSize[1][2][j][1] =>
            ForwardResponse_ByteSize[1][2][j][3] = IF k <= 15 THEN 1 ELSE 2
    BY DEF ForwardResponse_ByteSize, ForwardResponse_table
  <2>2. \A j \in DOMAIN ForwardResponse_ByteSize[2][2] : \A k \in DOMAIN ForwardResponse_table :
        ForwardResponse_table[k][1] = ForwardResponse_ByteSize[2][2][j][1] =>
            ForwardResponse_ByteSize[2][2][j][3] = IF k <= 15 THEN 1 ELSE 2
    BY DEF ForwardResponse_ByteSize, ForwardResponse_table
  <2>3. DOMAIN ForwardResponse_ByteSize = 1 .. 2 /\ DOMAIN ForwardResponse_table = 1 .. 9
    BY DEF ForwardResponse_ByteSize, ForwardResponse_table
  <2> QED
    BY <1>1, <2>1, <2>2, <2>3 DEF TagsAgree
<1> QED
  BY <1>1, <1>3, <1>4, <1>5, <1>6, <1>7, <1>8 DEF Agree

LEMMA BftMetadataAgrees == Agree("BftMetadata")
<1>1. /\ Tables["BftMetadata"].table = BftMetadata_table
      /\ Tables["BftMetadata"].accessors = BftMetadata_accessors
      /\ Tables["BftMetadata"].impl = BftMetadata_Impl
      /\ Tables["BftMetadata"].clear = BftMetadata_Clear
      /\ Tables["BftMetadata"].serialize = BftMetadata_Serialize
      /\ Tables["BftMetadata"].merge = BftMetadata_Merge
      /\ Tables["BftMetadata"].byteSize = BftMetadata_ByteSize
  BY DEF Tables
<1>2. Len(BftMetadata_Impl) = 6 /\ DOMAIN BftMetadata_Impl = 1 .. 6
  BY DEF BftMetadata_Impl
<1>3. FieldsAgree("BftMetadata")
  BY <1>1 DEF FieldsAgree, BftMetadata_Impl, BftMetadata_table, BftMetadata_accessors
<1>4. SerializeAgrees("BftMetadata")
  BY <1>1 DEF SerializeAgrees, BftMetadata_table, BftMetadata_Serialize
<1>5. ClearAgrees("BftMetadata")
  <2>1. \A m \in 1 .. 1 : ResetsMember("BftMetadata", BftMetadata_Clear[1], m)
    BY <1>1, <1>2 DEF ResetsMember, BftMetadata_Clear, BftMetadata_Impl
  <2>2. \A m \in 2 .. 2 : ResetsMember("BftMetadata", BftMetadata_Clear[2], m)
    BY <1>1, <1>2 DEF ResetsMember, BftMetadata_Clear, BftMetadata_Impl
  <2>3. \A m \in 3 .. 3 : ResetsMember("BftMetadata", BftMetadata_Clear[3], m)
    BY <1>1, <1>2 DEF ResetsMember, BftMetadata_Clear, BftMetadata_Impl
  <2>4. \A m \in 4 .. 4 : ResetsMember("BftMetadata", BftMetadata_Clear[4], m)
    BY <1>1, <1>2 DEF ResetsMember, BftMetadata_Clear, BftMetadata_Impl
  <2>5. \A m \in 5 .. 6 : ResetsMember("BftMetadata", BftMetadata_Clear[5], m)
    BY <1>1, <1>2 DEF ResetsMember, BftMetadata_Clear, BftMetadata_Impl
  <2>6. DOMAIN BftMetadata_Clear = 1 .. 5
    BY DEF BftMetadata_Clear
  <2> QED
    BY <1>1, <1>2, <2>1, <2>2, <2>3, <2>4, <2>5, <2>6 DEF ClearAgrees
<1>6. GroupsAgree("BftMetadata", BftMetadata_Merge)
  <2>1. GroupAgrees("BftMetadata", BftMetadata_Merge[1], 1)
    BY <1>1, <1>2 DEF GroupAgrees, BftMetadata_Merge, BftMetadata_Impl
  <2>2. DOMAIN BftMetadata_Merge = 1 .. 1
    BY DEF BftMetadata_Merge
  <2> QED
    BY <1>1, <1>2, <2>1, <2>2 DEF GroupsAgree
<1>7. GroupsAgree("BftMetadata", BftMetadata_ByteSize)
  <2>1. GroupAgrees("BftMetadata", BftMetadata_ByteSize[1], 1)
    BY <1>1, <1>2 DEF GroupAgrees, BftMetadata_ByteSize, BftMetadata_Impl
  <2>2. DOMAIN BftMetadata_ByteSize = 1 .. 1
    BY DEF BftMetadata_ByteSize
  <2> QED
    BY <1>1, <1>2, <2>1, <2>2 DEF GroupsAgree
<1>8. TagsAgree("BftMetadata")
  BY <1>1 DEF TagsAgree, BftMetadata_ByteSize, BftMetadata_table
<1> QED
  BY <1>1, <1>3, <1>4, <1>5, <1>6, <1>7, <1>8 DEF Agree

LEMMA CancelRequestAgrees == Agree("CancelRequest")
<1>1. /\ Tables["CancelRequest"].table = CancelRequest_table
      /\ Tables["CancelRequest"].accessors = CancelRequest_accessors
      /\ Tables["CancelRequest"].impl = CancelRequest_Impl
      /\ Tables["CancelRequest"].clear = CancelRequest_Clear
      /\ Tables["CancelRequest"].serialize = CancelRequest_Serialize
      /\ Tables["CancelRequest"].merge = CancelRequest_Merge
      /\ Tables["CancelRequest"].byteSize = CancelRequest_ByteSize
  BY DEF Tables
<1>2. Len(CancelRequest_Impl) = 1 /\ DOMAIN CancelRequest_Impl = 1 .. 1
  BY DEF CancelRequest_Impl
<1>3. FieldsAgree("CancelRequest")
  BY <1>1 DEF FieldsAgree, CancelRequest_Impl, CancelRequest_table, CancelRequest_accessors
<1>4. SerializeAgrees("CancelRequest")
  BY <1>1 DEF SerializeAgrees, CancelRequest_table, CancelRequest_Serialize
<1>5. ClearAgrees("CancelRequest")
  <2>1. \A m \in 1 .. 1 : ResetsMember("CancelRequest", CancelRequest_Clear[1], m)
    BY <1>1, <1>2 DEF ResetsMember, CancelRequest_Clear, CancelRequest_Impl
  <2>2. DOMAIN CancelRequest_Clear = 1 .. 1
    BY DEF CancelRequest_Clear
  <2> QED
    BY <1>1, <1>2, <2>1, <2>2 DEF ClearAgrees
<1>6. GroupsAgree("CancelRequest", CancelRequest_Merge)
  <2>1. GroupAgrees("CancelRequest", CancelRequest_Merge[1], 1)
    BY <1>1, <1>2 DEF GroupAgrees, CancelRequest_Merge, CancelRequest_Impl
  <2>2. DOMAIN CancelRequest_Merge = 1 .. 1
    BY DEF CancelRequest_Merge
  <2> QED
    BY <1>1, <1>2, <2>1, <2>2 DEF GroupsAgree
<1>7. GroupsAgree("CancelRequest", CancelRequest_ByteSize)
  <2>1. GroupAgrees("CancelRequest", CancelRequest_ByteSize[1], 1)
    BY <1>1, <1>2 DEF GroupAgrees, CancelRequest_ByteSize, CancelRequest_Impl
  <2>2. DOMAIN CancelRequest_ByteSize = 1 .. 1
    BY DEF CancelRequest_ByteSize
  <2> QED
    BY <1>1, <1>2, <2>1, <2>2 DEF GroupsAgree
<1>8. TagsAgree("CancelRequest")
  BY <1>1 DEF TagsAgree, CancelRequest_ByteSize, CancelRequest_table
<1> QED
  BY <1>1, <1>3, <1>4, <1>5, <1>6, <1>7, <1>8 DEF Agree

LEMMA CancelResponseAgrees == Agree("CancelResponse")
<1>1. /\ Tables["CancelResponse"].table = CancelResponse_table
      /\ Tables["CancelResponse"].accessors = CancelResponse_accessors
      /\ Tables["CancelResponse"].impl = CancelResponse_Impl
      /\ Tables["CancelResponse"].clear = CancelResponse_Clear
      /\ Tables["CancelResponse"].serialize = CancelResponse_Serialize
      /\ Tables["CancelResponse"].merge = CancelResponse_Merge
      /\ Tables["CancelResponse"].byteSize = CancelResponse_ByteSize
  BY DEF Tables
<1>2. Len(CancelResponse_Impl) = 1 /\ DOMAIN CancelResponse_Impl = 1 .. 1
  BY DEF CancelResponse_Impl
<1>3. FieldsAgree("CancelResponse")
  BY <1>1 DEF FieldsAgree, CancelResponse_Impl, CancelResponse_table, CancelResponse_accessors
<1>4. SerializeAgrees("CancelResponse")
  BY <1>1 DEF SerializeAgrees, CancelResponse_table, CancelResponse_Serialize
<1>5. ClearAgrees("CancelResponse")
  <2>1. \A m \in 1 .. 1 : ResetsMember("CancelResponse", CancelResponse_Clear[1], m)
    BY <1>1, <1>2 DEF ResetsMember, CancelResponse_Clear, CancelResponse_Impl
  <2>2. DOMAIN CancelResponse_Clear = 1 .. 1
    BY DEF CancelResponse_Clear
  <2> QED
    BY <1>1, <1>2, <2>1, <2>2 DEF ClearAgrees
<1>6. GroupsAgree("CancelResponse", CancelResponse_Merge)
  <2>1. GroupAgrees("CancelResponse", CancelResponse_Merge[1], 1)
    BY <1>1, <1>2 DEF GroupAgrees, CancelResponse_Merge, CancelResponse_Impl
  <2>2. DOMAIN CancelResponse_Merge = 1 .. 1
    BY DEF CancelResponse_Merge
  <2> QED
    BY <1>1, <1>2, <2>1, <2>2 DEF GroupsAgree
<1>7. GroupsAgree("CancelResponse", CancelResponse_ByteSize)
  <2>1. GroupAgrees("CancelResponse", CancelResponse_ByteSize[1], 1)
    BY <1>1, <1>2 DEF GroupAgrees, CancelResponse_ByteSize, CancelResponse_Impl
  <2>2. DOMAIN CancelResponse_ByteSize = 1 .. 1
    BY DEF CancelResponse_ByteSize
  <2> QED
    BY <1>1, <1>2, <2>1, <2>2 DEF GroupsAgree
<1>8. TagsAgree("CancelResponse")
  BY <1>1 DEF TagsAgree, CancelResponse_ByteSize, CancelResponse_table
<1> QED
  BY <1>1, <1>3, <1>4, <1>5, <1>6, <1>7, <1>8 DEF Agree

LEMMA StatusRequestAgrees == Agree("StatusRequest")
<1>1. /\ Tables["StatusRequest"].table = StatusRequest_table
      /\ Tables["StatusRequest"].accessors = StatusRequest_accessors
      /\ Tables["StatusRequest"].impl = StatusRequest_Impl
      /\ Tables["StatusRequest"].clear = StatusRequest_Clear
      /\ Tables["StatusRequest"].serialize = StatusRequest_Serialize
      /\ Tables["StatusRequest"].merge = StatusRequest_Merge
      /\ Tables["StatusRequest"].byteSize = StatusRequest_ByteSize
  BY DEF Tables
<1>2. Len(StatusRequest_Impl) = 1 /\ DOMAIN StatusRequest_Impl = 1 .. 1
  BY DEF StatusRequest_Impl
<1>3. FieldsAgree("StatusRequest")
  BY <1>1 DEF FieldsAgree, StatusRequest_Impl, StatusRequest_table, StatusRequest_accessors
<1>4. SerializeAgrees("StatusRequest")
  BY <1>1 DEF SerializeAgrees, StatusRequest_table, StatusRequest_Serialize
<1>5. ClearAgrees("StatusRequest")
  <2>1. \A m \in 1 .. 1 : ResetsMember("StatusRequest", StatusRequest_Clear[1], m)
    BY <1>1, <1>2 DEF ResetsMember, StatusRequest_Clear, StatusRequest_Impl
  <2>2. DOMAIN StatusRequest_Clear = 1 .. 1
    BY DEF StatusRequest_Clear
  <2> QED
    BY <1>1, <1>2, <2>1, <2>2 DEF ClearAgrees
<1>6. GroupsAgree("StatusRequest", StatusRequest_Merge)
  <2>1. GroupAgrees("StatusRequest", StatusRequest_Merge[1], 1)
    BY <1>1, <1>2 DEF GroupAgrees, StatusRequest_Merge, StatusRequest_Impl
  <2>2. DOMAIN StatusRequest_Merge = 1 .. 1
    BY DEF StatusRequest_Merge
  <2> QED
    BY <1>1, <1>2, <2>1, <2>2 DEF GroupsAgree
<1>7. GroupsAgree("StatusRequest", StatusRequest_ByteSize)
  <2>1. GroupAgrees("StatusRequest", StatusRequest_ByteSize[1], 1)
    BY <1>1, <1>2 DEF GroupAgrees, StatusRequest_ByteSize, StatusRequest_Impl
  <2>2. DOMAIN StatusRequest_ByteSize = 1 .. 1
    BY DEF StatusRequest_ByteSize
  <2> QED
    BY <1>1, <1>2, <2>1, <2>2 DEF GroupsAgree
<1>8. TagsAgree("StatusRequest")
  BY <1>1 DEF TagsAgree, StatusRequest_ByteSize, StatusRequest_table
<1> QED
  BY <1>1, <1>3, <1>4, <1>5, <1>6, <1>7, <1>8 DEF Agree

LEMMA StatusResponseAgrees == Agree("StatusResponse")
<1>1. /\ Tables["StatusResponse"].table = StatusResponse_table
      /\ Tables["StatusResponse"].accessors = StatusResponse_accessors
      /\ Tables["StatusResponse"].impl = StatusResponse_Impl
      /\ Tables["StatusResponse"].clear = StatusResponse_Clear
      /\ Tables["StatusResponse"].serialize = StatusResponse_Serialize
      /\ Tables["StatusResponse"].merge = StatusResponse_Merge
      /\ Tables["StatusResponse"].byteSize = StatusResponse_ByteSize
  BY DEF Tables
<1>2. Len(StatusResponse_Impl) = 6 /\ DOMAIN StatusResponse_Impl = 1 .. 6
  BY DEF StatusResponse_Impl
<1>3. FieldsAgree("StatusResponse")
  BY <1>1 DEF FieldsAgree, StatusResponse_Impl, StatusResponse_table, StatusResponse_accessors
<1>4. SerializeAgrees("StatusResponse")
  BY <1>1 DEF SerializeAgrees, StatusResponse_table, StatusResponse_Serialize
<1>5. ClearAgrees("StatusResponse")
  <2>1. \A m \in 1 .. 1 : ResetsMember("StatusResponse", StatusResponse_Clear[1], m)
    BY <1>1, <1>2 DEF ResetsMember, StatusResponse_Clear, StatusResponse_Impl
  <2>2. \A m \in 2 .. 6 : ResetsMember("StatusResponse", StatusResponse_Clear[2], m)
    BY <1>1, <1>2 DEF ResetsMember, StatusResponse_Clear, StatusResponse_Impl
  <2>3. DOMAIN StatusResponse_Clear = 1 .. 2
    BY DEF StatusResponse_Clear
  <2> QED
    BY <1>1, <1>2, <2>1, <2>2, <2>3 DEF ClearAgrees
<1>6. GroupsAgree("StatusResponse", StatusResponse_Merge)
  <2>1. GroupAgrees("StatusResponse", StatusResponse_Merge[1], 1)
    BY <1>1, <1>2 DEF GroupAgrees, StatusResponse_Merge, StatusResponse_Impl
  <2>2. DOMAIN StatusResponse_Merge = 1 .. 1
    BY DEF StatusResponse_Merge
  <2> QED
    BY <1>1, <1>2, <2>1, <2>2 DEF GroupsAgree
<1>7. GroupsAgree("StatusResponse", StatusResponse_ByteSize)
  <2>1. GroupAgrees("StatusResponse", StatusResponse_ByteSize[1], 1)
    BY <1>1, <1>2 DEF GroupAgrees, StatusResponse_ByteSize, StatusResponse_Impl
  <2>2. DOMAIN StatusResponse_ByteSize = 1 .. 1
    BY DEF StatusResponse_ByteSize
  <2> QED
    BY <1>1, <1>2, <2>1, <2>2 DEF GroupsAgree
<1>8. TagsAgree("StatusResponse")
  BY <1>1 DEF TagsAgree, StatusResponse_ByteSize, StatusResponse_table
<1> QED
  BY <1>1, <1>3, <1>4, <1>5, <1>6, <1>7, <1>8 DEF Agree

LEMMA HeartbeatRequestAgrees == Agree("HeartbeatRequest")
<1>1. /\ Tables["HeartbeatRequest"].table = HeartbeatRequest_table
      /\ Tables["HeartbeatRequest"].accessors = HeartbeatRequest_accessors
      /\ Tables["HeartbeatRequest"].impl = HeartbeatRequest_Impl
      /\ Tables["HeartbeatRequest"].clear = HeartbeatRequest_Clear
      /\ Tables["HeartbeatRequest"].serialize = HeartbeatRequest_Serialize
      /\ Tables["HeartbeatRequest"].merge = HeartbeatRequest_Merge
      /\ Tables["HeartbeatRequest"].byteSize = HeartbeatRequest_ByteSize
  BY DEF Tables
<1>2. Len(HeartbeatRequest_Impl) = 2 /\ DOMAIN HeartbeatRequest_Impl = 1 .. 2
  BY DEF HeartbeatRequest_Impl
<1>3. FieldsAgree("HeartbeatRequest")
  BY <1>1 DEF FieldsAgree, HeartbeatRequest_Impl, HeartbeatRequest_table, HeartbeatRequest_accessors
<1>4. SerializeAgrees("HeartbeatRequest")
  BY <1>1 DEF SerializeAgrees, HeartbeatRequest_table, HeartbeatRequest_Serialize
<1>5. ClearAgrees("HeartbeatRequest")
  <2>1. \A m \in 1 .. 1 : ResetsMember("HeartbeatRequest", HeartbeatRequest_Clear[1], m)
    BY <1>1, <1>2 DEF ResetsMember, HeartbeatRequest_Clear, HeartbeatRequest_Impl
  <2>2. \A m \in 2 .. 2 : ResetsMember("HeartbeatRequest", HeartbeatRequest_Clear[2], m)
    BY <1>1, <1>2 DEF ResetsMember, HeartbeatRequest_Clear, HeartbeatRequest_Impl
  <2>3. DOMAIN HeartbeatRequest_Clear = 1 .. 2
    BY DEF HeartbeatRequest_Clear
  <2> QED
    BY <1>1, <1>2, <2>1, <2>2, <2>3 DEF ClearAgrees
<1>6. GroupsAgree("HeartbeatRequest", HeartbeatRequest_Merge)
  <2>1. GroupAgrees("HeartbeatRequest", HeartbeatRequest_Merge[1], 1)
    BY <1>1, <1>2 DEF GroupAgrees, HeartbeatRequest_Merge, HeartbeatRequest_Impl
  <2>2. DOMAIN HeartbeatRequest_Merge = 1 .. 1
    BY DEF HeartbeatRequest_Merge
  <2> QED
    BY <1>1, <1>2, <2>1, <2>2 DEF GroupsAgree
<1>7. GroupsAgree("HeartbeatRequest", HeartbeatRequest_ByteSize)
  <2>1. GroupAgrees("HeartbeatRequest", HeartbeatRequest_ByteSize[1], 1)
    BY <1>1, <1>2 DEF GroupAgrees, HeartbeatRequest_ByteSize, HeartbeatRequest_Impl
  <2>2. DOMAIN HeartbeatRequest_ByteSize = 1 .. 1
    BY DEF HeartbeatRequest_ByteSize
  <2> QED
    BY <1>1, <1>2, <2>1, <2>2 DEF GroupsAgree
<1>8. TagsAgree("HeartbeatRequest")
  BY <1>1 DEF TagsAgree, HeartbeatRequest_ByteSize, HeartbeatRequest_table
<1> QED
  BY <1>1, <1>3, <1>4, <1>5, <1>6, <1>7, <1>8 DEF Agree

LEMMA HeartbeatResponseAgrees == Agree("HeartbeatResponse")
<1>1. /\ Tables["HeartbeatResponse"].table = HeartbeatResponse_table
      /\ Tables["HeartbeatResponse"].accessors = HeartbeatResponse_accessors
      /\ Tables["HeartbeatResponse"].impl = HeartbeatResponse_Impl
      /\ Tables["HeartbeatResponse"].clear = HeartbeatResponse_Clear
      /\ Tables["HeartbeatResponse"].serialize = HeartbeatResponse_Serialize
      /\ Tables["HeartbeatResponse"].merge = HeartbeatResponse_Merge
      /\ Tables["HeartbeatResponse"].byteSize = HeartbeatResponse_ByteSize
  BY DEF Tables
<1>2. Len(HeartbeatResponse_Impl) = 3 /\ DOMAIN HeartbeatResponse_Impl = 1 .. 3
  BY DEF HeartbeatResponse_Impl
<1>3. FieldsAgree("HeartbeatResponse")
  BY <1>1 DEF FieldsAgree, HeartbeatResponse_Impl, HeartbeatResponse_table,
     HeartbeatResponse_accessors
<1>4. SerializeAgrees("HeartbeatResponse")
  BY <1>1 DEF SerializeAgrees, HeartbeatResponse_table, HeartbeatResponse_Serialize
<1>5. ClearAgrees("HeartbeatResponse")
  <2>1. \A m \in 1 .. 1 : ResetsMember("HeartbeatResponse", HeartbeatResponse_Clear[1], m)
    BY <1>1, <1>2 DEF ResetsMember, HeartbeatResponse_Clear, HeartbeatResponse_Impl
  <2>2. \A m \in 2 .. 3 : ResetsMember("HeartbeatResponse", HeartbeatResponse_Clear[2], m)
    BY <1>1, <1>2 DEF ResetsMember, HeartbeatResponse_Clear, HeartbeatResponse_Impl
  <2>3. DOMAIN HeartbeatResponse_Clear = 1 .. 2
    BY DEF HeartbeatResponse_Clear
  <2> QED
    BY <1>1, <1>2, <2>1, <2>2, <2>3 DEF ClearAgrees
<1>6. GroupsAgree("HeartbeatResponse", HeartbeatResponse_Merge)
  <2>1. GroupAgrees("HeartbeatResponse", HeartbeatResponse_Merge[1], 1)
    BY <1>1, <1>2 DEF GroupAgrees, HeartbeatResponse_Merge, HeartbeatResponse_Impl
  <2>2. DOMAIN HeartbeatResponse_Merge = 1 .. 1
    BY DEF HeartbeatResponse_Merge
  <2> QED
    BY <1>1, <1>2, <2>1, <2>2 DEF GroupsAgree
<1>7. GroupsAgree("HeartbeatResponse", HeartbeatResponse_ByteSize)
  <2>1. GroupAgrees("HeartbeatResponse", HeartbeatResponse_ByteSize[1], 1)
    BY <1>1, <1>2 DEF GroupAgrees, HeartbeatResponse_ByteSize, HeartbeatResponse_Impl
  <2>2. DOMAIN HeartbeatResponse_ByteSize = 1 .. 1
    BY DEF HeartbeatResponse_ByteSize
  <2> QED
    BY <1>1, <1>2, <2>1, <2>2 DEF GroupsAgree
<1>8. TagsAgree("HeartbeatResponse")
  BY <1>1 DEF TagsAgree, HeartbeatResponse_ByteSize, HeartbeatResponse_table
<1> QED
  BY <1>1, <1>3, <1>4, <1>5, <1>6, <1>7, <1>8 DEF Agree

\* All 17 messages.
LEMMA TablesAgree ==
    ASSUME NEW T \in DOMAIN Tables
    PROVE  Agree(T)
<1>1. DOMAIN Tables =
        { "TimeRangeQuery", "NumericRangeQuery", "IntRangeQuery", "CombinedQuery", "QueryRequest",
          "TripRecordMsg", "ChunkResponse", "ChunkRequest", "ForwardRequest", "ForwardResponse",
          "BftMetadata", "CancelRequest", "CancelResponse", "StatusRequest", "StatusResponse",
          "HeartbeatRequest", "HeartbeatResponse" }
  BY DEF Tables
<1> QED
  BY <1>1, TimeRangeQueryAgrees, NumericRangeQueryAgrees, IntRangeQueryAgrees, CombinedQueryAgrees,
     QueryRequestAgrees, TripRecordMsgAgrees, ChunkResponseAgrees, ChunkRequestAgrees,
     ForwardRequestAgrees, ForwardResponseAgrees, BftMetadataAgrees, CancelRequestAgrees,
     CancelResponseAgrees, StatusRequestAgrees, StatusResponseAgrees, HeartbeatRequestAgrees,
     HeartbeatResponseAgrees

-----------------------------------------------------------------------------
(* The fields of a message.                                                 *)

Fields(T) == DOMAIN FieldTypes[T]
Bit(T, f) == Tables[T].accessors[f]
LastNumber(T) == Len(Tables[T].impl)

\* The fields of a message by their numbers.
LEMMA FieldFacts ==
    ASSUME NEW T \in DOMAIN Tables
    PROVE  /\ LastNumber(T) \in Nat \ {0}
           /\ DOMAIN Tables[T].table = 1 .. LastNumber(T)
           /\ Fields(T) = DOMAIN Tables[T].accessors
           /\ \A k \in 1 .. LastNumber(T) :
                 /\ Tables[T].table[k][1] \in Fields(T)
                 /\ FieldTypes[T][Tables[T].table[k][1]] = Tables[T].table[k][3]
                 /\ Bit(T, Tables[T].table[k][1]) = Tables[T].table[k][2]
           /\ \A f \in Fields(T) : \E k \in 1 .. LastNumber(T) : Tables[T].table[k][1] = f
           /\ \A j, k \in 1 .. LastNumber(T) : Tables[T].table[j][1] = Tables[T].table[k][1] => j = k
           /\ \A f, g \in Fields(T) : Bit(T, f) = Bit(T, g) => f = g
<1> DEFINE t == Tables[T].table
           types == [f \in {t[i][1] : i \in DOMAIN t} |-> t[CHOOSE i \in DOMAIN t : t[i][1] = f][3]]
<1>1. FieldsAgree(T)
  BY TablesAgree DEF Agree
<1>2. FieldTypes[T] = types
  BY DEF FieldTypes
<1>3. LastNumber(T) \in Nat \ {0} /\ DOMAIN t = 1 .. LastNumber(T)
  BY <1>1 DEF FieldsAgree, LastNumber
<1>4. Fields(T) = {t[k][1] : k \in 1 .. LastNumber(T)} /\ Fields(T) = DOMAIN Tables[T].accessors
  BY <1>1, <1>2, <1>3 DEF FieldsAgree, LastNumber, Fields
<1>5. \A k \in 1 .. LastNumber(T) : Bit(T, t[k][1]) = t[k][2]
  BY <1>1 DEF FieldsAgree, LastNumber, Bit
<1>6. \A j, k \in 1 .. LastNumber(T) : t[j][1] = t[k][1] \/ t[j][2] = t[k][2] => j = k
  BY <1>1, <1>5 DEF FieldsAgree, LastNumber
<1>7. ASSUME NEW k \in 1 .. LastNumber(T) PROVE FieldTypes[T][t[k][1]] = t[k][3]
  <2> DEFINE i == CHOOSE i \in DOMAIN t : t[i][1] = t[k][1]
  <2>1. i \in DOMAIN t /\ t[i][1] = t[k][1]
    BY <1>3
  <2>2. i = k
    <3> HIDE DEF i
    <3> QED
      BY <1>3, <1>6, <2>1
  <2>3. FieldTypes[T][t[k][1]] = t[i][3]
    BY <1>2, <1>3
  <2> QED
    BY <2>2, <2>3
<1>8. \A f \in Fields(T) : \E k \in 1 .. LastNumber(T) : t[k][1] = f
  BY <1>4
<1>9. \A f, g \in Fields(T) : Bit(T, f) = Bit(T, g) => f = g
  BY <1>5, <1>6, <1>8
<1> HIDE DEF t
<1>10. \A k \in 1 .. LastNumber(T) : t[k][1] \in Fields(T)
  BY <1>4
<1> QED
  BY <1>3, <1>4, <1>5, <1>6, <1>7, <1>8, <1>9, <1>10 DEF t

LEMMA MemberFacts ==
    ASSUME NEW T \in DOMAIN Tables
    PROVE  \A m \in 1 .. LastNumber(T) :
              Tables[T].impl[m] \in Fields(T) /\ Bit(T, Tables[T].impl[m]) = m - 1
<1>1. FieldsAgree(T)
  BY TablesAgree DEF Agree
<1>2. Fields(T) = DOMAIN Tables[T].accessors
  BY FieldFacts
<1> QED
  BY <1>1, <1>2 DEF FieldsAgree, LastNumber, Bit

\* What the fields add to the size is added once, in the order of memory or of the numbers.
LEMMA SameFields ==
    ASSUME NEW T \in DOMAIN Tables, NEW S \in [Fields(T) -> Int]
    PROVE  /\ [m \in 1 .. LastNumber(T) |-> S[Tables[T].impl[m]]] \in [1 .. LastNumber(T) -> Int]
           /\ [k \in 1 .. LastNumber(T) |-> S[Tables[T].table[k][1]]] \in [1 .. LastNumber(T) -> Int]
           /\ First([k \in 1 .. LastNumber(T) |-> S[Tables[T].table[k][1]]], LastNumber(T)) =
              First([m \in 1 .. LastNumber(T) |-> S[Tables[T].impl[m]]], LastNumber(T))
<1> DEFINE last == LastNumber(T)
           t == Tables[T].table
           impl == Tables[T].impl
           inMemory == [m \in 1 .. last |-> S[impl[m]]]
           byNumber == [k \in 1 .. last |-> S[t[k][1]]]
           p == [k \in 1 .. last |-> t[k][2] + 1]
<1>1. FieldsAgree(T)
  BY TablesAgree DEF Agree
<1>2. last \in Nat \ {0} /\ Fields(T) = {t[k][1] : k \in 1 .. last}
  BY <1>1, FieldFacts DEF FieldsAgree, LastNumber
<1>3. \A k \in 1 .. last : t[k][2] \in 0 .. last - 1 /\ impl[t[k][2] + 1] = t[k][1]
  BY <1>1 DEF FieldsAgree, LastNumber
<1>4. \A m \in 1 .. last : impl[m] \in Fields(T) /\ Bit(T, impl[m]) = m - 1
  BY MemberFacts
<1>5. \A j, k \in 1 .. last : t[j][2] = t[k][2] => j = k
  BY <1>1 DEF FieldsAgree, LastNumber
<1>6. inMemory \in [1 .. last -> Int] /\ byNumber \in [1 .. last -> Int]
  BY <1>2, <1>4
<1>7. p \in Orders(last)
  <2>1. p \in [1 .. last -> 1 .. last]
    BY <1>2, <1>3
  <2>2. \A j, k \in 1 .. last : p[j] = p[k] => j = k
    BY <1>2, <1>3, <1>5
  <2>3. ASSUME NEW m \in 1 .. last PROVE \E k \in 1 .. last : p[k] = m
    <3>1. PICK k \in 1 .. last : t[k][1] = impl[m]
      BY <1>2, <1>4
    <3>2. Bit(T, t[k][1]) = t[k][2]
      BY <1>1 DEF FieldsAgree, LastNumber, Bit
    <3>3. t[k][2] = m - 1
      BY <1>4, <3>1, <3>2
    <3> QED
      BY <3>3
  <2> HIDE DEF p
  <2> QED
    BY <2>1, <2>2, <2>3 DEF Orders
<1>8. [k \in 1 .. last |-> inMemory[p[k]]] = byNumber
  <2>1. ASSUME NEW k \in 1 .. last PROVE inMemory[p[k]] = byNumber[k]
    <3>1. p[k] = t[k][2] + 1 /\ p[k] \in 1 .. last
      BY <1>2, <1>3
    <3>2. inMemory[p[k]] = S[impl[p[k]]]
      <4> HIDE DEF p
      <4> QED
        BY <3>1
    <3>3. impl[p[k]] = t[k][1]
      BY <1>3
    <3> HIDE DEF p, inMemory
    <3> QED
      BY <3>2, <3>3
  <2> HIDE DEF p, inMemory
  <2> QED
    BY <2>1
<1>9. SumInOrder(last, inMemory, p)
  <2> HIDE DEF inMemory, p, last
  <2> QED
    BY <1>2, <1>6, <1>7, AnyOrder
<1>10. First(byNumber, last) = First(inMemory, last)
  <2> HIDE DEF byNumber, inMemory, p, last
  <2> QED
    BY <1>8, <1>9 DEF SumInOrder
<1> QED
  BY <1>6, <1>10

\* The sums of the groups of eight, without those that have no bit set, are the sum over all
\* members, if a member without its bit adds nothing.
LEMMA Regrouped ==
    ASSUME NEW T \in DOMAIN Tables, NEW bits, NEW S \in [Fields(T) -> Int],
           \A f \in Fields(T) : Bit(T, f) \notin bits => S[f] = 0
    PROVE  LET groups == Tables[T].byteSize
               Size(i) == Total([j \in DOMAIN groups[i][2] |-> S[groups[i][2][j][1]]])
           IN  Total([i \in DOMAIN groups |-> IF groups[i][1] \cap bits = {} THEN 0 ELSE Size(i)]) =
               Total([k \in 1 .. LastNumber(T) |-> S[Tables[T].table[k][1]]])
<1> DEFINE last == LastNumber(T)
           impl == Tables[T].impl
           groups == Tables[T].byteSize
           part == [i \in DOMAIN groups |-> [j \in DOMAIN groups[i][2] |-> S[groups[i][2][j][1]]]]
           sizes == [i \in DOMAIN groups |-> IF groups[i][1] \cap bits = {} THEN 0 ELSE Total(part[i])]
           all == [m \in 1 .. last |-> S[impl[m]]]
           Up(i) == IF 8 * i <= last THEN 8 * i ELSE last
<1>1. FieldsAgree(T) /\ GroupsAgree(T, groups)
  BY TablesAgree DEF Agree
<1>2. last \in Nat \ {0}
  BY FieldFacts
<1>3. PICK n \in Nat : DOMAIN groups = 1 .. n /\ 8 * (n - 1) < last /\ last <= 8 * n
  BY <1>1 DEF GroupsAgree, LastNumber
<1>4. ASSUME NEW i \in 1 .. n
      PROVE  /\ Up(i - 1) = 8 * (i - 1) /\ Up(i - 1) \in Nat /\ Up(i) \in Up(i - 1) .. last
             /\ DOMAIN part[i] = 1 .. Up(i) - Up(i - 1)
             /\ \A j \in 1 .. Up(i) - Up(i - 1) :
                   /\ Up(i - 1) + j \in 1 .. last
                   /\ part[i][j] = all[Up(i - 1) + j] /\ all[Up(i - 1) + j] \in Int
                   /\ groups[i][1] \cap bits = {} => part[i][j] = 0
  <2>1. GroupAgrees(T, groups[i], i)
    BY <1>1, <1>3 DEF GroupsAgree
  <2>2. Up(i - 1) = 8 * (i - 1) /\ Up(i - 1) \in Nat /\ Up(i) \in Up(i - 1) .. last
    BY <1>2, <1>3
  <2>3. DOMAIN groups[i][2] = 1 .. Up(i) - Up(i - 1)
    BY <1>2, <2>1, <2>2 DEF GroupAgrees, LastNumber
  <2>4. DOMAIN part[i] = 1 .. Up(i) - Up(i - 1)
    BY <1>3, <2>3
  <2>5. ASSUME NEW j \in 1 .. Up(i) - Up(i - 1)
        PROVE  /\ Up(i - 1) + j \in 1 .. last
               /\ part[i][j] = all[Up(i - 1) + j] /\ all[Up(i - 1) + j] \in Int
               /\ groups[i][1] \cap bits = {} => part[i][j] = 0
    <3> DEFINE m == 8 * (i - 1) + j
    <3>1. m \in 1 .. last /\ m = Up(i - 1) + j
      BY <1>2, <2>2
    <3>2. groups[i][2][j][1] = impl[m] /\ m - 1 \in groups[i][1]
      BY <2>1, <2>3 DEF GroupAgrees
    <3>3. impl[m] \in Fields(T) /\ Bit(T, impl[m]) = m - 1
      BY <3>1, MemberFacts
    <3>4. part[i][j] = S[impl[m]] /\ all[m] = S[impl[m]]
      BY <1>3, <2>3, <3>1, <3>2
    <3>5. groups[i][1] \cap bits = {} => S[impl[m]] = 0
      BY <3>2, <3>3
    <3> HIDE DEF m, part, all
    <3> QED
      BY <3>1, <3>3, <3>4, <3>5
  <2> HIDE DEF Up, part, all
  <2> QED
    BY <2>2, <2>4, <2>5
<1>5. all \in [1 .. last -> Int]
  BY SameFields
<1>6. ASSUME NEW i \in 1 .. n
      PROVE  sizes[i] \in Int /\ First(all, Up(i)) = First(all, Up(i - 1)) + sizes[i]
  <2> DEFINE count == Up(i) - Up(i - 1)
  <2>1. count \in Nat /\ Up(i - 1) + count = Up(i) /\ Up(i - 1) \in Nat
    <3>1. Up(i - 1) \in Nat /\ Up(i) \in Up(i - 1) .. last
      BY <1>4
    <3> HIDE DEF Up, last
    <3> QED
      BY <1>2, <3>1
  <2>2. part[i] \in [1 .. count -> Int]
    <3>1. part[i] = [j \in DOMAIN part[i] |-> part[i][j]]
      BY <1>3
    <3> HIDE DEF Up, part, all
    <3> QED
      BY <1>4, <3>1
  <2>3. First(all, Up(i - 1) + count) = First(all, Up(i - 1)) + First(part[i], count)
    <3>1. \A m \in 1 .. Up(i - 1) + count : all[m] \in Int
      <4>1. \A m \in 1 .. Up(i - 1) + count : m \in 1 .. last
        <5>1. Up(i) \in Up(i - 1) .. last
          BY <1>4
        <5> HIDE DEF Up, last, count
        <5> QED
          BY <1>2, <2>1, <5>1
      <4> HIDE DEF all, Up
      <4> QED
        BY <1>5, <4>1
    <3>2. \A j \in 1 .. count : part[i][j] = all[Up(i - 1) + j]
      <4> HIDE DEF Up, part, all
      <4> QED
        BY <1>4
    <3> HIDE DEF Up, part, all, count
    <3> QED
      BY <2>1, <3>1, <3>2, SumContinues
  <2>4. sizes[i] = First(part[i], count) /\ sizes[i] \in Int
    <3>1. Total(part[i]) \in Int /\ Total(part[i]) = First(part[i], count)
      <4> HIDE DEF Up, part, count
      <4> QED
        BY <2>1, <2>2, TotalIsInt
    <3>2. CASE groups[i][1] \cap bits = {}
      <4>1. \A j \in 1 .. count : part[i][j] = 0
        <5> HIDE DEF Up, part, all
        <5> QED
          BY <1>4, <3>2
      <4>2. First(part[i], count) = 0
        <5> HIDE DEF Up, part, count
        <5> QED
          BY <2>1, <4>1, SumOfZeros
      <4>3. sizes[i] = 0
        <5> HIDE DEF part
        <5> QED
          BY <1>3, <3>2
      <4> HIDE DEF Up, part, count, sizes
      <4> QED
        BY <4>2, <4>3
    <3>3. CASE groups[i][1] \cap bits # {}
      <4>1. sizes[i] = Total(part[i])
        <5> HIDE DEF part
        <5> QED
          BY <1>3, <3>3
      <4> QED
        BY <3>1, <4>1
    <3> QED
      BY <3>2, <3>3
  <2> HIDE DEF Up, part, all, count, sizes
  <2> QED
    BY <2>1, <2>3, <2>4
<1>7. First(sizes, n) = First(all, Up(n))
  <2> DEFINE Done == {i \in Nat : i <= n => First(sizes, i) = First(all, Up(i))}
  <2>1. 0 \in Done
    <3>1. Up(0) = 0
      BY <1>2
    <3>2. First(sizes, 0) = 0 /\ First(all, 0) = 0
      <4> HIDE DEF sizes, all
      <4> QED
        BY FirstStep
    <3> HIDE DEF Up, sizes, all
    <3> QED
      BY <3>1, <3>2
  <2>2. ASSUME NEW i \in Nat, i \in Done PROVE i + 1 \in Done
    <3> SUFFICES ASSUME i + 1 <= n PROVE First(sizes, i + 1) = First(all, Up(i + 1))
      OBVIOUS
    <3>1. First(sizes, i + 1) = First(sizes, i) + sizes[i + 1]
      <4> HIDE DEF sizes
      <4> QED
        BY FirstStep
    <3>2. i + 1 \in 1 .. n /\ (i + 1) - 1 = i
      BY <1>3
    <3>3. First(all, Up(i + 1)) = First(all, Up(i)) + sizes[i + 1]
      <4> HIDE DEF sizes, all, Up
      <4> QED
        BY <1>6, <3>2
    <3>4. First(sizes, i) = First(all, Up(i))
      <4> HIDE DEF sizes, all, Up
      <4> QED
        BY <2>2, <3>2
    <3> HIDE DEF sizes, all, Up
    <3> QED
      BY <3>1, <3>3, <3>4
  <2>3. Nat \subseteq Done
    <3> HIDE DEF Done
    <3> QED
      BY <2>1, <2>2, Upward, Zenon
  <2> HIDE DEF sizes, all, Up
  <2> QED
    BY <2>3
<1>8. Up(n) = last
  BY <1>2, <1>3
<1>9. Total(sizes) = First(all, last)
  <2>1. sizes \in [1 .. n -> Int]
    <3>1. sizes = [i \in 1 .. n |-> sizes[i]]
      BY <1>3
    <3> HIDE DEF sizes, all, Up
    <3> QED
      BY <1>6, <3>1
  <2> HIDE DEF sizes, all, Up
  <2> QED
    BY <1>7, <1>8, <2>1, TotalIsInt
<1> DEFINE byNumber == [k \in 1 .. last |-> S[Tables[T].table[k][1]]]
<1>10. byNumber \in [1 .. last -> Int] /\ First(byNumber, last) = First(all, last)
  BY SameFields
<1>11. Total(byNumber) = First(byNumber, last)
  <2> HIDE DEF byNumber, last
  <2> QED
    BY <1>2, <1>10, TotalIsInt
<1>12. Total(sizes) = Total(byNumber)
  <2> HIDE DEF byNumber, last, sizes, all
  <2> QED
    BY <1>9, <1>10, <1>11
<1>13. sizes = [i \in DOMAIN groups |-> IF groups[i][1] \cap bits = {} THEN 0
                ELSE Total([j \in DOMAIN groups[i][2] |-> S[groups[i][2][j][1]]])]
  OBVIOUS
<1> HIDE DEF sizes
<1> QED
  BY <1>12, <1>13

-----------------------------------------------------------------------------
(* What stands on the wire of a message under one number.                   *)

\* One run behind the other, when one of them has something in it.
LEMMA FlattenOne ==
    ASSUME NEW last \in Nat, NEW place \in 1 .. last, NEW runs, DOMAIN runs = 1 .. last, Len(runs) = last,
           NEW X, runs[place] \in Seq(X), \A n \in 1 .. last : n # place => runs[n] = <<>>
    PROVE  FlattenSeq(runs) = runs[place]
<1> DEFINE Flattens(g) == g = [i \in 1 .. last |-> IF i = 1 THEN runs[i] ELSE g[i - 1] \o runs[i]]
           witness == [i \in 1 .. last |-> IF i < place THEN <<>> ELSE runs[place]]
           flatten == CHOOSE g : Flattens(g)
<1>1. Flattens(witness)
  <2>1. ASSUME NEW i \in 1 .. last
        PROVE  witness[i] = IF i = 1 THEN runs[i] ELSE witness[i - 1] \o runs[i]
    <3>1. CASE i = 1
      <4>1. CASE place = 1
        BY <3>1, <4>1
      <4>2. CASE place # 1
        BY <3>1, <4>2
      <4> QED
        BY <4>1, <4>2
    <3>2. CASE i # 1 /\ i < place
      <4>1. witness[i - 1] = <<>> /\ witness[i] = <<>> /\ runs[i] = <<>>
        BY <3>2
      <4> QED
        BY <3>2, <4>1
    <3>3. CASE i # 1 /\ i = place
      <4>1. witness[i - 1] = <<>> /\ witness[i] = runs[i] /\ runs[i] \in Seq(X)
        BY <3>3
      <4> QED
        BY <3>3, <4>1
    <3>4. CASE i # 1 /\ i > place
      <4>1. witness[i - 1] = runs[place] /\ witness[i] = runs[place] /\ runs[i] = <<>>
        BY <3>4
      <4> QED
        BY <3>4, <4>1
    <3> QED
      BY <3>1, <3>2, <3>3, <3>4
  <2> QED
    BY <2>1
<1>2. Flattens(flatten)
  <2> HIDE DEF Flattens, witness
  <2> QED
    BY <1>1
<1> HIDE DEF flatten, witness
<1> DEFINE Done == {n \in Nat : n \in 1 .. last => flatten[n] = witness[n]}
<1>3. 0 \in Done
  OBVIOUS
<1>4. ASSUME NEW n \in Nat, n \in Done PROVE n + 1 \in Done
  <2> SUFFICES ASSUME n + 1 \in 1 .. last PROVE flatten[n + 1] = witness[n + 1]
    OBVIOUS
  <2>1. CASE n = 0
    BY <1>1, <1>2, <2>1
  <2>2. CASE n # 0
    <3>1. n \in 1 .. last /\ (n + 1) - 1 = n /\ n + 1 # 1
      BY <2>2
    <3>2. flatten[n + 1] = flatten[n] \o runs[n + 1] /\ witness[n + 1] = witness[n] \o runs[n + 1]
      BY <1>1, <1>2, <3>1
    <3>3. flatten[n] = witness[n]
      BY <1>4, <3>1
    <3> QED
      BY <3>2, <3>3
  <2> QED
    BY <2>1, <2>2
<1>5. Nat \subseteq Done
  <2> HIDE DEF Done
  <2> QED
    BY <1>3, <1>4, Upward, Zenon
<1>6. flatten[last] = witness[last]
  BY <1>5
<1>7. witness[last] = runs[place]
  BY DEF witness
<1>8. FlattenSeq(runs) = flatten[last]
  BY DEF FlattenSeq, flatten
<1> QED
  BY <1>6, <1>7, <1>8

LEMMA FlattenSingle ==
    ASSUME NEW runs, DOMAIN runs = {1}, Len(runs) = 1
    PROVE  FlattenSeq(runs) = runs[1]
<1> DEFINE Flattens(g) == g = [i \in 1 .. 1 |-> IF i = 1 THEN runs[i] ELSE g[i - 1] \o runs[i]]
           flatten == CHOOSE g : Flattens(g)
<1>1. Flattens([i \in 1 .. 1 |-> runs[i]])
  OBVIOUS
<1>2. Flattens(flatten)
  <2> HIDE DEF Flattens
  <2> QED
    BY <1>1
<1>3. flatten[1] = runs[1]
  <2> HIDE DEF flatten
  <2> QED
    BY <1>2
<1>4. FlattenSeq(runs) = flatten[1]
  BY DEF FlattenSeq
<1> QED
  BY <1>3, <1>4

LEMMA FlattenNone ==
    ASSUME NEW runs, Len(runs) = 0
    PROVE  FlattenSeq(runs) = runs
  BY DEF FlattenSeq

-----------------------------------------------------------------------------
(* Objects that the functions can meet.                                     *)

\* What a field holds, where S has the objects of each type that may be in it.
ValuesIn(type, S) ==
    IF IsPlain(type) THEN Int
    ELSE IF type \in Repeated THEN Seq(S["TripRecordMsg"])
    ELSE {<<>>} \cup {<<m>> : m \in S[type]}

\* A number that is not zero and a repeated field that is not empty have their bits set.
\* A message whose bit is set is there, and one that is there without it was cleared.
BitTells(T, bits, f, v) ==
    IF IsPlain(FieldTypes[T][f]) THEN v # 0 => Bit(T, f) \in bits
    ELSE IF FieldTypes[T][f] \in Repeated THEN v # <<>> => Bit(T, f) \in bits
    ELSE IF Bit(T, f) \in bits THEN v # <<>> ELSE v # <<>> => v[1].bits = {}

Objects(T, S) ==
    {o \in [bits : SUBSET {Bit(T, f) : f \in Fields(T)},
            val : [Fields(T) -> UNION {ValuesIn(FieldTypes[T][f], S) : f \in Fields(T)}]] :
        \A f \in Fields(T) : o.val[f] \in ValuesIn(FieldTypes[T][f], S) /\ BitTells(T, o.bits, f, o.val[f])}

\* By the depth of the messages in them.
Objects0 == [T \in DOMAIN Tables |-> Objects(T, [U \in DOMAIN Tables |-> {}])]
Objects1 == [T \in DOMAIN Tables |-> Objects(T, Objects0)]
Objects2 == [T \in DOMAIN Tables |-> Objects(T, Objects1)]
Objects3 == [T \in DOMAIN Tables |-> Objects(T, Objects2)]

LEMMA ObjectIntro ==
    ASSUME NEW T, NEW S, NEW bits, bits \subseteq {Bit(T, f) : f \in Fields(T)},
           NEW val, val = [f \in Fields(T) |-> val[f]],
           \A f \in Fields(T) : val[f] \in ValuesIn(FieldTypes[T][f], S) /\ BitTells(T, bits, f, val[f])
    PROVE  [bits |-> bits, val |-> val] \in Objects(T, S)
  BY DEF Objects

LEMMA ObjectFacts ==
    ASSUME NEW T, NEW S, NEW o \in Objects(T, S)
    PROVE  /\ o = [bits |-> o.bits, val |-> o.val]
           /\ o.bits \subseteq {Bit(T, f) : f \in Fields(T)}
           /\ o.val = [f \in Fields(T) |-> o.val[f]] /\ DOMAIN o.val = Fields(T)
           /\ \A f \in Fields(T) :
                 o.val[f] \in ValuesIn(FieldTypes[T][f], S) /\ BitTells(T, o.bits, f, o.val[f])
  BY DEF Objects

LEMMA OneIsSequence ==
    ASSUME NEW X, NEW m \in X
    PROVE  <<m>> \in Seq(X) /\ <<>> \in Seq(X) /\ <<m>> # <<>>
  OBVIOUS

\* A field of messages is a sequence of them, and a field of one message has one at most.
LEMMA NestedFacts ==
    ASSUME NEW T \in DOMAIN Tables, NEW S, NEW f \in Nested(T),
           NEW v \in ValuesIn(FieldTypes[T][f], S)
    PROVE  /\ f \in Fields(T) /\ ~ IsPlain(FieldTypes[T][f])
           /\ Element(FieldTypes[T][f]) \in DOMAIN Tables
           /\ v \in Seq(S[Element(FieldTypes[T][f])])
           /\ Len(v) \in Nat /\ DOMAIN v = 1 .. Len(v)
           /\ \A i \in DOMAIN v : v[i] \in S[Element(FieldTypes[T][f])]
           /\ FieldTypes[T][f] \notin Repeated =>
                 v = <<>> \/ (DOMAIN v = {1} /\ Len(v) = 1 /\ v = <<v[1]>> /\ v # <<>>)
<1>1. f \in Fields(T) /\ ~ IsPlain(FieldTypes[T][f])
  BY DEF Nested, Fields
<1> DEFINE type == FieldTypes[T][f]
<1>2. type \in Repeated \/ type \in DOMAIN Tables
  BY <1>1 DEF IsPlain
<1>3. Element(type) \in DOMAIN Tables
  <2>1. "TripRecordMsg" \in DOMAIN Tables
    BY DEF Tables
  <2> HIDE DEF type
  <2> QED
    BY <1>2, <2>1 DEF Element
<1>4. v \in Seq(S[Element(type)])
  <2>1. CASE type \in Repeated
    BY <1>1, <2>1 DEF ValuesIn, Element
  <2>2. CASE type \notin Repeated
    <3>1. v \in {<<>>} \cup {<<m>> : m \in S[type]} /\ Element(type) = type
      BY <1>1, <2>2 DEF ValuesIn, Element
    <3>2. CASE v = <<>>
      BY <3>2
    <3>3. CASE v # <<>>
      <4>1. PICK m \in S[type] : v = <<m>>
        BY <3>1, <3>3
      <4>2. Element(type) = type
        BY <3>1
      <4>3. <<m>> \in Seq(S[type])
        BY OneIsSequence
      <4> HIDE DEF type
      <4> QED
        BY <4>1, <4>2, <4>3
    <3> QED
      BY <3>2, <3>3
  <2> QED
    BY <2>1, <2>2
<1>5. type \notin Repeated => v = <<>> \/ (DOMAIN v = {1} /\ Len(v) = 1 /\ v = <<v[1]>> /\ v # <<>>)
  <2> SUFFICES ASSUME type \notin Repeated, v # <<>>
               PROVE  DOMAIN v = {1} /\ Len(v) = 1 /\ v = <<v[1]>>
    OBVIOUS
  <2>1. PICK m \in S[type] : v = <<m>>
    BY <1>1 DEF ValuesIn
  <2> QED
    BY <2>1
<1> HIDE DEF type
<1> QED
  BY <1>1, <1>3, <1>4, <1>5 DEF type

LEMMA NestedValue ==
    ASSUME NEW T \in DOMAIN Tables, NEW S, NEW o \in Objects(T, S), NEW f \in Nested(T)
    PROVE  /\ f \in Fields(T) /\ ~ IsPlain(FieldTypes[T][f])
           /\ Element(FieldTypes[T][f]) \in DOMAIN Tables
           /\ o.val[f] \in Seq(S[Element(FieldTypes[T][f])])
           /\ Len(o.val[f]) \in Nat /\ DOMAIN o.val[f] = 1 .. Len(o.val[f])
           /\ \A i \in DOMAIN o.val[f] : o.val[f][i] \in S[Element(FieldTypes[T][f])]
           /\ FieldTypes[T][f] \notin Repeated =>
                 \/ o.val[f] = <<>>
                 \/ /\ DOMAIN o.val[f] = {1} /\ Len(o.val[f]) = 1
                    /\ o.val[f] = <<o.val[f][1]>> /\ o.val[f] # <<>>
<1>1. f \in Fields(T)
  BY DEF Nested, Fields
<1>2. o.val[f] \in ValuesIn(FieldTypes[T][f], S)
  BY <1>1, ObjectFacts
<1> QED
  BY <1>2, NestedFacts

\* The parts of an object.
LEMMA ObjectPartsAre ==
    ASSUME NEW T \in DOMAIN Tables, NEW o, NEW f \in Nested(T), NEW i \in DOMAIN o.val[f]
    PROVE  /\ <<f, i>> \in DOMAIN ObjectParts(T, o)
           /\ ObjectParts(T, o)[<<f, i>>] = [type |-> Element(FieldTypes[T][f]), of |-> o.val[f][i]]
  BY DEF ObjectParts

LEMMA NewIsObject ==
    ASSUME NEW T \in DOMAIN Tables, NEW S
    PROVE  New(T) \in Objects(T, S) /\ New(T).bits = {}
<1> DEFINE val == [f \in Fields(T) |-> IF IsPlain(FieldTypes[T][f]) THEN 0 ELSE <<>>]
<1>1. New(T) = [bits |-> {}, val |-> val]
  BY DEF New, Fields
<1>2. ASSUME NEW f \in Fields(T)
      PROVE  val[f] \in ValuesIn(FieldTypes[T][f], S) /\ BitTells(T, {}, f, val[f])
  <2>1. CASE IsPlain(FieldTypes[T][f])
    BY <2>1 DEF ValuesIn, BitTells
  <2>2. CASE ~ IsPlain(FieldTypes[T][f]) /\ FieldTypes[T][f] \in Repeated
    <3>1. val[f] = <<>> /\ <<>> \in Seq(S["TripRecordMsg"])
      BY <2>2
    <3> HIDE DEF val
    <3> QED
      BY <2>2, <3>1 DEF ValuesIn, BitTells
  <2>3. CASE ~ IsPlain(FieldTypes[T][f]) /\ FieldTypes[T][f] \notin Repeated
    <3>1. val[f] = <<>>
      BY <2>3
    <3> HIDE DEF val
    <3> QED
      BY <2>3, <3>1 DEF ValuesIn, BitTells
  <2> QED
    BY <2>1, <2>2, <2>3
<1>3. val = [f \in Fields(T) |-> val[f]]
  OBVIOUS
<1> HIDE DEF val
<1>4. [bits |-> {}, val |-> val] \in Objects(T, S)
  BY <1>2, <1>3, ObjectIntro
<1> QED
  BY <1>1, <1>4

-----------------------------------------------------------------------------
(* What is serialized, and what the parser makes of it.                     *)

\* What is written for a field.
RunItems(T, o, f, inner) ==
    IF Bit(T, f) \notin o.bits THEN <<>>
    ELSE IF ~ IsPlain(FieldTypes[T][f])
    THEN [i \in DOMAIN o.val[f] |-> [value |-> 0, body |-> inner[<<f, i>>]]]
    ELSE IF o.val[f] = 0 THEN <<>> ELSE <<[value |-> o.val[f], body |-> <<>>]>>

\* A function on the first numbers is a sequence.
LEMMA IsSequence ==
    ASSUME NEW n \in Nat, NEW g, DOMAIN g = 1 .. n, g = [i \in 1 .. n |-> g[i]]
    PROVE  /\ Len(g) = n /\ (g = <<>> <=> n = 0)
           /\ g \in Seq({g[i] : i \in 1 .. n})
           /\ \A X : (\A i \in 1 .. n : g[i] \in X) => g \in Seq(X)
<1>1. Len(g) = n
  OBVIOUS
<1>2. \A X : (\A i \in 1 .. n : g[i] \in X) => g \in Seq(X)
  OBVIOUS
<1>3. g = <<>> <=> n = 0
  <2>1. CASE n = 0
    <3>1. 1 .. n = {}
      BY <2>1
    <3> QED
      BY <2>1, <3>1
  <2>2. CASE n # 0
    BY <1>1, <2>2
  <2> QED
    BY <2>1, <2>2
<1> QED
  BY <1>1, <1>2, <1>3

LEMMA RunItemsAreSeq ==
    ASSUME NEW T \in DOMAIN Tables, NEW S, NEW o \in Objects(T, S), NEW inner, NEW f \in Fields(T)
    PROVE  /\ \E X : RunItems(T, o, f, inner) \in Seq(X)
           /\ f \in Nested(T) /\ Bit(T, f) \in o.bits =>
                 /\ DOMAIN RunItems(T, o, f, inner) = DOMAIN o.val[f]
                 /\ Len(RunItems(T, o, f, inner)) = Len(o.val[f])
                 /\ \A i \in DOMAIN o.val[f] : RunItems(T, o, f, inner)[i].body = inner[<<f, i>>]
                 /\ RunItems(T, o, f, inner) = <<>> <=> o.val[f] = <<>>
<1> DEFINE items == [i \in DOMAIN o.val[f] |-> [value |-> 0, body |-> inner[<<f, i>>]]]
<1>1. CASE f \in Nested(T)
  <2>1. Len(o.val[f]) \in Nat /\ DOMAIN o.val[f] = 1 .. Len(o.val[f])
        /\ o.val[f] \in Seq(S[Element(FieldTypes[T][f])])
    <3>1. o.val[f] \in ValuesIn(FieldTypes[T][f], S)
      BY ObjectFacts
    <3> QED
      BY <1>1, <3>1, NestedFacts
  <2>2. /\ items \in Seq({items[i] : i \in DOMAIN o.val[f]}) /\ Len(items) = Len(o.val[f])
        /\ items = <<>> <=> Len(o.val[f]) = 0
    <3>1. DOMAIN items = 1 .. Len(o.val[f]) /\ items = [i \in 1 .. Len(o.val[f]) |-> items[i]]
      BY <2>1
    <3> HIDE DEF items
    <3> QED
      BY <2>1, <3>1, IsSequence
  <2>3. items = <<>> <=> o.val[f] = <<>>
    <3> HIDE DEF items
    <3> QED
      BY <2>1, <2>2
  <2>4. \A i \in DOMAIN o.val[f] : items[i].body = inner[<<f, i>>]
    OBVIOUS
  <2>5. RunItems(T, o, f, inner) = IF Bit(T, f) \notin o.bits THEN <<>> ELSE items
    BY <1>1 DEF RunItems, Nested
  <2>6. DOMAIN items = DOMAIN o.val[f] /\ <<>> \in Seq({})
    OBVIOUS
  <2> HIDE DEF items
  <2>7. \E X : RunItems(T, o, f, inner) \in Seq(X)
    BY <2>2, <2>5, <2>6
  <2> QED
    BY <2>2, <2>3, <2>4, <2>5, <2>6, <2>7
<1>2. CASE f \notin Nested(T)
  <2>1. RunItems(T, o, f, inner) \in {<<>>, <<[value |-> o.val[f], body |-> <<>>]>>}
    <3>1. IsPlain(FieldTypes[T][f])
      BY <1>2 DEF Nested, Fields
    <3> QED
      BY <3>1 DEF RunItems
  <2>2. RunItems(T, o, f, inner) \in Seq({[value |-> o.val[f], body |-> <<>>]})
    <3> DEFINE item == [value |-> o.val[f], body |-> <<>>]
    <3>1. <<item>> \in Seq({item}) /\ <<>> \in Seq({item})
      BY OneIsSequence
    <3> HIDE DEF item
    <3> QED
      BY <2>1, <3>1 DEF item
  <2> QED
    BY <1>2, <2>2
<1> QED
  BY <1>1, <1>2

\* What is written under each number, a field that is left out included.
LEMMA SerializedRuns ==
    ASSUME NEW T \in DOMAIN Tables, NEW o, NEW inner
    PROVE  /\ DOMAIN SerializedLayer(T, o, inner) = 1 .. LastNumber(T)
           /\ Len(SerializedLayer(T, o, inner)) = LastNumber(T)
           /\ \A k \in 1 .. LastNumber(T) :
                 SerializedLayer(T, o, inner)[k] =
                     [number |-> k, items |-> RunItems(T, o, Tables[T].table[k][1], inner)]
<1> DEFINE list == Tables[T].serialize
           t == Tables[T].table
<1>1. LastNumber(T) \in Nat /\ DOMAIN list = 1 .. LastNumber(T)
      /\ \A k \in 1 .. LastNumber(T) : list[k] = <<t[k][1], t[k][2], k>>
  BY TablesAgree, FieldFacts DEF Agree, SerializeAgrees
<1>2. \A k \in 1 .. LastNumber(T) : Bit(T, t[k][1]) = t[k][2]
  BY FieldFacts
<1>3. ASSUME NEW k \in 1 .. LastNumber(T)
      PROVE  SerializedLayer(T, o, inner)[k] = [number |-> k, items |-> RunItems(T, o, t[k][1], inner)]
  <2>1. list[k][1] = t[k][1] /\ list[k][2] = Bit(T, t[k][1]) /\ list[k][3] = k
    BY <1>1, <1>2
  <2>2. k \in DOMAIN list
    BY <1>1
  <2> HIDE DEF list, t
  <2> QED
    BY <2>1, <2>2 DEF SerializedLayer, RunItems, list
<1>4. DOMAIN SerializedLayer(T, o, inner) = 1 .. LastNumber(T)
      /\ Len(SerializedLayer(T, o, inner)) = LastNumber(T)
  <2>1. DOMAIN SerializedLayer(T, o, inner) = 1 .. LastNumber(T)
    BY <1>1 DEF SerializedLayer
  <2>2. Len(SerializedLayer(T, o, inner)) = LastNumber(T)
    BY <1>1, <2>1
  <2> QED
    BY <2>1, <2>2
<1> QED
  BY <1>3, <1>4

LEMMA ItemsAre ==
    ASSUME NEW T \in DOMAIN Tables, NEW S, NEW o \in Objects(T, S), NEW inner, NEW f \in Fields(T)
    PROVE  ItemsOf(T, SerializedLayer(T, o, inner), f) = RunItems(T, o, f, inner)
<1> DEFINE wire == SerializedLayer(T, o, inner)
           last == LastNumber(T)
           t == Tables[T].table
           runs == [n \in DOMAIN wire |-> IF t[wire[n].number][1] = f THEN wire[n].items ELSE <<>>]
<1>1. PICK place \in 1 .. last : t[place][1] = f
  BY FieldFacts
<1>2. DOMAIN wire = 1 .. last /\ last \in Nat
      /\ \A k \in 1 .. last : wire[k].number = k /\ wire[k].items = RunItems(T, o, t[k][1], inner)
  <2>1. last \in Nat
    BY FieldFacts
  <2> HIDE DEF last, t
  <2>2. DOMAIN wire = 1 .. last
    BY SerializedRuns DEF last
  <2>3. \A k \in 1 .. last : wire[k] = [number |-> k, items |-> RunItems(T, o, t[k][1], inner)]
    BY SerializedRuns DEF last, t
  <2> HIDE DEF wire
  <2> QED
    BY <2>1, <2>2, <2>3
<1>3. \A k \in 1 .. last : t[k][1] = f => k = place
  BY <1>1, FieldFacts
<1> HIDE DEF wire, t
<1>4. DOMAIN runs = 1 .. last /\ Len(runs) = last
  BY <1>2
<1>5. runs[place] = RunItems(T, o, f, inner) /\ \A n \in 1 .. last : n # place => runs[n] = <<>>
  BY <1>1, <1>2, <1>3
<1>6. PICK X : runs[place] \in Seq(X)
  BY <1>5, RunItemsAreSeq
<1>7. ItemsOf(T, wire, f) = FlattenSeq(runs)
  BY DEF ItemsOf, t
<1>8. FlattenSeq(runs) = runs[place]
  <2> HIDE DEF runs
  <2> QED
    BY <1>2, <1>4, <1>5, <1>6, FlattenOne
<1> QED
  BY <1>5, <1>7, <1>8 DEF wire

\* The message that the parser is given for a part: a new one, or the one that is there.
Receiver(T, c, f) ==
    IF FieldTypes[T][f] \in Repeated \/ c.val[f] = <<>>
    THEN New(Element(FieldTypes[T][f])) ELSE c.val[f][1]

LEMMA ParsedPartsAre ==
    ASSUME NEW T \in DOMAIN Tables, NEW S, NEW o \in Objects(T, S), NEW inner, NEW c,
           NEW f \in Nested(T), Bit(T, f) \in o.bits, NEW i \in DOMAIN o.val[f]
    PROVE  LET m == [object |-> c, wire |-> SerializedLayer(T, o, inner)]
           IN  /\ <<f, i>> \in DOMAIN ParsedParts(T, m)
               /\ ParsedParts(T, m)[<<f, i>>] =
                     [ type |-> Element(FieldTypes[T][f]),
                       of |-> [object |-> Receiver(T, c, f), wire |-> inner[<<f, i>>]] ]
<1> DEFINE m == [object |-> c, wire |-> SerializedLayer(T, o, inner)]
           items == [g \in Nested(T) |-> ItemsOf(T, m.wire, g)]
           Again(g) == FlattenSeq([j \in DOMAIN items[g] |-> items[g][j].body])
           type == FieldTypes[T][f]
<1>1. f \in Fields(T) /\ o.val[f] \in ValuesIn(FieldTypes[T][f], S)
  BY ObjectFacts DEF Nested, Fields
<1>2. items[f] = RunItems(T, o, f, inner)
  BY <1>1, ItemsAre
<1>3. DOMAIN items[f] = DOMAIN o.val[f] /\ items[f][i].body = inner[<<f, i>>]
      /\ Len(items[f]) = Len(o.val[f])
  <2> HIDE DEF items
  <2> QED
    BY <1>1, <1>2, RunItemsAreSeq
<1>4. ASSUME type \notin Repeated
      PROVE  Again(f) = inner[<<f, i>>] /\ Element(type) = type
  <2>1. DOMAIN o.val[f] = {1} /\ Len(o.val[f]) = 1 /\ i = 1
    <3>1. o.val[f] = <<>> \/ (DOMAIN o.val[f] = {1} /\ Len(o.val[f]) = 1)
      BY <1>4, NestedValue
    <3>2. o.val[f] # <<>>
      OBVIOUS
    <3> QED
      BY <3>1, <3>2
  <2> DEFINE bodies == [j \in DOMAIN items[f] |-> items[f][j].body]
  <2>2. DOMAIN bodies = {1} /\ bodies[1] = inner[<<f, i>>]
    <3> HIDE DEF items
    <3> QED
      BY <1>3, <2>1
  <2>3. Len(bodies) = 1
    <3>1. DOMAIN bodies = 1 .. 1
      <4> HIDE DEF bodies
      <4> QED
        BY <2>2
    <3>2. bodies = [j \in 1 .. 1 |-> bodies[j]]
      <4>1. bodies = [j \in DOMAIN bodies |-> bodies[j]]
        OBVIOUS
      <4> HIDE DEF bodies
      <4> QED
        BY <3>1, <4>1
    <3> HIDE DEF bodies
    <3> QED
      BY <3>1, <3>2, IsSequence
  <2>4. FlattenSeq(bodies) = bodies[1]
    <3> HIDE DEF bodies
    <3> QED
      BY <2>2, <2>3, FlattenSingle
  <2>5. Element(type) = type
    BY <1>4 DEF Element
  <2> HIDE DEF items
  <2> QED
    BY <2>2, <2>4, <2>5
<1>5. ParsedParts(T, m) =
        [d \in UNION {{g} \X DOMAIN items[g] : g \in Nested(T)} |->
            [ type |-> Element(FieldTypes[T][d[1]]),
              of |-> IF FieldTypes[T][d[1]] \in Repeated
                     THEN [object |-> New(Element(FieldTypes[T][d[1]])), wire |-> items[d[1]][d[2]].body]
                     ELSE [ object |-> IF m.object.val[d[1]] = <<>> THEN New(FieldTypes[T][d[1]])
                                       ELSE m.object.val[d[1]][1],
                            wire |-> Again(d[1]) ] ]]
  BY Zenon DEF ParsedParts
<1>6. <<f, i>> \in UNION {{g} \X DOMAIN items[g] : g \in Nested(T)}
  <2>1. <<f, i>> \in {f} \X DOMAIN items[f]
    <3> HIDE DEF items
    <3> QED
      BY <1>3
  <2> HIDE DEF items
  <2> QED
    BY <2>1
<1>7. m.object = c
  OBVIOUS
<1>8. CASE type \in Repeated
  <2> HIDE DEF items, Again, m
  <2> QED
    BY <1>3, <1>5, <1>6, <1>8 DEF Receiver, m
<1>9. CASE type \notin Repeated
  <2>1. Again(f) = inner[<<f, i>>] /\ Element(type) = type
    BY <1>4, <1>9
  <2> HIDE DEF items, Again, m
  <2>2. ParsedParts(T, m)[<<f, i>>] =
            [ type |-> Element(type),
              of |-> [ object |-> IF m.object.val[f] = <<>> THEN New(type) ELSE m.object.val[f][1],
                       wire |-> Again(f) ] ]
    BY <1>5, <1>6, <1>9
  <2>3. <<f, i>> \in DOMAIN ParsedParts(T, m)
    BY <1>5, <1>6
  <2> HIDE DEF type
  <2> QED
    BY <1>7, <1>9, <2>1, <2>2, <2>3 DEF Receiver, m, type
<1> QED
  BY <1>8, <1>9

\* A field with nothing in it.
Nothing(T, f) == IF IsPlain(FieldTypes[T][f]) THEN 0 ELSE <<>>

\* What the parser leaves in a field.
ParsedValue(T, o, c, f, inner) ==
    IF Bit(T, f) \notin o.bits \/ o.val[f] = Nothing(T, f) THEN c.val[f]
    ELSE IF IsPlain(FieldTypes[T][f]) THEN o.val[f]
    ELSE IF FieldTypes[T][f] \in Repeated THEN c.val[f] \o [i \in DOMAIN o.val[f] |-> inner[<<f, i>>]]
    ELSE <<inner[<<f, 1>>]>>

\* The bit is set when there was something, or is something now.
ParsedBit(T, o, c, f, bits) ==
    Bit(T, f) \in bits <=>
        Bit(T, f) \in c.bits \/ (Bit(T, f) \in o.bits /\ o.val[f] # Nothing(T, f))

\* What the parser makes of it, member by member.
LEMMA ParsedIs ==
    ASSUME NEW T \in DOMAIN Tables, NEW S, NEW o \in Objects(T, S), NEW outer, NEW c, NEW inner,
           NEW parsed,
           parsed = ParsedLayer(T, [object |-> c, wire |-> SerializedLayer(T, o, outer)], inner)
    PROVE  /\ \A f \in Fields(T) : parsed.val[f] = ParsedValue(T, o, c, f, inner)
           /\ \A f \in Fields(T) : ParsedBit(T, o, c, f, parsed.bits)
<1> DEFINE wire == SerializedLayer(T, o, outer)
           m == [object |-> c, wire |-> wire]
           t == Tables[T].table
           last == LastNumber(T)
           items == [f \in Fields(T) |-> ItemsOf(T, m.wire, f)]
           Value(f) ==
               CASE IsPlain(FieldTypes[T][f]) -> items[f][Len(items[f])].value
                 [] FieldTypes[T][f] \in Repeated -> c.val[f] \o [i \in DOMAIN items[f] |-> inner[<<f, i>>]]
                 [] OTHER -> <<inner[<<f, 1>>]>>
<1>1. ASSUME NEW f \in Fields(T)
      PROVE  /\ items[f] = RunItems(T, o, f, outer)
             /\ items[f] = <<>> <=> Bit(T, f) \notin o.bits \/ o.val[f] = Nothing(T, f)
  <2>1. items[f] = RunItems(T, o, f, outer)
    BY ItemsAre
  <2>2. CASE Bit(T, f) \notin o.bits
    <3> HIDE DEF items
    <3> QED
      BY <2>1, <2>2 DEF RunItems
  <2>3. CASE Bit(T, f) \in o.bits /\ IsPlain(FieldTypes[T][f])
    <3>1. Nothing(T, f) = 0
      BY <2>3 DEF Nothing
    <3>2. <<[value |-> o.val[f], body |-> <<>>]>> # <<>>
      BY OneIsSequence
    <3> HIDE DEF items
    <3> QED
      BY <2>1, <2>3, <3>1, <3>2 DEF RunItems
  <2>4. CASE Bit(T, f) \in o.bits /\ ~ IsPlain(FieldTypes[T][f])
    <3>1. Nothing(T, f) = <<>> /\ f \in Nested(T)
      BY <2>4 DEF Nothing, Nested, Fields
    <3> HIDE DEF items
    <3> QED
      BY <2>1, <2>4, <3>1, RunItemsAreSeq
  <2> QED
    BY <2>2, <2>3, <2>4, <2>1
<1>2. ASSUME NEW f \in Fields(T)
      PROVE  (IF items[f] = <<>> THEN c.val[f] ELSE Value(f)) = ParsedValue(T, o, c, f, inner)
  <2>1. CASE items[f] = <<>>
    <3>1. Bit(T, f) \notin o.bits \/ o.val[f] = Nothing(T, f)
      BY <1>1, <2>1
    <3> HIDE DEF items, Value
    <3> QED
      BY <2>1, <3>1 DEF ParsedValue
  <2>2. CASE items[f] # <<>> /\ IsPlain(FieldTypes[T][f])
    <3>1. items[f] = <<[value |-> o.val[f], body |-> <<>>]>>
      <4> HIDE DEF items
      <4> QED
        BY <1>1, <2>2 DEF RunItems
    <3>2. Value(f) = o.val[f]
      <4>1. Value(f) = items[f][Len(items[f])].value
        <5>1. FieldTypes[T][f] \notin Repeated
          BY <2>2 DEF IsPlain
        <5> HIDE DEF items
        <5> QED
          BY <2>2, <5>1
      <4> HIDE DEF items, Value
      <4> QED
        BY <3>1, <4>1
    <3>3. ~ (Bit(T, f) \notin o.bits \/ o.val[f] = Nothing(T, f))
      BY <1>1, <2>2
    <3> HIDE DEF items, Value
    <3> QED
      BY <2>2, <3>2, <3>3 DEF ParsedValue
  <2>3. CASE items[f] # <<>> /\ ~ IsPlain(FieldTypes[T][f])
    <3>1. ~ (Bit(T, f) \notin o.bits \/ o.val[f] = Nothing(T, f)) /\ f \in Nested(T)
      BY <1>1, <2>3 DEF Nested, Fields
    <3>2. DOMAIN items[f] = DOMAIN o.val[f]
      <4> HIDE DEF items
      <4> QED
        BY <1>1, <3>1, RunItemsAreSeq
    <3>3. Value(f) = IF FieldTypes[T][f] \in Repeated
                     THEN c.val[f] \o [i \in DOMAIN items[f] |-> inner[<<f, i>>]]
                     ELSE <<inner[<<f, 1>>]>>
      <4> HIDE DEF items
      <4> QED
        BY <2>3
    <3> HIDE DEF items, Value
    <3> QED
      BY <2>3, <3>1, <3>2, <3>3 DEF ParsedValue
  <2> QED
    BY <2>1, <2>2, <2>3
<1>3. ParsedLayer(T, m, inner).val = [f \in Fields(T) |-> IF items[f] = <<>> THEN c.val[f] ELSE Value(f)]
  BY DEF ParsedLayer, Fields
<1>4. ParsedLayer(T, m, inner).val = [f \in Fields(T) |-> ParsedValue(T, o, c, f, inner)]
  <2> HIDE DEF items, Value, m
  <2> QED
    BY <1>2, <1>3
<1>5. /\ DOMAIN wire = 1 .. last
      /\ \A k \in 1 .. last : wire[k].number = k /\ wire[k].items = items[t[k][1]] /\ t[k][1] \in Fields(T)
      /\ \A k \in 1 .. last : t[wire[k].number][2] = Bit(T, t[k][1])
  <2>1. DOMAIN wire = 1 .. last
    BY SerializedRuns
  <2>2. \A k \in 1 .. last : t[k][1] \in Fields(T) /\ Bit(T, t[k][1]) = t[k][2]
    BY FieldFacts
  <2>3. \A k \in 1 .. last : wire[k] = [number |-> k, items |-> RunItems(T, o, t[k][1], outer)]
    BY SerializedRuns
  <2>4. ASSUME NEW k \in 1 .. last
        PROVE  wire[k].number = k /\ wire[k].items = RunItems(T, o, t[k][1], outer)
    <3>1. wire[k] = [number |-> k, items |-> RunItems(T, o, t[k][1], outer)]
      BY <2>3
    <3> HIDE DEF wire, t
    <3> QED
      BY <3>1
  <2>5. \A k \in 1 .. last : items[t[k][1]] = RunItems(T, o, t[k][1], outer)
    BY <1>1, <2>2
  <2> HIDE DEF wire, t, items
  <2> QED
    BY <2>1, <2>2, <2>4, <2>5
<1>6. ParsedLayer(T, m, inner).bits =
         c.bits \cup {t[wire[n].number][2] : n \in {n \in DOMAIN wire : wire[n].items # <<>>}}
  BY DEF ParsedLayer
<1>7. ASSUME NEW f \in Fields(T)
      PROVE  Bit(T, f) \in ParsedLayer(T, m, inner).bits <=>
                Bit(T, f) \in c.bits \/ (Bit(T, f) \in o.bits /\ o.val[f] # Nothing(T, f))
  <2>1. PICK k \in 1 .. last : t[k][1] = f
    BY FieldFacts
  <2>2. \A g \in Fields(T) : Bit(T, g) = Bit(T, f) => g = f
    BY FieldFacts
  <2>3. items[f] # <<>> <=> Bit(T, f) \in o.bits /\ o.val[f] # Nothing(T, f)
    BY <1>1
  <2> HIDE DEF wire, t, items, m
  <2>4. Bit(T, f) \in {t[wire[n].number][2] : n \in {n \in DOMAIN wire : wire[n].items # <<>>}}
            <=> items[f] # <<>>
    BY <1>5, <2>1, <2>2
  <2> QED
    BY <1>6, <2>3, <2>4
<1> HIDE DEF m
<1>8. parsed = ParsedLayer(T, m, inner)
  BY DEF m, wire
<1>9. \A f \in Fields(T) : parsed.val[f] = ParsedValue(T, o, c, f, inner)
  BY <1>4, <1>8
<1>10. \A f \in Fields(T) : ParsedBit(T, o, c, f, parsed.bits)
  BY <1>7, <1>8 DEF ParsedBit
<1> QED
  BY <1>9, <1>10

-----------------------------------------------------------------------------
(* One message, given what holds of the messages in it.                     *)

\* The messages in an object look alike.
SameWithin(T, o, seen, seenNow) ==
    \A f \in Nested(T) : \A i : Bit(T, f) \in o.bits /\ i \in DOMAIN o.val[f] =>
        seenNow[<<f, i>>] = seen[<<f, i>>]

\* What is parsed into a cleared object looks like what was serialized.
LEMMA ParsedLooksAlike ==
    ASSUME NEW T \in DOMAIN Tables, NEW S, NEW o \in Objects(T, S), NEW c \in Objects(T, S),
           c.bits = {}, NEW outer, NEW inner, NEW parsed,
           parsed = ParsedLayer(T, [object |-> c, wire |-> SerializedLayer(T, o, outer)], inner)
    PROVE  /\ \A f \in Nested(T) : \A i : Bit(T, f) \in o.bits /\ i \in DOMAIN o.val[f] =>
                 i \in DOMAIN parsed.val[f] /\ parsed.val[f][i] = inner[<<f, i>>]
           /\ \A seen, seenNow :
                 SameWithin(T, o, seen, seenNow) =>
                     VisibleLayer(T, parsed, seenNow) = VisibleLayer(T, o, seen)
<1>1. \A f \in Fields(T) : parsed.val[f] = ParsedValue(T, o, c, f, inner)
  BY ParsedIs
<1>2. \A f \in Fields(T) : ParsedBit(T, o, c, f, parsed.bits)
  BY ParsedIs
<1>3. \A f \in Fields(T) : BitTells(T, o.bits, f, o.val[f]) /\ BitTells(T, {}, f, c.val[f])
  <2>1. \A f \in Fields(T) : BitTells(T, o.bits, f, o.val[f])
    BY ObjectFacts
  <2>2. \A f \in Fields(T) : BitTells(T, c.bits, f, c.val[f])
    BY ObjectFacts
  <2> QED
    BY <2>1, <2>2
<1>4. ASSUME NEW f \in Fields(T), IsPlain(FieldTypes[T][f])
      PROVE  parsed.val[f] = o.val[f]
  <2>1. o.val[f] # 0 => Bit(T, f) \in o.bits
    BY <1>3, <1>4 DEF BitTells
  <2>2. c.val[f] = 0
    BY <1>3, <1>4 DEF BitTells
  <2>3. parsed.val[f] = ParsedValue(T, o, c, f, inner)
    BY <1>1
  <2> QED
    BY <1>4, <2>1, <2>2, <2>3 DEF ParsedValue, Nothing
<1>5. ASSUME NEW f \in Nested(T), FieldTypes[T][f] \in Repeated
      PROVE  /\ DOMAIN parsed.val[f] = DOMAIN o.val[f]
             /\ \A i \in DOMAIN o.val[f] :
                   Bit(T, f) \in o.bits /\ parsed.val[f][i] = inner[<<f, i>>]
  <2>1. f \in Fields(T) /\ ~ IsPlain(FieldTypes[T][f])
    BY NestedValue
  <2>2. c.val[f] = <<>> /\ (o.val[f] # <<>> => Bit(T, f) \in o.bits)
    BY <1>3, <1>5, <2>1 DEF BitTells
  <2>3. CASE o.val[f] = <<>>
    <3>1. parsed.val[f] = <<>>
      BY <1>1, <2>1, <2>2, <2>3 DEF ParsedValue, Nothing
    <3> QED
      BY <2>3, <3>1
  <2>4. CASE o.val[f] # <<>>
    <3> DEFINE new == [i \in DOMAIN o.val[f] |-> inner[<<f, i>>]]
    <3>1. parsed.val[f] = <<>> \o new
      BY <1>1, <1>5, <2>1, <2>2, <2>4 DEF ParsedValue, Nothing
    <3>2. new \in Seq({new[i] : i \in 1 .. Len(o.val[f])})
      <4>1. Len(o.val[f]) \in Nat /\ DOMAIN new = 1 .. Len(o.val[f])
            /\ new = [i \in 1 .. Len(o.val[f]) |-> new[i]]
        BY NestedValue
      <4> HIDE DEF new
      <4> QED
        BY <4>1, IsSequence
    <3>3. <<>> \o new = new
      <4> HIDE DEF new
      <4> QED
        BY <3>2, ConcatEmptySeq
    <3> QED
      BY <2>2, <2>4, <3>1, <3>3
  <2> QED
    BY <2>3, <2>4
<1>6. ASSUME NEW f \in Nested(T), FieldTypes[T][f] \notin Repeated
      PROVE  /\ Bit(T, f) \in parsed.bits <=> Bit(T, f) \in o.bits
             /\ Bit(T, f) \in o.bits =>
                   /\ DOMAIN parsed.val[f] = DOMAIN o.val[f]
                   /\ \A i \in DOMAIN o.val[f] : parsed.val[f][i] = inner[<<f, i>>]
  <2>1. f \in Fields(T) /\ ~ IsPlain(FieldTypes[T][f])
    BY NestedValue
  <2>2. Bit(T, f) \in o.bits => o.val[f] # <<>>
    BY <1>3, <1>6, <2>1 DEF BitTells
  <2>3. Bit(T, f) \in o.bits => parsed.val[f] = <<inner[<<f, 1>>]>>
    BY <1>1, <1>6, <2>1, <2>2 DEF ParsedValue, Nothing
  <2>4. o.val[f] # <<>> => DOMAIN o.val[f] = {1}
    BY <1>6, NestedValue
  <2>5. Bit(T, f) \in parsed.bits <=> Bit(T, f) \in o.bits
    BY <1>2, <2>1, <2>2 DEF Nothing, ParsedBit
  <2>6. ASSUME Bit(T, f) \in o.bits
        PROVE  /\ DOMAIN parsed.val[f] = DOMAIN o.val[f]
               /\ \A i \in DOMAIN o.val[f] : parsed.val[f][i] = inner[<<f, i>>]
    <3>1. DOMAIN o.val[f] = {1}
      BY <2>2, <2>4, <2>6
    <3>2. DOMAIN parsed.val[f] = {1} /\ parsed.val[f][1] = inner[<<f, 1>>]
      BY <2>3, <2>6
    <3> QED
      BY <3>1, <3>2
  <2> QED
    BY <2>5, <2>6
<1>7. \A f \in Nested(T) : \A i : Bit(T, f) \in o.bits /\ i \in DOMAIN o.val[f] =>
         i \in DOMAIN parsed.val[f] /\ parsed.val[f][i] = inner[<<f, i>>]
  <2> SUFFICES ASSUME NEW f \in Nested(T), NEW i, Bit(T, f) \in o.bits, i \in DOMAIN o.val[f]
               PROVE  i \in DOMAIN parsed.val[f] /\ parsed.val[f][i] = inner[<<f, i>>]
    OBVIOUS
  <2>1. CASE FieldTypes[T][f] \in Repeated
    BY <1>5, <2>1
  <2>2. CASE FieldTypes[T][f] \notin Repeated
    BY <1>6, <2>2
  <2> QED
    BY <2>1, <2>2
<1>8. ASSUME NEW seen, NEW seenNow,
             \A f \in Nested(T) : \A i : Bit(T, f) \in o.bits /\ i \in DOMAIN o.val[f] =>
                 seenNow[<<f, i>>] = seen[<<f, i>>],
             NEW f \in Fields(T)
      PROVE  VisibleLayer(T, parsed, seenNow)[f] = VisibleLayer(T, o, seen)[f]
  <2>1. CASE IsPlain(FieldTypes[T][f])
    BY <1>4, <2>1 DEF VisibleLayer, Fields
  <2>2. CASE ~ IsPlain(FieldTypes[T][f]) /\ FieldTypes[T][f] \in Repeated
    <3>1. f \in Nested(T)
      BY <2>2 DEF Nested, Fields
    <3>2. [i \in DOMAIN parsed.val[f] |-> seenNow[<<f, i>>]] = [i \in DOMAIN o.val[f] |-> seen[<<f, i>>]]
      BY <1>5, <1>8, <2>2, <3>1
    <3> QED
      BY <2>2, <3>2 DEF VisibleLayer, Fields
  <2>3. CASE ~ IsPlain(FieldTypes[T][f]) /\ FieldTypes[T][f] \notin Repeated
    <3>1. f \in Nested(T)
      BY <2>3 DEF Nested, Fields
    <3>2. CASE Bit(T, f) \in o.bits
      <4>1. [i \in DOMAIN parsed.val[f] |-> seenNow[<<f, i>>]] = [i \in DOMAIN o.val[f] |-> seen[<<f, i>>]]
        BY <1>6, <1>8, <2>3, <3>1, <3>2
      <4>2. Bit(T, f) \in parsed.bits
        BY <1>6, <2>3, <3>1, <3>2
      <4> QED
        BY <2>3, <3>2, <4>1, <4>2 DEF VisibleLayer, Fields, Bit
    <3>3. CASE Bit(T, f) \notin o.bits
      <4>1. Bit(T, f) \notin parsed.bits
        BY <1>6, <2>3, <3>1, <3>3
      <4> QED
        BY <2>3, <3>3, <4>1 DEF VisibleLayer, Fields, Bit
    <3> QED
      BY <3>2, <3>3
  <2> QED
    BY <2>1, <2>2, <2>3
<1>9. ASSUME NEW seen, NEW seenNow,
             \A f \in Nested(T) : \A i : Bit(T, f) \in o.bits /\ i \in DOMAIN o.val[f] =>
                 seenNow[<<f, i>>] = seen[<<f, i>>]
      PROVE  VisibleLayer(T, parsed, seenNow) = VisibleLayer(T, o, seen)
  <2>1. \A f \in Fields(T) : VisibleLayer(T, parsed, seenNow)[f] = VisibleLayer(T, o, seen)[f]
    BY <1>8, <1>9
  <2>2. VisibleLayer(T, parsed, seenNow) = [f \in Fields(T) |-> VisibleLayer(T, parsed, seenNow)[f]]
        /\ VisibleLayer(T, o, seen) = [f \in Fields(T) |-> VisibleLayer(T, o, seen)[f]]
    BY DEF VisibleLayer, Fields
  <2> QED
    BY <2>1, <2>2
<1> QED
  BY <1>7, <1>9 DEF SameWithin

\* MergeImpl looks at the fields whose bits are set, and at no others.
LEMMA ReachedIs ==
    ASSUME NEW T \in DOMAIN Tables, NEW bits
    PROVE  Reached(T, bits) = {f \in Fields(T) : Bit(T, f) \in bits}
<1> DEFINE merge == Tables[T].merge
           impl == Tables[T].impl
           last == LastNumber(T)
<1>1. FieldsAgree(T) /\ GroupsAgree(T, merge)
  BY TablesAgree DEF Agree
<1>2. last \in Nat \ {0}
  BY FieldFacts
<1>3. PICK n \in Nat : DOMAIN merge = 1 .. n /\ 8 * (n - 1) < last /\ last <= 8 * n
  BY <1>1 DEF GroupsAgree, LastNumber
<1>4. ASSUME NEW i \in 1 .. n
      PROVE  /\ DOMAIN merge[i][2] = 1 .. (IF 8 * i <= last THEN 8 ELSE last - 8 * (i - 1))
             /\ \A j \in DOMAIN merge[i][2] :
                   LET m == 8 * (i - 1) + j
                   IN  /\ merge[i][2][j][1] = impl[m] /\ merge[i][2][j][2] = m - 1
                       /\ m - 1 \in merge[i][1] /\ m \in 1 .. last
  <2>1. GroupAgrees(T, merge[i], i)
    BY <1>1, <1>3 DEF GroupsAgree
  <2>2. DOMAIN merge[i][2] = 1 .. (IF 8 * i <= last THEN 8 ELSE last - 8 * (i - 1))
    BY <2>1 DEF GroupAgrees, LastNumber
  <2>3. \A j \in 1 .. (IF 8 * i <= last THEN 8 ELSE last - 8 * (i - 1)) : 8 * (i - 1) + j \in 1 .. last
    BY <1>2, <1>3
  <2> QED
    BY <2>1, <2>2, <2>3 DEF GroupAgrees, LastNumber
<1>5. ASSUME NEW f \in Reached(T, bits)
      PROVE  f \in Fields(T) /\ Bit(T, f) \in bits
  <2>1. PICK i \in DOMAIN merge : \E j \in DOMAIN merge[i][2] :
                merge[i][2][j][1] = f /\ merge[i][2][j][2] \in bits
    BY DEF Reached
  <2>2. PICK j \in DOMAIN merge[i][2] : merge[i][2][j][1] = f /\ merge[i][2][j][2] \in bits
    BY <2>1
  <2> DEFINE m == 8 * (i - 1) + j
  <2>3. f = impl[m] /\ m - 1 \in bits /\ m \in 1 .. last
    BY <1>3, <1>4, <2>2
  <2>4. f \in Fields(T) /\ Bit(T, f) = m - 1
    BY <2>3, MemberFacts
  <2> QED
    BY <2>3, <2>4
<1>6. ASSUME NEW f \in Fields(T), Bit(T, f) \in bits
      PROVE  f \in Reached(T, bits)
  <2>1. PICK m \in 1 .. last : f = impl[m]
    <3>1. PICK k \in 1 .. last : Tables[T].table[k][1] = f
      BY FieldFacts
    <3>2. Tables[T].table[k][2] + 1 \in 1 .. last /\ impl[Tables[T].table[k][2] + 1] = Tables[T].table[k][1]
      <4>1. Tables[T].table[k][2] \in 0 .. last - 1 /\ impl[Tables[T].table[k][2] + 1] = Tables[T].table[k][1]
        BY <1>1 DEF FieldsAgree, LastNumber
      <4> QED
        BY <1>2, <4>1
    <3> QED
      BY <3>1, <3>2
  <2>2. Bit(T, f) = m - 1
    BY <2>1, MemberFacts
  <2>3. \E i \in 1 .. n : \E j \in DOMAIN merge[i][2] : 8 * (i - 1) + j = m
    <3> DEFINE i == (m - 1) \div 8 + 1
               j == m - 8 * (i - 1)
    <3>1. i \in Nat \ {0} /\ j \in 1 .. 8 /\ 8 * (i - 1) + j = m
      BY <1>2
    <3> HIDE DEF i
    <3>2. i \in 1 .. n
      BY <1>2, <1>3, <3>1
    <3>3. j \in DOMAIN merge[i][2]
      BY <1>2, <1>4, <3>1, <3>2
    <3> HIDE DEF j
    <3> QED
      BY <3>1, <3>2, <3>3
  <2>6. PICK i \in 1 .. n : \E j \in DOMAIN merge[i][2] : 8 * (i - 1) + j = m
    BY <2>3
  <2>7. PICK j \in DOMAIN merge[i][2] : 8 * (i - 1) + j = m
    BY <2>6
  <2>4. merge[i][2][j][1] = f /\ merge[i][2][j][2] = m - 1 /\ m - 1 \in merge[i][1]
    BY <1>4, <2>1, <2>7
  <2>5. m - 1 \in merge[i][1] \cap bits /\ i \in DOMAIN merge
    BY <1>3, <1>6, <2>2, <2>4
  <2> QED
    BY <1>6, <2>2, <2>7, <2>4, <2>5 DEF Reached, Fields
<1> QED
  BY <1>5, <1>6

\* What MergeImpl leaves in a field.
MergedValue(T, to, from, f, inner) ==
    IF Bit(T, f) \notin from.bits THEN to.val[f]
    ELSE IF IsPlain(FieldTypes[T][f]) THEN (IF from.val[f] # 0 THEN from.val[f] ELSE to.val[f])
    ELSE IF FieldTypes[T][f] \in Repeated THEN to.val[f] \o from.val[f]
    ELSE IF to.val[f] = <<>> THEN from.val[f] ELSE <<inner[f]>>

LEMMA MergedIs ==
    ASSUME NEW T \in DOMAIN Tables, NEW to, NEW from, NEW inner, NEW merged,
           merged = MergedLayer(T, [to |-> to, from |-> from], inner)
    PROVE  /\ merged.bits = to.bits \cup from.bits
           /\ merged = [bits |-> merged.bits, val |-> merged.val]
           /\ merged.val = [f \in Fields(T) |-> MergedValue(T, to, from, f, inner)]
<1> DEFINE reached == Reached(T, from.bits)
           Value(f) ==
               CASE IsPlain(FieldTypes[T][f]) -> IF from.val[f] # 0 THEN from.val[f] ELSE to.val[f]
                 [] FieldTypes[T][f] \in Repeated -> to.val[f] \o from.val[f]
                 [] OTHER -> IF to.val[f] = <<>> THEN from.val[f] ELSE <<inner[f]>>
<1>1. merged = [ bits |-> to.bits \cup from.bits,
                 val |-> [f \in Fields(T) |-> IF f \in reached THEN Value(f) ELSE to.val[f]] ]
  BY DEF MergedLayer, Fields
<1>2. reached = {f \in Fields(T) : Bit(T, f) \in from.bits}
  BY ReachedIs
<1>3. ASSUME NEW f \in Fields(T)
      PROVE  (IF f \in reached THEN Value(f) ELSE to.val[f]) = MergedValue(T, to, from, f, inner)
  <2>1. CASE f \notin reached
    <3> HIDE DEF reached, Value
    <3> QED
      BY <1>2, <2>1 DEF MergedValue
  <2>2. CASE f \in reached
    <3>1. Bit(T, f) \in from.bits
      <4> HIDE DEF reached
      <4> QED
        BY <1>2, <2>2
    <3>2. IsPlain(FieldTypes[T][f]) => FieldTypes[T][f] \notin Repeated
      BY DEF IsPlain
    <3>3. Value(f) = MergedValue(T, to, from, f, inner)
      <4>1. CASE IsPlain(FieldTypes[T][f])
        BY <3>1, <3>2, <4>1 DEF MergedValue
      <4>2. CASE ~ IsPlain(FieldTypes[T][f]) /\ FieldTypes[T][f] \in Repeated
        BY <3>1, <3>2, <4>2 DEF MergedValue
      <4>3. CASE ~ IsPlain(FieldTypes[T][f]) /\ FieldTypes[T][f] \notin Repeated
        BY <3>1, <3>2, <4>3 DEF MergedValue
      <4> QED
        BY <4>1, <4>2, <4>3
    <3> HIDE DEF reached, Value
    <3> QED
      BY <2>2, <3>3
  <2> QED
    BY <2>1, <2>2
<1> HIDE DEF reached, Value
<1> QED
  BY <1>1, <1>3

LEMMA MergedPartsAre ==
    ASSUME NEW T \in DOMAIN Tables, NEW to, NEW from, NEW f \in Nested(T),
           FieldTypes[T][f] \notin Repeated, to.val[f] # <<>>, from.val[f] # <<>>
    PROVE  LET m == [to |-> to, from |-> from]
           IN  /\ f \in DOMAIN MergedParts(T, m)
               /\ MergedParts(T, m)[f] =
                     [type |-> FieldTypes[T][f], of |-> [to |-> to.val[f][1], from |-> from.val[f][1]]]
  BY DEF MergedParts

\* The messages that the getters show.
Shown(T, bits, f) == FieldTypes[T][f] \in Repeated \/ Bit(T, f) \in bits

\* Objects look alike when the numbers, the bits of the messages and the messages do.
LEMMA LookAlike ==
    ASSUME NEW T \in DOMAIN Tables, NEW a, NEW b, NEW seenA, NEW seenB,
           \A f \in Fields(T) : IsPlain(FieldTypes[T][f]) => a.val[f] = b.val[f],
           \A f \in Nested(T) :
               /\ Shown(T, a.bits, f) <=> Shown(T, b.bits, f)
               /\ Shown(T, a.bits, f) => DOMAIN a.val[f] = DOMAIN b.val[f]
               /\ Shown(T, a.bits, f) => \A i \in DOMAIN a.val[f] : seenA[<<f, i>>] = seenB[<<f, i>>]
    PROVE  VisibleLayer(T, a, seenA) = VisibleLayer(T, b, seenB)
<1>1. ASSUME NEW f \in Fields(T)
      PROVE  VisibleLayer(T, a, seenA)[f] = VisibleLayer(T, b, seenB)[f]
  <2>1. CASE IsPlain(FieldTypes[T][f])
    BY <2>1 DEF VisibleLayer, Fields
  <2>2. CASE ~ IsPlain(FieldTypes[T][f]) /\ Shown(T, a.bits, f)
    <3>1. f \in Nested(T)
      BY <2>2 DEF Nested, Fields
    <3>2. [i \in DOMAIN a.val[f] |-> seenA[<<f, i>>]] = [i \in DOMAIN b.val[f] |-> seenB[<<f, i>>]]
      BY <2>2, <3>1
    <3>3. Shown(T, b.bits, f)
      BY <2>2, <3>1
    <3> QED
      BY <2>2, <3>2, <3>3 DEF VisibleLayer, Fields, Shown, Bit
  <2>3. CASE ~ IsPlain(FieldTypes[T][f]) /\ ~ Shown(T, a.bits, f)
    <3>1. f \in Nested(T)
      BY <2>3 DEF Nested, Fields
    <3>2. ~ Shown(T, b.bits, f)
      BY <2>3, <3>1
    <3> QED
      BY <2>3, <3>2 DEF VisibleLayer, Fields, Shown, Bit
  <2> QED
    BY <2>1, <2>2, <2>3
<1>2. /\ VisibleLayer(T, a, seenA) = [f \in Fields(T) |-> VisibleLayer(T, a, seenA)[f]]
      /\ VisibleLayer(T, b, seenB) = [f \in Fields(T) |-> VisibleLayer(T, b, seenB)[f]]
  BY DEF VisibleLayer, Fields
<1> QED
  BY <1>1, <1>2

\* Two sequences one behind the other.
LEMMA Joined ==
    ASSUME NEW X, NEW Y, NEW a \in Seq(X), NEW b \in Seq(Y)
    PROVE  /\ DOMAIN (a \o b) = 1 .. (Len(a) + Len(b))
           /\ \A i \in 1 .. (Len(a) + Len(b)) :
                 (a \o b)[i] = IF i <= Len(a) THEN a[i] ELSE b[i - Len(a)]
  OBVIOUS

\* A message of an object that was merged into, and the one of an object that was parsed
\* into: the same, or the one that was merged and the one that was parsed in its place.
SamePart(T, to, from, f, mine, parsed, im, ip) ==
    \/ mine = parsed
    \/ /\ Bit(T, f) \in from.bits /\ (FieldTypes[T][f] \in Repeated \/ to.val[f] = <<>>)
       /\ \E j \in DOMAIN from.val[f] : mine = from.val[f][j] /\ parsed = ip[<<f, j>>]
    \/ /\ Bit(T, f) \in from.bits /\ FieldTypes[T][f] \notin Repeated
       /\ to.val[f] # <<>> /\ from.val[f] # <<>>
       /\ mine = im[f] /\ parsed = ip[<<f, 1>>]

\* Merging an object and parsing what it is serialized to leave members that look alike,
\* if the messages in them do.
LEMMA MergedAndParsed ==
    ASSUME NEW T \in DOMAIN Tables, NEW S, NEW to \in Objects(T, S), NEW from \in Objects(T, S),
           NEW outer, NEW im, NEW ip, NEW merged, NEW parsed,
           merged = MergedLayer(T, [to |-> to, from |-> from], im),
           parsed = ParsedLayer(T, [object |-> to, wire |-> SerializedLayer(T, from, outer)], ip)
    PROVE  /\ \A f \in Fields(T) : IsPlain(FieldTypes[T][f]) => merged.val[f] = parsed.val[f]
           /\ \A f \in Nested(T) :
                 /\ Shown(T, merged.bits, f) <=> Shown(T, parsed.bits, f)
                 /\ DOMAIN merged.val[f] = DOMAIN parsed.val[f]
                 /\ \A i \in DOMAIN merged.val[f] :
                       SamePart(T, to, from, f, merged.val[f][i], parsed.val[f][i], im, ip)
<1>1. /\ \A f \in Fields(T) : parsed.val[f] = ParsedValue(T, from, to, f, ip)
      /\ \A f \in Fields(T) : ParsedBit(T, from, to, f, parsed.bits)
  BY ParsedIs
<1>2. /\ merged.bits = to.bits \cup from.bits
      /\ \A f \in Fields(T) : merged.val[f] = MergedValue(T, to, from, f, im)
  <2>1. /\ merged.bits = to.bits \cup from.bits
        /\ merged.val = [f \in Fields(T) |-> MergedValue(T, to, from, f, im)]
    BY MergedIs
  <2> QED
    BY <2>1
<1>3. \A f \in Fields(T) : BitTells(T, from.bits, f, from.val[f])
  BY ObjectFacts
<1>4. ASSUME NEW f \in Fields(T), IsPlain(FieldTypes[T][f])
      PROVE  merged.val[f] = parsed.val[f]
  <2>1. /\ merged.val[f] = MergedValue(T, to, from, f, im)
        /\ parsed.val[f] = ParsedValue(T, from, to, f, ip)
    BY <1>1, <1>2
  <2> QED
    BY <1>4, <2>1 DEF MergedValue, ParsedValue, Nothing
<1>5. ASSUME NEW f \in Nested(T), Bit(T, f) \notin from.bits
      PROVE  /\ merged.val[f] = parsed.val[f]
             /\ Shown(T, merged.bits, f) <=> Shown(T, parsed.bits, f)
  <2>1. f \in Fields(T)
    BY DEF Nested, Fields
  <2>2. merged.val[f] = to.val[f] /\ parsed.val[f] = to.val[f]
    BY <1>1, <1>2, <1>5, <2>1 DEF MergedValue, ParsedValue
  <2>3. Bit(T, f) \in parsed.bits <=> Bit(T, f) \in to.bits
    BY <1>1, <1>5, <2>1 DEF ParsedBit
  <2> QED
    BY <1>2, <1>5, <2>2, <2>3 DEF Shown
<1>6. ASSUME NEW f \in Nested(T), Bit(T, f) \in from.bits, FieldTypes[T][f] \notin Repeated
      PROVE  /\ Shown(T, merged.bits, f) /\ Shown(T, parsed.bits, f)
             /\ DOMAIN merged.val[f] = {1} /\ DOMAIN parsed.val[f] = {1}
             /\ SamePart(T, to, from, f, merged.val[f][1], parsed.val[f][1], im, ip)
  <2>1. f \in Fields(T) /\ ~ IsPlain(FieldTypes[T][f])
    BY NestedValue
  <2>2. from.val[f] # <<>> /\ from.val[f] # Nothing(T, f)
    BY <1>3, <1>6, <2>1 DEF BitTells, Nothing
  <2>3. DOMAIN from.val[f] = {1}
    BY <1>6, <2>2, NestedValue
  <2>4. parsed.val[f] = <<ip[<<f, 1>>]>>
    BY <1>1, <1>6, <2>1, <2>2 DEF ParsedValue
  <2>5. Bit(T, f) \in parsed.bits
    BY <1>1, <1>6, <2>1, <2>2 DEF ParsedBit
  <2>6. merged.val[f] = IF to.val[f] = <<>> THEN from.val[f] ELSE <<im[f]>>
    BY <1>2, <1>6, <2>1 DEF MergedValue
  <2>7. DOMAIN parsed.val[f] = {1} /\ parsed.val[f][1] = ip[<<f, 1>>]
    BY <2>4
  <2>8. CASE to.val[f] = <<>>
    <3>1. merged.val[f] = from.val[f]
      BY <2>6, <2>8
    <3> QED
      BY <1>2, <1>6, <2>3, <2>5, <2>7, <2>8, <3>1 DEF Shown, SamePart
  <2>9. CASE to.val[f] # <<>>
    <3>1. DOMAIN merged.val[f] = {1} /\ merged.val[f][1] = im[f]
      BY <2>6, <2>9
    <3> QED
      BY <1>2, <1>6, <2>2, <2>5, <2>7, <2>9, <3>1 DEF Shown, SamePart
  <2> QED
    BY <2>8, <2>9
<1>7. ASSUME NEW f \in Nested(T), Bit(T, f) \in from.bits, FieldTypes[T][f] \in Repeated
      PROVE  /\ Shown(T, merged.bits, f) /\ Shown(T, parsed.bits, f)
             /\ DOMAIN merged.val[f] = DOMAIN parsed.val[f]
             /\ \A i \in DOMAIN merged.val[f] :
                   SamePart(T, to, from, f, merged.val[f][i], parsed.val[f][i], im, ip)
  <2> DEFINE old == to.val[f]
             new == from.val[f]
             now == [i \in DOMAIN new |-> ip[<<f, i>>]]
             X == S[Element(FieldTypes[T][f])]
  <2>1. /\ f \in Fields(T) /\ ~ IsPlain(FieldTypes[T][f])
        /\ old \in Seq(X) /\ new \in Seq(X)
        /\ Len(new) \in Nat /\ DOMAIN new = 1 .. Len(new)
        /\ Len(old) \in Nat /\ DOMAIN old = 1 .. Len(old)
    BY NestedValue
  <2>2. merged.val[f] = old \o new
    BY <1>2, <1>7, <2>1 DEF MergedValue
  <2>3. now \in Seq({now[i] : i \in 1 .. Len(new)}) /\ Len(now) = Len(new)
    <3>1. DOMAIN now = 1 .. Len(new) /\ now = [i \in 1 .. Len(new) |-> now[i]]
      BY <2>1
    <3> HIDE DEF now
    <3> QED
      BY <2>1, <3>1, IsSequence
  <2>4. CASE new = <<>>
    <3>1. parsed.val[f] = old
      BY <1>1, <2>1, <2>4 DEF ParsedValue, Nothing
    <3>2. merged.val[f] = old
      <4> HIDE DEF old, new
      <4> QED
        BY <2>1, <2>2, <2>4, ConcatEmptySeq
    <3> QED
      BY <1>7, <3>1, <3>2 DEF Shown, SamePart
  <2>5. CASE new # <<>>
    <3>1. parsed.val[f] = old \o now
      BY <1>1, <1>7, <2>1, <2>5 DEF ParsedValue, Nothing
    <3>2. /\ DOMAIN (old \o new) = 1 .. (Len(old) + Len(new))
          /\ DOMAIN (old \o now) = 1 .. (Len(old) + Len(new))
          /\ \A i \in 1 .. (Len(old) + Len(new)) :
                IF i <= Len(old) THEN (old \o new)[i] = old[i] /\ (old \o now)[i] = old[i]
                ELSE (old \o new)[i] = new[i - Len(old)] /\ (old \o now)[i] = now[i - Len(old)]
      <4> DEFINE Y == {now[i] : i \in 1 .. Len(new)}
      <4> HIDE DEF old, new, now, X
      <4>1. now \in Seq(Y)
        BY <2>3
      <4> HIDE DEF Y
      <4>2. /\ DOMAIN (old \o new) = 1 .. (Len(old) + Len(new))
            /\ \A i \in 1 .. (Len(old) + Len(new)) :
                  (old \o new)[i] = IF i <= Len(old) THEN old[i] ELSE new[i - Len(old)]
        BY <2>1, Joined
      <4>3. /\ DOMAIN (old \o now) = 1 .. (Len(old) + Len(now))
            /\ \A i \in 1 .. (Len(old) + Len(now)) :
                  (old \o now)[i] = IF i <= Len(old) THEN old[i] ELSE now[i - Len(old)]
        BY <2>1, <4>1, Joined
      <4>4. Len(now) = Len(new)
        BY <2>3
      <4> QED
        BY <4>2, <4>3, <4>4
    <3>3. ASSUME NEW i \in 1 .. (Len(old) + Len(new))
          PROVE  SamePart(T, to, from, f, merged.val[f][i], parsed.val[f][i], im, ip)
      <4>1. CASE i <= Len(old)
        <5>1. merged.val[f][i] = parsed.val[f][i]
          BY <2>2, <3>1, <3>2, <4>1
        <5> QED
          BY <5>1 DEF SamePart
      <4>2. CASE ~ (i <= Len(old))
        <5> DEFINE j == i - Len(old)
        <5>1. j \in DOMAIN new
          <6> HIDE DEF old, new
          <6> QED
            BY <2>1, <4>2
        <5>2. merged.val[f][i] = new[j] /\ parsed.val[f][i] = now[j]
          BY <2>2, <3>1, <3>2, <4>2
        <5>3. now[j] = ip[<<f, j>>]
          BY <5>1
        <5>4. \E k \in DOMAIN from.val[f] :
                  merged.val[f][i] = from.val[f][k] /\ parsed.val[f][i] = ip[<<f, k>>]
          BY <5>1, <5>2, <5>3
        <5> QED
          BY <1>7, <5>4 DEF SamePart
      <4> QED
        BY <4>1, <4>2
    <3> QED
      BY <1>7, <2>2, <3>1, <3>2, <3>3 DEF Shown
  <2> QED
    BY <2>4, <2>5
<1>8. ASSUME NEW f \in Nested(T)
      PROVE  /\ Shown(T, merged.bits, f) <=> Shown(T, parsed.bits, f)
             /\ DOMAIN merged.val[f] = DOMAIN parsed.val[f]
             /\ \A i \in DOMAIN merged.val[f] :
                   SamePart(T, to, from, f, merged.val[f][i], parsed.val[f][i], im, ip)
  <2>1. CASE Bit(T, f) \notin from.bits
    BY <1>5, <2>1 DEF SamePart
  <2>2. CASE Bit(T, f) \in from.bits /\ FieldTypes[T][f] \notin Repeated
    <3>1. /\ Shown(T, merged.bits, f) /\ Shown(T, parsed.bits, f)
          /\ DOMAIN merged.val[f] = {1} /\ DOMAIN parsed.val[f] = {1}
          /\ SamePart(T, to, from, f, merged.val[f][1], parsed.val[f][1], im, ip)
      BY <1>6, <2>2
    <3> QED
      BY <3>1
  <2>3. CASE Bit(T, f) \in from.bits /\ FieldTypes[T][f] \in Repeated
    BY <1>7, <2>3
  <2> QED
    BY <2>1, <2>2, <2>3
<1> QED
  BY <1>4, <1>8

-----------------------------------------------------------------------------
(* The size of a message, given the sizes of the messages in it.            *)

Bytes(k) == IF k < 128 THEN 1 ELSE IF k < 128 * 128 THEN 2 ELSE IF k < 128 * 128 * 128 THEN 3 ELSE 4
FourBytes == 128 * 128 * 128 * 128

LEMMA VarintIs ==
    ASSUME NEW n
    PROVE  Varint(n) =
             CASE n < 0 -> 10
               [] n >= 0 /\ n < FourBytes -> Bytes(n)
               [] n >= FourBytes /\ n \div FourBytes < FourBytes -> 4 + Bytes(n \div FourBytes)
               [] OTHER -> 9
  BY Zenon DEF Varint, Bytes, FourBytes

LEMMA VarintIsInt ==
    ASSUME NEW n \in Int
    PROVE  Varint(n) \in Int
<1>1. \A k \in Int : Bytes(k) \in Int
  BY DEF Bytes
<1>2. FourBytes \in Nat \ {0}
  BY DEF FourBytes
<1>3. CASE n < 0
  BY <1>2, <1>3, VarintIs
<1>4. CASE n >= 0 /\ n < FourBytes
  <2>1. Varint(n) = Bytes(n)
    BY <1>2, <1>4, VarintIs
  <2> QED
    BY <1>1, <2>1
<1>5. CASE n >= FourBytes
  <2>1. n \div FourBytes \in Int
    BY <1>2
  <2>2. Bytes(n \div FourBytes) \in Int
    BY <1>1, <2>1
  <2>3. Varint(n) = 9 \/ Varint(n) = 4 + Bytes(n \div FourBytes)
    BY <1>2, <1>5, VarintIs
  <2> QED
    BY <2>2, <2>3
<1> QED
  BY <1>2, <1>3, <1>4, <1>5

\* A key of the number and the wire type is a byte longer from the sixteenth number on.
LEMMA KeyIsTag ==
    ASSUME NEW k \in Nat, k < 2048
    PROVE  Varint(8 * k) = IF k <= 15 THEN 1 ELSE 2
<1> DEFINE n == 8 * k
<1>1. n \in Nat /\ n < 16384 /\ (n < 128 <=> k <= 15)
  OBVIOUS
<1> HIDE DEF n
<1>2. FourBytes \in Nat /\ 16384 < FourBytes
  BY DEF FourBytes
<1>3. Varint(n) = Bytes(n)
  BY <1>1, <1>2, VarintIs
<1>4. 128 * 128 = 16384
  OBVIOUS
<1>5. CASE n < 128
  <2>1. Bytes(n) = 1
    BY <1>1, <1>5 DEF Bytes
  <2> QED
    BY <1>1, <1>3, <1>5, <2>1 DEF n
<1>6. CASE ~ (n < 128)
  <2>1. Bytes(n) = 2
    BY <1>1, <1>4, <1>6 DEF Bytes
  <2> QED
    BY <1>1, <1>3, <1>6, <2>1 DEF n
<1> QED
  BY <1>5, <1>6

LEMMA PlainSizeIsInt ==
    ASSUME NEW type, NEW v \in Int
    PROVE  PlainSize(type, v) \in Int
<1>1. Varint(v) \in Int
  BY VarintIsInt
<1> QED
  BY <1>1 DEF PlainSize

LEMMA TotalOfNone ==
    ASSUME NEW sizes, DOMAIN sizes = {}, sizes = [i \in {} |-> sizes[i]]
    PROVE  Total(sizes) = 0
<1>1. sizes \in [1 .. 0 -> Int]
  OBVIOUS
<1>2. Total(sizes) = First(sizes, 0)
  BY <1>1, TotalIsInt
<1> QED
  BY <1>2, FirstStep

LEMMA TotalOfOne ==
    ASSUME NEW sizes \in [1 .. 1 -> Int]
    PROVE  Total(sizes) = sizes[1]
<1>1. Total(sizes) = First(sizes, 1)
  BY TotalIsInt
<1>2. First(sizes, 0 + 1) = First(sizes, 0) + sizes[0 + 1] /\ First(sizes, 0) = 0
  BY FirstStep
<1>3. First(sizes, 1) = 0 + sizes[1] /\ sizes[1] \in Int
  <2>1. 0 + 1 = 1
    OBVIOUS
  <2> QED
    BY <1>2, <2>1
<1> QED
  BY <1>1, <1>3

\* What a field adds to the size, by the bytes of its tag.
FieldSize(T, o, f, tag, inner) ==
    IF Bit(T, f) \notin o.bits \/ (IsPlain(FieldTypes[T][f]) /\ o.val[f] = 0) THEN 0
    ELSE IF IsPlain(FieldTypes[T][f]) THEN tag + PlainSize(FieldTypes[T][f], o.val[f])
    ELSE Total([i \in DOMAIN o.val[f] |-> tag + Varint(inner[<<f, i>>]) + inner[<<f, i>>]])

NumberOf(T, f) == CHOOSE k \in 1 .. LastNumber(T) : Tables[T].table[k][1] = f
TagOf(T, f) == IF NumberOf(T, f) <= 15 THEN 1 ELSE 2

LEMMA NumbersAre ==
    ASSUME NEW T \in DOMAIN Tables
    PROVE  /\ \A f \in Fields(T) :
                 NumberOf(T, f) \in 1 .. LastNumber(T) /\ Tables[T].table[NumberOf(T, f)][1] = f
           /\ \A k \in 1 .. LastNumber(T) : NumberOf(T, Tables[T].table[k][1]) = k
           /\ \A k \in 1 .. LastNumber(T) : Varint(8 * k) = TagOf(T, Tables[T].table[k][1])
<1>1. \A f \in Fields(T) :
         NumberOf(T, f) \in 1 .. LastNumber(T) /\ Tables[T].table[NumberOf(T, f)][1] = f
  <2> SUFFICES ASSUME NEW f \in Fields(T)
               PROVE  NumberOf(T, f) \in 1 .. LastNumber(T) /\ Tables[T].table[NumberOf(T, f)][1] = f
    OBVIOUS
  <2>1. \E k \in 1 .. LastNumber(T) : Tables[T].table[k][1] = f
    BY FieldFacts
  <2> QED
    BY <2>1 DEF NumberOf
<1>2. \A k \in 1 .. LastNumber(T) : NumberOf(T, Tables[T].table[k][1]) = k
  BY <1>1, FieldFacts
<1>3. ASSUME NEW k \in 1 .. LastNumber(T)
      PROVE  Varint(8 * k) = TagOf(T, Tables[T].table[k][1])
  <2>1. k < 2048 /\ k \in Nat
    BY TablesAgree, FieldFacts DEF Agree, TagsAgree
  <2>2. Varint(8 * k) = IF k <= 15 THEN 1 ELSE 2
    BY <2>1, KeyIsTag
  <2>3. NumberOf(T, Tables[T].table[k][1]) = k
    BY <1>2
  <2> QED
    BY <2>2, <2>3 DEF TagOf
<1> QED
  BY <1>1, <1>2, <1>3

\* The sizes of the messages within are numbers.
SizesWithin(T, o, inner) ==
    \A f \in Nested(T) : \A i : Bit(T, f) \in o.bits /\ i \in DOMAIN o.val[f] => inner[<<f, i>>] \in Int

LEMMA FieldSizeIsInt ==
    ASSUME NEW T \in DOMAIN Tables, NEW S, NEW o \in Objects(T, S), NEW inner,
           SizesWithin(T, o, inner), NEW f \in Fields(T), NEW tag \in Int
    PROVE  FieldSize(T, o, f, tag, inner) \in Int
<1>1. CASE Bit(T, f) \notin o.bits
  BY <1>1 DEF FieldSize
<1>2. CASE IsPlain(FieldTypes[T][f])
  <2>1. o.val[f] \in Int
    <3>1. o.val[f] \in ValuesIn(FieldTypes[T][f], S)
      BY ObjectFacts
    <3> QED
      BY <1>2, <3>1 DEF ValuesIn
  <2>2. PlainSize(FieldTypes[T][f], o.val[f]) \in Int
    BY <2>1, PlainSizeIsInt
  <2> QED
    BY <1>2, <2>2 DEF FieldSize
<1>3. CASE Bit(T, f) \in o.bits /\ ~ IsPlain(FieldTypes[T][f])
  <2> DEFINE sizes == [i \in DOMAIN o.val[f] |-> tag + Varint(inner[<<f, i>>]) + inner[<<f, i>>]]
  <2>1. f \in Nested(T)
    BY <1>3 DEF Nested, Fields
  <2>2. Len(o.val[f]) \in Nat /\ DOMAIN o.val[f] = 1 .. Len(o.val[f])
    BY <2>1, NestedValue
  <2>3. ASSUME NEW i \in DOMAIN o.val[f]
        PROVE  tag + Varint(inner[<<f, i>>]) + inner[<<f, i>>] \in Int
    <3>1. inner[<<f, i>>] \in Int
      BY <1>3, <2>1 DEF SizesWithin
    <3>2. Varint(inner[<<f, i>>]) \in Int
      BY <3>1, VarintIsInt
    <3> QED
      BY <3>1, <3>2
  <2>4. sizes \in [1 .. Len(o.val[f]) -> Int]
    BY <2>2, <2>3
  <2>5. Total(sizes) \in Int
    <3> HIDE DEF sizes
    <3> QED
      BY <2>2, <2>4, TotalIsInt
  <2> QED
    BY <1>3, <2>5 DEF FieldSize
<1> QED
  BY <1>1, <1>2, <1>3

\* An entry of ByteSizeLong adds what its field does.
LEMMA EntrySizeIs ==
    ASSUME NEW T \in DOMAIN Tables, NEW o, NEW inner,
           NEW i \in DOMAIN Tables[T].byteSize, NEW j \in DOMAIN Tables[T].byteSize[i][2],
           NEW entry, entry = Tables[T].byteSize[i][2][j]
    PROVE  /\ entry[1] \in Fields(T)
           /\ EntrySize(T, o, entry, inner) = FieldSize(T, o, entry[1], TagOf(T, entry[1]), inner)
<1> DEFINE groups == Tables[T].byteSize
           impl == Tables[T].impl
           last == LastNumber(T)
           m == 8 * (i - 1) + j
<1>1. FieldsAgree(T) /\ GroupsAgree(T, groups) /\ TagsAgree(T)
  BY TablesAgree DEF Agree
<1>2. PICK n \in Nat : DOMAIN groups = 1 .. n /\ 8 * (n - 1) < last /\ last <= 8 * n
  BY <1>1 DEF GroupsAgree, LastNumber
<1>3. DOMAIN groups[i][2] = 1 .. (IF 8 * i <= last THEN 8 ELSE last - 8 * (i - 1))
      /\ entry[1] = impl[m] /\ entry[2] = m - 1
  <2>1. GroupAgrees(T, groups[i], i)
    BY <1>1 DEF GroupsAgree
  <2> QED
    BY <2>1 DEF GroupAgrees, LastNumber
<1>4. m \in 1 .. last
  <2>1. last \in Nat /\ i \in 1 .. n
    BY <1>2, FieldFacts
  <2>2. \A k \in 1 .. (IF 8 * i <= last THEN 8 ELSE last - 8 * (i - 1)) : 8 * (i - 1) + k \in 1 .. last
    BY <1>2, <2>1
  <2> QED
    BY <1>3, <2>2
<1>5. entry[1] \in Fields(T) /\ entry[2] = Bit(T, entry[1])
  <2> HIDE DEF m, impl
  <2>1. impl[m] \in Fields(T) /\ Bit(T, impl[m]) = m - 1
    BY <1>4, MemberFacts DEF impl
  <2> QED
    BY <1>3, <2>1
<1>6. entry[3] = TagOf(T, entry[1])
  <2>1. NumberOf(T, entry[1]) \in 1 .. last /\ Tables[T].table[NumberOf(T, entry[1])][1] = entry[1]
    BY <1>5, NumbersAre
  <2>2. DOMAIN Tables[T].table = 1 .. last
    BY FieldFacts
  <2>3. \A k \in DOMAIN Tables[T].table :
           Tables[T].table[k][1] = groups[i][2][j][1] => groups[i][2][j][3] = IF k <= 15 THEN 1 ELSE 2
    BY <1>1 DEF TagsAgree
  <2>4. entry[3] = IF NumberOf(T, entry[1]) <= 15 THEN 1 ELSE 2
    BY <2>1, <2>2, <2>3
  <2> QED
    BY <2>4 DEF TagOf
<1> QED
  BY <1>5, <1>6 DEF EntrySize, FieldSize

LEMMA ByteSizeIs ==
    ASSUME NEW T \in DOMAIN Tables, NEW S, NEW o \in Objects(T, S), NEW inner, SizesWithin(T, o, inner),
           NEW adds, adds = [f \in Fields(T) |-> FieldSize(T, o, f, TagOf(T, f), inner)]
    PROVE  /\ adds \in [Fields(T) -> Int]
           /\ ByteSizeLayer(T, o, inner) = Total([k \in 1 .. LastNumber(T) |-> adds[Tables[T].table[k][1]]])
           /\ ByteSizeLayer(T, o, inner) \in Int
<1> DEFINE groups == Tables[T].byteSize
           last == LastNumber(T)
           byNumber == [k \in 1 .. last |-> adds[Tables[T].table[k][1]]]
           Size(i) == Total([j \in DOMAIN groups[i][2] |-> adds[groups[i][2][j][1]]])
           GroupSize(i) == Total([j \in DOMAIN groups[i][2] |-> EntrySize(T, o, groups[i][2][j], inner)])
<1>1. adds \in [Fields(T) -> Int]
  <2>1. ASSUME NEW f \in Fields(T) PROVE FieldSize(T, o, f, TagOf(T, f), inner) \in Int
    <3>1. TagOf(T, f) \in Int
      BY DEF TagOf
    <3> QED
      BY <3>1, FieldSizeIsInt
  <2> QED
    BY <2>1
<1>2. \A f \in Fields(T) : Bit(T, f) \notin o.bits => adds[f] = 0
  BY DEF FieldSize
<1>3. Total([i \in DOMAIN groups |-> IF groups[i][1] \cap o.bits = {} THEN 0 ELSE Size(i)]) = Total(byNumber)
  BY <1>1, <1>2, Regrouped
<1>4. ASSUME NEW i \in DOMAIN groups PROVE GroupSize(i) = Size(i)
  <2>1. ASSUME NEW j \in DOMAIN groups[i][2]
        PROVE  EntrySize(T, o, groups[i][2][j], inner) = adds[groups[i][2][j][1]]
    <3> DEFINE entry == groups[i][2][j]
    <3>1. /\ entry[1] \in Fields(T)
          /\ EntrySize(T, o, entry, inner) = FieldSize(T, o, entry[1], TagOf(T, entry[1]), inner)
      BY EntrySizeIs
    <3> HIDE DEF entry
    <3>2. EntrySize(T, o, entry, inner) = adds[entry[1]]
      BY <3>1
    <3> QED
      BY <3>2 DEF entry
  <2> HIDE DEF groups
  <2> QED
    BY <2>1
<1>5. ByteSizeLayer(T, o, inner) =
         Total([i \in DOMAIN groups |-> IF groups[i][1] \cap o.bits = {} THEN 0 ELSE GroupSize(i)])
  BY Zenon DEF ByteSizeLayer
<1>6. ByteSizeLayer(T, o, inner) = Total(byNumber)
  <2> HIDE DEF groups, Size, GroupSize, byNumber
  <2>1. [i \in DOMAIN groups |-> IF groups[i][1] \cap o.bits = {} THEN 0 ELSE GroupSize(i)] =
           [i \in DOMAIN groups |-> IF groups[i][1] \cap o.bits = {} THEN 0 ELSE Size(i)]
    BY <1>4
  <2> QED
    BY <1>3, <1>5, <2>1
<1>7. byNumber \in [1 .. last -> Int] /\ last \in Nat
  BY <1>1, FieldFacts
<1>8. Total(byNumber) \in Int
  <2> HIDE DEF byNumber, last
  <2> QED
    BY <1>7, TotalIsInt
<1> QED
  BY <1>1, <1>6, <1>8

\* What stands on the wire of a field under its number is as long as what the field adds.
RunSize(T, k, f, items, within) ==
    Total([i \in DOMAIN items |->
        Varint(8 * k) + IF IsPlain(FieldTypes[T][f]) THEN PlainSize(FieldTypes[T][f], items[i].value)
                        ELSE Varint(within[<<k, i>>]) + within[<<k, i>>]])

\* The sizes of the messages within are also known by the numbers of the fields.
KnownByNumber(T, o, inner, within) ==
    \A f \in Nested(T) : \A i : Bit(T, f) \in o.bits /\ i \in DOMAIN o.val[f] =>
        within[<<NumberOf(T, f), i>>] = inner[<<f, i>>]

LEMMA RunSizeIs ==
    ASSUME NEW T \in DOMAIN Tables, NEW S, NEW o \in Objects(T, S), NEW written, NEW inner, NEW within,
           SizesWithin(T, o, inner), KnownByNumber(T, o, inner, within),
           NEW f \in Fields(T)
    PROVE  RunSize(T, NumberOf(T, f), f, RunItems(T, o, f, written), within) =
               FieldSize(T, o, f, TagOf(T, f), inner)
<1> DEFINE k == NumberOf(T, f)
           items == RunItems(T, o, f, written)
           type == FieldTypes[T][f]
           ItemSize(i) == Varint(8 * k) + IF IsPlain(type) THEN PlainSize(type, items[i].value)
                                          ELSE Varint(within[<<k, i>>]) + within[<<k, i>>]
           sizes == [i \in DOMAIN items |-> ItemSize(i)]
<1>0. RunSize(T, k, f, items, within) = Total(sizes)
  BY DEF RunSize
<1>1. f \in Fields(T) /\ Varint(8 * k) = TagOf(T, f) /\ TagOf(T, f) \in Int
  <2>1. k \in 1 .. LastNumber(T) /\ Tables[T].table[k][1] = f
    BY NumbersAre
  <2>2. Varint(8 * k) = TagOf(T, f)
    BY <2>1, NumbersAre
  <2> QED
    BY <2>2 DEF TagOf
<1>2. CASE items = <<>> /\ FieldSize(T, o, f, TagOf(T, f), inner) = 0
  <2>1. DOMAIN sizes = {} /\ sizes = [i \in {} |-> sizes[i]]
    BY <1>2
  <2>2. Total(sizes) = 0
    <3> HIDE DEF sizes
    <3> QED
      BY <2>1, TotalOfNone
  <2> QED
    BY <1>0, <1>2, <2>2
<1>3. CASE Bit(T, f) \in o.bits /\ IsPlain(type) /\ o.val[f] # 0
  <2>1. items = <<[value |-> o.val[f], body |-> <<>>]>>
    BY <1>3 DEF RunItems
  <2>2. DOMAIN items = {1} /\ items[1].value = o.val[f]
    BY <2>1
  <2>3. DOMAIN sizes = {1} /\ sizes[1] = Varint(8 * k) + PlainSize(type, o.val[f])
    BY <1>3, <2>2
  <2>4. FieldSize(T, o, f, TagOf(T, f), inner) = TagOf(T, f) + PlainSize(type, o.val[f])
    BY <1>3 DEF FieldSize
  <2>5. FieldSize(T, o, f, TagOf(T, f), inner) \in Int
    BY <1>1, FieldSizeIsInt
  <2>6. sizes \in [1 .. 1 -> Int]
    <3>1. sizes = [i \in DOMAIN sizes |-> sizes[i]]
      OBVIOUS
    <3>2. {1} = 1 .. 1 /\ sizes[1] \in Int
      BY <1>1, <2>3, <2>4, <2>5
    <3> HIDE DEF sizes
    <3>3. \A i \in 1 .. 1 : sizes[i] \in Int
      BY <3>2
    <3> QED
      BY <2>3, <3>1, <3>2, <3>3
  <2>7. Total(sizes) = sizes[1]
    <3> HIDE DEF sizes
    <3> QED
      BY <2>6, TotalOfOne
  <2>8. Total(sizes) = FieldSize(T, o, f, TagOf(T, f), inner)
    <3> HIDE DEF sizes
    <3> QED
      BY <1>1, <2>3, <2>4, <2>7
  <2> QED
    BY <1>0, <2>8
<1>4. CASE Bit(T, f) \in o.bits /\ ~ IsPlain(type)
  <2>1. f \in Nested(T)
    BY <1>1, <1>4 DEF Nested, Fields
  <2>2. DOMAIN items = DOMAIN o.val[f]
    BY <1>1, <1>4, <2>1, RunItemsAreSeq
  <2>3. ASSUME NEW i \in DOMAIN o.val[f]
        PROVE  ItemSize(i) = TagOf(T, f) + Varint(inner[<<f, i>>]) + inner[<<f, i>>]
    <3>1. within[<<k, i>>] = inner[<<f, i>>] /\ inner[<<f, i>>] \in Int
      BY <1>4, <2>1 DEF SizesWithin, KnownByNumber
    <3>2. Varint(inner[<<f, i>>]) \in Int
      BY <3>1, VarintIsInt
    <3>3. ItemSize(i) = Varint(8 * k) + (Varint(within[<<k, i>>]) + within[<<k, i>>])
      BY <1>4
    <3> HIDE DEF ItemSize
    <3> QED
      BY <1>1, <3>1, <3>2, <3>3
  <2>4. sizes = [i \in DOMAIN o.val[f] |-> TagOf(T, f) + Varint(inner[<<f, i>>]) + inner[<<f, i>>]]
    <3> HIDE DEF ItemSize
    <3> QED
      BY <2>2, <2>3
  <2> HIDE DEF sizes
  <2>5. FieldSize(T, o, f, TagOf(T, f), inner) = Total(sizes)
    BY <1>4, <2>4 DEF FieldSize
  <2> QED
    BY <1>0, <2>5 DEF sizes
<1>5. \/ items = <<>> /\ FieldSize(T, o, f, TagOf(T, f), inner) = 0
      \/ Bit(T, f) \in o.bits /\ IsPlain(type) /\ o.val[f] # 0
      \/ Bit(T, f) \in o.bits /\ ~ IsPlain(type)
  BY DEF RunItems, FieldSize
<1> QED
  BY <1>2, <1>3, <1>4, <1>5

\* The size that is computed is the size of what is written.
LEMMA SizesAgree ==
    ASSUME NEW T \in DOMAIN Tables, NEW S, NEW o \in Objects(T, S), NEW written, NEW inner, NEW within,
           SizesWithin(T, o, inner), KnownByNumber(T, o, inner, within)
    PROVE  /\ ByteSizeLayer(T, o, inner) \in Int
           /\ WireSizeLayer(T, SerializedLayer(T, o, written), within) = ByteSizeLayer(T, o, inner)
<1> DEFINE wire == SerializedLayer(T, o, written)
           last == LastNumber(T)
           t == Tables[T].table
           adds == [f \in Fields(T) |-> FieldSize(T, o, f, TagOf(T, f), inner)]
           ItemSize(n, i) ==
               LET type == t[wire[n].number][3]
               IN  Varint(8 * wire[n].number) +
                   IF IsPlain(type) THEN PlainSize(type, wire[n].items[i].value)
                   ELSE Varint(within[<<n, i>>]) + within[<<n, i>>]
           Run(n) == Total([i \in DOMAIN wire[n].items |-> ItemSize(n, i)])
<1>1. WireSizeLayer(T, wire, within) = Total([n \in DOMAIN wire |-> Run(n)])
  BY Zenon DEF WireSizeLayer
<1>2. /\ DOMAIN wire = 1 .. last
      /\ \A k \in 1 .. last : wire[k] = [number |-> k, items |-> RunItems(T, o, t[k][1], written)]
  BY SerializedRuns
<1>3. \A k \in 1 .. last : t[k][1] \in Fields(T) /\ FieldTypes[T][t[k][1]] = t[k][3]
  BY FieldFacts
<1>4. ASSUME NEW k \in 1 .. last
      PROVE  Run(k) = adds[t[k][1]]
  <2> DEFINE f == t[k][1]
             items == RunItems(T, o, f, written)
             One(i) == Varint(8 * k) + IF IsPlain(FieldTypes[T][f]) THEN PlainSize(FieldTypes[T][f], items[i].value)
                                       ELSE Varint(within[<<k, i>>]) + within[<<k, i>>]
  <2>1. NumberOf(T, f) = k
    BY NumbersAre
  <2>2. f \in Fields(T)
    BY <1>3
  <2>3. Total([i \in DOMAIN items |-> One(i)]) = FieldSize(T, o, f, TagOf(T, f), inner)
    <3> HIDE DEF f, items, One
    <3>1. RunSize(T, k, f, items, within) = FieldSize(T, o, f, TagOf(T, f), inner)
      BY <2>1, <2>2, RunSizeIs DEF items
    <3> QED
      BY <3>1 DEF One, RunSize
  <2>4. wire[k].number = k /\ wire[k].items = items /\ f \in Fields(T) /\ t[k][3] = FieldTypes[T][f]
    <3>1. wire[k] = [number |-> k, items |-> items]
      BY <1>2
    <3>2. f \in Fields(T) /\ t[k][3] = FieldTypes[T][f]
      BY <1>3
    <3> HIDE DEF wire, items, f, t
    <3> QED
      BY <3>1, <3>2
  <2>5. Run(k) = Total([i \in DOMAIN items |-> One(i)])
    <3> HIDE DEF wire, items, f, t
    <3>1. \A i : ItemSize(k, i) = One(i)
      BY <2>4
    <3> HIDE DEF ItemSize, One
    <3> QED
      BY <2>4, <3>1
  <2>6. adds[f] = FieldSize(T, o, f, TagOf(T, f), inner)
    <3> HIDE DEF f
    <3> QED
      BY <2>4
  <2> HIDE DEF Run, adds, f, One, items
  <2> QED
    BY <2>3, <2>5, <2>6 DEF f
<1>5. [n \in DOMAIN wire |-> Run(n)] = [k \in 1 .. last |-> adds[t[k][1]]]
  <2> HIDE DEF wire, Run, adds, t, last
  <2> QED
    BY <1>2, <1>4
<1>6. /\ ByteSizeLayer(T, o, inner) = Total([k \in 1 .. last |-> adds[t[k][1]]])
      /\ ByteSizeLayer(T, o, inner) \in Int
  <2> HIDE DEF adds
  <2>1. adds = [f \in Fields(T) |-> FieldSize(T, o, f, TagOf(T, f), inner)]
    BY DEF adds
  <2> QED
    BY <2>1, ByteSizeIs
<1> HIDE DEF wire, Run, adds, t, last
<1>7. WireSizeLayer(T, wire, within) = ByteSizeLayer(T, o, inner)
  BY <1>1, <1>5, <1>6
<1> QED
  BY <1>6, <1>7 DEF wire

\* The messages on the wire.
LEMMA WirePartsAre ==
    ASSUME NEW T \in DOMAIN Tables, NEW S, NEW o \in Objects(T, S), NEW written,
           NEW f \in Nested(T), Bit(T, f) \in o.bits, NEW i \in DOMAIN o.val[f]
    PROVE  LET wire == SerializedLayer(T, o, written)
           IN  /\ <<NumberOf(T, f), i>> \in DOMAIN WireParts(T, wire)
               /\ WireParts(T, wire)[<<NumberOf(T, f), i>>] =
                     [type |-> Element(FieldTypes[T][f]), of |-> written[<<f, i>>]]
<1> DEFINE wire == SerializedLayer(T, o, written)
           k == NumberOf(T, f)
           t == Tables[T].table
<1>1. f \in Fields(T) /\ ~ IsPlain(FieldTypes[T][f])
  BY DEF Nested, Fields
<1>2. k \in 1 .. LastNumber(T) /\ t[k][1] = f
  BY <1>1, NumbersAre
<1>3. t[k][3] = FieldTypes[T][f]
  BY <1>2, FieldFacts
<1>4. k \in DOMAIN wire /\ wire[k].number = k /\ wire[k].items = RunItems(T, o, f, written)
  <2>1. DOMAIN wire = 1 .. LastNumber(T)
    BY SerializedRuns
  <2>2. wire[k] = [number |-> k, items |-> RunItems(T, o, t[k][1], written)]
    BY <1>2, SerializedRuns
  <2> HIDE DEF wire, k, t
  <2> QED
    BY <1>2, <2>1, <2>2
<1>5. DOMAIN wire[k].items = DOMAIN o.val[f] /\ wire[k].items[i].body = written[<<f, i>>]
  <2> HIDE DEF wire, k
  <2> QED
    BY <1>1, <1>4, RunItemsAreSeq
<1> HIDE DEF wire, k, t
<1>6. /\ <<k, i>> \in DOMAIN WireParts(T, wire)
      /\ WireParts(T, wire)[<<k, i>>] = [type |-> Element(FieldTypes[T][f]), of |-> written[<<f, i>>]]
  BY <1>1, <1>3, <1>4, <1>5 DEF WireParts, t
<1> QED
  BY <1>6 DEF wire, k

-----------------------------------------------------------------------------
(* What the functions leave, given what they leave of the messages in it.   *)

\* Clear resets every member whose bit is set.
LEMMA ResetReaches ==
    ASSUME NEW T \in DOMAIN Tables, NEW bits, NEW f \in Fields(T), Bit(T, f) \in bits
    PROVE  f \in Reset(T, bits)
<1> DEFINE impl == Tables[T].impl
           clear == Tables[T].clear
           last == LastNumber(T)
           Place(g) == CHOOSE i \in DOMAIN impl : impl[i] = g
<1>1. FieldsAgree(T) /\ ClearAgrees(T)
  BY TablesAgree DEF Agree
<1>2. DOMAIN impl = 1 .. last /\ last \in Nat
      /\ \A m \in 1 .. last : Bit(T, impl[m]) = m - 1
  BY <1>1, MemberFacts DEF FieldsAgree, LastNumber
<1>3. \A m \in 1 .. last : Place(impl[m]) = m
  <2> SUFFICES ASSUME NEW m \in 1 .. last PROVE Place(impl[m]) = m
    OBVIOUS
  <2>1. Place(impl[m]) \in DOMAIN impl /\ impl[Place(impl[m])] = impl[m]
    BY <1>2
  <2> HIDE DEF Place
  <2>2. Place(impl[m]) - 1 = m - 1 /\ Place(impl[m]) \in 1 .. last
    BY <1>2, <2>1
  <2> QED
    BY <2>2
<1>4. PICK m \in 1 .. last : impl[m] = f /\ m - 1 = Bit(T, f)
  <2>1. PICK k \in 1 .. last : Tables[T].table[k][1] = f
    BY FieldFacts
  <2>2. Tables[T].table[k][2] \in 0 .. last - 1 /\ impl[Tables[T].table[k][2] + 1] = f
    BY <1>1, <2>1 DEF FieldsAgree, LastNumber
  <2>3. Tables[T].table[k][2] + 1 \in 1 .. last
    BY <1>2, <2>2
  <2> QED
    BY <1>2, <2>2, <2>3
<1>5. PICK i \in DOMAIN clear : ResetsMember(T, clear[i], m)
  BY <1>1, <1>2, <1>4 DEF ClearAgrees
<1> DEFINE c == clear[i]
<1>6. PICK first \in 1 .. last : \E end \in 1 .. last :
         c[2] = impl[first] /\ c[3] = impl[end] /\ first <= m /\ m <= end
  BY <1>2, <1>5 DEF ResetsMember
<1>7. PICK end \in 1 .. last : c[2] = impl[first] /\ c[3] = impl[end] /\ first <= m /\ m <= end
  BY <1>6
<1>8. c[1] = {} \/ c[1] \cap bits # {}
  <2>1. c[1] = {} \/ m - 1 \in c[1]
    BY <1>5 DEF ResetsMember
  <2> HIDE DEF c
  <2> QED
    BY <1>4, <2>1
<1>9. Place(f) \in Place(c[2]) .. Place(c[3])
  <2>1. Place(f) = m /\ Place(c[2]) = first /\ Place(c[3]) = end
    BY <1>3, <1>4, <1>7
  <2> HIDE DEF Place, c
  <2> QED
    BY <1>7, <2>1
<1> HIDE DEF Place
<1>10. Reset(T, bits) =
        {g \in Fields(T) :
            \E j \in DOMAIN clear :
                /\ clear[j][1] = {} \/ clear[j][1] \cap bits # {}
                /\ Place(g) \in Place(clear[j][2]) .. Place(clear[j][3])}
  BY DEF Reset, Fields, Place
<1> HIDE DEF clear
<1> QED
  BY <1>8, <1>9, <1>10

\* A message that was cleared.
Blank(m) == m.bits = {}

LEMMA ClearedIsObject ==
    ASSUME NEW T \in DOMAIN Tables, NEW S, NEW o \in Objects(T, S), NEW inner,
           \A f \in Nested(T) : \A i : FieldTypes[T][f] \notin Repeated /\ i \in DOMAIN o.val[f] =>
                   inner[<<f, i>>] \in S[FieldTypes[T][f]] /\ Blank(inner[<<f, i>>]),
           NEW cleared, cleared = ClearedLayer(T, o, inner)
    PROVE  cleared \in Objects(T, S) /\ Blank(cleared)
<1> DEFINE Zero(f) ==
               CASE IsPlain(FieldTypes[T][f]) -> 0
                 [] FieldTypes[T][f] \in Repeated -> <<>>
                 [] OTHER -> [i \in DOMAIN o.val[f] |-> inner[<<f, i>>]]
           reset == Reset(T, o.bits)
           val == [f \in Fields(T) |-> IF f \in reset THEN Zero(f) ELSE o.val[f]]
<1>1. cleared = [bits |-> {}, val |-> val]
  BY DEF ClearedLayer, Fields
<1>2. \A f \in Fields(T) : Bit(T, f) \in o.bits => f \in reset
  BY ResetReaches
<1>3. \A f \in Fields(T) : o.val[f] \in ValuesIn(FieldTypes[T][f], S) /\ BitTells(T, o.bits, f, o.val[f])
  BY ObjectFacts
<1>4. ASSUME NEW f \in Fields(T)
      PROVE  val[f] \in ValuesIn(FieldTypes[T][f], S) /\ BitTells(T, {}, f, val[f])
  <2> DEFINE type == FieldTypes[T][f]
  <2>1. val[f] = IF f \in reset THEN Zero(f) ELSE o.val[f]
    BY Zenon
  <2>2. CASE IsPlain(type)
    <3>1. Zero(f) = 0
      <4>1. type \notin Repeated
        BY <2>2 DEF IsPlain
      <4> QED
        BY <2>2, <4>1
    <3> HIDE DEF val, Zero, reset
    <3>2. val[f] = 0
      BY <1>2, <1>3, <2>1, <2>2, <3>1 DEF BitTells
    <3> QED
      BY <2>2, <3>2 DEF ValuesIn, BitTells
  <2>3. CASE ~ IsPlain(type) /\ type \in Repeated
    <3>1. Zero(f) = <<>>
      BY <2>3
    <3> HIDE DEF val, Zero, reset
    <3>2. val[f] = <<>>
      BY <1>2, <1>3, <2>1, <2>3, <3>1 DEF BitTells
    <3>3. <<>> \in Seq(S["TripRecordMsg"])
      OBVIOUS
    <3> QED
      BY <2>3, <3>2, <3>3 DEF ValuesIn, BitTells
  <2>4. CASE ~ IsPlain(type) /\ type \notin Repeated
    <3>1. Zero(f) = [i \in DOMAIN o.val[f] |-> inner[<<f, i>>]]
      BY <2>4
    <3>2. f \in Nested(T)
      BY <2>4 DEF Nested, Fields
    <3> HIDE DEF Zero
    <3>3. CASE f \notin reset
      <4> HIDE DEF val, reset
      <4>1. val[f] = o.val[f] /\ Bit(T, f) \notin o.bits
        BY <1>2, <2>1, <3>3
      <4> QED
        BY <1>3, <2>4, <4>1 DEF BitTells
    <3>4. CASE f \in reset /\ o.val[f] = <<>>
      <4>1. val[f] = <<>>
        <5>1. Zero(f) = <<>>
          BY <3>1, <3>4
        <5> HIDE DEF val, reset
        <5> QED
          BY <2>1, <3>4, <5>1
      <4> HIDE DEF val, reset
      <4> QED
        BY <2>4, <4>1 DEF ValuesIn, BitTells
    <3>5. CASE f \in reset /\ o.val[f] # <<>>
      <4>1. DOMAIN o.val[f] = {1}
        BY <2>4, <3>2, <3>5, NestedValue
      <4>2. inner[<<f, 1>>] \in S[type] /\ Blank(inner[<<f, 1>>])
        BY <2>4, <3>2, <4>1
      <4>3. Zero(f) = <<inner[<<f, 1>>]>>
        BY <3>1, <4>1
      <4> HIDE DEF val, reset
      <4>4. val[f] = <<inner[<<f, 1>>]>>
        BY <2>1, <3>5, <4>3
      <4> QED
        BY <2>4, <4>2, <4>4 DEF ValuesIn, BitTells, Blank
    <3> QED
      BY <3>3, <3>4, <3>5
  <2> QED
    BY <2>2, <2>3, <2>4
<1>5. val = [f \in Fields(T) |-> val[f]]
  OBVIOUS
<1> HIDE DEF val
<1>6. [bits |-> {}, val |-> val] \in Objects(T, S)
  BY <1>4, <1>5, ObjectIntro
<1> QED
  BY <1>1, <1>6 DEF Blank

LEMMA MergedIsObject ==
    ASSUME NEW T \in DOMAIN Tables, NEW S, NEW to \in Objects(T, S), NEW from \in Objects(T, S), NEW inner,
           \A f \in Nested(T) :
               FieldTypes[T][f] \notin Repeated /\ to.val[f] # <<>> /\ from.val[f] # <<>> =>
                   inner[f] \in S[FieldTypes[T][f]],
           NEW merged, merged = MergedLayer(T, [to |-> to, from |-> from], inner)
    PROVE  merged \in Objects(T, S)
<1>1. /\ merged.bits = to.bits \cup from.bits
      /\ merged = [bits |-> merged.bits, val |-> merged.val]
      /\ merged.val = [f \in Fields(T) |-> MergedValue(T, to, from, f, inner)]
  BY MergedIs
<1>2. /\ \A f \in Fields(T) : to.val[f] \in ValuesIn(FieldTypes[T][f], S) /\ BitTells(T, to.bits, f, to.val[f])
      /\ \A f \in Fields(T) :
            from.val[f] \in ValuesIn(FieldTypes[T][f], S) /\ BitTells(T, from.bits, f, from.val[f])
  BY ObjectFacts
<1>3. ASSUME NEW f \in Fields(T)
      PROVE  merged.val[f] \in ValuesIn(FieldTypes[T][f], S) /\ BitTells(T, merged.bits, f, merged.val[f])
  <2> DEFINE type == FieldTypes[T][f]
  <2>1. merged.val[f] = MergedValue(T, to, from, f, inner)
    BY <1>1
  <2>2. CASE IsPlain(type)
    BY <1>1, <1>2, <2>1, <2>2 DEF MergedValue, ValuesIn, BitTells
  <2>3. CASE ~ IsPlain(type) /\ type \in Repeated
    <3> DEFINE X == S["TripRecordMsg"]
    <3>1. to.val[f] \in Seq(X) /\ from.val[f] \in Seq(X)
      BY <1>2, <2>3 DEF ValuesIn
    <3>2. to.val[f] \o from.val[f] \in Seq(X)
      <4> HIDE DEF X
      <4> QED
        BY <3>1
    <3>3. merged.val[f] \in ValuesIn(type, S)
      BY <2>1, <2>3, <3>1, <3>2 DEF MergedValue, ValuesIn
    <3>4. BitTells(T, merged.bits, f, merged.val[f])
      <4>1. CASE Bit(T, f) \in from.bits
        BY <1>1, <2>3, <4>1 DEF BitTells
      <4>2. CASE Bit(T, f) \notin from.bits
        <5>1. merged.val[f] = to.val[f]
          BY <2>1, <4>2 DEF MergedValue
        <5> QED
          BY <1>1, <1>2, <2>3, <5>1 DEF BitTells
      <4> QED
        BY <4>1, <4>2
    <3> QED
      BY <3>3, <3>4
  <2>4. CASE ~ IsPlain(type) /\ type \notin Repeated
    <3>1. f \in Nested(T)
      BY <2>4 DEF Nested, Fields
    <3>2. CASE Bit(T, f) \notin from.bits
      <4>1. merged.val[f] = to.val[f] /\ (Bit(T, f) \in merged.bits <=> Bit(T, f) \in to.bits)
        BY <1>1, <2>1, <3>2 DEF MergedValue
      <4> QED
        BY <1>2, <2>4, <4>1 DEF BitTells
    <3>3. CASE Bit(T, f) \in from.bits
      <4>1. merged.val[f] = IF to.val[f] = <<>> THEN from.val[f] ELSE <<inner[f]>>
        BY <2>1, <2>4, <3>3 DEF MergedValue
      <4>2. from.val[f] # <<>> /\ Bit(T, f) \in merged.bits
        BY <1>1, <1>2, <2>4, <3>3 DEF BitTells
      <4>3. CASE to.val[f] = <<>>
        BY <1>2, <2>4, <4>1, <4>2, <4>3 DEF BitTells
      <4>4. CASE to.val[f] # <<>>
        <5>1. inner[f] \in S[type] /\ merged.val[f] = <<inner[f]>>
          BY <2>4, <3>1, <4>1, <4>2, <4>4
        <5>2. merged.val[f] # <<>>
          BY <5>1
        <5>3. merged.val[f] \in ValuesIn(type, S)
          BY <2>4, <5>1 DEF ValuesIn
        <5> QED
          BY <2>4, <4>2, <5>2, <5>3 DEF BitTells
      <4> QED
        BY <4>3, <4>4
    <3> QED
      BY <3>2, <3>3
  <2> QED
    BY <2>2, <2>3, <2>4
<1>4. merged.bits \subseteq {Bit(T, f) : f \in Fields(T)}
  <2>1. /\ to.bits \subseteq {Bit(T, f) : f \in Fields(T)}
        /\ from.bits \subseteq {Bit(T, f) : f \in Fields(T)}
    BY ObjectFacts
  <2> QED
    BY <1>1, <2>1
<1>5. merged.val = [f \in Fields(T) |-> merged.val[f]]
  BY <1>1
<1>6. [bits |-> merged.bits, val |-> merged.val] \in Objects(T, S)
  BY <1>3, <1>4, <1>5, ObjectIntro
<1> QED
  BY <1>1, <1>6

LEMMA TouchedIsObject ==
    ASSUME NEW T \in DOMAIN Tables, NEW S, NEW o \in Objects(T, S), NEW inner,
           \A f \in Nested(T) :
               /\ Mutable(T, o)[f].of \in S[Element(FieldTypes[T][f])]
               /\ inner[f] \subseteq S[Element(FieldTypes[T][f])],
           NEW touched \in TouchedLayer(T, o, inner)
    PROVE  touched \in Objects(T, S)
<1> DEFINE Made(f) == {Mutable(T, o)[f].of} \cup inner[f]
           Calls(f) ==
               CASE IsPlain(FieldTypes[T][f]) -> {Set(T, o, f, v) : v \in ValuesOf(FieldTypes[T][f])}
                 [] FieldTypes[T][f] \in Repeated -> {Set(T, o, f, Append(o.val[f], m)) : m \in Made(f)}
                 [] OTHER -> {Set(T, o, f, <<m>>) : m \in Made(f)}
<1>1. TouchedLayer(T, o, inner) = UNION {Calls(f) : f \in Fields(T)}
  BY Zenon DEF TouchedLayer, Fields
<1>2. PICK f \in Fields(T) : touched \in Calls(f)
  <2> HIDE DEF Calls
  <2> QED
    BY <1>1
<1> DEFINE type == FieldTypes[T][f]
<1>3. \E v \in ValuesIn(type, S) : touched = Set(T, o, f, v) /\ (~ IsPlain(type) => v # <<>>)
  <2>1. CASE IsPlain(type)
    <3>1. type \notin Repeated
      BY <2>1 DEF IsPlain
    <3>2. PICK v \in ValuesOf(type) : touched = Set(T, o, f, v)
      <4>1. Calls(f) = {Set(T, o, f, v) : v \in ValuesOf(type)}
        BY <2>1, <3>1
      <4> HIDE DEF Calls
      <4> QED
        BY <1>2, <4>1
    <3>3. v \in Int
      BY NumbersAssumption DEF ValuesOf
    <3> QED
      BY <2>1, <3>2, <3>3 DEF ValuesIn
  <2>2. CASE ~ IsPlain(type) /\ type \in Repeated
    <3> DEFINE X == S["TripRecordMsg"]
    <3>1. PICK m \in Made(f) : touched = Set(T, o, f, Append(o.val[f], m))
      <4>1. Calls(f) = {Set(T, o, f, Append(o.val[f], m)) : m \in Made(f)}
        BY <2>2
      <4> HIDE DEF Calls
      <4> QED
        BY <1>2, <4>1
    <3>2. f \in Nested(T) /\ Element(type) = "TripRecordMsg"
      BY <2>2 DEF Nested, Fields, Element
    <3>3. m \in X /\ o.val[f] \in Seq(X)
      <4>1. o.val[f] \in ValuesIn(type, S)
        BY ObjectFacts
      <4> QED
        BY <2>2, <3>2, <4>1 DEF ValuesIn
    <3>4. Append(o.val[f], m) \in Seq(X) /\ Append(o.val[f], m) # <<>>
      <4> HIDE DEF X
      <4> QED
        BY <3>3
    <3>5. Append(o.val[f], m) \in ValuesIn(type, S)
      BY <2>2, <3>4 DEF ValuesIn
    <3> QED
      BY <3>1, <3>4, <3>5
  <2>3. CASE ~ IsPlain(type) /\ type \notin Repeated
    <3>1. PICK m \in Made(f) : touched = Set(T, o, f, <<m>>)
      <4>1. Calls(f) = {Set(T, o, f, <<m>>) : m \in Made(f)}
        BY <2>3
      <4> HIDE DEF Calls
      <4> QED
        BY <1>2, <4>1
    <3>2. f \in Nested(T) /\ Element(type) = type
      BY <2>3 DEF Nested, Fields, Element
    <3>3. m \in S[type]
      BY <3>2
    <3>4. <<m>> \in ValuesIn(type, S) /\ <<m>> # <<>>
      BY <2>3, <3>3 DEF ValuesIn
    <3> QED
      BY <3>1, <3>4
  <2> QED
    BY <2>1, <2>2, <2>3
<1>4. PICK v \in ValuesIn(type, S) : touched = Set(T, o, f, v) /\ (~ IsPlain(type) => v # <<>>)
  BY <1>3
<1> DEFINE bits == o.bits \cup {Bit(T, f)}
           val == [o.val EXCEPT ![f] = v]
<1>5. /\ o.bits \subseteq {Bit(T, g) : g \in Fields(T)}
      /\ o.val = [g \in Fields(T) |-> o.val[g]] /\ DOMAIN o.val = Fields(T)
      /\ \A g \in Fields(T) : o.val[g] \in ValuesIn(FieldTypes[T][g], S) /\ BitTells(T, o.bits, g, o.val[g])
  BY ObjectFacts
<1>6. \A g \in Fields(T) : Bit(T, g) = Bit(T, f) => g = f
  BY FieldFacts
<1>7. val = [g \in Fields(T) |-> val[g]] /\ val[f] = v /\ \A g \in Fields(T) : g # f => val[g] = o.val[g]
  BY <1>5
<1>8. touched = [bits |-> bits, val |-> val]
  BY <1>4 DEF Set, Bit
<1> HIDE DEF val
<1>9. ASSUME NEW g \in Fields(T)
      PROVE  val[g] \in ValuesIn(FieldTypes[T][g], S) /\ BitTells(T, bits, g, val[g])
  <2>1. CASE g = f
    BY <1>4, <1>7, <2>1 DEF BitTells
  <2>2. CASE g # f
    <3>1. val[g] = o.val[g] /\ (Bit(T, g) \in bits <=> Bit(T, g) \in o.bits)
      BY <1>6, <1>7, <2>2
    <3> HIDE DEF bits
    <3> QED
      BY <1>5, <3>1 DEF BitTells
  <2> QED
    BY <2>1, <2>2
<1>10. bits \subseteq {Bit(T, g) : g \in Fields(T)}
  BY <1>5
<1> HIDE DEF bits
<1>11. [bits |-> bits, val |-> val] \in Objects(T, S)
  BY <1>7, <1>9, <1>10, ObjectIntro
<1> QED
  BY <1>8, <1>11

-----------------------------------------------------------------------------
(* The functions by the depth of what they are called for.  What one makes  *)
(* of an object at a depth is made of what it makes of the parts, one depth  *)
(* less.                                                                    *)

Serialized0(T, o) == Nest0(SerializedLayer, ObjectParts, T, o)
Serialized1(T, o) == Nest1(SerializedLayer, ObjectParts, T, o)
Serialized2(T, o) == Nest2(SerializedLayer, ObjectParts, T, o)
Serialized3(T, o) == Nest3(SerializedLayer, ObjectParts, T, o)
SerializedAt(depth, T, o) ==
    IF depth = 0 THEN Serialized0(T, o) ELSE IF depth = 1 THEN Serialized1(T, o)
    ELSE IF depth = 2 THEN Serialized2(T, o) ELSE Serialized3(T, o)
SerializedWithin(depth, T, o) ==
    IF depth = 0 THEN <<>>
    ELSE [d \in DOMAIN ObjectParts(T, o) |->
             SerializedAt(depth - 1, ObjectParts(T, o)[d].type, ObjectParts(T, o)[d].of)]

LEMMA SerializedUnfolds ==
    ASSUME NEW depth \in 0 .. 3, NEW T, NEW o
    PROVE  SerializedAt(depth, T, o) = SerializedLayer(T, o, SerializedWithin(depth, T, o))
<1>1. CASE depth = 0
  <2>1. Serialized0(T, o) = SerializedLayer(T, o, <<>>)
    BY DEF Serialized0, Nest0
  <2> QED
    BY <1>1, <2>1 DEF SerializedAt, SerializedWithin
<1>2. CASE depth = 1
  <2>1. Serialized1(T, o) =
          SerializedLayer(T, o, [d \in DOMAIN ObjectParts(T, o) |->
                              Serialized0(ObjectParts(T, o)[d].type, ObjectParts(T, o)[d].of)])
    BY DEF Serialized0, Serialized1, Nest1
  <2>2. SerializedAt(depth, T, o) = Serialized1(T, o)
    BY <1>2 DEF SerializedAt
  <2>3. \A U, y : SerializedAt(depth - 1, U, y) = Serialized0(U, y)
    BY <1>2 DEF SerializedAt
  <2>4. depth # 0
    BY <1>2
  <2> QED
    BY <2>1, <2>2, <2>3, <2>4 DEF SerializedWithin
<1>3. CASE depth = 2
  <2>1. Serialized2(T, o) =
          SerializedLayer(T, o, [d \in DOMAIN ObjectParts(T, o) |->
                              Serialized1(ObjectParts(T, o)[d].type, ObjectParts(T, o)[d].of)])
    BY DEF Serialized1, Serialized2, Nest2
  <2>2. SerializedAt(depth, T, o) = Serialized2(T, o)
    BY <1>3 DEF SerializedAt
  <2>3. \A U, y : SerializedAt(depth - 1, U, y) = Serialized1(U, y)
    BY <1>3 DEF SerializedAt
  <2>4. depth # 0
    BY <1>3
  <2> QED
    BY <2>1, <2>2, <2>3, <2>4 DEF SerializedWithin
<1>4. CASE depth = 3
  <2>1. Serialized3(T, o) =
          SerializedLayer(T, o, [d \in DOMAIN ObjectParts(T, o) |->
                              Serialized2(ObjectParts(T, o)[d].type, ObjectParts(T, o)[d].of)])
    BY DEF Serialized2, Serialized3, Nest3
  <2>2. SerializedAt(depth, T, o) = Serialized3(T, o)
    BY <1>4 DEF SerializedAt
  <2>3. \A U, y : SerializedAt(depth - 1, U, y) = Serialized2(U, y)
    BY <1>4 DEF SerializedAt
  <2>4. depth # 0
    BY <1>4
  <2> QED
    BY <2>1, <2>2, <2>3, <2>4 DEF SerializedWithin
<1> QED
  BY <1>1, <1>2, <1>3, <1>4

Visible0(T, o) == Nest0(VisibleLayer, ObjectParts, T, o)
Visible1(T, o) == Nest1(VisibleLayer, ObjectParts, T, o)
Visible2(T, o) == Nest2(VisibleLayer, ObjectParts, T, o)
Visible3(T, o) == Nest3(VisibleLayer, ObjectParts, T, o)
VisibleAt(depth, T, o) ==
    IF depth = 0 THEN Visible0(T, o) ELSE IF depth = 1 THEN Visible1(T, o)
    ELSE IF depth = 2 THEN Visible2(T, o) ELSE Visible3(T, o)
VisibleWithin(depth, T, o) ==
    IF depth = 0 THEN <<>>
    ELSE [d \in DOMAIN ObjectParts(T, o) |->
             VisibleAt(depth - 1, ObjectParts(T, o)[d].type, ObjectParts(T, o)[d].of)]

LEMMA VisibleUnfolds ==
    ASSUME NEW depth \in 0 .. 3, NEW T, NEW o
    PROVE  VisibleAt(depth, T, o) = VisibleLayer(T, o, VisibleWithin(depth, T, o))
<1>1. CASE depth = 0
  <2>1. Visible0(T, o) = VisibleLayer(T, o, <<>>)
    BY DEF Visible0, Nest0
  <2> QED
    BY <1>1, <2>1 DEF VisibleAt, VisibleWithin
<1>2. CASE depth = 1
  <2>1. Visible1(T, o) =
          VisibleLayer(T, o, [d \in DOMAIN ObjectParts(T, o) |->
                              Visible0(ObjectParts(T, o)[d].type, ObjectParts(T, o)[d].of)])
    BY DEF Visible0, Visible1, Nest1
  <2>2. VisibleAt(depth, T, o) = Visible1(T, o)
    BY <1>2 DEF VisibleAt
  <2>3. \A U, y : VisibleAt(depth - 1, U, y) = Visible0(U, y)
    BY <1>2 DEF VisibleAt
  <2>4. depth # 0
    BY <1>2
  <2> QED
    BY <2>1, <2>2, <2>3, <2>4 DEF VisibleWithin
<1>3. CASE depth = 2
  <2>1. Visible2(T, o) =
          VisibleLayer(T, o, [d \in DOMAIN ObjectParts(T, o) |->
                              Visible1(ObjectParts(T, o)[d].type, ObjectParts(T, o)[d].of)])
    BY DEF Visible1, Visible2, Nest2
  <2>2. VisibleAt(depth, T, o) = Visible2(T, o)
    BY <1>3 DEF VisibleAt
  <2>3. \A U, y : VisibleAt(depth - 1, U, y) = Visible1(U, y)
    BY <1>3 DEF VisibleAt
  <2>4. depth # 0
    BY <1>3
  <2> QED
    BY <2>1, <2>2, <2>3, <2>4 DEF VisibleWithin
<1>4. CASE depth = 3
  <2>1. Visible3(T, o) =
          VisibleLayer(T, o, [d \in DOMAIN ObjectParts(T, o) |->
                              Visible2(ObjectParts(T, o)[d].type, ObjectParts(T, o)[d].of)])
    BY DEF Visible2, Visible3, Nest3
  <2>2. VisibleAt(depth, T, o) = Visible3(T, o)
    BY <1>4 DEF VisibleAt
  <2>3. \A U, y : VisibleAt(depth - 1, U, y) = Visible2(U, y)
    BY <1>4 DEF VisibleAt
  <2>4. depth # 0
    BY <1>4
  <2> QED
    BY <2>1, <2>2, <2>3, <2>4 DEF VisibleWithin
<1> QED
  BY <1>1, <1>2, <1>3, <1>4

Size0(T, o) == Nest0(ByteSizeLayer, ObjectParts, T, o)
Size1(T, o) == Nest1(ByteSizeLayer, ObjectParts, T, o)
Size2(T, o) == Nest2(ByteSizeLayer, ObjectParts, T, o)
Size3(T, o) == Nest3(ByteSizeLayer, ObjectParts, T, o)
SizeAt(depth, T, o) ==
    IF depth = 0 THEN Size0(T, o) ELSE IF depth = 1 THEN Size1(T, o)
    ELSE IF depth = 2 THEN Size2(T, o) ELSE Size3(T, o)
SizeWithin(depth, T, o) ==
    IF depth = 0 THEN <<>>
    ELSE [d \in DOMAIN ObjectParts(T, o) |->
             SizeAt(depth - 1, ObjectParts(T, o)[d].type, ObjectParts(T, o)[d].of)]

LEMMA SizeUnfolds ==
    ASSUME NEW depth \in 0 .. 3, NEW T, NEW o
    PROVE  SizeAt(depth, T, o) = ByteSizeLayer(T, o, SizeWithin(depth, T, o))
<1>1. CASE depth = 0
  <2>1. Size0(T, o) = ByteSizeLayer(T, o, <<>>)
    BY DEF Size0, Nest0
  <2> QED
    BY <1>1, <2>1 DEF SizeAt, SizeWithin
<1>2. CASE depth = 1
  <2>1. Size1(T, o) =
          ByteSizeLayer(T, o, [d \in DOMAIN ObjectParts(T, o) |->
                              Size0(ObjectParts(T, o)[d].type, ObjectParts(T, o)[d].of)])
    BY DEF Size0, Size1, Nest1
  <2>2. SizeAt(depth, T, o) = Size1(T, o)
    BY <1>2 DEF SizeAt
  <2>3. \A U, y : SizeAt(depth - 1, U, y) = Size0(U, y)
    BY <1>2 DEF SizeAt
  <2>4. depth # 0
    BY <1>2
  <2> QED
    BY <2>1, <2>2, <2>3, <2>4 DEF SizeWithin
<1>3. CASE depth = 2
  <2>1. Size2(T, o) =
          ByteSizeLayer(T, o, [d \in DOMAIN ObjectParts(T, o) |->
                              Size1(ObjectParts(T, o)[d].type, ObjectParts(T, o)[d].of)])
    BY DEF Size1, Size2, Nest2
  <2>2. SizeAt(depth, T, o) = Size2(T, o)
    BY <1>3 DEF SizeAt
  <2>3. \A U, y : SizeAt(depth - 1, U, y) = Size1(U, y)
    BY <1>3 DEF SizeAt
  <2>4. depth # 0
    BY <1>3
  <2> QED
    BY <2>1, <2>2, <2>3, <2>4 DEF SizeWithin
<1>4. CASE depth = 3
  <2>1. Size3(T, o) =
          ByteSizeLayer(T, o, [d \in DOMAIN ObjectParts(T, o) |->
                              Size2(ObjectParts(T, o)[d].type, ObjectParts(T, o)[d].of)])
    BY DEF Size2, Size3, Nest3
  <2>2. SizeAt(depth, T, o) = Size3(T, o)
    BY <1>4 DEF SizeAt
  <2>3. \A U, y : SizeAt(depth - 1, U, y) = Size2(U, y)
    BY <1>4 DEF SizeAt
  <2>4. depth # 0
    BY <1>4
  <2> QED
    BY <2>1, <2>2, <2>3, <2>4 DEF SizeWithin
<1> QED
  BY <1>1, <1>2, <1>3, <1>4

Cleared0(T, o) == Nest0(ClearedLayer, ObjectParts, T, o)
Cleared1(T, o) == Nest1(ClearedLayer, ObjectParts, T, o)
Cleared2(T, o) == Nest2(ClearedLayer, ObjectParts, T, o)
Cleared3(T, o) == Nest3(ClearedLayer, ObjectParts, T, o)
ClearedAt(depth, T, o) ==
    IF depth = 0 THEN Cleared0(T, o) ELSE IF depth = 1 THEN Cleared1(T, o)
    ELSE IF depth = 2 THEN Cleared2(T, o) ELSE Cleared3(T, o)
ClearedWithin(depth, T, o) ==
    IF depth = 0 THEN <<>>
    ELSE [d \in DOMAIN ObjectParts(T, o) |->
             ClearedAt(depth - 1, ObjectParts(T, o)[d].type, ObjectParts(T, o)[d].of)]

LEMMA ClearedUnfolds ==
    ASSUME NEW depth \in 0 .. 3, NEW T, NEW o
    PROVE  ClearedAt(depth, T, o) = ClearedLayer(T, o, ClearedWithin(depth, T, o))
<1>1. CASE depth = 0
  <2>1. Cleared0(T, o) = ClearedLayer(T, o, <<>>)
    BY DEF Cleared0, Nest0
  <2> QED
    BY <1>1, <2>1 DEF ClearedAt, ClearedWithin
<1>2. CASE depth = 1
  <2>1. Cleared1(T, o) =
          ClearedLayer(T, o, [d \in DOMAIN ObjectParts(T, o) |->
                              Cleared0(ObjectParts(T, o)[d].type, ObjectParts(T, o)[d].of)])
    BY DEF Cleared0, Cleared1, Nest1
  <2>2. ClearedAt(depth, T, o) = Cleared1(T, o)
    BY <1>2 DEF ClearedAt
  <2>3. \A U, y : ClearedAt(depth - 1, U, y) = Cleared0(U, y)
    BY <1>2 DEF ClearedAt
  <2>4. depth # 0
    BY <1>2
  <2> QED
    BY <2>1, <2>2, <2>3, <2>4 DEF ClearedWithin
<1>3. CASE depth = 2
  <2>1. Cleared2(T, o) =
          ClearedLayer(T, o, [d \in DOMAIN ObjectParts(T, o) |->
                              Cleared1(ObjectParts(T, o)[d].type, ObjectParts(T, o)[d].of)])
    BY DEF Cleared1, Cleared2, Nest2
  <2>2. ClearedAt(depth, T, o) = Cleared2(T, o)
    BY <1>3 DEF ClearedAt
  <2>3. \A U, y : ClearedAt(depth - 1, U, y) = Cleared1(U, y)
    BY <1>3 DEF ClearedAt
  <2>4. depth # 0
    BY <1>3
  <2> QED
    BY <2>1, <2>2, <2>3, <2>4 DEF ClearedWithin
<1>4. CASE depth = 3
  <2>1. Cleared3(T, o) =
          ClearedLayer(T, o, [d \in DOMAIN ObjectParts(T, o) |->
                              Cleared2(ObjectParts(T, o)[d].type, ObjectParts(T, o)[d].of)])
    BY DEF Cleared2, Cleared3, Nest3
  <2>2. ClearedAt(depth, T, o) = Cleared3(T, o)
    BY <1>4 DEF ClearedAt
  <2>3. \A U, y : ClearedAt(depth - 1, U, y) = Cleared2(U, y)
    BY <1>4 DEF ClearedAt
  <2>4. depth # 0
    BY <1>4
  <2> QED
    BY <2>1, <2>2, <2>3, <2>4 DEF ClearedWithin
<1> QED
  BY <1>1, <1>2, <1>3, <1>4

Touched0(T, o) == Nest0(TouchedLayer, Mutable, T, o)
Touched1(T, o) == Nest1(TouchedLayer, Mutable, T, o)
Touched2(T, o) == Nest2(TouchedLayer, Mutable, T, o)
Touched3(T, o) == Nest3(TouchedLayer, Mutable, T, o)
TouchedAt(depth, T, o) ==
    IF depth = 0 THEN Touched0(T, o) ELSE IF depth = 1 THEN Touched1(T, o)
    ELSE IF depth = 2 THEN Touched2(T, o) ELSE Touched3(T, o)
TouchedWithin(depth, T, o) ==
    IF depth = 0 THEN <<>>
    ELSE [d \in DOMAIN Mutable(T, o) |->
             TouchedAt(depth - 1, Mutable(T, o)[d].type, Mutable(T, o)[d].of)]

LEMMA TouchedUnfolds ==
    ASSUME NEW depth \in 0 .. 3, NEW T, NEW o
    PROVE  TouchedAt(depth, T, o) = TouchedLayer(T, o, TouchedWithin(depth, T, o))
<1>1. CASE depth = 0
  <2>1. Touched0(T, o) = TouchedLayer(T, o, <<>>)
    BY DEF Touched0, Nest0
  <2> QED
    BY <1>1, <2>1 DEF TouchedAt, TouchedWithin
<1>2. CASE depth = 1
  <2>1. Touched1(T, o) =
          TouchedLayer(T, o, [d \in DOMAIN Mutable(T, o) |->
                              Touched0(Mutable(T, o)[d].type, Mutable(T, o)[d].of)])
    BY DEF Touched0, Touched1, Nest1
  <2>2. TouchedAt(depth, T, o) = Touched1(T, o)
    BY <1>2 DEF TouchedAt
  <2>3. \A U, y : TouchedAt(depth - 1, U, y) = Touched0(U, y)
    BY <1>2 DEF TouchedAt
  <2>4. depth # 0
    BY <1>2
  <2> QED
    BY <2>1, <2>2, <2>3, <2>4 DEF TouchedWithin
<1>3. CASE depth = 2
  <2>1. Touched2(T, o) =
          TouchedLayer(T, o, [d \in DOMAIN Mutable(T, o) |->
                              Touched1(Mutable(T, o)[d].type, Mutable(T, o)[d].of)])
    BY DEF Touched1, Touched2, Nest2
  <2>2. TouchedAt(depth, T, o) = Touched2(T, o)
    BY <1>3 DEF TouchedAt
  <2>3. \A U, y : TouchedAt(depth - 1, U, y) = Touched1(U, y)
    BY <1>3 DEF TouchedAt
  <2>4. depth # 0
    BY <1>3
  <2> QED
    BY <2>1, <2>2, <2>3, <2>4 DEF TouchedWithin
<1>4. CASE depth = 3
  <2>1. Touched3(T, o) =
          TouchedLayer(T, o, [d \in DOMAIN Mutable(T, o) |->
                              Touched2(Mutable(T, o)[d].type, Mutable(T, o)[d].of)])
    BY DEF Touched2, Touched3, Nest3
  <2>2. TouchedAt(depth, T, o) = Touched3(T, o)
    BY <1>4 DEF TouchedAt
  <2>3. \A U, y : TouchedAt(depth - 1, U, y) = Touched2(U, y)
    BY <1>4 DEF TouchedAt
  <2>4. depth # 0
    BY <1>4
  <2> QED
    BY <2>1, <2>2, <2>3, <2>4 DEF TouchedWithin
<1> QED
  BY <1>1, <1>2, <1>3, <1>4

WireSize0(T, wire) == Nest0(WireSizeLayer, WireParts, T, wire)
WireSize1(T, wire) == Nest1(WireSizeLayer, WireParts, T, wire)
WireSize2(T, wire) == Nest2(WireSizeLayer, WireParts, T, wire)
WireSize3(T, wire) == Nest3(WireSizeLayer, WireParts, T, wire)
WireSizeAt(depth, T, wire) ==
    IF depth = 0 THEN WireSize0(T, wire) ELSE IF depth = 1 THEN WireSize1(T, wire)
    ELSE IF depth = 2 THEN WireSize2(T, wire) ELSE WireSize3(T, wire)
WireSizeWithin(depth, T, wire) ==
    IF depth = 0 THEN <<>>
    ELSE [d \in DOMAIN WireParts(T, wire) |->
             WireSizeAt(depth - 1, WireParts(T, wire)[d].type, WireParts(T, wire)[d].of)]

LEMMA WireSizeUnfolds ==
    ASSUME NEW depth \in 0 .. 3, NEW T, NEW wire
    PROVE  WireSizeAt(depth, T, wire) = WireSizeLayer(T, wire, WireSizeWithin(depth, T, wire))
<1>1. CASE depth = 0
  <2>1. WireSize0(T, wire) = WireSizeLayer(T, wire, <<>>)
    BY DEF WireSize0, Nest0
  <2> QED
    BY <1>1, <2>1 DEF WireSizeAt, WireSizeWithin
<1>2. CASE depth = 1
  <2>1. WireSize1(T, wire) =
          WireSizeLayer(T, wire, [d \in DOMAIN WireParts(T, wire) |->
                              WireSize0(WireParts(T, wire)[d].type, WireParts(T, wire)[d].of)])
    BY DEF WireSize0, WireSize1, Nest1
  <2>2. WireSizeAt(depth, T, wire) = WireSize1(T, wire)
    BY <1>2 DEF WireSizeAt
  <2>3. \A U, y : WireSizeAt(depth - 1, U, y) = WireSize0(U, y)
    BY <1>2 DEF WireSizeAt
  <2>4. depth # 0
    BY <1>2
  <2> QED
    BY <2>1, <2>2, <2>3, <2>4 DEF WireSizeWithin
<1>3. CASE depth = 2
  <2>1. WireSize2(T, wire) =
          WireSizeLayer(T, wire, [d \in DOMAIN WireParts(T, wire) |->
                              WireSize1(WireParts(T, wire)[d].type, WireParts(T, wire)[d].of)])
    BY DEF WireSize1, WireSize2, Nest2
  <2>2. WireSizeAt(depth, T, wire) = WireSize2(T, wire)
    BY <1>3 DEF WireSizeAt
  <2>3. \A U, y : WireSizeAt(depth - 1, U, y) = WireSize1(U, y)
    BY <1>3 DEF WireSizeAt
  <2>4. depth # 0
    BY <1>3
  <2> QED
    BY <2>1, <2>2, <2>3, <2>4 DEF WireSizeWithin
<1>4. CASE depth = 3
  <2>1. WireSize3(T, wire) =
          WireSizeLayer(T, wire, [d \in DOMAIN WireParts(T, wire) |->
                              WireSize2(WireParts(T, wire)[d].type, WireParts(T, wire)[d].of)])
    BY DEF WireSize2, WireSize3, Nest3
  <2>2. WireSizeAt(depth, T, wire) = WireSize3(T, wire)
    BY <1>4 DEF WireSizeAt
  <2>3. \A U, y : WireSizeAt(depth - 1, U, y) = WireSize2(U, y)
    BY <1>4 DEF WireSizeAt
  <2>4. depth # 0
    BY <1>4
  <2> QED
    BY <2>1, <2>2, <2>3, <2>4 DEF WireSizeWithin
<1> QED
  BY <1>1, <1>2, <1>3, <1>4

Parsed0(T, x) == Nest0(ParsedLayer, ParsedParts, T, x)
Parsed1(T, x) == Nest1(ParsedLayer, ParsedParts, T, x)
Parsed2(T, x) == Nest2(ParsedLayer, ParsedParts, T, x)
Parsed3(T, x) == Nest3(ParsedLayer, ParsedParts, T, x)
ParsedAt(depth, T, x) ==
    IF depth = 0 THEN Parsed0(T, x) ELSE IF depth = 1 THEN Parsed1(T, x)
    ELSE IF depth = 2 THEN Parsed2(T, x) ELSE Parsed3(T, x)
ParsedWithin(depth, T, x) ==
    IF depth = 0 THEN <<>>
    ELSE [d \in DOMAIN ParsedParts(T, x) |->
             ParsedAt(depth - 1, ParsedParts(T, x)[d].type, ParsedParts(T, x)[d].of)]

LEMMA ParsedUnfolds ==
    ASSUME NEW depth \in 0 .. 3, NEW T, NEW x
    PROVE  ParsedAt(depth, T, x) = ParsedLayer(T, x, ParsedWithin(depth, T, x))
<1>1. CASE depth = 0
  <2>1. Parsed0(T, x) = ParsedLayer(T, x, <<>>)
    BY DEF Parsed0, Nest0
  <2> QED
    BY <1>1, <2>1 DEF ParsedAt, ParsedWithin
<1>2. CASE depth = 1
  <2>1. Parsed1(T, x) =
          ParsedLayer(T, x, [d \in DOMAIN ParsedParts(T, x) |->
                              Parsed0(ParsedParts(T, x)[d].type, ParsedParts(T, x)[d].of)])
    BY DEF Parsed0, Parsed1, Nest1
  <2>2. ParsedAt(depth, T, x) = Parsed1(T, x)
    BY <1>2 DEF ParsedAt
  <2>3. \A U, y : ParsedAt(depth - 1, U, y) = Parsed0(U, y)
    BY <1>2 DEF ParsedAt
  <2>4. depth # 0
    BY <1>2
  <2> QED
    BY <2>1, <2>2, <2>3, <2>4 DEF ParsedWithin
<1>3. CASE depth = 2
  <2>1. Parsed2(T, x) =
          ParsedLayer(T, x, [d \in DOMAIN ParsedParts(T, x) |->
                              Parsed1(ParsedParts(T, x)[d].type, ParsedParts(T, x)[d].of)])
    BY DEF Parsed1, Parsed2, Nest2
  <2>2. ParsedAt(depth, T, x) = Parsed2(T, x)
    BY <1>3 DEF ParsedAt
  <2>3. \A U, y : ParsedAt(depth - 1, U, y) = Parsed1(U, y)
    BY <1>3 DEF ParsedAt
  <2>4. depth # 0
    BY <1>3
  <2> QED
    BY <2>1, <2>2, <2>3, <2>4 DEF ParsedWithin
<1>4. CASE depth = 3
  <2>1. Parsed3(T, x) =
          ParsedLayer(T, x, [d \in DOMAIN ParsedParts(T, x) |->
                              Parsed2(ParsedParts(T, x)[d].type, ParsedParts(T, x)[d].of)])
    BY DEF Parsed2, Parsed3, Nest3
  <2>2. ParsedAt(depth, T, x) = Parsed3(T, x)
    BY <1>4 DEF ParsedAt
  <2>3. \A U, y : ParsedAt(depth - 1, U, y) = Parsed2(U, y)
    BY <1>4 DEF ParsedAt
  <2>4. depth # 0
    BY <1>4
  <2> QED
    BY <2>1, <2>2, <2>3, <2>4 DEF ParsedWithin
<1> QED
  BY <1>1, <1>2, <1>3, <1>4

Merged0(T, x) == Nest0(MergedLayer, MergedParts, T, x)
Merged1(T, x) == Nest1(MergedLayer, MergedParts, T, x)
Merged2(T, x) == Nest2(MergedLayer, MergedParts, T, x)
Merged3(T, x) == Nest3(MergedLayer, MergedParts, T, x)
MergedAt(depth, T, x) ==
    IF depth = 0 THEN Merged0(T, x) ELSE IF depth = 1 THEN Merged1(T, x)
    ELSE IF depth = 2 THEN Merged2(T, x) ELSE Merged3(T, x)
MergedWithin(depth, T, x) ==
    IF depth = 0 THEN <<>>
    ELSE [d \in DOMAIN MergedParts(T, x) |->
             MergedAt(depth - 1, MergedParts(T, x)[d].type, MergedParts(T, x)[d].of)]

LEMMA MergedUnfolds ==
    ASSUME NEW depth \in 0 .. 3, NEW T, NEW x
    PROVE  MergedAt(depth, T, x) = MergedLayer(T, x, MergedWithin(depth, T, x))
<1>1. CASE depth = 0
  <2>1. Merged0(T, x) = MergedLayer(T, x, <<>>)
    BY DEF Merged0, Nest0
  <2> QED
    BY <1>1, <2>1 DEF MergedAt, MergedWithin
<1>2. CASE depth = 1
  <2>1. Merged1(T, x) =
          MergedLayer(T, x, [d \in DOMAIN MergedParts(T, x) |->
                              Merged0(MergedParts(T, x)[d].type, MergedParts(T, x)[d].of)])
    BY DEF Merged0, Merged1, Nest1
  <2>2. MergedAt(depth, T, x) = Merged1(T, x)
    BY <1>2 DEF MergedAt
  <2>3. \A U, y : MergedAt(depth - 1, U, y) = Merged0(U, y)
    BY <1>2 DEF MergedAt
  <2>4. depth # 0
    BY <1>2
  <2> QED
    BY <2>1, <2>2, <2>3, <2>4 DEF MergedWithin
<1>3. CASE depth = 2
  <2>1. Merged2(T, x) =
          MergedLayer(T, x, [d \in DOMAIN MergedParts(T, x) |->
                              Merged1(MergedParts(T, x)[d].type, MergedParts(T, x)[d].of)])
    BY DEF Merged1, Merged2, Nest2
  <2>2. MergedAt(depth, T, x) = Merged2(T, x)
    BY <1>3 DEF MergedAt
  <2>3. \A U, y : MergedAt(depth - 1, U, y) = Merged1(U, y)
    BY <1>3 DEF MergedAt
  <2>4. depth # 0
    BY <1>3
  <2> QED
    BY <2>1, <2>2, <2>3, <2>4 DEF MergedWithin
<1>4. CASE depth = 3
  <2>1. Merged3(T, x) =
          MergedLayer(T, x, [d \in DOMAIN MergedParts(T, x) |->
                              Merged2(MergedParts(T, x)[d].type, MergedParts(T, x)[d].of)])
    BY DEF Merged2, Merged3, Nest3
  <2>2. MergedAt(depth, T, x) = Merged3(T, x)
    BY <1>4 DEF MergedAt
  <2>3. \A U, y : MergedAt(depth - 1, U, y) = Merged2(U, y)
    BY <1>4 DEF MergedAt
  <2>4. depth # 0
    BY <1>4
  <2> QED
    BY <2>1, <2>2, <2>3, <2>4 DEF MergedWithin
<1> QED
  BY <1>1, <1>2, <1>3, <1>4

\* The objects of each depth.
ObjectsAt(depth) ==
    IF depth = 0 THEN Objects0 ELSE IF depth = 1 THEN Objects1
    ELSE IF depth = 2 THEN Objects2 ELSE Objects3
ObjectsWithin(depth) == IF depth = 0 THEN [U \in DOMAIN Tables |-> {}] ELSE ObjectsAt(depth - 1)

LEMMA ObjectsUnfold ==
    ASSUME NEW depth \in 0 .. 3, NEW T \in DOMAIN Tables
    PROVE  ObjectsAt(depth)[T] = Objects(T, ObjectsWithin(depth))
<1>1. CASE depth = 0
  <2>1. ObjectsAt(depth) = Objects0 /\ ObjectsWithin(depth) = [U \in DOMAIN Tables |-> {}]
    BY <1>1 DEF ObjectsAt, ObjectsWithin
  <2> QED
    BY <2>1 DEF Objects0
<1>2. CASE depth = 1
  <2>1. ObjectsAt(depth) = Objects1 /\ ObjectsWithin(depth) = Objects0
    BY <1>2 DEF ObjectsAt, ObjectsWithin
  <2> QED
    BY <2>1 DEF Objects1
<1>3. CASE depth = 2
  <2>1. ObjectsAt(depth) = Objects2 /\ ObjectsWithin(depth) = Objects1
    BY <1>3 DEF ObjectsAt, ObjectsWithin
  <2> QED
    BY <2>1 DEF Objects2
<1>4. CASE depth = 3
  <2>1. ObjectsAt(depth) = Objects3 /\ ObjectsWithin(depth) = Objects2
    BY <1>4 DEF ObjectsAt, ObjectsWithin
  <2> QED
    BY <2>1 DEF Objects3
<1> QED
  BY <1>1, <1>2, <1>3, <1>4

\* A message in an object is an object of one depth less.
LEMMA PartFacts ==
    ASSUME NEW depth \in 0 .. 3, NEW T \in DOMAIN Tables, NEW o \in ObjectsAt(depth)[T],
           NEW f \in Nested(T), NEW i \in DOMAIN o.val[f]
    PROVE  /\ depth \in 1 .. 3 /\ depth - 1 \in 0 .. 3
           /\ Element(FieldTypes[T][f]) \in DOMAIN Tables
           /\ o.val[f][i] \in ObjectsAt(depth - 1)[Element(FieldTypes[T][f])]
<1>1. o \in Objects(T, ObjectsWithin(depth))
  BY ObjectsUnfold
<1>2. /\ Element(FieldTypes[T][f]) \in DOMAIN Tables
      /\ o.val[f][i] \in ObjectsWithin(depth)[Element(FieldTypes[T][f])]
  BY <1>1, NestedValue
<1>3. depth # 0
  BY <1>2 DEF ObjectsWithin
<1> QED
  BY <1>2, <1>3 DEF ObjectsWithin

LEMMA NewAt ==
    ASSUME NEW depth \in 0 .. 3, NEW T \in DOMAIN Tables
    PROVE  New(T) \in ObjectsAt(depth)[T] /\ Blank(New(T))
  BY ObjectsUnfold, NewIsObject DEF Blank

\* What is made within, by field and place.
LEMMA MadeWithin ==
    ASSUME NEW depth \in 1 .. 3, NEW T \in DOMAIN Tables, NEW o, NEW f \in Nested(T),
           NEW i \in DOMAIN o.val[f], NEW E, E = Element(FieldTypes[T][f])
    PROVE  /\ SerializedWithin(depth, T, o)[<<f, i>>] = SerializedAt(depth - 1, E, o.val[f][i])
           /\ VisibleWithin(depth, T, o)[<<f, i>>] = VisibleAt(depth - 1, E, o.val[f][i])
           /\ SizeWithin(depth, T, o)[<<f, i>>] = SizeAt(depth - 1, E, o.val[f][i])
           /\ ClearedWithin(depth, T, o)[<<f, i>>] = ClearedAt(depth - 1, E, o.val[f][i])
<1>1. /\ <<f, i>> \in DOMAIN ObjectParts(T, o)
      /\ ObjectParts(T, o)[<<f, i>>] = [type |-> E, of |-> o.val[f][i]]
  BY ObjectPartsAre
<1>2. ObjectParts(T, o)[<<f, i>>].type = E /\ ObjectParts(T, o)[<<f, i>>].of = o.val[f][i]
  BY <1>1
<1>3. depth # 0
  OBVIOUS
<1> DEFINE parts == ObjectParts(T, o)
<1> HIDE DEF parts
<1>4. <<f, i>> \in DOMAIN parts /\ parts[<<f, i>>].type = E /\ parts[<<f, i>>].of = o.val[f][i]
  BY <1>1, <1>2 DEF parts
<1>5. SerializedWithin(depth, T, o) = [d \in DOMAIN parts |-> SerializedAt(depth - 1, parts[d].type, parts[d].of)]
  BY <1>3 DEF SerializedWithin, parts
<1>6. VisibleWithin(depth, T, o) = [d \in DOMAIN parts |-> VisibleAt(depth - 1, parts[d].type, parts[d].of)]
  BY <1>3 DEF VisibleWithin, parts
<1>7. SizeWithin(depth, T, o) = [d \in DOMAIN parts |-> SizeAt(depth - 1, parts[d].type, parts[d].of)]
  BY <1>3 DEF SizeWithin, parts
<1>8. ClearedWithin(depth, T, o) = [d \in DOMAIN parts |-> ClearedAt(depth - 1, parts[d].type, parts[d].of)]
  BY <1>3 DEF ClearedWithin, parts
<1> QED
  BY <1>4, <1>5, <1>6, <1>7, <1>8

Input(object, wire) == [object |-> object, wire |-> wire]
Both(to, from) == [to |-> to, from |-> from]

LEMMA ParsedIn ==
    ASSUME NEW depth \in 1 .. 3, NEW T \in DOMAIN Tables, NEW o \in ObjectsAt(depth)[T], NEW written, NEW c,
           NEW f \in Nested(T), Bit(T, f) \in o.bits, NEW i \in DOMAIN o.val[f]
    PROVE  ParsedWithin(depth, T, Input(c, SerializedLayer(T, o, written)))[<<f, i>>] =
               ParsedAt(depth - 1, Element(FieldTypes[T][f]), Input(Receiver(T, c, f), written[<<f, i>>]))
<1> DEFINE E == Element(FieldTypes[T][f])
           x == [object |-> c, wire |-> SerializedLayer(T, o, written)]
           parts == ParsedParts(T, x)
           of == [object |-> Receiver(T, c, f), wire |-> written[<<f, i>>]]
<1>1. o \in Objects(T, ObjectsWithin(depth))
  BY ObjectsUnfold
<1>2. <<f, i>> \in DOMAIN parts /\ parts[<<f, i>>] = [type |-> E, of |-> of]
  BY <1>1, ParsedPartsAre
<1>3. depth # 0
  OBVIOUS
<1>4. ParsedWithin(depth, T, x) = [d \in DOMAIN parts |-> ParsedAt(depth - 1, parts[d].type, parts[d].of)]
  BY <1>3, Zenon DEF ParsedWithin
<1> HIDE DEF x, parts, of
<1>5. parts[<<f, i>>].type = E /\ parts[<<f, i>>].of = of
  BY <1>2
<1>6. ParsedWithin(depth, T, x)[<<f, i>>] = ParsedAt(depth - 1, E, of)
  BY <1>2, <1>4, <1>5
<1> QED
  BY <1>6 DEF x, of, Input

LEMMA WireSizeIn ==
    ASSUME NEW depth \in 1 .. 3, NEW T \in DOMAIN Tables, NEW o \in ObjectsAt(depth)[T], NEW written,
           NEW f \in Nested(T), Bit(T, f) \in o.bits, NEW i \in DOMAIN o.val[f]
    PROVE  WireSizeWithin(depth, T, SerializedLayer(T, o, written))[<<NumberOf(T, f), i>>] =
               WireSizeAt(depth - 1, Element(FieldTypes[T][f]), written[<<f, i>>])
<1> DEFINE E == Element(FieldTypes[T][f])
           wire == SerializedLayer(T, o, written)
           parts == WireParts(T, wire)
           place == <<NumberOf(T, f), i>>
<1>1. o \in Objects(T, ObjectsWithin(depth))
  BY ObjectsUnfold
<1>2. place \in DOMAIN parts /\ parts[place] = [type |-> E, of |-> written[<<f, i>>]]
  BY <1>1, WirePartsAre
<1>3. depth # 0
  OBVIOUS
<1>4. WireSizeWithin(depth, T, wire) = [d \in DOMAIN parts |-> WireSizeAt(depth - 1, parts[d].type, parts[d].of)]
  BY <1>3, Zenon DEF WireSizeWithin
<1> HIDE DEF wire, parts, place
<1>5. parts[place].type = E /\ parts[place].of = written[<<f, i>>]
  BY <1>2
<1>6. WireSizeWithin(depth, T, wire)[place] = WireSizeAt(depth - 1, E, written[<<f, i>>])
  BY <1>2, <1>4, <1>5
<1> QED
  BY <1>6 DEF wire, place

LEMMA MergedIn ==
    ASSUME NEW depth \in 1 .. 3, NEW T \in DOMAIN Tables, NEW to, NEW from, NEW f \in Nested(T),
           FieldTypes[T][f] \notin Repeated, to.val[f] # <<>>, from.val[f] # <<>>
    PROVE  MergedWithin(depth, T, Both(to, from))[f] =
               MergedAt(depth - 1, FieldTypes[T][f], Both(to.val[f][1], from.val[f][1]))
<1> DEFINE x == [to |-> to, from |-> from]
           parts == MergedParts(T, x)
           of == [to |-> to.val[f][1], from |-> from.val[f][1]]
<1>1. f \in DOMAIN parts /\ parts[f] = [type |-> FieldTypes[T][f], of |-> of]
  BY MergedPartsAre
<1>2. depth # 0
  OBVIOUS
<1>3. MergedWithin(depth, T, x) = [d \in DOMAIN parts |-> MergedAt(depth - 1, parts[d].type, parts[d].of)]
  BY <1>2, Zenon DEF MergedWithin
<1> HIDE DEF x, parts, of
<1>4. parts[f].type = FieldTypes[T][f] /\ parts[f].of = of
  BY <1>1
<1>5. MergedWithin(depth, T, x)[f] = MergedAt(depth - 1, FieldTypes[T][f], of)
  BY <1>1, <1>3, <1>4
<1> QED
  BY <1>5 DEF x, of, Both

LEMMA TouchedIn ==
    ASSUME NEW depth \in 1 .. 3, NEW T \in DOMAIN Tables, NEW o, NEW f \in Nested(T),
           NEW E, E = Element(FieldTypes[T][f])
    PROVE  /\ TouchedWithin(depth, T, o)[f] = TouchedAt(depth - 1, E, Mutable(T, o)[f].of)
           /\ Mutable(T, o)[f].of = Receiver(T, o, f)
<1> DEFINE parts == Mutable(T, o)
<1>1. f \in DOMAIN parts /\ parts[f] = [type |-> E, of |-> Receiver(T, o, f)]
  BY DEF Mutable, Receiver
<1>2. depth # 0
  OBVIOUS
<1>3. TouchedWithin(depth, T, o) = [d \in DOMAIN parts |-> TouchedAt(depth - 1, parts[d].type, parts[d].of)]
  BY <1>2, Zenon DEF TouchedWithin
<1> HIDE DEF parts
<1>4. parts[f].type = E /\ parts[f].of = Receiver(T, o, f)
  BY <1>1
<1>5. TouchedWithin(depth, T, o)[f] = TouchedAt(depth - 1, E, parts[f].of)
  BY <1>1, <1>3, <1>4
<1> QED
  BY <1>4, <1>5 DEF parts

-----------------------------------------------------------------------------
(* At one depth, from what holds one depth less.                            *)

\* The object that a message is parsed into.
LEMMA ReceiverIsObject ==
    ASSUME NEW depth \in 0 .. 3, NEW T \in DOMAIN Tables, NEW c \in ObjectsAt(depth)[T],
           NEW f \in Nested(T), depth - 1 \in 0 .. 3
    PROVE  /\ Receiver(T, c, f) \in ObjectsAt(depth - 1)[Element(FieldTypes[T][f])]
           /\ Blank(c) => Blank(Receiver(T, c, f))
<1> DEFINE E == Element(FieldTypes[T][f])
<1>1. c \in Objects(T, ObjectsWithin(depth))
  BY ObjectsUnfold
<1>2. f \in Fields(T) /\ ~ IsPlain(FieldTypes[T][f]) /\ E \in DOMAIN Tables
  BY <1>1, NestedValue
<1>3. CASE FieldTypes[T][f] \in Repeated \/ c.val[f] = <<>>
  <2>1. Receiver(T, c, f) = New(E)
    BY <1>3 DEF Receiver
  <2> HIDE DEF E
  <2>2. New(E) \in ObjectsAt(depth - 1)[E] /\ Blank(New(E))
    BY <1>2, NewAt
  <2> QED
    BY <2>1, <2>2 DEF E
<1>4. CASE FieldTypes[T][f] \notin Repeated /\ c.val[f] # <<>>
  <2>1. Receiver(T, c, f) = c.val[f][1]
    BY <1>4 DEF Receiver
  <2>2. 1 \in DOMAIN c.val[f]
    BY <1>1, <1>4, NestedValue
  <2>3. c.val[f][1] \in ObjectsAt(depth - 1)[E]
    BY <2>2, PartFacts
  <2>4. Blank(c) => Blank(c.val[f][1])
    <3>1. BitTells(T, c.bits, f, c.val[f])
      BY <1>1, <1>2, ObjectFacts
    <3> QED
      BY <1>2, <1>4, <3>1 DEF BitTells, Blank
  <2> QED
    BY <2>1, <2>3, <2>4
<1> QED
  BY <1>3, <1>4

\* The getters return what was sent, for objects of this depth.
RoundTripAt(depth) ==
    \A T \in DOMAIN Tables : \A o, c \in ObjectsAt(depth)[T] :
        Blank(c) =>
            VisibleAt(depth, T, ParsedAt(depth, T, Input(c, SerializedAt(depth, T, o)))) =
                VisibleAt(depth, T, o)

LEMMA RoundTripStep ==
    ASSUME NEW depth \in 0 .. 3, depth - 1 \in 0 .. 3 => RoundTripAt(depth - 1)
    PROVE  RoundTripAt(depth)
<1> SUFFICES ASSUME NEW T \in DOMAIN Tables, NEW o \in ObjectsAt(depth)[T], NEW c \in ObjectsAt(depth)[T],
                    Blank(c)
             PROVE  VisibleAt(depth, T, ParsedAt(depth, T,
                        Input(c, SerializedAt(depth, T, o)))) = VisibleAt(depth, T, o)
  BY DEF RoundTripAt
<1> DEFINE written == SerializedWithin(depth, T, o)
           wire == SerializedLayer(T, o, written)
           inner == ParsedWithin(depth, T, Input(c, wire))
           parsed == ParsedLayer(T, Input(c, wire), inner)
           seen == VisibleWithin(depth, T, o)
           seenNow == VisibleWithin(depth, T, parsed)
<1>1. SerializedAt(depth, T, o) = wire
  BY SerializedUnfolds
<1>2. ParsedAt(depth, T, Input(c, wire)) = parsed
  BY ParsedUnfolds
<1>3. VisibleAt(depth, T, o) = VisibleLayer(T, o, seen)
  BY VisibleUnfolds
<1>4. VisibleAt(depth, T, parsed) = VisibleLayer(T, parsed, seenNow)
  BY VisibleUnfolds
<1>5. o \in Objects(T, ObjectsWithin(depth)) /\ c \in Objects(T, ObjectsWithin(depth)) /\ c.bits = {}
  BY ObjectsUnfold DEF Blank
<1>6. \A f \in Nested(T) : \A i : Bit(T, f) \in o.bits /\ i \in DOMAIN o.val[f] =>
         i \in DOMAIN parsed.val[f] /\ parsed.val[f][i] = inner[<<f, i>>]
  BY <1>5, ParsedLooksAlike DEF Input
<1>7. ASSUME NEW f \in Nested(T), NEW i, Bit(T, f) \in o.bits, i \in DOMAIN o.val[f]
      PROVE  seenNow[<<f, i>>] = seen[<<f, i>>]
  <2> DEFINE E == Element(FieldTypes[T][f])
             receiver == Receiver(T, c, f)
  <2>1. /\ depth \in 1 .. 3 /\ depth - 1 \in 0 .. 3 /\ E \in DOMAIN Tables
        /\ o.val[f][i] \in ObjectsAt(depth - 1)[E]
    BY <1>7, PartFacts
  <2>2. written[<<f, i>>] = SerializedAt(depth - 1, E, o.val[f][i])
        /\ seen[<<f, i>>] = VisibleAt(depth - 1, E, o.val[f][i])
    BY <1>7, <2>1, MadeWithin
  <2>3. inner[<<f, i>>] = ParsedAt(depth - 1, E, Input(receiver, written[<<f, i>>]))
    <3> HIDE DEF written
    <3> QED
      BY <1>7, <2>1, ParsedIn
  <2>4. receiver \in ObjectsAt(depth - 1)[E] /\ Blank(receiver)
    BY <2>1, ReceiverIsObject
  <2>5. i \in DOMAIN parsed.val[f] /\ parsed.val[f][i] = inner[<<f, i>>]
    BY <1>6, <1>7
  <2> HIDE DEF parsed, inner, written, seen, wire
  <2>6. seenNow[<<f, i>>] = VisibleAt(depth - 1, E, parsed.val[f][i])
    BY <2>1, <2>5, MadeWithin
  <2> HIDE DEF seenNow, E, receiver
  <2>7. VisibleAt(depth - 1, E, ParsedAt(depth - 1, E,
             Input(receiver, SerializedAt(depth - 1, E, o.val[f][i])))) =
           VisibleAt(depth - 1, E, o.val[f][i])
    BY <2>1, <2>4 DEF RoundTripAt
  <2> QED
    BY <2>2, <2>3, <2>5, <2>6, <2>7
<1>8. VisibleLayer(T, parsed, seenNow) = VisibleLayer(T, o, seen)
  <2>1. SameWithin(T, o, seen, seenNow)
    <3> HIDE DEF parsed, seen, seenNow
    <3> QED
      BY <1>7 DEF SameWithin
  <2>2. \A new, now : SameWithin(T, o, new, now) =>
           VisibleLayer(T, parsed, now) = VisibleLayer(T, o, new)
    BY <1>5, ParsedLooksAlike DEF Input
  <2> HIDE DEF parsed, seen, seenNow
  <2> QED
    BY <2>1, <2>2
<1> HIDE DEF parsed, wire, seen, seenNow
<1> QED
  BY <1>1, <1>2, <1>3, <1>4, <1>8

\* Merging is parsing, for objects of this depth.
MergeAt(depth) ==
    \A T \in DOMAIN Tables : \A to, from \in ObjectsAt(depth)[T] :
        VisibleAt(depth, T, MergedAt(depth, T, Both(to, from))) =
            VisibleAt(depth, T, ParsedAt(depth, T, Input(to, SerializedAt(depth, T, from))))

LEMMA MergeStep ==
    ASSUME NEW depth \in 0 .. 3, depth - 1 \in 0 .. 3 => RoundTripAt(depth - 1) /\ MergeAt(depth - 1)
    PROVE  MergeAt(depth)
<1> SUFFICES ASSUME NEW T \in DOMAIN Tables, NEW to \in ObjectsAt(depth)[T], NEW from \in ObjectsAt(depth)[T]
             PROVE  VisibleAt(depth, T, MergedAt(depth, T, Both(to, from))) =
                        VisibleAt(depth, T, ParsedAt(depth, T,
                            Input(to, SerializedAt(depth, T, from))))
  BY DEF MergeAt
<1> DEFINE written == SerializedWithin(depth, T, from)
           wire == SerializedLayer(T, from, written)
           ip == ParsedWithin(depth, T, Input(to, wire))
           im == MergedWithin(depth, T, Both(to, from))
           parsed == ParsedLayer(T, Input(to, wire), ip)
           merged == MergedLayer(T, Both(to, from), im)
           seenP == VisibleWithin(depth, T, parsed)
           seenM == VisibleWithin(depth, T, merged)
<1>1. SerializedAt(depth, T, from) = wire
  BY SerializedUnfolds
<1>2. ParsedAt(depth, T, Input(to, wire)) = parsed
  BY ParsedUnfolds
<1>3. MergedAt(depth, T, Both(to, from)) = merged
  BY MergedUnfolds
<1>4. VisibleAt(depth, T, parsed) = VisibleLayer(T, parsed, seenP)
  BY VisibleUnfolds
<1>5. VisibleAt(depth, T, merged) = VisibleLayer(T, merged, seenM)
  BY VisibleUnfolds
<1>6. to \in Objects(T, ObjectsWithin(depth)) /\ from \in Objects(T, ObjectsWithin(depth))
  BY ObjectsUnfold
<1>7. /\ \A f \in Fields(T) : IsPlain(FieldTypes[T][f]) => merged.val[f] = parsed.val[f]
      /\ \A f \in Nested(T) :
            /\ Shown(T, merged.bits, f) <=> Shown(T, parsed.bits, f)
            /\ DOMAIN merged.val[f] = DOMAIN parsed.val[f]
            /\ \A i \in DOMAIN merged.val[f] :
                  SamePart(T, to, from, f, merged.val[f][i], parsed.val[f][i], im, ip)
  BY <1>6, MergedAndParsed DEF Input, Both
<1>8. ASSUME NEW f \in Nested(T), NEW i \in DOMAIN merged.val[f]
      PROVE  seenM[<<f, i>>] = seenP[<<f, i>>]
  <2> DEFINE E == Element(FieldTypes[T][f])
             mine == merged.val[f][i]
             his == parsed.val[f][i]
  <2>1. CASE depth = 0
    <3>1. seenM = <<>> /\ seenP = <<>>
      BY <2>1 DEF VisibleWithin
    <3> HIDE DEF seenM, seenP
    <3> QED
      BY <3>1
  <2>2. CASE depth # 0
    <3>1. depth \in 1 .. 3 /\ depth - 1 \in 0 .. 3 /\ E \in DOMAIN Tables
      BY <1>6, <2>2, NestedValue
    <3>2. i \in DOMAIN parsed.val[f] /\ SamePart(T, to, from, f, mine, his, im, ip)
      BY <1>7
    <3> HIDE DEF parsed, merged, ip, im, written
    <3>3. seenM[<<f, i>>] = VisibleAt(depth - 1, E, mine) /\ seenP[<<f, i>>] = VisibleAt(depth - 1, E, his)
      BY <3>1, <3>2, MadeWithin
    <3> HIDE DEF seenM, seenP, mine, his
    <3>4. ASSUME NEW j \in DOMAIN from.val[f], Bit(T, f) \in from.bits
          PROVE  /\ from.val[f][j] \in ObjectsAt(depth - 1)[E]
                 /\ ip[<<f, j>>] = ParsedAt(depth - 1, E,
                       Input(Receiver(T, to, f), SerializedAt(depth - 1, E, from.val[f][j])))
      <4>1. from.val[f][j] \in ObjectsAt(depth - 1)[E]
        BY PartFacts
      <4>2. written[<<f, j>>] = SerializedAt(depth - 1, E, from.val[f][j])
        BY <3>1, MadeWithin DEF written
      <4>3. ip[<<f, j>>] = ParsedAt(depth - 1, E, Input(Receiver(T, to, f), written[<<f, j>>]))
        BY <1>6, <3>1, <3>4, ParsedIn DEF ip
      <4> QED
        BY <4>1, <4>2, <4>3
    <3>5. Receiver(T, to, f) \in ObjectsAt(depth - 1)[E]
      BY <3>1, ReceiverIsObject
    <3> HIDE DEF E
    <3>6. CASE mine = his
      BY <3>3, <3>6
    <3>7. CASE /\ Bit(T, f) \in from.bits /\ (FieldTypes[T][f] \in Repeated \/ to.val[f] = <<>>)
               /\ \E j \in DOMAIN from.val[f] : mine = from.val[f][j] /\ his = ip[<<f, j>>]
      <4>1. PICK j \in DOMAIN from.val[f] : mine = from.val[f][j] /\ his = ip[<<f, j>>]
        BY <3>7
      <4>2. Blank(Receiver(T, to, f))
        <5>1. Receiver(T, to, f) = New(E)
          BY <3>7 DEF Receiver, E
        <5> QED
          BY <3>1, <5>1, NewAt
      <4>3. VisibleAt(depth - 1, E, ParsedAt(depth - 1, E,
                Input(Receiver(T, to, f), SerializedAt(depth - 1, E, from.val[f][j])))) =
              VisibleAt(depth - 1, E, from.val[f][j])
        BY <3>1, <3>4, <3>5, <3>7, <4>2 DEF RoundTripAt
      <4> QED
        BY <3>3, <3>4, <3>7, <4>1, <4>3
    <3>8. CASE /\ Bit(T, f) \in from.bits /\ FieldTypes[T][f] \notin Repeated
               /\ to.val[f] # <<>> /\ from.val[f] # <<>>
               /\ mine = im[f] /\ his = ip[<<f, 1>>]
      <4>1. E = FieldTypes[T][f] /\ Receiver(T, to, f) = to.val[f][1]
        BY <3>8 DEF E, Element, Receiver
      <4>2. 1 \in DOMAIN from.val[f]
        BY <1>6, <3>8, NestedValue
      <4>3. mine = MergedAt(depth - 1, E, Both(to.val[f][1], from.val[f][1]))
        BY <3>1, <3>8, <4>1, MergedIn DEF im
      <4>4. VisibleAt(depth - 1, E, MergedAt(depth - 1, E, Both(to.val[f][1], from.val[f][1]))) =
              VisibleAt(depth - 1, E, ParsedAt(depth - 1, E,
                Input(to.val[f][1], SerializedAt(depth - 1, E, from.val[f][1]))))
        BY <3>1, <3>4, <3>5, <3>8, <4>1, <4>2 DEF MergeAt
      <4> QED
        BY <3>3, <3>4, <3>8, <4>1, <4>2, <4>3, <4>4
    <3> QED
      BY <3>2, <3>6, <3>7, <3>8 DEF SamePart
  <2> QED
    BY <2>1, <2>2
<1> HIDE DEF parsed, merged, wire, seenM, seenP
<1>9. VisibleLayer(T, merged, seenM) = VisibleLayer(T, parsed, seenP)
  BY <1>7, <1>8, LookAlike
<1> QED
  BY <1>1, <1>2, <1>3, <1>4, <1>5, <1>9

\* The size is the size of what is written, for objects of this depth.
SizesAt(depth) ==
    \A T \in DOMAIN Tables : \A o \in ObjectsAt(depth)[T] :
        /\ SizeAt(depth, T, o) \in Int
        /\ WireSizeAt(depth, T, SerializedAt(depth, T, o)) = SizeAt(depth, T, o)

LEMMA SizesStep ==
    ASSUME NEW depth \in 0 .. 3, depth - 1 \in 0 .. 3 => SizesAt(depth - 1)
    PROVE  SizesAt(depth)
<1> SUFFICES ASSUME NEW T \in DOMAIN Tables, NEW o \in ObjectsAt(depth)[T]
             PROVE  /\ SizeAt(depth, T, o) \in Int
                    /\ WireSizeAt(depth, T, SerializedAt(depth, T, o)) = SizeAt(depth, T, o)
  BY DEF SizesAt
<1> DEFINE written == SerializedWithin(depth, T, o)
           wire == SerializedLayer(T, o, written)
           sizes == SizeWithin(depth, T, o)
           within == WireSizeWithin(depth, T, wire)
<1>1. SerializedAt(depth, T, o) = wire
  BY SerializedUnfolds
<1>2. SizeAt(depth, T, o) = ByteSizeLayer(T, o, sizes)
  BY SizeUnfolds
<1>3. WireSizeAt(depth, T, wire) = WireSizeLayer(T, wire, within)
  BY WireSizeUnfolds
<1>4. o \in Objects(T, ObjectsWithin(depth))
  BY ObjectsUnfold
<1>5. ASSUME NEW f \in Nested(T), NEW i, Bit(T, f) \in o.bits, i \in DOMAIN o.val[f]
      PROVE  sizes[<<f, i>>] \in Int /\ within[<<NumberOf(T, f), i>>] = sizes[<<f, i>>]
  <2> DEFINE E == Element(FieldTypes[T][f])
  <2>1. /\ depth \in 1 .. 3 /\ depth - 1 \in 0 .. 3 /\ E \in DOMAIN Tables
        /\ o.val[f][i] \in ObjectsAt(depth - 1)[E]
    BY <1>5, PartFacts
  <2>2. sizes[<<f, i>>] = SizeAt(depth - 1, E, o.val[f][i])
    BY <1>5, <2>1, MadeWithin
  <2>3. written[<<f, i>>] = SerializedAt(depth - 1, E, o.val[f][i])
    BY <1>5, <2>1, MadeWithin
  <2>4. within[<<NumberOf(T, f), i>>] = WireSizeAt(depth - 1, E, written[<<f, i>>])
    <3> HIDE DEF written
    <3> QED
      BY <1>5, <2>1, WireSizeIn
  <2> HIDE DEF sizes, within, written, wire, E
  <2>5. /\ SizeAt(depth - 1, E, o.val[f][i]) \in Int
        /\ WireSizeAt(depth - 1, E, SerializedAt(depth - 1, E, o.val[f][i])) = SizeAt(depth - 1, E, o.val[f][i])
    BY <2>1 DEF SizesAt
  <2> QED
    BY <2>2, <2>3, <2>4, <2>5
<1>6. SizesWithin(T, o, sizes) /\ KnownByNumber(T, o, sizes, within)
  <2> HIDE DEF sizes, within
  <2> QED
    BY <1>5 DEF SizesWithin, KnownByNumber
<1>7. /\ ByteSizeLayer(T, o, sizes) \in Int
      /\ WireSizeLayer(T, wire, within) = ByteSizeLayer(T, o, sizes)
  <2> HIDE DEF sizes, within, written
  <2> QED
    BY <1>4, <1>6, SizesAgree
<1> HIDE DEF sizes, within, wire
<1> QED
  BY <1>1, <1>2, <1>3, <1>7

\* Clear leaves an object of this depth, with no bit set.
ClearCloses(depth) ==
    \A T \in DOMAIN Tables : \A o \in ObjectsAt(depth)[T] :
        ClearedAt(depth, T, o) \in ObjectsAt(depth)[T] /\ Blank(ClearedAt(depth, T, o))

LEMMA ClearStep ==
    ASSUME NEW depth \in 0 .. 3, depth - 1 \in 0 .. 3 => ClearCloses(depth - 1)
    PROVE  ClearCloses(depth)
<1> SUFFICES ASSUME NEW T \in DOMAIN Tables, NEW o \in ObjectsAt(depth)[T]
             PROVE  ClearedAt(depth, T, o) \in ObjectsAt(depth)[T] /\ Blank(ClearedAt(depth, T, o))
  BY DEF ClearCloses
<1> DEFINE S == ObjectsWithin(depth)
           inner == ClearedWithin(depth, T, o)
<1>1. ClearedAt(depth, T, o) = ClearedLayer(T, o, inner)
  BY ClearedUnfolds
<1>2. ObjectsAt(depth)[T] = Objects(T, S)
  BY ObjectsUnfold
<1>3. ASSUME NEW f \in Nested(T), NEW i, FieldTypes[T][f] \notin Repeated, i \in DOMAIN o.val[f]
      PROVE  inner[<<f, i>>] \in S[FieldTypes[T][f]] /\ Blank(inner[<<f, i>>])
  <2> DEFINE E == FieldTypes[T][f]
  <2>1. E = Element(FieldTypes[T][f])
    BY <1>3 DEF Element
  <2>2. /\ depth \in 1 .. 3 /\ depth - 1 \in 0 .. 3 /\ E \in DOMAIN Tables
        /\ o.val[f][i] \in ObjectsAt(depth - 1)[E]
    BY <1>3, <2>1, PartFacts
  <2>3. inner[<<f, i>>] = ClearedAt(depth - 1, E, o.val[f][i])
    BY <1>3, <2>1, <2>2, MadeWithin
  <2>4. S[E] = ObjectsAt(depth - 1)[E]
    BY <2>2 DEF ObjectsWithin
  <2> HIDE DEF inner, S, E
  <2>5. inner[<<f, i>>] \in S[E] /\ Blank(inner[<<f, i>>])
    BY <2>2, <2>3, <2>4 DEF ClearCloses
  <2> QED
    BY <2>5 DEF E
<1> HIDE DEF inner, S
<1> QED
  BY <1>1, <1>2, <1>3, ClearedIsObject

\* MergeImpl leaves an object of this depth.
MergeCloses(depth) ==
    \A T \in DOMAIN Tables : \A to, from \in ObjectsAt(depth)[T] :
        MergedAt(depth, T, Both(to, from)) \in ObjectsAt(depth)[T]

LEMMA MergeClosesStep ==
    ASSUME NEW depth \in 0 .. 3, depth - 1 \in 0 .. 3 => MergeCloses(depth - 1)
    PROVE  MergeCloses(depth)
<1> SUFFICES ASSUME NEW T \in DOMAIN Tables, NEW to \in ObjectsAt(depth)[T], NEW from \in ObjectsAt(depth)[T]
             PROVE  MergedAt(depth, T, Both(to, from)) \in ObjectsAt(depth)[T]
  BY DEF MergeCloses
<1> DEFINE S == ObjectsWithin(depth)
           inner == MergedWithin(depth, T, Both(to, from))
<1>1. MergedAt(depth, T, Both(to, from)) = MergedLayer(T, Both(to, from), inner)
  BY MergedUnfolds
<1>2. ObjectsAt(depth)[T] = Objects(T, S)
  BY ObjectsUnfold
<1>3. ASSUME NEW f \in Nested(T), FieldTypes[T][f] \notin Repeated, to.val[f] # <<>>, from.val[f] # <<>>
      PROVE  inner[f] \in S[FieldTypes[T][f]]
  <2> DEFINE E == FieldTypes[T][f]
  <2>1. E = Element(FieldTypes[T][f])
    BY <1>3 DEF Element
  <2>2. 1 \in DOMAIN to.val[f] /\ 1 \in DOMAIN from.val[f]
    BY <1>2, <1>3, NestedValue
  <2>3. /\ depth \in 1 .. 3 /\ depth - 1 \in 0 .. 3 /\ E \in DOMAIN Tables
        /\ to.val[f][1] \in ObjectsAt(depth - 1)[E] /\ from.val[f][1] \in ObjectsAt(depth - 1)[E]
    BY <2>1, <2>2, PartFacts
  <2>4. inner[f] = MergedAt(depth - 1, E, Both(to.val[f][1], from.val[f][1]))
    BY <1>3, <2>3, MergedIn
  <2>5. S[E] = ObjectsAt(depth - 1)[E]
    BY <2>3 DEF ObjectsWithin
  <2> HIDE DEF inner, S, E
  <2>6. inner[f] \in S[E]
    BY <2>3, <2>4, <2>5 DEF MergeCloses
  <2> QED
    BY <2>6 DEF E
<1> HIDE DEF inner, S
<1> QED
  BY <1>1, <1>2, <1>3, MergedIsObject DEF Both

-----------------------------------------------------------------------------
(* Messages nest three deep at the most.                                    *)

\* How deep messages are within a message of the type.
DepthOf(T) ==
    IF T = "ForwardRequest" THEN 3 ELSE IF T = "QueryRequest" THEN 2
    ELSE IF T \in {"CombinedQuery", "ChunkResponse", "ForwardResponse"} THEN 1 ELSE 0

\* The types of fields without messages.
Flat == {"int32", "int64", "uint64", "bool", "double", "string"}

LEMMA FlatIsPlain ==
    ASSUME NEW type \in Flat
    PROVE  IsPlain(type)
<1>1. DOMAIN Tables =
        { "TimeRangeQuery", "NumericRangeQuery", "IntRangeQuery", "CombinedQuery", "QueryRequest",
          "TripRecordMsg", "ChunkResponse", "ChunkRequest", "ForwardRequest", "ForwardResponse",
          "BftMetadata", "CancelRequest", "CancelResponse", "StatusRequest", "StatusResponse",
          "HeartbeatRequest", "HeartbeatResponse" }
  BY DEF Tables
<1> QED
  BY <1>1 DEF Flat, IsPlain, Repeated

\* What is in a message is less deep than it is.
LEMMA DepthsAgree ==
    ASSUME NEW T \in DOMAIN Tables, NEW f \in Nested(T)
    PROVE  DepthOf(Element(FieldTypes[T][f])) < DepthOf(T)
<1>1. DOMAIN Tables =
        { "TimeRangeQuery", "NumericRangeQuery", "IntRangeQuery", "CombinedQuery", "QueryRequest",
          "TripRecordMsg", "ChunkResponse", "ChunkRequest", "ForwardRequest", "ForwardResponse",
          "BftMetadata", "CancelRequest", "CancelResponse", "StatusRequest", "StatusResponse",
          "HeartbeatRequest", "HeartbeatResponse" }
  BY DEF Tables
<1> DEFINE t == Tables[T].table
           type == FieldTypes[T][f]
<1>2. f \in Fields(T) /\ ~ IsPlain(type)
  BY DEF Nested, Fields
<1>3. PICK k \in DOMAIN t : type = t[k][3]
  <2>1. PICK k \in 1 .. LastNumber(T) : t[k][1] = f
    BY <1>2, FieldFacts
  <2> QED
    BY <2>1, FieldFacts
<1>4. type \notin Flat
  BY <1>2, FlatIsPlain
<1> HIDE DEF type
<1>5. CASE T = "ForwardRequest"
  <2>1. t = ForwardRequest_table
    BY <1>5 DEF Tables
  <2>2. type \in {"QueryRequest", "BftMetadata"}
    BY <1>3, <1>4, <2>1 DEF ForwardRequest_table, Flat
  <2> QED
    BY <1>5, <2>2 DEF DepthOf, Element, Repeated, type
<1>6. CASE T = "QueryRequest"
  <2>1. t = QueryRequest_table
    BY <1>6 DEF Tables
  <2>2. type \in {"TimeRangeQuery", "NumericRangeQuery", "IntRangeQuery", "CombinedQuery", "BftMetadata"}
    BY <1>3, <1>4, <2>1 DEF QueryRequest_table, Flat
  <2> QED
    BY <1>6, <2>2 DEF DepthOf, Element, Repeated, type
<1>7. CASE T = "CombinedQuery"
  <2>1. t = CombinedQuery_table
    BY <1>7 DEF Tables
  <2>2. type \in {"TimeRangeQuery", "NumericRangeQuery", "IntRangeQuery"}
    BY <1>3, <1>4, <2>1 DEF CombinedQuery_table, Flat
  <2> QED
    BY <1>7, <2>2 DEF DepthOf, Element, Repeated, type
<1>8. CASE T = "ChunkResponse"
  <2>1. t = ChunkResponse_table
    BY <1>8 DEF Tables
  <2>2. type \in {"RepeatedTripRecordMsg", "BftMetadata"}
    BY <1>3, <1>4, <2>1 DEF ChunkResponse_table, Flat
  <2> QED
    BY <1>8, <2>2 DEF DepthOf, Element, Repeated, type
<1>9. CASE T = "ForwardResponse"
  <2>1. t = ForwardResponse_table
    BY <1>9 DEF Tables
  <2>2. type \in {"RepeatedTripRecordMsg", "BftMetadata"}
    BY <1>3, <1>4, <2>1 DEF ForwardResponse_table, Flat
  <2> QED
    BY <1>9, <2>2 DEF DepthOf, Element, Repeated, type
<1>10. CASE T \in {"TimeRangeQuery", "NumericRangeQuery", "IntRangeQuery", "TripRecordMsg"}
  <2>1. t \in {TimeRangeQuery_table, NumericRangeQuery_table, IntRangeQuery_table, TripRecordMsg_table}
    BY <1>10 DEF Tables
  <2>2. type \in Flat
    BY <1>3, <2>1 DEF TimeRangeQuery_table, NumericRangeQuery_table, IntRangeQuery_table,
                      TripRecordMsg_table, Flat
  <2> QED
    BY <1>4, <2>2
<1>11. CASE T \in {"ChunkRequest", "BftMetadata", "CancelRequest", "CancelResponse"}
  <2>1. t \in {ChunkRequest_table, BftMetadata_table, CancelRequest_table, CancelResponse_table}
    BY <1>11 DEF Tables
  <2>2. type \in Flat
    BY <1>3, <2>1 DEF ChunkRequest_table, BftMetadata_table, CancelRequest_table,
                      CancelResponse_table, Flat
  <2> QED
    BY <1>4, <2>2
<1>12. CASE T \in {"StatusRequest", "StatusResponse", "HeartbeatRequest", "HeartbeatResponse"}
  <2>1. t \in {StatusRequest_table, StatusResponse_table, HeartbeatRequest_table, HeartbeatResponse_table}
    BY <1>12 DEF Tables
  <2>2. type \in Flat
    BY <1>3, <2>1 DEF StatusRequest_table, StatusResponse_table, HeartbeatRequest_table,
                      HeartbeatResponse_table, Flat
  <2> QED
    BY <1>4, <2>2
<1> QED
  BY <1>1, <1>5, <1>6, <1>7, <1>8, <1>9, <1>10, <1>11, <1>12

\* The accessors leave an object of this depth, of a type that is not deeper.
TouchCloses(depth) ==
    \A T \in DOMAIN Tables : \A o \in ObjectsAt(depth)[T] :
        DepthOf(T) <= depth => TouchedAt(depth, T, o) \subseteq ObjectsAt(depth)[T]

LEMMA TouchStep ==
    ASSUME NEW depth \in 0 .. 3, depth - 1 \in 0 .. 3 => TouchCloses(depth - 1)
    PROVE  TouchCloses(depth)
<1> SUFFICES ASSUME NEW T \in DOMAIN Tables, NEW o \in ObjectsAt(depth)[T], DepthOf(T) <= depth,
                    NEW touched \in TouchedAt(depth, T, o)
             PROVE  touched \in ObjectsAt(depth)[T]
  BY DEF TouchCloses
<1> DEFINE S == ObjectsWithin(depth)
           inner == TouchedWithin(depth, T, o)
<1>1. TouchedAt(depth, T, o) = TouchedLayer(T, o, inner)
  BY TouchedUnfolds
<1>2. ObjectsAt(depth)[T] = Objects(T, S)
  BY ObjectsUnfold
<1>3. ASSUME NEW f \in Nested(T)
      PROVE  /\ Mutable(T, o)[f].of \in S[Element(FieldTypes[T][f])]
             /\ inner[f] \subseteq S[Element(FieldTypes[T][f])]
  <2> DEFINE E == Element(FieldTypes[T][f])
  <2>1. E \in DOMAIN Tables
    BY <1>2, NestedValue
  <2>2. DepthOf(E) < DepthOf(T) /\ DepthOf(E) \in Nat /\ DepthOf(T) \in Nat
    <3>1. DepthOf(E) < DepthOf(T)
      BY DepthsAgree
    <3>2. \A U : DepthOf(U) \in Nat
      BY DEF DepthOf
    <3> QED
      BY <3>1, <3>2
  <2>3. depth \in 1 .. 3 /\ depth - 1 \in 0 .. 3 /\ DepthOf(E) <= depth - 1
    <3> HIDE DEF E
    <3> QED
      BY <2>2
  <2>4. S[E] = ObjectsAt(depth - 1)[E]
    BY <2>3 DEF ObjectsWithin
  <2>5. inner[f] = TouchedAt(depth - 1, E, Mutable(T, o)[f].of) /\ Mutable(T, o)[f].of = Receiver(T, o, f)
    BY <2>3, TouchedIn
  <2>6. Receiver(T, o, f) \in ObjectsAt(depth - 1)[E]
    BY <2>3, ReceiverIsObject
  <2> HIDE DEF inner, S, E
  <2>7. TouchedAt(depth - 1, E, Receiver(T, o, f)) \subseteq ObjectsAt(depth - 1)[E]
    BY <2>1, <2>3, <2>6 DEF TouchCloses
  <2>8. Mutable(T, o)[f].of \in S[E] /\ inner[f] \subseteq S[E]
    BY <2>4, <2>5, <2>6, <2>7
  <2> QED
    BY <2>8 DEF E
<1> HIDE DEF inner, S
<1> QED
  BY <1>1, <1>2, <1>3, TouchedIsObject

\* From depth to depth up to the greatest.
LEMMA EveryDepth ==
    /\ RoundTripAt(3) /\ MergeAt(3) /\ SizesAt(3)
    /\ ClearCloses(3) /\ MergeCloses(3) /\ TouchCloses(3)
<1> DEFINE Holds(depth) ==
             /\ RoundTripAt(depth) /\ MergeAt(depth) /\ SizesAt(depth)
             /\ ClearCloses(depth) /\ MergeCloses(depth) /\ TouchCloses(depth)
<1>1. ASSUME NEW depth \in 0 .. 3, depth - 1 \in 0 .. 3 => Holds(depth - 1)
      PROVE  Holds(depth)
  <2>1. RoundTripAt(depth)
    BY <1>1, RoundTripStep
  <2>2. MergeAt(depth)
    BY <1>1, MergeStep
  <2>3. SizesAt(depth)
    BY <1>1, SizesStep
  <2>4. ClearCloses(depth)
    BY <1>1, ClearStep
  <2>5. MergeCloses(depth)
    BY <1>1, MergeClosesStep
  <2>6. TouchCloses(depth)
    BY <1>1, TouchStep
  <2> QED
    BY <2>1, <2>2, <2>3, <2>4, <2>5, <2>6
<1> HIDE DEF Holds
<1>2. Holds(0)
  BY <1>1
<1>3. Holds(1)
  BY <1>1, <1>2
<1>4. Holds(2)
  BY <1>1, <1>3
<1>5. Holds(3)
  BY <1>1, <1>4
<1> QED
  BY <1>5 DEF Holds

\* The functions of the model are those of the greatest depth.
LEMMA AtTheTop ==
    ASSUME NEW T, NEW o, NEW x
    PROVE  /\ Serialized(T, o) = SerializedAt(3, T, o)
           /\ Visible(T, o) = VisibleAt(3, T, o)
           /\ ByteSize(T, o) = SizeAt(3, T, o)
           /\ Cleared(T, o) = ClearedAt(3, T, o)
           /\ Touched(T, o) = TouchedAt(3, T, o)
           /\ WireSize(T, x) = WireSizeAt(3, T, x)
           /\ Parsed(T, o, x) = ParsedAt(3, T, Input(o, x))
           /\ Merged(T, o, x) = MergedAt(3, T, Both(o, x))
<1>1. Serialized(T, o) = SerializedAt(3, T, o)
  BY DEF Serialized, Serialized3, SerializedAt
<1>2. Visible(T, o) = VisibleAt(3, T, o)
  BY DEF Visible, Visible3, VisibleAt
<1>3. ByteSize(T, o) = SizeAt(3, T, o)
  BY DEF ByteSize, Size3, SizeAt
<1>4. Cleared(T, o) = ClearedAt(3, T, o)
  BY DEF Cleared, Cleared3, ClearedAt
<1>5. Touched(T, o) = TouchedAt(3, T, o)
  BY DEF Touched, Touched3, TouchedAt
<1>6. WireSize(T, x) = WireSizeAt(3, T, x)
  BY DEF WireSize, WireSize3, WireSizeAt
<1>7. Parsed(T, o, x) = ParsedAt(3, T, Input(o, x))
  BY DEF Parsed, Parsed3, ParsedAt, Input
<1>8. Merged(T, o, x) = MergedAt(3, T, Both(o, x))
  BY DEF Merged, Merged3, MergedAt, Both
<1> QED
  BY <1>1, <1>2, <1>3, <1>4, <1>5, <1>6, <1>7, <1>8

-----------------------------------------------------------------------------
(* The two objects.                                                         *)

MessagesInvariant == kind \in Kinds /\ left \in Objects3[kind] /\ right \in Objects3[kind]

\* Whatever calls of the generated functions are made, in whatever order, the two
\* objects keep what the generated code relies on: a member that is not empty has its
\* has-bit, at every depth, and a message without its has-bit is a cleared one.
THEOREM MessagesInvariantHolds == MessagesSpec => []MessagesInvariant
<1>1. \A T : ObjectsAt(3)[T] = Objects3[T]
  BY DEF ObjectsAt
<1>2. kind \in Kinds => kind \in DOMAIN Tables
  BY KindsAssumption
<1>3. MessagesInit => MessagesInvariant
  <2> SUFFICES ASSUME MessagesInit PROVE MessagesInvariant
    OBVIOUS
  <2>1. kind \in Kinds /\ left = New(kind) /\ right = New(kind)
    BY DEF MessagesInit
  <2>2. New(kind) \in ObjectsAt(3)[kind]
    BY <1>2, <2>1, NewAt
  <2> QED
    BY <1>1, <2>1, <2>2 DEF MessagesInvariant
<1>4. MessagesInvariant /\ [MessagesNext]_messageVars => MessagesInvariant'
  <2> SUFFICES ASSUME MessagesInvariant, [MessagesNext]_messageVars
               PROVE  MessagesInvariant'
    OBVIOUS
  <2>1. /\ kind \in DOMAIN Tables /\ kind \in Kinds
        /\ left \in ObjectsAt(3)[kind] /\ right \in ObjectsAt(3)[kind]
    BY <1>1, <1>2 DEF MessagesInvariant
  <2>2. DepthOf(kind) <= 3
    BY DEF DepthOf
  <2>3. ASSUME NEW o \in ObjectsAt(3)[kind]
        PROVE  Touched(kind, o) \subseteq ObjectsAt(3)[kind]
    <3>1. TouchedAt(3, kind, o) \subseteq ObjectsAt(3)[kind]
      BY <2>1, <2>2, EveryDepth DEF TouchCloses
    <3> QED
      BY <3>1, AtTheTop
  <2>4. ASSUME NEW o \in ObjectsAt(3)[kind]
        PROVE  Cleared(kind, o) \in ObjectsAt(3)[kind]
    <3>1. ClearedAt(3, kind, o) \in ObjectsAt(3)[kind]
      BY <2>1, EveryDepth DEF ClearCloses
    <3> QED
      BY <3>1, AtTheTop
  <2>5. ASSUME NEW to \in ObjectsAt(3)[kind], NEW from \in ObjectsAt(3)[kind]
        PROVE  Merged(kind, to, from) \in ObjectsAt(3)[kind]
    <3>1. MergedAt(3, kind, Both(to, from)) \in ObjectsAt(3)[kind]
      BY <2>1, EveryDepth DEF MergeCloses
    <3> QED
      BY <3>1, AtTheTop
  <2>6. /\ kind' = kind
        /\ left' \in ObjectsAt(3)[kind] /\ right' \in ObjectsAt(3)[kind]
    <3>1. CASE TouchLeft
      BY <2>1, <2>3, <3>1 DEF TouchLeft, Call
    <3>2. CASE TouchRight
      BY <2>1, <2>3, <3>2 DEF TouchRight, Call
    <3>3. CASE ClearLeft
      BY <2>1, <2>4, <3>3 DEF ClearLeft, Call
    <3>4. CASE MergeRight
      BY <2>1, <2>5, <3>4 DEF MergeRight, Call
    <3>5. CASE CopyRight
      BY <2>1, <2>4, <2>5, <3>5 DEF CopyRight, CopyFrom, Call
    <3>6. CASE UNCHANGED messageVars
      BY <2>1, <3>6 DEF messageVars
    <3> QED
      BY <3>1, <3>2, <3>3, <3>4, <3>5, <3>6 DEF MessagesNext
  <2> QED
    BY <1>1, <2>1, <2>6 DEF MessagesInvariant
<1> QED
  BY <1>3, <1>4, PTL DEF MessagesSpec

\* What the invariant says of the objects, by depth.
LEMMA BothAreObjects ==
    ASSUME MessagesInvariant
    PROVE  /\ kind \in DOMAIN Tables
           /\ left \in ObjectsAt(3)[kind] /\ right \in ObjectsAt(3)[kind]
  BY KindsAssumption DEF MessagesInvariant, ObjectsAt

\* A message of any type, whatever calls made it what it is, arrives: what the getters
\* of the receiving object return after a parse, into an object that was used before
\* and cleared, is what the getters of the object that was sent return.
THEOREM RoundTripCorrect == MessagesSpec => []RoundTrip
<1>1. MessagesInvariant => RoundTrip
  <2> SUFFICES ASSUME MessagesInvariant PROVE RoundTrip
    OBVIOUS
  <2>1. ClearedAt(3, kind, right) \in ObjectsAt(3)[kind] /\ Blank(ClearedAt(3, kind, right))
    BY BothAreObjects, EveryDepth DEF ClearCloses
  <2>2. VisibleAt(3, kind, ParsedAt(3, kind,
            Input(ClearedAt(3, kind, right), SerializedAt(3, kind, left)))) = VisibleAt(3, kind, left)
    BY <2>1, BothAreObjects, EveryDepth DEF RoundTripAt
  <2> QED
    BY <2>2, AtTheTop DEF RoundTrip
<1> QED
  BY <1>1, MessagesInvariantHolds, PTL

\* The size that ByteSizeLong computes, and that is written as the length of a message
\* within another, is the number of bytes that _InternalSerialize then writes.
THEOREM SizesCorrect == MessagesSpec => []SizeMatches
<1>1. MessagesInvariant => SizeMatches
  <2> SUFFICES ASSUME MessagesInvariant PROVE SizeMatches
    OBVIOUS
  <2>1. WireSizeAt(3, kind, SerializedAt(3, kind, left)) = SizeAt(3, kind, left)
    BY BothAreObjects, EveryDepth DEF SizesAt
  <2> QED
    BY <2>1, AtTheTop DEF SizeMatches
<1> QED
  BY <1>1, MessagesInvariantHolds, PTL

\* MergeImpl leaves the receiving object to its getters as a parse of the other
\* object's bytes into it would.
THEOREM MergeParsesCorrect == MessagesSpec => []ParseMerges
<1>1. MessagesInvariant => ParseMerges
  <2> SUFFICES ASSUME MessagesInvariant PROVE ParseMerges
    OBVIOUS
  <2>1. VisibleAt(3, kind, MergedAt(3, kind, Both(right, left))) =
          VisibleAt(3, kind, ParsedAt(3, kind, Input(right, SerializedAt(3, kind, left))))
    BY BothAreObjects, EveryDepth DEF MergeAt
  <2> QED
    BY <2>1, AtTheTop DEF ParseMerges
<1> QED
  BY <1>1, MessagesInvariantHolds, PTL
===============================================================================
