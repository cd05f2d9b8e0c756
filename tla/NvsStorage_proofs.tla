------------------------- MODULE NvsStorage_proofs --------------------------
(***************************************************************************)
(* Proofs about NvsStorage, for every partition, page and value size.      *)
(***************************************************************************)
EXTENDS NvsStorage, SequenceTheorems, FiniteSetTheorems, TLAPS

-----------------------------------------------------------------------------
(* Sets of numbers and sequences.                                          *)

(* Induction comes down to this: a set of numbers has a least one.         *)
LEMMA Least ==
    ASSUME NEW S \in SUBSET Nat, S # {}
    PROVE  \E n \in S : \A m \in S : n <= m
<1> DEFINE R == {r \in Nat \X Nat : r[1] < r[2]}
<1>1. R = OpToRel(<, Nat)
  BY DEF OpToRel
<1>2. IsWellFoundedOn(R, Nat)
  BY <1>1, NatLessThanWellFounded
<1>3. \E n \in S : \A m \in S : ~ (<<m, n>> \in R)
  <2> HIDE DEF R
  <2> QED BY <1>2, WFMin
<1>4. PICK n \in S : \A m \in S : ~ (<<m, n>> \in R)
  BY <1>3
<1>5. \A m \in S : n <= m
  <2> TAKE m \in S
  <2>1. <<m, n>> \notin R
    BY <1>4
  <2> QED BY <2>1
<1> QED BY <1>4, <1>5

(* The least member is what Min chooses.                                   *)
LEMMA MinIsLeast ==
    ASSUME NEW S \in SUBSET Nat, S # {}
    PROVE  Min(S) \in S /\ \A m \in S : Min(S) <= m
BY Least DEF Min

(* A set of numbers up to a bound has a greatest one, which Max chooses.   *)
LEMMA MaxIsGreatest ==
    ASSUME NEW b \in Nat, NEW S, S # {}, \A s \in S : s \in Nat /\ s <= b
    PROVE  Max(S) \in S /\ \A m \in S : m <= Max(S)
<1> DEFINE D == {d \in Nat : \E s \in S : d = b - s}
<1>1. D # {}
  <2>1. PICK s \in S : TRUE
    OBVIOUS
  <2>2. b - s \in Nat
    BY <2>1
  <2>3. b - s \in D
    BY <2>1, <2>2
  <2> QED BY <2>3
<1>2. PICK d \in D : \A e \in D : d <= e
  <2>1. D \in SUBSET Nat
    OBVIOUS
  <2> HIDE DEF D
  <2> QED BY <1>1, <2>1, Least
<1>3. PICK n \in S : d = b - n
  BY <1>2
<1>4. \A m \in S : m <= n
  <2> TAKE m \in S
  <2>1. b - m \in D
    OBVIOUS
  <2>2. d <= b - m
    BY <1>2, <2>1
  <2> QED BY <1>3, <2>2
<1> QED BY <1>4 DEF Max

(* Concatenating sequences one after the other can be done step by step.   *)
Joined(f, ss, n) ==
    /\ f[1] = ss[1]
    /\ \A i \in 2 .. n : f[i] = f[i - 1] \o ss[i]

(* There is a sequence of partial concatenations, of any length.           *)
LEMMA JoinedExists ==
    ASSUME NEW S, NEW ss, NEW L \in Nat, ss \in [1 .. L -> Seq(S)]
    PROVE  \A n \in 1 .. L : \E f \in [1 .. n -> Seq(S)] : Joined(f, ss, n)
<1> DEFINE Bad == {n \in 1 .. L : ~ \E f \in [1 .. n -> Seq(S)] : Joined(f, ss, n)}
<1>1. SUFFICES ASSUME Bad # {} PROVE FALSE
  OBVIOUS
<1>2. PICK m \in Bad : \A n \in Bad : m <= n
  <2>1. Bad \in SUBSET Nat
    <3> HIDE DEF Joined
    <3> QED OBVIOUS
  <2> HIDE DEF Bad
  <2> QED BY <1>1, <2>1, Least
<1>3. m \in 1 .. L /\ ~ \E f \in [1 .. m -> Seq(S)] : Joined(f, ss, m)
  BY <1>2
<1>4. CASE m = 1
  <2> DEFINE g == [i \in 1 .. 1 |-> ss[1]]
  <2>1. g \in [1 .. 1 -> Seq(S)] /\ Joined(g, ss, 1)
    BY <1>3 DEF Joined
  <2> QED BY <1>3, <1>4, <2>1
<1>5. CASE m # 1
  <2>1. m - 1 \in 1 .. L /\ m - 1 \notin Bad
    BY <1>2, <1>3, <1>5
  <2>2. PICK f \in [1 .. m - 1 -> Seq(S)] : Joined(f, ss, m - 1)
    BY <2>1
  <2> DEFINE g == [i \in 1 .. m |-> IF i = m THEN f[m - 1] \o ss[m] ELSE f[i]]
  <2>3. f[m - 1] \o ss[m] \in Seq(S)
    <3>1. f[m - 1] \in Seq(S) /\ ss[m] \in Seq(S)
      BY <1>3, <2>1, <2>2
    <3> QED BY <3>1, ConcatProperties
  <2>4. g \in [1 .. m -> Seq(S)]
    <3>1. ASSUME NEW i \in 1 .. m, i # m PROVE f[i] \in Seq(S)
      <4>1. i \in 1 .. m - 1
        BY <1>3, <3>1
      <4> QED BY <2>2, <4>1
    <3> QED BY <2>3, <3>1
  <2>5. g[1] = ss[1]
    BY <1>3, <1>5, <2>2 DEF Joined
  <2>6. ASSUME NEW i \in 2 .. m PROVE g[i] = g[i - 1] \o ss[i]
    <3>1. CASE i = m
      <4>1. m \in 1 .. m /\ m - 1 \in 1 .. m /\ m - 1 # m
        BY <1>3, <1>5
      <4>2. g[m] = f[m - 1] \o ss[m] /\ g[m - 1] = f[m - 1]
        BY <4>1
      <4> HIDE DEF g
      <4> QED BY <3>1, <4>2
    <3>2. CASE i # m
      <4>1. i \in 2 .. m - 1 /\ i \in 1 .. m /\ i - 1 \in 1 .. m /\ i - 1 # m
        BY <1>3, <3>2
      <4>2. g[i] = f[i] /\ g[i - 1] = f[i - 1]
        BY <3>2, <4>1
      <4>3. f[i] = f[i - 1] \o ss[i]
        BY <2>2, <4>1 DEF Joined
      <4> HIDE DEF g
      <4> QED BY <4>2, <4>3
    <3> QED BY <3>1, <3>2
  <2>7. Joined(g, ss, m)
    <3> HIDE DEF g
    <3> QED BY <2>5, <2>6 DEF Joined
  <2> QED BY <1>3, <2>4, <2>7
<1> QED BY <1>4, <1>5

(* Two such sequences are the same.                                        *)
LEMMA JoinedUnique ==
    ASSUME NEW ss, NEW L \in Nat, NEW f, NEW g, Joined(f, ss, L), Joined(g, ss, L)
    PROVE  \A n \in 1 .. L : f[n] = g[n]
<1> DEFINE Bad == {n \in 1 .. L : f[n] # g[n]}
<1>1. SUFFICES ASSUME Bad # {} PROVE FALSE
  OBVIOUS
<1>2. PICK m \in Bad : \A n \in Bad : m <= n
  <2>1. Bad \in SUBSET Nat
    OBVIOUS
  <2> HIDE DEF Bad
  <2> QED BY <1>1, <2>1, Least
<1>3. m \in 1 .. L /\ f[m] # g[m]
  BY <1>2
<1>4. m # 1
  BY <1>3 DEF Joined
<1>5. m - 1 \in 1 .. L /\ m - 1 \notin Bad /\ m \in 2 .. L
  BY <1>2, <1>3, <1>4
<1>6. f[m - 1] = g[m - 1]
  BY <1>5
<1> QED BY <1>3, <1>5, <1>6 DEF Joined

(* FlattenSeq returns the last of the partial concatenations.              *)
LEMMA FlattenSteps ==
    ASSUME NEW S, NEW L \in Nat, L # 0, NEW ss \in [1 .. L -> Seq(S)]
    PROVE  \E f \in [1 .. L -> Seq(S)] : Joined(f, ss, L) /\ FlattenSeq(ss) = f[L]
<1> DEFINE Step(g) == [i \in 1 .. L |-> IF i = 1 THEN ss[i] ELSE g[i - 1] \o ss[i]]
           F == CHOOSE g : g = Step(g)
<1>1. PICK f \in [1 .. L -> Seq(S)] : Joined(f, ss, L)
  <2>1. L \in 1 .. L
    OBVIOUS
  <2> QED BY <2>1, JoinedExists
<1>2. f = Step(f)
  <2>1. ASSUME NEW i \in 1 .. L, i # 1 PROVE f[i] = f[i - 1] \o ss[i]
    <3>1. i \in 2 .. L
      BY <2>1
    <3> QED BY <1>1, <3>1 DEF Joined
  <2>2. f[1] = ss[1]
    BY <1>1 DEF Joined
  <2>3. \A i \in 1 .. L : f[i] = IF i = 1 THEN ss[i] ELSE f[i - 1] \o ss[i]
    BY <2>1, <2>2
  <2> QED BY <1>1, <2>3
<1>3. F = Step(F)
  <2> HIDE DEF Step
  <2> QED BY <1>2
<1>4. Len(ss) = L
  OBVIOUS
<1>5. FlattenSeq(ss) = F[L]
  BY <1>4 DEF FlattenSeq
<1>6. Joined(F, ss, L)
  <2> HIDE DEF F
  <2>1. \A i \in 1 .. L : F[i] = IF i = 1 THEN ss[i] ELSE F[i - 1] \o ss[i]
    BY <1>3
  <2>2. ASSUME NEW i \in 2 .. L PROVE F[i] = F[i - 1] \o ss[i]
    <3>1. i \in 1 .. L /\ i # 1
      OBVIOUS
    <3> QED BY <2>1, <3>1
  <2>3. F[1] = ss[1]
    BY <2>1
  <2> HIDE DEF Step
  <2> QED BY <2>2, <2>3 DEF Joined
<1>7. F[L] = f[L]
  <2> HIDE DEF F
  <2>1. L \in 1 .. L
    OBVIOUS
  <2> QED BY <1>1, <1>6, <2>1, JoinedUnique
<1> HIDE DEF F
<1> QED BY <1>1, <1>5, <1>7

(* What is concatenated from sequences over S is one.                      *)
LEMMA FlattenType ==
    ASSUME NEW S, NEW L \in Nat, NEW ss \in [1 .. L -> Seq(S)]
    PROVE  FlattenSeq(ss) \in Seq(S)
<1>1. CASE L = 0
  <2>1. ss = <<>> /\ Len(ss) = 0
    BY <1>1
  <2> QED BY <2>1, EmptySeq DEF FlattenSeq
<1>2. CASE L # 0
  <2>1. PICK f \in [1 .. L -> Seq(S)] : FlattenSeq(ss) = f[L]
    BY <1>2, FlattenSteps
  <2>2. L \in 1 .. L
    BY <1>2
  <2> QED BY <2>1, <2>2
<1> QED BY <1>1, <1>2

-----------------------------------------------------------------------------
(* The lists of pages.                                                     *)
Injective(s) == \A i, j \in 1 .. Len(s) : s[i] = s[j] => i = j

(* The elements of a list, and its first and last.                         *)
LEMMA RangeMembers ==
    ASSUME NEW S, NEW s \in Seq(S)
    PROVE  /\ Range(s) \in SUBSET S
           /\ s # <<>> => Head(s) \in Range(s) /\ Last(s) \in Range(s)
           /\ s = <<>> <=> Range(s) = {}
<1>1. Range(s) = {s[i] : i \in 1 .. Len(s)}
  BY RangeEquality, Zenon
<1>2. \A i \in 1 .. Len(s) : s[i] \in S
  OBVIOUS
<1>3. s # <<>> => Head(s) = s[1] /\ 1 \in 1 .. Len(s) /\ Len(s) \in 1 .. Len(s)
  BY EmptySeq
<1>4. s # <<>> => Head(s) \in Range(s) /\ Last(s) \in Range(s)
  BY <1>1, <1>3 DEF Last
<1>5. s = <<>> => Range(s) = {}
  BY <1>1
<1>6. Range(s) \in SUBSET S
  BY <1>1, <1>2
<1> HIDE <1>1, <1>2, <1>3
<1>7. s = <<>> <=> Range(s) = {}
  BY <1>4, <1>5
<1> QED BY <1>4, <1>6, <1>7

(* A page added at the end of a list that does not have it.                *)
LEMMA AppendRange ==
    ASSUME NEW S, NEW s \in Seq(S), NEW x \in S
    PROVE  /\ Append(s, x) \in Seq(S)
           /\ Range(Append(s, x)) = Range(s) \cup {x}
           /\ Last(Append(s, x)) = x
           /\ Append(s, x) # <<>>
           /\ Injective(s) /\ x \notin Range(s) => Injective(Append(s, x))
<1> DEFINE t == Append(s, x)
<1>1. t \in Seq(S) /\ Len(s) \in Nat /\ Len(t) = Len(s) + 1
  OBVIOUS
<1>2. \A i \in 1 .. Len(s) : t[i] = s[i]
  OBVIOUS
<1>3. t[Len(t)] = x
  OBVIOUS
<1> HIDE DEF t
<1>4. /\ \A i \in 1 .. Len(t) : i = Len(t) \/ i \in 1 .. Len(s)
      /\ \A i \in 1 .. Len(s) : i \in 1 .. Len(t)
      /\ Len(t) \in 1 .. Len(t)
  BY <1>1
<1>5. Range(s) = {s[i] : i \in 1 .. Len(s)} /\ Range(t) = {t[i] : i \in 1 .. Len(t)}
  BY <1>1, RangeEquality, Zenon
<1>6. Range(t) = Range(s) \cup {x}
  BY <1>2, <1>3, <1>4, <1>5
<1>7. ASSUME Injective(s), x \notin Range(s), NEW i \in 1 .. Len(t), NEW j \in 1 .. Len(t),
             t[i] = t[j]
      PROVE  i = j
  <2>1. \A k \in 1 .. Len(s) : s[k] # x
    BY <1>5, <1>7
  <2>2. CASE i = Len(t) \/ j = Len(t)
    BY <1>2, <1>3, <1>4, <1>7, <2>1, <2>2
  <2>3. CASE i \in 1 .. Len(s) /\ j \in 1 .. Len(s)
    BY <1>2, <1>7, <2>3 DEF Injective
  <2> QED BY <1>4, <2>2, <2>3
<1>8. t # <<>>
  BY <1>1
<1> QED BY <1>1, <1>3, <1>6, <1>7, <1>8 DEF Injective, Last, t

(* The first page taken off a list.                                        *)
LEMMA TailRange ==
    ASSUME NEW S, NEW s \in Seq(S), s # <<>>, Injective(s)
    PROVE  /\ Tail(s) \in Seq(S) /\ Injective(Tail(s))
           /\ Range(Tail(s)) = Range(s) \ {Head(s)}
<1> DEFINE t == Tail(s)
<1>1. t \in Seq(S) /\ Len(s) \in Nat \ {0} /\ Len(t) = Len(s) - 1
      /\ \A i \in 1 .. Len(t) : t[i] = s[i + 1]
  BY HeadTailProperties, EmptySeq
<1>2. Head(s) = s[1]
  OBVIOUS
<1> HIDE DEF t
<1>3. \A i \in 1 .. Len(t) : i + 1 \in 1 .. Len(s) /\ i + 1 # 1
  BY <1>1
<1>4. \A i \in 1 .. Len(s) : i = 1 \/ (i - 1 \in 1 .. Len(t) /\ (i - 1) + 1 = i)
  BY <1>1
<1>5. 1 \in 1 .. Len(s)
  BY <1>1
<1>6. ASSUME NEW i \in 1 .. Len(t), NEW j \in 1 .. Len(t), t[i] = t[j] PROVE i = j
  <2>1. i + 1 = j + 1
    BY <1>1, <1>3, <1>6 DEF Injective
  <2> QED BY <1>1, <2>1
<1>7. Range(s) = {s[i] : i \in 1 .. Len(s)} /\ Range(t) = {t[i] : i \in 1 .. Len(t)}
  BY <1>1, RangeEquality, Zenon
<1>8. \A i \in 1 .. Len(t) : t[i] \in Range(s) /\ t[i] # s[1]
  BY <1>1, <1>3, <1>5, <1>7 DEF Injective
<1>9. \A i \in 1 .. Len(s) : s[i] # s[1] => s[i] \in Range(t)
  <2> TAKE i \in 1 .. Len(s)
  <2> HAVE s[i] # s[1]
  <2>1. i - 1 \in 1 .. Len(t) /\ (i - 1) + 1 = i
    BY <1>4
  <2>2. t[i - 1] = s[i]
    BY <1>1, <2>1
  <2> QED BY <1>7, <2>1, <2>2
<1>10. Range(t) = Range(s) \ {s[1]}
  BY <1>7, <1>8, <1>9
<1> QED BY <1>1, <1>2, <1>6, <1>10 DEF Injective, t

(* The index SelectInSeq finds, where an element is in T.                  *)
LEMMA SelectedIndex ==
    ASSUME NEW S, NEW s \in Seq(S), NEW T, Range(s) \cap T # {}
    PROVE  /\ SelectInSeq(s, LAMBDA p : p \in T) \in 1 .. Len(s)
           /\ s[SelectInSeq(s, LAMBDA p : p \in T)] \in T
<1> DEFINE I == {i \in 1 .. Len(s) : s[i] \in T}
<1>1. Range(s) = {s[i] : i \in 1 .. Len(s)}
  BY RangeEquality
<1>2. I # {} /\ I \in SUBSET Nat
  BY <1>1
<1>3. Min(I) \in I
  <2> HIDE DEF I
  <2> QED BY <1>2, MinIsLeast
<1>4. SelectInSeq(s, LAMBDA p : p \in T) = Min(I)
  BY <1>2 DEF SelectInSeq
<1> QED BY <1>3, <1>4

(* The first page of a kind is a page of that kind, where there is one.    *)
LEMMA FirstIsThere ==
    ASSUME NEW S, NEW s \in Seq(S), NEW T, Range(s) \cap T # {}
    PROVE  First(s, T) \in T /\ First(s, T) \in Range(s)
<1>1. Range(s) = {s[i] : i \in 1 .. Len(s)}
  BY RangeEquality
<1> QED BY <1>1, SelectedIndex DEF First

(* Taking a page out of a list where it is once.                           *)
LEMMA WithoutRange ==
    ASSUME NEW S, NEW s \in Seq(S), Injective(s), NEW p
    PROVE  /\ Without(s, p) \in Seq(S) /\ Injective(Without(s, p))
           /\ Range(Without(s, p)) = Range(s) \ {p}
           /\ s # <<>> /\ Last(s) # p => Last(Without(s, p)) = Last(s)
           /\ p \notin Range(s) => Without(s, p) = s
<1>1. Range(s) = {s[i] : i \in 1 .. Len(s)}
  BY RangeEquality
<1>2. CASE p \notin Range(s)
  <2>1. Without(s, p) = s
    BY <1>1, <1>2 DEF Without, RemoveFirst
  <2> QED BY <1>2, <2>1
<1>3. CASE p \in Range(s)
  <2> DEFINE I == {i \in 1 .. Len(s) : s[i] = p}
             k == Min(I)
             t == Without(s, p)
  <2>1. I # {} /\ I \in SUBSET Nat
    BY <1>1, <1>3
  <2>2. k \in 1 .. Len(s) /\ s[k] = p
    <3>1. Min(I) \in I
      <4> HIDE DEF I
      <4> QED BY <2>1, MinIsLeast
    <3> QED BY <3>1
  <2>3. t = SubSeq(s, 1, k - 1) \o SubSeq(s, k + 1, Len(s))
    <3>1. SelectInSeq(s, LAMBDA v : v = p) = k
      BY <2>1 DEF SelectInSeq
    <3>2. \E i \in 1 .. Len(s) : s[i] = p
      BY <2>2
    <3> QED BY <3>1, <3>2 DEF Without, RemoveFirst, RemoveAt
  <2> HIDE DEF k, t
  <2>4. Len(s) \in Nat /\ k \in Int
    BY <2>2
  <2> DEFINE a == SubSeq(s, 1, k - 1)
             b == SubSeq(s, k + 1, Len(s))
  <2>5. a \in Seq(S) /\ Len(a) = k - 1 /\ \A i \in 1 .. k - 1 : a[i] = s[i]
    <3>1. \A i \in 1 .. k - 1 : s[i] \in S
      BY <2>2
    <3> QED BY <2>2, <2>4, <3>1, SubSeqProperties
  <2>6. b \in Seq(S) /\ Len(b) = Len(s) - k /\ \A i \in 1 .. Len(s) - k : b[i] = s[i + k]
    <3>1. \A i \in k + 1 .. Len(s) : s[i] \in S
      BY <2>2
    <3> QED BY <2>2, <2>4, <3>1, SubSeqProperties
  <2> HIDE DEF a, b
  <2>7. t = a \o b
    BY <2>3 DEF a, b
  <2>8. /\ t \in Seq(S) /\ Len(t) = Len(s) - 1
        /\ \A i \in 1 .. Len(t) : t[i] = IF i < k THEN s[i] ELSE s[i + 1]
    <3>1. /\ t \in Seq(S) /\ Len(t) = Len(s) - 1
          /\ \A i \in 1 .. Len(t) : t[i] = IF i <= k - 1 THEN a[i] ELSE b[i - (k - 1)]
      <4>1. /\ t \in Seq(S) /\ Len(t) = Len(a) + Len(b)
            /\ \A i \in 1 .. Len(a) + Len(b) : t[i] = IF i <= Len(a) THEN a[i] ELSE b[i - Len(a)]
        BY <2>5, <2>6, <2>7, ConcatProperties
      <4>2. Len(a) + Len(b) = Len(s) - 1
        BY <2>2, <2>4, <2>5, <2>6
      <4> QED BY <2>5, <4>1, <4>2
    <3>2. ASSUME NEW i \in 1 .. Len(t) PROVE t[i] = IF i < k THEN s[i] ELSE s[i + 1]
      <4>1. CASE i < k
        <5>1. i \in 1 .. k - 1 /\ i <= k - 1
          BY <2>2, <4>1
        <5> QED BY <2>5, <3>1, <4>1, <5>1
      <4>2. CASE ~ (i < k)
        <5>1. i - (k - 1) \in 1 .. Len(s) - k /\ (i - (k - 1)) + k = i + 1 /\ ~ (i <= k - 1)
          BY <2>2, <3>1, <4>2
        <5>2. t[i] = b[i - (k - 1)]
          BY <3>1, <5>1
        <5>3. b[i - (k - 1)] = s[i + 1]
          BY <2>6, <5>1
        <5> QED BY <4>2, <5>2, <5>3
      <4> QED BY <4>1, <4>2
    <3> QED BY <3>1, <3>2
  <2> HIDE <2>7
  <2> DEFINE at(i) == IF i < k THEN i ELSE i + 1
  <2>9. \A i \in 1 .. Len(t) : at(i) \in 1 .. Len(s) /\ at(i) # k /\ t[i] = s[at(i)]
    BY <2>2, <2>4, <2>8
  <2>10. Range(t) = Range(s) \ {p}
    <3>1. Range(t) = {t[i] : i \in 1 .. Len(t)}
      BY <2>8, RangeEquality
    <3>2. \A i \in 1 .. Len(t) : t[i] \in Range(s) /\ t[i] # p
      <4> HIDE DEF at
      <4> QED BY <1>1, <2>2, <2>9 DEF Injective
    <3>3. \A i \in 1 .. Len(s) : s[i] # p => s[i] \in Range(t)
      <4> TAKE i \in 1 .. Len(s)
      <4> HAVE s[i] # p
      <4>1. CASE i < k
        <5>1. i \in 1 .. Len(t)
          BY <2>2, <2>8, <4>1
        <5>2. t[i] = s[i]
          BY <2>8, <4>1, <5>1
        <5> QED BY <3>1, <5>1, <5>2
      <4>2. CASE i > k
        <5>1. i - 1 \in 1 .. Len(t) /\ ~ (i - 1 < k) /\ (i - 1) + 1 = i
          BY <2>2, <2>8, <4>2
        <5>2. t[i - 1] = s[i]
          BY <2>8, <5>1
        <5> QED BY <3>1, <5>1, <5>2
      <4>3. i # k
        BY <2>2
      <4> QED BY <2>4, <4>1, <4>2, <4>3
    <3> QED BY <1>1, <3>1, <3>2, <3>3
  <2>11. Injective(t)
    <3>1. ASSUME NEW i \in 1 .. Len(t), NEW j \in 1 .. Len(t), t[i] = t[j] PROVE i = j
      <4>1. at(i) = at(j)
        <5> HIDE DEF at
        <5> QED BY <2>9, <3>1 DEF Injective
      <4> QED BY <2>2, <4>1
    <3> QED BY <3>1 DEF Injective
  <2>12. s # <<>> /\ Last(s) # p => Last(t) = Last(s)
    <3> HAVE s # <<>> /\ Last(s) # p
    <3>1. Len(s) # k
      BY <2>2 DEF Last
    <3>2. Len(t) \in 1 .. Len(t) /\ ~ (Len(t) < k) /\ Len(t) + 1 = Len(s)
      BY <2>2, <2>8, <3>1
    <3> QED BY <2>8, <3>2 DEF Last
  <2> QED BY <1>3, <2>8, <2>10, <2>11, <2>12 DEF t
<1> QED BY <1>2, <1>3

(* Pages in the order of their sectors: each page of T, once.              *)
LEMMA InOrderRange ==
    ASSUME NEW T \in SUBSET Pages
    PROVE  InOrder(T) \in Seq(Pages) /\ Injective(InOrder(T)) /\ Range(InOrder(T)) = T
<1> DEFINE ss == [p \in Pages |-> IF p \in T THEN <<p>> ELSE <<>>]
           L  == PageCount
<1>1. L \in Nat /\ L # 0
  BY NvsAssumption
<1>2. ss \in [1 .. L -> Seq(Pages)]
  <2>1. \A p \in Pages : <<p>> \in Seq(Pages) /\ <<>> \in Seq(Pages)
    OBVIOUS
  <2> QED BY <2>1 DEF Pages
<1>3. InOrder(T) = FlattenSeq(ss)
  BY DEF InOrder
<1>4. \A n \in 1 .. L : ss[n] = IF n \in T THEN <<n>> ELSE <<>>
  BY DEF Pages
<1> HIDE DEF ss
<1>5. PICK f \in [1 .. L -> Seq(Pages)] : Joined(f, ss, L) /\ FlattenSeq(ss) = f[L]
  <2> HIDE DEF L
  <2> QED BY <1>1, <1>2, FlattenSteps
<1> DEFINE Good(n) == Injective(f[n]) /\ Range(f[n]) = T \cap (1 .. n)
           Bad     == {n \in 1 .. L : ~ Good(n)}
<1>6. ASSUME NEW n \in 1 .. L, NEW s \in Seq(Pages), f[n] = s \o ss[n],
             Injective(s), Range(s) = T \cap (1 .. n - 1)
      PROVE  Good(n)
  <2>1. n \in Pages /\ 1 .. n = (1 .. n - 1) \cup {n} /\ n \notin 1 .. n - 1
    BY <1>1 DEF Pages
  <2>2. CASE n \in T
    <3>1. f[n] = Append(s, n)
      <4>1. f[n] = s \o <<n>>
        BY <1>4, <1>6, <2>2
      <4> QED BY <1>6, <2>1, <4>1, AppendIsConcat
    <3>2. Injective(f[n]) /\ Range(f[n]) = Range(s) \cup {n}
      BY <1>6, <2>1, <3>1, AppendRange
    <3>3. Range(f[n]) = T \cap (1 .. n)
      BY <1>6, <2>1, <2>2, <3>2
    <3> QED BY <3>2, <3>3
  <2>3. CASE n \notin T
    <3>1. f[n] = s
      <4>1. f[n] = s \o <<>>
        BY <1>4, <1>6, <2>3
      <4> QED BY <1>6, <4>1, ConcatEmptySeq
    <3>2. T \cap (1 .. n) = T \cap (1 .. n - 1)
      BY <2>1, <2>3
    <3> QED BY <1>6, <3>1, <3>2
  <2> QED BY <2>2, <2>3
<1>7. Bad = {}
  <2> SUFFICES ASSUME Bad # {} PROVE FALSE
    OBVIOUS
  <2>1. PICK m \in Bad : \A n \in Bad : m <= n
    <3>1. Bad \in SUBSET Nat
      <4> HIDE DEF Good
      <4> QED OBVIOUS
    <3> HIDE DEF Bad
    <3> QED BY <3>1, Least
  <2>2. m \in 1 .. L /\ ~ Good(m)
    BY <2>1
  <2>3. CASE m = 1
    <3>1. f[1] = <<>> \o ss[1]
      BY <1>2, <1>5, <2>2, <2>3 DEF Joined
    <3>2. Injective(<<>>) /\ Range(<<>>) = {} /\ <<>> \in Seq(Pages) /\ T \cap (1 .. 1 - 1) = {}
      BY DEF Injective, Range
    <3> QED BY <1>6, <2>2, <2>3, <3>1, <3>2
  <2>4. CASE m # 1
    <3>1. m - 1 \in 1 .. L /\ m - 1 \notin Bad /\ m \in 2 .. L
      BY <1>1, <2>1, <2>2, <2>4
    <3>2. Good(m - 1)
      <4> HIDE DEF Good
      <4> QED BY <3>1
    <3>3. f[m] = f[m - 1] \o ss[m] /\ f[m - 1] \in Seq(Pages)
      BY <1>5, <3>1 DEF Joined
    <3> QED BY <1>6, <2>2, <3>2, <3>3
  <2> QED BY <2>3, <2>4
<1>8. Good(L)
  <2>1. L \in 1 .. L
    BY <1>1
  <2> HIDE DEF Good
  <2> QED BY <1>7, <2>1
<1>9. T \cap (1 .. L) = T
  BY DEF Pages
<1> QED BY <1>1, <1>3, <1>5, <1>8, <1>9

(* What a scan visits is defined: whether it stops at an entry depends on  *)
(* the entries before.                                                     *)
LEMMA VisitedIs ==
    ASSUME NEW page
    PROVE  /\ Visited(page) \in SUBSET Entries
           /\ \A i \in Entries :
                 i \in Visited(page) <=> /\ page.table[i] = "WRITTEN"
                                         /\ \A j \in Visited(page) : j < i => LastOf(page, j) < i
<1> DEFINE Stop(V, i) == page.table[i] = "WRITTEN" /\ \A j \in V : j < i => LastOf(page, j) < i
           Upto(V, n) == V \in SUBSET (0 .. n - 1) /\ \A i \in 0 .. n - 1 : i \in V <=> Stop(V, i)
           Bad        == {n \in Nat : ~ \E V : Upto(V, n)}
<1>1. Upto({}, 0)
  OBVIOUS
<1>2. ASSUME NEW n \in Nat, NEW V, Upto(V, n)
      PROVE  \E W : Upto(W, n + 1)
  <2> DEFINE W == IF Stop(V, n) THEN V \cup {n} ELSE V
  <2>1. 0 .. (n + 1) - 1 = (0 .. n - 1) \cup {n} /\ n \notin 0 .. n - 1
    OBVIOUS
  <2>2. \A j \in V : j \in 0 .. n - 1 /\ j < n
    BY <1>2
  <2>3. \A i \in 0 .. n : Stop(W, i) <=> Stop(V, i)
    BY <2>2
  <2> HIDE DEF Stop
  <2>4. \A i \in 0 .. n - 1 : i \in W <=> i \in V
    BY <2>1
  <2>5. n \in W <=> Stop(V, n)
    BY <2>1, <2>2
  <2>6. W \in SUBSET (0 .. (n + 1) - 1)
    BY <1>2, <2>1
  <2> HIDE DEF W
  <2>7. \A i \in 0 .. (n + 1) - 1 : i \in W <=> Stop(W, i)
    BY <1>2, <2>1, <2>3, <2>4, <2>5
  <2> QED BY <2>6, <2>7
<1>3. Bad = {}
  <2> SUFFICES ASSUME Bad # {} PROVE FALSE
    OBVIOUS
  <2>1. PICK m \in Bad : \A n \in Bad : m <= n
    <3>1. Bad \in SUBSET Nat
      OBVIOUS
    <3> HIDE DEF Bad
    <3> QED BY <3>1, Least
  <2> HIDE DEF Upto
  <2>2. m # 0
    BY <1>1, <2>1
  <2>3. m - 1 \in Nat /\ (m - 1) + 1 = m /\ m - 1 \notin Bad
    BY <2>1, <2>2
  <2> QED BY <1>2, <2>1, <2>3
<1>4. PICK V : Upto(V, EntryCount)
  <2> HIDE DEF Upto
  <2> QED BY <1>3, NvsAssumption
<1> DEFINE Right(X) == \A i \in Entries :
               i \in X <=> /\ page.table[i] = "WRITTEN"
                           /\ \A j \in X : j < i => LastOf(page, j) < i
<1>5. V \in SUBSET Entries /\ Right(V)
  BY <1>4 DEF Entries
<1>6. Visited(page) = CHOOSE X \in SUBSET Entries : Right(X)
  BY DEF Visited
<1> HIDE DEF Right
<1>7. Visited(page) \in SUBSET Entries /\ Right(Visited(page))
  BY <1>5, <1>6
<1> QED BY <1>7 DEF Right

(* A list with each page once is as long as the set of its pages.          *)
LEMMA InjectiveLength ==
    ASSUME NEW S, NEW s \in Seq(S), Injective(s)
    PROVE  IsFiniteSet(Range(s)) /\ Cardinality(Range(s)) = Len(s)
<1>1. Len(s) \in Nat /\ DOMAIN s = 1 .. Len(s) /\ s \in [1 .. Len(s) -> S]
  BY LenProperties
<1>2. Range(s) = {s[i] : i \in 1 .. Len(s)}
  BY RangeEquality
<1>3. s \in Bijection(1 .. Len(s), Range(s))
  <2>1. s \in [1 .. Len(s) -> Range(s)]
    BY <1>1, <1>2
  <2>2. \A i, j \in 1 .. Len(s) : s[i] = s[j] => i = j
    BY DEF Injective
  <2>3. s \in Injection(1 .. Len(s), Range(s))
    BY <1>1, <2>1, <2>2 DEF Injection, IsInjective
  <2>4. s \in Surjection(1 .. Len(s), Range(s))
    BY <1>2, <2>1 DEF Surjection
  <2> QED BY <2>3, <2>4 DEF Bijection
<1>4. ExistsBijection(1 .. Len(s), Range(s))
  BY <1>3 DEF ExistsBijection
<1>5. IsFiniteSet(1 .. Len(s)) /\ Cardinality(1 .. Len(s)) = Len(s)
  BY <1>1, FS_Interval
<1> QED BY <1>4, <1>5, FS_Bijection

-----------------------------------------------------------------------------
(* The inductive invariant: what the pages are and what is left to do, for *)
(* every point at which the power may fail.                                *)

State(p) == flash[p].state
Live     == {p \in Pages : State(p) \in Loaded}

(* The writes into the entries of the pages of T, and all operations.      *)
Data(T) == [op : {"program"}, page : T, entry : Int, content : Contents]
           \cup [op : {"alter"}, page : T, entries : SUBSET Int, state : {"WRITTEN", "ERASED"}]
Ops     == Data(Pages)
           \cup [op : {"header", "erase"}, page : Pages]
           \cup [op : {"state"}, page : Pages, state : {"FULL", "FREEING"}]

PageType == [state : {"UNINITIALIZED", "ACTIVE", "FULL", "FREEING", "CORRUPT"},
             table : [Entries -> {"EMPTY", "WRITTEN", "ERASED"}],
             data  : [Entries -> Contents]]

FlashType == flash \in [Pages -> PageType]

UpPhases == {"ready", "request", "again", "written", "stored", "clearing", "error"}

RamType ==
    /\ phase \in UpPhases \cup {"load", "manager", "freeing"}
    /\ todo \in Seq(Ops)
    /\ pageList \in Seq(Pages) /\ freeList \in Seq(Pages)
    /\ findPage \in Pages \cup {None} /\ reply \in {"none", "ok", "error"}
    /\ stored \in [Keys -> Values \cup {None}]
    /\ phase \in {"request", "again", "written"} => call.key \in Keys /\ call.value \in Values

(* What the headers of the pages say, whenever the power fails.            *)
Headers ==
    /\ order \in Seq(Pages) /\ Injective(order)
    /\ Range(order) = Live
    /\ \A p \in Pages : State(p) = "ACTIVE" => p = Last(order)
    /\ \A p, q \in Pages : State(p) = "FREEING" /\ State(q) = "FREEING" => p = q
    /\ \A p \in Pages : State(p) = "UNINITIALIZED" => flash[p] = ErasedPage
    /\ \A p \in Pages : State(p) = "CORRUPT" => flash[p] = Corrupted
    /\ \/ Pages \ Live # {}
       \/ \E p, q \in Pages : State(p) = "ACTIVE" /\ State(q) = "FREEING"

(* The two lists, once they are built.                                     *)
Lists ==
    /\ Injective(pageList) /\ Injective(freeList)
    /\ Range(pageList) \cap Range(freeList) = {}
    /\ Range(pageList) \cup Range(freeList) = Pages
    /\ pageList # <<>> /\ freeList # <<>>
    /\ \A p \in Range(pageList) : p = Back \/ State(p) = "FULL"

Unused(T) == \A p \in T : State(p) \in {"UNINITIALIZED", "CORRUPT"}

(* Nothing is moved: what is left to do goes into pages in use, ...        *)
Plain   == /\ Unused(Range(freeList))
           /\ State(Back) \in {"UNINITIALIZED", "ACTIVE", "FULL"}
           /\ todo \in Seq(Data(Live))
(* ... or the current page is opened, closed or erased first.              *)
Opening == /\ Unused(Range(freeList))
           /\ State(Back) = "UNINITIALIZED"
           /\ todo # <<>> /\ Head(todo) = Header(Back) /\ Tail(todo) \in Seq(Data({Back}))
Closing == /\ Unused(Range(freeList))
           /\ State(Back) = "ACTIVE"
           /\ todo = <<PageState(Back, "FULL")>>
Wiping  == /\ Unused(Range(freeList))
           /\ State(Back) = "CORRUPT"
           /\ todo = <<Erase(Back)>>

(* The page v is moved to page q: what is left from the copying, and from  *)
(* the header of q on.                                                     *)
Copying(s, v, q) == /\ s \in Seq(Ops) /\ s # <<>>
                    /\ s[Len(s)] = Erase(v)
                    /\ \A i \in 1 .. Len(s) - 1 : s[i] \in Data({q})
Fresh(s, v, q)   == \/ s = <<Erase(v)>>
                    \/ s # <<>> /\ Head(s) = Header(q) /\ Copying(Tail(s), v, q)

(* The current page, if it is not erased, is erased first.                 *)
Cleaned(s, v)    == \/ State(Back) = "UNINITIALIZED" /\ Fresh(s, v, Back)
                    \/ /\ State(Back) \in {"CORRUPT", "ACTIVE"}
                       /\ s # <<>> /\ Head(s) = Erase(Back) /\ Fresh(Tail(s), v, Back)

(* v is not marked yet; it is; and a page half filled by a move before is  *)
(* to be erased.                                                           *)
Marking(v)  == /\ State(v) = "FULL"
               /\ Unused(Range(freeList) \ {v})
               /\ todo # <<>>
               /\ \/ /\ State(Back) = "UNINITIALIZED"
                     /\ Head(todo) = PageState(v, "FREEING") /\ Fresh(Tail(todo), v, Back)
                  \/ /\ State(Back) = "CORRUPT"
                     /\ Head(todo) = Erase(Back) /\ Tail(todo) # <<>>
                     /\ Head(Tail(todo)) = PageState(v, "FREEING")
                     /\ Fresh(Tail(Tail(todo)), v, Back)
Freeing(v)  == /\ State(v) = "FREEING"
               /\ Unused(Range(freeList) \ {v})
               /\ \/ Cleaned(todo, v)
                  \/ State(Back) = "ACTIVE" /\ Copying(todo, v, Back)
Redoing(v)  == /\ State(v) = "FREEING"
               /\ \E t \in Range(freeList) \ {v} :
                     /\ State(t) = "ACTIVE" /\ Unused(Range(freeList) \ {v, t})
                     /\ todo # <<>> /\ Head(todo) = Erase(t)
               /\ State(Back) \in {"UNINITIALIZED", "CORRUPT"}
               /\ Cleaned(Tail(todo), v)
Moving      == \E v \in Range(freeList) : Marking(v) \/ Freeing(v) \/ Redoing(v)

Phases ==
    /\ phase = "load" => todo = <<>>
    /\ phase = "manager" => todo \in Seq(Data(Live))
    /\ phase = "freeing" => /\ todo \in Seq(Data(Live))
                            /\ order # <<>> /\ pageList = order
                            /\ Injective(freeList) /\ Range(freeList) = Pages \ Live
    /\ phase \in UpPhases => Lists
    /\ phase \in {"ready", "again"} => Plain \/ Wiping \/ Moving
    /\ phase = "request" => Closing \/ (Plain /\ State(Back) = "FULL" /\ todo = <<>>)
    /\ phase = "written" => Plain \/ Opening
    /\ phase \in {"stored", "clearing", "error"} => Plain

PagesInv == FlashType /\ RamType /\ Headers /\ Phases

-----------------------------------------------------------------------------
(* The contents of entries.                                                *)

(* An item has its header, data and tail, and fits on a page.              *)
LEMMA SpanType ==
    ASSUME NEW v \in Values
    PROVE  /\ DataEntries[v] \in Nat /\ TailEntries[v] \in {0, 1}
           /\ Span(v) = 1 + DataEntries[v] + TailEntries[v]
           /\ Span(v) \in Nat /\ Span(v) >= 1 /\ Span(v) <= EntryCount
<1>1. DataEntries[v] \in Nat /\ TailEntries[v] \in {0, 1} /\ Span(v) <= EntryCount
  BY NvsAssumption
<1> QED BY <1>1 DEF Span

(* An entry is one of three special contents or a part of an item.         *)
LEMMA ContentCases ==
    ASSUME NEW c \in Contents
    PROVE  \/ c \in {Blank, Junk, Hidden}
           \/ \E k \in Keys, v \in Values, n \in Entries : c = Part(k, v, n)
BY DEF Contents

(* A spoiled entry is an entry.                                            *)
LEMMA SpoiledType == \A c \in Contents : Spoiled(c) \in Contents
BY DEF Contents, Spoiled

(* The header of an item has a key and a value.                            *)
LEMMA HeaderContent ==
    ASSUME NEW c \in Contents, IsHeader(c)
    PROVE  c.key \in Keys /\ c.value \in Values
<1>1. c \notin {Blank, Junk, Hidden}
  BY DEF IsHeader, Blank, Junk, Hidden
<1>2. PICK k \in Keys, v \in Values, n \in Entries : c = Part(k, v, n)
  BY <1>1, ContentCases
<1> QED BY <1>2 DEF Part

(* The last entry of an item is not before its first.                      *)
LEMMA LastOfType ==
    ASSUME NEW page \in PageType, NEW i \in Entries
    PROVE  LastOf(page, i) \in Nat /\ i <= LastOf(page, i)
<1>1. i \in Nat
  BY DEF Entries
<1>2. page.data[i] \in Contents
  BY DEF PageType
<1>3. CASE IsHeader(page.data[i])
  <2>1. page.data[i].value \in Values
    BY <1>2, <1>3, HeaderContent
  <2>2. SpanAt(page, i) = Span(page.data[i].value)
    BY <1>3 DEF SpanAt
  <2>3. SpanAt(page, i) \in Nat /\ SpanAt(page, i) >= 1
    BY <2>1, <2>2, SpanType
  <2> QED BY <1>1, <2>3 DEF LastOf
<1>4. CASE ~ IsHeader(page.data[i])
  <2>1. SpanAt(page, i) = 1
    BY <1>4 DEF SpanAt
  <2> QED BY <1>1, <2>1 DEF LastOf
<1> QED BY <1>3, <1>4

-----------------------------------------------------------------------------
(* The operations each function queues.                                    *)

(* Writes into some pages are writes into more pages.                      *)
LEMMA DataMonotone ==
    ASSUME NEW T, NEW U, T \subseteq U
    PROVE  Data(T) \subseteq Data(U) /\ Seq(Data(T)) \subseteq Seq(Data(U))
<1>1. Data(T) \subseteq Data(U)
  BY DEF Data
<1> QED BY <1>1, SeqMonotonic

(* Writes into entries are operations of flash.                            *)
LEMMA DataAreOps ==
    ASSUME NEW T \in SUBSET Pages
    PROVE  Data(T) \subseteq Ops /\ Seq(Data(T)) \subseteq Seq(Ops)
<1>1. Data(T) \subseteq Data(Pages) /\ Data(Pages) \subseteq Ops
  BY DataMonotone DEF Ops
<1>2. Data(T) \subseteq Ops
  BY <1>1
<1> QED BY <1>2, SeqMonotonic

(* Programming an entry is a write into its page.                          *)
LEMMA ProgramType ==
    ASSUME NEW T, NEW p \in T, NEW i \in Int, NEW c \in Contents
    PROVE  Program(p, i, c) \in Data(T)
BY DEF Program, Data

(* Altering the state of entries is a write into their page.               *)
LEMMA AlterType ==
    ASSUME NEW T, NEW p \in T, NEW s \in SUBSET Int, NEW state \in {"WRITTEN", "ERASED"}
    PROVE  Alter(p, s, state) \in Data(T)
BY DEF Alter, Data

(* So is every operation of alterEntryRangeState, ...                      *)
LEMMA AlterRangeType ==
    ASSUME NEW T, NEW p \in T, NEW first \in Int, NEW last \in Int,
           NEW state \in {"WRITTEN", "ERASED"}
    PROVE  AlterRange(p, first, last, state) \in Seq(Data(T))
<1> DEFINE L == (last \div PerWord) - (first \div PerWord) + 1
           W(n) == {i \in first .. last : i \div PerWord = (last \div PerWord) - n + 1}
           s == [n \in 1 .. L |-> Alter(p, W(n), state)]
<1>1. PerWord \in Nat /\ PerWord > 0
  BY NvsAssumption
<1>2. L \in Int
  BY <1>1
<1>3. AlterRange(p, first, last, state) = s
  BY DEF AlterRange
<1>4. \A n \in 1 .. L : W(n) \in SUBSET Int
  OBVIOUS
<1> HIDE DEF L, W
<1>5. \A n \in 1 .. L : Alter(p, W(n), state) \in Data(T)
  BY <1>4, AlterType
<1>6. CASE L >= 0
  BY <1>2, <1>3, <1>5, <1>6
<1>7. CASE L < 0
  <2>1. 1 .. L = 1 .. 0
    BY <1>2, <1>7
  <2>2. s \in [1 .. 0 -> Data(T)]
    BY <1>5, <2>1
  <2> HIDE DEF s
  <2>3. s \in Seq(Data(T))
    BY <2>2
  <2> QED BY <1>3, <2>3
<1> QED BY <1>2, <1>6, <1>7

(* ... of writeEntry, ...                                                  *)
LEMMA WriteEntryType ==
    ASSUME NEW T, NEW p \in T, NEW i \in Int, NEW c \in Contents
    PROVE  WriteEntry(p, i, c) \in Seq(Data(T))
<1>1. Program(p, i, c) \in Data(T) /\ Alter(p, {i}, "WRITTEN") \in Data(T)
  BY ProgramType, AlterType
<1> QED BY <1>1 DEF WriteEntry

(* ... of eraseEntryAndSpan, ...                                           *)
LEMMA EraseItemType ==
    ASSUME FlashType, NEW p \in Pages, NEW i \in Entries, NEW T, p \in T
    PROVE  EraseItem(p, i) \in Seq(Data(T))
<1>1. LastOf(flash[p], i) \in Int /\ i \in Int
  BY LastOfType DEF FlashType, Entries
<1> QED BY <1>1, AlterRangeType DEF EraseItem

(* Only pages in use hold items.                                           *)
LEMMA CopiesType ==
    ASSUME NEW page, NEW k
    PROVE  /\ CopiesOf(k, page) \in SUBSET ItemsIn(page)
           /\ ItemsIn(page) \in SUBSET Visited(page)
           /\ Visited(page) \in SUBSET Entries
           /\ \A i \in Visited(page) : page.table[i] = "WRITTEN"
BY VisitedIs DEF CopiesOf, ItemsIn

(* Entries are numbers.                                                    *)
LEMMA EntriesAreNat == Entries \in SUBSET Nat
BY DEF Entries

(* ... and of eraseItem.                                                   *)
LEMMA EraseKeyType ==
    ASSUME FlashType, NEW p \in Pages, NEW k, CopiesOf(k, flash[p]) # {}, NEW T, p \in T
    PROVE  EraseKey(p, k) \in Seq(Data(T))
<1>1. CopiesOf(k, flash[p]) \in SUBSET Entries /\ CopiesOf(k, flash[p]) \in SUBSET Nat
  BY CopiesType, EntriesAreNat
<1>2. Min(CopiesOf(k, flash[p])) \in Entries
  BY <1>1, MinIsLeast
<1> QED BY <1>2, EraseItemType DEF EraseKey

(* The least of some entries is one of them.                               *)
LEMMA MinType ==
    ASSUME NEW S \in SUBSET Nat, NEW n \in Nat
    PROVE  Min(S \cup {n}) \in Nat /\ Min(S \cup {n}) <= n
<1>1. S \cup {n} \in SUBSET Nat /\ S \cup {n} # {} /\ n \in S \cup {n}
  OBVIOUS
<1> QED BY <1>1, MinIsLeast

(* mNextFreeEntry is an entry or the number of entries.                    *)
LEMMA NextFreeType ==
    ASSUME NEW page
    PROVE  NextFree(page) \in Nat /\ NextFree(page) <= EntryCount
<1>1. {i \in Entries : page.table[i] = "EMPTY"} \in SUBSET Nat /\ EntryCount \in Nat
  BY EntriesAreNat, NvsAssumption
<1> QED BY <1>1, MinType DEF NextFree

(* An item is written into its page, whose header comes first if it has    *)
(* none.                                                                   *)
LEMMA WriteItemType ==
    ASSUME NEW p \in Pages, NEW k \in Keys, NEW v \in Values
    PROVE  \E d \in Seq(Data({p})) : WriteItem(p, k, v) = Initialize(p) \o d
<1> DEFINE i == NextFree(flash[p])
           n == DataEntries[v]
           first == WriteEntry(p, i, Part(k, v, 0))
           whole == [m \in 1 .. n |-> Program(p, i + m, Part(k, v, m))]
           data  == IF n = 0 THEN <<>> ELSE whole \o AlterRange(p, i + 1, i + n, "WRITTEN")
           tail  == IF TailEntries[v] = 0 THEN <<>> ELSE WriteEntry(p, i + n + 1, Part(k, v, n + 1))
           T     == {p}
<1>1. i \in Int /\ n \in Nat /\ p \in T
  BY NextFreeType, SpanType
<1>2. 1 + n + TailEntries[v] <= EntryCount /\ TailEntries[v] \in {0, 1} /\ EntryCount \in Nat
  BY SpanType, NvsAssumption
<1>3. \A m \in 0 .. n : Part(k, v, m) \in Contents
  <2>1. \A m \in 0 .. n : m \in Entries
    BY <1>1, <1>2 DEF Entries
  <2> QED BY <2>1 DEF Contents
<1>4. TailEntries[v] # 0 => Part(k, v, n + 1) \in Contents
  <2>1. TailEntries[v] # 0 => n + 1 \in Entries
    BY <1>1, <1>2 DEF Entries
  <2> QED BY <2>1 DEF Contents
<1> HIDE DEF i, n, T
<1>5. first \in Seq(Data(T))
  <2>1. Part(k, v, 0) \in Contents
    BY <1>1, <1>3
  <2> QED BY <1>1, <2>1, WriteEntryType
<1>6. whole \in Seq(Data(T))
  <2>1. \A m \in 1 .. n : Program(p, i + m, Part(k, v, m)) \in Data(T)
    <3> TAKE m \in 1 .. n
    <3>1. i + m \in Int /\ Part(k, v, m) \in Contents
      BY <1>1, <1>3
    <3> QED BY <1>1, <3>1, ProgramType
  <2> QED BY <1>1, <2>1
<1>7. AlterRange(p, i + 1, i + n, "WRITTEN") \in Seq(Data(T))
  <2>1. i + 1 \in Int /\ i + n \in Int
    BY <1>1
  <2> QED BY <1>1, <2>1, AlterRangeType
<1>8. tail \in Seq(Data(T))
  <2>1. CASE TailEntries[v] # 0
    <3>1. i + n + 1 \in Int /\ Part(k, v, n + 1) \in Contents
      BY <1>1, <1>4, <2>1
    <3>2. WriteEntry(p, i + n + 1, Part(k, v, n + 1)) \in Seq(Data(T))
      BY <1>1, <3>1, WriteEntryType
    <3> QED BY <2>1, <3>2
  <2>2. CASE TailEntries[v] = 0
    BY <2>2, EmptySeq
  <2> QED BY <2>1, <2>2
<1> HIDE DEF whole
<1>9. data \in Seq(Data(T))
  <2>1. whole \o AlterRange(p, i + 1, i + n, "WRITTEN") \in Seq(Data(T))
    BY <1>6, <1>7, ConcatProperties
  <2> QED BY <2>1, EmptySeq
<1>10. WriteItem(p, k, v) = Initialize(p) \o first \o data \o tail
  BY DEF WriteItem, i, n, whole
<1> HIDE DEF first, data, tail
<1>11. Initialize(p) \in Seq({Header(p)} \cup Data(T))
  <2> DEFINE S == {Header(p)} \cup Data(T)
  <2>1. Header(p) \in S
    OBVIOUS
  <2> HIDE DEF S
  <2>2. <<Header(p)>> \in Seq(S) /\ <<>> \in Seq(S)
    BY <2>1
  <2>3. Initialize(p) \in {<<Header(p)>>, <<>>}
    BY DEF Initialize
  <2>4. Initialize(p) \in Seq(S)
    BY <2>2, <2>3
  <2> QED BY <2>4 DEF S
<1>12. ((Initialize(p) \o first) \o data) \o tail = Initialize(p) \o ((first \o data) \o tail)
  <2> DEFINE S == {Header(p)} \cup Data(T)
  <2>1. Data(T) \subseteq S
    OBVIOUS
  <2> HIDE DEF S
  <2>2. first \in Seq(S) /\ data \in Seq(S) /\ tail \in Seq(S)
    BY <1>5, <1>8, <1>9, <2>1, SeqMonotonic
  <2>3. Initialize(p) \in Seq(S)
    BY <1>11 DEF S
  <2>4. (Initialize(p) \o first) \o data = Initialize(p) \o (first \o data)
    BY <2>2, <2>3, ConcatAssociative
  <2>5. first \o data \in Seq(S)
    BY <2>2, ConcatProperties
  <2>6. (Initialize(p) \o (first \o data)) \o tail = Initialize(p) \o ((first \o data) \o tail)
    <3> DEFINE m == first \o data
    <3>1. m \in Seq(S)
      BY <2>5
    <3> HIDE DEF m
    <3>2. (Initialize(p) \o m) \o tail = Initialize(p) \o (m \o tail)
      BY <2>2, <2>3, <3>1, ConcatAssociative
    <3> QED BY <3>2 DEF m
  <2> HIDE <2>2, <2>3, <2>5
  <2> QED BY <2>4, <2>6, Zenon
<1>13. (first \o data) \o tail \in Seq(Data(T))
  <2>1. first \o data \in Seq(Data(T))
    BY <1>5, <1>9, ConcatProperties
  <2> QED BY <1>8, <2>1, ConcatProperties
<1>14. WriteItem(p, k, v) = Initialize(p) \o ((first \o data) \o tail)
  BY <1>10, <1>12
<1> QED BY <1>13, <1>14 DEF T

(* The items of a page are copied into the new one behind its header, or   *)
(* there is nothing to copy and nothing is written.                        *)
LEMMA CopyItemsType ==
    ASSUME FlashType, NEW p \in Pages, NEW q \in Pages
    PROVE  \/ CopyItems(p, q) = <<>>
           \/ \E d \in Seq(Data({q})) : CopyItems(p, q) = <<Header(q)>> \o d
<1> DEFINE copied   == {j \in Entries : \E i \in Visited(flash[p]) : j \in i .. LastOf(flash[p], i)}
           place(j) == Cardinality({k \in copied : k < j})
           copy(j)  == IF j \in copied THEN WriteEntry(q, place(j), flash[p].data[j]) ELSE <<>>
           ss       == [n \in 1 .. EntryCount |-> copy(n - 1)]
           T        == IF copied = {} THEN {} ELSE Data({q})
<1>1. CopyItems(p, q) = (IF copied = {} THEN <<>> ELSE <<Header(q)>>) \o FlattenSeq(ss)
  BY DEF CopyItems
<1>2. copied \in SUBSET Entries /\ IsFiniteSet(Entries) /\ EntryCount \in Nat
  BY FS_Interval, NvsAssumption DEF Entries
<1>3. \A j : place(j) \in Int
  <2> TAKE j
  <2>1. {k \in copied : k < j} \in SUBSET Entries
    BY <1>2
  <2> HIDE DEF copied
  <2>2. IsFiniteSet({k \in copied : k < j})
    BY <1>2, <2>1, FS_Subset
  <2> QED BY <2>2, FS_CardinalityType
<1>4. \A j \in Entries : flash[p].data[j] \in Contents
  BY DEF FlashType, PageType
<1> HIDE DEF copied, place
<1>5. \A j : copy(j) \in Seq(T)
  <2> TAKE j
  <2>1. CASE j \in copied
    <3>1. T = Data({q})
      BY <2>1
    <3>2. WriteEntry(q, place(j), flash[p].data[j]) \in Seq(Data({q}))
      <4>1. place(j) \in Int /\ flash[p].data[j] \in Contents /\ q \in {q}
        BY <1>2, <1>3, <1>4, <2>1
      <4> QED BY <4>1, WriteEntryType
    <3> QED BY <2>1, <3>1, <3>2
  <2>2. CASE j \notin copied
    BY <2>2, EmptySeq
  <2> QED BY <2>1, <2>2
<1> HIDE DEF copy, T
<1>6. ss \in [1 .. EntryCount -> Seq(T)]
  BY <1>5
<1> HIDE DEF ss
<1>7. FlattenSeq(ss) \in Seq(T)
  BY <1>2, <1>6, FlattenType
<1>8. CASE copied = {}
  <2>1. FlattenSeq(ss) \in Seq({})
    BY <1>7, <1>8 DEF T
  <2>2. FlattenSeq(ss) = <<>>
    BY <2>1
  <2>3. CopyItems(p, q) = <<>> \o <<>>
    BY <1>1, <1>8, <2>2
  <2> QED BY <2>3
<1>9. CASE copied # {}
  <2>1. FlattenSeq(ss) \in Seq(Data({q}))
    BY <1>7, <1>9 DEF T
  <2>2. CopyItems(p, q) = <<Header(q)>> \o FlattenSeq(ss)
    BY <1>1, <1>9
  <2> QED BY <2>1, <2>2
<1> QED BY <1>8, <1>9

(* The words of the entry table cover sets of numbers.                     *)
LEMMA CutIsInts ==
    ASSUME NEW half \in SUBSET Nat, IsFiniteSet(half)
    PROVE  /\ Cardinality(half) \in Nat
           /\ \A n \in 1 .. Cardinality(half) : Min(half) + n - 1 \in Int
<1>1. Cardinality(half) \in Nat /\ (Cardinality(half) = 0 <=> half = {})
  BY FS_CardinalityType, FS_EmptySet
<1>2. half # {} => Min(half) \in Nat
  BY MinIsLeast
<1> QED BY <1>1, <1>2

(* Loading a page comes down to marking entries as erased.                 *)
LEMMA LoadPageType ==
    ASSUME FlashType, NEW p \in Pages
    PROVE  LoadPage(p) \in Seq(Data(Live))
<1>1. CASE State(p) \notin Loaded
  BY <1>1, EmptySeq DEF LoadPage, State
<1>2. CASE State(p) \in Loaded
  <2> DEFINE half == HalfWritten(flash[p])
             page == [flash[p] EXCEPT !.table = [i \in Entries |-> IF i \in half THEN "ERASED" ELSE @[i]]]
             check(i) == IF i \notin Visited(page) THEN <<>>
                         ELSE IF ~IsWhole(page, i) THEN EraseItem(p, i)
                         ELSE IF Replaced(page, i) = {} THEN <<>>
                         ELSE EraseItem(p, Max(Replaced(page, i)))
             cut(n) == {Min(half) + n - 1}
             alters == [n \in 1 .. Cardinality(half) |-> Alter(p, cut(n), "ERASED")]
             ss == [n \in 1 .. EntryCount |-> check(n - 1)]
             T == Live
  <2>1. p \in T
    BY <1>2 DEF Live
  <2>2. LoadPage(p) = alters \o FlattenSeq(ss)
    BY <1>2 DEF LoadPage, State
  <2>3. half \in SUBSET Nat /\ IsFiniteSet(half)
    <3> DEFINE from == NextFree(flash[p])
               to == Min({i \in from .. EntryCount - 1 : LooksBlank(flash[p].data[i])} \cup {EntryCount})
    <3>1. from \in Nat /\ EntryCount \in Nat
      BY NextFreeType, NvsAssumption
    <3>2. to \in Nat
      <4>1. {i \in from .. EntryCount - 1 : LooksBlank(flash[p].data[i])} \in SUBSET Nat
        BY <3>1
      <4> QED BY <3>1, <4>1, MinType
    <3>3. half = from .. to - 1 \/ half = {}
      BY DEF HalfWritten
    <3> HIDE DEF from, to, half
    <3>4. from .. to - 1 \in SUBSET Nat /\ IsFiniteSet(from .. to - 1)
      BY <3>1, <3>2, FS_Interval
    <3> QED BY <3>3, <3>4, FS_EmptySet
  <2> HIDE DEF half
  <2>4. page \in PageType
    <3>1. flash[p] \in PageType
      BY DEF FlashType
    <3> QED BY <3>1 DEF PageType
  <2> HIDE DEF page, T
  <2>5. \A i \in Entries : Replaced(page, i) # {} => Max(Replaced(page, i)) \in Entries
    <3> TAKE i \in Entries
    <3> HAVE Replaced(page, i) # {}
    <3> DEFINE older == {j \in CopiesOf(page.data[i].key, page) : j < i /\ IsWhole(page, j)}
    <3>1. older # {} /\ Replaced(page, i) = {Max(older)}
      BY DEF Replaced
    <3>2. older \in SUBSET Entries
      BY CopiesType
    <3> HIDE DEF older
    <3>3. Max(older) \in Entries
      <4>1. EntryCount \in Nat /\ \A j \in older : j \in Nat /\ j <= EntryCount
        BY <3>2, NvsAssumption DEF Entries
      <4>2. Max(older) \in older
        BY <3>1, <4>1, MaxIsGreatest
      <4> QED BY <3>2, <4>2
    <3> DEFINE m == Max(older)
    <3>4. m \in Nat
      BY <3>3, EntriesAreNat
    <3> HIDE DEF m
    <3>5. Max({m}) \in {m}
      <4>1. \A j \in {m} : j \in Nat /\ j <= m
        BY <3>4
      <4> QED BY <3>4, <4>1, MaxIsGreatest
    <3> QED BY <3>1, <3>3, <3>5 DEF m
  <2>6. \A i : check(i) \in Seq(Data(T))
    <3> TAKE i
    <3>1. \A j \in Entries : EraseItem(p, j) \in Seq(Data(T))
      BY <2>1, EraseItemType
    <3>2. i \in Visited(page) => i \in Entries
      BY VisitedIs
    <3>3. <<>> \in Seq(Data(T))
      BY EmptySeq
    <3> QED BY <2>5, <3>1, <3>2, <3>3
  <2> HIDE DEF check
  <2>7. ss \in [1 .. EntryCount -> Seq(Data(T))] /\ EntryCount \in Nat
    BY <2>6, NvsAssumption
  <2>8. alters \in Seq(Data(T))
    <3>1. Cardinality(half) \in Nat
      BY <2>3, CutIsInts
    <3>2. \A n \in 1 .. Cardinality(half) : Alter(p, cut(n), "ERASED") \in Data(T)
      <4> TAKE n \in 1 .. Cardinality(half)
      <4>1. cut(n) \in SUBSET Int
        BY <2>3, CutIsInts
      <4> HIDE DEF cut
      <4> QED BY <2>1, <4>1, AlterType
    <3> HIDE DEF cut
    <3> QED BY <3>1, <3>2
  <2> HIDE DEF ss, alters
  <2>9. FlattenSeq(ss) \in Seq(Data(T))
    BY <2>7, FlattenType
  <2> QED BY <2>2, <2>8, <2>9, ConcatProperties DEF T
<1> QED BY <1>1, <1>2

(* A page with an entry written has a header.                              *)
LEMMA WrittenIsLive ==
    ASSUME FlashType, Headers, NEW p \in Pages, Visited(flash[p]) # {}
    PROVE  p \in Live
<1>1. PICK i \in Entries : flash[p].table[i] = "WRITTEN"
  BY VisitedIs
<1>2. flash[p].table # EmptyTable
  BY <1>1 DEF EmptyTable
<1>3. flash[p] # ErasedPage /\ flash[p] # Corrupted
  BY <1>2 DEF ErasedPage, Corrupted
<1>4. State(p) \notin {"UNINITIALIZED", "CORRUPT"}
  BY <1>3 DEF Headers
<1>5. State(p) \in {"UNINITIALIZED", "ACTIVE", "FULL", "FREEING", "CORRUPT"}
  BY DEF FlashType, PageType, State
<1> QED BY <1>4, <1>5 DEF Live, Loaded

(* The first page of a kind is in the list and of that kind.               *)
LEMMA FoundIsThere ==
    ASSUME NEW s \in Seq(Pages), NEW T, T \subseteq Range(s), T # {}
    PROVE  First(s, T) \in T /\ First(s, T) \in Pages /\ First(s, T) \in Range(s)
<1>1. Range(s) \cap T # {} /\ Range(s) \in SUBSET Pages
  BY RangeMembers
<1>2. First(s, T) \in T /\ First(s, T) \in Range(s)
  BY <1>1, FirstIsThere
<1> QED BY <1>1, <1>2

(* What Storage::findItem finds is a page with the key.                    *)
LEMMA FindPageType ==
    ASSUME pageList \in Seq(Pages), NEW k
    PROVE  /\ FindPage(k) \in Pages \cup {None}
           /\ FindPage(k) # None => FindPage(k) \in Pages /\ CopiesOf(k, flash[FindPage(k)]) # {}
<1> DEFINE found == {p \in Range(pageList) : CopiesOf(k, flash[p]) # {}}
<1>1. found # {} => First(pageList, found) \in found /\ First(pageList, found) \in Pages
  <2> HAVE found # {}
  <2>1. found \subseteq Range(pageList)
    OBVIOUS
  <2> HIDE DEF found
  <2> QED BY <2>1, FoundIsThere
<1>2. FindPage(k) = IF found = {} THEN None ELSE First(pageList, found)
  BY DEF FindPage
<1>3. \A p \in found : CopiesOf(k, flash[p]) # {}
  OBVIOUS
<1> HIDE DEF found
<1>4. CASE found = {}
  BY <1>2, <1>4
<1>5. CASE found # {}
  BY <1>1, <1>2, <1>3, <1>5
<1> QED BY <1>4, <1>5

(* What flash holds of a key is a value of it, or nothing.                 *)
LEMMA DurableType ==
    ASSUME NEW f \in [Pages -> PageType], NEW o \in Seq(Pages)
    PROVE  Durable(f, o) \in [Keys -> Values \cup {None}]
<1> DEFINE pages     == Counting(f, o)
           copies(k) == {n \in DOMAIN pages : IntactAt(f[pages[n]], k) # {}}
           last(k)   == f[pages[Max(copies(k))]]
           value(k)  == last(k).data[Max(IntactAt(last(k), k))].value
<1>1. Durable(f, o) = [k \in Keys |-> IF copies(k) = {} THEN None ELSE value(k)]
  BY DEF Durable
<1>2. pages \in Seq(Pages)
  <2>1. o # <<>> => Front(o) \in Seq(Pages)
    BY SubSeqProperties DEF Front
  <2> QED BY <2>1 DEF Counting
<1>3. ASSUME NEW k \in Keys, copies(k) # {} PROVE value(k) \in Values
  <2>1. DOMAIN pages = 1 .. Len(pages) /\ Len(pages) \in Nat
    BY <1>2, LenProperties
  <2>2. \A n \in copies(k) : n \in Nat /\ n <= Len(pages)
    BY <2>1
  <2>3. Max(copies(k)) \in copies(k)
    <3> HIDE DEF copies, pages
    <3> QED BY <1>3, <2>1, <2>2, MaxIsGreatest
  <2> DEFINE page == last(k)
             at   == IntactAt(page, k)
  <2>4. page \in PageType /\ at # {}
    <3> HIDE DEF pages
    <3>1. Max(copies(k)) \in 1 .. Len(pages) /\ IntactAt(f[pages[Max(copies(k))]], k) # {}
      BY <2>1, <2>3
    <3>2. pages[Max(copies(k))] \in Pages
      BY <1>2, <3>1
    <3> HIDE DEF copies
    <3> QED BY <3>1, <3>2
  <2> HIDE DEF page
  <2>5. \A i \in at : i \in Entries /\ IsHeader(page.data[i])
    BY DEF IntactAt
  <2>6. EntryCount \in Nat /\ \A i \in at : i \in Nat /\ i <= EntryCount
    BY <2>5, NvsAssumption DEF Entries
  <2> HIDE DEF at
  <2>7. Max(at) \in at
    BY <2>4, <2>6, MaxIsGreatest
  <2>8. page.data[Max(at)] \in Contents
    BY <2>4, <2>5, <2>7 DEF PageType
  <2>9. page.data[Max(at)].value \in Values
    BY <2>5, <2>7, <2>8, HeaderContent
  <2>10. value(k) = page.data[Max(at)].value
    BY DEF page, at
  <2> QED BY <2>9, <2>10
<1> HIDE DEF copies, value
<1> QED BY <1>1, <1>3

-----------------------------------------------------------------------------
(* What one write of flash does to the pages.                              *)

(* A page has one of five states.                                          *)
LEMMA StateType == FlashType => \A p \in Pages :
                       State(p) \in {"UNINITIALIZED", "ACTIVE", "FULL", "FREEING", "CORRUPT"}
BY DEF FlashType, PageType, State

(* The pages in use are those with a valid header.                         *)
LEMMA LiveStates ==
    ASSUME FlashType
    PROVE  \A p \in Pages : /\ p \in Live <=> State(p) \in {"ACTIVE", "FULL", "FREEING"}
                            /\ p \notin Live <=> State(p) \in {"UNINITIALIZED", "CORRUPT"}
BY StateType DEF Live, Loaded

(* One page is written, and no other changes.                              *)
LEMMA PageWrite ==
    ASSUME FlashType, NEW p \in Pages, NEW page \in PageType, flash' = [flash EXCEPT ![p] = page]
    PROVE  /\ FlashType'
           /\ State(p)' = page.state /\ flash'[p] = page
           /\ \A q \in Pages : q # p => State(q)' = State(q) /\ flash'[q] = flash[q]
<1>1. flash \in [Pages -> PageType]
  BY DEF FlashType
<1>2. flash' \in [Pages -> PageType]
  BY <1>1
<1>3. flash'[p] = page /\ \A q \in Pages : q # p => flash'[q] = flash[q]
  BY <1>1
<1> QED BY <1>2, <1>3 DEF FlashType, State

(* A page in use stays what it is.                                         *)
LEMMA DataStep ==
    ASSUME FlashType, Headers, NEW p \in Live, NEW page \in PageType, page.state = State(p),
           flash' = [flash EXCEPT ![p] = page], order' = order
    PROVE  /\ FlashType' /\ Headers' /\ Live' = Live
           /\ \A q \in Pages : State(q)' = State(q)
<1>1. p \in Pages /\ State(p) \notin {"UNINITIALIZED", "CORRUPT"}
  BY DEF Live, Loaded
<1>2. FlashType' /\ flash'[p] = page /\ \A q \in Pages : q # p => flash'[q] = flash[q]
  BY <1>1, PageWrite
<1>3. \A q \in Pages : State(q)' = State(q)
  BY <1>1, <1>2, PageWrite
<1>4. Live' = Live
  BY <1>3 DEF Live
<1>5. Headers'
  <2>1. order' \in Seq(Pages) /\ Injective(order')
    BY DEF Headers
  <2>2. Range(order') = Live'
    BY <1>4 DEF Headers
  <2>3. \A q \in Pages : State(q)' = "ACTIVE" => q = Last(order')
    BY <1>3 DEF Headers
  <2>4. \A q, r \in Pages : State(q)' = "FREEING" /\ State(r)' = "FREEING" => q = r
    BY <1>3 DEF Headers
  <2>5. \A q \in Pages : State(q)' = "UNINITIALIZED" => flash'[q] = ErasedPage
    BY <1>1, <1>2, <1>3 DEF Headers
  <2>6. \A q \in Pages : State(q)' = "CORRUPT" => flash'[q] = Corrupted
    BY <1>1, <1>2, <1>3 DEF Headers
  <2>7. \/ Pages \ Live' # {}
        \/ \E q, r \in Pages : State(q)' = "ACTIVE" /\ State(r)' = "FREEING"
    BY <1>3, <1>4 DEF Headers
  <2> QED BY <2>1, <2>2, <2>3, <2>4, <2>5, <2>6, <2>7 DEF Headers
<1> QED BY <1>2, <1>3, <1>4, <1>5

(* The header of an erased page is written, when no other page is ACTIVE   *)
(* and a page is left without one or is being freed.                       *)
LEMMA HeaderStep ==
    ASSUME FlashType, Headers, NEW p \in Pages, State(p) = "UNINITIALIZED",
           \A q \in Pages : State(q) # "ACTIVE",
           \E q \in Pages : q # p /\ (q \notin Live \/ State(q) = "FREEING"),
           flash' = [flash EXCEPT ![p] = [@ EXCEPT !.state = "ACTIVE"]], order' = Append(order, p)
    PROVE  /\ FlashType' /\ Headers' /\ Live' = Live \cup {p} /\ State(p)' = "ACTIVE"
           /\ \A q \in Pages : q # p => State(q)' = State(q)
<1> DEFINE page == [flash[p] EXCEPT !.state = "ACTIVE"]
<1>1. page \in PageType /\ page.state = "ACTIVE" /\ flash' = [flash EXCEPT ![p] = page]
  BY DEF FlashType, PageType
<1> HIDE DEF page
<1>2. /\ FlashType' /\ State(p)' = "ACTIVE"
      /\ \A q \in Pages : q # p => State(q)' = State(q) /\ flash'[q] = flash[q]
  BY <1>1, PageWrite
<1>3. Live' = Live \cup {p}
  BY <1>2 DEF Live, Loaded
<1>4. Headers'
  <2>1. p \notin Range(order) /\ order \in Seq(Pages) /\ Injective(order) /\ Range(order) = Live
    BY LiveStates DEF Headers
  <2>2. /\ order' \in Seq(Pages) /\ Injective(order')
        /\ Range(order') = Live \cup {p} /\ Last(order') = p
    BY <2>1, AppendRange
  <2>3. \A q \in Pages : State(q)' = "ACTIVE" => q = Last(order')
    BY <1>2, <2>2
  <2>4. \A q, r \in Pages : State(q)' = "FREEING" /\ State(r)' = "FREEING" => q = r
    BY <1>2 DEF Headers
  <2>5. \A q \in Pages : State(q)' = "UNINITIALIZED" => flash'[q] = ErasedPage
    BY <1>2 DEF Headers
  <2>6. \A q \in Pages : State(q)' = "CORRUPT" => flash'[q] = Corrupted
    BY <1>2 DEF Headers
  <2>7. \/ Pages \ Live' # {}
        \/ \E q, r \in Pages : State(q)' = "ACTIVE" /\ State(r)' = "FREEING"
    BY <1>2, <1>3
  <2> QED BY <1>3, <2>2, <2>3, <2>4, <2>5, <2>6, <2>7 DEF Headers
<1> QED BY <1>2, <1>3, <1>4

(* The ACTIVE page is closed, or a FULL one is marked to be freed.         *)
LEMMA StateStep ==
    ASSUME FlashType, Headers, NEW p \in Live, NEW state,
           Pages \ Live # {},
           \/ state = "FULL"
           \/ state = "FREEING" /\ \A q \in Pages : State(q) # "FREEING",
           flash' = [flash EXCEPT ![p] = [@ EXCEPT !.state = state]], order' = order
    PROVE  /\ FlashType' /\ Headers' /\ Live' = Live /\ State(p)' = state
           /\ \A q \in Pages : q # p => State(q)' = State(q)
<1> DEFINE page == [flash[p] EXCEPT !.state = state]
<1>1. p \in Pages /\ state \in {"FULL", "FREEING"}
  BY DEF Live
<1>2. page \in PageType /\ page.state = state /\ flash' = [flash EXCEPT ![p] = page]
  BY <1>1 DEF FlashType, PageType
<1> HIDE DEF page
<1>3. /\ FlashType' /\ State(p)' = state
      /\ \A q \in Pages : q # p => State(q)' = State(q) /\ flash'[q] = flash[q]
  BY <1>1, <1>2, PageWrite
<1>4. Live' = Live
  BY <1>1, <1>3 DEF Live, Loaded
<1>5. Headers'
  <2>1. order' \in Seq(Pages) /\ Injective(order') /\ Range(order') = Live'
    BY <1>4 DEF Headers
  <2>2. \A q \in Pages : State(q)' = "ACTIVE" => q = Last(order')
    BY <1>1, <1>3 DEF Headers
  <2>3. \A q, r \in Pages : State(q)' = "FREEING" /\ State(r)' = "FREEING" => q = r
    BY <1>1, <1>3 DEF Headers
  <2>4. \A q \in Pages : State(q)' = "UNINITIALIZED" => flash'[q] = ErasedPage
    BY <1>1, <1>3 DEF Headers
  <2>5. \A q \in Pages : State(q)' = "CORRUPT" => flash'[q] = Corrupted
    BY <1>1, <1>3 DEF Headers
  <2>6. Pages \ Live' # {}
    BY <1>4
  <2> QED BY <2>1, <2>2, <2>3, <2>4, <2>5, <2>6 DEF Headers
<1> QED BY <1>3, <1>4, <1>5

(* An erased page, and one erased in part, are pages.                      *)
LEMMA ErasedType ==
    /\ ErasedPage \in PageType /\ ErasedPage.state = "UNINITIALIZED"
    /\ Corrupted \in PageType /\ Corrupted.state = "CORRUPT"
<1>1. Blank \in Contents
  BY DEF Contents
<1> QED BY <1>1 DEF ErasedPage, EmptyTable, Corrupted, PageType

(* A page is erased, or left corrupt.                                      *)
LEMMA EraseStep ==
    ASSUME FlashType, Headers, NEW p \in Pages, NEW page \in {ErasedPage, Corrupted},
           flash' = [flash EXCEPT ![p] = page], order' = Without(order, p)
    PROVE  /\ FlashType' /\ Headers' /\ Live' = Live \ {p} /\ State(p)' = page.state
           /\ \A q \in Pages : q # p => State(q)' = State(q)
<1>1. page \in PageType /\ page.state \in {"UNINITIALIZED", "CORRUPT"}
      /\ (page.state = "UNINITIALIZED" => page = ErasedPage)
      /\ (page.state = "CORRUPT" => page = Corrupted)
  BY ErasedType
<1>2. /\ FlashType' /\ State(p)' = page.state /\ flash'[p] = page
      /\ \A q \in Pages : q # p => State(q)' = State(q) /\ flash'[q] = flash[q]
  BY <1>1, PageWrite
<1>3. Live' = Live \ {p}
  BY <1>1, <1>2 DEF Live, Loaded
<1>4. Headers'
  <2>1. order \in Seq(Pages) /\ Injective(order) /\ Range(order) = Live
    BY DEF Headers
  <2>2. /\ order' \in Seq(Pages) /\ Injective(order') /\ Range(order') = Live \ {p}
        /\ order # <<>> /\ Last(order) # p => Last(order') = Last(order)
    BY <2>1, WithoutRange
  <2>3. ASSUME NEW q \in Pages, State(q)' = "ACTIVE" PROVE q = Last(order')
    <3>1. q # p /\ State(q) = "ACTIVE"
      BY <1>1, <1>2, <2>3
    <3>2. q = Last(order) /\ q \in Range(order)
      BY <2>1, <3>1, LiveStates DEF Headers
    <3>3. order # <<>>
      BY <2>1, <3>2, RangeMembers
    <3> QED BY <2>2, <3>1, <3>2, <3>3
  <2>4. \A q, r \in Pages : State(q)' = "FREEING" /\ State(r)' = "FREEING" => q = r
    BY <1>1, <1>2 DEF Headers
  <2>5. \A q \in Pages : State(q)' = "UNINITIALIZED" => flash'[q] = ErasedPage
    BY <1>1, <1>2 DEF Headers
  <2>6. \A q \in Pages : State(q)' = "CORRUPT" => flash'[q] = Corrupted
    BY <1>1, <1>2 DEF Headers
  <2>7. Pages \ Live' # {}
    BY <1>3
  <2> QED BY <1>3, <2>2, <2>3, <2>4, <2>5, <2>6, <2>7 DEF Headers
<1> QED BY <1>2, <1>3, <1>4

-----------------------------------------------------------------------------
(* What is left to do, as it is queued and as it gets done.                *)

(* An operation put before others is the first of them.                    *)
LEMMA ConsProperties ==
    ASSUME NEW S, NEW x \in S, NEW d \in Seq(S)
    PROVE  /\ <<x>> \o d \in Seq(S) /\ <<x>> \o d # <<>>
           /\ Head(<<x>> \o d) = x /\ Tail(<<x>> \o d) = d
<1> DEFINE s == <<x>> \o d
<1>1. <<x>> \in Seq(S) /\ Len(<<x>>) = 1 /\ <<x>>[1] = x /\ Len(d) \in Nat
  OBVIOUS
<1>2. /\ s \in Seq(S) /\ Len(s) = 1 + Len(d)
      /\ \A i \in 1 .. 1 + Len(d) : s[i] = IF i <= 1 THEN <<x>>[i] ELSE d[i - 1]
  BY <1>1, ConcatProperties
<1> HIDE DEF s
<1>3. s # <<>> /\ s[1] = x
  BY <1>1, <1>2
<1>4. Head(s) = x
  BY <1>2, <1>3
<1>5. Tail(s) \in Seq(S) /\ Len(Tail(s)) = Len(d) /\ \A i \in 1 .. Len(d) : Tail(s)[i] = s[i + 1]
  BY <1>1, <1>2, <1>3, HeadTailProperties
<1>6. \A i \in 1 .. Len(d) : Tail(s)[i] = d[i]
  <2> TAKE i \in 1 .. Len(d)
  <2>1. i + 1 \in 1 .. 1 + Len(d) /\ ~ (i + 1 <= 1) /\ (i + 1) - 1 = i
    BY <1>1
  <2> QED BY <1>2, <1>5, <2>1
<1>7. Tail(s) = d
  BY <1>5, <1>6, SeqEqual
<1> QED BY <1>2, <1>3, <1>4, <1>7 DEF s

(* Headers, states of pages and erases are operations of flash.            *)
LEMMA OpTypes ==
    ASSUME NEW p \in Pages
    PROVE  /\ Header(p) \in Ops /\ Erase(p) \in Ops
           /\ \A state \in {"FULL", "FREEING"} : PageState(p, state) \in Ops
BY DEF Ops, Header, Erase, PageState

(* copyItems queues operations of flash.                                   *)
LEMMA CopyIsOps ==
    ASSUME FlashType, NEW p \in Pages, NEW q \in Pages
    PROVE  CopyItems(p, q) \in Seq(Ops)
<1>1. CASE CopyItems(p, q) = <<>>
  BY <1>1, EmptySeq
<1>2. CASE \E d \in Seq(Data({q})) : CopyItems(p, q) = <<Header(q)>> \o d
  <2>1. PICK d \in Seq(Data({q})) : CopyItems(p, q) = <<Header(q)>> \o d
    BY <1>2
  <2>2. d \in Seq(Ops) /\ Header(q) \in Ops
    BY DataAreOps, OpTypes
  <2> QED BY <2>1, <2>2, ConsProperties
<1> QED BY <1>1, <1>2, CopyItemsType

(* A copy ends with the erasing of the page.                               *)
LEMMA CopyingIs ==
    ASSUME NEW v \in Pages, NEW q \in Pages, NEW d \in Seq(Data({q}))
    PROVE  Copying(d \o <<Erase(v)>>, v, q)
<1> DEFINE s == d \o <<Erase(v)>>
<1>1. d \in Seq(Ops) /\ Erase(v) \in Ops
  BY DataAreOps, OpTypes
<1>2. <<Erase(v)>> \in Seq(Ops) /\ Len(<<Erase(v)>>) = 1 /\ <<Erase(v)>>[1] = Erase(v) /\ Len(d) \in Nat
  BY <1>1
<1>3. /\ s \in Seq(Ops) /\ Len(s) = Len(d) + 1
      /\ \A i \in 1 .. Len(d) + 1 : s[i] = IF i <= Len(d) THEN d[i] ELSE <<Erase(v)>>[i - Len(d)]
  BY <1>1, <1>2, ConcatProperties
<1> HIDE DEF s
<1>4. s # <<>> /\ Len(s) - 1 = Len(d)
  BY <1>2, <1>3
<1>5. s[Len(s)] = Erase(v)
  <2>1. Len(s) \in 1 .. Len(d) + 1 /\ ~ (Len(s) <= Len(d)) /\ Len(s) - Len(d) = 1
    BY <1>2, <1>3
  <2> QED BY <1>2, <1>3, <2>1
<1>6. \A i \in 1 .. Len(s) - 1 : s[i] \in Data({q})
  <2> TAKE i \in 1 .. Len(s) - 1
  <2>1. i \in 1 .. Len(d) + 1 /\ i <= Len(d) /\ i \in 1 .. Len(d)
    BY <1>2, <1>4
  <2> QED BY <1>3, <2>1
<1> QED BY <1>3, <1>4, <1>5, <1>6 DEF Copying, s

(* A copy starts with the header of the new page, or is empty.             *)
LEMMA FreshIs ==
    ASSUME FlashType, NEW v \in Pages, NEW q \in Pages
    PROVE  /\ Fresh(CopyItems(v, q) \o <<Erase(v)>>, v, q)
           /\ CopyItems(v, q) \o <<Erase(v)>> \in Seq(Ops)
<1> DEFINE e == <<Erase(v)>>
<1>1. e \in Seq(Ops) /\ Header(q) \in Ops
  BY OpTypes
<1>2. CASE CopyItems(v, q) = <<>>
  <2>1. CopyItems(v, q) \o e = e
    BY <1>1, <1>2, ConcatEmptySeq
  <2> QED BY <1>1, <2>1 DEF Fresh
<1>3. CASE \E d \in Seq(Data({q})) : CopyItems(v, q) = <<Header(q)>> \o d
  <2>1. PICK d \in Seq(Data({q})) : CopyItems(v, q) = <<Header(q)>> \o d
    BY <1>3
  <2>2. d \in Seq(Ops) /\ <<Header(q)>> \in Seq(Ops)
    BY <1>1, DataAreOps
  <2> HIDE DEF e
  <2>3. CopyItems(v, q) \o e = <<Header(q)>> \o (d \o e)
    BY <1>1, <2>1, <2>2, ConcatAssociative
  <2>4. Copying(d \o e, v, q)
    BY CopyingIs DEF e
  <2>5. d \o e \in Seq(Ops)
    BY <2>4 DEF Copying
  <2> DEFINE t == d \o e
  <2> HIDE DEF t
  <2>6. /\ <<Header(q)>> \o t \in Seq(Ops) /\ <<Header(q)>> \o t # <<>>
        /\ Head(<<Header(q)>> \o t) = Header(q) /\ Tail(<<Header(q)>> \o t) = t
    BY <1>1, <2>5, ConsProperties DEF t
  <2>7. CopyItems(v, q) \o e = <<Header(q)>> \o t
    BY <2>3 DEF t
  <2>8. Copying(t, v, q)
    BY <2>4 DEF t
  <2> QED BY <2>6, <2>7, <2>8 DEF Fresh, e
<1> QED BY <1>2, <1>3, CopyItemsType

(* One write on.                                                           *)
LEMMA CopyingStep ==
    ASSUME NEW v \in Pages, NEW q \in Pages, NEW s, Copying(s, v, q)
    PROVE  \/ s = <<Erase(v)>>
           \/ Head(s) \in Data({q}) /\ Copying(Tail(s), v, q)
<1>1. s \in Seq(Ops) /\ s # <<>> /\ s[Len(s)] = Erase(v)
      /\ \A i \in 1 .. Len(s) - 1 : s[i] \in Data({q})
  BY DEF Copying
<1>2. Len(s) \in Nat \ {0} /\ Head(s) = s[1]
  BY <1>1, EmptySeq
<1>3. CASE Len(s) = 1
  BY <1>1, <1>3
<1>4. CASE Len(s) # 1
  <2> DEFINE t == Tail(s)
  <2>1. t \in Seq(Ops) /\ Len(t) = Len(s) - 1 /\ \A i \in 1 .. Len(t) : t[i] = s[i + 1]
    BY <1>1, HeadTailProperties
  <2> HIDE DEF t
  <2>2. 1 \in 1 .. Len(s) - 1 /\ t # <<>>
    BY <1>2, <1>4, <2>1
  <2>3. t[Len(t)] = Erase(v)
    <3>1. Len(t) \in 1 .. Len(t) /\ Len(t) + 1 = Len(s)
      BY <1>2, <1>4, <2>1
    <3> QED BY <1>1, <2>1, <3>1
  <2>4. \A i \in 1 .. Len(t) - 1 : t[i] \in Data({q})
    <3> TAKE i \in 1 .. Len(t) - 1
    <3>1. i \in 1 .. Len(t) /\ i + 1 \in 1 .. Len(s) - 1
      BY <1>2, <2>1
    <3> QED BY <1>1, <2>1, <3>1
  <2>5. Copying(t, v, q)
    BY <2>1, <2>2, <2>3, <2>4 DEF Copying
  <2> QED BY <1>1, <1>2, <2>2, <2>5 DEF t
<1> QED BY <1>3, <1>4

-----------------------------------------------------------------------------
(* The invariant holds at the start.                                       *)

(* An erased partition satisfies the invariant.                            *)
LEMMA InitInv == Init => PagesInv
<1> SUFFICES ASSUME Init PROVE PagesInv
  OBVIOUS
<1>1. FlashType
  BY ErasedType DEF Init, FlashType
<1>2. \A p \in Pages : State(p) = "UNINITIALIZED" /\ flash[p] = ErasedPage
  BY ErasedType DEF Init, State
<1>3. Live = {}
  BY <1>2 DEF Live, Loaded
<1>4. Headers
  <2>1. order = <<>>
    BY DEF Init
  <2>2. order \in Seq(Pages) /\ Injective(order) /\ Range(order) = {}
    BY <2>1 DEF Injective, Range
  <2>3. 1 \in Pages
    BY NvsAssumption DEF Pages
  <2>4. Pages \ Live # {}
    BY <1>3, <2>3
  <2> QED BY <1>2, <1>3, <2>2, <2>4 DEF Headers
<1>5. RamType
  <2>1. stored \in [Keys -> Values \cup {None}]
    BY DEF Init
  <2>2. todo \in Seq(Ops) /\ pageList \in Seq(Pages) /\ freeList \in Seq(Pages)
    BY DEF Init
  <2>3. phase = "load" /\ findPage = None /\ reply = "none"
    BY DEF Init
  <2> QED BY <2>1, <2>2, <2>3 DEF RamType
<1>6. Phases
  <2>1. phase = "load" /\ todo = <<>>
    BY DEF Init
  <2> QED BY <2>1 DEF Phases, UpPhases
<1> QED BY <1>1, <1>4, <1>5, <1>6 DEF PagesInv

-----------------------------------------------------------------------------
(* The functions of the library, which queue writes and do none.           *)

(* What is said of flash holds while flash does not change, ...            *)
LEMMA SameDisk ==
    ASSUME FlashType, Headers, UNCHANGED disk
    PROVE  /\ FlashType' /\ Headers' /\ Live' = Live
           /\ \A p : State(p)' = State(p)
<1>1. flash' = flash /\ order' = order
  BY DEF disk
<1>2. FlashType'
  BY <1>1 DEF FlashType
<1>3. \A p : State(p)' = State(p)
  BY <1>1 DEF State
<1>4. Live' = Live
  BY <1>3 DEF Live
<1>5. Headers'
  BY <1>1, <1>3, <1>4 DEF Headers
<1> QED BY <1>2, <1>3, <1>4, <1>5

(* ... and what is said of the two lists, while they do not.               *)
LEMMA SameLists ==
    ASSUME UNCHANGED <<disk, pageList, freeList>>
    PROVE  /\ Lists' <=> Lists
           /\ Back' = Back /\ Range(freeList)' = Range(freeList)
           /\ Unused(Range(freeList))' <=> Unused(Range(freeList))
<1>1. flash' = flash /\ pageList' = pageList /\ freeList' = freeList
  BY DEF disk
<1>2. Back' = Back
  BY <1>1 DEF Back
<1>3. \A p : State(p)' = State(p)
  BY <1>1 DEF State
<1>4. Unused(Range(freeList))' <=> Unused(Range(freeList))
  BY <1>1, <1>3 DEF Unused
<1>5. Lists' <=> Lists
  BY <1>1, <1>2, <1>3 DEF Lists
<1> QED BY <1>1, <1>2, <1>4, <1>5

(* The current page is the last of mPageList, and not free.                *)
LEMMA BackIsPage ==
    ASSUME RamType, Lists
    PROVE  Back \in Pages /\ Back \in Range(pageList) /\ Back \notin Range(freeList)
<1>1. pageList \in Seq(Pages) /\ pageList # <<>> /\ Range(pageList) \cap Range(freeList) = {}
  BY DEF RamType, Lists
<1> QED BY <1>1, RangeMembers DEF Back

(* Nothing is left to do: nothing is moved any more.                       *)
LEMMA IdleIsPlain ==
    ASSUME Phases, phase \in UpPhases, todo = <<>>
    PROVE  Lists /\ Plain /\ (phase = "request" => State(Back) = "FULL")
<1>1. ~ Opening /\ ~ Closing /\ ~ Wiping
  BY DEF Opening, Closing, Wiping
<1>2. ~ Moving
  <2>1. \A v : ~ Marking(v)
    BY DEF Marking
  <2>2. \A v : ~ Freeing(v)
    <3> TAKE v
    <3>1. ~ Cleaned(todo, v)
      BY DEF Cleaned, Fresh
    <3>2. ~ Copying(todo, v, Back)
      BY DEF Copying
    <3> QED BY <3>1, <3>2 DEF Freeing
  <2>3. \A v : ~ Redoing(v)
    BY DEF Redoing
  <2> QED BY <2>1, <2>2, <2>3 DEF Moving
<1> QED BY <1>1, <1>2 DEF Phases, UpPhases

(* Without a move, pages are free, FULL, or the current one.               *)
LEMMA PlainStates ==
    ASSUME RamType, FlashType, Lists, Unused(Range(freeList))
    PROVE  \A p \in Pages : p # Back => State(p) \in {"UNINITIALIZED", "CORRUPT", "FULL"}
BY DEF Lists, Unused

(* The queue is emptied, or writes into pages in use are queued.           *)
LEMMA PlainAgain ==
    ASSUME FlashType, Headers, Plain, Lists, UNCHANGED <<disk, pageList, freeList>>,
           todo' \in Seq(Data(Live))
    PROVE  Plain' /\ Lists' /\ Back' = Back /\ State(Back)' = State(Back)
<1>1. Lists' /\ Back' = Back /\ Unused(Range(freeList))'
  BY SameLists DEF Plain
<1>2. Live' = Live /\ \A p : State(p)' = State(p)
  BY SameDisk
<1>3. State(Back)' = State(Back)
  BY <1>1, <1>2
<1>4. todo' \in Seq(Data(Live'))
  BY <1>2
<1>5. State(Back)' \in {"UNINITIALIZED", "ACTIVE", "FULL"}
  BY <1>3 DEF Plain
<1> QED BY <1>1, <1>3, <1>4, <1>5 DEF Plain

(* RAM is lost; only flash matters.                                        *)
LEMMA RestartStep ==
    ASSUME Restart, FlashType', Headers', stored' \in [Keys -> Values \cup {None}]
    PROVE  PagesInv'
<1>1. /\ pageList' = <<>> /\ freeList' = <<>> /\ todo' = <<>>
      /\ phase' = "load" /\ findPage' = None /\ reply' = "none"
  BY DEF Restart
<1>2. todo' \in Seq(Ops) /\ pageList' \in Seq(Pages) /\ freeList' \in Seq(Pages)
  BY <1>1
<1>3. RamType'
  BY <1>1, <1>2 DEF RamType
<1>4. Phases'
  BY <1>1 DEF Phases, UpPhases
<1> QED BY <1>3, <1>4 DEF PagesInv

(* The power fails between two writes.                                     *)
LEMMA PowerLossStep == PagesInv /\ PowerLoss => PagesInv'
<1> SUFFICES ASSUME PagesInv, PowerLoss PROVE PagesInv'
  OBVIOUS
<1>1. FlashType' /\ Headers'
  BY SameDisk DEF PagesInv, PowerLoss
<1>2. stored' \in [Keys -> Values \cup {None}]
  BY DEF PagesInv, RamType, PowerLoss, disk
<1> QED BY <1>1, <1>2, RestartStep DEF PowerLoss

(* Page::load writes only into pages in use.                               *)
LEMMA LoadPagesStep == PagesInv /\ LoadPages => PagesInv'
<1> SUFFICES ASSUME PagesInv, LoadPages PROVE PagesInv'
  OBVIOUS
<1>1. /\ phase' = "manager" /\ todo' = FlattenSeq([p \in Pages |-> LoadPage(p)])
      /\ UNCHANGED <<disk, pageList, freeList, call, findPage, reply>>
  BY DEF LoadPages
<1>2. FlashType' /\ Headers' /\ Live' = Live
  BY <1>1, SameDisk DEF PagesInv
<1>3. todo' \in Seq(Data(Live))
  <2> DEFINE ss == [p \in Pages |-> LoadPage(p)]
             S == Data(Live)
  <2>1. \A p \in Pages : LoadPage(p) \in Seq(S)
    BY LoadPageType DEF PagesInv
  <2> HIDE DEF S
  <2>2. ss \in [1 .. PageCount -> Seq(S)] /\ PageCount \in Nat
    BY <2>1, NvsAssumption DEF Pages
  <2> HIDE DEF ss
  <2>3. FlattenSeq(ss) \in Seq(S)
    BY <2>2, FlattenType
  <2> QED BY <1>1, <2>3 DEF ss, S
<1>4. todo' \in Seq(Ops)
  <2>1. Live \in SUBSET Pages
    BY DEF Live
  <2> QED BY <1>3, <2>1, DataAreOps
<1>5. RamType'
  BY <1>1, <1>4 DEF PagesInv, RamType, disk
<1>6. Phases'
  BY <1>1, <1>2, <1>3 DEF Phases, UpPhases
<1> QED BY <1>2, <1>5, <1>6 DEF PagesInv

(* PageManager::load erases entries of a page in use.                      *)
LEMMA OlderCopyType ==
    ASSUME FlashType, Headers, order # <<>>
    PROVE  OlderCopy \in Seq(Data(Live))
<1> DEFINE page  == flash[Last(order)]
           k     == page.data[Max(ItemsIn(page))].key
           older == {q \in Range(Front(order)) : flash[q].state # "FREEING" /\ CopiesOf(k, flash[q]) # {}}
           q     == First(order, older)
<1>1. OlderCopy = IF ItemsIn(page) = {} \/ older = {} THEN <<>> ELSE EraseKey(q, k)
  BY DEF OlderCopy
<1>2. CASE ItemsIn(page) = {} \/ older = {}
  BY <1>1, <1>2, EmptySeq
<1>3. CASE older # {}
  <2>1. order \in Seq(Pages) /\ Range(order) = Live
    BY DEF Headers
  <2>2. Range(Front(order)) \subseteq Range(order)
    <3>1. Len(order) \in Nat /\ \A i \in 1 .. Len(order) - 1 : order[i] \in Pages
      BY <2>1
    <3>2. /\ Front(order) \in Seq(Pages)
          /\ \A i \in 1 .. Len(Front(order)) : i \in 1 .. Len(order) /\ Front(order)[i] = order[i]
      BY <3>1, SubSeqProperties DEF Front
    <3>3. /\ Range(order) = {order[i] : i \in 1 .. Len(order)}
          /\ Range(Front(order)) = {Front(order)[i] : i \in 1 .. Len(Front(order))}
      BY <2>1, <3>2, RangeEquality
    <3> QED BY <3>2, <3>3
  <2>3. older \subseteq Range(order) /\ \A r \in older : CopiesOf(k, flash[r]) # {}
    BY <2>2
  <2> HIDE DEF older, k
  <2>4. q \in older /\ q \in Pages /\ q \in Live
    BY <1>3, <2>1, <2>3, FoundIsThere
  <2>5. CopiesOf(k, flash[q]) # {}
    BY <2>3, <2>4
  <2> HIDE DEF q
  <2>6. EraseKey(q, k) \in Seq(Data(Live))
    BY <2>4, <2>5, EraseKeyType
  <2> QED BY <1>1, <2>6, EmptySeq
<1> QED BY <1>2, <1>3

(* PageManager::load builds the lists from the headers.                    *)
LEMMA LoadManagerStep == PagesInv /\ LoadManager => PagesInv'
<1> SUFFICES ASSUME PagesInv, LoadManager PROVE PagesInv'
  OBVIOUS
<1> DEFINE free == InOrder(Pages \ Range(order))
<1>1. todo = <<>> /\ UNCHANGED <<disk, call, findPage, reply>>
  BY DEF LoadManager
<1>2. FlashType' /\ Headers' /\ Live' = Live /\ \A p : State(p)' = State(p)
  BY <1>1, SameDisk DEF PagesInv
<1>3. order \in Seq(Pages) /\ Injective(order) /\ Range(order) = Live /\ Live \in SUBSET Pages
  BY DEF PagesInv, Headers, Live
<1>4. free \in Seq(Pages) /\ Injective(free) /\ Range(free) = Pages \ Live
  BY <1>3, InOrderRange
<1> HIDE DEF free
<1>5. CASE order = <<>>
  <2> DEFINE h == Head(free)
  <2>1. Live = {}
    BY <1>3, <1>5, RangeMembers
  <2>2. Range(free) = Pages
    BY <1>4, <2>1
  <2>3. free # <<>> /\ h \in Pages
    <3>1. 1 \in Pages /\ 2 \in Pages
      BY NvsAssumption DEF Pages
    <3>2. free # <<>>
      BY <1>4, <2>2, <3>1, RangeMembers
    <3> QED BY <1>4, <2>2, <3>2, RangeMembers
  <2>4. Tail(free) \in Seq(Pages) /\ Injective(Tail(free)) /\ Range(Tail(free)) = Pages \ {h}
    BY <1>4, <2>2, <2>3, TailRange
  <2> HIDE DEF h
  <2>5. pageList' = <<h>> /\ freeList' = Tail(free) /\ todo' = Activate(h) /\ phase' = "ready"
    BY <1>5 DEF LoadManager, free, h
  <2>6. Tail(free) # <<>>
    <3>1. 1 \in Pages /\ 2 \in Pages
      BY NvsAssumption DEF Pages
    <3>2. Range(Tail(free)) # {}
      BY <2>4, <3>1
    <3> QED BY <2>4, <3>2, RangeMembers
  <2>7. <<h>> \in Seq(Pages) /\ Injective(<<h>>) /\ Range(<<h>>) = {h} /\ Last(<<h>>) = h
    <3>1. <<h>> \in Seq(Pages) /\ Len(<<h>>) = 1 /\ <<h>>[1] = h
      BY <2>3
    <3>2. Range(<<h>>) = {<<h>>[i] : i \in 1 .. Len(<<h>>)}
      BY <3>1, RangeEquality
    <3>3. Range(<<h>>) = {h}
      BY <3>1, <3>2
    <3> QED BY <3>1, <3>3 DEF Injective, Last
  <2>8. Back' = h
    BY <2>5, <2>7 DEF Back
  <2>9. Lists'
    <3>1. Injective(pageList') /\ Injective(freeList')
      BY <2>4, <2>5, <2>7
    <3>2. Range(pageList') = {h} /\ Range(freeList') = Pages \ {h}
      BY <2>4, <2>5, <2>7
    <3>3. pageList' # <<>> /\ freeList' # <<>>
      BY <2>5, <2>6
    <3> QED BY <2>3, <2>8, <3>1, <3>2, <3>3 DEF Lists
  <2>10. \A p \in Pages : State(p)' \in {"UNINITIALIZED", "CORRUPT"}
    BY <1>2, <2>1, LiveStates DEF PagesInv
  <2>11. Unused(Range(freeList))'
    BY <2>4, <2>5, <2>10 DEF Unused
  <2>12. CASE State(h) = "CORRUPT"
    <3>1. todo' = <<Erase(h)>>
      BY <2>5, <2>12 DEF Activate, State
    <3>2. State(Back)' = "CORRUPT"
      BY <1>2, <2>8, <2>12
    <3>3. Wiping'
      BY <2>8, <2>11, <3>1, <3>2 DEF Wiping
    <3>4. todo' \in Seq(Ops)
      BY <2>3, <3>1, OpTypes
    <3>5. RamType'
      BY <1>1, <2>4, <2>5, <2>7, <3>4 DEF PagesInv, RamType, UpPhases, disk
    <3>6. Phases'
      BY <2>5, <2>9, <3>3 DEF Phases, UpPhases
    <3> QED BY <1>2, <3>5, <3>6 DEF PagesInv
  <2>13. CASE State(h) # "CORRUPT"
    <3>1. todo' = <<>>
      BY <2>5, <2>13 DEF Activate, State
    <3>2. State(Back)' = "UNINITIALIZED"
      BY <1>2, <2>3, <2>8, <2>10, <2>13
    <3>3. todo' \in Seq(Ops) /\ todo' \in Seq(Data(Live))'
      BY <3>1
    <3>4. Plain'
      BY <2>11, <3>2, <3>3 DEF Plain
    <3>5. RamType'
      BY <1>1, <2>4, <2>5, <2>7, <3>3 DEF PagesInv, RamType, UpPhases, disk
    <3>6. Phases'
      BY <2>5, <2>9, <3>4 DEF Phases, UpPhases
    <3> QED BY <1>2, <3>5, <3>6 DEF PagesInv
  <2> QED BY <2>12, <2>13
<1>6. CASE order # <<>>
  <2>1. pageList' = order /\ freeList' = free /\ todo' = OlderCopy /\ phase' = "freeing"
    BY <1>6 DEF LoadManager, free
  <2>2. todo' \in Seq(Data(Live))
    BY <1>6, <2>1, OlderCopyType DEF PagesInv
  <2>3. todo' \in Seq(Ops)
    BY <1>3, <2>2, DataAreOps
  <2>4. RamType'
    BY <1>1, <1>3, <1>4, <2>1, <2>3 DEF PagesInv, RamType, disk
  <2>5. order' = order
    BY <1>1 DEF disk
  <2>6. Phases'
    BY <1>2, <1>4, <1>6, <2>1, <2>2, <2>5 DEF Phases, UpPhases
  <2> QED BY <1>2, <2>4, <2>6 DEF PagesInv
<1> QED BY <1>5, <1>6

(* A page leaves the list for the free pages and another one becomes the   *)
(* current one.                                                            *)
LEMMA MoveLists ==
    ASSUME NEW kept \in Seq(Pages), Injective(kept), NEW free \in Seq(Pages), Injective(free),
           free # <<>>, Range(kept) \cap Range(free) = {}, Range(kept) \cup Range(free) = Pages,
           NEW v \in Range(kept), \A p \in Range(kept) : p = v \/ State(p)' = "FULL",
           pageList' = Without(Append(kept, Head(free)), v),
           freeList' = Append(Tail(free), v)
    PROVE  /\ Lists' /\ Back' = Head(free) /\ v \in Range(freeList)'
           /\ pageList' \in Seq(Pages) /\ freeList' \in Seq(Pages)
           /\ Range(freeList)' = (Range(free) \ {Head(free)}) \cup {v}
<1> DEFINE q == Head(free)
           a == Append(kept, q)
           t == Tail(free)
<1>1. q \in Range(free) /\ q \in Pages /\ v \in Pages /\ q \notin Range(kept) /\ q # v
  BY RangeMembers
<1>2. t \in Seq(Pages) /\ Injective(t) /\ Range(t) = Range(free) \ {q}
  BY TailRange
<1> HIDE DEF q, t
<1>3. a \in Seq(Pages) /\ Injective(a) /\ Range(a) = Range(kept) \cup {q} /\ Last(a) = q /\ a # <<>>
  BY <1>1, AppendRange
<1> HIDE DEF a
<1>4. pageList' = Without(a, v) /\ freeList' = Append(t, v)
  BY DEF a, q, t
<1>5. /\ pageList' \in Seq(Pages) /\ Injective(pageList')
      /\ Range(pageList') = (Range(kept) \cup {q}) \ {v}
      /\ Last(pageList') = q
  BY <1>1, <1>3, <1>4, WithoutRange
<1>6. v \notin Range(t)
  BY <1>2
<1>7. /\ freeList' \in Seq(Pages) /\ Injective(freeList') /\ freeList' # <<>>
      /\ Range(freeList') = Range(t) \cup {v}
  <2> DEFINE b == Append(t, v)
  <2>1. b \in Seq(Pages) /\ Injective(b) /\ b # <<>> /\ Range(b) = Range(t) \cup {v}
    BY <1>1, <1>2, <1>6, AppendRange
  <2> HIDE DEF b
  <2>2. freeList' = b
    BY <1>4 DEF b
  <2> QED BY <2>1, <2>2
<1>8. Back' = q
  BY <1>5 DEF Back
<1>9. pageList' # <<>>
  <2>1. Range(pageList') # {}
    BY <1>1, <1>5
  <2> QED BY <1>5, <2>1, RangeMembers
<1>10. Range(pageList') \cap Range(freeList') = {} /\ Range(pageList') \cup Range(freeList') = Pages
  BY <1>1, <1>2, <1>5, <1>7
<1>11. \A p \in Range(pageList') : p = q \/ State(p)' = "FULL"
  BY <1>5
<1>12. Lists'
  BY <1>5, <1>7, <1>8, <1>9, <1>10, <1>11 DEF Lists
<1> QED BY <1>2, <1>5, <1>7, <1>8, <1>12 DEF q

(* The last page taken off a list.                                         *)
LEMMA FrontRange ==
    ASSUME NEW S, NEW s \in Seq(S), s # <<>>, Injective(s)
    PROVE  /\ Front(s) \in Seq(S) /\ Injective(Front(s))
           /\ Range(Front(s)) = Range(s) \ {Last(s)}
<1> DEFINE t == Front(s)
<1>1. Len(s) \in Nat \ {0} /\ \A i \in 1 .. Len(s) - 1 : s[i] \in S
  BY EmptySeq
<1>2. t \in Seq(S) /\ Len(t) = Len(s) - 1 /\ \A i \in 1 .. Len(t) : t[i] = s[i]
  <2> DEFINE n == Len(s) - 1
  <2>1. n \in Nat /\ 1 \in Int
    BY <1>1
  <2>2. /\ SubSeq(s, 1, n) \in Seq(S)
        /\ Len(SubSeq(s, 1, n)) = IF 1 <= n THEN n - 1 + 1 ELSE 0
        /\ \A i \in 1 .. n - 1 + 1 : SubSeq(s, 1, n)[i] = s[1 + i - 1]
    <3> HIDE DEF n
    <3>1. \A i \in 1 .. n : s[i] \in S
      BY <1>1 DEF n
    <3> QED BY <2>1, <3>1, SubSeqProperties
  <2>3. t = SubSeq(s, 1, n)
    BY DEF Front
  <2> HIDE DEF t, n
  <2>4. Len(t) = n
    BY <2>1, <2>2, <2>3
  <2>5. \A i \in 1 .. n : i \in 1 .. n - 1 + 1 /\ 1 + i - 1 = i
    BY <2>1
  <2> QED BY <2>2, <2>3, <2>4, <2>5 DEF n
<1> HIDE DEF t
<1>3. Range(s) = {s[i] : i \in 1 .. Len(s)} /\ Range(t) = {t[i] : i \in 1 .. Len(t)}
  BY <1>2, RangeEquality
<1>4. /\ \A i \in 1 .. Len(t) : i \in 1 .. Len(s) /\ i # Len(s)
      /\ \A i \in 1 .. Len(s) : i = Len(s) \/ i \in 1 .. Len(t)
      /\ Len(s) \in 1 .. Len(s)
  BY <1>1, <1>2
<1>5. Injective(t)
  BY <1>2, <1>4 DEF Injective
<1>6. \A i \in 1 .. Len(t) : t[i] \in Range(s) /\ t[i] # s[Len(s)]
  BY <1>2, <1>3, <1>4 DEF Injective
<1>7. \A i \in 1 .. Len(s) : s[i] # s[Len(s)] => s[i] \in Range(t)
  BY <1>2, <1>3, <1>4
<1>8. Range(t) = Range(s) \ {s[Len(s)]}
  BY <1>3, <1>6, <1>7
<1> QED BY <1>2, <1>5, <1>8 DEF Last, t

(* The pages of a list in order, when none of them is being freed.         *)
LEMMA LoadedLists ==
    ASSUME FlashType, Headers, order # <<>>
    PROVE  /\ \A p \in Range(order) : p \in Pages /\ State(p) \in {"ACTIVE", "FULL", "FREEING"}
           /\ \A p \in Range(order) : p # Last(order) => State(p) \in {"FULL", "FREEING"}
           /\ Last(order) \in Range(order)
           /\ Unused(Pages \ Live)
<1>1. order \in Seq(Pages) /\ Range(order) = Live /\ Live \subseteq Pages
  BY DEF Headers, Live
<1>2. \A p \in Range(order) : p \in Pages /\ State(p) \in {"ACTIVE", "FULL", "FREEING"}
  BY <1>1, LiveStates
<1>3. \A p \in Range(order) : p # Last(order) => State(p) \in {"FULL", "FREEING"}
  BY <1>2 DEF Headers
<1>4. Last(order) \in Range(order)
  BY <1>1, RangeMembers
<1>5. Unused(Pages \ Live)
  BY LiveStates DEF Unused
<1> QED BY <1>2, <1>3, <1>4, <1>5

(* Four sequences are concatenated in any grouping.                        *)
LEMMA Associative ==
    ASSUME NEW S, NEW a \in Seq(S), NEW b \in Seq(S), NEW c \in Seq(S), NEW d \in Seq(S)
    PROVE  a \o b \o c \o d = a \o (b \o (c \o d)) /\ b \o (c \o d) \in Seq(S)
<1>1. (a \o b) \o c = a \o (b \o c)
  BY ConcatAssociative
<1> DEFINE bc == b \o c
           cd == c \o d
<1>2. bc \in Seq(S) /\ cd \in Seq(S)
  BY ConcatProperties
<1>3. bc \o d = b \o cd
  BY ConcatAssociative
<1>4. b \o cd \in Seq(S)
  <2> HIDE DEF cd
  <2> QED BY <1>2, ConcatProperties
<1> HIDE DEF bc, cd
<1>5. (a \o bc) \o d = a \o (bc \o d)
  <2>1. \A t \in Seq(S) : (a \o t) \o d = a \o (t \o d)
    BY ConcatAssociative
  <2> QED BY <1>2, <2>1
<1> QED BY <1>1, <1>3, <1>4, <1>5, Zenon DEF bc, cd

(* The page v is freed again, to the free page q: the half filled page     *)
(* itself, or another one.                                                 *)
FreesTo(v, q, target, redo, kept, free) ==
    /\ target = Last(pageList) /\ (redo <=> State(target) = "ACTIVE")
    /\ kept = (IF redo THEN Front(pageList) ELSE pageList)
    /\ free = (IF redo THEN Append(freeList, target) ELSE freeList)
    /\ free # <<>> /\ q = Head(free)
    /\ v \in Live /\ State(v) = "FREEING"
    /\ pageList' = Without(Append(kept, q), v) /\ freeList' = Append(Tail(free), v)

FreesTodo(v, q, target, redo) ==
    todo' = (IF redo THEN <<Erase(target)>> ELSE <<>>)
            \o (IF q = target THEN <<>> ELSE Activate(q))
            \o CopyItems(v, q) \o <<Erase(v)>>

(* The lists that result.                                                  *)
FreedTo(v, q, target, redo, free) ==
    /\ target \in Live /\ v \in Pages /\ (redo => target # v)
    /\ q \in Range(free) /\ q \in Pages
    /\ Range(free) = IF redo THEN (Pages \ Live) \cup {target} ELSE Pages \ Live
    /\ Lists' /\ Back' = q /\ v \in Range(freeList)'
    /\ pageList' \in Seq(Pages) /\ freeList' \in Seq(Pages)
    /\ Range(freeList)' = (Range(free) \ {q}) \cup {v}

LEMMA FreeLists ==
    ASSUME NEW target, NEW redo \in BOOLEAN, NEW kept, NEW free, NEW v, NEW q,
           PagesInv, phase = "freeing", UNCHANGED <<disk, call, findPage, reply>>,
           FreesTo(v, q, target, redo, kept, free)
    PROVE  FreedTo(v, q, target, redo, free)
<1>0. /\ kept = (IF redo THEN Front(pageList) ELSE pageList)
      /\ free = (IF redo THEN Append(freeList, target) ELSE freeList)
      /\ free # <<>> /\ q = Head(free)
      /\ pageList' = Without(Append(kept, q), v) /\ freeList' = Append(Tail(free), v)
  BY Zenon DEF FreesTo
<1>1. /\ target = Last(pageList) /\ (redo <=> State(target) = "ACTIVE")
      /\ v \in Live /\ State(v) = "FREEING"
  BY Zenon DEF FreesTo
<1>2. FlashType' /\ Headers' /\ Live' = Live /\ \A p : State(p)' = State(p)
  BY SameDisk DEF PagesInv
<1>3. /\ order # <<>> /\ pageList = order /\ Injective(freeList) /\ Range(freeList) = Pages \ Live
      /\ freeList \in Seq(Pages) /\ order \in Seq(Pages) /\ Injective(order) /\ Range(order) = Live
      /\ FlashType /\ Headers /\ RamType /\ Live \subseteq Pages
  BY DEF PagesInv, Phases, RamType, Headers, Live
<1>4. /\ \A p \in Live : p \in Pages /\ State(p) \in {"ACTIVE", "FULL", "FREEING"}
      /\ \A p \in Live : p # target => State(p) \in {"FULL", "FREEING"}
      /\ target \in Live /\ Unused(Pages \ Live)
  BY <1>1, <1>3, LoadedLists
<1>5. \A p \in Live : State(p) = "FREEING" => p = v
  BY <1>1, <1>3 DEF Headers
<1>6. redo => target # v
  BY <1>1
<1>7. /\ kept \in Seq(Pages) /\ Injective(kept)
      /\ Range(kept) = IF redo THEN Live \ {target} ELSE Live
  <2>1. CASE redo
    <3>1. kept = Front(order)
      BY <1>0, <1>3, <2>1, Zenon
    <3> QED BY <1>1, <1>3, <2>1, <3>1, FrontRange
  <2>2. CASE ~ redo
    <3>1. kept = order
      BY <1>0, <1>3, <2>2, Zenon
    <3> QED BY <1>3, <2>2, <3>1
  <2> QED BY <2>1, <2>2
<1>8. /\ free \in Seq(Pages) /\ Injective(free)
      /\ Range(free) = IF redo THEN (Pages \ Live) \cup {target} ELSE Pages \ Live
  <2>1. target \in Pages /\ target \notin Range(freeList)
    BY <1>3, <1>4
  <2>2. CASE redo
    <3>1. free = Append(freeList, target)
      BY <1>0, <2>2, Zenon
    <3> QED BY <1>3, <2>1, <2>2, <3>1, AppendRange
  <2>3. CASE ~ redo
    <3>1. free = freeList
      BY <1>0, <2>3, Zenon
    <3> QED BY <1>3, <2>3, <3>1
  <2> QED BY <2>2, <2>3
<1>9. q \in Range(free) /\ q \in Pages
  <2>1. free # <<>> /\ q = Head(free)
    BY <1>0
  <2> QED BY <1>8, <2>1, RangeMembers
<1>10. v \in Range(kept) /\ \A p \in Range(kept) : p = v \/ State(p)' = "FULL"
  <2>1. v \in Range(kept)
    BY <1>1, <1>6, <1>7
  <2>2. \A p \in Range(kept) : p \in Live /\ State(p) # "ACTIVE"
    BY <1>1, <1>4, <1>7
  <2> QED BY <1>2, <1>4, <1>5, <2>1, <2>2
<1>11. Range(kept) \cap Range(free) = {} /\ Range(kept) \cup Range(free) = Pages
  <2>1. CASE redo
    BY <1>3, <1>4, <1>7, <1>8, <2>1
  <2>2. CASE ~ redo
    BY <1>3, <1>7, <1>8, <2>2
  <2> QED BY <2>1, <2>2
<1>12. /\ Lists' /\ Back' = q /\ v \in Range(freeList)'
       /\ pageList' \in Seq(Pages) /\ freeList' \in Seq(Pages)
       /\ Range(freeList)' = (Range(free) \ {q}) \cup {v}
  <2>1. /\ free # <<>> /\ q = Head(free)
        /\ pageList' = Without(Append(kept, q), v) /\ freeList' = Append(Tail(free), v)
    BY <1>0
  <2> QED BY <1>7, <1>8, <1>10, <1>11, <2>1, MoveLists
<1>13. v \in Pages
  BY <1>1, <1>3
<1> QED BY <1>4, <1>6, <1>8, <1>9, <1>12, <1>13 DEF FreedTo

(* What is left to do is the move of v.                                    *)
LEMMA FreeAgain ==
    ASSUME NEW target, NEW redo \in BOOLEAN, NEW kept, NEW free, NEW v, NEW q,
           PagesInv, phase = "freeing", UNCHANGED <<disk, call, findPage, reply>>,
           FreesTo(v, q, target, redo, kept, free), FreesTodo(v, q, target, redo), phase' = "ready"
    PROVE  PagesInv'
<1> DEFINE wipe0 == IF redo THEN <<Erase(target)>> ELSE <<>>
           open0 == IF q = target THEN <<>> ELSE Activate(q)
           move0 == CopyItems(v, q) \o <<Erase(v)>>
<1>0. todo' = wipe0 \o open0 \o CopyItems(v, q) \o <<Erase(v)>>
  BY DEF FreesTodo
<1> HIDE DEF wipe0, open0, move0
<1>1. /\ target = Last(pageList) /\ (redo <=> State(target) = "ACTIVE")
      /\ v \in Live /\ State(v) = "FREEING" /\ phase' = "ready"
  BY Zenon DEF FreesTo
<1>2. FlashType' /\ Headers' /\ Live' = Live /\ \A p : State(p)' = State(p)
  BY SameDisk DEF PagesInv
<1>3. /\ order # <<>> /\ pageList = order /\ Injective(freeList) /\ Range(freeList) = Pages \ Live
      /\ freeList \in Seq(Pages) /\ order \in Seq(Pages) /\ Injective(order) /\ Range(order) = Live
      /\ FlashType /\ Headers /\ RamType /\ Live \subseteq Pages
  BY DEF PagesInv, Phases, RamType, Headers, Live
<1>4. /\ \A p \in Live : p \in Pages /\ State(p) \in {"ACTIVE", "FULL", "FREEING"}
      /\ \A p \in Live : p # target => State(p) \in {"FULL", "FREEING"}
      /\ target \in Live /\ Unused(Pages \ Live)
  BY <1>1, <1>3, LoadedLists
<1>6. redo => target # v
  BY <1>1
<1>12. /\ q \in Range(free) /\ q \in Pages
       /\ Range(free) = IF redo THEN (Pages \ Live) \cup {target} ELSE Pages \ Live
       /\ Lists' /\ Back' = q /\ v \in Range(freeList)'
       /\ pageList' \in Seq(Pages) /\ freeList' \in Seq(Pages)
       /\ Range(freeList)' = (Range(free) \ {q}) \cup {v}
  <2>1. FreedTo(v, q, target, redo, free)
    BY FreeLists
  <2> QED BY <2>1, Zenon DEF FreedTo
<1>8. Range(free) = IF redo THEN (Pages \ Live) \cup {target} ELSE Pages \ Live
  BY <1>12
<1>9. q \in Range(free) /\ q \in Pages
  BY <1>12
<1>13. v \in Pages /\ Fresh(move0, v, q) /\ move0 \in Seq(Ops)
  BY <1>1, <1>3, <1>9, FreshIs DEF move0
<1>14. Erase(target) \in Ops /\ Erase(q) \in Ops /\ Erase(v) \in Ops
  BY <1>3, <1>4, <1>9, <1>13, OpTypes
<1>15. wipe0 \in Seq(Ops) /\ open0 \in Seq(Ops)
  <2>1. <<>> \in Seq(Ops) /\ <<Erase(target)>> \in Seq(Ops) /\ <<Erase(q)>> \in Seq(Ops)
    BY <1>14
  <2>2. wipe0 \in {<<>>, <<Erase(target)>>} /\ open0 \in {<<>>, <<Erase(q)>>}
    BY DEF wipe0, open0, Activate
  <2> QED BY <2>1, <2>2
<1>16. CopyItems(v, q) \in Seq(Ops)
  BY <1>3, <1>9, <1>13, CopyIsOps
<1>17. PICK move, om, wipe : /\ move = move0 /\ om = open0 \o move0 /\ wipe = wipe0
                            /\ todo' = wipe \o om /\ om \in Seq(Ops)
  <2> DEFINE c == CopyItems(v, q)
             e == <<Erase(v)>>
  <2>1. todo' = wipe0 \o open0 \o c \o e
    BY <1>0
  <2>2. e \in Seq(Ops) /\ c \in Seq(Ops)
    BY <1>14, <1>16
  <2> HIDE DEF c, e
  <2>3. wipe0 \o open0 \o c \o e = wipe0 \o (open0 \o (c \o e)) /\ open0 \o (c \o e) \in Seq(Ops)
    BY <1>15, <2>2, Associative
  <2>4. move0 = c \o e
    BY DEF move0, c, e
  <2>5. todo' = wipe0 \o (open0 \o move0) /\ open0 \o move0 \in Seq(Ops)
    BY <2>1, <2>3, <2>4, Zenon
  <2> QED BY <2>5
<1>18. q # target => State(q) \in {"UNINITIALIZED", "CORRUPT"}
  <2>1. q # target => q \in Pages \ Live
    BY <1>8, <1>9
  <2> QED BY <1>4, <2>1 DEF Unused
<1>19. State(v)' = "FREEING" /\ State(Back)' = State(q)
  <2>1. State(v)' = "FREEING"
    BY <1>1, <1>2
  <2>2. State(Back)' = State(q)
    BY <1>12 DEF State, disk
  <2> QED BY <2>1, <2>2
<1>20. /\ q = target \/ State(q) = "UNINITIALIZED" => om = move
       /\ q # target /\ State(q) = "CORRUPT" =>
              om # <<>> /\ Head(om) = Erase(q) /\ Tail(om) = move
  <2>1. q = target \/ State(q) = "UNINITIALIZED" => open0 = <<>>
    BY DEF Activate, State, open0
  <2>2. q # target /\ State(q) = "CORRUPT" => open0 = <<Erase(q)>>
    BY DEF Activate, State, open0
  <2>3. <<>> \o move = move
    BY <1>13, <1>17, ConcatEmptySeq
  <2>4. <<Erase(q)>> \o move # <<>> /\ Head(<<Erase(q)>> \o move) = Erase(q)
        /\ Tail(<<Erase(q)>> \o move) = move
    BY <1>13, <1>14, <1>17, ConsProperties
  <2>5. om = open0 \o move
    BY <1>17
  <2> QED BY <2>1, <2>2, <2>3, <2>4, <2>5
<1>21. om \in Seq(Ops) /\ todo' = wipe \o om /\ wipe = wipe0 /\ Fresh(move, v, q)
  BY <1>13, <1>17
<1>22. /\ ~ redo => todo' = om
       /\ redo => todo' # <<>> /\ Head(todo') = Erase(target) /\ Tail(todo') = om
  <2>1. CASE redo
    <3>1. todo' = <<Erase(target)>> \o om
      BY <1>21, <2>1 DEF wipe0
    <3> QED BY <1>14, <1>21, <2>1, <3>1, ConsProperties
  <2>2. CASE ~ redo
    <3>1. todo' = <<>> \o om
      BY <1>21, <2>2 DEF wipe0
    <3> QED BY <1>21, <2>2, <3>1, ConcatEmptySeq
  <2> QED BY <2>1, <2>2
<1>23. todo' \in Seq(Ops)
  BY <1>15, <1>21, ConcatProperties
<1>24. RamType'
  BY <1>1, <1>3, <1>12, <1>23 DEF RamType, UpPhases, disk
<1>25. CASE q = target
  <2>1. redo
    BY <1>1, <1>3, <1>4, <1>8, <1>9, <1>25
  <2>2. todo' # <<>> /\ Head(todo') = Erase(q) /\ Tail(todo') = move
    BY <1>20, <1>22, <1>25, <2>1
  <2>3. State(Back)' = "ACTIVE"
    BY <1>1, <1>19, <1>25, <2>1
  <2>4. Cleaned(todo, v)'
    BY <1>12, <1>21, <2>2, <2>3 DEF Cleaned
  <2>5. \A p \in Range(freeList)' \ {v} : p \in Pages \ Live
    BY <1>8, <1>12, <1>25
  <2>6. Unused(Range(freeList) \ {v})'
    BY <1>2, <1>4, <2>5 DEF Unused
  <2>7. Freeing(v)'
    BY <1>19, <2>4, <2>6 DEF Freeing
  <2>8. Phases'
    BY <1>1, <1>12, <2>7 DEF Phases, UpPhases, Moving
  <2> QED BY <1>2, <1>24, <2>8 DEF PagesInv
<1>26. CASE q # target
  <2>1. \/ State(q)  = "UNINITIALIZED" /\ Fresh(om, v, q)
        \/ State(q) = "CORRUPT" /\ om # <<>> /\ Head(om) = Erase(q) /\ Fresh(Tail(om), v, q)
    BY <1>18, <1>20, <1>21, <1>26
  <2>2. Cleaned(om, v)'
    BY <1>12, <1>19, <2>1 DEF Cleaned
  <2>3. CASE redo
    <3>1. target \in Range(freeList)' \ {v} /\ State(target)' = "ACTIVE"
      BY <1>1, <1>2, <1>6, <1>8, <1>12, <1>26, <2>3
    <3>2. \A p \in Range(freeList)' \ {v, target} : p \in Pages \ Live
      BY <1>8, <1>12
    <3>3. Unused(Range(freeList) \ {v, target})'
      BY <1>2, <1>4, <3>2 DEF Unused
    <3>4. State(Back)' \in {"UNINITIALIZED", "CORRUPT"}
      BY <1>18, <1>19, <1>26
    <3>5. Cleaned(Tail(todo), v)'
      BY <1>22, <2>2, <2>3 DEF Cleaned
    <3>6. Redoing(v)'
      BY <1>19, <1>22, <2>3, <3>1, <3>3, <3>4, <3>5 DEF Redoing
    <3>7. Phases'
      BY <1>1, <1>12, <3>6 DEF Phases, UpPhases, Moving
    <3> QED BY <1>2, <1>24, <3>7 DEF PagesInv
  <2>4. CASE ~ redo
    <3>1. Cleaned(todo, v)'
      BY <1>22, <2>2, <2>4 DEF Cleaned
    <3>2. \A p \in Range(freeList)' \ {v} : p \in Pages \ Live
      BY <1>8, <1>12, <2>4
    <3>3. Unused(Range(freeList) \ {v})'
      BY <1>2, <1>4, <3>2 DEF Unused
    <3>4. Freeing(v)'
      BY <1>19, <3>1, <3>3 DEF Freeing
    <3>5. Phases'
      BY <1>1, <1>12, <3>4 DEF Phases, UpPhases, Moving
    <3> QED BY <1>2, <1>24, <3>5 DEF PagesInv
  <2> QED BY <2>3, <2>4
<1> QED BY <1>25, <1>26

(* The end of PageManager::load: a page is freed again.                    *)
LEMMA FinishFreeingStep == PagesInv /\ FinishFreeing => PagesInv'
<1> SUFFICES ASSUME PagesInv, FinishFreeing PROVE PagesInv'
  OBVIOUS
<1> DEFINE freeing == {p \in Range(pageList) : flash[p].state = "FREEING"}
           v       == First(pageList, freeing)
           target  == Last(pageList)
           redo    == flash[target].state = "ACTIVE"
           kept    == IF redo THEN Front(pageList) ELSE pageList
           free    == IF redo THEN Append(freeList, target) ELSE freeList
           q       == Head(free)
<1>1. phase = "freeing" /\ todo = <<>> /\ UNCHANGED <<disk, call, findPage, reply>>
  BY DEF FinishFreeing
<1>2. FlashType' /\ Headers' /\ Live' = Live /\ \A p : State(p)' = State(p)
  BY <1>1, SameDisk DEF PagesInv
<1>3. /\ order # <<>> /\ pageList = order /\ Injective(freeList) /\ Range(freeList) = Pages \ Live
      /\ freeList \in Seq(Pages) /\ order \in Seq(Pages) /\ Injective(order) /\ Range(order) = Live
      /\ FlashType /\ Headers /\ RamType /\ Live \subseteq Pages
  BY <1>1 DEF PagesInv, Phases, RamType, Headers, Live
<1>4. /\ \A p \in Live : p \in Pages /\ State(p) \in {"ACTIVE", "FULL", "FREEING"}
      /\ \A p \in Live : p # target => State(p) \in {"FULL", "FREEING"}
      /\ target \in Live /\ Unused(Pages \ Live)
  BY <1>3, LoadedLists
<1>5. redo <=> State(target) = "ACTIVE"
  BY DEF State
<1>6. \A p : p \in freeing <=> p \in Live /\ State(p) = "FREEING"
  BY <1>3 DEF State
<1>7. free = <<>> => freeing = {}
  <2> SUFFICES ASSUME free = <<>>, freeing # {} PROVE FALSE
    OBVIOUS
  <2>1. ~ redo
    BY <1>3, <1>4, AppendRange
  <2>2. freeList = <<>>
    BY <2>1
  <2>3. Pages \ Live = {}
    BY <1>3, <2>2, RangeMembers
  <2>4. PICK p \in Pages : State(p) = "ACTIVE"
    BY <1>3, <2>3 DEF Headers
  <2>5. p = target
    BY <1>3, <2>4 DEF Headers
  <2> QED BY <1>5, <2>1, <2>4, <2>5
<1>8. free = <<>> => ~ redo /\ freeList = <<>>
  BY <1>3, <1>4, AppendRange
<1>9. CASE freeing = {}
  <2>1. free # <<>>
    <3> SUFFICES ASSUME free = <<>> PROVE FALSE
      OBVIOUS
    <3>1. Pages \ Live = {}
      BY <1>3, <1>8, RangeMembers
    <3>2. PICK p \in Pages : State(p) = "FREEING"
      BY <1>3, <3>1 DEF Headers
    <3>3. p \in Live
      BY <1>3, <3>2, LiveStates
    <3> QED BY <1>6, <1>9, <3>2, <3>3
  <2>2. phase' = "ready" /\ UNCHANGED <<pageList, freeList, todo>>
    BY <1>9, <2>1 DEF FinishFreeing
  <2>3. freeList # <<>>
    <3> SUFFICES ASSUME freeList = <<>> PROVE FALSE
      OBVIOUS
    <3>1. Pages \ Live = {}
      BY <1>3, RangeMembers
    <3>2. PICK p \in Pages : State(p) = "FREEING"
      BY <1>3, <3>1 DEF Headers
    <3>3. p \in Live
      BY <1>3, <3>2, LiveStates
    <3> QED BY <1>6, <1>9, <3>2, <3>3
  <2>4. Back = target
    BY DEF Back
  <2>5. \A p \in Live : p = target \/ State(p) = "FULL"
    BY <1>4, <1>6, <1>9
  <2>6. Lists
    BY <1>3, <2>3, <2>4, <2>5 DEF Lists
  <2>7. Plain
    <3>1. State(Back) \in {"ACTIVE", "FULL"}
      BY <1>4, <1>6, <1>9, <2>4
    <3>2. Unused(Range(freeList))
      BY <1>3, <1>4
    <3> QED BY <1>1, <3>1, <3>2, EmptySeq DEF Plain
  <2>8. Plain' /\ Lists'
    <3>1. todo' \in Seq(Data(Live)) /\ UNCHANGED <<disk, pageList, freeList>>
      BY <1>1, <2>2, EmptySeq
    <3> QED BY <1>3, <2>6, <2>7, <3>1, PlainAgain
  <2>9. RamType'
    BY <1>1, <1>3, <2>2 DEF RamType, UpPhases, disk
  <2>10. Phases'
    BY <2>2, <2>8 DEF Phases, UpPhases
  <2> QED BY <1>2, <2>9, <2>10 DEF PagesInv
<1>10. CASE freeing # {}
  <2>1. /\ pageList' = Without(Append(kept, q), v) /\ freeList' = Append(Tail(free), v)
        /\ todo' = (IF redo THEN <<Erase(target)>> ELSE <<>>)
                   \o (IF q = target THEN <<>> ELSE Activate(q))
                   \o CopyItems(v, q) \o <<Erase(v)>>
        /\ phase' = "ready"
    BY <1>7, <1>10 DEF FinishFreeing
  <2>2. free # <<>>
    BY <1>7, <1>10
  <2>3. v \in Live /\ State(v) = "FREEING"
    <3>1. freeing \subseteq Range(pageList) /\ pageList \in Seq(Pages)
      BY <1>3
    <3> HIDE DEF freeing
    <3>2. v \in freeing
      BY <1>10, <3>1, FoundIsThere
    <3> QED BY <1>6, <3>2
  <2>4. kept = (IF redo THEN Front(pageList) ELSE pageList)
        /\ free = (IF redo THEN Append(freeList, target) ELSE freeList)
        /\ q = Head(free) /\ target = Last(pageList)
    OBVIOUS
  <2>5. redo \in BOOLEAN
    OBVIOUS
  <2> HIDE DEF freeing, v, target, redo, kept, free, q
  <2>6. \E v0, target0, redo0, kept0, free0, q0 :
           v0 = v /\ target0 = target /\ redo0 = redo /\ kept0 = kept /\ free0 = free /\ q0 = q
    OBVIOUS
  <2>7. PICK v0, target0, redo0, kept0, free0, q0 :
           v0 = v /\ target0 = target /\ redo0 = redo /\ kept0 = kept /\ free0 = free /\ q0 = q
    BY <2>6
  <2>8. /\ pageList' = Without(Append(kept0, q0), v0) /\ freeList' = Append(Tail(free0), v0)
        /\ FreesTodo(v0, q0, target0, redo0)
    BY <2>1, <2>7, Zenon DEF FreesTodo
  <2>9. /\ kept0 = (IF redo0 THEN Front(pageList) ELSE pageList)
        /\ free0 = (IF redo0 THEN Append(freeList, target0) ELSE freeList)
        /\ q0 = Head(free0) /\ target0 = Last(pageList) /\ free0 # <<>>
        /\ v0 \in Live /\ State(v0) = "FREEING"
    BY <2>2, <2>3, <2>4, <2>7
  <2>10. redo0 \in BOOLEAN /\ (redo0 <=> State(target0) = "ACTIVE")
    BY <1>5, <2>5, <2>7
  <2>11. FreesTo(v0, q0, target0, redo0, kept0, free0)
    BY <2>8, <2>9, <2>10, Zenon DEF FreesTo
  <2> QED BY <1>1, <2>1, <2>8, <2>10, <2>11, FreeAgain
<1> QED BY <1>9, <1>10


(* An item that fits goes behind the header of the current page, or into   *)
(* it.                                                                     *)
LEMMA WriteTodo ==
    ASSUME FlashType, Headers, RamType, Lists, Plain, UNCHANGED <<disk, pageList, freeList>>,
           NEW k \in Keys, NEW v \in Values, Fits(Back, v), todo' = WriteItem(Back, k, v)
    PROVE  todo' \in Seq(Ops) /\ Lists' /\ (Plain' \/ Opening')
<1>1. PICK b : b = Back /\ b \in Pages
  BY BackIsPage
<1>2. PICK d \in Seq(Data({b})) : WriteItem(b, k, v) = Initialize(b) \o d
  BY <1>1, WriteItemType
<1>3. todo' = Initialize(b) \o d
  BY <1>1, <1>2
<1>4. Lists' /\ Back' = b /\ Unused(Range(freeList))'
  BY <1>1, SameLists DEF Plain
<1>5. Live' = Live /\ State(Back)' = State(b)
  BY <1>1, <1>4, SameDisk
<1>6. d \in Seq(Ops) /\ Header(b) \in Ops
  BY <1>1, DataAreOps, OpTypes
<1>7. CASE State(b) = "UNINITIALIZED"
  <2>1. todo' = <<Header(b)>> \o d
    BY <1>3, <1>7 DEF Initialize, State
  <2>2. todo' \in Seq(Ops) /\ todo' # <<>> /\ Head(todo') = Header(b) /\ Tail(todo') = d
    BY <1>6, <2>1, ConsProperties
  <2>3. Opening'
    BY <1>4, <1>5, <1>7, <2>2 DEF Opening
  <2> QED BY <1>4, <2>2, <2>3
<1>8. CASE State(b) # "UNINITIALIZED"
  <2>1. Initialize(b) = <<>>
    BY <1>8 DEF Initialize, State
  <2>2. todo' = d
    BY <1>3, <1>6, <2>1, ConcatEmptySeq
  <2>3. State(b) = "ACTIVE"
    BY <1>1, <1>8 DEF Plain, Fits, State
  <2>4. b \in Live
    BY <1>1, <2>3 DEF Live, Loaded
  <2>5. d \in Seq(Data(Live))
    BY <2>4, DataMonotone
  <2>6. Plain'
    BY <1>4, <1>5, <2>2, <2>3, <2>5 DEF Plain
  <2> QED BY <1>4, <1>6, <2>2, <2>6
<1> QED BY <1>7, <1>8

(* Everything fits on an erased page.                                      *)
LEMMA FitsErased ==
    ASSUME Headers, NEW p \in Pages, State(p) = "UNINITIALIZED", NEW v \in Values
    PROVE  Fits(p, v)
<1>1. flash[p] = ErasedPage /\ flash[p].state # "FULL"
  BY DEF Headers, State
<1>2. EntryCount \in Nat /\ Span(v) \in Nat /\ Span(v) >= 1 /\ Span(v) <= EntryCount
  BY SpanType, NvsAssumption
<1>3. 0 \in {i \in Entries : flash[p].table[i] = "EMPTY"}
  BY <1>1, <1>2 DEF Entries, ErasedPage, EmptyTable
<1>4. NextFree(flash[p]) = 0
  <2> DEFINE S == {i \in Entries : flash[p].table[i] = "EMPTY"}
  <2>1. S \cup {EntryCount} \in SUBSET Nat /\ 0 \in S \cup {EntryCount}
    BY <1>2, <1>3, EntriesAreNat
  <2>2. NextFree(flash[p]) = Min(S \cup {EntryCount})
    BY DEF NextFree
  <2> HIDE DEF S
  <2> DEFINE U == S \cup {EntryCount}
  <2>3. U \in SUBSET Nat /\ 0 \in U /\ U # {}
    BY <2>1
  <2> HIDE DEF U
  <2>4. Min(U) \in Nat /\ Min(U) <= 0
    BY <2>3, MinIsLeast
  <2> QED BY <2>2, <2>4 DEF U
<1> QED BY <1>1, <1>2, <1>4 DEF Fits

(* nvs_set_*: the item is queued, or the current page closed.              *)
LEMMA SetItemStep == PagesInv /\ SetItem => PagesInv'
<1> SUFFICES ASSUME PagesInv, SetItem PROVE PagesInv'
  OBVIOUS
<1>1. phase = "ready" /\ todo = <<>> /\ reply' = "none" /\ UNCHANGED <<disk, pageList, freeList>>
  BY DEF SetItem
<1>2. PICK k \in Keys, v \in Values :
          /\ call' = [op |-> "set", key |-> k, value |-> v]
          /\ findPage' = FindPage(k)
          /\ IF Fits(Back, v)
             THEN todo' = WriteItem(Back, k, v) /\ phase' = "written"
             ELSE todo' = MarkFull(Back) /\ phase' = "request"
  <2>1. \A k \in Keys : ValuesOf[k] \subseteq Values
    BY DEF Values
  <2> QED BY <2>1 DEF SetItem
<1>3. v \in Values
  OBVIOUS
<1>4. FlashType /\ Headers /\ RamType /\ Lists /\ Plain
  BY <1>1, IdleIsPlain DEF PagesInv, UpPhases
<1>5. FlashType' /\ Headers' /\ Live' = Live /\ \A p : State(p)' = State(p)
  BY <1>1, <1>4, SameDisk
<1>6. call'.key = k /\ call'.value = v
  BY <1>2
<1>7. findPage' \in Pages \cup {None}
  BY <1>2, <1>4, FindPageType DEF RamType
<1>8. CASE Fits(Back, v)
  <2>1. todo' = WriteItem(Back, k, v) /\ phase' = "written"
    BY <1>2, <1>8
  <2>2. todo' \in Seq(Ops) /\ Lists' /\ (Plain' \/ Opening')
    BY <1>1, <1>3, <1>4, <1>8, <2>1, WriteTodo
  <2>3. RamType'
    BY <1>1, <1>3, <1>4, <1>6, <1>7, <2>1, <2>2 DEF RamType, UpPhases, disk
  <2>4. Phases'
    BY <2>1, <2>2 DEF Phases, UpPhases
  <2> QED BY <1>5, <2>3, <2>4 DEF PagesInv
<1>9. CASE ~ Fits(Back, v)
  <2>1. todo' = MarkFull(Back) /\ phase' = "request"
    BY <1>2, <1>9
  <2>2. PICK b : b = Back /\ b \in Pages
    BY <1>4, BackIsPage
  <2>3. Lists' /\ Back' = b /\ Unused(Range(freeList))' /\ State(Back)' = State(b)
    <3>1. Lists' /\ Back' = b /\ Unused(Range(freeList))'
      BY <1>1, <1>4, <2>2, SameLists DEF Plain
    <3>2. State(Back)' = State(b)
      BY <1>1, <3>1 DEF State, disk
    <3> QED BY <3>1, <3>2
  <2>4. State(b) # "UNINITIALIZED"
    BY <1>3, <1>4, <1>9, <2>2, FitsErased
  <2>5. CASE State(b) = "FULL"
    <3>1. todo' = <<>>
      BY <2>1, <2>2, <2>5 DEF MarkFull, State
    <3>2. todo' \in Seq(Ops) /\ todo' \in Seq(Data(Live))'
      BY <3>1
    <3>3. Plain'
      BY <2>3, <2>5, <3>2 DEF Plain
    <3>4. RamType'
      BY <1>1, <1>3, <1>4, <1>6, <1>7, <2>1, <3>2 DEF RamType, UpPhases, disk
    <3>5. Phases'
      BY <2>1, <2>3, <2>5, <3>1, <3>3 DEF Phases, UpPhases
    <3> QED BY <1>5, <3>4, <3>5 DEF PagesInv
  <2>6. CASE State(b) = "ACTIVE"
    <3>1. todo' = <<PageState(b, "FULL")>>
      BY <2>1, <2>2, <2>6 DEF MarkFull, State
    <3>2. todo' \in Seq(Ops)
      BY <2>2, <3>1, OpTypes
    <3>3. Closing'
      BY <2>3, <2>6, <3>1 DEF Closing
    <3>4. RamType'
      BY <1>1, <1>3, <1>4, <1>6, <1>7, <2>1, <3>2 DEF RamType, UpPhases, disk
    <3>5. Phases'
      BY <2>1, <2>3, <3>3 DEF Phases, UpPhases
    <3> QED BY <1>5, <3>4, <3>5 DEF PagesInv
  <2> QED BY <1>4, <2>2, <2>4, <2>5, <2>6 DEF Plain
<1> QED BY <1>8, <1>9

(* nvs_set_*: the item is queued for the new page.                         *)
LEMMA WriteAgainStep == PagesInv /\ WriteAgain => PagesInv'
<1> SUFFICES ASSUME PagesInv, WriteAgain PROVE PagesInv'
  OBVIOUS
<1>1. phase = "again" /\ todo = <<>> /\ UNCHANGED <<disk, pageList, freeList, call, findPage, reply>>
  BY DEF WriteAgain
<1>2. FlashType /\ Headers /\ RamType /\ Lists /\ Plain
  BY <1>1, IdleIsPlain DEF PagesInv, UpPhases
<1>3. FlashType' /\ Headers'
  BY <1>1, <1>2, SameDisk
<1>4. call.key \in Keys /\ call.value \in Values
  BY <1>1, <1>2 DEF RamType
<1>5. CASE Fits(Back, call.value)
  <2>1. todo' = WriteItem(Back, call.key, call.value) /\ phase' = "written"
    BY <1>5 DEF WriteAgain
  <2>2. PICK k \in Keys, v \in Values : k = call.key /\ v = call.value
    BY <1>4
  <2>3. Fits(Back, v) /\ todo' = WriteItem(Back, k, v)
    BY <1>5, <2>1, <2>2
  <2>4. todo' \in Seq(Ops) /\ Lists' /\ (Plain' \/ Opening')
    BY <1>1, <1>2, <2>3, WriteTodo
  <2>5. RamType'
    BY <1>1, <1>2, <1>4, <2>1, <2>4 DEF RamType, UpPhases, disk
  <2>6. Phases'
    BY <2>1, <2>4 DEF Phases, UpPhases
  <2> QED BY <1>3, <2>5, <2>6 DEF PagesInv
<1>6. CASE ~ Fits(Back, call.value)
  <2>1. todo' = <<>> /\ phase' = "error"
    BY <1>6 DEF WriteAgain
  <2>2. todo' \in Seq(Ops) /\ todo' \in Seq(Data(Live))
    BY <2>1
  <2>3. Plain' /\ Lists'
    BY <1>1, <1>2, <2>2, PlainAgain
  <2>4. RamType'
    BY <1>1, <1>2, <2>1, <2>2 DEF RamType, UpPhases, disk
  <2>5. Phases'
    BY <2>1, <2>3 DEF Phases, UpPhases
  <2> QED BY <1>3, <2>4, <2>5 DEF PagesInv
<1> QED BY <1>5, <1>6

(* nvs_set_*: the item that is replaced is erased.                         *)
LEMMA EraseOldStep == PagesInv /\ EraseOld => PagesInv'
<1> SUFFICES ASSUME PagesInv, EraseOld PROVE PagesInv'
  OBVIOUS
<1> DEFINE k == call.key
           p == IF flash[findPage].state = "UNINITIALIZED" THEN FindPage(k) ELSE findPage
<1>1. phase = "written" /\ todo = <<>> /\ UNCHANGED <<disk, pageList, freeList, call, findPage, reply>>
  BY DEF EraseOld
<1>2. FlashType /\ Headers /\ RamType /\ Lists /\ Plain
  BY <1>1, IdleIsPlain DEF PagesInv, UpPhases
<1>3. FlashType' /\ Headers'
  BY <1>1, <1>2, SameDisk
<1>4. todo' \in Seq(Data(Live)) /\ phase' \in {"stored", "error"}
  <2>1. CASE findPage = None
    BY <2>1, EmptySeq DEF EraseOld
  <2>2. CASE findPage # None /\ (p = None \/ CopiesOf(k, flash[p]) = {})
    BY <2>2, EmptySeq DEF EraseOld
  <2>3. CASE findPage # None /\ p # None /\ CopiesOf(k, flash[p]) # {}
    <3>1. todo' = EraseKey(p, k) /\ phase' = "stored"
      BY <2>3 DEF EraseOld
    <3>2. p \in Pages
      BY <1>2, <2>3, FindPageType DEF RamType
    <3> HIDE DEF p, k
    <3>3. Visited(flash[p]) # {}
      BY <2>3, CopiesType
    <3>4. p \in Live
      BY <1>2, <3>2, <3>3, WrittenIsLive
    <3>5. EraseKey(p, k) \in Seq(Data(Live))
      BY <1>2, <2>3, <3>2, <3>4, EraseKeyType
    <3> QED BY <3>1, <3>5
  <2> QED BY <2>1, <2>2, <2>3
<1>5. Plain' /\ Lists'
  BY <1>1, <1>2, <1>4, PlainAgain
<1>6. todo' \in Seq(Ops)
  <2>1. Live \in SUBSET Pages
    BY DEF Live
  <2> QED BY <1>4, <2>1, DataAreOps
<1>7. RamType'
  BY <1>1, <1>2, <1>4, <1>6 DEF RamType, UpPhases, disk
<1>8. Phases'
  BY <1>4, <1>5 DEF Phases, UpPhases
<1> QED BY <1>3, <1>7, <1>8 DEF PagesInv

(* nvs_erase_all begins.                                                   *)
LEMMA EraseAllStep == PagesInv /\ EraseAll => PagesInv'
<1> SUFFICES ASSUME PagesInv, EraseAll PROVE PagesInv'
  OBVIOUS
<1>1. phase = "ready" /\ todo = <<>> /\ todo' = todo /\ UNCHANGED <<disk, pageList, freeList, findPage>>
      /\ phase' = "clearing" /\ reply' = "none"
  BY DEF EraseAll
<1>2. FlashType /\ Headers /\ RamType /\ Lists /\ Plain
  BY <1>1, IdleIsPlain DEF PagesInv, UpPhases
<1>3. FlashType' /\ Headers'
  BY <1>1, <1>2, SameDisk
<1>4. todo' \in Seq(Data(Live)) /\ todo' \in Seq(Ops)
  BY <1>1, EmptySeq
<1>5. Plain' /\ Lists'
  BY <1>1, <1>2, <1>4, PlainAgain
<1>6. RamType'
  BY <1>1, <1>2, <1>4 DEF RamType, UpPhases, disk
<1>7. Phases'
  BY <1>1, <1>5 DEF Phases, UpPhases
<1> QED BY <1>3, <1>6, <1>7 DEF PagesInv

(* nvs_erase_all: the next item is erased.                                 *)
LEMMA EraseNextStep == PagesInv /\ EraseNext => PagesInv'
<1> SUFFICES ASSUME PagesInv, EraseNext PROVE PagesInv'
  OBVIOUS
<1> DEFINE ns    == call.namespace
           pages == {r \in Range(pageList) : ItemsOf(ns, r) # {}}
           p     == First(pageList, pages)
<1>1. phase = "clearing" /\ todo = <<>> /\ UNCHANGED <<disk, pageList, freeList, call, findPage, reply>>
  BY DEF EraseNext
<1>2. FlashType /\ Headers /\ RamType /\ Lists /\ Plain
  BY <1>1, IdleIsPlain DEF PagesInv, UpPhases
<1>3. FlashType' /\ Headers'
  BY <1>1, <1>2, SameDisk
<1>4. todo' \in Seq(Data(Live)) /\ phase' \in {"stored", "clearing"}
  <2>1. CASE pages = {}
    BY <2>1, EmptySeq DEF EraseNext
  <2>2. CASE pages # {}
    <3>1. todo' = EraseItem(p, Min(ItemsOf(ns, p))) /\ phase' = "clearing"
      BY <2>2 DEF EraseNext
    <3>2. pages \subseteq Range(pageList) /\ pageList \in Seq(Pages)
      BY <1>2 DEF RamType
    <3>3. \A r \in pages : ItemsOf(ns, r) # {}
      OBVIOUS
    <3> HIDE DEF pages
    <3>4. p \in pages /\ p \in Pages
      BY <2>2, <3>2, FoundIsThere
    <3>5. ItemsOf(ns, p) # {}
      BY <3>3, <3>4
    <3> HIDE DEF p, ns
    <3>6. ItemsOf(ns, p) \in SUBSET Visited(flash[p])
      BY CopiesType DEF ItemsOf
    <3>7. p \in Live
      <4>1. Visited(flash[p]) # {}
        BY <3>5, <3>6
      <4> QED BY <1>2, <3>4, <4>1, WrittenIsLive
    <3>8. Min(ItemsOf(ns, p)) \in Entries
      <4>1. ItemsOf(ns, p) \in SUBSET Entries /\ ItemsOf(ns, p) \in SUBSET Nat
        BY <3>6, CopiesType, EntriesAreNat
      <4> QED BY <3>5, <4>1, MinIsLeast
    <3>9. EraseItem(p, Min(ItemsOf(ns, p))) \in Seq(Data(Live))
      BY <1>2, <3>4, <3>7, <3>8, EraseItemType
    <3> QED BY <3>1, <3>9
  <2> QED BY <2>1, <2>2
<1>5. Plain' /\ Lists'
  BY <1>1, <1>2, <1>4, PlainAgain
<1>6. todo' \in Seq(Ops)
  <2>1. Live \in SUBSET Pages
    BY DEF Live
  <2> QED BY <1>4, <2>1, DataAreOps
<1>7. RamType'
  BY <1>1, <1>2, <1>4, <1>6 DEF RamType, UpPhases, disk
<1>8. Phases'
  BY <1>4, <1>5 DEF Phases, UpPhases
<1> QED BY <1>3, <1>7, <1>8 DEF PagesInv

(* The call returns.                                                       *)
LEMMA ReturnStep == PagesInv /\ Return => PagesInv'
<1> SUFFICES ASSUME PagesInv, Return PROVE PagesInv'
  OBVIOUS
<1>1. /\ phase \in {"stored", "error"} /\ todo = <<>> /\ phase' = "ready"
      /\ UNCHANGED <<disk, pageList, freeList, todo>>
      /\ findPage' = None /\ reply' \in {"ok", "error"}
  BY DEF Return
<1>2. FlashType /\ Headers /\ RamType /\ Lists /\ Plain
  BY <1>1, IdleIsPlain DEF PagesInv, UpPhases
<1>3. FlashType' /\ Headers'
  BY <1>1, <1>2, SameDisk
<1>4. todo' \in Seq(Data(Live)) /\ todo' \in Seq(Ops)
  BY <1>1, EmptySeq
<1>5. Plain' /\ Lists'
  BY <1>1, <1>2, <1>4, PlainAgain
<1>6. RamType'
  BY <1>1, <1>2, <1>4 DEF RamType, UpPhases, disk
<1>7. Phases'
  BY <1>1, <1>5 DEF Phases, UpPhases
<1> QED BY <1>3, <1>6, <1>7 DEF PagesInv

-----------------------------------------------------------------------------
(* The page that is moved is one of the list.                              *)
LEMMA VictimIsThere ==
    ASSUME pageList \in Seq(Pages), pageList # <<>>
    PROVE  Victim \in Range(pageList) /\ Victim \in Pages
<1> DEFINE R == Range(pageList)
           S == {Used(p) : p \in R}
           most == {p \in R : \A q \in R : Used(p) <= Used(q)}
<1>1. R # {} /\ R \in SUBSET Pages
  BY RangeMembers
<1>2. \A p : Used(p) \in Nat
  <2>1. EntryCount \in Nat
    BY NvsAssumption
  <2>2. IsFiniteSet(Entries)
    BY <2>1, FS_Interval DEF Entries
  <2> TAKE p
  <2> DEFINE W == {i \in Entries : flash[p].table[i] = "WRITTEN"}
  <2>3. W \subseteq Entries
    OBVIOUS
  <2> HIDE DEF W
  <2>4. Cardinality(W) \in Nat
    BY <2>2, <2>3, FS_Subset, FS_CardinalityType
  <2> QED BY <2>4 DEF Used, W
<1>3. S \in SUBSET Nat /\ S # {}
  BY <1>1, <1>2
<1>4. PICK n \in S : \A m \in S : n <= m
  <2> HIDE DEF S
  <2> QED BY <1>3, Least
<1>5. PICK p \in R : n = Used(p)
  BY <1>4
<1>6. p \in most
  BY <1>4, <1>5
<1>7. most # {} /\ most \subseteq R
  BY <1>6
<1>8. Victim = First(pageList, most)
  BY DEF Victim
<1> HIDE DEF most
<1> QED BY <1>7, <1>8, FoundIsThere DEF R

(* A page is taken from the free list, or a victim moved there.            *)
LEMMA RequestNewPageStep == PagesInv /\ RequestNewPage => PagesInv'
<1> SUFFICES ASSUME PagesInv, RequestNewPage PROVE PagesInv'
  OBVIOUS
<1>1. phase = "request" /\ todo = <<>> /\ UNCHANGED <<disk, call, findPage, reply>>
  BY DEF RequestNewPage
<1>2. FlashType /\ Headers /\ RamType /\ Lists /\ Plain /\ State(Back) = "FULL"
  BY <1>1, IdleIsPlain DEF PagesInv, UpPhases
<1>3. FlashType' /\ Headers' /\ \A p : State(p)' = State(p)
  BY <1>1, <1>2, SameDisk
<1>4. PICK q, v, a : q = Head(freeList) /\ v = Victim /\ a = Activate(q)
  OBVIOUS
<1>5. /\ pageList \in Seq(Pages) /\ freeList \in Seq(Pages) /\ pageList # <<>> /\ freeList # <<>>
      /\ Injective(pageList) /\ Injective(freeList)
      /\ Range(pageList) \cap Range(freeList) = {} /\ Range(pageList) \cup Range(freeList) = Pages
  BY <1>2 DEF RamType, Lists
<1>6. q \in Range(freeList) /\ q \in Pages /\ q \notin Range(pageList)
  BY <1>4, <1>5, RangeMembers
<1>7. v \in Range(pageList) /\ v \in Pages
  BY <1>4, <1>5, VictimIsThere
<1>8. \A p \in Range(pageList) : State(p) = "FULL"
  BY <1>2 DEF Lists
<1>9. State(q) \in {"UNINITIALIZED", "CORRUPT"}
  BY <1>2, <1>6 DEF Plain, Unused
<1>10. /\ State(q) = "UNINITIALIZED" => a = <<>>
       /\ State(q) = "CORRUPT" => a = <<Erase(q)>>
  BY <1>4 DEF Activate, State
<1>11. Erase(q) \in Ops /\ PageState(v, "FREEING") \in Ops
  BY <1>6, <1>7, OpTypes
<1>12. a \in Seq(Ops)
  <2>1. <<>> \in Seq(Ops) /\ <<Erase(q)>> \in Seq(Ops)
    BY <1>11
  <2> QED BY <1>9, <1>10, <2>1
<1>13. \/ phase' = "error" /\ UNCHANGED <<pageList, freeList, todo>>
       \/ /\ TwoFree /\ pageList' = Append(pageList, q) /\ freeList' = Tail(freeList)
          /\ todo' = a /\ phase' = "again"
       \/ /\ ~ TwoFree /\ pageList' = Without(Append(pageList, q), v) /\ freeList' = <<v>>
          /\ todo' = a \o <<PageState(v, "FREEING")>> \o CopyItems(v, q) \o <<Erase(v)>>
          /\ phase' = "again"
  BY <1>4 DEF RequestNewPage
<1>14. CASE phase' = "error" /\ UNCHANGED <<pageList, freeList, todo>>
  <2>1. todo' = <<>>
    BY <1>1, <1>14
  <2>2. todo' \in Seq(Ops) /\ todo' \in Seq(Data(Live))
    BY <2>1
  <2>3. Plain' /\ Lists'
    BY <1>1, <1>2, <1>14, <2>2, PlainAgain
  <2>4. RamType'
    BY <1>1, <1>2, <1>14, <2>2 DEF RamType, UpPhases, disk
  <2>5. Phases'
    BY <1>14, <2>3 DEF Phases, UpPhases
  <2> QED BY <1>3, <2>4, <2>5 DEF PagesInv
<1>15. CASE /\ TwoFree /\ pageList' = Append(pageList, q) /\ freeList' = Tail(freeList)
            /\ todo' = a /\ phase' = "again"
  <2>1. /\ pageList' \in Seq(Pages) /\ Injective(pageList') /\ pageList' # <<>>
        /\ Range(pageList') = Range(pageList) \cup {q} /\ Last(pageList') = q
    <3> DEFINE t == Append(pageList, q)
    <3>1. /\ t \in Seq(Pages) /\ Injective(t) /\ t # <<>>
          /\ Range(t) = Range(pageList) \cup {q} /\ Last(t) = q
      BY <1>5, <1>6, AppendRange
    <3>2. pageList' = t
      BY <1>15
    <3> HIDE DEF t
    <3> QED BY <3>1, <3>2
  <2>2. /\ freeList' \in Seq(Pages) /\ Injective(freeList') /\ freeList' # <<>>
        /\ Range(freeList') = Range(freeList) \ {q}
    <3> DEFINE t == Tail(freeList)
    <3>1. t \in Seq(Pages) /\ Injective(t) /\ Range(t) = Range(freeList) \ {q}
      BY <1>4, <1>5, TailRange
    <3>2. t # <<>>
      <4>1. Len(freeList) >= 2 /\ Len(t) = Len(freeList) - 1
        BY <1>5, <1>15, HeadTailProperties DEF TwoFree
      <4>2. Len(t) # 0
        BY <1>5, <4>1
      <4> QED BY <3>1, <4>2, EmptySeq
    <3>3. freeList' = t
      BY <1>15
    <3> HIDE DEF t
    <3> QED BY <3>1, <3>2, <3>3
  <2>3. Back' = q /\ State(Back)' = State(q)
    <3>1. Back' = q
      BY <2>1 DEF Back
    <3> QED BY <1>1, <3>1 DEF State, disk
  <2>4. Lists'
    <3>1. Range(pageList') \cap Range(freeList') = {} /\ Range(pageList') \cup Range(freeList') = Pages
      BY <1>5, <1>6, <2>1, <2>2
    <3>2. \A p \in Range(pageList') : p = q \/ State(p)' = "FULL"
      BY <1>3, <1>8, <2>1
    <3> QED BY <2>1, <2>2, <2>3, <3>1, <3>2 DEF Lists
  <2>5. Unused(Range(freeList))'
    BY <1>2, <1>3, <2>2 DEF Plain, Unused
  <2>6. todo' \in Seq(Ops)
    BY <1>15, <1>12
  <2>7. RamType'
    BY <1>1, <1>2, <1>15, <2>1, <2>2, <2>6 DEF RamType, UpPhases, disk
  <2>8. Plain' \/ Wiping'
    <3>1. CASE State(q) = "UNINITIALIZED"
      <4>1. todo' = <<>>
        BY <1>10, <1>15, <3>1
      <4>2. todo' \in Seq(Data(Live))'
        BY <4>1
      <4> QED BY <2>3, <2>5, <3>1, <4>2 DEF Plain
    <3>2. CASE State(q) = "CORRUPT"
      <4>1. todo' = <<Erase(q)>>
        BY <1>10, <1>15, <3>2
      <4> QED BY <2>3, <2>5, <3>2, <4>1 DEF Wiping
    <3> QED BY <1>9, <3>1, <3>2
  <2>9. Phases'
    BY <1>15, <2>4, <2>8 DEF Phases, UpPhases
  <2> QED BY <1>3, <2>7, <2>9 DEF PagesInv
<1>16. CASE /\ ~ TwoFree /\ pageList' = Without(Append(pageList, q), v) /\ freeList' = <<v>>
            /\ todo' = a \o <<PageState(v, "FREEING")>> \o CopyItems(v, q) \o <<Erase(v)>>
            /\ phase' = "again"
  <2>1. freeList' = Append(Tail(freeList), v)
    <3>1. Len(freeList) = 1
      <4>1. Len(freeList) \in Nat /\ Len(freeList) # 0
        BY <1>5, EmptySeq
      <4>2. ~ (Len(freeList) >= 2)
        BY <1>16 DEF TwoFree
      <4> QED BY <4>1, <4>2
    <3>2. Tail(freeList) = <<>>
      <4>1. Tail(freeList) \in Seq(Pages) /\ Len(Tail(freeList)) = 0
        BY <1>5, <3>1, HeadTailProperties
      <4> QED BY <4>1, EmptySeq
    <3>3. Append(<<>>, v) = <<v>>
      OBVIOUS
    <3> QED BY <1>16, <3>2, <3>3
  <2>2. /\ Lists' /\ Back' = q /\ v \in Range(freeList)'
        /\ pageList' \in Seq(Pages) /\ freeList' \in Seq(Pages)
        /\ Range(freeList)' = (Range(freeList) \ {q}) \cup {v}
    <3>1. \A p \in Range(pageList) : p = v \/ State(p)' = "FULL"
      BY <1>3, <1>8
    <3>2. pageList' = Without(Append(pageList, Head(freeList)), v)
      BY <1>4, <1>16
    <3>3. \A s \in Seq(Pages) : Range(s) \cup Range(freeList) = Range(freeList) \cup Range(s)
      OBVIOUS
    <3> QED BY <1>4, <1>5, <1>7, <2>1, <3>1, <3>2, MoveLists
  <2>3. State(Back)' = State(q) /\ State(v)' = "FULL"
    BY <1>1, <1>3, <1>7, <1>8, <2>2 DEF State, disk
  <2>4. Unused(Range(freeList) \ {v})'
    BY <1>2, <1>3, <2>2 DEF Plain, Unused
  <2>5. PICK m : m = CopyItems(v, q) \o <<Erase(v)>>
    OBVIOUS
  <2>6. Fresh(m, v, q) /\ m \in Seq(Ops)
    BY <1>2, <1>6, <1>7, <2>5, FreshIs
  <2>7. PICK t : t = <<PageState(v, "FREEING")>> \o m
    OBVIOUS
  <2>8. t \in Seq(Ops) /\ t # <<>> /\ Head(t) = PageState(v, "FREEING") /\ Tail(t) = m
    BY <1>11, <2>6, <2>7, ConsProperties
  <2>9. todo' = a \o t
    <3>1. a \in Seq(Ops) /\ <<PageState(v, "FREEING")>> \in Seq(Ops) /\ <<Erase(v)>> \in Seq(Ops)
      <4>1. Erase(v) \in Ops
        BY <1>7, OpTypes
      <4> QED BY <1>11, <1>12, <4>1
    <3>2. CopyItems(v, q) \in Seq(Ops)
      BY <1>2, <1>6, <1>7, CopyIsOps
    <3>3. PICK b, c, d : b = <<PageState(v, "FREEING")>> /\ c = CopyItems(v, q) /\ d = <<Erase(v)>>
      OBVIOUS
    <3>4. a \o b \o c \o d = a \o (b \o (c \o d))
      BY <3>1, <3>2, <3>3, Associative
    <3> QED BY <1>16, <2>5, <2>7, <3>3, <3>4
  <2>10. Marking(v)' /\ todo' \in Seq(Ops)
    <3>1. CASE State(q) = "UNINITIALIZED"
      <4>1. todo' = t
        BY <1>10, <2>8, <2>9, <3>1, ConcatEmptySeq
      <4>2. Fresh(Tail(todo'), v, q)
        BY <2>6, <2>8, <4>1
      <4> QED BY <2>2, <2>3, <2>4, <2>8, <3>1, <4>1, <4>2 DEF Marking
    <3>2. CASE State(q) = "CORRUPT"
      <4>1. todo' = <<Erase(q)>> \o t
        BY <1>10, <2>9, <3>2
      <4>2. todo' \in Seq(Ops) /\ todo' # <<>> /\ Head(todo') = Erase(q) /\ Tail(todo') = t
        BY <1>11, <2>8, <4>1, ConsProperties
      <4>3. Fresh(Tail(Tail(todo')), v, q) /\ Tail(todo') # <<>>
            /\ Head(Tail(todo')) = PageState(v, "FREEING")
        BY <2>6, <2>8, <4>2
      <4> QED BY <2>2, <2>3, <2>4, <3>2, <4>2, <4>3 DEF Marking
    <3> QED BY <1>9, <3>1, <3>2
  <2>11. RamType'
    BY <1>1, <1>2, <1>16, <2>2, <2>10 DEF RamType, UpPhases, disk
  <2>12. Phases'
    <3>1. Moving'
      BY <2>2, <2>10 DEF Moving
    <3> QED BY <1>16, <2>2, <3>1 DEF Phases, UpPhases
  <2> QED BY <1>3, <2>11, <2>12 DEF PagesInv
<1> QED BY <1>13, <1>14, <1>15, <1>16

-----------------------------------------------------------------------------
(* One operation of flash is done.                                         *)

(* What header, state and erase do to flash and to the order.              *)
LEMMA PerformIs ==
    ASSUME NEW p
    PROVE  /\ Perform(Header(p)) => /\ flash' = [flash EXCEPT ![p] = [@ EXCEPT !.state = "ACTIVE"]]
                                    /\ order' = Append(order, p)
           /\ \A s : Perform(PageState(p, s)) =>
                                    /\ flash' = [flash EXCEPT ![p] = [@ EXCEPT !.state = s]]
                                    /\ order' = order
           /\ Perform(Erase(p))  => /\ flash' = [flash EXCEPT ![p] = ErasedPage]
                                    /\ order' = Without(order, p)
<1>1. /\ Header(p).op = "header" /\ Header(p).page = p
      /\ Erase(p).op = "erase" /\ Erase(p).page = p
      /\ \A s : PageState(p, s).op = "state" /\ PageState(p, s).page = p /\ PageState(p, s).state = s
  BY DEF Header, Erase, PageState
<1>2. /\ NewPage(Header(p)) = [flash[p] EXCEPT !.state = "ACTIVE"]
      /\ NewPage(Erase(p)) = ErasedPage
      /\ \A s : NewPage(PageState(p, s)) = [flash[p] EXCEPT !.state = s]
  BY <1>1 DEF NewPage
<1> QED BY <1>1, <1>2 DEF Perform, FlashBecomes

(* A write into a page in use leaves the page of its type and its state.   *)
LEMMA DoData ==
    ASSUME FlashType, Headers, NEW o \in Data(Live), Perform(o)
    PROVE  /\ FlashType' /\ Headers' /\ Live' = Live /\ order' = order
           /\ \A q \in Pages : State(q)' = State(q)
<1>1. /\ o.page \in Live /\ o.page \in Pages /\ o.op \in {"program", "alter"}
      /\ o.op = "program" => o.content \in Contents
      /\ o.op = "alter" => o.state \in {"WRITTEN", "ERASED"}
  BY DEF Data, Live
<1>2. PICK p, page, new : p = o.page /\ page = flash[p] /\ new = NewPage(o)
  OBVIOUS
<1>3. page \in PageType /\ page.state = State(p)
  BY <1>1, <1>2 DEF FlashType, State
<1>4. new \in PageType /\ new.state = page.state
  <2>1. CASE o.op = "program"
    <3>1. new = [page EXCEPT !.data[o.entry] = o.content]
      BY <1>2, <2>1 DEF NewPage
    <3>2. page.data \in [Entries -> Contents] /\ o.content \in Contents
      BY <1>1, <1>3, <2>1 DEF PageType
    <3>3. [page.data EXCEPT ![o.entry] = o.content] \in [Entries -> Contents]
      BY <3>2
    <3> QED BY <1>3, <3>1, <3>3 DEF PageType
  <2>2. CASE o.op = "alter"
    <3> DEFINE table == [i \in Entries |-> IF i \in o.entries THEN o.state ELSE page.table[i]]
               data  == [i \in Entries |-> IF i \in o.entries /\ o.state = "ERASED"
                                           THEN Spoiled(page.data[i]) ELSE page.data[i]]
    <3>1. new = [page EXCEPT !.table = table, !.data = data]
      BY <1>2, <2>2 DEF NewPage
    <3>2. table \in [Entries -> {"EMPTY", "WRITTEN", "ERASED"}]
      BY <1>1, <1>3, <2>2 DEF PageType
    <3>3. data \in [Entries -> Contents]
      BY <1>3, SpoiledType DEF PageType
    <3> HIDE DEF table, data
    <3> QED BY <1>3, <3>1, <3>2, <3>3 DEF PageType
  <2> QED BY <1>1, <2>1, <2>2
<1>5. flash' = [flash EXCEPT ![p] = new] /\ order' = order
  BY <1>1, <1>2 DEF Perform, FlashBecomes
<1>6. p \in Live /\ new.state = State(p)
  BY <1>1, <1>2, <1>3, <1>4
<1> QED BY <1>4, <1>5, <1>6, DataStep

(* What follows in RAM.                                                    *)
LEMMA DoRam ==
    ASSUME RamType, DoFlash, FlashType', Headers'
    PROVE  RamType'
<1>1. /\ todo # <<>> /\ todo' = Tail(todo) /\ stored' = Durable(flash', order')
      /\ UNCHANGED <<pageList, freeList, phase, call, findPage, reply>>
  BY DEF DoFlash, Perform, FlashBecomes, ram
<1>2. todo' \in Seq(Ops)
  BY <1>1, HeadTailProperties DEF RamType
<1>3. flash' \in [Pages -> PageType] /\ order' \in Seq(Pages)
  BY DEF FlashType, Headers
<1>4. stored' \in [Keys -> Values \cup {None}]
  BY <1>1, <1>3, DurableType
<1> QED BY <1>1, <1>2, <1>4 DEF RamType

(* The lists stay correct as long as their FULL pages stay FULL.           *)
LEMMA KeptLists ==
    ASSUME Lists, UNCHANGED <<pageList, freeList>>,
           \A p \in Range(pageList) : p = Back \/ State(p) # "FULL" \/ State(p)' = "FULL"
    PROVE  /\ Lists' /\ Back' = Back /\ Range(freeList)' = Range(freeList)
           /\ State(Back)' = flash'[Back].state
<1>1. Back' = Back /\ Range(freeList)' = Range(freeList) /\ Range(pageList)' = Range(pageList)
  BY DEF Back
<1>2. \A p \in Range(pageList) : p = Back \/ State(p)' = "FULL"
  BY DEF Lists
<1>3. Lists'
  BY <1>1, <1>2 DEF Lists
<1> QED BY <1>1, <1>3 DEF State

(* A write while nothing is moved.                                         *)
LEMMA PlainWrite ==
    ASSUME FlashType, Headers, RamType, Lists, DoFlash, Plain
    PROVE  FlashType' /\ Headers' /\ Lists' /\ Plain'
<1>1. /\ todo # <<>> /\ todo' = Tail(todo) /\ Perform(Head(todo))
      /\ UNCHANGED <<pageList, freeList>>
  BY DEF DoFlash, ram
<1>2. todo \in Seq(Data(Live)) /\ Unused(Range(freeList))
      /\ State(Back) \in {"UNINITIALIZED", "ACTIVE", "FULL"}
  BY DEF Plain
<1>3. Head(todo) \in Data(Live) /\ Tail(todo) \in Seq(Data(Live))
  BY <1>1, <1>2, HeadTailProperties
<1>4. /\ FlashType' /\ Headers' /\ Live' = Live
      /\ \A q \in Pages : State(q)' = State(q)
  BY <1>1, <1>3, DoData
<1>5. Back \in Pages /\ Range(freeList) \subseteq Pages /\ Range(pageList) \subseteq Pages
  BY BackIsPage DEF Lists
<1>6. Lists' /\ Back' = Back /\ Range(freeList)' = Range(freeList) /\ State(Back)' = flash'[Back].state
  BY <1>1, <1>4, <1>5, KeptLists
<1>7. State(Back)' = State(Back)
  BY <1>4, <1>5, <1>6 DEF State
<1>8. Unused(Range(freeList))'
  BY <1>2, <1>4, <1>5, <1>6 DEF Unused
<1>9. todo' \in Seq(Data(Live'))
  BY <1>1, <1>3, <1>4
<1> QED BY <1>2, <1>4, <1>6, <1>7, <1>8, <1>9 DEF Plain

(* The header of the current page is written.                              *)
LEMMA OpeningWrite ==
    ASSUME FlashType, Headers, RamType, Lists, DoFlash, Opening
    PROVE  FlashType' /\ Headers' /\ Lists' /\ Plain'
<1>1. /\ todo' = Tail(todo) /\ Perform(Head(todo)) /\ UNCHANGED <<pageList, freeList>>
  BY DEF DoFlash, ram
<1>2. /\ Unused(Range(freeList)) /\ State(Back) = "UNINITIALIZED"
      /\ Head(todo) = Header(Back) /\ Tail(todo) \in Seq(Data({Back}))
  BY DEF Opening
<1>3. /\ Back \in Pages /\ Range(freeList) \subseteq Pages /\ Range(pageList) \subseteq Pages
      /\ Range(pageList) \cup Range(freeList) = Pages /\ Back \notin Range(freeList)
  BY BackIsPage DEF Lists
<1>4. \A q \in Pages : State(q) # "ACTIVE"
  BY <1>2, <1>3 DEF Lists, Unused
<1>5. \E q \in Pages : q # Back /\ (q \notin Live \/ State(q) = "FREEING")
  <2>1. Range(freeList) # {}
    BY RangeMembers DEF RamType, Lists
  <2>2. PICK q \in Range(freeList) : TRUE
    BY <2>1
  <2> QED BY <1>2, <1>3, <2>2, LiveStates DEF Unused
<1>6. PICK b : b = Back
  OBVIOUS
<1>7. flash' = [flash EXCEPT ![b] = [@ EXCEPT !.state = "ACTIVE"]] /\ order' = Append(order, b)
  BY <1>1, <1>2, <1>6, PerformIs
<1>8. /\ FlashType' /\ Headers' /\ Live' = Live \cup {b} /\ State(b)' = "ACTIVE"
      /\ \A q \in Pages : q # b => State(q)' = State(q)
  BY <1>2, <1>3, <1>4, <1>5, <1>6, <1>7, HeaderStep
<1>9. Lists' /\ Back' = b /\ Range(freeList)' = Range(freeList) /\ State(Back)' = flash'[Back].state
  BY <1>1, <1>3, <1>6, <1>8, KeptLists
<1>10. State(Back)' = "ACTIVE"
  BY <1>6, <1>8, <1>9 DEF State
<1>11. Unused(Range(freeList))'
  BY <1>2, <1>3, <1>6, <1>8, <1>9 DEF Unused
<1>12. todo' \in Seq(Data(Live'))
  <2>1. {b} \subseteq Live'
    BY <1>8
  <2> QED BY <1>1, <1>2, <1>6, <2>1, DataMonotone
<1> QED BY <1>8, <1>9, <1>10, <1>11, <1>12 DEF Plain

(* The current page is marked as full.                                     *)
LEMMA ClosingWrite ==
    ASSUME FlashType, Headers, RamType, Lists, DoFlash, Closing
    PROVE  FlashType' /\ Headers' /\ Lists' /\ Plain' /\ State(Back)' = "FULL" /\ todo' = <<>>
<1>1. /\ todo' = Tail(todo) /\ Perform(Head(todo)) /\ UNCHANGED <<pageList, freeList>>
  BY DEF DoFlash, ram
<1>2. /\ Unused(Range(freeList)) /\ State(Back) = "ACTIVE"
      /\ todo = <<PageState(Back, "FULL")>>
  BY DEF Closing
<1>3. Head(todo) = PageState(Back, "FULL") /\ todo' = <<>>
  BY <1>1, <1>2
<1>4. /\ Back \in Pages /\ Range(freeList) \subseteq Pages /\ Range(pageList) \subseteq Pages
      /\ Back \notin Range(freeList)
  BY BackIsPage DEF Lists
<1>5. Pages \ Live # {} /\ Back \in Live
  <2>1. Range(freeList) # {}
    BY RangeMembers DEF RamType, Lists
  <2>2. PICK q \in Range(freeList) : TRUE
    BY <2>1
  <2> QED BY <1>2, <1>4, <2>2, LiveStates DEF Unused
<1>6. PICK b : b = Back
  OBVIOUS
<1>7. flash' = [flash EXCEPT ![b] = [@ EXCEPT !.state = "FULL"]] /\ order' = order
  BY <1>1, <1>3, <1>6, PerformIs
<1>8. /\ FlashType' /\ Headers' /\ Live' = Live /\ State(b)' = "FULL"
      /\ \A q \in Pages : q # b => State(q)' = State(q)
  BY <1>5, <1>6, <1>7, StateStep
<1>9. Lists' /\ Back' = b /\ Range(freeList)' = Range(freeList) /\ State(Back)' = flash'[Back].state
  BY <1>1, <1>4, <1>6, <1>8, KeptLists
<1>10. State(Back)' = "FULL"
  BY <1>6, <1>8, <1>9 DEF State
<1>11. Unused(Range(freeList))'
  BY <1>2, <1>4, <1>6, <1>8, <1>9 DEF Unused
<1>12. todo' \in Seq(Data(Live))'
  BY <1>3
<1> QED BY <1>3, <1>8, <1>9, <1>10, <1>11, <1>12 DEF Plain

(* The current page, corrupt, is erased.                                   *)
LEMMA WipingWrite ==
    ASSUME FlashType, Headers, RamType, Lists, DoFlash, Wiping
    PROVE  FlashType' /\ Headers' /\ Lists' /\ Plain'
<1>1. /\ todo' = Tail(todo) /\ Perform(Head(todo)) /\ UNCHANGED <<pageList, freeList>>
  BY DEF DoFlash, ram
<1>2. /\ Unused(Range(freeList)) /\ todo = <<Erase(Back)>>
  BY DEF Wiping
<1>3. Head(todo) = Erase(Back) /\ todo' = <<>>
  BY <1>1, <1>2
<1>4. /\ Back \in Pages /\ Range(freeList) \subseteq Pages /\ Range(pageList) \subseteq Pages
      /\ Back \notin Range(freeList)
  BY BackIsPage DEF Lists
<1>5. PICK b : b = Back
  OBVIOUS
<1>6. flash' = [flash EXCEPT ![b] = ErasedPage] /\ order' = Without(order, b)
  BY <1>1, <1>3, <1>5, PerformIs
<1>7. /\ FlashType' /\ Headers' /\ State(b)' = "UNINITIALIZED"
      /\ \A q \in Pages : q # b => State(q)' = State(q)
  BY <1>4, <1>5, <1>6, EraseStep, ErasedType
<1>8. Lists' /\ Back' = b /\ Range(freeList)' = Range(freeList) /\ State(Back)' = flash'[Back].state
  BY <1>1, <1>4, <1>5, <1>7, KeptLists
<1>9. State(Back)' = "UNINITIALIZED"
  BY <1>5, <1>7, <1>8 DEF State
<1>10. Unused(Range(freeList))'
  BY <1>2, <1>4, <1>5, <1>7, <1>8 DEF Unused
<1>11. todo' \in Seq(Data(Live))'
  BY <1>3
<1> QED BY <1>7, <1>8, <1>9, <1>10, <1>11 DEF Plain

(* While a page is moved: v is not the current page, and no other page is  *)
(* being freed.                                                            *)
LEMMA MovedPage ==
    ASSUME RamType, FlashType, Lists, NEW v \in Range(freeList)
    PROVE  /\ Back \in Pages /\ v \in Pages /\ v # Back /\ v \notin Range(pageList)
           /\ Range(freeList) \subseteq Pages /\ Range(pageList) \subseteq Pages
           /\ Back \in Range(pageList) /\ Back \notin Range(freeList)
           /\ Range(pageList) \cup Range(freeList) = Pages
           /\ todo # <<>> => Head(todo) \in Ops /\ Tail(todo) \in Seq(Ops)
           /\ \A p \in Range(pageList) : p = Back \/ State(p) = "FULL"
<1>1. Back \in Pages /\ Back \in Range(pageList) /\ Back \notin Range(freeList)
  BY BackIsPage
<1>2. /\ Range(pageList) \cap Range(freeList) = {} /\ Range(pageList) \cup Range(freeList) = Pages
      /\ \A p \in Range(pageList) : p = Back \/ State(p) = "FULL"
  BY DEF Lists
<1>3. todo # <<>> => Head(todo) \in Ops /\ Tail(todo) \in Seq(Ops)
  BY HeadTailProperties DEF RamType
<1> QED BY <1>1, <1>2, <1>3

(* The victim is marked, after the current page is erased.                 *)
LEMMA MarkingWrite ==
    ASSUME FlashType, Headers, RamType, Lists, DoFlash,
           NEW v \in Range(freeList), Marking(v)
    PROVE  FlashType' /\ Headers' /\ Lists' /\ (Marking(v)' \/ Freeing(v)') /\ v \in Range(freeList)'
<1>1. /\ todo # <<>> /\ todo' = Tail(todo) /\ Perform(Head(todo)) /\ UNCHANGED <<pageList, freeList>>
  BY DEF DoFlash, ram
<1>2. State(v) = "FULL" /\ Unused(Range(freeList) \ {v})
  BY DEF Marking
<1>3. PICK b : b = Back
  OBVIOUS
<1>4. /\ b \in Pages /\ v \in Pages /\ v # b /\ v \notin Range(pageList)
      /\ Range(freeList) \subseteq Pages /\ Range(pageList) \subseteq Pages
      /\ b \notin Range(freeList) /\ Range(pageList) \cup Range(freeList) = Pages
      /\ \A p \in Range(pageList) : p = b \/ State(p) = "FULL"
  BY <1>3, MovedPage
<1>5. CASE /\ State(Back) = "UNINITIALIZED"
           /\ Head(todo) = PageState(v, "FREEING") /\ Fresh(Tail(todo), v, Back)
  <2>1. flash' = [flash EXCEPT ![v] = [@ EXCEPT !.state = "FREEING"]] /\ order' = order
    BY <1>1, <1>5, PerformIs
  <2>2. v \in Live /\ Pages \ Live # {}
    BY <1>2, <1>3, <1>4, <1>5, LiveStates
  <2>3. \A q \in Pages : State(q) # "FREEING"
    BY <1>2, <1>3, <1>4, <1>5 DEF Unused
  <2>4. /\ FlashType' /\ Headers' /\ State(v)' = "FREEING"
        /\ \A q \in Pages : q # v => State(q)' = State(q)
    BY <2>1, <2>2, <2>3, StateStep
  <2>5. Lists' /\ Back' = b /\ Range(freeList)' = Range(freeList) /\ State(Back)' = flash'[Back].state
    BY <1>1, <1>3, <1>4, <2>4, KeptLists
  <2>6. State(Back)' = "UNINITIALIZED"
    BY <1>3, <1>4, <1>5, <2>4, <2>5 DEF State
  <2>7. Unused(Range(freeList) \ {v})'
    BY <1>2, <1>4, <2>4, <2>5 DEF Unused
  <2>8. Fresh(todo', v, b)
    BY <1>1, <1>3, <1>5
  <2>9. Cleaned(todo, v)'
    BY <2>5, <2>6, <2>8 DEF Cleaned
  <2> QED BY <2>4, <2>5, <2>7, <2>9 DEF Freeing
<1>6. CASE /\ State(Back) = "CORRUPT"
           /\ Head(todo) = Erase(Back) /\ Tail(todo) # <<>>
           /\ Head(Tail(todo)) = PageState(v, "FREEING")
           /\ Fresh(Tail(Tail(todo)), v, Back)
  <2>1. flash' = [flash EXCEPT ![b] = ErasedPage] /\ order' = Without(order, b)
    BY <1>1, <1>3, <1>6, PerformIs
  <2>2. /\ FlashType' /\ Headers' /\ State(b)' = "UNINITIALIZED"
        /\ \A q \in Pages : q # b => State(q)' = State(q)
    BY <1>4, <2>1, EraseStep, ErasedType
  <2>3. Lists' /\ Back' = b /\ Range(freeList)' = Range(freeList) /\ State(Back)' = flash'[Back].state
    BY <1>1, <1>3, <1>4, <2>2, KeptLists
  <2>4. State(Back)' = "UNINITIALIZED" /\ State(v)' = "FULL"
    BY <1>2, <1>3, <1>4, <2>2, <2>3 DEF State
  <2>5. Unused(Range(freeList) \ {v})'
    BY <1>2, <1>4, <2>2, <2>3 DEF Unused
  <2>6. /\ todo' # <<>> /\ Head(todo') = PageState(v, "FREEING") /\ Fresh(Tail(todo'), v, b)
    BY <1>1, <1>3, <1>6
  <2>7. Marking(v)'
    BY <2>3, <2>4, <2>5, <2>6 DEF Marking
  <2> QED BY <2>2, <2>3, <2>7
<1> QED BY <1>5, <1>6 DEF Marking

(* The last operation of a move erases the page that was moved.            *)
LEMMA MovedWrite ==
    ASSUME FlashType, Headers, RamType, Lists, UNCHANGED <<pageList, freeList>>,
           NEW v \in Range(freeList), Unused(Range(freeList) \ {v}),
           State(Back) \in {"UNINITIALIZED", "ACTIVE"}, Perform(Erase(v)), todo' = <<>>
    PROVE  FlashType' /\ Headers' /\ Lists' /\ Plain'
<1>1. PICK b : b = Back
  OBVIOUS
<1>2. /\ b \in Pages /\ v \in Pages /\ v # b /\ v \notin Range(pageList)
      /\ Range(freeList) \subseteq Pages /\ Range(pageList) \subseteq Pages
  BY <1>1, MovedPage
<1>3. flash' = [flash EXCEPT ![v] = ErasedPage] /\ order' = Without(order, v)
  BY PerformIs
<1>4. /\ FlashType' /\ Headers' /\ State(v)' = "UNINITIALIZED"
      /\ \A q \in Pages : q # v => State(q)' = State(q)
  BY <1>2, <1>3, EraseStep, ErasedType
<1>5. Lists' /\ Back' = b /\ Range(freeList)' = Range(freeList) /\ State(Back)' = flash'[Back].state
  BY <1>1, <1>2, <1>4, KeptLists
<1>6. State(Back)' \in {"UNINITIALIZED", "ACTIVE"}
  BY <1>1, <1>2, <1>4, <1>5 DEF State
<1>7. Unused(Range(freeList))'
  BY <1>2, <1>4, <1>5 DEF Unused
<1>8. todo' \in Seq(Data(Live))'
  OBVIOUS
<1> QED BY <1>4, <1>5, <1>6, <1>7, <1>8 DEF Plain

(* One operation of the move, up to the erasing of the victim.             *)
LEMMA FreeingWrite ==
    ASSUME FlashType, Headers, RamType, Lists, DoFlash,
           NEW v \in Range(freeList), Freeing(v)
    PROVE  FlashType' /\ Headers' /\ Lists' /\ (Plain' \/ (Freeing(v)' /\ v \in Range(freeList)'))
<1>1. /\ todo # <<>> /\ todo' = Tail(todo) /\ Perform(Head(todo)) /\ UNCHANGED <<pageList, freeList>>
  BY DEF DoFlash, ram
<1>2. State(v) = "FREEING" /\ Unused(Range(freeList) \ {v})
  BY DEF Freeing
<1>3. PICK b : b = Back
  OBVIOUS
<1>4. /\ b \in Pages /\ v \in Pages /\ v # b /\ v \notin Range(pageList)
      /\ Range(freeList) \subseteq Pages /\ Range(pageList) \subseteq Pages
      /\ b \notin Range(freeList) /\ Range(pageList) \cup Range(freeList) = Pages
      /\ \A p \in Range(pageList) : p = b \/ State(p) = "FULL"
  BY <1>3, MovedPage
<1>5. ASSUME todo = <<Erase(v)>>, State(Back) \in {"UNINITIALIZED", "ACTIVE"}
      PROVE  FlashType' /\ Headers' /\ Lists' /\ Plain'
  <2>1. Head(todo) = Erase(v) /\ todo' = <<>>
    BY <1>1, <1>5
  <2>2. Perform(Erase(v))
    BY <1>1, <2>1
  <2> QED BY <1>1, <1>2, <1>5, <2>1, <2>2, MovedWrite
<1>6. CASE State(Back) = "UNINITIALIZED" /\ Fresh(todo, v, Back)
  <2>1. CASE todo = <<Erase(v)>>
    BY <1>5, <1>6, <2>1
  <2>2. CASE Head(todo) = Header(Back) /\ Copying(Tail(todo), v, Back)
    <3>1. flash' = [flash EXCEPT ![b] = [@ EXCEPT !.state = "ACTIVE"]] /\ order' = Append(order, b)
      BY <1>1, <1>3, <2>2, PerformIs
    <3>2. \A q \in Pages : State(q) # "ACTIVE"
      BY <1>2, <1>3, <1>4, <1>6 DEF Unused
    <3>3. /\ FlashType' /\ Headers' /\ State(b)' = "ACTIVE"
          /\ \A q \in Pages : q # b => State(q)' = State(q)
      BY <1>2, <1>3, <1>4, <1>6, <3>1, <3>2, HeaderStep
    <3>4. Lists' /\ Back' = b /\ Range(freeList)' = Range(freeList) /\ State(Back)' = flash'[Back].state
      BY <1>1, <1>3, <1>4, <3>3, KeptLists
    <3>5. State(Back)' = "ACTIVE" /\ State(v)' = "FREEING"
      BY <1>2, <1>3, <1>4, <3>3, <3>4 DEF State
    <3>6. Unused(Range(freeList) \ {v})'
      BY <1>2, <1>4, <3>3, <3>4 DEF Unused
    <3>7. Copying(todo', v, b)
      BY <1>1, <1>3, <2>2
    <3>8. Freeing(v)'
      BY <3>4, <3>5, <3>6, <3>7 DEF Freeing
    <3> QED BY <3>3, <3>4, <3>8
  <2> QED BY <1>6, <2>1, <2>2 DEF Fresh
<1>7. CASE /\ State(Back) \in {"CORRUPT", "ACTIVE"}
           /\ Head(todo) = Erase(Back) /\ Fresh(Tail(todo), v, Back)
  <2>1. flash' = [flash EXCEPT ![b] = ErasedPage] /\ order' = Without(order, b)
    BY <1>1, <1>3, <1>7, PerformIs
  <2>2. /\ FlashType' /\ Headers' /\ State(b)' = "UNINITIALIZED"
        /\ \A q \in Pages : q # b => State(q)' = State(q)
    BY <1>4, <2>1, EraseStep, ErasedType
  <2>3. Lists' /\ Back' = b /\ Range(freeList)' = Range(freeList) /\ State(Back)' = flash'[Back].state
    BY <1>1, <1>3, <1>4, <2>2, KeptLists
  <2>4. State(Back)' = "UNINITIALIZED" /\ State(v)' = "FREEING"
    BY <1>2, <1>3, <1>4, <2>2, <2>3 DEF State
  <2>5. Unused(Range(freeList) \ {v})'
    BY <1>2, <1>4, <2>2, <2>3 DEF Unused
  <2>6. Fresh(todo', v, b)
    BY <1>1, <1>3, <1>7
  <2>7. Cleaned(todo, v)'
    BY <2>3, <2>4, <2>6 DEF Cleaned
  <2>8. Freeing(v)'
    BY <2>4, <2>5, <2>7 DEF Freeing
  <2> QED BY <2>2, <2>3, <2>8
<1>8. CASE State(Back) = "ACTIVE" /\ Copying(todo, v, Back)
  <2>1. CASE todo = <<Erase(v)>>
    BY <1>5, <1>8, <2>1
  <2>2. CASE Head(todo) \in Data({Back}) /\ Copying(Tail(todo), v, Back)
    <3>1. Head(todo) \in Data(Live)
      <4>1. {b} \subseteq Live
        BY <1>3, <1>4, <1>8, LiveStates
      <4> QED BY <1>3, <2>2, <4>1, DataMonotone
    <3>2. /\ FlashType' /\ Headers' /\ \A q \in Pages : State(q)' = State(q)
      BY <1>1, <3>1, DoData
    <3>3. Lists' /\ Back' = b /\ Range(freeList)' = Range(freeList) /\ State(Back)' = flash'[Back].state
      BY <1>1, <1>3, <1>4, <3>2, KeptLists
    <3>4. State(Back)' = "ACTIVE" /\ State(v)' = "FREEING"
      BY <1>2, <1>3, <1>4, <1>8, <3>2, <3>3 DEF State
    <3>5. Unused(Range(freeList) \ {v})'
      BY <1>2, <1>4, <3>2, <3>3 DEF Unused
    <3>6. Copying(todo', v, b)
      BY <1>1, <1>3, <2>2
    <3>7. Freeing(v)'
      BY <3>3, <3>4, <3>5, <3>6 DEF Freeing
    <3> QED BY <3>2, <3>3, <3>7
  <2>3. b \in Pages /\ v \in Pages
    BY <1>4
  <2> QED BY <1>3, <1>8, <2>1, <2>2, <2>3, CopyingStep
<1> QED BY <1>6, <1>7, <1>8 DEF Freeing, Cleaned

(* The half filled page of a move before is erased.                        *)
LEMMA RedoingWrite ==
    ASSUME FlashType, Headers, RamType, Lists, DoFlash,
           NEW v \in Range(freeList), Redoing(v)
    PROVE  FlashType' /\ Headers' /\ Lists' /\ Freeing(v)' /\ v \in Range(freeList)'
<1>1. /\ todo # <<>> /\ todo' = Tail(todo) /\ Perform(Head(todo)) /\ UNCHANGED <<pageList, freeList>>
  BY DEF DoFlash, ram
<1>2. PICK t \in Range(freeList) \ {v} :
         Unused(Range(freeList) \ {v, t}) /\ Head(todo) = Erase(t)
  BY DEF Redoing
<1>3. State(v) = "FREEING" /\ State(Back) \in {"UNINITIALIZED", "CORRUPT"} /\ Cleaned(Tail(todo), v)
  BY DEF Redoing
<1>4. PICK b : b = Back
  OBVIOUS
<1>5. /\ b \in Pages /\ v \in Pages /\ v \notin Range(pageList)
      /\ Range(freeList) \subseteq Pages /\ Range(pageList) \subseteq Pages
      /\ b \notin Range(freeList)
  BY <1>4, MovedPage
<1>6. t \in Pages /\ t # v /\ t # b
  BY <1>2, <1>5
<1>7. flash' = [flash EXCEPT ![t] = ErasedPage] /\ order' = Without(order, t)
  BY <1>1, <1>2, PerformIs
<1>8. /\ FlashType' /\ Headers' /\ State(t)' = "UNINITIALIZED"
      /\ \A q \in Pages : q # t => State(q)' = State(q)
  BY <1>6, <1>7, EraseStep, ErasedType
<1>9. \A p \in Range(pageList) : p = Back \/ State(p) # "FULL" \/ State(p)' = "FULL"
  <2>1. t \notin Range(pageList)
    BY <1>2, MovedPage
  <2> QED BY <1>5, <1>8, <2>1
<1>10. Lists' /\ Back' = b /\ Range(freeList)' = Range(freeList) /\ State(Back)' = flash'[Back].state
  BY <1>1, <1>4, <1>9, KeptLists
<1>11. State(Back)' = State(b) /\ State(v)' = "FREEING"
  BY <1>3, <1>5, <1>6, <1>8, <1>10 DEF State
<1>12. Unused(Range(freeList) \ {v})'
  BY <1>2, <1>5, <1>8, <1>10 DEF Unused
<1>13. Cleaned(todo, v)'
  <2>1. \/ State(b) = "UNINITIALIZED" /\ Fresh(todo', v, b)
        \/ /\ State(b) \in {"CORRUPT", "ACTIVE"}
           /\ todo' # <<>> /\ Head(todo') = Erase(b) /\ Fresh(Tail(todo'), v, b)
    BY <1>1, <1>3, <1>4 DEF Cleaned
  <2> QED BY <1>10, <1>11, <2>1 DEF Cleaned
<1>14. Freeing(v)'
  BY <1>11, <1>12, <1>13 DEF Freeing
<1> QED BY <1>8, <1>10, <1>14

(* Any operation of flash.                                                 *)
LEMMA DoFlashStep == PagesInv /\ DoFlash => PagesInv'
<1> SUFFICES ASSUME PagesInv, DoFlash PROVE PagesInv'
  OBVIOUS
<1>1. /\ todo # <<>> /\ todo' = Tail(todo) /\ Perform(Head(todo))
      /\ UNCHANGED <<pageList, freeList, phase, call, findPage, reply>>
  BY DEF DoFlash, ram
<1>2. FlashType /\ Headers /\ RamType
  BY DEF PagesInv
<1>3. SUFFICES FlashType' /\ Headers' /\ Phases'
  BY <1>2, DoRam DEF PagesInv
<1>4. CASE phase \in {"manager", "freeing"}
  <2>1. todo \in Seq(Data(Live))
    BY <1>4 DEF PagesInv, Phases
  <2>2. Head(todo) \in Data(Live) /\ Tail(todo) \in Seq(Data(Live))
    BY <1>1, <2>1, HeadTailProperties
  <2>3. FlashType' /\ Headers' /\ Live' = Live /\ order' = order
    BY <1>1, <1>2, <2>2, DoData
  <2>4. todo' \in Seq(Data(Live'))
    BY <1>1, <2>2, <2>3
  <2>5. Phases'
    BY <1>1, <1>4, <2>3, <2>4 DEF PagesInv, Phases, UpPhases
  <2> QED BY <2>3, <2>5
<1>5. CASE phase \in UpPhases
  <2>1. Lists
    BY <1>5 DEF PagesInv, Phases
  <2>2. Plain => FlashType' /\ Headers' /\ Lists' /\ Plain'
    BY <1>2, <2>1, PlainWrite
  <2>3. Opening => FlashType' /\ Headers' /\ Lists' /\ Plain'
    BY <1>2, <2>1, OpeningWrite
  <2>4. Closing => FlashType' /\ Headers' /\ Lists' /\ Plain' /\ State(Back)' = "FULL" /\ todo' = <<>>
    BY <1>2, <2>1, ClosingWrite
  <2>5. Wiping => FlashType' /\ Headers' /\ Lists' /\ Plain'
    BY <1>2, <2>1, WipingWrite
  <2>6. Moving => FlashType' /\ Headers' /\ Lists' /\ (Plain' \/ Moving')
    <3> HAVE Moving
    <3>1. PICK v \in Range(freeList) : Marking(v) \/ Freeing(v) \/ Redoing(v)
      BY DEF Moving
    <3>2. FlashType' /\ Headers' /\ Lists'
          /\ (Plain' \/ (v \in Range(freeList)' /\ (Marking(v)' \/ Freeing(v)')))
      BY <1>2, <2>1, <3>1, MarkingWrite, FreeingWrite, RedoingWrite
    <3> QED BY <3>2 DEF Moving
  <2>7. CASE phase \in {"ready", "again"}
    <3>1. FlashType' /\ Headers' /\ Lists' /\ (Plain' \/ Moving')
      BY <2>2, <2>5, <2>6, <2>7 DEF PagesInv, Phases
    <3> QED BY <1>1, <2>7, <3>1 DEF Phases, UpPhases
  <2>8. CASE phase = "request"
    <3>1. FlashType' /\ Headers' /\ Lists' /\ Plain' /\ State(Back)' = "FULL" /\ todo' = <<>>
      BY <1>1, <2>4, <2>8 DEF PagesInv, Phases
    <3> QED BY <1>1, <2>8, <3>1 DEF Phases, UpPhases
  <2>9. CASE phase \in {"written", "stored", "clearing", "error"}
    <3>1. FlashType' /\ Headers' /\ Lists' /\ Plain'
      BY <2>2, <2>3, <2>9 DEF PagesInv, Phases
    <3> QED BY <1>1, <2>9, <3>1 DEF Phases, UpPhases
  <2> QED BY <1>5, <2>7, <2>8, <2>9 DEF UpPhases
<1> QED BY <1>1, <1>2, <1>4, <1>5 DEF PagesInv, Phases, RamType

-----------------------------------------------------------------------------
(* The power fails within a write.                                         *)

(* Only entries of pages in use are programmed.                            *)
LEMMA HeadCases ==
    ASSUME PagesInv, todo # <<>>
    PROVE  /\ Head(todo) \in Ops
           /\ Head(todo).op = "program" => Head(todo) \in Data(Live)
<1>1. Head(todo) \in Ops
  BY HeadTailProperties DEF PagesInv, RamType
<1>2. \A p, s : /\ Header(p).op # "program" /\ Erase(p).op # "program"
                /\ PageState(p, s).op # "program"
  BY DEF Header, Erase, PageState
<1>3. todo \in Seq(Data(Live)) => Head(todo) \in Data(Live)
  BY HeadTailProperties
<1>4. Plain => Head(todo) \in Data(Live)
  BY <1>3 DEF Plain
<1>5. Opening \/ Closing \/ Wiping => Head(todo).op # "program"
  BY <1>2 DEF Opening, Closing, Wiping
<1>6. ASSUME Moving, Lists, Head(todo).op = "program" PROVE Head(todo) \in Data(Live)
  <2>1. PICK v \in Range(freeList) : Marking(v) \/ Freeing(v) \/ Redoing(v)
    BY <1>6 DEF Moving
  <2>2. ~ Marking(v) /\ ~ Redoing(v)
    BY <1>2, <1>6 DEF Marking, Redoing
  <2>3. ~ Cleaned(todo, v)
    <3>1. ~ Fresh(todo, v, Back)
      BY <1>2, <1>6 DEF Fresh
    <3> QED BY <1>2, <1>6, <3>1 DEF Cleaned
  <2>4. State(Back) = "ACTIVE" /\ Copying(todo, v, Back)
    BY <2>1, <2>2, <2>3 DEF Freeing
  <2>5. Back \in Pages /\ v \in Pages
    BY <1>6, MovedPage DEF PagesInv
  <2>6. todo # <<Erase(v)>>
    BY <1>2, <1>6
  <2>7. Head(todo) \in Data({Back})
    BY <2>4, <2>5, <2>6, CopyingStep
  <2>8. {Back} \subseteq Live
    BY <2>4, <2>5 DEF Live, Loaded
  <2> QED BY <2>7, <2>8, DataMonotone
<1>7. Head(todo).op = "program" => Head(todo) \in Data(Live)
  <2>1. CASE phase \notin UpPhases
    BY <1>3, <2>1 DEF PagesInv, Phases, RamType
  <2>2. CASE phase \in UpPhases
    BY <1>4, <1>5, <1>6, <2>2 DEF PagesInv, Phases, UpPhases
  <2> QED BY <2>1, <2>2
<1> QED BY <1>1, <1>7

(* The power fails within a write.                                         *)
LEMMA TornFlashStep == PagesInv /\ TornFlash => PagesInv'
<1> SUFFICES ASSUME PagesInv, TornFlash PROVE PagesInv'
  OBVIOUS
<1>1. FlashType /\ Headers /\ todo # <<>> /\ Restart
  BY DEF PagesInv, TornFlash
<1>2. PICK o : o = Head(todo)
  OBVIOUS
<1>3. o \in Ops /\ (o.op = "program" => o \in Data(Live)) /\ Tear(o)
  BY <1>1, <1>2, HeadCases DEF TornFlash
<1>4. FlashType' /\ Headers' /\ stored' = Durable(flash', order')
  <2>1. CASE o.op = "program"
    <3>1. /\ flash' = [flash EXCEPT ![o.page].data[o.entry] = Spoiled(o.content)]
          /\ order' = order /\ stored' = Durable(flash', order')
      BY <1>3, <2>1 DEF Tear, FlashBecomes
    <3>2. o.page \in Live /\ o.page \in Pages /\ o.content \in Contents
      BY <1>3, <2>1 DEF Data, Live
    <3>3. PICK p, page, new : /\ p = o.page /\ page = flash[p]
                              /\ new = [page EXCEPT !.data[o.entry] = Spoiled(o.content)]
      OBVIOUS
    <3>4. page \in PageType /\ page.state = State(p)
      BY <1>1, <3>2, <3>3 DEF FlashType, State
    <3>5. new \in PageType /\ new.state = page.state
      <4>1. page.data \in [Entries -> Contents] /\ Spoiled(o.content) \in Contents
        BY <3>2, <3>4, SpoiledType DEF PageType
      <4>2. [page.data EXCEPT ![o.entry] = Spoiled(o.content)] \in [Entries -> Contents]
        BY <4>1
      <4> QED BY <3>3, <3>4, <4>2 DEF PageType
    <3>6. flash' = [flash EXCEPT ![p] = new]
      BY <3>1, <3>3
    <3>7. p \in Live /\ new.state = State(p)
      BY <3>2, <3>3, <3>4, <3>5
    <3> QED BY <1>1, <3>1, <3>5, <3>6, <3>7, DataStep
  <2>2. CASE o.op \in {"header", "erase"}
    <3>1. /\ flash' = [flash EXCEPT ![o.page] = Corrupted]
          /\ order' = Without(order, o.page) /\ stored' = Durable(flash', order')
      BY <1>3, <2>2 DEF Tear, FlashBecomes
    <3>2. o.page \in Pages
      BY <1>3 DEF Ops, Data
    <3>3. PICK p : p = o.page
      OBVIOUS
    <3> QED BY <1>1, <3>1, <3>2, <3>3, EraseStep
  <2> QED BY <1>3, <2>1, <2>2 DEF Tear
<1>5. stored' \in [Keys -> Values \cup {None}]
  <2>1. flash' \in [Pages -> PageType] /\ order' \in Seq(Pages)
    BY <1>4 DEF FlashType, Headers
  <2> QED BY <1>4, <2>1, DurableType
<1> QED BY <1>1, <1>4, <1>5, RestartStep

-----------------------------------------------------------------------------
(* The pages of flash and the lists of them, at every moment.              *)
THEOREM PagesInvariant == Spec => []PagesInv
<1>1. ASSUME PagesInv, UNCHANGED vars PROVE PagesInv'
  <2>1. UNCHANGED <<flash, order, stored, todo, pageList, freeList, phase, call, findPage, reply>>
    BY <1>1 DEF vars, disk, ram
  <2>2. FlashType' /\ Headers' /\ Live' = Live /\ \A p : State(p)' = State(p)
    BY <1>1, <2>1, SameDisk DEF PagesInv, disk
  <2>3. RamType'
    BY <1>1, <2>1 DEF PagesInv, RamType
  <2>4. Phases'
    <3>1. Back' = Back /\ Lists' = Lists /\ Plain' = Plain /\ Opening' = Opening
      BY <2>1 DEF Back, State, Lists, Plain, Opening, Unused, Live
    <3>2. Closing' = Closing /\ Wiping' = Wiping
      BY <2>1 DEF Back, State, Closing, Wiping, Unused
    <3>3. Moving' = Moving
      BY <2>1 DEF Back, State, Moving, Marking, Freeing, Redoing, Cleaned, Unused
    <3> QED BY <1>1, <2>1, <2>2, <3>1, <3>2, <3>3 DEF PagesInv, Phases
  <2> QED BY <2>2, <2>3, <2>4 DEF PagesInv
<1>2. PagesInv /\ [Next]_vars => PagesInv'
  BY <1>1, LoadPagesStep, LoadManagerStep, FinishFreeingStep, SetItemStep, RequestNewPageStep,
     WriteAgainStep, EraseOldStep, EraseAllStep, EraseNextStep, ReturnStep,
     DoFlashStep, PowerLossStep, TornFlashStep DEF Next
<1> QED BY <1>2, InitInv, PTL DEF Spec

(* Two lists with each page in one of them once have as many elements as   *)
(* there are pages.                                                        *)
LEMMA ListLengths ==
    ASSUME RamType, Lists
    PROVE  Len(pageList) + Len(freeList) = PageCount
<1>1. /\ pageList \in Seq(Pages) /\ freeList \in Seq(Pages)
      /\ Injective(pageList) /\ Injective(freeList)
      /\ Range(pageList) \cap Range(freeList) = {} /\ Range(pageList) \cup Range(freeList) = Pages
  BY DEF RamType, Lists
<1>2. IsFiniteSet(Pages) /\ Cardinality(Pages) = PageCount
  <2>1. PageCount \in Nat /\ 1 \in Int
    BY NvsAssumption
  <2>2. IsFiniteSet(1 .. PageCount) /\ Cardinality(1 .. PageCount) = IF 1 > PageCount THEN 0 ELSE PageCount - 1 + 1
    BY <2>1, FS_Interval
  <2> QED BY <2>2, NvsAssumption DEF Pages
<1>3. Cardinality(Range(pageList)) = Len(pageList) /\ Cardinality(Range(freeList)) = Len(freeList)
  BY <1>1, InjectiveLength
<1>4. IsFiniteSet(Range(pageList)) /\ IsFiniteSet(Range(freeList))
  <2>1. Range(pageList) \subseteq Pages /\ Range(freeList) \subseteq Pages
    BY <1>1
  <2> QED BY <1>2, <2>1, FS_Subset
<1>5. Cardinality(Pages) = Cardinality(Range(pageList)) + Cardinality(Range(freeList))
                           - Cardinality(Range(pageList) \cap Range(freeList))
  BY <1>1, <1>4, FS_Union
<1>6. Cardinality(Range(pageList) \cap Range(freeList)) = 0
  BY <1>1, FS_EmptySet
<1> QED BY <1>1, <1>2, <1>3, <1>5, <1>6

(* The pages of flash, their headers and the two lists have their types at *)
(* every moment, and between two calls each page is in one list once: what *)
(* PageManager::load, requestNewPage and activatePage do to the lists      *)
(* loses no page and keeps none twice, whenever the power fails.           *)
THEOREM NvsTypeCorrect == Spec => []TypeOK
<1>1. PagesInv => TypeOK
  <2> SUFFICES ASSUME PagesInv PROVE TypeOK
    OBVIOUS
  <2>1. FlashType /\ RamType /\ Headers
    BY DEF PagesInv
  <2>2. Range(order) = {p \in Pages : flash[p].state \in {"ACTIVE", "FULL", "FREEING"}}
    BY <2>1 DEF Headers, Live, State, Loaded
  <2>3. Ready => Range(pageList) \cup Range(freeList) = Pages
                 /\ Len(pageList) + Len(freeList) = PageCount
    <3> HAVE Ready
    <3>1. Lists
      BY DEF Ready, PagesInv, Phases, UpPhases
    <3> QED BY <2>1, <3>1, ListLengths DEF Lists
  <2> QED BY <2>1, <2>2, <2>3 DEF TypeOK, FlashType, PageType, RamType
<1> QED BY <1>1, PagesInvariant, PTL

(* nvs_flash_init finds a free page whatever a power loss has left: it     *)
(* never returns ESP_ERR_NVS_NO_FREE_PAGES, on which system_flash_init     *)
(* would erase the partition with all that is stored.                      *)
THEOREM NeverOutOfPages == Spec => []InitSucceeds
<1>1. PagesInv => InitSucceeds
  BY DEF PagesInv, RamType, UpPhases, InitSucceeds
<1> QED BY <1>1, PagesInvariant, PTL

(* Never are two pages open for writing, and between two calls no page is  *)
(* still being freed: a move that a power loss has cut off is finished by  *)
(* nvs_flash_init.                                                         *)
THEOREM OneActivePage == Spec => []PageStates
<1>1. PagesInv => PageStates
  <2> SUFFICES ASSUME PagesInv PROVE PageStates
    OBVIOUS
  <2>1. \A p, q \in Pages : State(p) = "ACTIVE" /\ State(q) = "ACTIVE" => p = q
    BY DEF PagesInv, Headers
  <2>2. Ready => \A p \in Pages : State(p) # "FREEING"
    <3> HAVE Ready
    <3>1. Lists /\ Plain
      BY IdleIsPlain DEF Ready, PagesInv, UpPhases
    <3> QED BY <3>1 DEF Lists, Plain, Unused
  <2> QED BY <2>1, <2>2 DEF PageStates, State
<1> QED BY <1>1, PagesInvariant, PTL

(* The second half of WritesErasedFlash.                                   *)
HeadersOnErased ==
    todo # <<>> /\ Head(todo).op = "header" => flash[Head(todo).page] = ErasedPage

(* Where a header is to be written, the page is erased.                    *)
LEMMA HeadersErased == PagesInv => HeadersOnErased
<1> SUFFICES ASSUME PagesInv, todo # <<>>, Head(todo).op = "header"
             PROVE  flash[Head(todo).page] = ErasedPage
  BY DEF HeadersOnErased
<1>1. FlashType /\ RamType /\ Headers
  BY DEF PagesInv
<1>2. /\ \A p : Header(p).page = p /\ Erase(p).op # "header"
      /\ \A p, s : PageState(p, s).op # "header"
      /\ \A T : \A o \in Data(T) : o.op # "header"
  BY DEF Header, Erase, PageState, Data
<1>3. \A T : todo \notin Seq(Data(T))
  <2> TAKE T
  <2>1. todo \in Seq(Data(T)) => Head(todo) \in Data(T)
    BY HeadTailProperties
  <2> QED BY <1>2, <2>1
<1>4. ~ Plain /\ ~ Closing /\ ~ Wiping
  BY <1>2, <1>3 DEF Plain, Closing, Wiping
<1>5. Lists /\ (Opening \/ Moving)
  BY <1>3, <1>4 DEF PagesInv, Phases, RamType, UpPhases
<1>6. Back \in Pages
  BY <1>1, <1>5, BackIsPage
<1>7. State(Back) = "UNINITIALIZED" /\ Head(todo) = Header(Back)
  <2>1. CASE Opening
    BY <2>1 DEF Opening
  <2>2. CASE Moving
    <3>1. PICK v \in Range(freeList) : Marking(v) \/ Freeing(v) \/ Redoing(v)
      BY <2>2 DEF Moving
    <3>2. ~ Marking(v) /\ ~ Redoing(v)
      <4>1. ~ Marking(v)
        BY ONLY <1>2, Head(todo).op = "header" DEF Marking
      <4>2. ~ Redoing(v)
        BY ONLY <1>2, Head(todo).op = "header" DEF Redoing
      <4> QED BY <4>1, <4>2
    <3>3. v \in Pages
      BY <1>1, <1>5, MovedPage
    <3>4. todo # <<Erase(v)>>
      BY <1>2
    <3>5. ~ Copying(todo, v, Back)
      <4>1. Copying(todo, v, Back) => Head(todo) \in Data({Back})
        BY <1>6, <3>3, <3>4, CopyingStep
      <4> QED BY <1>2, <4>1
    <3>6. Cleaned(todo, v)
      BY <3>1, <3>2, <3>5 DEF Freeing
    <3> QED BY <1>2, <3>4, <3>6 DEF Cleaned, Fresh
  <2> QED BY <1>5, <2>1, <2>2
<1> QED BY <1>1, <1>2, <1>6, <1>7 DEF Headers

(* The header of a page is written only where the whole page is erased:    *)
(* what activatePage takes from the free list, and what a move that was    *)
(* cut off left behind, is erased first.                                   *)
THEOREM HeadersAreWrittenOnce == Spec => []HeadersOnErased
<1>1. PagesInv => HeadersOnErased
  BY HeadersErased
<1> QED BY <1>1, PagesInvariant, PTL

-----------------------------------------------------------------------------
(***************************************************************************)
(* The entries of the pages.  A page is sound when its items do not        *)
(* overlap, every WRITTEN entry belongs to one, each is whole, and, if     *)
(* the page takes writes, all that was programmed is known to the table.   *)
(* Power losses leave less: a page is steady when its items do not overlap *)
(* and what the table does not know of is what one write began.  Of a      *)
(* steady page Page::load makes a sound one by erasures, and nvs_set_*,    *)
(* nvs_erase_all and the moving of a page keep sound pages sound.          *)
(***************************************************************************)

(* The headers that count, and the entries of their items.                 *)
Headed(P) == {i \in Entries : P.table[i] = "WRITTEN" /\ IsHeader(P.data[i])}
InSpan(P, h, j) == h <= j /\ j <= LastOf(P, h)

(* Items do not overlap, and every WRITTEN entry belongs to one.           *)
Apart(P) == \A h \in Headed(P) :
                /\ LastOf(P, h) < EntryCount
                /\ \A g \in Headed(P) : h < g => LastOf(P, h) < g
Owned(P) == \A j \in Entries :
                P.table[j] = "WRITTEN" => \E h \in Headed(P) : InSpan(P, h, j)
Shape(P) == Apart(P) /\ Owned(P)

(* Entries behind which nothing is programmed, and entries that are        *)
(* programmed, or have one behind them that is, of which the table does    *)
(* not know.                                                               *)
BlankAbove(P, i) == \A j \in Entries : j > i => P.data[j] = Blank
Exposed(P, i) == /\ P.table[i] = "EMPTY"
                 /\ \E j \in Entries : i <= j /\ P.data[j] # Blank

(* What one write cut off leaves exposed: entries of the item, whose       *)
(* header is written, or the header, which mLoadEntryTable can see.        *)
Loose(P) ==
    \A i \in Entries : Exposed(P, i) =>
        \/ \E h \in Headed(P) : InSpan(P, h, i) /\ BlankAbove(P, LastOf(P, h))
        \/ /\ ~LooksBlank(P.data[i]) /\ BlankAbove(P, i)
           /\ \A k \in Entries : k < i => P.table[k] # "EMPTY"
Steady(P) == Shape(P) /\ (P.state = "ACTIVE" => Loose(P))

(* Items are whole, and nothing is exposed.                                *)
Complete(P) == \A h \in Headed(P) : \A j \in Entries : InSpan(P, h, j) => P.table[j] = "WRITTEN"
Clean(P) == \A i \in Entries : ~Exposed(P, i)
Sound(P) == Shape(P) /\ Complete(P) /\ (P.state = "ACTIVE" => Clean(P))

(* The pages that will be read as they are: not the one into which a page  *)
(* is being moved, which is erased if the power fails.                     *)
Kept == {p \in Live : State(p) = "ACTIVE" => \A q \in Pages : State(q) # "FREEING"}
Settled == \A p \in Kept : Sound(flash[p])

(* The list s of operations erases entry j of page p.                      *)
Hit(s, p, j) == \E x \in 1 .. Len(s) : s[x].op = "alter" /\ s[x].page = p /\ j \in s[x].entries

(* The list makes page p, which is P, sound: a header goes after the       *)
(* entries of its item, and no item loses some of its entries only; what   *)
(* is exposed goes.                                                        *)
ErasingPage(s, p, P) ==
    /\ \A h \in Headed(P) : \A x \in 1 .. Len(s) :
          s[x].page = p /\ h \in s[x].entries =>
             \A j \in Entries : InSpan(P, h, j) =>
                 \/ P.table[j] = "ERASED"
                 \/ \E y \in 1 .. x : s[y].page = p /\ j \in s[y].entries
    /\ \A h \in Headed(P) : \A j \in Entries :
          InSpan(P, h, j) /\ (P.table[j] # "WRITTEN" \/ Hit(s, p, j)) => Hit(s, p, h)
    /\ P.state = "ACTIVE" => \A i \in Entries : Exposed(P, i) => Hit(s, p, i)
Erasing(s) ==
    /\ \A x \in 1 .. Len(s) : s[x].op = "alter" /\ s[x].state = "ERASED"
    /\ \A p \in Kept : ErasingPage(s, p, flash[p])

(* There is room for an item with value v from entry h on, and the page is *)
(* sound aside from it.                                                    *)
Room(P, h, v) ==
    /\ h \in Entries /\ h + Span(v) <= EntryCount
    /\ \A j \in Entries : j < h => P.table[j] # "EMPTY"
    /\ BlankAbove(P, h + Span(v) - 1)
    /\ \A g \in Headed(P) : g # h => /\ LastOf(P, g) < h
                                     /\ \A f \in Headed(P) : g < f => LastOf(P, g) < f
                                     /\ \A j \in Entries : InSpan(P, g, j) => P.table[j] = "WRITTEN"
    /\ \A j \in Entries : P.table[j] = "WRITTEN" =>
          \/ h <= j /\ j < h + Span(v)
          \/ \E g \in Headed(P) : g # h /\ InSpan(P, g, j)

(* What follows the header of the item: each part is programmed once, and  *)
(* marked as written in the end.                                           *)
PartProgrammed(s, x, P, h, k, v) ==
    /\ s[x].op = "program" /\ s[x].entry \in Entries
    /\ h < s[x].entry /\ s[x].entry < h + Span(v)
    /\ P.data[s[x].entry] = Blank /\ s[x].content = Part(k, v, s[x].entry - h)
    /\ \A y \in 1 .. Len(s) : y # x /\ s[y].op = "program" => s[y].entry # s[x].entry
PartsMarked(s, x, h, v) ==
    /\ s[x].op = "alter" /\ s[x].state = "WRITTEN"
    /\ \A j \in s[x].entries : h < j /\ j < h + Span(v)
Rest(s, P, q, h, k, v) ==
    /\ \A x \in 1 .. Len(s) :
          s[x].page = q /\ (PartProgrammed(s, x, P, h, k, v) \/ PartsMarked(s, x, h, v))
    /\ \A j \in Entries : h < j /\ j < h + Span(v) =>
          /\ ~IsHeader(P.data[j])
          /\ P.table[j] = "WRITTEN" \/ Hit(s, q, j)

(* The list writes the item (k, v) at entry h of page q, which is P: the   *)
(* header is programmed, it is marked as written, and the rest.            *)
Unwritten(P, h) == \A j \in Entries : h <= j => P.table[j] # "WRITTEN"
ToProgram(s, P, q, h, k, v) ==
    /\ P.data[h] = Blank /\ BlankAbove(P, h) /\ Unwritten(P, h)
    /\ s # <<>> /\ s[1] = Program(q, h, Part(k, v, 0))
    /\ Tail(s) # <<>> /\ Tail(s)[1] = Alter(q, {h}, "WRITTEN")
    /\ Rest(Tail(Tail(s)), P, q, h, k, v)
ToMark(s, P, q, h, k, v) ==
    /\ P.data[h] = Part(k, v, 0) /\ BlankAbove(P, h) /\ Unwritten(P, h)
    /\ s # <<>> /\ s[1] = Alter(q, {h}, "WRITTEN")
    /\ Rest(Tail(s), P, q, h, k, v)
ToFollow(s, P, q, h, k, v) ==
    /\ P.data[h] = Part(k, v, 0) /\ P.table[h] = "WRITTEN"
    /\ Rest(s, P, q, h, k, v)
Writing(s, P, q, h, k, v) ==
    /\ P.state = "ACTIVE" /\ Room(P, h, v)
    /\ \/ ToProgram(s, P, q, h, k, v)
       \/ ToMark(s, P, q, h, k, v)
       \/ ToFollow(s, P, q, h, k, v)

(* A page with nothing but its header; and what the list does behind its   *)
(* first m operations to a page that is P then, so that it becomes F: each *)
(* entry that differs is programmed once and marked as written.            *)
Opened == [ErasedPage EXCEPT !.state = "ACTIVE"]
Remaining(s, m, P, F) ==
    /\ \A x \in 1 .. Len(s) : x > m /\ s[x].op = "program" =>
          /\ s[x].entry \in Entries
          /\ P.data[s[x].entry] = Blank
          /\ F.data[s[x].entry] = s[x].content
          /\ \A y \in 1 .. Len(s) : y > m /\ y # x /\ s[y].op = "program" => s[y].entry # s[x].entry
    /\ \A x \in 1 .. Len(s) : x > m /\ s[x].op = "alter" =>
          s[x].state = "WRITTEN" /\ \A j \in s[x].entries : F.table[j] = "WRITTEN"
    /\ \A j \in Entries :
          /\ F.data[j] = P.data[j] \/ \E x \in 1 .. Len(s) : x > m /\ s[x].op = "program" /\ s[x].entry = j
          /\ F.table[j] = P.table[j]
             \/ \E x \in 1 .. Len(s) : x > m /\ s[x].op = "alter" /\ j \in s[x].entries

(* The list copies into page q, which is P, until it is the sound page F.  *)
CopiesTo(s, q, P, F) ==
    /\ Sound(F) /\ F.state = "ACTIVE"
    /\ \A m \in 1 .. Len(s) : s[m] = Header(q) => Remaining(s, m, Opened, F)
    /\ P.state = "ACTIVE" /\ s # <<>> /\ s[1] # Erase(q) => Remaining(s, 0, P, F)
Moves(s, q, P) ==
    /\ s # <<>> => s[Len(s)].op = "erase"
    /\ \E F \in PageType : CopiesTo(s, q, P, F)

(* Entry h is where nvs_set_* writes the item.                             *)
WritesAt(h) ==
    IF todo # <<>> /\ Head(todo) = Header(Back)
    THEN Writing(Tail(todo), Opened, Back, h, call.key, call.value)
    ELSE Writing(todo, flash[Back], Back, h, call.key, call.value)

(* The inductive invariant: whatever has been cut off, the pages that are  *)
(* kept are steady; between the functions they are sound, and within them  *)
(* the operations left to do make them so again.                           *)
DataInv ==
    /\ \A p \in Kept : Steady(flash[p])
    /\ phase \in {"manager", "freeing", "stored", "clearing"} => Erasing(todo)
    /\ phase \in {"ready", "again", "request", "error"} => Settled
    /\ phase = "error" => todo = <<>>
    /\ phase \in {"ready", "again"} => Moves(todo, Back, flash[Back])
    /\ phase = "written" =>
          /\ \A p \in Kept : p # Back => Sound(flash[p])
          /\ \E h \in Entries : WritesAt(h)

-----------------------------------------------------------------------------

(* Where an item ends depends on its header only.                          *)
LEMMA SameLast ==
    ASSUME NEW P, NEW Q, NEW i, P.data[i] = Q.data[i]
    PROVE  LastOf(P, i) = LastOf(Q, i) /\ IsHeader(P.data[i]) = IsHeader(Q.data[i])
BY DEF LastOf, SpanAt

(* What a list erases, its first operation and the rest do.                *)
LEMMA HitTail ==
    ASSUME NEW S, NEW s \in Seq(S), s # <<>>, NEW p, NEW j
    PROVE  Hit(s, p, j) <=> \/ s[1].op = "alter" /\ s[1].page = p /\ j \in s[1].entries
                            \/ Hit(Tail(s), p, j)
<1>1. /\ Tail(s) \in Seq(S) /\ Len(Tail(s)) = Len(s) - 1 /\ Len(s) \in Nat /\ Len(s) >= 1
      /\ \A x \in 1 .. Len(Tail(s)) : Tail(s)[x] = s[x + 1]
  OBVIOUS
<1> DEFINE t == Tail(s)
           Does(o) == o.op = "alter" /\ o.page = p /\ j \in o.entries
<1>2. ASSUME Hit(s, p, j), ~Does(s[1]) PROVE Hit(t, p, j)
  <2>1. PICK x \in 1 .. Len(s) : Does(s[x])
    BY <1>2 DEF Hit
  <2>2. x # 1
    BY <1>2, <2>1
  <2>3. x - 1 \in 1 .. Len(t) /\ t[x - 1] = s[x]
    BY <1>1, <2>2
  <2> HIDE DEF t
  <2> QED BY <2>1, <2>3 DEF Hit
<1>3. ASSUME Hit(t, p, j) PROVE Hit(s, p, j)
  <2>1. PICK x \in 1 .. Len(t) : Does(t[x])
    BY <1>3 DEF Hit
  <2>2. x + 1 \in 1 .. Len(s) /\ t[x] = s[x + 1]
    BY <1>1
  <2> HIDE DEF t
  <2> QED BY <2>1, <2>2 DEF Hit
<1>4. ASSUME Does(s[1]) PROVE Hit(s, p, j)
  <2>1. 1 \in 1 .. Len(s)
    BY <1>1
  <2> QED BY <1>4, <2>1 DEF Hit
<1> QED BY <1>2, <1>3, <1>4

(* The entries of D of page P are erased, which gives page Q.              *)
ErasedIn(P, Q, D) ==
    /\ Q.state = P.state
    /\ \A j \in Entries : j \in D => Q.table[j] = "ERASED" /\ Q.data[j] = Spoiled(P.data[j])
    /\ \A j \in Entries : j \notin D => Q.table[j] = P.table[j] /\ Q.data[j] = P.data[j]

(* The headers that are left, and where their items end.                   *)
LEMMA ErasedHeaders ==
    ASSUME NEW P, NEW Q, NEW D, ErasedIn(P, Q, D)
    PROVE  /\ Headed(Q) = Headed(P) \ D
           /\ \A h \in Headed(Q) : LastOf(Q, h) = LastOf(P, h)
           /\ \A j \in Entries : Q.data[j] # Blank => P.data[j] # Blank
<1>1. Headed(Q) = Headed(P) \ D
  BY DEF Headed, ErasedIn
<1>2. \A h \in Headed(Q) : P.data[h] = Q.data[h]
  BY DEF Headed, ErasedIn
<1>3. \A h \in Headed(Q) : LastOf(Q, h) = LastOf(P, h)
  BY <1>2, SameLast
<1>4. \A j \in Entries : Q.data[j] # Blank => P.data[j] # Blank
  BY DEF ErasedIn, Spoiled
<1> QED BY <1>1, <1>3, <1>4

(* The first of the erasures leaves a page as the next ones expect it.     *)
LEMMA ErasingStep ==
    ASSUME NEW S, NEW s \in Seq(S), s # <<>>, NEW p, NEW P, NEW Q,
           s[1].op = "alter", s[1].page = p, ErasedIn(P, Q, s[1].entries),
           Steady(P), ErasingPage(s, p, P)
    PROVE  Steady(Q) /\ ErasingPage(Tail(s), p, Q)
<1> DEFINE D == s[1].entries
           t == Tail(s)
<1>1. /\ Headed(Q) = Headed(P) \ D
      /\ \A h \in Headed(Q) : LastOf(Q, h) = LastOf(P, h)
      /\ \A j \in Entries : Q.data[j] # Blank => P.data[j] # Blank
  BY ErasedHeaders
<1>2. /\ t \in Seq(S) /\ Len(t) = Len(s) - 1 /\ Len(s) \in Nat /\ Len(s) >= 1
      /\ \A x \in 1 .. Len(t) : t[x] = s[x + 1]
  OBVIOUS
<1>3. \A j : Hit(s, p, j) <=> j \in D \/ Hit(t, p, j)
  BY HitTail
<1>4. \A h \in Headed(Q) : \A j \in Entries : InSpan(Q, h, j) <=> InSpan(P, h, j)
  BY <1>1 DEF InSpan
<1>5. /\ Q.state = P.state
      /\ \A j \in Entries : j \in D => Q.table[j] = "ERASED"
      /\ \A j \in Entries : j \notin D => Q.table[j] = P.table[j] /\ Q.data[j] = P.data[j]
  BY DEF ErasedIn
\* An item whose header is erased has nothing left but what is erased.
<1>6. ASSUME NEW h \in Headed(P), h \in D, NEW j \in Entries, InSpan(P, h, j)
      PROVE  Q.table[j] = "ERASED"
  <2>1. 1 \in 1 .. Len(s)
    BY <1>2
  <2>2. P.table[j] = "ERASED" \/ \E y \in 1 .. 1 : s[y].page = p /\ j \in s[y].entries
    BY <1>6, <2>1 DEF ErasingPage
  <2>3. P.table[j] = "ERASED" \/ j \in D
    BY <2>2
  <2> QED BY <1>5, <2>3
<1>7. Apart(Q)
  <2>1. Apart(P)
    BY DEF Steady, Shape
  <2> QED BY <1>1, <2>1 DEF Apart
<1>8. Owned(Q)
  <2> SUFFICES ASSUME NEW j \in Entries, Q.table[j] = "WRITTEN"
               PROVE  \E h \in Headed(Q) : InSpan(Q, h, j)
    BY DEF Owned
  <2>1. P.table[j] = "WRITTEN"
    BY <1>5
  <2>2. PICK h \in Headed(P) : InSpan(P, h, j)
    BY <2>1 DEF Steady, Shape, Owned
  <2>3. h \notin D
    BY <1>6, <2>2
  <2> QED BY <1>1, <1>4, <2>2, <2>3
<1>9. ASSUME NEW i \in Entries, Exposed(Q, i) PROVE Exposed(P, i) /\ i \notin D
  BY <1>1, <1>5, <1>9 DEF Exposed
<1>10. ASSUME P.state = "ACTIVE" PROVE Loose(Q)
  <2> SUFFICES ASSUME NEW i \in Entries, Exposed(Q, i)
               PROVE  \/ \E h \in Headed(Q) : InSpan(Q, h, i) /\ BlankAbove(Q, LastOf(Q, h))
                      \/ /\ ~LooksBlank(Q.data[i]) /\ BlankAbove(Q, i)
                         /\ \A k \in Entries : k < i => Q.table[k] # "EMPTY"
    BY DEF Loose
  <2>1. Exposed(P, i) /\ i \notin D
    BY <1>9
  <2>2. \A n : BlankAbove(P, n) => BlankAbove(Q, n)
    BY <1>1 DEF BlankAbove
  <2>3. \/ \E h \in Headed(P) : InSpan(P, h, i) /\ BlankAbove(P, LastOf(P, h))
        \/ /\ ~LooksBlank(P.data[i]) /\ BlankAbove(P, i)
           /\ \A k \in Entries : k < i => P.table[k] # "EMPTY"
    BY <1>10, <2>1 DEF Steady, Loose
  <2>4. CASE \E h \in Headed(P) : InSpan(P, h, i) /\ BlankAbove(P, LastOf(P, h))
    <3>1. PICK h \in Headed(P) : InSpan(P, h, i) /\ BlankAbove(P, LastOf(P, h))
      BY <2>4
    <3>2. Q.table[i] = "EMPTY"
      BY DEF Exposed
    <3>3. h \notin D
      BY <1>6, <3>1, <3>2
    <3>4. h \in Headed(Q)
      BY <1>1, <3>3
    <3> QED BY <1>1, <1>4, <2>2, <3>1, <3>4
  <2>5. CASE /\ ~LooksBlank(P.data[i]) /\ BlankAbove(P, i)
             /\ \A k \in Entries : k < i => P.table[k] # "EMPTY"
    <3>1. Q.data[i] = P.data[i]
      BY <1>5, <2>1
    <3>2. \A k \in Entries : k < i => Q.table[k] # "EMPTY"
      BY <1>5, <2>5
    <3> QED BY <2>2, <2>5, <3>1, <3>2
  <2> QED BY <2>3, <2>4, <2>5
<1>11. Steady(Q)
  BY <1>5, <1>7, <1>8, <1>10 DEF Steady, Shape
<1>12. ASSUME NEW h \in Headed(Q), NEW x \in 1 .. Len(t), t[x].page = p, h \in t[x].entries,
              NEW j \in Entries, InSpan(Q, h, j)
       PROVE  \/ Q.table[j] = "ERASED"
              \/ \E y \in 1 .. x : t[y].page = p /\ j \in t[y].entries
  <2>1. h \in Headed(P) /\ InSpan(P, h, j)
    BY <1>1, <1>4, <1>12
  <2>2. x + 1 \in 1 .. Len(s) /\ s[x + 1].page = p /\ h \in s[x + 1].entries
    BY <1>2, <1>12
  <2>3. \/ P.table[j] = "ERASED"
        \/ \E y \in 1 .. x + 1 : s[y].page = p /\ j \in s[y].entries
    BY <2>1, <2>2 DEF ErasingPage
  <2>4. P.table[j] = "ERASED" => Q.table[j] = "ERASED"
    BY <1>5
  <2>5. ASSUME NEW y \in 1 .. x + 1, s[y].page = p, j \in s[y].entries
        PROVE  \/ Q.table[j] = "ERASED"
               \/ \E z \in 1 .. x : t[z].page = p /\ j \in t[z].entries
    <3>1. CASE y = 1
      BY <1>5, <2>5, <3>1
    <3>2. CASE y # 1
      <4>1. y - 1 \in 1 .. x /\ y - 1 \in 1 .. Len(t) /\ t[y - 1] = s[y]
        BY <1>2, <3>2
      <4> HIDE DEF t
      <4> QED BY <2>5, <4>1
    <3> QED BY <3>1, <3>2
  <2> QED BY <2>3, <2>4, <2>5
<1>13. ASSUME NEW h \in Headed(Q), NEW j \in Entries, InSpan(Q, h, j),
              Q.table[j] # "WRITTEN" \/ Hit(t, p, j)
       PROVE  Hit(t, p, h)
  <2>1. h \in Headed(P) /\ InSpan(P, h, j) /\ h \notin D
    BY <1>1, <1>4, <1>13
  <2>2. P.table[j] # "WRITTEN" \/ Hit(s, p, j)
    BY <1>3, <1>5, <1>13
  <2>3. Hit(s, p, h)
    BY <2>1, <2>2 DEF ErasingPage
  <2> QED BY <1>3, <2>1, <2>3
<1>14. ASSUME Q.state = "ACTIVE", NEW i \in Entries, Exposed(Q, i) PROVE Hit(t, p, i)
  <2>1. Exposed(P, i) /\ i \notin D
    BY <1>9, <1>14
  <2>2. Hit(s, p, i)
    BY <1>5, <1>14, <2>1 DEF ErasingPage
  <2> QED BY <1>3, <2>1, <2>2
<1>15. ErasingPage(t, p, Q)
  <2> HIDE DEF t
  <2> QED BY <1>12, <1>13, <1>14 DEF ErasingPage
<1> QED BY <1>11, <1>15

(* It leaves the other pages as they are.                                  *)
LEMMA ErasingOther ==
    ASSUME NEW S, NEW s \in Seq(S), s # <<>>, NEW p, NEW P, s[1].page # p, ErasingPage(s, p, P)
    PROVE  ErasingPage(Tail(s), p, P)
<1> DEFINE t == Tail(s)
<1>1. /\ t \in Seq(S) /\ Len(t) = Len(s) - 1 /\ Len(s) \in Nat /\ Len(s) >= 1
      /\ \A x \in 1 .. Len(t) : t[x] = s[x + 1]
  OBVIOUS
<1>2. \A j : Hit(s, p, j) <=> Hit(t, p, j)
  BY HitTail
<1>3. ASSUME NEW h \in Headed(P), NEW x \in 1 .. Len(t), t[x].page = p, h \in t[x].entries,
             NEW j \in Entries, InSpan(P, h, j)
      PROVE  \/ P.table[j] = "ERASED"
             \/ \E y \in 1 .. x : t[y].page = p /\ j \in t[y].entries
  <2>1. x + 1 \in 1 .. Len(s) /\ s[x + 1].page = p /\ h \in s[x + 1].entries
    BY <1>1, <1>3
  <2>2. \/ P.table[j] = "ERASED"
        \/ \E y \in 1 .. x + 1 : s[y].page = p /\ j \in s[y].entries
    BY <1>3, <2>1 DEF ErasingPage
  <2>3. ASSUME NEW y \in 1 .. x + 1, s[y].page = p, j \in s[y].entries
        PROVE  \E z \in 1 .. x : t[z].page = p /\ j \in t[z].entries
    <3>1. y # 1
      BY <2>3
    <3>2. y - 1 \in 1 .. x /\ y - 1 \in 1 .. Len(t) /\ t[y - 1] = s[y]
      BY <1>1, <3>1
    <3> HIDE DEF t
    <3> QED BY <2>3, <3>2
  <2> QED BY <2>2, <2>3
<1> HIDE DEF t
<1>4. ErasingPage(t, p, P)
  BY <1>2, <1>3 DEF ErasingPage
<1> QED BY <1>4 DEF t

(* When all is done the page is sound; a sound page asks for nothing.      *)
LEMMA ErasingDone ==
    ASSUME NEW p, NEW P
    PROVE  /\ Steady(P) /\ ErasingPage(<<>>, p, P) => Sound(P)
           /\ Sound(P) => Steady(P)
<1>1. \A j : ~Hit(<<>>, p, j)
  BY DEF Hit
<1>2. ASSUME Steady(P), ErasingPage(<<>>, p, P) PROVE Sound(P)
  <2>1. Complete(P)
    BY <1>1, <1>2 DEF ErasingPage, Complete
  <2>2. P.state = "ACTIVE" => Clean(P)
    BY <1>1, <1>2 DEF ErasingPage, Clean
  <2> QED BY <1>2, <2>1, <2>2 DEF Sound, Steady
<1>3. ASSUME Sound(P) PROVE Steady(P)
  BY <1>3 DEF Sound, Steady, Clean, Loose
<1> QED BY <1>2, <1>3

(* A sound page of which nothing is erased.                                *)
LEMMA SoundUntouched ==
    ASSUME NEW s, NEW p, NEW P, Sound(P), \A x \in 1 .. Len(s) : s[x].page # p
    PROVE  ErasingPage(s, p, P)
<1>1. \A j : ~Hit(s, p, j)
  BY DEF Hit
<1> QED BY <1>1 DEF ErasingPage, Sound, Complete, Clean

(* Division keeps the order.                                               *)
LEMMA DivMonotone ==
    ASSUME NEW d \in Nat, d > 0, NEW a \in Nat, NEW b \in Nat, a <= b
    PROVE  a \div d \in Nat /\ a \div d <= b \div d
<1> DEFINE q == a \div d
           r == b \div d
<1>1. q \in Nat /\ r \in Nat
  OBVIOUS
<1>2. a >= q * d /\ b < (r + 1) * d
  OBVIOUS
<1> HIDE DEF q, r
<1>3. ASSUME q > r PROVE FALSE
  <2>1. q >= r + 1
    BY <1>1, <1>3
  <2>2. q * d >= (r + 1) * d
    BY <1>1, <2>1
  <2>3. q * d \in Int /\ (r + 1) * d \in Int
    BY <1>1
  <2> QED BY <1>2, <2>2, <2>3
<1>4. q <= r
  BY <1>1, <1>3
<1> QED BY <1>1, <1>4 DEF q, r

(* The words of a range, from the last to the first: each operation alters *)
(* entries of the range, each entry of it is altered, and before the first *)
(* entry all the others are.                                               *)
Alters(s, p, state, first, last) ==
    /\ s # <<>> /\ Len(s) \in Nat /\ DOMAIN s = 1 .. Len(s)
    /\ \A x \in 1 .. Len(s) :
          /\ s[x].op = "alter" /\ s[x].page = p /\ s[x].state = state
          /\ \A j \in s[x].entries : j \in Nat /\ first <= j /\ j <= last
    /\ \A j \in Nat : first <= j /\ j <= last =>
          \E x \in 1 .. Len(s) : j \in s[x].entries
    /\ \A x \in 1 .. Len(s) : first \in s[x].entries =>
          \A j \in Nat : first <= j /\ j <= last => \E y \in 1 .. x : j \in s[y].entries

LEMMA AlterRangeOps ==
    ASSUME NEW p, NEW state, NEW first \in Nat, NEW last \in Nat, first <= last
    PROVE  Alters(AlterRange(p, first, last, state), p, state, first, last)
<1> DEFINE a == first \div PerWord
           b == last \div PerWord
           L == b - a + 1
           W(n) == {i \in first .. last : i \div PerWord = b - n + 1}
<1> SUFFICES ASSUME NEW s, s = AlterRange(p, first, last, state)
             PROVE  Alters(s, p, state, first, last)
  OBVIOUS
<1>1. PerWord \in Nat /\ PerWord > 0
  BY NvsAssumption
<1>2. a \in Nat /\ b \in Nat /\ a <= b
  BY <1>1, DivMonotone
<1>3. \A j \in Nat : first <= j /\ j <= last =>
          j \div PerWord \in Nat /\ a <= j \div PerWord /\ j \div PerWord <= b
  BY <1>1, DivMonotone
<1>4. s = [n \in 1 .. L |-> Alter(p, W(n), state)]
  BY DEF AlterRange
<1>5. L \in Nat /\ L >= 1
  BY <1>2
<1>6. \A n : \A j : j \in W(n) <=> /\ j \in Nat /\ first <= j /\ j <= last
                                   /\ j \div PerWord = b - n + 1
  OBVIOUS
<1> HIDE DEF a, b, W
<1>7. Len(s) = L /\ DOMAIN s = 1 .. L /\ s # <<>>
  BY <1>4, <1>5
<1>8. \A x \in 1 .. L : /\ s[x].op = "alter" /\ s[x].page = p /\ s[x].state = state
                        /\ s[x].entries = W(x)
  BY <1>4 DEF Alter
<1>9. ASSUME NEW j \in Nat, first <= j, j <= last
      PROVE  b - (j \div PerWord) + 1 \in 1 .. L /\ j \in W(b - (j \div PerWord) + 1)
  <2>1. j \div PerWord \in Nat /\ a <= j \div PerWord /\ j \div PerWord <= b
    BY <1>3, <1>9
  <2>2. PICK w : w = j \div PerWord
    OBVIOUS
  <2>3. b - w + 1 \in 1 .. L /\ w = b - (b - w + 1) + 1
    BY <1>2, <2>1, <2>2
  <2> QED BY <1>6, <1>9, <2>2, <2>3
<1>10. ASSUME NEW x \in 1 .. L, first \in W(x), NEW j \in Nat, first <= j, j <= last
       PROVE  \E y \in 1 .. x : j \in W(y)
  <2>1. PICK y : y = b - (j \div PerWord) + 1
    OBVIOUS
  <2>2. y \in 1 .. L /\ j \in W(y)
    BY <1>9, <1>10, <2>1
  <2>3. a = b - x + 1
    BY <1>6, <1>10 DEF a
  <2>4. PICK w : w = j \div PerWord /\ w \in Nat /\ a <= w
    BY <1>3, <1>10
  <2>5. y <= x
    BY <1>2, <1>5, <2>1, <2>3, <2>4
  <2> QED BY <2>2, <2>5
<1> HIDE DEF L
<1>11. \A x \in 1 .. L : \A j \in s[x].entries : j \in Nat /\ first <= j /\ j <= last
  BY <1>6, <1>8
<1>12. \A j \in Nat : first <= j /\ j <= last => \E x \in 1 .. L : j \in s[x].entries
  BY <1>8, <1>9
<1>13. \A x \in 1 .. L : first \in s[x].entries =>
                 \A j \in Nat : first <= j /\ j <= last => \E y \in 1 .. x : j \in s[y].entries
  <2>1. \A x \in 1 .. L : \A y \in 1 .. x : y \in 1 .. L
    BY <1>5
  <2> QED BY <1>8, <1>10, <2>1
<1> QED BY <1>5, <1>7, <1>8, <1>11, <1>12, <1>13 DEF Alters

(* The item at a header of a sound page is erased, its header at last.     *)
LEMMA SoundErased ==
    ASSUME NEW p, NEW P \in PageType, Sound(P), NEW h \in Headed(P),
           NEW s, s = AlterRange(p, h, LastOf(P, h), "ERASED")
    PROVE  ErasingPage(s, p, P)
<1> DEFINE l == LastOf(P, h)
<1>1. h \in Entries /\ h \in Nat /\ l \in Nat /\ h <= l
  BY LastOfType, EntriesAreNat DEF Headed
<1>2. /\ \A x \in 1 .. Len(s) :
            /\ s[x].op = "alter" /\ s[x].page = p
            /\ \A j \in s[x].entries : j \in Nat /\ h <= j /\ j <= l
      /\ \A j \in Nat : h <= j /\ j <= l => \E x \in 1 .. Len(s) : j \in s[x].entries
      /\ \A x \in 1 .. Len(s) : h \in s[x].entries =>
            \A j \in Nat : h <= j /\ j <= l => \E y \in 1 .. x : j \in s[y].entries
      /\ Len(s) \in Nat
  <2>1. Alters(s, p, "ERASED", h, l)
    BY <1>1, AlterRangeOps
  <2> HIDE DEF l
  <2> QED BY <2>1 DEF Alters
<1>3. /\ Apart(P) /\ Complete(P)
      /\ P.state = "ACTIVE" => Clean(P)
  BY DEF Sound, Shape
<1>4. \A g \in Headed(P) : g \in Nat /\ g <= LastOf(P, g) /\ LastOf(P, g) \in Nat
  BY LastOfType, EntriesAreNat DEF Headed
\* A header in the span of h is h.
<1>5. ASSUME NEW g \in Headed(P), NEW j \in Nat, InSpan(P, g, j), InSpan(P, h, j) PROVE g = h
  <2>1. /\ g < h => LastOf(P, g) < h
        /\ h < g => LastOf(P, h) < g
    BY <1>3 DEF Apart
  <2> QED BY <1>1, <1>4, <1>5, <2>1 DEF InSpan
<1>6. \A j \in Entries : j \in Nat
  BY EntriesAreNat
<1>7. Hit(s, p, h)
  <2>1. PICK x \in 1 .. Len(s) : h \in s[x].entries
    BY <1>1, <1>2
  <2> QED BY <1>2, <2>1 DEF Hit
<1>8. ASSUME NEW g \in Headed(P), NEW x \in 1 .. Len(s), g \in s[x].entries,
             NEW j \in Entries, InSpan(P, g, j)
      PROVE  \E y \in 1 .. x : s[y].page = p /\ j \in s[y].entries
  <2>1. InSpan(P, g, g) /\ InSpan(P, h, g)
    BY <1>2, <1>4, <1>8 DEF InSpan
  <2>2. g = h
    BY <1>4, <1>5, <2>1
  <2>3. h <= j /\ j <= l
    BY <1>8, <2>2 DEF InSpan
  <2>4. PICK y \in 1 .. x : j \in s[y].entries
    BY <1>2, <1>6, <1>8, <2>2, <2>3
  <2>5. y \in 1 .. Len(s)
    BY <1>2
  <2> QED BY <1>2, <2>4, <2>5
<1>9. ASSUME NEW g \in Headed(P), NEW j \in Entries, InSpan(P, g, j),
             P.table[j] # "WRITTEN" \/ Hit(s, p, j)
      PROVE  Hit(s, p, g)
  <2>1. Hit(s, p, j)
    BY <1>3, <1>9 DEF Complete
  <2>2. InSpan(P, h, j)
    BY <1>2, <2>1 DEF Hit, InSpan
  <2>3. g = h
    BY <1>5, <1>6, <1>9, <2>2
  <2> QED BY <1>7, <2>3
<1> QED BY <1>3, <1>8, <1>9 DEF ErasingPage, Clean

(* A scan of a page in shape stops at the headers.                         *)
LEMMA VisitedHeaders ==
    ASSUME NEW P \in PageType, Shape(P)
    PROVE  Visited(P) = Headed(P)
<1>1. /\ Visited(P) \in SUBSET Entries
      /\ \A i \in Entries : i \in Visited(P) <=>
            P.table[i] = "WRITTEN" /\ \A j \in Visited(P) : j < i => LastOf(P, j) < i
  BY VisitedIs
<1>2. /\ Headed(P) \in SUBSET Entries
      /\ \A i \in Entries : i \in Headed(P) <=> P.table[i] = "WRITTEN" /\ IsHeader(P.data[i])
  BY DEF Headed
<1>3. \A i \in Entries : ~IsHeader(P.data[i]) => LastOf(P, i) = i
  BY EntriesAreNat DEF LastOf, SpanAt
<1>4. Apart(P) /\ Owned(P)
  BY DEF Shape
<1>5. ASSUME NEW h \in Headed(P) PROVE h \in Visited(P)
  <2>1. ASSUME NEW j \in Visited(P), j < h PROVE LastOf(P, j) < h
    <3>1. CASE IsHeader(P.data[j])
      <4>1. j \in Headed(P)
        BY <1>1, <1>2, <3>1
      <4> QED BY <1>4, <2>1, <4>1 DEF Apart
    <3>2. CASE ~IsHeader(P.data[j])
      BY <1>1, <1>3, <2>1, <3>2
    <3> QED BY <3>1, <3>2
  <2> QED BY <1>1, <1>2, <2>1
<1>6. ASSUME NEW i \in Visited(P) PROVE i \in Headed(P)
  <2>1. i \in Entries /\ P.table[i] = "WRITTEN"
    BY <1>1
  <2>2. PICK h \in Headed(P) : h <= i /\ i <= LastOf(P, h)
    BY <1>4, <2>1 DEF Owned, InSpan
  <2>3. h = i
    <3> SUFFICES ASSUME h # i PROVE FALSE
      OBVIOUS
    <3>1. h \in Nat /\ i \in Nat
      BY <1>2, <2>1, EntriesAreNat
    <3>2. h < i
      BY <2>2, <3>1
    <3>3. h \in Visited(P)
      BY <1>5
    <3>4. LastOf(P, h) < i
      BY <1>1, <2>1, <3>2, <3>3
    <3>5. LastOf(P, h) \in Int
      BY <1>2, LastOfType
    <3> QED BY <2>2, <3>1, <3>4, <3>5
  <2> QED BY <2>3
<1> QED BY <1>1, <1>2, <1>5, <1>6

(* The sequence F is made of the sequences ss[1] .. ss[n], the one at b    *)
(* being behind the first off[b] members.                                  *)
Blocks(F, ss, n, off) ==
    /\ \A b \in 1 .. n : \A m \in 1 .. Len(ss[b]) :
          off[b] + m \in 1 .. Len(F) /\ F[off[b] + m] = ss[b][m]
    /\ \A x \in 1 .. Len(F) : \E b \in 1 .. n : \E m \in 1 .. Len(ss[b]) : x = off[b] + m

(* What FlattenSeq returns is made of the sequences it is given.           *)
LEMMA FlattenBlocks ==
    ASSUME NEW S, NEW L \in Nat, NEW ss \in [1 .. L -> Seq(S)]
    PROVE  \E off \in [1 .. L -> Nat] : Blocks(FlattenSeq(ss), ss, L, off)
<1>1. CASE L = 0
  <2>1. ss = <<>> /\ FlattenSeq(ss) = <<>>
    <3>1. ss = <<>> /\ Len(ss) = 0
      BY <1>1
    <3> QED BY <3>1, EmptySeq DEF FlattenSeq
  <2>2. Len(FlattenSeq(ss)) = 0
    BY <2>1
  <2>3. [b \in 1 .. L |-> 0] \in [1 .. L -> Nat]
    OBVIOUS
  <2>4. Blocks(FlattenSeq(ss), ss, L, [b \in 1 .. L |-> 0])
    BY <1>1, <2>2 DEF Blocks
  <2> QED BY <2>3, <2>4
<1>2. CASE L # 0
  <2>1. PICK f \in [1 .. L -> Seq(S)] : Joined(f, ss, L) /\ FlattenSeq(ss) = f[L]
    BY <1>2, FlattenSteps
  <2> DEFINE off == [b \in 1 .. L |-> IF b = 1 THEN 0 ELSE Len(f[b - 1])]
             Bad == {n \in 1 .. L : ~Blocks(f[n], ss, n, off)}
  <2>2. \A b \in 1 .. L : f[b] \in Seq(S) /\ ss[b] \in Seq(S) /\ Len(f[b]) \in Nat /\ Len(ss[b]) \in Nat
    BY <2>1
  <2>3. \A b \in 1 .. L : b # 1 => b - 1 \in 1 .. L
    OBVIOUS
  <2>4. off \in [1 .. L -> Nat]
    BY <2>2, <2>3
  <2>5. Blocks(f[1], ss, 1, off)
    <3>1. f[1] = ss[1] /\ 1 \in 1 .. L /\ off[1] = 0
      BY <1>2, <2>1 DEF Joined
    <3> HIDE DEF off
    <3>2. \A b \in 1 .. 1 : b = 1
      OBVIOUS
    <3>3. 1 \in 1 .. 1
      OBVIOUS
    <3>4. Len(ss[1]) \in Nat
      BY <2>2, <3>1
    <3>5. \A m \in 1 .. Len(ss[1]) : 0 + m = m /\ off[1] + m = m
      BY <3>1, <3>4
    <3> QED BY <3>1, <3>2, <3>3, <3>5 DEF Blocks
  <2>6. ASSUME NEW n \in 1 .. L, n # 1, Blocks(f[n - 1], ss, n - 1, off)
        PROVE  Blocks(f[n], ss, n, off)
    <3>1. n - 1 \in 1 .. L /\ n \in 2 .. L
      BY <2>6
    <3>2. f[n] = f[n - 1] \o ss[n] /\ off[n] = Len(f[n - 1])
      BY <2>1, <2>6, <3>1 DEF Joined
    <3>3. PICK g, t : g = f[n - 1] /\ t = ss[n] /\ g \in Seq(S) /\ t \in Seq(S)
      BY <2>2, <3>1
    <3>4. /\ Len(f[n]) = Len(g) + Len(t)
          /\ \A x \in 1 .. Len(g) : f[n][x] = g[x]
          /\ \A m \in 1 .. Len(t) : f[n][Len(g) + m] = t[m]
      BY <3>2, <3>3
    <3>5. Len(g) \in Nat /\ Len(t) \in Nat
      BY <3>3
    <3> HIDE DEF off
    <3>6. ASSUME NEW b \in 1 .. n, NEW m \in 1 .. Len(ss[b])
          PROVE  off[b] + m \in 1 .. Len(f[n]) /\ f[n][off[b] + m] = ss[b][m]
      <4>1. CASE b = n
        <5>1. m \in 1 .. Len(t) /\ off[b] + m = Len(g) + m
          BY <3>2, <3>3, <4>1
        <5>2. Len(g) + m \in 1 .. Len(f[n])
          BY <3>4, <3>5, <5>1
        <5> QED BY <3>3, <3>4, <4>1, <5>1, <5>2
      <4>2. CASE b # n
        <5>1. b \in 1 .. n - 1
          BY <4>2
        <5>2. off[b] + m \in 1 .. Len(g) /\ g[off[b] + m] = ss[b][m]
          BY <2>6, <3>3, <5>1 DEF Blocks
        <5>3. off[b] + m \in 1 .. Len(f[n])
          BY <3>4, <3>5, <5>2
        <5> QED BY <3>4, <5>2, <5>3
      <4> QED BY <4>1, <4>2
    <3>7. ASSUME NEW x \in 1 .. Len(f[n])
          PROVE  \E b \in 1 .. n : \E m \in 1 .. Len(ss[b]) : x = off[b] + m
      <4>1. CASE x <= Len(g)
        <5>1. x \in 1 .. Len(f[n - 1])
          BY <3>3, <3>5, <4>1
        <5>2. PICK b \in 1 .. n - 1 : \E m \in 1 .. Len(ss[b]) : x = off[b] + m
          BY <2>6, <5>1 DEF Blocks
        <5>3. b \in 1 .. n
          OBVIOUS
        <5> QED BY <5>2, <5>3
      <4>2. CASE x > Len(g)
        <5>1. x - Len(g) \in 1 .. Len(t) /\ x = Len(g) + (x - Len(g))
          BY <3>4, <3>5, <4>2
        <5>2. n \in 1 .. n /\ off[n] = Len(g) /\ ss[n] = t
          BY <3>2, <3>3
        <5> QED BY <5>1, <5>2
      <4> QED BY <3>5, <4>1, <4>2
    <3> QED BY <3>6, <3>7 DEF Blocks
  <2>7. Bad = {}
    <3> SUFFICES ASSUME Bad # {} PROVE FALSE
      OBVIOUS
    <3>1. PICK n \in Bad : \A k \in Bad : n <= k
      <4>1. Bad \in SUBSET Nat
        OBVIOUS
      <4> HIDE DEF Bad
      <4> QED BY <4>1, Least
    <3>2. n \in 1 .. L /\ ~Blocks(f[n], ss, n, off)
      BY <3>1
    <3> HIDE DEF off
    <3>3. n # 1
      BY <2>5, <3>2
    <3>4. n - 1 \in 1 .. L /\ n - 1 \notin Bad
      BY <3>1, <3>2, <3>3
    <3>5. Blocks(f[n - 1], ss, n - 1, off)
      BY <3>4
    <3> QED BY <2>6, <3>2, <3>3, <3>5
  <2>8. L \in 1 .. L
    BY <1>2
  <2>9. Blocks(f[L], ss, L, off)
    BY <2>7, <2>8
  <2> HIDE DEF off
  <2> QED BY <2>1, <2>4, <2>9
<1> QED BY <1>1, <1>2

-----------------------------------------------------------------------------
(* Loading a page.                                                         *)

(* The first free entry.                                                   *)
LEMMA NextFreeIs ==
    ASSUME NEW P
    PROVE  /\ NextFree(P) \in Nat /\ NextFree(P) <= EntryCount
           /\ \A i \in Entries : i < NextFree(P) => P.table[i] # "EMPTY"
           /\ NextFree(P) < EntryCount =>
                 NextFree(P) \in Entries /\ P.table[NextFree(P)] = "EMPTY"
<1> DEFINE S == {i \in Entries : P.table[i] = "EMPTY"}
           U == S \cup {EntryCount}
<1>1. EntryCount \in Nat /\ U \in SUBSET Nat /\ U # {} /\ EntryCount \in U
  BY NvsAssumption, EntriesAreNat
<1>2. NextFree(P) = Min(U)
  BY DEF NextFree
<1>3. \A i \in Entries : P.table[i] = "EMPTY" => i \in U
  OBVIOUS
<1>4. \A i \in U : i = EntryCount \/ (i \in Entries /\ P.table[i] = "EMPTY")
  OBVIOUS
<1>5. \A i \in Entries : i \in Nat
  BY EntriesAreNat
<1> HIDE DEF U
<1>6. Min(U) \in U /\ \A i \in U : Min(U) <= i
  BY <1>1, MinIsLeast
<1>7. Min(U) \in Nat /\ Min(U) <= EntryCount
  BY <1>1, <1>6
<1>8. \A i \in Entries : i < Min(U) => P.table[i] # "EMPTY"
  BY <1>3, <1>5, <1>6, <1>7
<1>9. Min(U) < EntryCount => Min(U) \in Entries /\ P.table[Min(U)] = "EMPTY"
  <2>1. ASSUME NEW m \in Nat, m \in U, m < EntryCount PROVE m \in Entries /\ P.table[m] = "EMPTY"
    <3>1. m # EntryCount
      BY <1>1, <2>1
    <3> QED BY <1>4, <2>1, <3>1
  <2> QED BY <1>6, <1>7, <2>1
<1> QED BY <1>2, <1>7, <1>8, <1>9

(* The entries given up: from the first free one to one that looks blank.  *)
LEMMA HalfIs ==
    ASSUME NEW P
    PROVE  \E to \in Nat :
              /\ to <= EntryCount
              /\ HalfWritten(P) = IF P.state = "ACTIVE" THEN NextFree(P) .. to - 1 ELSE {}
              /\ \A i \in Entries : NextFree(P) <= i /\ i < to => ~LooksBlank(P.data[i])
              /\ NextFree(P) <= to /\ (to < EntryCount => LooksBlank(P.data[to]))
<1> DEFINE from == NextFree(P)
           S == {i \in from .. EntryCount - 1 : LooksBlank(P.data[i])}
           U == S \cup {EntryCount}
<1>1. from \in Nat /\ EntryCount \in Nat /\ from <= EntryCount
  BY NextFreeIs, NvsAssumption
<1>2. HalfWritten(P) = IF P.state = "ACTIVE" THEN from .. Min(U) - 1 ELSE {}
  BY DEF HalfWritten
<1> HIDE DEF from
<1>3. U \in SUBSET Nat /\ U # {} /\ EntryCount \in U /\ \A i \in U : from <= i
  BY <1>1
<1>4. \A i \in Entries : from <= i /\ LooksBlank(P.data[i]) => i \in U
  BY <1>1 DEF Entries
<1>5. \A i \in U : i = EntryCount \/ LooksBlank(P.data[i])
  OBVIOUS
<1> HIDE DEF U
<1>6. Min(U) \in U /\ \A i \in U : Min(U) <= i
  BY <1>3, MinIsLeast
<1>7. Min(U) \in Nat /\ Min(U) <= EntryCount /\ from <= Min(U)
  BY <1>3, <1>6
<1>8. \A i \in Entries : from <= i /\ i < Min(U) => ~LooksBlank(P.data[i])
  <2>1. \A i \in Entries : i \in Nat
    BY EntriesAreNat
  <2> QED BY <1>4, <1>6, <1>7, <2>1
<1>9. Min(U) < EntryCount => LooksBlank(P.data[Min(U)])
  BY <1>1, <1>5, <1>6
<1> QED BY <1>2, <1>7, <1>8, <1>9 DEF from

(* Each entry of half is altered by an operation of its own.               *)
GivesUp(s, p, half) ==
    /\ Len(s) \in Nat /\ DOMAIN s = 1 .. Len(s)
    /\ \A x \in 1 .. Len(s) : \E i \in half : s[x] = Alter(p, {i}, "ERASED")
    /\ \A i \in half : \E x \in 1 .. Len(s) : s[x] = Alter(p, {i}, "ERASED")

(* So Page::load gives up the entries.                                     *)
LEMMA HalfOps ==
    ASSUME NEW p, NEW P, NEW half, half = HalfWritten(P), NEW s,
           s = [n \in 1 .. Cardinality(half) |-> Alter(p, {Min(half) + n - 1}, "ERASED")]
    PROVE  half \in SUBSET Entries /\ GivesUp(s, p, half)
<1>1. PICK from \in Nat, to \in Nat :
         /\ from <= to /\ to <= EntryCount /\ half = from .. to - 1
  <2>1. PICK to \in Nat : /\ to <= EntryCount /\ NextFree(P) <= to
                          /\ half = IF P.state = "ACTIVE" THEN NextFree(P) .. to - 1 ELSE {}
    BY HalfIs
  <2>2. NextFree(P) \in Nat
    BY NextFreeIs
  <2>3. CASE P.state = "ACTIVE"
    BY <2>1, <2>2, <2>3
  <2>4. CASE P.state # "ACTIVE"
    <3>1. half = 0 .. 0 - 1 /\ 0 <= EntryCount
      BY <2>1, <2>4, NvsAssumption
    <3> QED BY <3>1
  <2> QED BY <2>3, <2>4
<1>2. half \in SUBSET Entries
  BY <1>1, NvsAssumption DEF Entries
<1>3. Cardinality(half) = to - from
  <2>1. from \in Int /\ to - 1 \in Int
    OBVIOUS
  <2>2. Cardinality(from .. to - 1) = IF from > to - 1 THEN 0 ELSE (to - 1) - from + 1
    BY <2>1, FS_Interval
  <2> QED BY <1>1, <2>2
<1>4. to - from \in Nat
  BY <1>1
<1>5. Len(s) = to - from /\ DOMAIN s = 1 .. to - from
  BY <1>3, <1>4
<1>6. CASE from = to
  <2>1. half = {}
    <3>1. \A i \in half : i \in Nat /\ from <= i /\ i <= to - 1
      BY <1>1
    <3>2. \A i \in half : FALSE
      BY <1>6, <3>1
    <3> QED BY <3>2
  <2>2. to - from = 0
    BY <1>6
  <2>3. Len(s) = 0
    BY <1>5, <2>2
  <2>4. \A x \in 1 .. Len(s) : FALSE
    <3>1. \A x \in 1 .. 0 : FALSE
      OBVIOUS
    <3> QED BY ONLY <2>3, <3>1
  <2>5. Len(s) \in Nat /\ DOMAIN s = 1 .. Len(s)
    BY ONLY <1>5, <2>2, <2>3
  <2> QED BY <1>2, <2>1, <2>4, <2>5 DEF GivesUp
<1>7. CASE from # to
  <2>1. Min(half) = from
    <3>1. half \in SUBSET Nat /\ half # {} /\ from \in half /\ \A i \in half : from <= i
      BY <1>1, <1>7
    <3>2. Min(half) \in half /\ \A i \in half : Min(half) <= i
      BY <3>1, MinIsLeast
    <3> QED BY <3>1, <3>2
  <2>2. \A x \in 1 .. to - from : s[x] = Alter(p, {from + x - 1}, "ERASED")
    BY <1>3, <2>1
  <2>3. \A x \in 1 .. to - from : from + x - 1 \in half
    BY <1>1
  <2>4. \A i \in half : i - from + 1 \in 1 .. to - from /\ i = from + (i - from + 1) - 1
    BY <1>1
  <2>5. \A i \in half : s[i - from + 1] = Alter(p, {i}, "ERASED")
    BY <2>2, <2>4
  <2>6. Len(s) \in Nat /\ DOMAIN s = 1 .. Len(s)
    BY <1>4, <1>5
  <2> HIDE DEF GivesUp
  <2>7. \A x \in 1 .. Len(s) : \E i \in half : s[x] = Alter(p, {i}, "ERASED")
    BY <1>5, <2>2, <2>3
  <2>8. \A i \in half : \E x \in 1 .. Len(s) : s[x] = Alter(p, {i}, "ERASED")
    BY <1>5, <2>4, <2>5
  <2> QED BY <1>2, <2>6, <2>7, <2>8 DEF GivesUp
<1> QED BY <1>6, <1>7

(* In the list s, from behind its first c members on, item i of page P is  *)
(* erased.                                                                 *)
ErasedAt(s, c, p, P, i) ==
    LET e == AlterRange(p, i, LastOf(P, i), "ERASED")
    IN  \A y \in 1 .. Len(e) : c + y \in 1 .. Len(s) /\ s[c + y] = e[y]

(* The items that loading a page erases: those not whole, and the replaced.*)
Doomed(page) == {i \in Visited(page) : ~IsWhole(page, i)}
                \cup UNION {Replaced(page, i) : i \in Visited(page)}

(* The page as it is checked, with half its entries given up.              *)
GivenUp(P, half) ==
    [P EXCEPT !.table = [i \in Entries |-> IF i \in half THEN "ERASED" ELSE @[i]]]

(* Of replaced items there is one at most, and it has been visited.        *)
LEMMA ReplacedIs ==
    ASSUME NEW page, NEW i, Replaced(page, i) # {}
    PROVE  /\ Max(Replaced(page, i)) \in Replaced(page, i)
           /\ Replaced(page, i) \in SUBSET Visited(page)
<1> DEFINE older == {j \in CopiesOf(page.data[i].key, page) : j < i /\ IsWhole(page, j)}
<1>1. older # {} /\ Replaced(page, i) = {Max(older)}
  BY DEF Replaced
<1>2. older \in SUBSET Visited(page) /\ Visited(page) \in SUBSET Entries
  BY CopiesType
<1> HIDE DEF older
<1>3. EntryCount \in Nat /\ \A j \in older : j \in Nat /\ j <= EntryCount
  BY <1>2, NvsAssumption DEF Entries
<1>4. Max(older) \in older
  BY <1>1, <1>3, MaxIsGreatest
<1> DEFINE m == Max(older)
<1>5. m \in Nat
  BY <1>3, <1>4
<1> HIDE DEF m
<1>6. Max({m}) \in {m}
  <2>1. \A j \in {m} : j \in Nat /\ j <= m
    BY <1>5
  <2> QED BY <1>5, <2>1, MaxIsGreatest
<1> QED BY <1>1, <1>2, <1>4, <1>6 DEF m

(* Each operation gives up an entry or is a part of the erasure of an      *)
(* item, and what is half written, not whole or replaced is erased.        *)
Loads(s, p, P, half, page) ==
    /\ Len(s) \in Nat
    /\ \A x \in 1 .. Len(s) :
          \/ \E i \in half : s[x] = Alter(p, {i}, "ERASED")
          \/ \E i \in Doomed(page), c \in Nat :
                /\ ErasedAt(s, c, p, P, i)
                /\ \E y \in 1 .. Len(AlterRange(p, i, LastOf(P, i), "ERASED")) : x = c + y
    /\ \A i \in half : \E x \in 1 .. Len(s) : s[x] = Alter(p, {i}, "ERASED")
    /\ \A i \in Visited(page) :
          ~IsWhole(page, i) => \E c \in Nat : ErasedAt(s, c, p, P, i)
    /\ \A i \in Visited(page) : IsWhole(page, i) /\ Replaced(page, i) # {} =>
          \E c \in Nat : ErasedAt(s, c, p, P, Max(Replaced(page, i)))

(* The operations of LoadPage are such ones.                               *)
LEMMA LoadPageOps ==
    ASSUME FlashType, NEW p \in Pages, State(p) \in Loaded,
           NEW s, s = LoadPage(p), NEW P, P = flash[p],
           NEW half, half = HalfWritten(P), NEW page, page = GivenUp(P, half)
    PROVE  Loads(s, p, P, half, page)
<1> DEFINE check(i) == IF i \notin Visited(page) THEN <<>>
                       ELSE IF ~IsWhole(page, i) THEN EraseItem(p, i)
                       ELSE IF Replaced(page, i) = {} THEN <<>>
                       ELSE EraseItem(p, Max(Replaced(page, i)))
           a  == [n \in 1 .. Cardinality(half) |-> Alter(p, {Min(half) + n - 1}, "ERASED")]
           ss == [n \in 1 .. EntryCount |-> check(n - 1)]
           T  == Pages
           E(i) == AlterRange(p, i, LastOf(P, i), "ERASED")
<1>1. s = a \o FlattenSeq(ss)
  BY DEF LoadPage, GivenUp, State
<1>2. /\ half \in SUBSET Entries
      /\ Len(a) \in Nat /\ DOMAIN a = 1 .. Len(a)
      /\ \A x \in 1 .. Len(a) : \E i \in half : a[x] = Alter(p, {i}, "ERASED")
      /\ \A i \in half : \E x \in 1 .. Len(a) : a[x] = Alter(p, {i}, "ERASED")
  <2>1. a = [n \in 1 .. Cardinality(half) |-> Alter(p, {Min(half) + n - 1}, "ERASED")]
    OBVIOUS
  <2> HIDE DEF a
  <2>2. half \in SUBSET Entries /\ GivesUp(a, p, half)
    BY <2>1, HalfOps
  <2> QED BY <2>2 DEF GivesUp
<1>3. \A i : EraseItem(p, i) = E(i)
  BY DEF EraseItem
<1>4. \A i \in Entries : E(i) \in Seq(Data(T))
  BY <1>3, EraseItemType
<1>5. Visited(page) \in SUBSET Entries /\ <<>> \in Seq(Data(T))
  BY VisitedIs, EmptySeq
<1>6. \A i : check(i) \in Seq(Data(T))
  <2> TAKE i
  <2>1. Replaced(page, i) # {} => Max(Replaced(page, i)) \in Entries
    BY <1>5, ReplacedIs
  <2> QED BY <1>3, <1>4, <1>5, <2>1
<1>7. a \in Seq(Data(T))
  <2>1. \A x \in 1 .. Len(a) : a[x] \in Data(T)
    <3> TAKE x \in 1 .. Len(a)
    <3> HIDE DEF a
    <3>1. PICK i \in half : a[x] = Alter(p, {i}, "ERASED")
      BY <1>2
    <3>2. {i} \in SUBSET Int
      BY <1>2, EntriesAreNat
    <3> QED BY <3>1, <3>2, AlterType
  <2>2. \E L \in Nat : a \in [1 .. L -> Data(T)]
    <3>1. a = [x \in 1 .. Len(a) |-> a[x]]
      BY <1>2
    <3> HIDE DEF a
    <3>2. a \in [1 .. Len(a) -> Data(T)]
      BY <2>1, <3>1
    <3> QED BY <1>2, <3>2
  <2> HIDE DEF a
  <2> QED BY <2>2
\* Which items a check erases.
<1>8. ASSUME NEW i
      PROVE  /\ i \in Visited(page) /\ ~IsWhole(page, i) => i \in Doomed(page) /\ check(i) = E(i)
             /\ check(i) # <<>> => \E g \in Doomed(page) : check(i) = E(g)
  <2>1. i \in Visited(page) /\ ~IsWhole(page, i) => i \in Doomed(page) /\ check(i) = E(i)
    BY <1>3 DEF Doomed
  <2>2. ASSUME i \in Visited(page), IsWhole(page, i), Replaced(page, i) # {}
        PROVE  \E g \in Doomed(page) : check(i) = E(g)
    <3>1. Max(Replaced(page, i)) \in Doomed(page)
      BY <2>2, ReplacedIs DEF Doomed
    <3>2. check(i) = E(Max(Replaced(page, i)))
      BY <1>3, <2>2
    <3> QED BY <3>1, <3>2
  <2>3. CASE i \notin Visited(page)
    BY <2>3
  <2>4. CASE i \in Visited(page) /\ ~IsWhole(page, i)
    BY <2>1, <2>4
  <2>5. CASE i \in Visited(page) /\ IsWhole(page, i)
    <3>1. CASE Replaced(page, i) = {}
      <4>1. check(i) = <<>>
        BY <2>5, <3>1
      <4> QED BY <2>5, <4>1
    <3>2. CASE Replaced(page, i) # {}
      BY <2>2, <2>5, <3>2
    <3> QED BY <3>1, <3>2
  <2> QED BY <2>3, <2>4, <2>5
<1>19. \A i \in Visited(page) : IsWhole(page, i) /\ Replaced(page, i) # {} =>
          check(i) = E(Max(Replaced(page, i)))
  BY <1>3
<1> HIDE DEF check
<1>9. ss \in [1 .. EntryCount -> Seq(Data(T))] /\ EntryCount \in Nat
  BY <1>6, NvsAssumption
<1> DEFINE F == FlattenSeq(ss)
<1>10. PICK off \in [1 .. EntryCount -> Nat] : Blocks(F, ss, EntryCount, off)
  <2> HIDE DEF ss
  <2> QED BY <1>9, FlattenBlocks
<1>11. F \in Seq(Data(T))
  <2> HIDE DEF ss
  <2> QED BY <1>9, FlattenType
<1>12. \A n \in 1 .. EntryCount : ss[n] = check(n - 1)
  OBVIOUS
<1> HIDE DEF ss, a, F, E
<1>13. /\ Len(s) = Len(a) + Len(F) /\ Len(F) \in Nat
       /\ \A x \in 1 .. Len(a) : s[x] = a[x]
       /\ \A x \in 1 .. Len(F) : s[Len(a) + x] = F[x]
  BY <1>1, <1>7, <1>11 DEF F
<1>14. Len(s) \in Nat
  BY <1>2, <1>13
\* Each block is the erasure of an item.
<1>15. ASSUME NEW n \in 1 .. EntryCount, NEW g, ss[n] = E(g)
       PROVE  Len(a) + off[n] \in Nat /\ ErasedAt(s, Len(a) + off[n], p, P, g)
  <2>1. Len(a) + off[n] \in Nat
    BY <1>2, <1>10
  <2>2. ASSUME NEW y \in 1 .. Len(E(g))
        PROVE  (Len(a) + off[n]) + y \in 1 .. Len(s) /\ s[(Len(a) + off[n]) + y] = E(g)[y]
    <3>1. off[n] + y \in 1 .. Len(F) /\ F[off[n] + y] = E(g)[y]
      BY <1>10, <1>15, <2>2 DEF Blocks
    <3>2. (Len(a) + off[n]) + y = Len(a) + (off[n] + y)
      BY <1>2, <1>10, <3>1
    <3>3. Len(a) + (off[n] + y) \in 1 .. Len(s)
      BY <1>2, <1>13, <3>1
    <3> QED BY <1>13, <3>1, <3>2, <3>3
  <2> QED BY <2>1, <2>2 DEF ErasedAt, E
<1>16. ASSUME NEW i \in half PROVE \E x \in 1 .. Len(s) : s[x] = Alter(p, {i}, "ERASED")
  <2>1. PICK x \in 1 .. Len(a) : a[x] = Alter(p, {i}, "ERASED")
    BY <1>2, <1>16
  <2>2. x \in 1 .. Len(s)
    BY <1>2, <1>13
  <2> QED BY <1>13, <2>1, <2>2
<1>17. ASSUME NEW i \in Visited(page), ~IsWhole(page, i)
       PROVE  \E c \in Nat : ErasedAt(s, c, p, P, i)
  <2>1. i + 1 \in 1 .. EntryCount /\ (i + 1) - 1 = i
    BY <1>5, <1>9 DEF Entries
  <2>2. ss[i + 1] = E(i)
    BY <1>8, <1>12, <1>17, <2>1
  <2> QED BY <1>15, <2>1, <2>2
<1>20. ASSUME NEW i \in Visited(page), IsWhole(page, i), Replaced(page, i) # {}
       PROVE  \E c \in Nat : ErasedAt(s, c, p, P, Max(Replaced(page, i)))
  <2>1. i + 1 \in 1 .. EntryCount /\ (i + 1) - 1 = i
    BY <1>5, <1>9 DEF Entries
  <2>2. ss[i + 1] = E(Max(Replaced(page, i)))
    BY <1>12, <1>19, <1>20, <2>1
  <2> QED BY <1>15, <2>1, <2>2
<1>18. ASSUME NEW x \in 1 .. Len(s)
       PROVE  \/ \E i \in half : s[x] = Alter(p, {i}, "ERASED")
              \/ \E i \in Doomed(page), c \in Nat :
                    /\ ErasedAt(s, c, p, P, i)
                    /\ \E y \in 1 .. Len(E(i)) : x = c + y
  <2>1. CASE x <= Len(a)
    <3>1. x \in 1 .. Len(a)
      BY <1>2, <2>1
    <3> QED BY <1>2, <1>13, <3>1
  <2>2. CASE x > Len(a)
    <3>1. PICK z \in 1 .. Len(F) : x = Len(a) + z
      <4>1. x - Len(a) \in 1 .. Len(F) /\ x = Len(a) + (x - Len(a))
        BY <1>2, <1>13, <2>2
      <4> QED BY <4>1
    <3>2. PICK n \in 1 .. EntryCount : \E m \in 1 .. Len(ss[n]) : z = off[n] + m
      BY <1>10 DEF Blocks
    <3>3. PICK m \in 1 .. Len(ss[n]) : z = off[n] + m
      BY <3>2
    <3>4. ss[n] # <<>>
      <4>1. ss[n] = <<>> => Len(ss[n]) = 0
        OBVIOUS
      <4> QED BY <3>3, <4>1
    <3>5. PICK g \in Doomed(page) : ss[n] = E(g)
      BY <1>8, <1>12, <3>4
    <3>6. Len(a) + off[n] \in Nat /\ ErasedAt(s, Len(a) + off[n], p, P, g)
      BY <1>15, <3>5
    <3>7. off[n] \in Nat /\ m \in Nat /\ x = (Len(a) + off[n]) + m
      <4>1. off[n] \in Nat /\ m \in Nat
        BY <1>10
      <4> QED BY <1>2, <3>1, <3>3, <4>1
    <3>8. m \in 1 .. Len(E(g))
      BY <3>3, <3>5
    <3>9. \E y \in 1 .. Len(E(g)) : x = (Len(a) + off[n]) + y
      BY <3>7, <3>8
    <3> QED BY <3>5, <3>6, <3>9
  <2>3. x <= Len(a) \/ x > Len(a)
    BY <1>2, <1>14
  <2> HIDE DEF Doomed
  <2> QED BY <2>1, <2>2, <2>3
<1> QED BY <1>14, <1>16, <1>17, <1>18, <1>20 DEF E, Loads

(* When an item is not whole, in other words.                              *)
LEMMA BrokenItem ==
    ASSUME NEW P \in PageType, NEW h \in Headed(P), NEW j \in Entries, InSpan(P, h, j),
           P.table[j] # "WRITTEN"
    PROVE  ~IsWhole(P, h)
<1>1. h \in Nat /\ j \in Nat /\ LastOf(P, h) \in Nat
  BY LastOfType, EntriesAreNat DEF Headed
<1>2. j \in h .. LastOf(P, h)
  BY <1>1 DEF InSpan
<1> QED BY <1>2 DEF IsWhole

(* Items of a page in shape share no entry.                                *)
LEMMA OneItem ==
    ASSUME NEW P \in PageType, Shape(P), NEW g \in Headed(P), NEW h \in Headed(P),
           NEW j \in Nat, InSpan(P, g, j), InSpan(P, h, j)
    PROVE  g = h
<1>1. g \in Nat /\ h \in Nat /\ LastOf(P, g) \in Nat /\ LastOf(P, h) \in Nat
  BY LastOfType, EntriesAreNat DEF Headed
<1>2. /\ g < h => LastOf(P, g) < h
      /\ h < g => LastOf(P, h) < g
  BY DEF Shape, Apart
<1> QED BY <1>1, <1>2 DEF InSpan

(* Loading a page gives up no header, so that the checks visit the headers *)
(* of the page.                                                            *)
LEMMA GivenUpIs ==
    ASSUME NEW P \in PageType, Steady(P), NEW half, half = HalfWritten(P),
           NEW page, page = GivenUp(P, half)
    PROVE  /\ page.data = P.data /\ page.state = P.state /\ page \in PageType
           /\ \A i \in Entries : i \in half => page.table[i] = "ERASED"
           /\ \A i \in Entries : i \notin half => page.table[i] = P.table[i]
           /\ \A i \in half : i \notin Headed(P)
           /\ \A i : LastOf(page, i) = LastOf(P, i) /\ \A j : InSpan(page, i, j) <=> InSpan(P, i, j)
           /\ Headed(page) = Headed(P) /\ Visited(page) = Headed(P)
<1>2. Shape(P)
  BY DEF Steady
<1>4. PICK from, to \in Nat :
         /\ from = NextFree(P) /\ from \in Nat
         /\ to <= EntryCount /\ from <= to
         /\ half = IF P.state = "ACTIVE" THEN from .. to - 1 ELSE {}
         /\ to < EntryCount => LooksBlank(P.data[to])
  <2>1. PICK to \in Nat :
           /\ to <= EntryCount
           /\ half = IF P.state = "ACTIVE" THEN NextFree(P) .. to - 1 ELSE {}
           /\ NextFree(P) <= to /\ (to < EntryCount => LooksBlank(P.data[to]))
    BY HalfIs
  <2>2. NextFree(P) \in Nat
    BY NextFreeIs
  <2> QED BY <2>1, <2>2
<1>5. EntryCount \in Nat /\ \A i \in Entries : i \in Nat /\ i < EntryCount
  BY NvsAssumption DEF Entries
<1>6. \A i : i \in half <=> P.state = "ACTIVE" /\ i \in Nat /\ from <= i /\ i < to
  BY <1>4
<1>7. /\ \A i \in Entries : i < from => P.table[i] # "EMPTY"
      /\ from < EntryCount => from \in Entries /\ P.table[from] = "EMPTY"
  BY <1>4, NextFreeIs
<1>8. \A h \in Headed(P) : /\ h \in Entries /\ P.table[h] = "WRITTEN" /\ P.data[h] # Blank
                           /\ LastOf(P, h) \in Nat /\ h <= LastOf(P, h)
  BY <1>2, LastOfType DEF Headed, IsHeader, Blank
<1>9. \A i \in Entries : P.state = "ACTIVE" /\ Exposed(P, i) =>
         \/ \E h \in Headed(P) : InSpan(P, h, i) /\ BlankAbove(P, LastOf(P, h))
         \/ /\ ~LooksBlank(P.data[i]) /\ BlankAbove(P, i)
            /\ \A k \in Entries : k < i => P.table[k] # "EMPTY"
  BY <1>2 DEF Steady, Loose
\* No header is given up.
<1>10. ASSUME NEW i \in half, i \in Headed(P) PROVE FALSE
  <2>1. /\ P.state = "ACTIVE" /\ i \in Nat /\ from <= i /\ i < to
        /\ i \in Entries /\ P.table[i] = "WRITTEN" /\ P.data[i] # Blank
    BY <1>6, <1>8, <1>10
  <2>2. from < EntryCount
    BY <1>4, <1>5, <2>1
  <2>3. from \in Entries /\ P.table[from] = "EMPTY" /\ from # i
    BY <1>7, <2>1, <2>2
  <2>4. Exposed(P, from) /\ from < i
    BY <1>4, <2>1, <2>3 DEF Exposed
  <2>5. ~BlankAbove(P, from)
    BY <2>1, <2>4 DEF BlankAbove
  <2>6. PICK h \in Headed(P) : InSpan(P, h, from) /\ BlankAbove(P, LastOf(P, h))
    BY <1>9, <2>1, <2>3, <2>4, <2>5
  <2>7. h \in Nat /\ LastOf(P, h) \in Nat /\ h < i
    <3>1. h \in Nat /\ LastOf(P, h) \in Nat
      BY <1>5, <1>8
    <3>2. h <= from
      BY <2>6 DEF InSpan
    <3> QED BY <1>4, <2>1, <2>4, <3>1, <3>2
  <2>8. LastOf(P, h) < i
    BY <1>2, <1>10, <2>6, <2>7 DEF Shape, Apart
  <2> QED BY <2>1, <2>6, <2>8 DEF BlankAbove
<1>11. /\ page.data = P.data /\ page.state = P.state /\ page \in PageType
       /\ \A i \in Entries : i \in half => page.table[i] = "ERASED"
       /\ \A i \in Entries : i \notin half => page.table[i] = P.table[i]
  <2>1. page = [P EXCEPT !.table = [i \in Entries |-> IF i \in half THEN "ERASED" ELSE P.table[i]]]
    BY DEF GivenUp
  <2> QED BY <1>2, <2>1 DEF PageType
<1>12. Headed(page) = Headed(P)
  BY <1>10, <1>11 DEF Headed
<1>13. \A i : LastOf(page, i) = LastOf(P, i) /\ \A j : InSpan(page, i, j) <=> InSpan(P, i, j)
  BY <1>11 DEF LastOf, SpanAt, InSpan
<1>14. Shape(page)
  <2>1. Apart(page)
    BY <1>2, <1>12, <1>13 DEF Shape, Apart
  <2>2. \A j \in Entries : page.table[j] = "WRITTEN" => P.table[j] = "WRITTEN"
    BY <1>11
  <2>3. Owned(page)
    BY <1>2, <1>12, <1>13, <2>2 DEF Shape, Owned
  <2> QED BY <2>1, <2>3 DEF Shape
<1>15. Visited(page) = Headed(P)
  BY <1>11, <1>12, <1>14, VisitedHeaders
<1> QED BY <1>10, <1>11, <1>12, <1>13, <1>15

(* What Page::load erases takes no header away from what it belongs to,    *)
(* and leaves only whole items and, above the first free entry, erased     *)
(* flash.                                                                  *)
LEMMA LoadPageErases ==
    ASSUME FlashType, NEW p \in Pages, State(p) \in Loaded, Steady(flash[p])
    PROVE  ErasingPage(LoadPage(p), p, flash[p])
<1>1. PICK P, s, half, page :
         /\ P = flash[p] /\ s = LoadPage(p)
         /\ half = HalfWritten(P) /\ page = GivenUp(P, half)
  OBVIOUS
<1>2. P \in PageType /\ Steady(P) /\ Shape(P)
  BY <1>1 DEF FlashType, Steady
<1>3. Loads(s, p, P, half, page)
  BY <1>1, LoadPageOps
<1>4. PICK from, to \in Nat :
         /\ from = NextFree(P) /\ from \in Nat
         /\ to <= EntryCount /\ from <= to
         /\ half = IF P.state = "ACTIVE" THEN from .. to - 1 ELSE {}
         /\ to < EntryCount => LooksBlank(P.data[to])
  <2>1. PICK to \in Nat :
           /\ to <= EntryCount
           /\ half = IF P.state = "ACTIVE" THEN NextFree(P) .. to - 1 ELSE {}
           /\ NextFree(P) <= to /\ (to < EntryCount => LooksBlank(P.data[to]))
    BY <1>1, HalfIs
  <2>2. NextFree(P) \in Nat
    BY NextFreeIs
  <2> QED BY <2>1, <2>2
<1>5. EntryCount \in Nat /\ \A i \in Entries : i \in Nat /\ i < EntryCount
  BY NvsAssumption DEF Entries
<1>6. \A i : i \in half <=> P.state = "ACTIVE" /\ i \in Nat /\ from <= i /\ i < to
  BY <1>4
<1>7. /\ \A i \in Entries : i < from => P.table[i] # "EMPTY"
      /\ from < EntryCount => from \in Entries /\ P.table[from] = "EMPTY"
  BY <1>4, NextFreeIs
<1>8. \A h \in Headed(P) : /\ h \in Entries /\ P.table[h] = "WRITTEN" /\ P.data[h] # Blank
                           /\ LastOf(P, h) \in Nat /\ h <= LastOf(P, h)
  BY <1>2, LastOfType DEF Headed, IsHeader, Blank
<1>9. \A i \in Entries : P.state = "ACTIVE" /\ Exposed(P, i) =>
         \/ \E h \in Headed(P) : InSpan(P, h, i) /\ BlankAbove(P, LastOf(P, h))
         \/ /\ ~LooksBlank(P.data[i]) /\ BlankAbove(P, i)
            /\ \A k \in Entries : k < i => P.table[k] # "EMPTY"
  BY <1>2 DEF Steady, Loose
<1>10. \A i \in half : i \notin Headed(P)
  BY <1>1, <1>2, GivenUpIs
<1>11. /\ page.data = P.data /\ page.state = P.state /\ page \in PageType
       /\ \A i \in Entries : i \in half => page.table[i] = "ERASED"
       /\ \A i \in Entries : i \notin half => page.table[i] = P.table[i]
  BY <1>1, <1>2, GivenUpIs
<1>12. Headed(page) = Headed(P)
  BY <1>1, <1>2, GivenUpIs
<1>13. \A i : LastOf(page, i) = LastOf(P, i) /\ \A j : InSpan(page, i, j) <=> InSpan(P, i, j)
  BY <1>1, <1>2, GivenUpIs
<1>15. Visited(page) = Headed(P)
  BY <1>1, <1>2, GivenUpIs
<1>16. Doomed(page) \subseteq Headed(P)
  <2>1. \A i : Replaced(page, i) \subseteq Visited(page)
    BY ReplacedIs
  <2> QED BY <1>15, <2>1 DEF Doomed
<1>17. \A g \in Headed(P) :
          Alters(AlterRange(p, g, LastOf(P, g), "ERASED"), p, "ERASED", g, LastOf(P, g))
  BY <1>5, <1>8, AlterRangeOps
\* An item is erased as a whole.
<1>18. ASSUME NEW g \in Headed(P), NEW c \in Nat, ErasedAt(s, c, p, P, g),
              NEW j \in Entries, InSpan(P, g, j)
       PROVE  Hit(s, p, j)
  <2>1. PICK e : e = AlterRange(p, g, LastOf(P, g), "ERASED")
    OBVIOUS
  <2>2. Alters(e, p, "ERASED", g, LastOf(P, g))
    BY <1>17, <2>1
  <2>3. PICK y \in 1 .. Len(e) : j \in e[y].entries
    BY <1>5, <1>18, <2>2 DEF Alters, InSpan
  <2>4. e[y].op = "alter" /\ e[y].page = p
    BY <2>2 DEF Alters
  <2>5. c + y \in 1 .. Len(s) /\ s[c + y] = e[y]
    BY <1>18, <2>1 DEF ErasedAt
  <2> QED BY <2>3, <2>4, <2>5 DEF Hit
<1>19. ASSUME NEW h \in Headed(P), ~IsWhole(page, h), NEW j \in Entries, InSpan(P, h, j)
       PROVE  Hit(s, p, j)
  <2>1. PICK c \in Nat : ErasedAt(s, c, p, P, h)
    BY <1>3, <1>15, <1>19 DEF Loads
  <2> QED BY <1>18, <1>19, <2>1
<1>20. ASSUME NEW i \in half PROVE Hit(s, p, i)
  <2>1. PICK x \in 1 .. Len(s) : s[x] = Alter(p, {i}, "ERASED")
    BY <1>3, <1>20 DEF Loads
  <2>2. s[x].op = "alter" /\ s[x].page = p /\ i \in s[x].entries
    BY <2>1 DEF Alter
  <2> QED BY <2>2 DEF Hit
\* Where an operation comes from.
<1>21. ASSUME NEW x \in 1 .. Len(s), NEW j \in s[x].entries, j \notin half
       PROVE  \E g \in Headed(P), c \in Nat :
                 /\ ErasedAt(s, c, p, P, g) /\ InSpan(P, g, j)
                 /\ \E y \in 1 .. Len(AlterRange(p, g, LastOf(P, g), "ERASED")) : x = c + y
  <2>1. \A i \in half : s[x] # Alter(p, {i}, "ERASED")
    BY <1>21 DEF Alter
  <2>2. PICK g \in Doomed(page), c \in Nat :
           /\ ErasedAt(s, c, p, P, g)
           /\ \E y \in 1 .. Len(AlterRange(p, g, LastOf(P, g), "ERASED")) : x = c + y
    BY <1>3, <2>1 DEF Loads
  <2>3. PICK e : e = AlterRange(p, g, LastOf(P, g), "ERASED")
    OBVIOUS
  <2>4. PICK y \in 1 .. Len(e) : x = c + y
    BY <2>2, <2>3
  <2>5. s[x] = e[y]
    BY <2>2, <2>3, <2>4 DEF ErasedAt
  <2>6. g \in Headed(P) /\ Alters(e, p, "ERASED", g, LastOf(P, g))
    BY <1>16, <1>17, <2>3
  <2>7. InSpan(P, g, j)
    BY <2>5, <2>6 DEF Alters, InSpan
  <2> QED BY <2>2, <2>3, <2>4, <2>6, <2>7
<1>22. ASSUME NEW h \in Headed(P), NEW x \in 1 .. Len(s), h \in s[x].entries,
              NEW j \in Entries, InSpan(P, h, j)
       PROVE  \E y \in 1 .. x : s[y].page = p /\ j \in s[y].entries
  <2>1. h \notin half /\ h \in Nat
    BY <1>5, <1>8, <1>10
  <2>2. PICK g \in Headed(P), c \in Nat :
                 /\ ErasedAt(s, c, p, P, g) /\ InSpan(P, g, h)
                 /\ \E y \in 1 .. Len(AlterRange(p, g, LastOf(P, g), "ERASED")) : x = c + y
    BY <1>21, <1>22, <2>1
  <2>3. InSpan(P, h, h)
    BY <1>5, <1>8, <2>1 DEF InSpan
  <2>4. g = h
    BY <1>2, <2>1, <2>2, <2>3, OneItem
  <2>5. PICK e : e = AlterRange(p, h, LastOf(P, h), "ERASED")
    OBVIOUS
  <2>6. PICK y \in 1 .. Len(e) : x = c + y
    BY <2>2, <2>4, <2>5
  <2>7. \A z \in 1 .. Len(e) : c + z \in 1 .. Len(s) /\ s[c + z] = e[z]
    BY <2>2, <2>4, <2>5 DEF ErasedAt
  <2>8. Alters(e, p, "ERASED", h, LastOf(P, h))
    BY <1>17, <2>5
  <2>9. h \in e[y].entries
    BY <1>22, <2>6, <2>7
  <2>10. j \in Nat /\ h <= j /\ j <= LastOf(P, h)
    BY <1>5, <1>22 DEF InSpan
  <2>11. PICK z \in 1 .. y : j \in e[z].entries
    BY <2>8, <2>9, <2>10 DEF Alters
  <2>12. Len(e) \in Nat
    BY <2>8 DEF Alters
  <2>13. z \in 1 .. Len(e) /\ c + z \in 1 .. x
    BY <2>6, <2>11, <2>12
  <2>14. s[c + z] = e[z] /\ e[z].page = p
    BY <2>7, <2>8, <2>13 DEF Alters
  <2> QED BY <2>11, <2>13, <2>14
<1>23. ASSUME NEW h \in Headed(P), NEW j \in Entries, InSpan(P, h, j),
              P.table[j] # "WRITTEN" \/ Hit(s, p, j)
       PROVE  Hit(s, p, h)
  <2>1. InSpan(P, h, h) /\ h \in Entries
    BY <1>5, <1>8 DEF InSpan
  <2>2. CASE page.table[j] # "WRITTEN"
    <3>1. ~IsWhole(page, h)
      BY <1>11, <1>12, <1>13, <1>23, <2>2, BrokenItem
    <3> QED BY <1>19, <2>1, <3>1
  <2>3. CASE page.table[j] = "WRITTEN"
    <3>1. j \notin half /\ P.table[j] = "WRITTEN"
      BY <1>11, <2>3
    <3>2. PICK x \in 1 .. Len(s) : j \in s[x].entries
      BY <1>23, <3>1 DEF Hit
    <3>3. PICK g \in Headed(P), c \in Nat : ErasedAt(s, c, p, P, g) /\ InSpan(P, g, j)
      BY <1>21, <3>1, <3>2
    <3>4. g = h
      BY <1>2, <1>5, <1>23, <3>3, OneItem
    <3> QED BY <1>18, <2>1, <3>3, <3>4
  <2> QED BY <2>2, <2>3
<1>24. ASSUME P.state = "ACTIVE", NEW i \in Entries, Exposed(P, i) PROVE Hit(s, p, i)
  <2>1. P.table[i] = "EMPTY"
    BY <1>24 DEF Exposed
  <2>2. CASE \E h \in Headed(P) : InSpan(P, h, i)
    <3>1. PICK h \in Headed(P) : InSpan(P, h, i)
      BY <2>2
    <3>2. page.table[i] # "WRITTEN"
      BY <1>11, <2>1
    <3>3. ~IsWhole(page, h)
      BY <1>11, <1>12, <1>13, <3>1, <3>2, BrokenItem
    <3> QED BY <1>19, <3>1, <3>3
  <2>3. CASE ~LooksBlank(P.data[i]) /\ \A k \in Entries : k < i => P.table[k] # "EMPTY"
    <3>1. i \in Nat /\ i < EntryCount
      BY <1>5
    <3>2. ~(i < from)
      BY <1>7, <2>1
    <3>3. ~(from < i)
      BY <1>4, <1>5, <1>7, <2>3, <3>1
    <3>4. from = i
      BY <1>4, <3>1, <3>2, <3>3
    <3>5. to # i
      BY <1>4, <2>3, <3>1
    <3>6. i \in half
      BY <1>4, <1>6, <1>24, <3>1, <3>4, <3>5
    <3> QED BY <1>20, <3>6
  <2> QED BY <1>9, <1>24, <2>2, <2>3
<1>25. ErasingPage(s, p, P)
  BY <1>22, <1>23, <1>24 DEF ErasingPage
<1> QED BY <1>1, <1>25

(* Loading a page erases entries of that page.                             *)
LEMMA LoadPageWrites ==
    ASSUME FlashType, NEW p \in Pages, NEW x \in 1 .. Len(LoadPage(p))
    PROVE  LoadPage(p)[x].op = "alter" /\ LoadPage(p)[x].page = p /\ LoadPage(p)[x].state = "ERASED"
<1>1. PICK P, s, half, page :
         /\ P = flash[p] /\ s = LoadPage(p)
         /\ half = HalfWritten(P) /\ page = GivenUp(P, half)
  OBVIOUS
<1>2. CASE State(p) \notin Loaded
  <2>1. s = <<>> /\ x \in 1 .. Len(s)
    BY <1>1, <1>2 DEF LoadPage, State
  <2> QED BY <2>1
<1>3. CASE State(p) \in Loaded
  <2>1. Loads(s, p, P, half, page)
    BY <1>1, <1>3, LoadPageOps
  <2>2. x \in 1 .. Len(s)
    BY <1>1
  <2>3. Doomed(page) \in SUBSET Entries
    <3>1. \A i : Replaced(page, i) \subseteq Visited(page)
      BY ReplacedIs
    <3> QED BY <3>1, VisitedIs DEF Doomed
  <2>4. CASE \E i \in half : s[x] = Alter(p, {i}, "ERASED")
    BY <1>1, <2>4 DEF Alter
  <2>5. ASSUME NEW i \in Doomed(page), NEW c \in Nat, ErasedAt(s, c, p, P, i),
               NEW y \in 1 .. Len(AlterRange(p, i, LastOf(P, i), "ERASED")), x = c + y
        PROVE  s[x].op = "alter" /\ s[x].page = p /\ s[x].state = "ERASED"
    <3>1. PICK e : e = AlterRange(p, i, LastOf(P, i), "ERASED")
      OBVIOUS
    <3>2. i \in Nat /\ LastOf(P, i) \in Nat /\ i <= LastOf(P, i)
      BY <1>1, <2>3, <2>5, LastOfType, EntriesAreNat DEF FlashType
    <3>3. Alters(e, p, "ERASED", i, LastOf(P, i))
      BY <3>1, <3>2, AlterRangeOps
    <3>4. s[x] = e[y] /\ y \in 1 .. Len(e)
      BY <2>5, <3>1 DEF ErasedAt
    <3> QED BY <3>3, <3>4 DEF Alters
  <2>6. \/ \E i \in half : s[x] = Alter(p, {i}, "ERASED")
        \/ \E i \in Doomed(page), c \in Nat :
              /\ ErasedAt(s, c, p, P, i)
              /\ \E y \in 1 .. Len(AlterRange(p, i, LastOf(P, i), "ERASED")) : x = c + y
    BY <2>1, <2>2 DEF Loads
  <2> QED BY <1>1, <2>4, <2>5, <2>6
<1> QED BY <1>2, <1>3

(* So loading them all erases what each of them needs.                     *)
LEMMA LoadPagesErase ==
    ASSUME FlashType, \A p \in Kept : Steady(flash[p]),
           NEW F, F = FlattenSeq([p \in Pages |-> LoadPage(p)])
    PROVE  /\ Erasing(F)
           /\ \A p \in Kept : \A j : Hit(F, p, j) <=> Hit(LoadPage(p), p, j)
<1> DEFINE ss == [p \in Pages |-> LoadPage(p)]
           T == Data(Live)
<1>1. /\ PageCount \in Nat /\ Pages = 1 .. PageCount
      /\ ss \in [1 .. PageCount -> Seq(T)]
  BY LoadPageType, NvsAssumption DEF Pages
<1>2. PICK off \in [1 .. PageCount -> Nat] : Blocks(F, ss, PageCount, off)
  <2>1. F = FlattenSeq(ss)
    OBVIOUS
  <2> HIDE DEF ss, T
  <2> QED BY <1>1, <2>1, FlattenBlocks
<1>3. \A p \in Pages : ss[p] = LoadPage(p) /\ Len(ss[p]) \in Nat /\ off[p] \in Nat
  <2>1. \A p \in Pages : ss[p] = LoadPage(p)
    OBVIOUS
  <2> HIDE DEF ss
  <2> QED BY <1>1, <1>2, <2>1
<1>4. \A p \in Pages : \A x \in 1 .. Len(ss[p]) :
         ss[p][x].op = "alter" /\ ss[p][x].page = p /\ ss[p][x].state = "ERASED"
  <2> HIDE DEF ss
  <2> QED BY <1>3, LoadPageWrites
<1> HIDE DEF ss
<1>5. \A p \in Pages : \A m \in 1 .. Len(ss[p]) :
         off[p] + m \in 1 .. Len(F) /\ F[off[p] + m] = ss[p][m]
  BY <1>1, <1>2 DEF Blocks
<1>6. ASSUME NEW x \in 1 .. Len(F)
      PROVE  \E p \in Pages : \E m \in 1 .. Len(ss[p]) : x = off[p] + m /\ F[x] = ss[p][m]
  <2>1. PICK p \in Pages : \E m \in 1 .. Len(ss[p]) : x = off[p] + m
    BY <1>1, <1>2 DEF Blocks
  <2>2. PICK m \in 1 .. Len(ss[p]) : x = off[p] + m
    BY <2>1
  <2>3. F[off[p] + m] = ss[p][m]
    BY <1>5
  <2> QED BY <2>2, <2>3
<1>7. \A x \in 1 .. Len(F) : F[x].op = "alter" /\ F[x].state = "ERASED"
  BY <1>4, <1>6
<1>8. ASSUME NEW p \in Kept
      PROVE  /\ ErasingPage(F, p, flash[p])
             /\ \A j : Hit(F, p, j) <=> Hit(LoadPage(p), p, j)
  <2>1. p \in Pages /\ State(p) \in Loaded
    BY DEF Kept, Live
  <2>2. PICK P, s : P = flash[p] /\ s = ss[p]
    OBVIOUS
  <2>3. ErasingPage(s, p, P)
    BY <1>3, <1>8, <2>1, <2>2, LoadPageErases
  <2>4. \A x \in 1 .. Len(F) : F[x].page = p =>
           \E m \in 1 .. Len(s) : x = off[p] + m /\ F[x] = s[m]
    <3> TAKE x \in 1 .. Len(F)
    <3> HAVE F[x].page = p
    <3>1. PICK q \in Pages : \E m \in 1 .. Len(ss[q]) : x = off[q] + m /\ F[x] = ss[q][m]
      BY <1>6
    <3>2. q = p
      BY <1>4, <3>1
    <3> QED BY <2>2, <3>1, <3>2
  <2>5. \A m \in 1 .. Len(s) : /\ off[p] + m \in 1 .. Len(F) /\ F[off[p] + m] = s[m]
                               /\ s[m].op = "alter" /\ s[m].page = p
    <3>1. \A m \in 1 .. Len(ss[p]) : /\ off[p] + m \in 1 .. Len(F) /\ F[off[p] + m] = ss[p][m]
                                     /\ ss[p][m].op = "alter" /\ ss[p][m].page = p
      BY ONLY <1>4, <1>5, <2>1
    <3> QED BY ONLY <2>2, <3>1
  <2>6. \A j : Hit(F, p, j) <=> Hit(s, p, j)
    BY <2>4, <2>5 DEF Hit
  <2>7. ASSUME NEW h \in Headed(P), NEW x \in 1 .. Len(F), F[x].page = p, h \in F[x].entries,
               NEW j \in Entries, InSpan(P, h, j)
        PROVE  \/ P.table[j] = "ERASED"
               \/ \E y \in 1 .. x : F[y].page = p /\ j \in F[y].entries
    <3>1. PICK m \in 1 .. Len(s) : x = off[p] + m /\ F[x] = s[m]
      BY <2>4, <2>7
    <3>2. P.table[j] = "ERASED" \/ \E y \in 1 .. m : s[y].page = p /\ j \in s[y].entries
      BY <2>3, <2>5, <2>7, <3>1 DEF ErasingPage
    <3>3. ASSUME NEW y \in 1 .. m, s[y].page = p, j \in s[y].entries
          PROVE  \E z \in 1 .. x : F[z].page = p /\ j \in F[z].entries
      <4>1. Len(s) \in Nat /\ off[p] \in Nat
        BY <1>3, <2>1, <2>2
      <4>2. y \in 1 .. Len(s) /\ off[p] + y \in 1 .. x
        BY <3>1, <4>1
      <4>3. F[off[p] + y] = s[y]
        BY <2>5, <4>2
      <4> QED BY <3>3, <4>2, <4>3
    <3> QED BY <3>2, <3>3
  <2>8. ErasingPage(F, p, P)
    BY <2>3, <2>6, <2>7 DEF ErasingPage
  <2> QED BY <1>3, <2>1, <2>2, <2>6, <2>8
<1> QED BY <1>7, <1>8 DEF Erasing

-----------------------------------------------------------------------------
(* The steps that queue writes.                                            *)

(* While flash does not change, neither does what holds of its pages.      *)
LEMMA SameKept ==
    ASSUME FlashType, Headers, UNCHANGED disk
    PROVE  /\ Kept' = Kept /\ flash' = flash
           /\ Settled => Settled'
           /\ (\A p \in Kept : Steady(flash[p])) => (\A p \in Kept : Steady(flash[p]))'
           /\ Erasing(todo') => Erasing(todo)'
<1>1. flash' = flash
  BY DEF disk
<1>2. Kept' = Kept
  BY <1>1 DEF Kept, Live, State
<1> QED BY <1>1, <1>2 DEF Settled, Erasing

(* Pages are settled when nothing is left to be erased, and only then.     *)
LEMMA ErasingNothing ==
    /\ (\A p \in Kept : Steady(flash[p])) /\ Erasing(<<>>) => Settled
    /\ Settled => Erasing(<<>>) /\ \A p \in Kept : Steady(flash[p])
<1>1. (\A p \in Kept : Steady(flash[p])) /\ Erasing(<<>>) => Settled
  BY ErasingDone DEF Erasing, Settled
<1>2. ASSUME Settled PROVE Erasing(<<>>) /\ \A p \in Kept : Steady(flash[p])
  <2>1. \A p \in Kept : Steady(flash[p])
    BY <1>2, ErasingDone DEF Settled
  <2>2. \A x \in 1 .. Len(<<>>) : FALSE
    OBVIOUS
  <2>3. \A p \in Kept : ErasingPage(<<>>, p, flash[p])
    BY <1>2, <2>2, SoundUntouched DEF Settled
  <2> QED BY <2>1, <2>2, <2>3 DEF Erasing
<1> QED BY <1>1, <1>2

(* Of settled pages an item can be erased.                                 *)
LEMMA ErasingItem ==
    ASSUME FlashType, Settled, NEW q \in Pages, NEW i \in Visited(flash[q])
    PROVE  Erasing(EraseItem(q, i))
<1>1. PICK P, s : P = flash[q] /\ s = EraseItem(q, i)
  OBVIOUS
<1>2. P \in PageType /\ s = AlterRange(q, i, LastOf(P, i), "ERASED")
  BY <1>1 DEF FlashType, EraseItem
<1>3. i \in Entries
  BY VisitedIs
<1>4. i \in Nat /\ LastOf(P, i) \in Nat /\ i <= LastOf(P, i)
  BY <1>2, <1>3, LastOfType, EntriesAreNat
<1>5. Alters(s, q, "ERASED", i, LastOf(P, i))
  BY <1>2, <1>4, AlterRangeOps
<1>6. \A x \in 1 .. Len(s) : s[x].op = "alter" /\ s[x].state = "ERASED" /\ s[x].page = q
  BY <1>5 DEF Alters
<1>7. ASSUME NEW p \in Kept PROVE ErasingPage(s, p, flash[p])
  <2>1. Sound(flash[p])
    BY <1>7 DEF Settled
  <2>2. CASE p = q
    <3>1. Headed(P) = Visited(P)
      BY <1>1, <1>2, <2>1, <2>2, VisitedHeaders DEF Sound
    <3> QED BY <1>1, <1>2, <2>1, <2>2, <3>1, SoundErased
  <2>3. CASE p # q
    BY <1>6, <2>1, <2>3, SoundUntouched
  <2> QED BY <2>2, <2>3
<1> QED BY <1>1, <1>6, <1>7 DEF Erasing

(* ... and the item with a key.                                            *)
LEMMA ErasingKey ==
    ASSUME FlashType, Settled, NEW q \in Pages, NEW k, CopiesOf(k, flash[q]) # {}
    PROVE  Erasing(EraseKey(q, k))
<1>1. CopiesOf(k, flash[q]) \in SUBSET Visited(flash[q]) /\ CopiesOf(k, flash[q]) \in SUBSET Nat
  BY CopiesType, EntriesAreNat
<1>2. Min(CopiesOf(k, flash[q])) \in Visited(flash[q])
  BY <1>1, MinIsLeast
<1> QED BY <1>2, ErasingItem DEF EraseKey

(* The page of a move when nothing is moved.                               *)
LEMMA OpenedIs ==
    /\ Opened \in PageType /\ Sound(Opened)
    /\ Opened.state = "ACTIVE" /\ Opened.table = EmptyTable
    /\ \A i \in Entries : Opened.table[i] = "EMPTY" /\ Opened.data[i] = Blank
<1>1. Opened = [state |-> "ACTIVE", table |-> EmptyTable, data |-> [i \in Entries |-> Blank]]
  BY DEF Opened, ErasedPage
<1>2. Opened \in PageType
  BY <1>1 DEF PageType, EmptyTable, Contents
<1>3. /\ Opened.state = "ACTIVE" /\ Opened.table = EmptyTable
      /\ \A i \in Entries : Opened.table[i] = "EMPTY" /\ Opened.data[i] = Blank
  BY <1>1 DEF EmptyTable
<1>4. Headed(Opened) = {}
  BY <1>3 DEF Headed
<1>5. Shape(Opened)
  BY <1>3, <1>4 DEF Shape, Apart, Owned
<1>6. Complete(Opened) /\ Clean(Opened)
  BY <1>3, <1>4 DEF Complete, Clean, Exposed
<1> QED BY <1>2, <1>3, <1>5, <1>6 DEF Sound

LEMMA IdleMoves ==
    ASSUME NEW q, NEW P
    PROVE  Moves(<<>>, q, P) /\ Moves(<<Erase(q)>>, q, P)
<1>1. Moves(<<>>, q, P)
  <2>1. \A m \in 1 .. Len(<<>>) : FALSE
    OBVIOUS
  <2>2. CopiesTo(<<>>, q, P, Opened)
    BY <2>1, OpenedIs DEF CopiesTo
  <2> QED BY <2>2, OpenedIs DEF Moves
<1>2. Moves(<<Erase(q)>>, q, P)
  <2>1. PICK s : s = <<Erase(q)>>
    OBVIOUS
  <2>2. Len(s) = 1 /\ s[1] = Erase(q) /\ \A m \in 1 .. Len(s) : m = 1
    BY <2>1
  <2>3. Erase(q).op = "erase" /\ Erase(q) # Header(q)
    BY DEF Erase, Header
  <2>4. CopiesTo(s, q, P, Opened)
    BY <2>2, <2>3, OpenedIs DEF CopiesTo
  <2>5. Moves(s, q, P)
    BY <2>2, <2>3, <2>4, OpenedIs DEF Moves
  <2> QED BY <2>1, <2>5
<1> QED BY <1>1, <1>2

(* At the start all pages are erased.                                      *)
LEMMA InitData == Init => DataInv
<1> SUFFICES ASSUME Init PROVE DataInv
  OBVIOUS
<1>1. phase = "load" /\ \A p \in Pages : State(p) = "UNINITIALIZED"
  BY DEF Init, State, ErasedPage
<1>2. Kept = {}
  BY <1>1 DEF Kept, Live, Loaded
<1> QED BY <1>1, <1>2 DEF DataInv

(* A power loss leaves flash as it is.                                     *)
LEMMA PowerLossData == PagesInv /\ DataInv /\ PowerLoss => DataInv'
<1> SUFFICES ASSUME PagesInv, DataInv, PowerLoss PROVE DataInv'
  OBVIOUS
<1>1. phase' = "load" /\ UNCHANGED disk
  BY DEF PowerLoss, Restart
<1>2. (\A p \in Kept : Steady(flash[p]))'
  BY <1>1, SameKept DEF PagesInv, DataInv
<1> QED BY <1>1, <1>2 DEF DataInv

(* nvs_flash_init: what the pages need is queued.                          *)
LEMMA LoadPagesData == PagesInv /\ DataInv /\ LoadPages => DataInv'
<1> SUFFICES ASSUME PagesInv, DataInv, LoadPages PROVE DataInv'
  OBVIOUS
<1>1. phase' = "manager" /\ UNCHANGED disk /\ todo' = FlattenSeq([p \in Pages |-> LoadPage(p)])
  BY DEF LoadPages
<1>2. FlashType /\ Headers /\ \A p \in Kept : Steady(flash[p])
  BY DEF PagesInv, DataInv
<1>3. Erasing(todo')
  BY <1>1, <1>2, LoadPagesErase
<1>4. Erasing(todo)' /\ (\A p \in Kept : Steady(flash[p]))'
  BY <1>1, <1>2, <1>3, SameKept
<1> QED BY <1>1, <1>4 DEF DataInv

(* The lists are built, and the older copy of the last item erased.        *)
LEMMA LoadManagerData == PagesInv /\ DataInv /\ LoadManager => DataInv'
<1> SUFFICES ASSUME PagesInv, DataInv, LoadManager PROVE DataInv'
  OBVIOUS
<1>1. phase = "manager" /\ todo = <<>> /\ UNCHANGED disk
  BY DEF LoadManager
<1>2. FlashType /\ Headers /\ \A p \in Kept : Steady(flash[p])
  BY DEF PagesInv, DataInv
<1>3. Settled
  BY <1>1, <1>2, ErasingNothing DEF DataInv
<1>4. Settled' /\ (\A p \in Kept : Steady(flash[p]))' /\ (Erasing(todo') => Erasing(todo)')
  BY <1>1, <1>2, <1>3, SameKept
<1>5. CASE order = <<>>
  <2>1. PICK free : /\ phase' = "ready" /\ pageList' = <<Head(free)>>
                    /\ todo' = Activate(Head(free))
    BY <1>5 DEF LoadManager
  <2>2. PICK q : q = Head(free) /\ Back' = q
    BY <2>1 DEF Back, Last
  <2>3. todo' = <<>> \/ todo' = <<Erase(q)>>
    BY <2>1, <2>2 DEF Activate
  <2>4. Moves(todo, Back, flash[Back])'
    BY <2>2, <2>3, IdleMoves
  <2> QED BY <1>4, <2>1, <2>4 DEF DataInv
<1>6. CASE order # <<>>
  <2>1. phase' = "freeing" /\ todo' = OlderCopy
    BY <1>6 DEF LoadManager
  <2>2. Erasing(OlderCopy)
    <3> DEFINE page  == flash[Last(order)]
               k     == page.data[Max(ItemsIn(page))].key
               older == {q \in Range(Front(order)) :
                             flash[q].state # "FREEING" /\ CopiesOf(k, flash[q]) # {}}
    <3>1. CASE ItemsIn(page) = {} \/ older = {}
      BY <1>3, <3>1, ErasingNothing DEF OlderCopy
    <3>2. CASE ~(ItemsIn(page) = {} \/ older = {})
      <4>1. OlderCopy = EraseKey(First(order, older), k) /\ older # {}
        BY <3>2 DEF OlderCopy
      <4>2. order \in Seq(Pages) /\ Injective(order)
        BY <1>2 DEF Headers
      <4>3. older \subseteq Range(order)
        BY <1>6, <4>2, FrontRange
      <4>4. \A q \in older : CopiesOf(k, flash[q]) # {}
        OBVIOUS
      <4> HIDE DEF older, k
      <4>5. First(order, older) \in older /\ First(order, older) \in Pages
        BY <4>1, <4>2, <4>3, FoundIsThere
      <4> QED BY <1>2, <1>3, <4>1, <4>4, <4>5, ErasingKey
    <3> QED BY <3>1, <3>2
  <2> QED BY <1>4, <2>1, <2>2 DEF DataInv
<1> QED BY <1>5, <1>6

-----------------------------------------------------------------------------
(* Writing an item.                                                        *)

(* Nothing but the header has been programmed, which the table does not    *)
(* say yet.                                                                *)
LEMMA HeaderOnly ==
    ASSUME NEW P \in PageType, NEW h, NEW v \in Values, Room(P, h, v), Unwritten(P, h),
           BlankAbove(P, h), P.data[h] = Blank \/ ~LooksBlank(P.data[h])
    PROVE  Steady(P)
<1>1. h \in Entries /\ h \in Nat /\ h < EntryCount /\ EntryCount \in Nat
  BY NvsAssumption DEF Room, Entries
<1>2. \A i \in Entries : i \in Nat
  BY EntriesAreNat
<1>3. \A g \in Headed(P) : g \in Entries /\ P.table[g] = "WRITTEN" /\ LastOf(P, g) \in Nat
  BY LastOfType DEF Headed
<1>4. h \notin Headed(P)
  BY <1>1, <1>3 DEF Unwritten
<1>5. Apart(P)
  BY <1>1, <1>3, <1>4 DEF Apart, Room
<1>6. Owned(P)
  BY DEF Owned, Room, Unwritten
<1>7. Loose(P)
  <2> SUFFICES ASSUME NEW i \in Entries, Exposed(P, i)
               PROVE  /\ ~LooksBlank(P.data[i]) /\ BlankAbove(P, i)
                      /\ \A k \in Entries : k < i => P.table[k] # "EMPTY"
    BY DEF Loose
  <2>1. i >= h
    BY <1>1, <1>2 DEF Exposed, Room
  <2>2. PICK j \in Entries : i <= j /\ P.data[j] # Blank
    BY DEF Exposed
  <2>3. ~(j > h)
    BY <2>2 DEF BlankAbove
  <2>4. i = h /\ j = h
    BY <1>1, <1>2, <2>1, <2>2, <2>3
  <2> QED BY <2>2, <2>4 DEF Room
<1> QED BY <1>5, <1>6, <1>7 DEF Steady, Shape

(* The table knows of the header, and of some of what follows.             *)
LEMMA HeaderWritten ==
    ASSUME NEW P \in PageType, NEW h, NEW v \in Values, Room(P, h, v),
           P.table[h] = "WRITTEN", IsHeader(P.data[h]), P.data[h].value = v
    PROVE  /\ Steady(P)
           /\ (\A j \in Entries : h < j /\ j < h + Span(v) => P.table[j] = "WRITTEN") => Sound(P)
<1>1. h \in Entries /\ h \in Nat /\ EntryCount \in Nat /\ h + Span(v) <= EntryCount
  BY NvsAssumption DEF Room, Entries
<1>2. \A i \in Entries : i \in Nat
  BY EntriesAreNat
<1>3. Span(v) \in Nat /\ Span(v) >= 1
  BY SpanType
<1>4. h \in Headed(P) /\ LastOf(P, h) = h + Span(v) - 1
  BY <1>1 DEF Headed, LastOf, SpanAt
<1>5. \A g \in Headed(P) : /\ g \in Entries /\ g \in Nat /\ LastOf(P, g) \in Nat
                           /\ g <= LastOf(P, g)
  BY <1>2, LastOfType DEF Headed
<1>6. \A g \in Headed(P) : g # h => g < h /\ LastOf(P, g) < h
  BY <1>1, <1>5 DEF Room
<1>7. Apart(P)
  <2>1. ASSUME NEW g \in Headed(P) PROVE LastOf(P, g) < EntryCount
    <3>1. CASE g = h
      <4>1. h + Span(v) - 1 < EntryCount
        BY <1>1, <1>3
      <4> QED BY <1>4, <3>1, <4>1
    <3>2. CASE g # h
      <4>1. LastOf(P, g) < h /\ h < EntryCount /\ LastOf(P, g) \in Nat
        BY <1>1, <1>3, <1>5, <1>6, <3>2
      <4> QED BY <1>1, <4>1
    <3> QED BY <3>1, <3>2
  <2>2. ASSUME NEW g \in Headed(P), NEW f \in Headed(P), g < f PROVE LastOf(P, g) < f
    <3>1. g # h
      BY <1>1, <1>5, <1>6, <2>2
    <3> QED BY <2>2, <3>1 DEF Room
  <2> QED BY <2>1, <2>2 DEF Apart
<1>8. \A j \in Entries : InSpan(P, h, j) <=> h <= j /\ j < h + Span(v)
  BY <1>1, <1>2, <1>3, <1>4 DEF InSpan
<1>9. Owned(P)
  <2> SUFFICES ASSUME NEW j \in Entries, P.table[j] = "WRITTEN"
               PROVE  \E g \in Headed(P) : InSpan(P, g, j)
    BY DEF Owned
  <2>1. (h <= j /\ j < h + Span(v)) \/ \E g \in Headed(P) : InSpan(P, g, j)
    BY DEF Room
  <2> QED BY <1>4, <1>8, <2>1
<1>10. ASSUME NEW i \in Entries, Exposed(P, i)
       PROVE  InSpan(P, h, i) /\ P.table[i] = "EMPTY"
  <2>1. P.table[i] = "EMPTY" /\ \E j \in Entries : i <= j /\ P.data[j] # Blank
    BY <1>10 DEF Exposed
  <2>2. PICK j \in Entries : i <= j /\ P.data[j] # Blank
    BY <2>1
  <2>3. ~(i < h)
    BY <2>1 DEF Room
  <2>4. ~(j > h + Span(v) - 1)
    BY <2>2 DEF Room, BlankAbove
  <2>5. h <= i /\ i < h + Span(v)
    <3>1. i \in Nat /\ j \in Nat
      BY <1>2
    <3>2. PICK n \in Nat : n = Span(v)
      BY <1>3
    <3>3. j <= h + n - 1
      BY <1>1, <2>4, <3>1, <3>2
    <3>4. h <= i /\ i < h + n
      BY <1>1, <2>2, <2>3, <3>1, <3>2, <3>3
    <3> QED BY <3>2, <3>4
  <2> QED BY <1>8, <2>1, <2>5
<1>11. Loose(P)
  <2>1. BlankAbove(P, LastOf(P, h))
    BY <1>4 DEF Room
  <2> QED BY <1>4, <1>10, <2>1 DEF Loose
<1>12. ASSUME \A j \in Entries : h < j /\ j < h + Span(v) => P.table[j] = "WRITTEN"
       PROVE  Sound(P)
  <2>1. ASSUME NEW j \in Entries, InSpan(P, h, j) PROVE P.table[j] = "WRITTEN"
    <3>1. j = h \/ (h < j /\ j < h + Span(v))
      BY <1>1, <1>2, <1>8, <2>1
    <3> QED BY <1>12, <3>1
  <2>2. Complete(P)
    <3>1. \A g \in Headed(P) : g # h => \A j \in Entries : InSpan(P, g, j) => P.table[j] = "WRITTEN"
      BY DEF Room
    <3> QED BY <2>1, <3>1 DEF Complete
  <2>3. Clean(P)
    BY <1>10, <2>1 DEF Clean
  <2> QED BY <1>7, <1>9, <2>2, <2>3 DEF Sound, Shape
<1> QED BY <1>7, <1>9, <1>11, <1>12 DEF Steady, Shape

(* Page Q differs from P in the span of the new item only, and has no      *)
(* other header there.                                                     *)
Within(P, Q, h, v) ==
    /\ Q.state = P.state
    /\ \A j \in Entries : j < h \/ j >= h + Span(v) =>
          Q.table[j] = P.table[j] /\ Q.data[j] = P.data[j]
    /\ \A j \in Entries : h < j /\ j < h + Span(v) => ~IsHeader(Q.data[j])

LEMMA RoomStays ==
    ASSUME NEW P \in PageType, NEW Q, NEW h, NEW v \in Values, Room(P, h, v), Within(P, Q, h, v)
    PROVE  Room(Q, h, v)
<1>1. h \in Entries /\ h \in Nat /\ EntryCount \in Nat /\ h + Span(v) <= EntryCount
  BY NvsAssumption DEF Room, Entries
<1>2. \A i \in Entries : i \in Nat
  BY EntriesAreNat
<1>3. Span(v) \in Nat /\ Span(v) >= 1
  BY SpanType
<1>4. \A j \in Entries : j < h \/ j >= h + Span(v) =>
          Q.table[j] = P.table[j] /\ Q.data[j] = P.data[j]
  BY DEF Within
<1>5. \A g \in Headed(P) : g \in Entries /\ g \in Nat /\ LastOf(P, g) \in Nat /\ g <= LastOf(P, g)
  BY <1>2, LastOfType DEF Headed
<1>6. \A g \in Headed(P) : g # h => g < h /\ LastOf(P, g) < h
  BY <1>1, <1>5 DEF Room
<1>7. ASSUME NEW g \in Headed(Q), g # h
      PROVE  g \in Headed(P)
  <2>1. g \in Entries /\ g \in Nat /\ Q.table[g] = "WRITTEN" /\ IsHeader(Q.data[g])
    BY <1>2 DEF Headed
  <2>2. ~(h < g /\ g < h + Span(v))
    BY <2>1 DEF Within
  <2>3. g < h \/ g >= h + Span(v)
    BY <1>1, <1>3, <1>7, <2>1, <2>2
  <2> QED BY <1>4, <2>1, <2>3 DEF Headed
<1>8. ASSUME NEW g \in Headed(P), g # h
      PROVE  g \in Headed(Q) /\ LastOf(Q, g) = LastOf(P, g) /\ \A j : InSpan(Q, g, j) <=> InSpan(P, g, j)
  <2>1. Q.table[g] = P.table[g] /\ Q.data[g] = P.data[g]
    BY <1>4, <1>5, <1>6, <1>8
  <2>2. g \in Headed(Q)
    BY <2>1 DEF Headed
  <2>3. LastOf(Q, g) = LastOf(P, g)
    BY <2>1, SameLast
  <2> QED BY <2>2, <2>3 DEF InSpan
<1>9. \A j \in Entries : j < h => Q.table[j] # "EMPTY"
  BY <1>4 DEF Room
<1>10. BlankAbove(Q, h + Span(v) - 1)
  <2>1. \A j \in Entries : j > h + Span(v) - 1 => j >= h + Span(v)
    BY <1>1, <1>2, <1>3
  <2> QED BY <1>4, <2>1 DEF Room, BlankAbove
<1>11. ASSUME NEW g \in Headed(Q), g # h
       PROVE  /\ LastOf(Q, g) < h
              /\ \A f \in Headed(Q) : g < f => LastOf(Q, g) < f
              /\ \A j \in Entries : InSpan(Q, g, j) => Q.table[j] = "WRITTEN"
  <2>1. g \in Headed(P) /\ g < h /\ LastOf(P, g) < h /\ LastOf(Q, g) = LastOf(P, g)
    BY <1>6, <1>7, <1>8, <1>11
  <2>2. ASSUME NEW f \in Headed(Q), g < f PROVE LastOf(Q, g) < f
    <3>1. CASE f = h
      BY <2>1, <3>1
    <3>2. CASE f # h
      BY <1>7, <1>11, <2>1, <2>2, <3>2 DEF Room
    <3> QED BY <3>1, <3>2
  <2>3. ASSUME NEW j \in Entries, InSpan(Q, g, j) PROVE Q.table[j] = "WRITTEN"
    <3>1. InSpan(P, g, j)
      BY <1>8, <1>11, <2>1, <2>3
    <3>2. P.table[j] = "WRITTEN"
      BY <1>11, <2>1, <3>1 DEF Room
    <3>3. j < h
      BY <1>1, <1>2, <1>5, <2>1, <3>1 DEF InSpan
    <3> QED BY <1>4, <3>2, <3>3
  <2> QED BY <2>1, <2>2, <2>3
<1>12. ASSUME NEW j \in Entries, Q.table[j] = "WRITTEN"
       PROVE  \/ h <= j /\ j < h + Span(v)
              \/ \E g \in Headed(Q) : g # h /\ InSpan(Q, g, j)
  <2>1. CASE h <= j /\ j < h + Span(v)
    BY <2>1
  <2>2. CASE ~(h <= j /\ j < h + Span(v))
    <3>1. j < h \/ j >= h + Span(v)
      BY <1>1, <1>2, <1>3, <2>2
    <3>2. P.table[j] = "WRITTEN"
      BY <1>4, <1>12, <3>1
    <3>3. PICK g \in Headed(P) : g # h /\ InSpan(P, g, j)
      BY <2>2, <3>2 DEF Room
    <3> QED BY <1>8, <3>3
  <2> QED BY <2>1, <2>2
<1> QED BY <1>1, <1>9, <1>10, <1>11, <1>12 DEF Room

(* Entry i of page P is programmed, which gives page Q.                    *)
ProgrammedIn(P, Q, i, c) ==
    /\ Q.state = P.state
    /\ \A j \in Entries : Q.table[j] = P.table[j]
    /\ \A j \in Entries : Q.data[j] = IF j = i THEN c ELSE P.data[j]

(* The entries of D are marked as written.                                 *)
WrittenIn(P, Q, D) ==
    /\ Q.state = P.state
    /\ \A j \in Entries : Q.table[j] = IF j \in D THEN "WRITTEN" ELSE P.table[j]
    /\ \A j \in Entries : Q.data[j] = P.data[j]

(* The entries of page P from the header on may change in what the rest    *)
(* does not ask for.                                                       *)
LEMMA RestStays ==
    ASSUME NEW s, NEW P, NEW Q, NEW q, NEW h, NEW k, NEW v, Rest(s, P, q, h, k, v),
           \A j \in Entries : h < j => Q.data[j] = P.data[j] /\ Q.table[j] = P.table[j]
    PROVE  Rest(s, Q, q, h, k, v)
<1>1. \A x \in 1 .. Len(s) : PartProgrammed(s, x, P, h, k, v) => PartProgrammed(s, x, Q, h, k, v)
  BY DEF PartProgrammed
<1> QED BY <1>1 DEF Rest

(* The header is not a part, and a part spoiled is no header.              *)
LEMMA PartIs ==
    ASSUME NEW k, NEW v, NEW n
    PROVE  /\ Part(k, v, n) # Blank /\ Part(k, v, n).value = v
           /\ IsHeader(Part(k, v, n)) <=> n = 0
           /\ n = 0 => ~LooksBlank(Part(k, v, n))
           /\ \A c : ~IsHeader(Spoiled(c))
           /\ n = 0 => Spoiled(Part(k, v, n)) # Blank /\ ~LooksBlank(Spoiled(Part(k, v, n)))
<1>1. /\ Part(k, v, n) # Blank /\ Part(k, v, n).value = v
      /\ IsHeader(Part(k, v, n)) <=> n = 0
  BY DEF Part, Blank, IsHeader
<1>2. n = 0 => ~LooksBlank(Part(k, v, n))
  BY DEF Part, LooksBlank
<1>3. \A c : ~IsHeader(Spoiled(c))
  BY DEF Spoiled, IsHeader, Blank, Junk, Hidden
<1>4. Junk # Blank /\ ~LooksBlank(Junk)
  BY DEF Junk, Blank, LooksBlank
<1>5. n = 0 => Spoiled(Part(k, v, n)) = Junk
  BY <1>1, <1>2 DEF Spoiled
<1> QED BY <1>1, <1>2, <1>3, <1>4, <1>5

(* One operation of the writing, done.                                     *)
LEMMA WritingStep ==
    ASSUME NEW S, NEW s \in Seq(S), s # <<>>, NEW P \in PageType, NEW Q, NEW q, NEW h,
           NEW k, NEW v \in Values, Writing(s, P, q, h, k, v),
           s[1].op = "program" => ProgrammedIn(P, Q, s[1].entry, s[1].content),
           s[1].op = "alter" /\ s[1].state = "WRITTEN" => WrittenIn(P, Q, s[1].entries)
    PROVE  Writing(Tail(s), Q, q, h, k, v)
<1>1. Room(P, h, v) /\ P.state = "ACTIVE"
  BY DEF Writing
<1>2. h \in Entries /\ h \in Nat /\ Span(v) \in Nat /\ Span(v) >= 1 /\ h < h + Span(v)
  <2>1. h \in Entries /\ h \in Nat
    BY <1>1, EntriesAreNat DEF Room
  <2>2. Span(v) \in Nat /\ Span(v) >= 1
    BY SpanType
  <2> QED BY <2>1, <2>2
<1>3. \A j \in Entries : j \in Nat
  BY EntriesAreNat
<1>4. CASE ToProgram(s, P, q, h, k, v)
  <2>1. s[1] = Program(q, h, Part(k, v, 0))
    BY <1>4 DEF ToProgram
  <2>2. s[1].op = "program" /\ s[1].entry = h /\ s[1].content = Part(k, v, 0)
    BY <2>1 DEF Program
  <2>3. ProgrammedIn(P, Q, h, Part(k, v, 0))
    BY <2>2
  <2>4. /\ Q.state = P.state /\ Q.data[h] = Part(k, v, 0)
        /\ \A j \in Entries : Q.table[j] = P.table[j]
        /\ \A j \in Entries : j # h => Q.data[j] = P.data[j]
    BY <1>2, <2>3 DEF ProgrammedIn
  <2>5. \A j \in Entries : h < j => Q.data[j] = P.data[j] /\ Q.table[j] = P.table[j]
    BY <1>2, <1>3, <2>4
  <2>6. Rest(Tail(Tail(s)), P, q, h, k, v)
    BY <1>4 DEF ToProgram
  <2>7. Rest(Tail(Tail(s)), Q, q, h, k, v)
    BY <2>5, <2>6, RestStays
  <2>8. BlankAbove(Q, h) /\ Unwritten(Q, h)
    BY <1>4, <2>4, <2>5 DEF ToProgram, BlankAbove, Unwritten
  <2>9. ToMark(Tail(s), Q, q, h, k, v)
    BY <1>4, <2>4, <2>7, <2>8 DEF ToMark, ToProgram
  <2>10. Within(P, Q, h, v)
    <3>1. \A j \in Entries : j < h \/ j >= h + Span(v) => j # h
      BY <1>2, <1>3
    <3>2. \A j \in Entries : h < j /\ j < h + Span(v) => ~IsHeader(Q.data[j])
      BY <2>7 DEF Rest
    <3> QED BY <2>4, <3>1, <3>2 DEF Within
  <2> QED BY <1>1, <2>4, <2>9, <2>10, RoomStays DEF Writing
<1>5. CASE ToMark(s, P, q, h, k, v)
  <2>1. s[1] = Alter(q, {h}, "WRITTEN")
    BY <1>5 DEF ToMark
  <2>2. s[1].op = "alter" /\ s[1].entries = {h} /\ s[1].state = "WRITTEN"
    BY <2>1 DEF Alter
  <2>3. WrittenIn(P, Q, {h})
    BY <2>2
  <2>4. /\ Q.state = P.state /\ Q.table[h] = "WRITTEN" /\ Q.data[h] = P.data[h]
        /\ \A j \in Entries : j # h => Q.table[j] = P.table[j]
        /\ \A j \in Entries : Q.data[j] = P.data[j]
    BY <1>2, <2>3 DEF WrittenIn
  <2>5. \A j \in Entries : h < j => Q.data[j] = P.data[j] /\ Q.table[j] = P.table[j]
    BY <1>2, <1>3, <2>4
  <2>6. Rest(Tail(s), P, q, h, k, v)
    BY <1>5 DEF ToMark
  <2>7. Rest(Tail(s), Q, q, h, k, v)
    BY <2>5, <2>6, RestStays
  <2>8. ToFollow(Tail(s), Q, q, h, k, v)
    BY <1>5, <2>4, <2>7 DEF ToFollow, ToMark
  <2>9. Within(P, Q, h, v)
    <3>1. \A j \in Entries : j < h \/ j >= h + Span(v) => j # h
      BY <1>2, <1>3
    <3>2. \A j \in Entries : h < j /\ j < h + Span(v) => ~IsHeader(Q.data[j])
      BY <2>7 DEF Rest
    <3> QED BY <2>4, <3>1, <3>2 DEF Within
  <2> QED BY <1>1, <2>4, <2>8, <2>9, RoomStays DEF Writing
<1>6. CASE ToFollow(s, P, q, h, k, v)
  <2> DEFINE t == Tail(s)
  <2>1. /\ t \in Seq(S) /\ Len(t) = Len(s) - 1 /\ Len(s) \in Nat /\ Len(s) >= 1
        /\ \A x \in 1 .. Len(t) : t[x] = s[x + 1] /\ x + 1 \in 1 .. Len(s) /\ x + 1 # 1
    OBVIOUS
  <2>2. 1 \in 1 .. Len(s)
    BY <2>1
  <2>3. \A j : Hit(s, q, j) <=> \/ s[1].op = "alter" /\ s[1].page = q /\ j \in s[1].entries
                                \/ Hit(t, q, j)
    BY HitTail
  <2>4. /\ Rest(s, P, q, h, k, v) /\ P.data[h] = Part(k, v, 0) /\ P.table[h] = "WRITTEN"
    BY <1>6 DEF ToFollow
  <2>5. s[1].page = q /\ (PartProgrammed(s, 1, P, h, k, v) \/ PartsMarked(s, 1, h, v))
    BY <2>2, <2>4 DEF Rest
  <2> HIDE DEF t
  <2>6. ASSUME NEW x \in 1 .. Len(t)
        PROVE  /\ t[x].page = q
               /\ PartProgrammed(s, x + 1, P, h, k, v) \/ PartsMarked(t, x, h, v)
    <3>1. t[x] = s[x + 1] /\ x + 1 \in 1 .. Len(s)
      BY <2>1
    <3>2. /\ s[x + 1].page = q
          /\ PartProgrammed(s, x + 1, P, h, k, v) \/ PartsMarked(s, x + 1, h, v)
      BY <2>4, <3>1 DEF Rest
    <3> QED BY <3>1, <3>2 DEF PartsMarked
  \* What is still programmed is blank in Q.
  <2>7. ASSUME NEW x \in 1 .. Len(t), PartProgrammed(s, x + 1, P, h, k, v),
               Q.data[t[x].entry] = P.data[t[x].entry]
        PROVE  PartProgrammed(t, x, Q, h, k, v)
    <3>1. t[x] = s[x + 1]
      BY <2>1
    <3>2. ASSUME NEW y \in 1 .. Len(t), y # x, t[y].op = "program" PROVE t[y].entry # t[x].entry
      <4>1. y + 1 \in 1 .. Len(s) /\ y + 1 # x + 1 /\ t[y] = s[y + 1]
        BY <2>1, <3>2
      <4> QED BY <2>7, <3>1, <3>2, <4>1 DEF PartProgrammed
    <3> QED BY <2>7, <3>1, <3>2 DEF PartProgrammed
  <2>8. CASE PartProgrammed(s, 1, P, h, k, v)
    <3>1. PICK i : i = s[1].entry
      OBVIOUS
    <3>2. /\ i \in Entries /\ h < i /\ i < h + Span(v)
          /\ s[1].op = "program" /\ s[1].content = Part(k, v, i - h)
      BY <2>8, <3>1 DEF PartProgrammed
    <3>3. ProgrammedIn(P, Q, i, Part(k, v, i - h))
      BY <3>1, <3>2
    <3>4. /\ Q.state = P.state /\ Q.data[i] = Part(k, v, i - h)
          /\ \A j \in Entries : Q.table[j] = P.table[j]
          /\ \A j \in Entries : j # i => Q.data[j] = P.data[j]
      BY <3>2, <3>3 DEF ProgrammedIn
    <3>5. ~IsHeader(Q.data[i])
      <4>1. i - h # 0
        BY <1>2, <1>3, <3>2
      <4> QED BY <3>4, <4>1, PartIs
    <3>6. \A j \in Entries : h < j /\ j < h + Span(v) =>
             ~IsHeader(Q.data[j]) /\ (Q.table[j] = "WRITTEN" \/ Hit(t, q, j))
      <4>1. \A j : Hit(s, q, j) => Hit(t, q, j)
        BY <2>3, <3>2
      <4> QED BY <2>4, <3>4, <3>5, <4>1 DEF Rest
    <3>7. ASSUME NEW x \in 1 .. Len(t)
          PROVE  t[x].page = q /\ (PartProgrammed(t, x, Q, h, k, v) \/ PartsMarked(t, x, h, v))
      <4>1. CASE PartProgrammed(s, x + 1, P, h, k, v)
        <5>1. t[x] = s[x + 1] /\ x + 1 # 1
          BY <2>1
        <5>2. s[x + 1].entry # i /\ s[x + 1].entry \in Entries
          BY <2>2, <3>1, <3>2, <4>1, <5>1 DEF PartProgrammed
        <5>3. Q.data[t[x].entry] = P.data[t[x].entry]
          BY <3>4, <5>1, <5>2
        <5> QED BY <2>6, <2>7, <4>1, <5>3
      <4> QED BY <2>6, <4>1
    <3>8. Rest(t, Q, q, h, k, v)
      BY <3>6, <3>7 DEF Rest
    <3>9. Q.data[h] = P.data[h] /\ Q.table[h] = P.table[h]
      <4>1. h # i
        BY <1>2, <1>3, <3>2
      <4> QED BY <1>2, <3>4, <4>1
    <3>10. ToFollow(t, Q, q, h, k, v)
      BY <2>4, <3>8, <3>9 DEF ToFollow
    <3>11. Within(P, Q, h, v)
      <4>1. \A j \in Entries : j < h \/ j >= h + Span(v) => j # i
        <5>1. i \in Nat
          BY <1>3, <3>2
        <5>2. PICK n \in Nat : n = Span(v)
          BY <1>2
        <5>3. h < i /\ i < h + n
          BY <3>2, <5>2
        <5>4. \A j \in Entries : j < h \/ j >= h + n => j # i
          BY <1>2, <1>3, <5>1, <5>3
        <5> QED BY <5>2, <5>4
      <4> QED BY <3>4, <3>6, <4>1 DEF Within
    <3> QED BY <1>1, <3>4, <3>10, <3>11, RoomStays DEF Writing, t
  <2>9. CASE PartsMarked(s, 1, h, v)
    <3>1. PICK D : D = s[1].entries
      OBVIOUS
    <3>2. /\ s[1].op = "alter" /\ s[1].state = "WRITTEN"
          /\ \A j \in D : h < j /\ j < h + Span(v)
      BY <2>9, <3>1 DEF PartsMarked
    <3>3. WrittenIn(P, Q, D)
      BY <3>1, <3>2
    <3>4. /\ Q.state = P.state
          /\ \A j \in Entries : j \in D => Q.table[j] = "WRITTEN"
          /\ \A j \in Entries : j \notin D => Q.table[j] = P.table[j]
          /\ \A j \in Entries : Q.data[j] = P.data[j]
      BY <3>3 DEF WrittenIn
    <3>5. \A j \in Entries : h < j /\ j < h + Span(v) =>
             ~IsHeader(Q.data[j]) /\ (Q.table[j] = "WRITTEN" \/ Hit(t, q, j))
      <4>1. \A j : Hit(s, q, j) => j \in D \/ Hit(t, q, j)
        BY <2>3, <3>1
      <4> QED BY <2>4, <3>4, <4>1 DEF Rest
    <3>6. ASSUME NEW x \in 1 .. Len(t)
          PROVE  t[x].page = q /\ (PartProgrammed(t, x, Q, h, k, v) \/ PartsMarked(t, x, h, v))
      <4>1. CASE PartProgrammed(s, x + 1, P, h, k, v)
        <5>1. t[x] = s[x + 1]
          BY <2>1
        <5>2. s[x + 1].entry \in Entries
          BY <4>1 DEF PartProgrammed
        <5>3. Q.data[t[x].entry] = P.data[t[x].entry]
          BY <3>4, <5>1, <5>2
        <5> QED BY <2>6, <2>7, <4>1, <5>3
      <4> QED BY <2>6, <4>1
    <3>7. Rest(t, Q, q, h, k, v)
      BY <3>5, <3>6 DEF Rest
    <3>8. Q.data[h] = P.data[h] /\ Q.table[h] = P.table[h]
      <4>1. h \notin D
        BY <1>2, <3>2
      <4> QED BY <1>2, <3>4, <4>1
    <3>9. ToFollow(t, Q, q, h, k, v)
      BY <2>4, <3>7, <3>8 DEF ToFollow
    <3>10. Within(P, Q, h, v)
      <4>1. \A j \in Entries : j < h \/ j >= h + Span(v) => j \notin D
        BY <1>2, <1>3, <3>2
      <4> QED BY <3>4, <3>5, <4>1 DEF Within
    <3> QED BY <1>1, <3>4, <3>9, <3>10, RoomStays DEF Writing, t
  <2> QED BY <2>5, <2>8, <2>9
<1> QED BY <1>4, <1>5, <1>6 DEF Writing

(* Whatever is left to be written, the page is steady.                     *)
LEMMA WritingSteady ==
    ASSUME NEW s, NEW P \in PageType, NEW q, NEW h, NEW k, NEW v \in Values,
           Writing(s, P, q, h, k, v)
    PROVE  Steady(P)
<1>1. Room(P, h, v)
  BY DEF Writing
<1>2. CASE ToProgram(s, P, q, h, k, v)
  <2>1. P.data[h] = Blank /\ BlankAbove(P, h) /\ Unwritten(P, h)
    BY <1>2 DEF ToProgram
  <2> QED BY <1>1, <2>1, HeaderOnly
<1>3. CASE ToMark(s, P, q, h, k, v)
  <2>1. P.data[h] = Part(k, v, 0) /\ BlankAbove(P, h) /\ Unwritten(P, h)
    BY <1>3 DEF ToMark
  <2>2. ~LooksBlank(P.data[h])
    BY <2>1, PartIs
  <2> QED BY <1>1, <2>1, <2>2, HeaderOnly
<1>4. CASE ToFollow(s, P, q, h, k, v)
  <2>1. P.data[h] = Part(k, v, 0) /\ P.table[h] = "WRITTEN"
    BY <1>4 DEF ToFollow
  <2>2. IsHeader(P.data[h]) /\ P.data[h].value = v
    BY <2>1, PartIs
  <2> QED BY <1>1, <2>1, <2>2, HeaderWritten
<1> QED BY <1>2, <1>3, <1>4 DEF Writing

(* When all is written, the page is sound.                                 *)
LEMMA WritingDone ==
    ASSUME NEW P \in PageType, NEW q, NEW h, NEW k, NEW v \in Values,
           Writing(<<>>, P, q, h, k, v)
    PROVE  Sound(P)
<1>1. Room(P, h, v) /\ ToFollow(<<>>, P, q, h, k, v)
  BY DEF Writing, ToProgram, ToMark
<1>2. P.data[h] = Part(k, v, 0) /\ P.table[h] = "WRITTEN" /\ Rest(<<>>, P, q, h, k, v)
  BY <1>1 DEF ToFollow
<1>3. IsHeader(P.data[h]) /\ P.data[h].value = v
  BY <1>2, PartIs
<1>4. \A j : ~Hit(<<>>, q, j)
  <2>1. 1 .. Len(<<>>) = {}
    OBVIOUS
  <2> QED BY <2>1 DEF Hit
<1>5. \A j \in Entries : h < j /\ j < h + Span(v) => P.table[j] = "WRITTEN"
  BY <1>2, <1>4 DEF Rest
<1> QED BY <1>1, <1>2, <1>3, <1>5, HeaderWritten

(* The next operation is on the page; what it programs is erased, and      *)
(* cut short leaves the page steady.                                       *)
WritesNext(o, P, q) ==
    /\ o.page = q
    /\ o.op = "program" \/ (o.op = "alter" /\ o.state = "WRITTEN")
    /\ o.op = "program" =>
          /\ o.entry \in Entries /\ P.data[o.entry] = Blank
          /\ \A Q \in PageType : ProgrammedIn(P, Q, o.entry, Spoiled(o.content)) => Steady(Q)

LEMMA WritingHead ==
    ASSUME NEW S, NEW s \in Seq(S), s # <<>>, NEW P \in PageType, NEW q, NEW h,
           NEW k, NEW v \in Values, Writing(s, P, q, h, k, v)
    PROVE  WritesNext(s[1], P, q)
<1>1. Room(P, h, v)
  BY DEF Writing
<1>2. h \in Entries /\ h \in Nat
  BY <1>1, EntriesAreNat DEF Room
<1>3. \A j \in Entries : j \in Nat
  BY EntriesAreNat
<1>4. PICK n \in Nat : n = Span(v) /\ n >= 1
  BY SpanType
<1>5. CASE ToProgram(s, P, q, h, k, v)
  <2>1. s[1] = Program(q, h, Part(k, v, 0)) /\ P.data[h] = Blank
    BY <1>5 DEF ToProgram
  <2>2. /\ s[1].op = "program" /\ s[1].entry = h /\ s[1].content = Part(k, v, 0)
        /\ s[1].page = q
    BY <2>1 DEF Program
  <2>3. ASSUME NEW Q \in PageType, ProgrammedIn(P, Q, h, Spoiled(Part(k, v, 0)))
        PROVE  Steady(Q)
    <3>1. /\ Q.state = P.state /\ Q.data[h] = Spoiled(Part(k, v, 0))
          /\ \A j \in Entries : Q.table[j] = P.table[j]
          /\ \A j \in Entries : j # h => Q.data[j] = P.data[j]
      BY <1>2, <2>3 DEF ProgrammedIn
    <3>2. ~LooksBlank(Q.data[h])
      BY <3>1, PartIs
    <3>3. \A j \in Entries : h < j => Q.data[j] = P.data[j]
      <4>1. \A j \in Entries : h < j => j # h
        BY <1>2, <1>3
      <4> QED BY <3>1, <4>1
    <3>4. BlankAbove(P, h) /\ Unwritten(P, h) /\ Rest(Tail(Tail(s)), P, q, h, k, v)
      BY <1>5 DEF ToProgram
    <3>5. BlankAbove(Q, h) /\ Unwritten(Q, h)
      BY <3>1, <3>3, <3>4 DEF BlankAbove, Unwritten
    <3>6. \A j \in Entries : j < h \/ j >= h + Span(v) => j # h
      BY <1>2, <1>3, <1>4
    <3>7. \A j \in Entries : h < j /\ j < h + Span(v) => ~IsHeader(Q.data[j])
      BY <3>3, <3>4 DEF Rest
    <3>8. Within(P, Q, h, v)
      BY <3>1, <3>6, <3>7 DEF Within
    <3>9. Room(Q, h, v)
      BY <1>1, <3>8, RoomStays
    <3> QED BY <3>2, <3>5, <3>9, HeaderOnly
  <2> QED BY <1>2, <2>1, <2>2, <2>3 DEF WritesNext
<1>6. CASE ToMark(s, P, q, h, k, v)
  <2>1. s[1] = Alter(q, {h}, "WRITTEN")
    BY <1>6 DEF ToMark
  <2> QED BY <2>1 DEF Alter, WritesNext
<1>7. CASE ToFollow(s, P, q, h, k, v)
  <2>1. /\ Rest(s, P, q, h, k, v) /\ P.data[h] = Part(k, v, 0) /\ P.table[h] = "WRITTEN"
    BY <1>7 DEF ToFollow
  <2>2. 1 \in 1 .. Len(s)
    OBVIOUS
  <2>3. s[1].page = q /\ (PartProgrammed(s, 1, P, h, k, v) \/ PartsMarked(s, 1, h, v))
    BY <2>1, <2>2 DEF Rest
  <2>4. CASE PartsMarked(s, 1, h, v)
    BY <2>3, <2>4 DEF PartsMarked, WritesNext
  <2>5. CASE PartProgrammed(s, 1, P, h, k, v)
    <3>1. PICK i, c : i = s[1].entry /\ c = s[1].content
      OBVIOUS
    <3>2. /\ i \in Entries /\ h < i /\ i < h + Span(v) /\ P.data[i] = Blank
          /\ s[1].op = "program"
      BY <2>5, <3>1 DEF PartProgrammed
    <3>3. ASSUME NEW Q \in PageType, ProgrammedIn(P, Q, i, Spoiled(c))
          PROVE  Steady(Q)
      <4>1. /\ Q.state = P.state /\ Q.data[i] = Spoiled(c)
            /\ \A j \in Entries : Q.table[j] = P.table[j]
            /\ \A j \in Entries : j # i => Q.data[j] = P.data[j]
        BY <3>2, <3>3 DEF ProgrammedIn
      <4>2. ~IsHeader(Q.data[i])
        BY <4>1, PartIs
      <4>3. \A j \in Entries : h < j /\ j < h + Span(v) => ~IsHeader(Q.data[j])
        BY <2>1, <4>1, <4>2 DEF Rest
      <4>4. \A j \in Entries : j < h \/ j >= h + Span(v) => j # i
        <5>1. i \in Nat /\ h < i /\ i < h + n
          BY <1>3, <1>4, <3>2
        <5>2. \A j \in Entries : j < h \/ j >= h + n => j # i
          BY <1>2, <1>3, <5>1
        <5> QED BY <1>4, <5>2
      <4>5. Within(P, Q, h, v)
        BY <4>1, <4>3, <4>4 DEF Within
      <4>6. Room(Q, h, v)
        BY <1>1, <4>5, RoomStays
      <4>7. h # i
        BY <1>2, <1>3, <3>2
      <4>8. Q.table[h] = "WRITTEN" /\ IsHeader(Q.data[h]) /\ Q.data[h].value = v
        BY <1>2, <2>1, <4>1, <4>7, PartIs
      <4> QED BY <4>6, <4>8, HeaderWritten
    <3> QED BY <2>3, <3>1, <3>2, <3>3 DEF WritesNext
  <2> QED BY <2>3, <2>4, <2>5
<1> QED BY <1>5, <1>6, <1>7 DEF Writing

(* The list s programs entries of X, each once and as C has them, and      *)
(* marks those of Y as written.                                            *)
Writes(s, q, C, X, Y) ==
    /\ \A x \in 1 .. Len(s) :
          /\ s[x].page = q
          /\ \/ /\ s[x].op = "program" /\ s[x].entry \in X /\ s[x].content = C[s[x].entry]
                /\ \A y \in 1 .. Len(s) : y # x /\ s[y].op = "program" => s[y].entry # s[x].entry
             \/ s[x].op = "alter" /\ s[x].state = "WRITTEN" /\ s[x].entries \in SUBSET Y
    /\ \A j \in Y : Hit(s, q, j)

(* Two such lists, one after the other.                                    *)
LEMMA WritesBoth ==
    ASSUME NEW S, NEW s \in Seq(S), NEW t \in Seq(S), NEW q, NEW C,
           NEW X, NEW Y, NEW V, NEW W, X \cap V = {},
           Writes(s, q, C, X, Y), Writes(t, q, C, V, W)
    PROVE  Writes(s \o t, q, C, X \cup V, Y \cup W)
<1> DEFINE r == s \o t
<1>1. PICK L \in Nat, M \in Nat : L = Len(s) /\ M = Len(t)
  BY LenProperties
<1>2. /\ Len(r) = L + M
      /\ \A x \in 1 .. L + M : r[x] = IF x <= L THEN s[x] ELSE t[x - L]
  BY <1>1, ConcatProperties
<1> HIDE DEF r
<1>3. ASSUME NEW x \in 1 .. L + M
      PROVE  \/ x \in 1 .. L /\ r[x] = s[x]
             \/ x - L \in 1 .. M /\ r[x] = t[x - L] /\ x \notin 1 .. L
  BY <1>1, <1>2
<1>4. \A x \in 1 .. L : s[x].op = "program" => s[x].entry \in X
  BY <1>1 DEF Writes
<1>5. \A x \in 1 .. M : t[x].op = "program" => t[x].entry \in V
  BY <1>1 DEF Writes
<1>6. ASSUME NEW x \in 1 .. L + M, NEW y \in 1 .. L + M, y # x,
             r[x].op = "program", r[y].op = "program", r[x].entry = r[y].entry
      PROVE  FALSE
  <2>1. CASE x \in 1 .. L /\ y \in 1 .. L
    <3>1. r[x] = s[x] /\ r[y] = s[y]
      BY <1>2, <2>1
    <3> QED BY <1>1, <1>6, <2>1, <3>1 DEF Writes
  <2>2. CASE x \notin 1 .. L /\ y \notin 1 .. L
    <3>1. /\ r[x] = t[x - L] /\ r[y] = t[y - L]
          /\ x - L \in 1 .. M /\ y - L \in 1 .. M /\ x - L # y - L
      BY <1>3, <1>6, <2>2
    <3> QED BY <1>1, <1>6, <3>1 DEF Writes
  <2>3. CASE x \in 1 .. L /\ y \notin 1 .. L
    <3>1. r[x].entry \in X /\ r[y].entry \in V
      BY <1>3, <1>4, <1>5, <1>6, <2>3
    <3> QED BY <1>6, <3>1
  <2>4. CASE x \notin 1 .. L /\ y \in 1 .. L
    <3>1. r[x].entry \in V /\ r[y].entry \in X
      BY <1>3, <1>4, <1>5, <1>6, <2>4
    <3> QED BY <1>6, <3>1
  <2> QED BY <2>1, <2>2, <2>3, <2>4
<1>7. ASSUME NEW x \in 1 .. L
      PROVE  /\ s[x].page = q
             /\ \/ s[x].op = "program" /\ s[x].entry \in X /\ s[x].content = C[s[x].entry]
                \/ s[x].op = "alter" /\ s[x].state = "WRITTEN" /\ s[x].entries \in SUBSET Y
  BY <1>1 DEF Writes
<1>8. ASSUME NEW x \in 1 .. M
      PROVE  /\ t[x].page = q
             /\ \/ t[x].op = "program" /\ t[x].entry \in V /\ t[x].content = C[t[x].entry]
                \/ t[x].op = "alter" /\ t[x].state = "WRITTEN" /\ t[x].entries \in SUBSET W
  BY <1>1 DEF Writes
<1>9. ASSUME NEW x \in 1 .. L + M
      PROVE  /\ r[x].page = q
             /\ \/ r[x].op = "program" /\ r[x].entry \in X \cup V /\ r[x].content = C[r[x].entry]
                \/ r[x].op = "alter" /\ r[x].state = "WRITTEN" /\ r[x].entries \in SUBSET (Y \cup W)
  <2>1. CASE x \in 1 .. L /\ r[x] = s[x]
    BY <1>7, <2>1
  <2>2. CASE x - L \in 1 .. M /\ r[x] = t[x - L]
    BY <1>8, <2>2
  <2> QED BY <1>3, <2>1, <2>2
<1>10. ASSUME NEW j \in Y \cup W PROVE Hit(r, q, j)
  <2>1. CASE j \in Y
    <3>1. Hit(s, q, j)
      BY <2>1 DEF Writes
    <3>2. PICK x \in 1 .. L : s[x].op = "alter" /\ s[x].page = q /\ j \in s[x].entries
      BY <1>1, <3>1 DEF Hit
    <3>3. x \in 1 .. L + M /\ r[x] = s[x]
      BY <1>2
    <3> QED BY <1>2, <3>2, <3>3 DEF Hit
  <2>2. CASE j \in W
    <3>1. Hit(t, q, j)
      BY <2>2 DEF Writes
    <3>2. PICK x \in 1 .. M : t[x].op = "alter" /\ t[x].page = q /\ j \in t[x].entries
      BY <1>1, <3>1 DEF Hit
    <3>3. PICK y : y = x + L
      OBVIOUS
    <3>4. y \in 1 .. L + M /\ ~(y <= L) /\ y - L = x
      BY <3>3
    <3>5. r[y] = t[x]
      BY <1>2, <3>4
    <3> QED BY <1>2, <3>2, <3>4, <3>5 DEF Hit
  <2> QED BY <2>1, <2>2
<1>11. Writes(r, q, C, X \cup V, Y \cup W)
  <2>1. \A x \in 1 .. Len(r) : x \in 1 .. L + M
    BY <1>2
  <2> QED BY <1>6, <1>9, <1>10, <2>1 DEF Writes
<1> QED BY <1>11 DEF r

(* writeEntry programs one entry and marks it.                             *)
LEMMA WriteEntryWrites ==
    ASSUME NEW q, NEW i, NEW C
    PROVE  Writes(WriteEntry(q, i, C[i]), q, C, {i}, {i})
<1> DEFINE s == WriteEntry(q, i, C[i])
<1>1. Len(s) = 2 /\ s[1] = Program(q, i, C[i]) /\ s[2] = Alter(q, {i}, "WRITTEN")
  BY DEF WriteEntry
<1> HIDE DEF s
<1>2. 1 .. Len(s) = {1, 2} /\ 1 # 2
  BY <1>1
<1>3. s[1].op = "program" /\ s[1].page = q /\ s[1].entry = i /\ s[1].content = C[i]
  BY <1>1 DEF Program
<1>4. s[2].op = "alter" /\ s[2].page = q /\ s[2].entries = {i} /\ s[2].state = "WRITTEN"
  BY <1>1 DEF Alter
<1>5. Hit(s, q, i)
  BY <1>2, <1>4 DEF Hit
<1>6. Writes(s, q, C, {i}, {i})
  BY <1>2, <1>3, <1>4, <1>5 DEF Writes
<1> QED BY <1>6 DEF s

(* The entries of the item at i with value v, without the header.          *)
Following(i, v) == {j \in Entries : i < j /\ j < i + Span(v)}

(* The part of the item at i that belongs into each entry.                 *)
PartsOf(k, v, i) == [j \in Entries |-> Part(k, v, j - i)]

(* What Page::writeItem writes behind the header.                          *)
DataOps(p, k, v, i) ==
    LET d == DataEntries[v]
    IN  IF d = 0 THEN <<>>
        ELSE [n \in 1 .. d |-> Program(p, i + n, Part(k, v, n))]
             \o AlterRange(p, i + 1, i + d, "WRITTEN")
TailOps(p, k, v, i) ==
    LET d == DataEntries[v]
    IN  IF TailEntries[v] = 0 THEN <<>> ELSE WriteEntry(p, i + d + 1, Part(k, v, d + 1))

(* Each entry of data is programmed, and the words of the table follow.    *)
LEMMA DataWrites ==
    ASSUME NEW p, NEW k \in Keys, NEW v \in Values, NEW i \in Entries,
           i + Span(v) <= EntryCount, NEW d, d = DataEntries[v]
    PROVE  /\ DataOps(p, k, v, i) \in Seq(Data({p}))
           /\ LET D == {j \in Entries : i < j /\ j <= i + d}
              IN  Writes(DataOps(p, k, v, i), p, PartsOf(k, v, i), D, D)
<1> DEFINE D == {j \in Entries : i < j /\ j <= i + d}
           C == PartsOf(k, v, i)
           A == [n \in 1 .. d |-> Program(p, i + n, Part(k, v, n))]
           B == AlterRange(p, i + 1, i + d, "WRITTEN")
           T == {p}
<1>1. /\ d \in Nat /\ i \in Nat /\ EntryCount \in Nat /\ i + d < EntryCount
  <2>1. d \in Nat /\ TailEntries[v] \in {0, 1} /\ Span(v) = 1 + d + TailEntries[v]
    BY SpanType
  <2>2. i \in Nat /\ EntryCount \in Nat
    BY EntriesAreNat, NvsAssumption
  <2>3. PICK t \in {0, 1} : t = TailEntries[v]
    BY <2>1
  <2>4. i + (1 + d + t) <= EntryCount
    BY <2>1, <2>3
  <2> QED BY <2>1, <2>2, <2>4
<1>2. \A j \in Nat : j \in Entries <=> j < EntryCount
  BY <1>1 DEF Entries
<1>3. \A j \in Entries : j \in Nat
  BY EntriesAreNat
<1>4. ASSUME d = 0
      PROVE  DataOps(p, k, v, i) \in Seq(Data(T)) /\ Writes(DataOps(p, k, v, i), p, C, D, D)
  <2>1. DataOps(p, k, v, i) = <<>>
    BY <1>4 DEF DataOps
  <2>2. D = {}
    <3>1. \A j \in Entries : ~(i < j /\ j <= i + d)
      BY <1>1, <1>3, <1>4
    <3> QED BY <3>1
  <2>3. 1 .. Len(<<>>) = {}
    OBVIOUS
  <2>4. Writes(<<>>, p, C, {}, {})
    BY <2>3 DEF Writes
  <2> QED BY <2>1, <2>2, <2>4, EmptySeq
<1>5. ASSUME d # 0
      PROVE  DataOps(p, k, v, i) \in Seq(Data(T)) /\ Writes(DataOps(p, k, v, i), p, C, D, D)
  <2>1. DataOps(p, k, v, i) = A \o B
    BY <1>5 DEF DataOps
  <2>2. ASSUME NEW n \in 1 .. d
        PROVE  /\ i + n \in D /\ i + n \in Entries /\ n \in Entries
               /\ C[i + n] = Part(k, v, n) /\ Part(k, v, n) \in Contents
    <3>1. n \in Nat /\ i + n \in Nat /\ i < i + n /\ i + n <= i + d /\ n < EntryCount
      BY <1>1
    <3>2. i + n \in Entries /\ n \in Entries
      <4>1. i + n < EntryCount
        BY <1>1, <3>1
      <4> QED BY <1>2, <3>1, <4>1
    <3>3. (i + n) - i = n
      BY <1>1, <3>1
    <3>4. C[i + n] = Part(k, v, n)
      BY <3>2, <3>3 DEF PartsOf
    <3>5. Part(k, v, n) \in Contents
      BY <3>2 DEF Contents
    <3> QED BY <3>1, <3>2, <3>4, <3>5
  <2>3. A \in Seq(Data(T)) /\ Len(A) = d /\ \A n \in 1 .. d : A[n] = Program(p, i + n, Part(k, v, n))
    <3>1. \A n \in 1 .. d : Program(p, i + n, Part(k, v, n)) \in Data(T)
      <4> TAKE n \in 1 .. d
      <4>1. i + n \in Int
        BY <1>1
      <4> HIDE DEF C
      <4> QED BY <2>2, <4>1, ProgramType
    <3>2. A \in Seq(Data(T))
      <4> HIDE DEF T
      <4> QED BY <1>1, <3>1
    <3>3. Len(A) = d
      BY <1>1
    <3>4. \A n \in 1 .. d : A[n] = Program(p, i + n, Part(k, v, n))
      OBVIOUS
    <3> QED BY <3>2, <3>3, <3>4
  <2>4. B \in Seq(Data(T))
    <3>1. i + 1 \in Int /\ i + d \in Int
      BY <1>1
    <3> QED BY <3>1, AlterRangeType
  <2> HIDE DEF A, D
  <2>5. Writes(A, p, C, D, {})
    <3>1. ASSUME NEW x \in 1 .. Len(A)
          PROVE  /\ A[x].page = p /\ A[x].op = "program" /\ A[x].entry = i + x
                 /\ A[x].content = Part(k, v, x)
      <4>1. x \in 1 .. d
        BY <2>3
      <4>2. A[x] = Program(p, i + x, Part(k, v, x))
        BY <2>3, <4>1
      <4> QED BY <4>2 DEF Program
    <3>2. \A x, y \in 1 .. Len(A) : x # y => i + x # i + y
      BY <1>1
    <3>3. \A x \in 1 .. Len(A) : i + x \in D /\ C[i + x] = Part(k, v, x)
      BY <2>2, <2>3
    <3> HIDE DEF C
    <3>4. \A x, y \in 1 .. Len(A) : y # x => A[y].entry # A[x].entry
      BY <3>1, <3>2
    <3> QED BY <3>1, <3>3, <3>4 DEF Writes
  <2>6. Writes(B, p, C, {}, D)
    <3>1. i + 1 \in Nat /\ i + d \in Nat /\ i + 1 <= i + d
      BY <1>1, <1>5
    <3>2. Alters(B, p, "WRITTEN", i + 1, i + d)
      BY <3>1, AlterRangeOps
    <3> HIDE DEF B, C
    <3>3. ASSUME NEW x \in 1 .. Len(B)
          PROVE  /\ B[x].page = p /\ B[x].op = "alter" /\ B[x].state = "WRITTEN"
                 /\ B[x].entries \in SUBSET D
      <4>1. /\ B[x].page = p /\ B[x].op = "alter" /\ B[x].state = "WRITTEN"
            /\ \A j \in B[x].entries : j \in Nat /\ i + 1 <= j /\ j <= i + d
        BY <3>2 DEF Alters
      <4>2. \A j \in Nat : i + 1 <= j /\ j <= i + d => j \in D
        <5>1. \A j \in Nat : i + 1 <= j /\ j <= i + d => i < j /\ j < EntryCount
          BY <1>1
        <5> QED BY <1>2, <5>1 DEF D
      <4> QED BY <4>1, <4>2
    <3>4. ASSUME NEW j \in D PROVE Hit(B, p, j)
      <4>1. j \in Nat /\ i + 1 <= j /\ j <= i + d
        BY <1>1, <1>3 DEF D
      <4>2. PICK x \in 1 .. Len(B) : j \in B[x].entries
        BY <3>2, <4>1 DEF Alters
      <4> QED BY <3>3, <4>2 DEF Hit
    <3> QED BY <3>3, <3>4 DEF Writes
  <2> HIDE DEF B, C
  <2>7. Writes(A \o B, p, C, D \cup {}, {} \cup D)
    <3>1. D \cap {} = {}
      OBVIOUS
    <3> QED BY <2>3, <2>4, <2>5, <2>6, <3>1, WritesBoth
  <2>8. D \cup {} = D /\ {} \cup D = D
    OBVIOUS
  <2>9. A \o B \in Seq(Data(T))
    BY <2>3, <2>4, ConcatProperties
  <2> QED BY <2>1, <2>7, <2>8, <2>9
<1> QED BY <1>4, <1>5

(* The tail is written as one entry.                                       *)
LEMMA TailWrites ==
    ASSUME NEW p, NEW k \in Keys, NEW v \in Values, NEW i \in Entries,
           i + Span(v) <= EntryCount, NEW d, d = DataEntries[v]
    PROVE  /\ TailOps(p, k, v, i) \in Seq(Data({p}))
           /\ LET E == {j \in Entries : i + d < j /\ j < i + Span(v)}
              IN  Writes(TailOps(p, k, v, i), p, PartsOf(k, v, i), E, E)
<1> DEFINE E == {j \in Entries : i + d < j /\ j < i + Span(v)}
           C == PartsOf(k, v, i)
           T == {p}
<1>1. PICK t \in {0, 1} : t = TailEntries[v] /\ Span(v) = 1 + d + t
  BY SpanType
<1>2. d \in Nat /\ i \in Nat /\ EntryCount \in Nat /\ i + 1 + d + t <= EntryCount
  <2>1. d \in Nat /\ i \in Nat /\ EntryCount \in Nat
    BY EntriesAreNat, NvsAssumption, SpanType
  <2>2. i + (1 + d + t) <= EntryCount
    BY <1>1
  <2> QED BY <2>1, <2>2
<1>3. \A j \in Nat : j \in Entries <=> j < EntryCount
  BY <1>2 DEF Entries
<1>4. \A j \in Entries : j \in Nat
  BY EntriesAreNat
<1>5. E = {j \in Entries : i + d < j /\ j < i + (1 + d + t)}
  BY <1>1
<1>6. ASSUME t = 0
      PROVE  TailOps(p, k, v, i) \in Seq(Data(T)) /\ Writes(TailOps(p, k, v, i), p, C, E, E)
  <2>1. TailOps(p, k, v, i) = <<>>
    BY <1>1, <1>6 DEF TailOps
  <2>2. E = {}
    <3>1. \A j \in Entries : ~(i + d < j /\ j < i + (1 + d + t))
      BY <1>2, <1>4, <1>6
    <3> QED BY <1>5, <3>1
  <2>3. 1 .. Len(<<>>) = {}
    OBVIOUS
  <2>4. Writes(<<>>, p, C, {}, {})
    BY <2>3 DEF Writes
  <2> QED BY <2>1, <2>2, <2>4, EmptySeq
<1>7. ASSUME t = 1
      PROVE  TailOps(p, k, v, i) \in Seq(Data(T)) /\ Writes(TailOps(p, k, v, i), p, C, E, E)
  <2>1. PICK e : e = i + d + 1
    OBVIOUS
  <2>2. e \in Nat /\ e < EntryCount /\ e - i = d + 1 /\ d + 1 < EntryCount /\ d + 1 \in Nat
    BY <1>2, <1>7, <2>1
  <2>3. e \in Entries /\ d + 1 \in Entries
    BY <1>3, <2>2
  <2>4. C[e] = Part(k, v, d + 1)
    BY <2>2, <2>3 DEF PartsOf
  <2>5. TailOps(p, k, v, i) = WriteEntry(p, e, C[e])
    <3>1. TailEntries[v] # 0
      BY <1>1, <1>7
    <3> HIDE DEF C
    <3> QED BY <2>1, <2>4, <3>1 DEF TailOps
  <2>6. E = {e}
    <3>1. \A j \in Entries : i + d < j /\ j < i + (1 + d + t) <=> j = e
      BY <1>2, <1>4, <1>7, <2>1
    <3> QED BY <1>5, <2>3, <3>1
  <2>7. Part(k, v, d + 1) \in Contents
    BY <2>3 DEF Contents
  <2>8. WriteEntry(p, e, C[e]) \in Seq(Data(T))
    <3>1. e \in Int
      BY <2>2
    <3> HIDE DEF C
    <3> QED BY <2>4, <2>7, <3>1, WriteEntryType
  <2> HIDE DEF C
  <2>9. Writes(WriteEntry(p, e, C[e]), p, C, {e}, {e})
    BY WriteEntryWrites
  <2> QED BY <2>5, <2>6, <2>8, <2>9
<1> QED BY <1>1, <1>6, <1>7

(* Page::writeItem writes the item where the free entries of a sound page  *)
(* begin.                                                                  *)
LEMMA RoomFound ==
    ASSUME NEW P \in PageType, P.state = "ACTIVE", Sound(P), NEW v \in Values,
           NEW h, h = NextFree(P), h + Span(v) <= EntryCount
    PROVE  /\ Room(P, h, v) /\ P.data[h] = Blank /\ BlankAbove(P, h) /\ Unwritten(P, h)
           /\ \A j \in Entries : h <= j => P.data[j] = Blank
<1>1. PICK n \in Nat : n = Span(v) /\ n >= 1
  BY SpanType
<1>2. /\ h \in Nat /\ EntryCount \in Nat /\ h < EntryCount /\ h \in Entries
      /\ P.table[h] = "EMPTY" /\ \A j \in Entries : j < h => P.table[j] # "EMPTY"
  <2>1. h \in Nat /\ EntryCount \in Nat
    BY NextFreeIs, NvsAssumption
  <2>2. h + n <= EntryCount
    BY <1>1
  <2>3. h < EntryCount
    BY <1>1, <2>1, <2>2
  <2> QED BY <2>1, <2>3, NextFreeIs
<1>3. \A j \in Entries : j \in Nat
  BY EntriesAreNat
<1>4. Clean(P) /\ Complete(P) /\ Apart(P) /\ Owned(P)
  BY DEF Sound, Shape
<1>5. ASSUME NEW j \in Entries, h <= j PROVE P.data[j] = Blank
  <2>1. ~Exposed(P, h)
    BY <1>2, <1>4 DEF Clean
  <2> QED BY <1>2, <1>5, <2>1 DEF Exposed
<1>6. P.data[h] = Blank /\ BlankAbove(P, h)
  <2>1. h <= h /\ \A j \in Entries : j > h => h <= j
    BY <1>2, <1>3
  <2> QED BY <1>2, <1>5, <2>1 DEF BlankAbove
<1>7. ASSUME NEW g \in Headed(P)
      PROVE  /\ g \in Entries /\ g \in Nat /\ LastOf(P, g) \in Nat /\ g <= LastOf(P, g)
             /\ g < h /\ LastOf(P, g) < h
  <2>1. g \in Entries /\ g \in Nat /\ IsHeader(P.data[g])
    BY <1>3 DEF Headed
  <2>2. LastOf(P, g) \in Nat /\ g <= LastOf(P, g)
    BY <2>1, LastOfType
  <2>3. ~IsHeader(Blank)
    BY DEF IsHeader, Blank
  <2>4. ~(h <= g)
    BY <1>5, <2>1, <2>3
  <2>5. g < h
    BY <1>2, <2>1, <2>4
  <2>6. ASSUME LastOf(P, g) >= h PROVE FALSE
    <3>1. InSpan(P, g, h)
      BY <1>2, <2>1, <2>2, <2>5, <2>6 DEF InSpan
    <3>2. P.table[h] = "WRITTEN"
      BY <1>2, <1>4, <3>1 DEF Complete
    <3> QED BY <1>2, <3>2
  <2>7. LastOf(P, g) < h
    BY <1>2, <2>2, <2>6
  <2> QED BY <2>1, <2>2, <2>5, <2>7
<1>8. Unwritten(P, h)
  <2> SUFFICES ASSUME NEW j \in Entries, h <= j, P.table[j] = "WRITTEN" PROVE FALSE
    BY DEF Unwritten
  <2>1. PICK g \in Headed(P) : InSpan(P, g, j)
    BY <1>4 DEF Owned
  <2>2. j <= LastOf(P, g)
    BY <2>1 DEF InSpan
  <2>3. LastOf(P, g) < h /\ LastOf(P, g) \in Nat
    BY <1>7
  <2> QED BY <1>2, <1>3, <2>2, <2>3
<1>9. BlankAbove(P, h + Span(v) - 1)
  <2>1. \A j \in Entries : j > h + n - 1 => j > h \/ h = j
    BY <1>1, <1>2, <1>3
  <2> QED BY <1>1, <1>6, <2>1 DEF BlankAbove
<1>10. Room(P, h, v)
  <2>1. \A g \in Headed(P) :
           g # h => /\ LastOf(P, g) < h
                    /\ \A f \in Headed(P) : g < f => LastOf(P, g) < f
                    /\ \A j \in Entries : InSpan(P, g, j) => P.table[j] = "WRITTEN"
    BY <1>4, <1>7 DEF Apart, Complete
  <2>2. \A j \in Entries : P.table[j] = "WRITTEN" => \E g \in Headed(P) : g # h /\ InSpan(P, g, j)
    <3>1. \A g \in Headed(P) : g # h
      BY <1>2, <1>7
    <3> QED BY <1>4, <3>1 DEF Owned
  <2>3. h \in Entries /\ h + Span(v) <= EntryCount
    BY <1>2
  <2>4. \A j \in Entries : j < h => P.table[j] # "EMPTY"
    BY <1>2
  <2> QED BY ONLY <1>9, <2>1, <2>2, <2>3, <2>4 DEF Room
<1> QED BY <1>5, <1>6, <1>8, <1>10

(* So does nvs_set_*, behind the header of the page if that is to come.    *)
LEMMA ItemWriting ==
    ASSUME NEW p \in Pages, NEW k \in Keys, NEW v \in Values, Fits(p, v),
           NEW P \in PageType, P.state = "ACTIVE", Sound(P), P.table = flash[p].table
    PROVE  \E s \in Seq(Ops) :
              /\ WriteItem(p, k, v) = Initialize(p) \o s
              /\ \E h \in Entries : Writing(s, P, p, h, k, v) /\ Unwritten(P, h)
<1>1. PICK h : h = NextFree(flash[p])
  OBVIOUS
<1>2. h = NextFree(P) /\ h + Span(v) <= EntryCount
  BY <1>1 DEF NextFree, Fits
<1>3. /\ Room(P, h, v) /\ P.data[h] = Blank /\ BlankAbove(P, h) /\ Unwritten(P, h)
      /\ \A j \in Entries : h <= j => P.data[j] = Blank
  BY <1>2, RoomFound
<1>4. h \in Entries /\ h \in Nat
  BY <1>3, EntriesAreNat DEF Room
<1>5. PICK d \in Nat, t \in {0, 1} : d = DataEntries[v] /\ t = TailEntries[v] /\ Span(v) = 1 + d + t
  BY SpanType
<1>6. \A j \in Entries : j \in Nat
  BY EntriesAreNat
<1> DEFINE C == PartsOf(k, v, h)
           X == Following(h, v)
           D == {j \in Entries : h < j /\ j <= h + d}
           E == {j \in Entries : h + d < j /\ j < h + Span(v)}
           S == Ops
<1>0. Seq(Data({p})) \subseteq Seq(Ops)
  BY DataAreOps
<1>7. PICK a : a \in Seq(S) /\ a = DataOps(p, k, v, h) /\ Writes(a, p, C, D, D)
  <2>1. h \in Entries /\ h + Span(v) <= EntryCount /\ d = DataEntries[v]
    BY <1>2, <1>4, <1>5
  <2>2. DataOps(p, k, v, h) \in Seq(Data({p})) /\ Writes(DataOps(p, k, v, h), p, C, D, D)
    BY ONLY <2>1, k \in Keys, v \in Values, DataWrites
  <2> HIDE DEF C, D
  <2> QED BY <1>0, <2>2
<1>8. PICK b : b \in Seq(S) /\ b = TailOps(p, k, v, h) /\ Writes(b, p, C, E, E)
  <2>1. h \in Entries /\ h + Span(v) <= EntryCount /\ d = DataEntries[v]
    BY <1>2, <1>4, <1>5
  <2>2. TailOps(p, k, v, h) \in Seq(Data({p})) /\ Writes(TailOps(p, k, v, h), p, C, E, E)
    BY ONLY <2>1, k \in Keys, v \in Values, TailWrites
  <2> HIDE DEF C, E
  <2> QED BY <1>0, <2>2
<1>9. PICK c : c \in Seq(S) /\ c = WriteEntry(p, h, Part(k, v, 0))
  <2>1. Part(k, v, 0) \in Contents
    <3>1. 0 \in Entries
      BY <1>4, NvsAssumption DEF Entries
    <3> QED BY <3>1 DEF Contents
  <2>2. h \in Int /\ p \in {p}
    BY <1>4
  <2>3. WriteEntry(p, h, Part(k, v, 0)) \in Seq(Data({p}))
    BY ONLY <2>1, <2>2, WriteEntryType
  <2> QED BY <1>0, <2>3
<1>10. D \cap E = {} /\ D \cup E = X
  <2>1. E = {j \in Entries : h + d < j /\ j < h + (1 + d + t)}
    BY <1>5
  <2>2. X = {j \in Entries : h < j /\ j < h + (1 + d + t)}
    BY <1>5 DEF Following
  <2>3. h \in Nat /\ d \in Nat /\ t \in {0, 1}
    BY <1>4
  <2>4. /\ \A j \in Nat : ~(j <= h + d /\ h + d < j)
        /\ \A j \in Nat : (h < j /\ j < h + (1 + d + t)) <=>
             \/ h < j /\ j <= h + d
             \/ h + d < j /\ j < h + (1 + d + t)
    BY ONLY <2>3
  <2>5. D \cap E = {}
    BY <1>6, <2>1, <2>4
  <2>6. D \cup E = X
    BY <1>6, <2>1, <2>2, <2>4
  <2> QED BY <2>5, <2>6
<1>11. \A j \in X : /\ j \in Entries /\ h < j /\ j < h + Span(v) /\ P.data[j] = Blank
                    /\ C[j] = Part(k, v, j - h)
  <2>1. \A j \in X : j \in Entries /\ h < j /\ j < h + Span(v)
    BY DEF Following
  <2>2. \A j \in X : P.data[j] = Blank
    <3>1. \A j \in Entries : h < j => h <= j
      BY <1>4, <1>6
    <3> QED BY <1>3, <2>1, <3>1
  <2>3. \A j \in X : C[j] = Part(k, v, j - h)
    BY <2>1 DEF PartsOf
  <2> QED BY <2>1, <2>2, <2>3
<1>12. \A j \in Entries : h < j /\ j < h + Span(v) => j \in X
  BY DEF Following
<1> HIDE DEF C, D, E, X, S
<1>13. PICK r : r \in Seq(S) /\ r = a \o b
  BY <1>7, <1>8, ConcatProperties
<1>14. Writes(r, p, C, X, X)
  <2>1. Writes(a \o b, p, C, D \cup E, D \cup E)
    BY <1>7, <1>8, <1>10, WritesBoth
  <2> QED BY <1>10, <1>13, <2>1
<1>15. Rest(r, P, p, h, k, v)
  <2>1. ASSUME NEW x \in 1 .. Len(r)
        PROVE  r[x].page = p /\ (PartProgrammed(r, x, P, h, k, v) \/ PartsMarked(r, x, h, v))
    <3>1. r[x].page = p
      BY <1>14 DEF Writes
    <3>2. CASE r[x].op = "program"
      <4>1. /\ r[x].entry \in X /\ r[x].content = C[r[x].entry]
            /\ \A y \in 1 .. Len(r) : y # x /\ r[y].op = "program" => r[y].entry # r[x].entry
        BY <1>14, <3>2 DEF Writes
      <4> QED BY <1>11, <3>1, <3>2, <4>1 DEF PartProgrammed
    <3>3. CASE r[x].op # "program"
      <4>1. r[x].op = "alter" /\ r[x].state = "WRITTEN" /\ r[x].entries \in SUBSET X
        BY <1>14, <3>3 DEF Writes
      <4> QED BY <1>11, <3>1, <4>1 DEF PartsMarked
    <3> QED BY <3>2, <3>3
  <2>2. ASSUME NEW j \in Entries, h < j, j < h + Span(v)
        PROVE  ~IsHeader(P.data[j]) /\ Hit(r, p, j)
    <3>1. j \in X /\ P.data[j] = Blank
      BY <1>11, <1>12, <2>2
    <3>2. Hit(r, p, j)
      BY <1>14, <3>1 DEF Writes
    <3> QED BY <3>1, <3>2 DEF IsHeader, Blank
  <2> QED BY <2>1, <2>2 DEF Rest
<1>16. PICK s : s \in Seq(S) /\ s = c \o r
  BY <1>9, <1>13, ConcatProperties
<1>17. /\ s # <<>> /\ s[1] = Program(p, h, Part(k, v, 0))
       /\ Tail(s) # <<>> /\ Tail(s)[1] = Alter(p, {h}, "WRITTEN")
       /\ Tail(Tail(s)) = r
  <2>1. PICK u, w : c = <<u, w>> /\ u = Program(p, h, Part(k, v, 0)) /\ w = Alter(p, {h}, "WRITTEN")
    BY <1>9 DEF WriteEntry
  <2>2. Len(c) = 2 /\ c[1] = u /\ c[2] = w
    BY <2>1
  <2>3. PICK m \in Nat : m = Len(r)
    BY <1>13, LenProperties
  <2>4. Len(s) = 2 + m /\ \A x \in 1 .. 2 + m : s[x] = IF x <= 2 THEN c[x] ELSE r[x - 2]
    <3>1. /\ Len(c \o r) = 2 + m
          /\ \A x \in 1 .. 2 + m : (c \o r)[x] = IF x <= 2 THEN c[x] ELSE r[x - 2]
      <4>1. /\ Len(c \o r) = Len(c) + Len(r)
            /\ \A x \in 1 .. Len(c) + Len(r) :
                  (c \o r)[x] = IF x <= Len(c) THEN c[x] ELSE r[x - Len(c)]
        BY <1>9, <1>13, ConcatProperties
      <4> QED BY <2>2, <2>3, <4>1
    <3> QED BY <1>16, <3>1
  <2>5. s # <<>> /\ s[1] = u /\ s[2] = w
    BY <2>2, <2>4
  <2>6. /\ Tail(s) \in Seq(S) /\ Len(Tail(s)) = 1 + m
        /\ \A x \in 1 .. 1 + m : Tail(s)[x] = s[x + 1]
    BY <1>16, <2>4, <2>5, HeadTailProperties
  <2>7. Tail(s) # <<>> /\ Tail(s)[1] = w
    <3>1. 1 \in 1 .. 1 + m /\ 1 + 1 = 2 /\ 1 + m # 0
      OBVIOUS
    <3>2. Tail(s)[1] = s[1 + 1]
      BY <2>6, <3>1
    <3> QED BY <2>5, <2>6, <3>1, <3>2, EmptySeq
  <2>8. /\ Tail(Tail(s)) \in Seq(S) /\ Len(Tail(Tail(s))) = m
        /\ \A x \in 1 .. m : Tail(Tail(s))[x] = Tail(s)[x + 1]
    BY <2>6, <2>7, HeadTailProperties
  <2>9. \A x \in 1 .. m : Tail(Tail(s))[x] = r[x]
    <3> TAKE x \in 1 .. m
    <3>1. Tail(Tail(s))[x] = s[(x + 1) + 1]
      <4>1. x + 1 \in 1 .. 1 + m
        OBVIOUS
      <4>2. Tail(s)[x + 1] = s[(x + 1) + 1]
        BY <2>6, <4>1
      <4> QED BY <2>8, <4>2
    <3>2. (x + 1) + 1 \in 1 .. 2 + m /\ ~((x + 1) + 1 <= 2) /\ ((x + 1) + 1) - 2 = x
      OBVIOUS
    <3>3. s[(x + 1) + 1] = r[((x + 1) + 1) - 2]
      BY <2>4, <3>2
    <3> QED BY <3>1, <3>2, <3>3
  <2>10. Tail(Tail(s)) = r
    BY <1>13, <2>3, <2>8, <2>9, SeqEqual
  <2> QED BY <2>1, <2>5, <2>7, <2>10
<1>18. Writing(s, P, p, h, k, v)
  BY <1>3, <1>15, <1>17 DEF Writing, ToProgram
<1>19. WriteItem(p, k, v) = Initialize(p) \o s
  <2>1. WriteItem(p, k, v) = Initialize(p) \o c \o a \o b
    BY <1>1, <1>7, <1>8, <1>9 DEF WriteItem, DataOps, TailOps
  <2>2. PICK y : y \in Seq(S) /\ y = Initialize(p)
    <3>1. <<Header(p)>> \in Seq(S) /\ <<>> \in Seq(S)
      <4>1. Header(p) \in S
        BY OpTypes DEF S
      <4> QED BY <4>1
    <3> QED BY <3>1 DEF Initialize
  <2>3. PICK u : u \in Seq(S) /\ u = y \o c
    BY <1>9, <2>2, ConcatProperties
  <2>4. (u \o a) \o b = u \o (a \o b)
    <3>1. u \in Seq(S) /\ a \in Seq(S) /\ b \in Seq(S)
      BY <1>7, <1>8, <2>3
    <3> QED BY ONLY <3>1, SMTT(60), ConcatAssociative
  <2>5. (y \o c) \o r = y \o (c \o r)
    <3>1. y \in Seq(S) /\ c \in Seq(S) /\ r \in Seq(S)
      BY <1>9, <1>13, <2>2
    <3> QED BY ONLY <3>1, ConcatAssociative
  <2>6. ((y \o c) \o a) \o b = y \o (c \o r)
    BY <1>13, <2>3, <2>4, <2>5, Zenon
  <2> QED BY <1>16, <2>1, <2>2, <2>6, Zenon
<1> QED BY <1>3, <1>4, <1>16, <1>18, <1>19 DEF S

-----------------------------------------------------------------------------
(* The calls, which queue writes and do none.                              *)

(* What settled pages promise while flash does not change.                 *)
LEMMA StillSettled ==
    ASSUME PagesInv, Settled, UNCHANGED disk
    PROVE  /\ Settled' /\ (\A p \in Kept : Steady(flash[p]))' /\ Erasing(<<>>)
           /\ Erasing(todo') => Erasing(todo)'
<1>1. FlashType /\ Headers
  BY DEF PagesInv
<1>2. Erasing(<<>>) /\ \A p \in Kept : Steady(flash[p])
  BY ErasingNothing
<1> QED BY <1>1, <1>2, SameKept

(* nvs_set_*: the item is queued for a page it fits on, behind the items   *)
(* of the page.                                                            *)
LEMMA WriteBegins ==
    ASSUME PagesInv, Settled, Lists, Plain, UNCHANGED <<disk, pageList, freeList>>,
           NEW k \in Keys, NEW v \in Values, Fits(Back, v), todo' = WriteItem(Back, k, v),
           call'.key = k, call'.value = v
    PROVE  \E h \in Entries : WritesAt(h)' /\ (State(Back) # "UNINITIALIZED" => Unwritten(flash[Back], h))
<1>1. FlashType /\ Headers /\ RamType
  BY DEF PagesInv
<1>2. PICK b : b \in Pages /\ b = Back
  BY <1>1, BackIsPage
<1>3. Back' = b /\ flash' = flash /\ Kept' = Kept /\ UNCHANGED disk
  <2>1. Kept' = Kept /\ flash' = flash
    BY <1>1, SameKept
  <2> QED BY <1>2, <2>1 DEF Back
<1>6. Fits(b, v) /\ todo' = WriteItem(b, k, v)
  BY <1>2
<1>7. flash[b].state # "FULL"
  BY <1>6 DEF Fits
<1>8. CASE State(b) = "UNINITIALIZED"
  <2>1. flash[b] = ErasedPage
    BY <1>1, <1>2, <1>8 DEF Headers
  <2>2. Opened.table = flash[b].table
    BY <2>1, OpenedIs DEF ErasedPage
  <2>3. PICK s : /\ s \in Seq(Ops)
                 /\ WriteItem(b, k, v) = Initialize(b) \o s
                 /\ \E h \in Entries : Writing(s, Opened, b, h, k, v)
    BY <1>2, <1>6, <2>2, OpenedIs, ItemWriting
  <2>4. Initialize(b) = <<Header(b)>>
    BY <1>8 DEF Initialize, State
  <2>5. todo' # <<>> /\ Head(todo') = Header(b) /\ Tail(todo') = s
    <3>1. Header(b) \in Ops
      BY <1>2, OpTypes
    <3>2. s \in Seq(Ops) /\ todo' = <<Header(b)>> \o s
      BY <1>6, <2>3, <2>4
    <3> QED BY ONLY <3>1, <3>2, ConsProperties
  <2>6. PICK h \in Entries : Writing(Tail(todo'), Opened, Back', h, call'.key, call'.value)
    BY <1>3, <2>3, <2>5
  <2>7. WritesAt(h)'
    BY <1>3, <2>5, <2>6 DEF WritesAt
  <2> QED BY <1>2, <1>8, <2>7
<1>9. CASE State(b) # "UNINITIALIZED"
  <2>1. flash[b].state = "ACTIVE" /\ flash[b] \in PageType
    BY <1>1, <1>2, <1>7, <1>9 DEF Plain, State, FlashType
  <2>2. b \in Kept
    <3>1. \A p \in Pages : State(p) # "FREEING"
      <4>1. \A p \in Pages : p # b => State(p) \in {"UNINITIALIZED", "CORRUPT", "FULL"}
        BY <1>1, <1>2, PlainStates DEF Plain
      <4> QED BY <2>1, <4>1 DEF State
    <3> QED BY <1>2, <2>1, <3>1 DEF Kept, Live, Loaded, State
  <2>3. Sound(flash[b])
    BY <2>2 DEF Settled
  <2>4. PICK s : /\ s \in Seq(Ops)
                 /\ WriteItem(b, k, v) = Initialize(b) \o s
                 /\ \E h \in Entries : Writing(s, flash[b], b, h, k, v) /\ Unwritten(flash[b], h)
    BY <1>2, <1>6, <2>1, <2>3, ItemWriting
  <2>5. Initialize(b) = <<>>
    BY <1>9 DEF Initialize, State
  <2>6. todo' = s
    <3>1. s \in Seq(Ops) /\ todo' = <<>> \o s
      BY <1>6, <2>4, <2>5
    <3> QED BY <3>1, ConcatEmptySeq
  <2>7. PICK h \in Entries : Writing(s, flash[b], b, h, k, v) /\ Unwritten(flash[b], h)
    BY <2>4
  <2>8. Writing(todo', flash[b], b, h, k, v)
    BY <2>6, <2>7
  <2>9. ~(todo' # <<>> /\ Head(todo') = Header(Back'))
    <3> SUFFICES ASSUME s # <<>>, Head(s) = Header(b) PROVE FALSE
      BY <1>3, <2>6
    <3>1. WritesNext(s[1], flash[b], b)
      BY <2>1, <2>4, <2>6, <2>7, WritingHead
    <3>2. Header(b).op = "header" /\ Head(s) = s[1]
      BY <2>4 DEF Header
    <3> QED BY <3>1, <3>2 DEF WritesNext
  <2>10. Writing(todo', flash'[Back'], Back', h, call'.key, call'.value)
    BY <1>3, <2>8
  <2>11. WritesAt(h)'
    BY <2>9, <2>10 DEF WritesAt
  <2> QED BY <1>2, <2>7, <2>11
<1> QED BY <1>8, <1>9

LEMMA WriteData ==
    ASSUME PagesInv, Settled, Lists, Plain, UNCHANGED <<disk, pageList, freeList>>,
           NEW k \in Keys, NEW v \in Values, Fits(Back, v), todo' = WriteItem(Back, k, v),
           phase' = "written", call'.key = k, call'.value = v
    PROVE  DataInv'
<1>1. Settled' /\ (\A p \in Kept : Steady(flash[p]))'
  <2>1. UNCHANGED disk
    OBVIOUS
  <2> QED BY <2>1, StillSettled
<1>2. \A p \in Kept' : p # Back' => Sound(flash'[p])
  BY <1>1 DEF Settled
<1>3. \E h \in Entries : WritesAt(h)'
  BY WriteBegins
<1> QED BY <1>1, <1>2, <1>3 DEF DataInv

(* nvs_set_*: it goes to the current page, or that page is closed.         *)
LEMMA SetItemData == PagesInv /\ DataInv /\ SetItem => DataInv'
<1> SUFFICES ASSUME PagesInv, DataInv, SetItem PROVE DataInv'
  OBVIOUS
<1>1. phase = "ready" /\ todo = <<>> /\ UNCHANGED <<disk, pageList, freeList>>
  BY DEF SetItem
<1>2. PICK k \in Keys, v \in Values :
          /\ call' = [op |-> "set", key |-> k, value |-> v]
          /\ IF Fits(Back, v)
             THEN todo' = WriteItem(Back, k, v) /\ phase' = "written"
             ELSE phase' = "request"
  <2>1. \A k \in Keys : ValuesOf[k] \subseteq Values
    BY DEF Values
  <2> QED BY <2>1 DEF SetItem
<1>3. Lists /\ Plain /\ Settled
  BY <1>1, IdleIsPlain DEF PagesInv, UpPhases, DataInv
<1>4. CASE Fits(Back, v)
  <2>1. todo' = WriteItem(Back, k, v) /\ phase' = "written"
    BY <1>2, <1>4
  <2>2. call'.key = k /\ call'.value = v
    BY <1>2
  <2> QED BY <1>1, <1>3, <1>4, <2>1, <2>2, WriteData
<1>5. CASE ~Fits(Back, v)
  <2>1. phase' = "request"
    BY <1>2, <1>5
  <2>2. Settled' /\ (\A p \in Kept : Steady(flash[p]))'
    BY <1>1, <1>3, StillSettled
  <2> QED BY <2>1, <2>2 DEF DataInv
<1> QED BY <1>4, <1>5

(* nvs_set_*: it goes to the new page.                                     *)
LEMMA WriteAgainData == PagesInv /\ DataInv /\ WriteAgain => DataInv'
<1> SUFFICES ASSUME PagesInv, DataInv, WriteAgain PROVE DataInv'
  OBVIOUS
<1>1. /\ phase = "again" /\ todo = <<>>
      /\ UNCHANGED <<disk, pageList, freeList, call, findPage, reply>>
  BY DEF WriteAgain
<1>2. PICK k \in Keys, v \in Values : k = call.key /\ v = call.value
  BY <1>1 DEF PagesInv, RamType
<1>3. Lists /\ Plain /\ Settled
  BY <1>1, IdleIsPlain DEF PagesInv, UpPhases, DataInv
<1>4. CASE Fits(Back, call.value)
  <2>1. todo' = WriteItem(Back, call.key, call.value) /\ phase' = "written"
    BY <1>4 DEF WriteAgain
  <2>2. Fits(Back, v) /\ todo' = WriteItem(Back, k, v) /\ call'.key = k /\ call'.value = v
    BY <1>1, <1>2, <1>4, <2>1
  <2> QED BY <1>1, <1>3, <2>1, <2>2, WriteData
<1>5. CASE ~Fits(Back, call.value)
  <2>1. phase' = "error" /\ todo' = <<>>
    BY <1>5 DEF WriteAgain
  <2>2. Settled' /\ (\A p \in Kept : Steady(flash[p]))'
    BY <1>1, <1>3, StillSettled
  <2> QED BY <2>1, <2>2 DEF DataInv
<1> QED BY <1>4, <1>5

(* The item that was written is whole.                                     *)
LEMMA WrittenSettled ==
    ASSUME PagesInv, DataInv, phase = "written", todo = <<>>
    PROVE  Settled
<1>1. FlashType /\ RamType /\ Lists
  BY DEF PagesInv, Phases, UpPhases
<1>2. PICK b : b \in Pages /\ b = Back
  BY <1>1, BackIsPage
<1>3. PICK h \in Entries : Writing(<<>>, flash[b], b, h, call.key, call.value)
  BY <1>2 DEF DataInv, WritesAt
<1>4. flash[b] \in PageType /\ call.value \in Values
  BY <1>1, <1>2 DEF FlashType, RamType
<1>5. Sound(flash[b])
  BY <1>3, <1>4, WritingDone
<1>6. \A p \in Kept : p # b => Sound(flash[p])
  BY <1>2 DEF DataInv
<1> QED BY <1>5, <1>6 DEF Settled

(* nvs_set_*: the item that is replaced is erased.                         *)
LEMMA EraseOldData == PagesInv /\ DataInv /\ EraseOld => DataInv'
<1> SUFFICES ASSUME PagesInv, DataInv, EraseOld PROVE DataInv'
  OBVIOUS
<1> DEFINE k == call.key
           p == IF flash[findPage].state = "UNINITIALIZED" THEN FindPage(k) ELSE findPage
<1>1. phase = "written" /\ todo = <<>> /\ UNCHANGED disk
  BY DEF EraseOld
<1>2. Settled
  BY <1>1, WrittenSettled
<1>3. /\ Settled' /\ (\A r \in Kept : Steady(flash[r]))' /\ Erasing(<<>>)
      /\ Erasing(todo') => Erasing(todo)'
  BY <1>1, <1>2, StillSettled
<1>4. FlashType /\ RamType
  BY DEF PagesInv
<1>5. \/ phase' = "stored" /\ Erasing(todo')
      \/ phase' = "error" /\ todo' = <<>>
  <2>1. CASE findPage = None
    BY <1>3, <2>1 DEF EraseOld
  <2>2. CASE findPage # None /\ (p = None \/ CopiesOf(k, flash[p]) = {})
    BY <2>2 DEF EraseOld
  <2>3. CASE findPage # None /\ p # None /\ CopiesOf(k, flash[p]) # {}
    <3>1. todo' = EraseKey(p, k) /\ phase' = "stored"
      BY <2>3 DEF EraseOld
    <3>2. p \in Pages
      BY <1>4, <2>3, FindPageType DEF RamType
    <3> HIDE DEF p, k
    <3> QED BY <1>2, <1>4, <2>3, <3>1, <3>2, ErasingKey
  <2> QED BY <2>1, <2>2, <2>3
<1> QED BY <1>3, <1>5 DEF DataInv

(* nvs_erase_all begins.                                                   *)
LEMMA EraseAllData == PagesInv /\ DataInv /\ EraseAll => DataInv'
<1> SUFFICES ASSUME PagesInv, DataInv, EraseAll PROVE DataInv'
  OBVIOUS
<1>1. phase = "ready" /\ phase' = "clearing" /\ todo' = <<>> /\ UNCHANGED disk
  BY DEF EraseAll
<1>2. Settled
  BY <1>1 DEF DataInv
<1>3. (\A r \in Kept : Steady(flash[r]))' /\ Erasing(todo)'
  BY <1>1, <1>2, StillSettled
<1> QED BY <1>1, <1>3 DEF DataInv

(* nvs_erase_all: the next item is erased.                                 *)
LEMMA EraseNextData == PagesInv /\ DataInv /\ EraseNext => DataInv'
<1> SUFFICES ASSUME PagesInv, DataInv, EraseNext PROVE DataInv'
  OBVIOUS
<1> DEFINE ns    == call.namespace
           pages == {r \in Range(pageList) : ItemsOf(ns, r) # {}}
           p     == First(pageList, pages)
<1>1. phase = "clearing" /\ todo = <<>> /\ UNCHANGED disk
  BY DEF EraseNext
<1>2. Settled
  BY <1>1, ErasingNothing DEF DataInv
<1>3. /\ (\A r \in Kept : Steady(flash[r]))' /\ Erasing(<<>>)
      /\ Erasing(todo') => Erasing(todo)'
  BY <1>1, <1>2, StillSettled
<1>4. FlashType /\ pageList \in Seq(Pages)
  BY DEF PagesInv, RamType
<1>5. phase' \in {"stored", "clearing"} /\ Erasing(todo')
  <2>1. CASE pages = {}
    BY <1>3, <2>1 DEF EraseNext
  <2>2. CASE pages # {}
    <3>1. todo' = EraseItem(p, Min(ItemsOf(ns, p))) /\ phase' = "clearing"
      BY <2>2 DEF EraseNext
    <3>2. pages \subseteq Range(pageList)
      OBVIOUS
    <3>3. \A r \in pages : ItemsOf(ns, r) # {}
      OBVIOUS
    <3> HIDE DEF pages
    <3>4. p \in pages /\ p \in Pages
      BY <1>4, <2>2, <3>2, FoundIsThere
    <3>5. ItemsOf(ns, p) # {}
      BY <3>3, <3>4
    <3> HIDE DEF p, ns
    <3>6. ItemsOf(ns, p) \in SUBSET Visited(flash[p]) /\ ItemsOf(ns, p) \in SUBSET Nat
      BY CopiesType, EntriesAreNat DEF ItemsOf
    <3>7. Min(ItemsOf(ns, p)) \in Visited(flash[p])
      BY <3>5, <3>6, MinIsLeast
    <3>8. Erasing(EraseItem(p, Min(ItemsOf(ns, p))))
      BY <1>2, <1>4, <3>4, <3>7, ErasingItem
    <3> QED BY <3>1, <3>8
  <2> QED BY <2>1, <2>2
<1> QED BY <1>3, <1>5 DEF DataInv

(* The call returns.                                                       *)
LEMMA ReturnData == PagesInv /\ DataInv /\ Return => DataInv'
<1> SUFFICES ASSUME PagesInv, DataInv, Return PROVE DataInv'
  OBVIOUS
<1>1. phase \in {"stored", "error"} /\ todo = <<>> /\ phase' = "ready" /\ todo' = <<>> /\ UNCHANGED disk
  BY DEF Return
<1>2. Settled
  BY <1>1, ErasingNothing DEF DataInv
<1>3. Settled' /\ (\A r \in Kept : Steady(flash[r]))'
  BY <1>1, <1>2, StillSettled
<1>4. Moves(todo, Back, flash[Back])'
  BY <1>1, IdleMoves
<1> QED BY <1>1, <1>3, <1>4 DEF DataInv

-----------------------------------------------------------------------------
(* Copying the items of a page.                                            *)

(* The number of members of C below j: where copyItems puts entry j.       *)
Below(C, j) == Cardinality({k \in C : k < j})

(* It grows by one at each member of C, so that what is copied fills the   *)
(* new page from its first entry on, in the same order.                    *)
LEMMA BelowIs ==
    ASSUME NEW C \in SUBSET Nat
    PROVE  /\ \A j \in Nat : Below(C, j) \in Nat /\ Below(C, j) <= j
           /\ \A i, j \in Nat : i <= j => Below(C, i) <= Below(C, j)
           /\ \A i \in C : Below(C, i + 1) = Below(C, i) + 1
           /\ \A i \in C : \A j \in Nat : i < j => Below(C, i) < Below(C, j)
<1> DEFINE B(j) == {k \in C : k < j}
<1>1. ASSUME NEW j \in Nat
      PROVE  IsFiniteSet(B(j)) /\ Below(C, j) \in Nat /\ Below(C, j) <= j
  <2>1. j - 1 \in Int /\ 0 \in Int
    OBVIOUS
  <2>2. IsFiniteSet(0 .. j - 1) /\ Cardinality(0 .. j - 1) = IF 0 > j - 1 THEN 0 ELSE (j - 1) - 0 + 1
    BY <2>1, FS_Interval
  <2>3. Cardinality(0 .. j - 1) = j
    BY <2>2
  <2>4. B(j) \in SUBSET (0 .. j - 1)
    <3>1. \A k \in B(j) : k \in Nat /\ k < j
      OBVIOUS
    <3>2. \A k \in Nat : k < j => k \in 0 .. j - 1
      OBVIOUS
    <3> QED BY <3>1, <3>2
  <2>5. IsFiniteSet(B(j)) /\ Cardinality(B(j)) <= Cardinality(0 .. j - 1)
    BY <2>2, <2>4, FS_Subset
  <2>6. Cardinality(B(j)) \in Nat
    BY <2>5, FS_CardinalityType
  <2> QED BY <2>3, <2>5, <2>6 DEF Below
<1>2. ASSUME NEW i \in Nat, NEW j \in Nat, i <= j PROVE Below(C, i) <= Below(C, j)
  <2>1. B(i) \in SUBSET B(j)
    <3>1. \A k \in Nat : k < i => k < j
      BY <1>2
    <3>2. \A k \in C : k \in Nat
      OBVIOUS
    <3> QED BY <3>1, <3>2
  <2>2. Cardinality(B(i)) <= Cardinality(B(j))
    BY <1>1, <2>1, FS_Subset
  <2> QED BY <2>2 DEF Below
<1>3. ASSUME NEW i \in C PROVE Below(C, i + 1) = Below(C, i) + 1
  <2>1. i \in Nat
    OBVIOUS
  <2>2. B(i + 1) = B(i) \cup {i} /\ i \notin B(i)
    <3>1. \A k \in Nat : k < i + 1 <=> k < i \/ k = i
      BY <2>1
    <3>2. \A k \in C : k \in Nat
      OBVIOUS
    <3>3. \A k \in C : k < i + 1 <=> k < i \/ k = i
      BY <3>1, <3>2
    <3>4. B(i + 1) = B(i) \cup {i}
      BY <1>3, <3>3
    <3>5. ~(i < i)
      BY <2>1
    <3>6. i \notin B(i)
      BY <3>5
    <3> QED BY <3>4, <3>6
  <2> HIDE DEF B
  <2>3. Cardinality(B(i) \cup {i}) = Cardinality(B(i)) + 1
    BY <1>1, <2>1, <2>2, FS_AddElement
  <2> QED BY <2>2, <2>3 DEF Below, B
<1>4. ASSUME NEW i \in C, NEW j \in Nat, i < j PROVE Below(C, i) < Below(C, j)
  <2>1. i \in Nat /\ i + 1 \in Nat /\ i + 1 <= j
    BY <1>4
  <2>2. Below(C, i + 1) = Below(C, i) + 1 /\ Below(C, i + 1) <= Below(C, j)
    BY <1>2, <1>3, <2>1
  <2>3. Below(C, i) \in Nat /\ Below(C, j) \in Nat
    BY <1>1, <2>1
  <2> QED BY <2>2, <2>3
<1> QED BY <1>1, <1>2, <1>3, <1>4

(* Members of C that follow each other keep doing so, ...                  *)
LEMMA BelowRun ==
    ASSUME NEW C \in SUBSET Nat, NEW i \in Nat, NEW l \in Nat,
           \A n \in Nat : n < l => i + n \in C
    PROVE  Below(C, i + l) = Below(C, i) + l
<1> DEFINE Bad == {n \in Nat : n <= l /\ Below(C, i + n) # Below(C, i) + n}
<1> SUFFICES ASSUME Bad # {} PROVE FALSE
  OBVIOUS
<1>1. PICK n \in Bad : \A m \in Bad : n <= m
  <2>1. Bad \in SUBSET Nat
    OBVIOUS
  <2> QED BY <2>1, Least
<1>2. n # 0
  <2>1. i + 0 = i /\ Below(C, i) \in Nat
    BY BelowIs
  <2> QED BY <1>1, <2>1
<1>3. n - 1 \in Nat /\ n - 1 < l /\ n - 1 <= l /\ ~(n <= n - 1)
  BY <1>2
<1>4. Below(C, i + (n - 1)) = Below(C, i) + (n - 1)
  BY <1>1, <1>3
<1>5. i + (n - 1) \in C
  BY <1>3
<1>6. Below(C, (i + (n - 1)) + 1) = Below(C, i + (n - 1)) + 1
  BY <1>5, BelowIs
<1>7. (i + (n - 1)) + 1 = i + n
  BY <1>2
<1>8. Below(C, i) \in Nat
  BY BelowIs
<1>9. Below(C, i + n) = Below(C, i) + n
  BY <1>4, <1>6, <1>7, <1>8
<1> QED BY <1>9

(* ... and no place below one that is taken is left free.                  *)
LEMMA BelowFills ==
    ASSUME NEW C \in SUBSET Nat, NEW x \in C, NEW i \in Nat, i <= Below(C, x)
    PROVE  \E y \in C : Below(C, y) = i
<1> DEFINE T == {y \in C : i <= Below(C, y)}
<1>1. PICK y \in T : \A z \in T : y <= z
  <2>1. T \in SUBSET Nat /\ T # {}
    OBVIOUS
  <2> QED BY <2>1, Least
<1>2. y \in C /\ y \in Nat /\ i <= Below(C, y) /\ Below(C, y) \in Nat
  <2>1. y \in C /\ y \in Nat /\ i <= Below(C, y)
    OBVIOUS
  <2> QED BY <2>1, BelowIs
<1> SUFFICES ASSUME Below(C, y) # i PROVE FALSE
  BY <1>2
<1>3. i < Below(C, y)
  BY <1>2
<1> DEFINE U == {k \in C : k < y}
<1>4. U # {}
  <2> SUFFICES ASSUME U = {} PROVE FALSE
    OBVIOUS
  <2>1. Below(C, y) = 0
    BY FS_EmptySet DEF Below
  <2> QED BY <1>3, <2>1
<1>5. PICK z \in U : \A k \in U : k <= z
  <2>1. \A k \in U : k \in Nat /\ k <= y
    BY <1>2
  <2> QED BY <1>2, <1>4, <2>1, MaxIsGreatest
<1>6. z \in C /\ z \in Nat /\ z < y
  OBVIOUS
\* y is the next member of C behind z.
<1>7. U = {k \in C : k < z + 1}
  <2>1. \A k \in C : k < y <=> k < z + 1
    <3>1. ASSUME NEW k \in C, k < y PROVE k < z + 1
      <4>1. k \in U /\ k \in Nat
        BY <3>1
      <4> QED BY <1>5, <1>6, <4>1
    <3>2. ASSUME NEW k \in C, k < z + 1 PROVE k < y
      BY <1>2, <1>6, <3>2
    <3> QED BY <3>1, <3>2
  <2> QED BY <2>1
<1>8. Below(C, y) = Below(C, z) + 1
  <2>1. Below(C, y) = Below(C, z + 1)
    BY <1>7 DEF Below
  <2> QED BY <1>6, <2>1, BelowIs
<1>9. Below(C, z) \in Nat
  BY <1>6, BelowIs
<1>10. i <= Below(C, z)
  BY <1>2, <1>3, <1>8, <1>9
<1>11. y <= z
  BY <1>1, <1>6, <1>10
<1> QED BY <1>2, <1>6, <1>11

(* What copyItems copies of page P, and the page that it fills.            *)
Copied(P) == {j \in Entries : \E i \in Visited(P) : j \in i .. LastOf(P, i)}

Taken(C, i) == \E j \in C : Below(C, j) = i
CopyOf(P) ==
    LET C == Copied(P)
    IN  [state |-> "ACTIVE",
         table |-> [i \in Entries |-> IF Taken(C, i) THEN "WRITTEN" ELSE "EMPTY"],
         data  |-> [i \in Entries |->
                       IF Taken(C, i) THEN P.data[CHOOSE j \in C : Below(C, j) = i] ELSE Blank]]

(* In a sound page what is copied are the entries of the items.            *)
LEMMA CopiedIs ==
    ASSUME NEW P \in PageType, Sound(P)
    PROVE  /\ Copied(P) \in SUBSET Entries /\ Copied(P) \in SUBSET Nat
           /\ \A j \in Entries : j \in Copied(P) <=> \E h \in Headed(P) : InSpan(P, h, j)
           /\ \A j \in Copied(P) : P.table[j] = "WRITTEN"
<1>1. Shape(P) /\ Complete(P)
  BY DEF Sound
<1>2. Visited(P) = Headed(P)
  BY <1>1, VisitedHeaders
<1>3. Copied(P) \in SUBSET Entries /\ Copied(P) \in SUBSET Nat
  BY EntriesAreNat DEF Copied
<1>4. ASSUME NEW j \in Entries
      PROVE  j \in Copied(P) <=> \E h \in Headed(P) : InSpan(P, h, j)
  <2>1. \A h \in Headed(P) : h \in Int /\ LastOf(P, h) \in Int
    <3>1. \A h \in Headed(P) : h \in Entries /\ h \in Nat
      BY EntriesAreNat DEF Headed
    <3> QED BY <3>1, LastOfType
  <2>2. j \in Int
    BY EntriesAreNat
  <2>3. \A h \in Headed(P) : j \in h .. LastOf(P, h) <=> InSpan(P, h, j)
    BY <2>1, <2>2 DEF InSpan
  <2> QED BY <1>2, <2>3 DEF Copied
<1>5. \A j \in Copied(P) : P.table[j] = "WRITTEN"
  BY <1>1, <1>3, <1>4 DEF Complete
<1> QED BY <1>3, <1>4, <1>5

(* The entries of the new page: each one that is copied behind those       *)
(* before it, and nothing else.                                            *)
LEMMA CopyOfIs ==
    ASSUME NEW P \in PageType, Sound(P), NEW C, C = Copied(P), NEW F, F = CopyOf(P)
    PROVE  /\ F \in PageType /\ F.state = "ACTIVE"
           /\ \A j \in C : /\ Below(C, j) \in Entries
                           /\ F.table[Below(C, j)] = "WRITTEN"
                           /\ F.data[Below(C, j)] = P.data[j]
           /\ \A i \in Entries : Taken(C, i) \/ (F.table[i] = "EMPTY" /\ F.data[i] = Blank)
<1>1. C \in SUBSET Entries /\ C \in SUBSET Nat
  BY CopiedIs
<1> DEFINE T == [i \in Entries |-> IF Taken(C, i) THEN "WRITTEN" ELSE "EMPTY"]
           D == [i \in Entries |->
                       IF Taken(C, i) THEN P.data[CHOOSE j \in C : Below(C, j) = i] ELSE Blank]
<1>2. F = [state |-> "ACTIVE", table |-> T, data |-> D]
  BY DEF CopyOf
<1>3. \A i \in Entries : D[i] \in Contents
  <2> TAKE i \in Entries
  <2>1. CASE Taken(C, i)
    <3>1. (CHOOSE j \in C : Below(C, j) = i) \in C
      BY <2>1 DEF Taken
    <3>2. P.data[CHOOSE j \in C : Below(C, j) = i] \in Contents
      BY <1>1, <3>1 DEF PageType
    <3> QED BY <2>1, <3>2
  <2>2. CASE ~Taken(C, i)
    BY <2>2 DEF Contents
  <2> QED BY <2>1, <2>2
<1>4. F \in PageType /\ F.state = "ACTIVE"
  <2>1. T \in [Entries -> {"EMPTY", "WRITTEN", "ERASED"}]
    OBVIOUS
  <2>2. D \in [Entries -> Contents]
    BY <1>3
  <2> HIDE DEF T, D
  <2> QED BY <1>2, <2>1, <2>2 DEF PageType
<1>5. ASSUME NEW j \in C
      PROVE  /\ Below(C, j) \in Entries
             /\ T[Below(C, j)] = "WRITTEN"
             /\ D[Below(C, j)] = P.data[j]
  <2>1. j \in Entries /\ j \in Nat /\ Below(C, j) \in Nat /\ Below(C, j) <= j
    BY <1>1, BelowIs
  <2>2. Below(C, j) \in Entries
    BY <2>1, NvsAssumption DEF Entries
  <2>3. Taken(C, Below(C, j))
    BY DEF Taken
  <2>4. ASSUME NEW k \in C, Below(C, k) = Below(C, j) PROVE k = j
    <3>1. k \in Nat /\ Below(C, k) \in Nat
      BY <1>1, BelowIs
    <3>2. /\ k < j => Below(C, k) < Below(C, j)
          /\ j < k => Below(C, j) < Below(C, k)
      BY <1>1, <2>1, <3>1, BelowIs
    <3> QED BY <2>1, <2>4, <3>1, <3>2
  <2>5. (CHOOSE k \in C : Below(C, k) = Below(C, j)) = j
    BY <2>4
  <2> QED BY <2>2, <2>3, <2>5
<1>6. \A i \in Entries : Taken(C, i) \/ (T[i] = "EMPTY" /\ D[i] = Blank)
  <2>1. \A i \in Entries : T[i] = IF Taken(C, i) THEN "WRITTEN" ELSE "EMPTY"
    OBVIOUS
  <2>2. \A i \in Entries :
           D[i] = IF Taken(C, i) THEN P.data[CHOOSE j \in C : Below(C, j) = i] ELSE Blank
    OBVIOUS
  <2> HIDE DEF T, D
  <2>3. ASSUME NEW i \in Entries, ~Taken(C, i) PROVE T[i] = "EMPTY"
    BY <2>1, <2>3
  <2>4. ASSUME NEW i \in Entries, ~Taken(C, i) PROVE D[i] = Blank
    BY <2>2, <2>4
  <2> QED BY <2>3, <2>4
<1> HIDE DEF T, D
<1> QED BY <1>2, <1>4, <1>5, <1>6

(* The page that is filled holds the same items, one behind the other.     *)
LEMMA CopyIsSound ==
    ASSUME NEW P \in PageType, Sound(P)
    PROVE  Sound(CopyOf(P))
<1>1. PICK C, F : C = Copied(P) /\ F = CopyOf(P)
  OBVIOUS
<1>2. /\ F \in PageType /\ F.state = "ACTIVE"
      /\ \A j \in C : /\ Below(C, j) \in Entries
                      /\ F.table[Below(C, j)] = "WRITTEN"
                      /\ F.data[Below(C, j)] = P.data[j]
      /\ \A i \in Entries : Taken(C, i) \/ (F.table[i] = "EMPTY" /\ F.data[i] = Blank)
  BY <1>1, CopyOfIs
<1>3. /\ C \in SUBSET Entries /\ C \in SUBSET Nat
      /\ \A j \in Entries : j \in C <=> \E h \in Headed(P) : InSpan(P, h, j)
      /\ \A j \in C : P.table[j] = "WRITTEN"
  BY <1>1, CopiedIs
<1>4. Apart(P) /\ \A h \in Headed(P) : h \in Entries /\ h \in Nat
  BY EntriesAreNat DEF Sound, Shape, Headed
\* Where an item ends in the new page.
<1>5. ASSUME NEW h \in Headed(P)
      PROVE  /\ h \in C /\ LastOf(P, h) \in C /\ LastOf(P, h) \in Nat /\ h <= LastOf(P, h)
             /\ LastOf(P, h) < EntryCount
             /\ LastOf(F, Below(C, h)) = Below(C, LastOf(P, h))
  <2>1. h \in Entries /\ h \in Nat /\ LastOf(P, h) \in Nat /\ h <= LastOf(P, h)
    BY <1>4, LastOfType
  <2>2. LastOf(P, h) < EntryCount /\ EntryCount \in Nat
    BY <1>4, NvsAssumption DEF Apart
  <2>3. PICK n \in Nat : LastOf(P, h) = h + n
    <3>1. LastOf(P, h) - h \in Nat /\ LastOf(P, h) = h + (LastOf(P, h) - h)
      BY <2>1
    <3> QED BY <3>1
  <2>4. \A m \in Nat : m < n + 1 => h + m \in C
    <3> SUFFICES ASSUME NEW m \in Nat, m < n + 1 PROVE h + m \in C
      OBVIOUS
    <3>1. h + m \in Nat /\ h <= h + m /\ h + m <= LastOf(P, h) /\ h + m < EntryCount
      BY <2>1, <2>2, <2>3
    <3>2. h + m \in Entries
      BY <2>2, <3>1 DEF Entries
    <3>3. InSpan(P, h, h + m)
      BY <3>1 DEF InSpan
    <3> QED BY <1>3, <3>2, <3>3
  <2>5. h + 0 \in C /\ h + 0 = h /\ h + n \in C
    <3>1. 0 \in Nat /\ 0 < n + 1 /\ n < n + 1 /\ h + 0 = h
      BY <2>1
    <3> QED BY <2>4, <3>1
  <2>6. Below(C, h + n) = Below(C, h) + n
    <3>1. \A m \in Nat : m < n => m < n + 1
      OBVIOUS
    <3>2. \A m \in Nat : m < n => h + m \in C
      BY <2>4, <3>1
    <3> QED BY <1>3, <2>1, <3>2, BelowRun
  <2>7. LastOf(F, Below(C, h)) = Below(C, h) + n
    <3>1. F.data[Below(C, h)] = P.data[h]
      BY <1>2, <2>5
    <3>2. SpanAt(F, Below(C, h)) = SpanAt(P, h)
      BY <3>1 DEF SpanAt
    <3>3. IsHeader(P.data[h]) /\ P.data[h] \in Contents
      BY <2>1 DEF Headed, PageType
    <3>4. SpanAt(P, h) \in Nat
      <4>1. P.data[h].value \in Values
        BY <3>3, HeaderContent
      <4> QED BY <3>3, <4>1, SpanType DEF SpanAt
    <3>5. h + SpanAt(P, h) - 1 = h + n
      BY <2>3 DEF LastOf
    <3>6. Below(C, h) \in Nat
      BY <1>3, <2>1, BelowIs
    <3>7. Below(C, h) + SpanAt(P, h) - 1 = Below(C, h) + n
      BY <2>1, <3>4, <3>5, <3>6
    <3> QED BY <3>2, <3>7 DEF LastOf
  <2> QED BY <2>1, <2>2, <2>3, <2>5, <2>6, <2>7
<1>6. \A j \in C : j \in Nat /\ Below(C, j) \in Nat /\ Below(C, j) <= j
  BY <1>3, BelowIs
<1>7. \A i, j \in C : i <= j => Below(C, i) <= Below(C, j)
  BY <1>3, BelowIs
<1>8. \A i, j \in C : i < j => Below(C, i) < Below(C, j)
  BY <1>3, BelowIs
\* The headers of the new page.
<1>9. ASSUME NEW g \in Headed(F) PROVE \E h \in Headed(P) : g = Below(C, h)
  <2>1. g \in Entries /\ F.table[g] = "WRITTEN" /\ IsHeader(F.data[g])
    BY DEF Headed
  <2>2. PICK h \in C : Below(C, h) = g
    BY <1>2, <2>1 DEF Taken
  <2>3. h \in Entries /\ P.table[h] = "WRITTEN" /\ IsHeader(P.data[h])
    BY <1>2, <1>3, <2>1, <2>2
  <2> QED BY <2>2, <2>3 DEF Headed
<1>10. \A h \in Headed(P) : Below(C, h) \in Headed(F)
  <2> TAKE h \in Headed(P)
  <2>1. h \in C /\ IsHeader(P.data[h])
    BY <1>5 DEF Headed
  <2> QED BY <1>2, <2>1 DEF Headed
<1>11. Apart(F)
  <2>1. ASSUME NEW g \in Headed(F)
        PROVE  /\ LastOf(F, g) < EntryCount
               /\ \A f \in Headed(F) : g < f => LastOf(F, g) < f
    <3>1. PICK h \in Headed(P) : g = Below(C, h)
      BY <1>9
    <3>2. /\ h \in C /\ LastOf(P, h) \in C /\ LastOf(P, h) \in Nat /\ LastOf(P, h) < EntryCount
          /\ LastOf(F, g) = Below(C, LastOf(P, h))
      BY <1>5, <3>1
    <3>3. LastOf(F, g) < EntryCount
      BY <1>6, <3>2, NvsAssumption
    <3>4. ASSUME NEW f \in Headed(F), g < f PROVE LastOf(F, g) < f
      <4>1. PICK k \in Headed(P) : f = Below(C, k)
        BY <1>9
      <4>2. k \in C /\ k \in Nat /\ h \in Nat /\ f \in Nat /\ g \in Nat
        BY <1>4, <1>5, <1>6, <3>1, <3>2, <4>1
      <4>3. h < k
        <5> SUFFICES ASSUME k <= h PROVE FALSE
          BY <4>2
        <5>1. f <= g
          BY <1>7, <3>1, <3>2, <4>1, <4>2
        <5> QED BY <3>4, <4>2, <5>1
      <4>4. LastOf(P, h) < k
        BY <1>4, <4>3 DEF Apart
      <4> QED BY <1>8, <3>2, <4>1, <4>2, <4>4
    <3> QED BY <3>3, <3>4
  <2> QED BY <2>1 DEF Apart
<1>12. Owned(F)
  <2> SUFFICES ASSUME NEW i \in Entries, F.table[i] = "WRITTEN"
               PROVE  \E g \in Headed(F) : InSpan(F, g, i)
    BY DEF Owned
  <2>1. PICK j \in C : Below(C, j) = i
    BY <1>2 DEF Taken
  <2>2. PICK h \in Headed(P) : h <= j /\ j <= LastOf(P, h)
    BY <1>3, <2>1 DEF InSpan
  <2>3. h \in C /\ LastOf(P, h) \in C /\ LastOf(F, Below(C, h)) = Below(C, LastOf(P, h))
    BY <1>5
  <2>4. Below(C, h) <= i /\ i <= LastOf(F, Below(C, h))
    BY <1>7, <2>1, <2>2, <2>3
  <2> QED BY <1>10, <2>4 DEF InSpan
<1>13. Complete(F)
  <2> SUFFICES ASSUME NEW g \in Headed(F), NEW i \in Entries, InSpan(F, g, i)
               PROVE  F.table[i] = "WRITTEN"
    BY DEF Complete
  <2>1. PICK h \in Headed(P) : g = Below(C, h)
    BY <1>9
  <2>2. LastOf(P, h) \in C /\ LastOf(F, g) = Below(C, LastOf(P, h))
    BY <1>5, <2>1
  <2>3. i <= Below(C, LastOf(P, h)) /\ i \in Nat
    BY <2>2, EntriesAreNat DEF InSpan
  <2>4. PICK y \in C : Below(C, y) = i
    BY <1>3, <2>2, <2>3, BelowFills
  <2> QED BY <1>2, <2>4
<1>14. Clean(F)
  <2> SUFFICES ASSUME NEW i \in Entries, F.table[i] = "EMPTY",
                      NEW j \in Entries, i <= j, F.data[j] # Blank
               PROVE  FALSE
    BY DEF Clean, Exposed
  <2>1. PICK x \in C : Below(C, x) = j
    BY <1>2 DEF Taken
  <2>2. i \in Nat /\ i <= Below(C, x)
    BY <2>1, EntriesAreNat
  <2>3. PICK y \in C : Below(C, y) = i
    BY <1>3, <2>2, BelowFills
  <2> QED BY <1>2, <2>3
<1> QED BY <1>1, <1>11, <1>12, <1>13, <1>14 DEF Sound, Shape

(* One write for each entry that is copied, and the mark in the table.     *)
EntryCopies(q, P, C) ==
    [n \in 1 .. EntryCount |->
        IF n - 1 \in C THEN WriteEntry(q, Below(C, n - 1), P.data[n - 1]) ELSE <<>>]

LEMMA CopyBlocks ==
    ASSUME NEW P \in PageType, Sound(P), NEW q \in Pages, NEW C, C = Copied(P)
    PROVE  LET d == FlattenSeq(EntryCopies(q, P, C))
           IN  d \in Seq(Data({q})) /\ (C = {} => d = <<>>) /\ Remaining(d, 0, Opened, CopyOf(P))
<1> DEFINE ss == EntryCopies(q, P, C)
<1>0. ss = [n \in 1 .. EntryCount |->
               IF n - 1 \in C THEN WriteEntry(q, Below(C, n - 1), P.data[n - 1]) ELSE <<>>]
  BY DEF EntryCopies
<1> HIDE DEF ss
<1>1. PICK F : F = CopyOf(P)
  OBVIOUS
<1>2. /\ F \in PageType
      /\ \A j \in C : /\ Below(C, j) \in Entries
                      /\ F.table[Below(C, j)] = "WRITTEN"
                      /\ F.data[Below(C, j)] = P.data[j]
      /\ \A i \in Entries : Taken(C, i) \/ (F.table[i] = "EMPTY" /\ F.data[i] = Blank)
  BY <1>1, CopyOfIs
<1>3. C \in SUBSET Entries /\ C \in SUBSET Nat /\ EntryCount \in Nat
  BY CopiedIs, NvsAssumption
<1>4. ASSUME NEW n \in 1 .. EntryCount
      PROVE  /\ ss[n] \in Seq(Data({q}))
             /\ n - 1 \notin C => Len(ss[n]) = 0
             /\ n - 1 \in C =>
                   /\ Len(ss[n]) = 2
                   /\ ss[n][1] = Program(q, Below(C, n - 1), P.data[n - 1])
                   /\ ss[n][2] = Alter(q, {Below(C, n - 1)}, "WRITTEN")
  <2>1. CASE n - 1 \in C
    <3>1. ss[n] = WriteEntry(q, Below(C, n - 1), P.data[n - 1])
      BY <1>0, <2>1
    <3>2. Below(C, n - 1) \in Int /\ P.data[n - 1] \in Contents /\ q \in {q}
      <4>1. n - 1 \in Entries /\ Below(C, n - 1) \in Entries
        BY <1>2, <1>3, <2>1
      <4>2. Below(C, n - 1) \in Int
        <5>1. \A e \in Entries : e \in Int
          BY EntriesAreNat
        <5> QED BY <4>1, <5>1
      <4>3. P.data[n - 1] \in Contents
        BY <4>1 DEF PageType
      <4> QED BY <4>2, <4>3
    <3>3. WriteEntry(q, Below(C, n - 1), P.data[n - 1]) \in Seq(Data({q}))
      BY <3>2, WriteEntryType
    <3> QED BY <2>1, <3>1, <3>3 DEF WriteEntry
  <2>2. CASE n - 1 \notin C
    <3>1. ss[n] = <<>>
      BY <1>0, <2>2
    <3> QED BY <2>2, <3>1, EmptySeq
  <2> QED BY <2>1, <2>2
<1>5. ss \in [1 .. EntryCount -> Seq(Data({q}))]
  <2>1. ss = [n \in 1 .. EntryCount |-> ss[n]]
    BY <1>0
  <2> QED BY <1>4, <2>1
<1>6. PICK d : d = FlattenSeq(ss)
  OBVIOUS
<1>7. d \in Seq(Data({q})) /\ Len(d) \in Nat
  <2>1. d \in Seq(Data({q}))
    BY <1>3, <1>5, <1>6, FlattenType
  <2> QED BY <2>1, LenProperties
<1>8. PICK off \in [1 .. EntryCount -> Nat] : Blocks(d, ss, EntryCount, off)
  BY <1>3, <1>5, <1>6, FlattenBlocks
\* Each member of the list is one of these writes, ...
<1>9. ASSUME NEW x \in 1 .. Len(d)
      PROVE  \E j \in C :
                \/ d[x] = Program(q, Below(C, j), P.data[j]) /\ x = off[j + 1] + 1
                \/ d[x] = Alter(q, {Below(C, j)}, "WRITTEN")
  <2>1. PICK b \in 1 .. EntryCount : \E m \in 1 .. Len(ss[b]) : x = off[b] + m
    BY <1>8 DEF Blocks
  <2>2. PICK m \in 1 .. Len(ss[b]) : x = off[b] + m
    BY <2>1
  <2>3. d[x] = ss[b][m]
    BY <1>8, <2>2 DEF Blocks
  <2>4. b - 1 \in C
    <3> SUFFICES ASSUME b - 1 \notin C PROVE FALSE
      OBVIOUS
    <3>1. Len(ss[b]) = 0
      BY <1>4
    <3> QED BY <2>2, <3>1
  <2>5. PICK j \in C : j = b - 1
    BY <2>4
  <2>6. /\ Len(ss[b]) = 2
        /\ ss[b][1] = Program(q, Below(C, j), P.data[j])
        /\ ss[b][2] = Alter(q, {Below(C, j)}, "WRITTEN")
    BY <1>4, <2>5
  <2>7. m = 1 \/ m = 2
    <3>1. m \in 1 .. 2
      BY <2>2, <2>6
    <3> QED BY <3>1
  <2>8. j + 1 = b
    BY <1>3, <2>5
  <2>9. CASE m = 1
    <3>1. d[x] = Program(q, Below(C, j), P.data[j]) /\ x = off[j + 1] + 1
      BY <2>2, <2>3, <2>6, <2>8, <2>9
    <3> QED BY <3>1
  <2>10. CASE m = 2
    <3>1. d[x] = Alter(q, {Below(C, j)}, "WRITTEN")
      BY <2>3, <2>6, <2>10
    <3> QED BY <3>1
  <2> QED BY <2>7, <2>9, <2>10
\* ... and each entry that is copied is written.
<1>10. ASSUME NEW j \in C
       PROVE  \E x, y \in 1 .. Len(d) :
                 d[x] = Program(q, Below(C, j), P.data[j]) /\ d[y] = Alter(q, {Below(C, j)}, "WRITTEN")
  <2>1. PICK b \in 1 .. EntryCount : b - 1 = j
    <3>1. j + 1 \in 1 .. EntryCount /\ (j + 1) - 1 = j
      BY <1>3 DEF Entries
    <3> QED BY <3>1
  <2>2. /\ Len(ss[b]) = 2
        /\ ss[b][1] = Program(q, Below(C, j), P.data[j])
        /\ ss[b][2] = Alter(q, {Below(C, j)}, "WRITTEN")
    BY <1>4, <2>1
  <2>3. 1 \in 1 .. Len(ss[b]) /\ 2 \in 1 .. Len(ss[b])
    BY <2>2
  <2>4. /\ off[b] + 1 \in 1 .. Len(d) /\ d[off[b] + 1] = ss[b][1]
        /\ off[b] + 2 \in 1 .. Len(d) /\ d[off[b] + 2] = ss[b][2]
    BY <1>8, <2>3 DEF Blocks
  <2> QED BY <2>2, <2>4
<1>11. ASSUME NEW j \in C, NEW k \in C, Below(C, j) = Below(C, k) PROVE j = k
  <2>1. j \in Nat /\ k \in Nat /\ Below(C, j) \in Nat
    BY <1>3, BelowIs
  <2>2. /\ k < j => Below(C, k) < Below(C, j)
        /\ j < k => Below(C, j) < Below(C, k)
    BY <1>3, <2>1, BelowIs
  <2> QED BY <1>11, <2>1, <2>2
<1>12. ASSUME NEW i, NEW c, NEW D, NEW state
       PROVE  /\ Program(q, i, c).op = "program" /\ Program(q, i, c).entry = i
              /\ Program(q, i, c).content = c
              /\ Alter(q, D, state).op = "alter" /\ Alter(q, D, state).entries = D
              /\ Alter(q, D, state).state = state
  BY DEF Program, Alter
<1> DEFINE Programs(x, j) == d[x] = Program(q, Below(C, j), P.data[j]) /\ x = off[j + 1] + 1
           Marks(x, j) == d[x] = Alter(q, {Below(C, j)}, "WRITTEN")
<1>21. ASSUME NEW x \in 1 .. Len(d)
       PROVE  /\ d[x].op = "program" => \E j \in C : Programs(x, j)
              /\ d[x].op = "alter" => \E j \in C : Marks(x, j)
  <2>1. PICK j \in C : Programs(x, j) \/ Marks(x, j)
    BY <1>9
  <2>2. Programs(x, j) => d[x].op = "program"
    BY <1>12
  <2>3. Marks(x, j) => d[x].op = "alter"
    BY <1>12
  <2> HIDE DEF Programs, Marks
  <2>4. "alter" # "program"
    OBVIOUS
  <2> QED BY <2>1, <2>2, <2>3, <2>4
<1>13. ASSUME NEW x \in 1 .. Len(d), d[x].op = "program"
       PROVE  /\ d[x].entry \in Entries
              /\ Opened.data[d[x].entry] = Blank
              /\ F.data[d[x].entry] = d[x].content
              /\ \A y \in 1 .. Len(d) : y # x /\ d[y].op = "program" => d[y].entry # d[x].entry
  <2>1. PICK j \in C : d[x] = Program(q, Below(C, j), P.data[j]) /\ x = off[j + 1] + 1
    BY <1>13, <1>21
  <2>2. d[x].entry = Below(C, j) /\ d[x].content = P.data[j]
    BY <1>12, <2>1
  <2>3. d[x].entry \in Entries /\ F.data[d[x].entry] = d[x].content
    BY <1>2, <2>2
  <2>4. Opened.data[d[x].entry] = Blank
    BY <2>3, OpenedIs
  <2>5. ASSUME NEW y \in 1 .. Len(d), y # x, d[y].op = "program", d[y].entry = d[x].entry
        PROVE  FALSE
    <3>1. PICK k \in C : d[y] = Program(q, Below(C, k), P.data[k]) /\ y = off[k + 1] + 1
      BY <1>21, <2>5
    <3>2. d[y].entry = Below(C, k)
      BY <1>12, <3>1
    <3>3. j = k
      BY <1>11, <2>2, <2>5, <3>2
    <3> QED BY <2>1, <2>5, <3>1, <3>3
  <2> QED BY <2>3, <2>4, <2>5
<1>14. ASSUME NEW x \in 1 .. Len(d), d[x].op = "alter"
       PROVE  d[x].state = "WRITTEN" /\ \A j \in d[x].entries : F.table[j] = "WRITTEN"
  <2>1. PICK j \in C : d[x] = Alter(q, {Below(C, j)}, "WRITTEN")
    BY <1>14, <1>21
  <2>2. d[x].entries = {Below(C, j)} /\ d[x].state = "WRITTEN"
    BY <1>12, <2>1
  <2> QED BY <1>2, <2>2
<1>15. ASSUME NEW i \in Entries
       PROVE  /\ F.data[i] = Opened.data[i] \/ \E x \in 1 .. Len(d) : d[x].op = "program" /\ d[x].entry = i
              /\ F.table[i] = Opened.table[i]
                 \/ \E x \in 1 .. Len(d) : d[x].op = "alter" /\ i \in d[x].entries
  <2>1. CASE Taken(C, i)
    <3>1. PICK j \in C : Below(C, j) = i
      BY <2>1 DEF Taken
    <3>2. PICK x, y \in 1 .. Len(d) :
             d[x] = Program(q, i, P.data[j]) /\ d[y] = Alter(q, {i}, "WRITTEN")
      BY <1>10, <3>1
    <3>3. d[x].op = "program" /\ d[x].entry = i /\ d[y].op = "alter" /\ d[y].entries = {i}
      BY <1>12, <3>2
    <3> QED BY <3>3
  <2>2. CASE ~Taken(C, i)
    <3>1. F.table[i] = "EMPTY" /\ F.data[i] = Blank
      BY <1>2, <2>2
    <3> QED BY <3>1, OpenedIs
  <2> QED BY <2>1, <2>2
<1>16. Remaining(d, 0, Opened, F)
  <2>1. \A x \in 1 .. Len(d) : x > 0
    BY <1>7
  <2> QED BY <1>13, <1>14, <1>15, <2>1 DEF Remaining
<1>17. C = {} => d = <<>>
  <2> SUFFICES ASSUME C = {} PROVE d = <<>>
    OBVIOUS
  <2>1. \A x \in 1 .. Len(d) : FALSE
    BY <1>9
  <2>2. Len(d) = 0
    <3> SUFFICES ASSUME Len(d) # 0 PROVE FALSE
      OBVIOUS
    <3>1. 1 \in 1 .. Len(d)
      BY <1>7
    <3> QED BY <2>1, <3>1
  <2> QED BY <1>7, <2>2, EmptySeq
<1> QED BY <1>1, <1>6, <1>7, <1>16, <1>17 DEF ss

(* What is left does not depend on what came before it.                    *)
LEMMA RemainingBehind ==
    ASSUME NEW s, NEW d, NEW n \in Nat, NEW P, NEW F, Len(s) \in Nat, Len(d) \in Nat,
           \A y \in 1 .. Len(d) : n + y \in 1 .. Len(s) /\ s[n + y] = d[y],
           \A x \in 1 .. Len(s) : x > n /\ s[x].op \in {"program", "alter"} => x - n \in 1 .. Len(d),
           Remaining(d, 0, P, F)
    PROVE  Remaining(s, n, P, F)
<1>1. \A y \in 1 .. Len(d) : y > 0 /\ n + y > n /\ n + y \in 1 .. Len(s) /\ s[n + y] = d[y]
  OBVIOUS
<1>2. ASSUME NEW x \in 1 .. Len(s), x > n, s[x].op \in {"program", "alter"}
      PROVE  x - n \in 1 .. Len(d) /\ x - n > 0 /\ s[x] = d[x - n]
  <2>1. x - n \in 1 .. Len(d)
    BY <1>2
  <2>2. x - n > 0 /\ n + (x - n) = x
    BY <1>2
  <2> QED BY <1>1, <2>1, <2>2
<1>3. ASSUME NEW x \in 1 .. Len(s), x > n, s[x].op = "program"
      PROVE  /\ s[x].entry \in Entries
             /\ P.data[s[x].entry] = Blank
             /\ F.data[s[x].entry] = s[x].content
             /\ \A y \in 1 .. Len(s) : y > n /\ y # x /\ s[y].op = "program" => s[y].entry # s[x].entry
  <2>1. x - n \in 1 .. Len(d) /\ x - n > 0 /\ s[x] = d[x - n]
    BY <1>2, <1>3
  <2>2. /\ s[x].entry \in Entries
        /\ P.data[s[x].entry] = Blank
        /\ F.data[s[x].entry] = s[x].content
    BY <1>3, <2>1 DEF Remaining
  <2>3. ASSUME NEW y \in 1 .. Len(s), y > n, y # x, s[y].op = "program"
        PROVE  s[y].entry # s[x].entry
    <3>1. y - n \in 1 .. Len(d) /\ y - n > 0 /\ s[y] = d[y - n]
      BY <1>2, <2>3
    <3>2. y - n # x - n
      BY <2>3
    <3> QED BY <1>3, <2>1, <2>3, <3>1, <3>2 DEF Remaining
  <2> QED BY <2>2, <2>3
<1>4. ASSUME NEW x \in 1 .. Len(s), x > n, s[x].op = "alter"
      PROVE  s[x].state = "WRITTEN" /\ \A j \in s[x].entries : F.table[j] = "WRITTEN"
  <2>1. x - n \in 1 .. Len(d) /\ x - n > 0 /\ s[x] = d[x - n]
    BY <1>2, <1>4
  <2> QED BY <1>4, <2>1 DEF Remaining
<1>5. ASSUME NEW j \in Entries
      PROVE  F.data[j] = P.data[j] \/ \E x \in 1 .. Len(s) : x > n /\ s[x].op = "program" /\ s[x].entry = j
  <2>1. F.data[j] = P.data[j] \/ \E y \in 1 .. Len(d) : y > 0 /\ d[y].op = "program" /\ d[y].entry = j
    BY DEF Remaining
  <2> QED BY <1>1, <2>1
<1>6. ASSUME NEW j \in Entries
      PROVE  \/ F.table[j] = P.table[j]
             \/ \E x \in 1 .. Len(s) : x > n /\ s[x].op = "alter" /\ j \in s[x].entries
  <2>1. F.table[j] = P.table[j] \/ \E y \in 1 .. Len(d) : y > 0 /\ d[y].op = "alter" /\ j \in d[y].entries
    BY DEF Remaining
  <2> QED BY <1>1, <2>1
<1> QED BY <1>3, <1>4, <1>5, <1>6 DEF Remaining

(* ... nor on what the list was when it is one shorter.                    *)
LEMMA RemainingTail ==
    ASSUME NEW S, NEW s \in Seq(S), s # <<>>, NEW n \in Nat, NEW P, NEW F,
           Remaining(s, n + 1, P, F)
    PROVE  Remaining(Tail(s), n, P, F)
<1>1. PICK t : t = Tail(s)
  OBVIOUS
<1>2. /\ Len(t) = Len(s) - 1 /\ Len(s) \in Nat /\ Len(s) >= 1
      /\ \A x \in 1 .. Len(t) : t[x] = s[x + 1]
  BY <1>1
<1>3. ASSUME NEW x \in 1 .. Len(t), x > n
      PROVE  x + 1 \in 1 .. Len(s) /\ x + 1 > n + 1 /\ t[x] = s[x + 1]
  BY <1>2, <1>3
<1>4. ASSUME NEW x \in 1 .. Len(s), x > n + 1
      PROVE  \E y \in 1 .. Len(t) : y > n /\ x = y + 1 /\ s[x] = t[y]
  <2>1. x - 1 \in 1 .. Len(t) /\ x - 1 > n /\ x = (x - 1) + 1
    BY <1>2, <1>4
  <2> QED BY <1>2, <2>1
<1>5. ASSUME NEW x \in 1 .. Len(t), x > n, t[x].op = "program"
      PROVE  /\ t[x].entry \in Entries
             /\ P.data[t[x].entry] = Blank
             /\ F.data[t[x].entry] = t[x].content
             /\ \A y \in 1 .. Len(t) : y > n /\ y # x /\ t[y].op = "program" => t[y].entry # t[x].entry
  <2>1. x + 1 \in 1 .. Len(s) /\ x + 1 > n + 1 /\ t[x] = s[x + 1]
    BY <1>3, <1>5
  <2>2. /\ t[x].entry \in Entries
        /\ P.data[t[x].entry] = Blank
        /\ F.data[t[x].entry] = t[x].content
    BY <1>5, <2>1 DEF Remaining
  <2>3. ASSUME NEW y \in 1 .. Len(t), y > n, y # x, t[y].op = "program"
        PROVE  t[y].entry # t[x].entry
    <3>1. y + 1 \in 1 .. Len(s) /\ y + 1 > n + 1 /\ t[y] = s[y + 1]
      BY <1>3, <2>3
    <3>2. y + 1 # x + 1
      BY <2>3
    <3> QED BY <1>5, <2>1, <2>3, <3>1, <3>2 DEF Remaining
  <2> QED BY <2>2, <2>3
<1>6. ASSUME NEW x \in 1 .. Len(t), x > n, t[x].op = "alter"
      PROVE  t[x].state = "WRITTEN" /\ \A j \in t[x].entries : F.table[j] = "WRITTEN"
  <2>1. x + 1 \in 1 .. Len(s) /\ x + 1 > n + 1 /\ t[x] = s[x + 1]
    BY <1>3, <1>6
  <2> QED BY <1>6, <2>1 DEF Remaining
<1>7. ASSUME NEW j \in Entries
      PROVE  F.data[j] = P.data[j] \/ \E x \in 1 .. Len(t) : x > n /\ t[x].op = "program" /\ t[x].entry = j
  <2>1. F.data[j] = P.data[j] \/ \E x \in 1 .. Len(s) : x > n + 1 /\ s[x].op = "program" /\ s[x].entry = j
    BY DEF Remaining
  <2> QED BY <1>4, <2>1
<1>8. ASSUME NEW j \in Entries
      PROVE  \/ F.table[j] = P.table[j]
             \/ \E x \in 1 .. Len(t) : x > n /\ t[x].op = "alter" /\ j \in t[x].entries
  <2>1. \/ F.table[j] = P.table[j]
        \/ \E x \in 1 .. Len(s) : x > n + 1 /\ s[x].op = "alter" /\ j \in s[x].entries
    BY DEF Remaining
  <2> QED BY <1>4, <2>1
<1> QED BY <1>1, <1>5, <1>6, <1>7, <1>8 DEF Remaining

(* The first write is done.                                                *)
LEMMA RemainingNext ==
    ASSUME NEW S, NEW s \in Seq(S), s # <<>>, NEW P, NEW Q, NEW F, Remaining(s, 0, P, F),
           \/ s[1].op = "program" /\ ProgrammedIn(P, Q, s[1].entry, s[1].content)
           \/ s[1].op = "alter" /\ WrittenIn(P, Q, s[1].entries)
    PROVE  Remaining(Tail(s), 0, Q, F)
<1>1. Len(s) \in Nat /\ Len(s) >= 1 /\ 1 \in 1 .. Len(s) /\ 1 > 0
  OBVIOUS
<1>2. \A x \in 1 .. Len(s) : x > 0
  OBVIOUS
<1>3. \A x \in 1 .. Len(s) : x > 1 <=> x # 1
  OBVIOUS
<1>4. ASSUME NEW x \in 1 .. Len(s), x > 1, s[x].op = "program"
      PROVE  /\ s[x].entry \in Entries
             /\ Q.data[s[x].entry] = Blank
             /\ F.data[s[x].entry] = s[x].content
             /\ \A y \in 1 .. Len(s) : y > 1 /\ y # x /\ s[y].op = "program" => s[y].entry # s[x].entry
  <2>1. /\ s[x].entry \in Entries
        /\ P.data[s[x].entry] = Blank
        /\ F.data[s[x].entry] = s[x].content
        /\ \A y \in 1 .. Len(s) : y # x /\ s[y].op = "program" => s[y].entry # s[x].entry
    BY <1>2, <1>4 DEF Remaining
  <2>2. Q.data[s[x].entry] = Blank
    <3>1. CASE s[1].op = "program" /\ ProgrammedIn(P, Q, s[1].entry, s[1].content)
      <4>1. s[1].entry # s[x].entry
        BY <1>1, <1>3, <1>4, <2>1, <3>1
      <4> QED BY <2>1, <3>1, <4>1 DEF ProgrammedIn
    <3>2. CASE s[1].op = "alter" /\ WrittenIn(P, Q, s[1].entries)
      BY <2>1, <3>2 DEF WrittenIn
    <3> QED BY <3>1, <3>2
  <2> QED BY <2>1, <2>2
<1>5. ASSUME NEW x \in 1 .. Len(s), x > 1, s[x].op = "alter"
      PROVE  s[x].state = "WRITTEN" /\ \A j \in s[x].entries : F.table[j] = "WRITTEN"
  BY <1>2, <1>5 DEF Remaining
<1>6. ASSUME NEW j \in Entries
      PROVE  F.data[j] = Q.data[j] \/ \E x \in 1 .. Len(s) : x > 1 /\ s[x].op = "program" /\ s[x].entry = j
  <2>1. F.data[j] = P.data[j] \/ \E x \in 1 .. Len(s) : s[x].op = "program" /\ s[x].entry = j
    BY DEF Remaining
  <2>2. CASE s[1].op = "program" /\ ProgrammedIn(P, Q, s[1].entry, s[1].content)
    <3>1. CASE j = s[1].entry
      <4>1. F.data[j] = s[1].content
        BY <1>1, <2>2, <3>1 DEF Remaining
      <4>2. Q.data[j] = s[1].content
        BY <2>2, <3>1 DEF ProgrammedIn
      <4> QED BY <4>1, <4>2
    <3>2. CASE j # s[1].entry
      <4>1. Q.data[j] = P.data[j]
        BY <2>2, <3>2 DEF ProgrammedIn
      <4> QED BY <1>3, <2>1, <3>2, <4>1
    <3> QED BY <3>1, <3>2
  <2>3. CASE s[1].op = "alter" /\ WrittenIn(P, Q, s[1].entries)
    <3>1. Q.data[j] = P.data[j]
      BY <2>3 DEF WrittenIn
    <3>2. s[1].op # "program"
      BY <2>3
    <3> QED BY <1>3, <2>1, <3>1, <3>2
  <2> QED BY <2>2, <2>3
<1>7. ASSUME NEW j \in Entries
      PROVE  \/ F.table[j] = Q.table[j]
             \/ \E x \in 1 .. Len(s) : x > 1 /\ s[x].op = "alter" /\ j \in s[x].entries
  <2>1. F.table[j] = P.table[j] \/ \E x \in 1 .. Len(s) : s[x].op = "alter" /\ j \in s[x].entries
    BY DEF Remaining
  <2>2. CASE s[1].op = "program" /\ ProgrammedIn(P, Q, s[1].entry, s[1].content)
    <3>1. Q.table[j] = P.table[j]
      BY <2>2 DEF ProgrammedIn
    <3>2. s[1].op # "alter"
      BY <2>2
    <3> QED BY <1>3, <2>1, <3>1, <3>2
  <2>3. CASE s[1].op = "alter" /\ WrittenIn(P, Q, s[1].entries)
    <3>1. CASE j \in s[1].entries
      <4>1. F.table[j] = "WRITTEN"
        BY <1>1, <2>3, <3>1 DEF Remaining
      <4>2. Q.table[j] = "WRITTEN"
        BY <2>3, <3>1 DEF WrittenIn
      <4> QED BY <4>1, <4>2
    <3>2. CASE j \notin s[1].entries
      <4>1. Q.table[j] = P.table[j]
        BY <2>3, <3>2 DEF WrittenIn
      <4> QED BY <1>3, <2>1, <3>2, <4>1
    <3> QED BY <3>1, <3>2
  <2> QED BY <2>2, <2>3
<1>8. Remaining(s, 0 + 1, Q, F)
  <2>1. Remaining(s, 1, Q, F)
    BY <1>4, <1>5, <1>6, <1>7 DEF Remaining
  <2>2. 0 + 1 = 1
    OBVIOUS
  <2> QED BY <2>1, <2>2
<1>9. 0 \in Nat
  OBVIOUS
<1> QED BY <1>8, <1>9, RemainingTail

(* Pages that have the same table and entries are equally sound, if not    *)
(* only the second is open for writing.                                    *)
LEMMA SameSound ==
    ASSUME NEW P, NEW Q, Q.state = "ACTIVE" => P.state = "ACTIVE",
           \A j \in Entries : Q.table[j] = P.table[j] /\ Q.data[j] = P.data[j], Sound(P)
    PROVE  Sound(Q)
<1>1. Headed(Q) = Headed(P)
  BY DEF Headed
<1>2. \A h \in Headed(P) : LastOf(Q, h) = LastOf(P, h)
  <2> TAKE h \in Headed(P)
  <2>1. Q.data[h] = P.data[h]
    BY DEF Headed
  <2> QED BY <2>1, SameLast
<1>3. Apart(Q)
  BY <1>1, <1>2 DEF Sound, Shape, Apart
<1>4. \A h \in Headed(P) : \A j \in Entries : InSpan(Q, h, j) <=> InSpan(P, h, j)
  BY <1>2 DEF InSpan
<1>5. Owned(Q)
  BY <1>1, <1>4 DEF Sound, Shape, Owned
<1>6. Complete(Q)
  BY <1>1, <1>4 DEF Sound, Complete
<1>7. Q.state = "ACTIVE" => Clean(Q)
  BY DEF Sound, Clean, Exposed
<1> QED BY <1>3, <1>5, <1>6, <1>7 DEF Sound, Shape

(* When no write is left, the page is what it was to become.               *)
LEMMA RemainingOver ==
    ASSUME NEW s, NEW P, NEW F, Remaining(s, 0, P, F), Sound(F), F.state = P.state,
           \A x \in 1 .. Len(s) : s[x].op = "erase"
    PROVE  Sound(P)
<1>1. \A j \in Entries : P.table[j] = F.table[j] /\ P.data[j] = F.data[j]
  BY DEF Remaining
<1> QED BY <1>1, SameSound

(* The sequence r is a, of length n, and then b, of length m.              *)
Joins(r, a, b, n, m) ==
    /\ r \in Seq(Ops) /\ Len(r) = n + m
    /\ \A x \in 1 .. n + m : r[x] = IF x <= n THEN a[x] ELSE b[x - n]

LEMMA JoinsIs ==
    ASSUME NEW a, NEW b, NEW n, NEW m
    PROVE  a \in Seq(Ops) /\ b \in Seq(Ops) /\ n = Len(a) /\ m = Len(b) => Joins(a \o b, a, b, n, m)
<1> SUFFICES ASSUME a \in Seq(Ops), b \in Seq(Ops), n = Len(a), m = Len(b)
             PROVE  Joins(a \o b, a, b, n, m)
  OBVIOUS
<1> QED BY ConcatProperties DEF Joins

(* The headers of a page are among what is copied.                         *)
LEMMA HeadedCopied ==
    ASSUME NEW P \in PageType, Sound(P), Copied(P) = {}
    PROVE  Headed(P) = {}
<1> SUFFICES ASSUME NEW h \in Headed(P) PROVE FALSE
  OBVIOUS
<1>1. h \in Entries /\ h \in Nat /\ h <= LastOf(P, h)
  BY EntriesAreNat, LastOfType DEF Headed
<1>2. InSpan(P, h, h)
  BY <1>1 DEF InSpan
<1> QED BY <1>1, <1>2, CopiedIs

(* The list moves page v to page q, which is P: it fills q with what is    *)
(* copied and erases v.                                                    *)
Refills(s, q, P, v) ==
    /\ CopiesTo(s, q, P, CopyOf(flash[v]))
    /\ s # <<>> /\ s[Len(s)] = Erase(v)
    /\ Headed(flash[v]) = {} \/ \E m \in 1 .. Len(s) : s[m] = Header(q)

LEMMA RefillsMoves ==
    ASSUME FlashType, NEW v \in Pages, Sound(flash[v]), NEW s, NEW q, NEW P, Refills(s, q, P, v)
    PROVE  Moves(s, q, P)
<1>1. PICK V, F : V = flash[v] /\ F = CopyOf(V)
  OBVIOUS
<1>2. F \in PageType
  BY <1>1, CopyOfIs DEF FlashType
<1>3. CopiesTo(s, q, P, F) /\ s[Len(s)] = Erase(v)
  BY <1>1 DEF Refills
<1> QED BY <1>2, <1>3 DEF Moves, Erase

(* The items of page v are copied to page q and v is erased, after some    *)
(* pages are erased or marked.                                             *)
LEMMA MovesBehind ==
    ASSUME FlashType, NEW v \in Pages, NEW q \in Pages, Sound(flash[v]),
           NEW pre \in Seq(Ops), \A x \in 1 .. Len(pre) : pre[x].op \in {"erase", "state"},
           NEW P, P.state = "ACTIVE" => pre # <<>> /\ pre[1] = Erase(q)
    PROVE  Refills((pre \o CopyItems(v, q)) \o <<Erase(v)>>, q, P, v)
<1>1. PICK V, C, F, d : /\ V = flash[v] /\ C = Copied(V) /\ F = CopyOf(V)
                        /\ d = FlattenSeq(EntryCopies(q, V, C))
  OBVIOUS
<1>2. V \in PageType /\ Sound(V)
  BY <1>1 DEF FlashType
<1>3. /\ d \in Seq(Data({q})) /\ (C = {} => d = <<>>) /\ Remaining(d, 0, Opened, F)
  BY <1>1, <1>2, CopyBlocks
<1>4. F \in PageType /\ F.state = "ACTIVE" /\ Sound(F)
  BY <1>1, <1>2, CopyOfIs, CopyIsSound
<1>5. CopyItems(v, q) = (IF C = {} THEN <<>> ELSE <<Header(q)>>) \o d
  <2>1. C = {j \in Entries : \E i \in Visited(flash[v]) : j \in i .. LastOf(flash[v], i)}
    BY <1>1 DEF Copied
  <2>2. EntryCopies(q, V, C) =
           [n \in 1 .. EntryCount |->
              IF n - 1 \in C
              THEN WriteEntry(q, Cardinality({k \in C : k < n - 1}), flash[v].data[n - 1])
              ELSE <<>>]
    BY <1>1 DEF Below, EntryCopies
  <2> QED BY <1>1, <2>1, <2>2, Zenon DEF CopyItems
<1>6. PICK e : e = <<Erase(v)>>
  OBVIOUS
<1>7. /\ e \in Seq(Ops) /\ Len(e) = 1 /\ e[1] = Erase(v) /\ Erase(v).op = "erase"
      /\ Header(q).op = "header" /\ d \in Seq(Ops) /\ Header(q) \in Ops /\ pre \in Seq(Ops)
  <2>1. Erase(v) \in Ops /\ Header(q) \in Ops
    BY OpTypes
  <2>2. e \in Seq(Ops) /\ Len(e) = 1 /\ e[1] = Erase(v)
    BY <1>6, <2>1
  <2>3. Erase(v).op = "erase" /\ Header(q).op = "header"
    BY DEF Erase, Header
  <2>4. d \in Seq(Ops)
    BY <1>3, DataAreOps
  <2> QED BY <2>1, <2>2, <2>3, <2>4
<1>8. PICK n \in Nat : n = Len(pre)
  BY LenProperties
\* Nothing is copied.
<1>9. CASE C = {}
  <2>1. CopyItems(v, q) = <<>>
    <3>1. CopyItems(v, q) = <<>> \o d
      BY <1>5, <1>9
    <3>2. d = <<>>
      BY <1>3, <1>9
    <3> QED BY <3>1, <3>2
  <2>2. pre \o CopyItems(v, q) = pre
    BY <2>1, ConcatEmptySeq
  <2>3. PICK L : L = pre \o e
    OBVIOUS
  <2>4. /\ L \in Seq(Ops) /\ Len(L) = n + 1
        /\ \A x \in 1 .. n + 1 : L[x] = IF x <= n THEN pre[x] ELSE e[x - n]
    <3>1. Joins(pre \o e, pre, e, n, 1)
      BY ONLY <1>7, <1>8, JoinsIs
    <3> QED BY ONLY <2>3, <3>1 DEF Joins
  <2>5. \A x \in 1 .. Len(L) : L[x].op \in {"erase", "state"}
    <3> TAKE x \in 1 .. Len(L)
    <3>1. CASE x <= n
      <4>1. x \in 1 .. Len(pre) /\ x \in 1 .. n + 1
        BY <1>8, <2>4, <3>1
      <4> QED BY <2>4, <3>1, <4>1
    <3>2. CASE ~(x <= n)
      <4>1. x \in 1 .. n + 1 /\ x - n = 1
        BY <2>4, <3>2
      <4>2. L[x] = e[x - n]
        BY <2>4, <3>2, <4>1
      <4> QED BY <1>7, <4>1, <4>2
    <3> QED BY <3>1, <3>2
  <2>6. L[Len(L)] = Erase(v) /\ L # <<>>
    <3>1. n + 1 \in 1 .. n + 1 /\ ~(n + 1 <= n) /\ (n + 1) - n = 1
      OBVIOUS
    <3>2. L[n + 1] = e[(n + 1) - n]
      BY <2>4, <3>1
    <3>3. Len(L) # 0
      BY <2>4
    <3> QED BY <1>7, <2>4, <3>1, <3>2, <3>3, EmptySeq
  <2>7. P.state = "ACTIVE" => L[1] = Erase(q)
    <3> SUFFICES ASSUME P.state = "ACTIVE" PROVE L[1] = Erase(q)
      OBVIOUS
    <3>1. n # 0
      BY <1>8, EmptySeq
    <3>2. 1 \in 1 .. n + 1 /\ 1 <= n
      BY <3>1
    <3> QED BY <2>4, <3>2
  <2>8. CopiesTo(L, q, P, F)
    <3>1. \A m \in 1 .. Len(L) : L[m] # Header(q)
      BY <1>7, <2>5
    <3> QED BY <1>4, <2>7, <3>1 DEF CopiesTo
  <2>9. Refills(L, q, P, v)
    <3>1. Headed(V) = {}
      BY <1>1, <1>2, <1>9, HeadedCopied
    <3> QED BY <1>1, <2>6, <2>8, <3>1 DEF Refills
  <2> QED BY <1>6, <2>2, <2>3, <2>9
\* The header of the new page is written, and the entries follow.
<1>10. CASE C # {}
  <2>1. PICK c, l, L : c = <<Header(q)>> \o d /\ l = pre \o c /\ L = l \o e
    OBVIOUS
  <2>2. PICK M \in Nat : M = Len(d)
    BY <1>3, LenProperties
  <2>3. /\ c \in Seq(Ops) /\ Len(c) = M + 1 /\ c[1] = Header(q)
        /\ \A y \in 1 .. M : c[y + 1] = d[y]
    <3>1. c \in Seq(Ops) /\ c # <<>> /\ Head(c) = Header(q) /\ Tail(c) = d
      BY <1>7, <2>1, ConsProperties
    <3>2. Len(d) = Len(c) - 1 /\ \A y \in 1 .. Len(d) : d[y] = c[y + 1]
      BY <3>1, HeadTailProperties
    <3>3. Len(c) \in Nat
      BY <3>1, LenProperties
    <3>4. Head(c) = c[1]
      BY <3>1
    <3> QED BY <2>2, <3>1, <3>2, <3>3, <3>4
  <2>4. /\ l \in Seq(Ops) /\ Len(l) = n + (M + 1)
        /\ \A x \in 1 .. n + (M + 1) : l[x] = IF x <= n THEN pre[x] ELSE c[x - n]
    <3>1. Joins(pre \o c, pre, c, n, M + 1)
      BY ONLY <1>7, <1>8, <2>3, JoinsIs
    <3> QED BY ONLY <2>1, <3>1 DEF Joins
  <2>5. /\ L \in Seq(Ops) /\ Len(L) = n + M + 2
        /\ \A x \in 1 .. n + M + 2 : L[x] = IF x <= n + M + 1 THEN l[x] ELSE e[x - (n + M + 1)]
    <3>1. /\ n + M + 1 \in Nat /\ n + M + 1 = n + (M + 1) /\ 1 \in Nat
          /\ n + M + 2 = (n + M + 1) + 1
      OBVIOUS
    <3>2. n + M + 1 = Len(l) /\ 1 = Len(e)
      BY <1>7, <2>4, <3>1
    <3>3. PICK w \in Nat : w = n + M + 1
      BY <3>1
    <3>4. w = Len(l)
      BY <3>2, <3>3
    <3>5. Joins(l \o e, l, e, w, 1)
      BY ONLY <1>7, <2>4, <3>4, JoinsIs
    <3>6. /\ L \in Seq(Ops) /\ Len(L) = w + 1
          /\ \A x \in 1 .. w + 1 : L[x] = IF x <= w THEN l[x] ELSE e[x - w]
      BY ONLY <2>1, <3>5 DEF Joins
    <3> QED BY ONLY <3>1, <3>3, <3>6
  <2>6. ASSUME NEW x \in 1 .. n + M + 2
        PROVE  \/ x <= n /\ x \in 1 .. n /\ L[x] = pre[x]
               \/ x = n + 1 /\ L[x] = Header(q)
               \/ x > n + 1 /\ x - (n + 1) \in 1 .. M /\ L[x] = d[x - (n + 1)]
               \/ x = n + M + 2 /\ L[x] = Erase(v)
    <3>1. CASE x <= n
      <4>1. x \in 1 .. n + (M + 1) /\ x <= n + M + 1 /\ x \in 1 .. n
        BY <3>1
      <4> QED BY <2>4, <2>5, <3>1, <4>1
    <3>2. CASE x = n + 1
      <4>1. x \in 1 .. n + (M + 1) /\ x <= n + M + 1 /\ ~(x <= n) /\ x - n = 1
        BY <3>2
      <4>2. L[x] = l[x]
        BY <2>5, <4>1
      <4>3. l[x] = c[x - n]
        BY <2>4, <4>1
      <4> QED BY <2>3, <3>2, <4>1, <4>2, <4>3
    <3>3. CASE x > n + 1 /\ x <= n + M + 1
      <4>1. x \in 1 .. n + (M + 1) /\ ~(x <= n)
        BY <3>3
      <4>2. L[x] = l[x]
        BY <2>5, <3>3
      <4>3. l[x] = c[x - n]
        BY <2>4, <4>1
      <4>4. x - (n + 1) \in 1 .. M /\ (x - (n + 1)) + 1 = x - n
        BY <3>3
      <4>5. c[x - n] = d[x - (n + 1)]
        BY <2>3, <4>4
      <4> QED BY <3>3, <4>2, <4>3, <4>4, <4>5
    <3>4. CASE x > n + M + 1
      <4>1. x = n + M + 2 /\ ~(x <= n + M + 1) /\ x - (n + M + 1) = 1
        BY <3>4
      <4>2. L[x] = e[x - (n + M + 1)]
        BY <2>5, <4>1
      <4> QED BY <1>7, <4>1, <4>2
    <3> QED BY <3>1, <3>2, <3>3, <3>4
  <2>7. \A y \in 1 .. M : d[y].op \in {"program", "alter"}
    <3> TAKE y \in 1 .. M
    <3>1. d[y] \in Data({q})
      BY <1>3, <2>2
    <3> QED BY <3>1 DEF Data
  <2>8. ASSUME NEW m \in 1 .. n + M + 2, L[m] = Header(q) PROVE m = n + 1
    <3>1. CASE m \in 1 .. n /\ L[m] = pre[m]
      BY <1>7, <1>8, <2>8, <3>1
    <3>2. CASE m - (n + 1) \in 1 .. M /\ L[m] = d[m - (n + 1)]
      <4>1. L[m].op \in {"program", "alter"}
        BY <2>7, <3>2
      <4> QED BY <1>7, <2>8, <4>1
    <3>3. CASE L[m] = Erase(v)
      <4>1. Header(q) # Erase(v)
        BY <1>7
      <4> QED BY <2>8, <3>3, <4>1
    <3> QED BY <2>6, <3>1, <3>2, <3>3
  <2>9. Remaining(L, n + 1, Opened, F)
    <3>1. \A y \in 1 .. M : (n + 1) + y \in 1 .. n + M + 2 /\ L[(n + 1) + y] = d[y]
      <4> TAKE y \in 1 .. M
      <4>1. PICK x : x = (n + 1) + y
        OBVIOUS
      <4>2. x \in 1 .. n + M + 2 /\ ~(x <= n) /\ x # n + 1 /\ x # n + M + 2 /\ x - (n + 1) = y
        BY <4>1
      <4>3. L[x] = d[x - (n + 1)]
        BY <2>6, <4>2
      <4> QED BY <4>1, <4>2, <4>3
    <3>2. ASSUME NEW x \in 1 .. n + M + 2, x > n + 1, L[x].op \in {"program", "alter"}
          PROVE  x - (n + 1) \in 1 .. M
      <4>1. L[x] # Erase(v)
        BY <1>7, <3>2
      <4>2. ~(x <= n) /\ x # n + 1
        BY <3>2
      <4> QED BY <2>6, <4>1, <4>2
    <3>3. n + 1 \in Nat /\ Len(L) \in Nat /\ Len(L) = n + M + 2
      BY <2>5
    <3> QED BY <1>3, <2>2, <3>1, <3>2, <3>3, RemainingBehind
  <2>10. L[Len(L)] = Erase(v) /\ L # <<>>
    <3>1. PICK x : x = n + M + 2
      OBVIOUS
    <3>2. x \in 1 .. n + M + 2 /\ ~(x <= n) /\ x # n + 1 /\ x - (n + 1) \notin 1 .. M
      BY <3>1
    <3>3. L[x] = Erase(v)
      BY <2>6, <3>2
    <3>4. Len(L) # 0
      BY <2>5
    <3> QED BY <1>7, <2>5, <3>1, <3>3, <3>4, EmptySeq
  <2>11. P.state = "ACTIVE" => L[1] = Erase(q)
    <3> SUFFICES ASSUME P.state = "ACTIVE" PROVE L[1] = Erase(q)
      OBVIOUS
    <3>1. n # 0
      BY <1>8, EmptySeq
    <3>2. 1 \in 1 .. n + M + 2 /\ 1 <= n
      BY <3>1
    <3>3. 1 # n + 1 /\ ~(1 > n + 1) /\ 1 # n + M + 2
      BY <3>1
    <3> QED BY <2>6, <3>2, <3>3
  <2>12. CopiesTo(L, q, P, F)
    <3>1. \A m \in 1 .. Len(L) : L[m] = Header(q) => Remaining(L, m, Opened, F)
      BY <2>5, <2>8, <2>9
    <3> QED BY <1>4, <2>11, <3>1 DEF CopiesTo
  <2>13. Refills(L, q, P, v)
    <3>1. n + 1 \in 1 .. Len(L) /\ L[n + 1] = Header(q)
      <4>1. PICK x : x = n + 1
        OBVIOUS
      <4>2. x \in 1 .. n + M + 2 /\ ~(x <= n) /\ ~(x > n + 1) /\ x # n + M + 2
        BY <4>1
      <4> QED BY <2>5, <2>6, <4>1, <4>2
    <3> QED BY <1>1, <2>10, <2>12, <3>1 DEF Refills
  <2>14. CopyItems(v, q) = c
    BY <1>5, <1>10, <2>1
  <2> QED BY <1>6, <2>1, <2>13, <2>14
<1> QED BY <1>9, <1>10

(* A list of at most one operation that erases a page.                     *)
LEMMA ErasesOne ==
    ASSUME NEW s, NEW p \in Pages, s = <<>> \/ s = <<Erase(p)>>
    PROVE  /\ s \in Seq(Ops)
           /\ \A x \in 1 .. Len(s) : s[x] = Erase(p) /\ s[x].op = "erase"
           /\ s # <<>> => Len(s) = 1 /\ s[1] = Erase(p)
<1>1. Erase(p) \in Ops /\ Erase(p).op = "erase"
  BY OpTypes DEF Erase
<1>2. CASE s = <<>>
  <2>1. <<>> \in Seq(Ops) /\ \A x \in 1 .. Len(<<>>) : FALSE
    OBVIOUS
  <2> QED BY <1>2, <2>1
<1>3. CASE s = <<Erase(p)>>
  <2>1. PICK e : e = Erase(p)
    OBVIOUS
  <2>2. <<e>> \in Seq(Ops) /\ Len(<<e>>) = 1 /\ <<e>>[1] = e /\ \A x \in 1 .. Len(<<e>>) : x = 1
    BY <1>1, <2>1
  <2> QED BY <1>1, <1>3, <2>1, <2>2
<1> QED BY <1>2, <1>3

(* What requestNewPage and a start leave to do is a move, or prepares the  *)
(* current page.                                                           *)
LEMMA MovesEither ==
    ASSUME PagesInv, Settled, NEW s, NEW q, NEW P,
           \/ s = <<>> \/ s = <<Erase(q)>>
           \/ \E v \in Kept : Refills(s, q, P, v)
    PROVE  Moves(s, q, P)
<1>1. FlashType /\ \A v \in Kept : v \in Pages /\ Sound(flash[v])
  BY DEF PagesInv, Settled, Kept, Live
<1> QED BY <1>1, IdleMoves, RefillsMoves

(* The rest of a move begun before the power failed.                       *)
LEMMA FreedMoves ==
    ASSUME FlashType, NEW v \in Pages, NEW q \in Pages, NEW target \in Pages, Sound(flash[v]),
           NEW redo \in BOOLEAN, q = target \/ State(q) # "ACTIVE",
           q = target /\ ~redo => State(q) # "ACTIVE",
           FreesTodo(v, q, target, redo)
    PROVE  Refills(todo', q, flash[q], v)
<1>1. PICK a : a = (IF redo THEN <<Erase(target)>> ELSE <<>>)
  OBVIOUS
<1>2. PICK b : b = (IF q = target THEN <<>> ELSE Activate(q))
  OBVIOUS
<1>3. a = <<>> \/ a = <<Erase(target)>>
  BY <1>1
<1>4. b = <<>> \/ b = <<Erase(q)>>
  BY <1>2 DEF Activate
<1>5. /\ a \in Seq(Ops) /\ b \in Seq(Ops)
      /\ \A x \in 1 .. Len(a) : a[x].op = "erase"
      /\ \A x \in 1 .. Len(b) : b[x].op = "erase"
  BY <1>3, <1>4, ErasesOne
<1>6. State(q) = "ACTIVE" => a # <<>> /\ Len(a) = 1 /\ a[1] = Erase(q)
  <2> SUFFICES ASSUME State(q) = "ACTIVE" PROVE a # <<>> /\ Len(a) = 1 /\ a[1] = Erase(q)
    OBVIOUS
  <2>1. q = target /\ redo
    OBVIOUS
  <2>2. a = <<Erase(q)>>
    BY <1>1, <2>1
  <2>3. a # <<>>
    <3>1. Len(<<Erase(q)>>) = 1 /\ Len(<<>>) = 0
      OBVIOUS
    <3> QED BY <2>2, <3>1
  <2> QED BY <2>2, <2>3, ErasesOne
<1>7. PICK n \in Nat, m \in Nat : n = Len(a) /\ m = Len(b)
  BY <1>5, LenProperties
<1>8. PICK pre : pre = a \o b
  OBVIOUS
<1>9. Joins(pre, a, b, n, m)
  BY ONLY <1>5, <1>7, <1>8, JoinsIs
<1>10. /\ pre \in Seq(Ops) /\ Len(pre) = n + m
       /\ \A x \in 1 .. n + m : pre[x] = IF x <= n THEN a[x] ELSE b[x - n]
  BY <1>9 DEF Joins
<1>11. \A x \in 1 .. Len(pre) : pre[x].op \in {"erase", "state"}
  <2> SUFFICES ASSUME NEW x \in 1 .. n + m PROVE pre[x].op \in {"erase", "state"}
    BY <1>10
  <2>1. CASE x <= n
    BY <1>5, <1>7, <1>10, <2>1
  <2>2. CASE ~(x <= n)
    <3>1. x - n \in 1 .. m
      BY <2>2
    <3> QED BY <1>5, <1>7, <1>10, <2>2, <3>1
  <2> QED BY <2>1, <2>2
<1>12. flash[q].state = "ACTIVE" => pre # <<>> /\ pre[1] = Erase(q)
  <2> SUFFICES ASSUME State(q) = "ACTIVE" PROVE pre # <<>> /\ pre[1] = Erase(q)
    BY DEF State
  <2>1. n = 1 /\ a[1] = Erase(q) /\ 1 \in 1 .. n + m
    BY <1>6, <1>7
  <2>2. pre[1] = Erase(q) /\ Len(pre) # 0
    BY <1>10, <2>1
  <2> QED BY <1>10, <2>2, EmptySeq
<1>13. todo' = (pre \o CopyItems(v, q)) \o <<Erase(v)>>
  BY <1>1, <1>2, <1>8, Zenon DEF FreesTodo
<1> QED BY <1>10, <1>11, <1>12, <1>13, MovesBehind

(* nvs_flash_init frees the page again that was being freed.               *)
LEMMA FinishFreeingTodo ==
    ASSUME PagesInv, DataInv, FinishFreeing
    PROVE  /\ phase' = "ready" /\ Settled /\ UNCHANGED disk
           /\ \/ todo' = <<>>
              \/ \E v \in Kept : Refills(todo', Back', flash[Back'], v)
<1> DEFINE freeing == {p \in Range(pageList) : flash[p].state = "FREEING"}
           v       == First(pageList, freeing)
           target  == Last(pageList)
           redo    == flash[target].state = "ACTIVE"
           kept    == IF redo THEN Front(pageList) ELSE pageList
           free    == IF redo THEN Append(freeList, target) ELSE freeList
           q       == Head(free)
<1>1. phase = "freeing" /\ todo = <<>> /\ UNCHANGED <<disk, call, findPage, reply>>
  BY DEF FinishFreeing
<1>2. UNCHANGED disk
  BY <1>1
<1>3. Settled
  <2>1. Erasing(<<>>) /\ \A p \in Kept : Steady(flash[p])
    BY <1>1 DEF DataInv
  <2> QED BY <2>1, ErasingNothing
<1>4. phase' # "failed"
  BY FinishFreeingStep DEF PagesInv, RamType, UpPhases
<1>5. /\ pageList \in Seq(Pages) /\ Range(pageList) = Live /\ FlashType
  BY <1>1 DEF PagesInv, Phases, RamType, Headers
<1>6. \A p : p \in freeing => p \in Live /\ State(p) = "FREEING"
  BY <1>5 DEF State
<1>7. redo <=> State(target) = "ACTIVE"
  BY DEF State
<1>8. CASE freeing = {} \/ free = <<>>
  <2>1. phase' \in {"ready", "failed"} /\ todo' = <<>>
    BY <1>1, <1>8 DEF FinishFreeing
  <2> HIDE DEF freeing, free
  <2> QED BY <1>2, <1>3, <1>4, <2>1
<1>9. CASE ~(freeing = {} \/ free = <<>>)
  <2>1. /\ pageList' = Without(Append(kept, q), v) /\ freeList' = Append(Tail(free), v)
        /\ todo' = (IF redo THEN <<Erase(target)>> ELSE <<>>)
                   \o (IF q = target THEN <<>> ELSE Activate(q))
                   \o CopyItems(v, q) \o <<Erase(v)>>
        /\ phase' = "ready"
    BY <1>9 DEF FinishFreeing
  <2>2. v \in Live /\ State(v) = "FREEING"
    <3>1. freeing \subseteq Range(pageList) /\ freeing # {}
      BY <1>9
    <3> HIDE DEF freeing
    <3>2. v \in freeing
      BY <1>5, <3>1, FoundIsThere
    <3> QED BY <1>6, <3>2
  <2>3. /\ kept = (IF redo THEN Front(pageList) ELSE pageList)
        /\ free = (IF redo THEN Append(freeList, target) ELSE freeList)
        /\ q = Head(free) /\ target = Last(pageList) /\ redo \in BOOLEAN /\ free # <<>>
    BY <1>9
  <2> HIDE DEF freeing, v, target, redo, kept, free, q
  <2>4. \E v0, target0, redo0, kept0, free0, q0 :
           v0 = v /\ target0 = target /\ redo0 = redo /\ kept0 = kept /\ free0 = free /\ q0 = q
    OBVIOUS
  <2>5. PICK v0, target0, redo0, kept0, free0, q0 :
           v0 = v /\ target0 = target /\ redo0 = redo /\ kept0 = kept /\ free0 = free /\ q0 = q
    BY <2>4
  <2>6. /\ pageList' = Without(Append(kept0, q0), v0) /\ freeList' = Append(Tail(free0), v0)
        /\ FreesTodo(v0, q0, target0, redo0)
    BY <2>1, <2>5, Zenon DEF FreesTodo
  <2>7. /\ kept0 = (IF redo0 THEN Front(pageList) ELSE pageList)
        /\ free0 = (IF redo0 THEN Append(freeList, target0) ELSE freeList)
        /\ q0 = Head(free0) /\ target0 = Last(pageList) /\ free0 # <<>>
        /\ v0 \in Live /\ State(v0) = "FREEING" /\ redo0 \in BOOLEAN
    BY <2>2, <2>3, <2>5
  <2>8. redo0 <=> State(target0) = "ACTIVE"
    BY <1>7, <2>5
  <2>9. FreesTo(v0, q0, target0, redo0, kept0, free0)
    BY <2>6, <2>7, <2>8, Zenon DEF FreesTo
  <2>10. FreedTo(v0, q0, target0, redo0, free0)
    BY <1>1, <2>7, <2>9, FreeLists
  <2>11. /\ target0 \in Live /\ v0 \in Pages /\ q0 \in Range(free0) /\ q0 \in Pages
         /\ Range(free0) = (IF redo0 THEN (Pages \ Live) \cup {target0} ELSE Pages \ Live)
         /\ Back' = q0
    BY <2>10, Zenon DEF FreedTo
  <2>12. target0 \in Pages /\ (q0 = target0 \/ State(q0) # "ACTIVE")
         /\ (q0 = target0 /\ ~redo0 => State(q0) # "ACTIVE")
    <3>1. q0 \notin Live => State(q0) # "ACTIVE"
      BY <2>11 DEF Live, Loaded
    <3>2. target0 \in Pages
      BY <2>11 DEF Live
    <3>3. ~redo0 => State(target0) # "ACTIVE"
      BY <2>8
    <3>4. q0 \notin Live \/ q0 = target0
      BY <2>7, <2>11
    <3> QED BY <3>1, <3>2, <3>3, <3>4
  <2>13. v0 \in Kept /\ Sound(flash[v0])
    <3>1. v0 \in Kept
      BY <2>7 DEF Kept
    <3> QED BY <1>3, <3>1 DEF Settled
  <2>14. Refills(todo', q0, flash[q0], v0)
    BY <1>5, <2>6, <2>7, <2>11, <2>12, <2>13, FreedMoves
  <2> QED BY <1>2, <1>3, <2>1, <2>11, <2>13, <2>14
<1> QED BY <1>8, <1>9

LEMMA FinishFreeingData == PagesInv /\ DataInv /\ FinishFreeing => DataInv'
<1> SUFFICES ASSUME PagesInv, DataInv, FinishFreeing PROVE DataInv'
  OBVIOUS
<1>1. /\ phase' = "ready" /\ Settled /\ UNCHANGED disk
      /\ todo' = <<>> \/ \E v \in Kept : Refills(todo', Back', flash[Back'], v)
  BY FinishFreeingTodo
<1>2. Settled' /\ (\A p \in Kept : Steady(flash[p]))'
  BY <1>1, StillSettled
<1>3. Moves(todo', Back', flash[Back'])
  BY <1>1, MovesEither
<1>4. Moves(todo, Back, flash[Back])'
  BY <1>1, <1>3 DEF disk
<1> QED BY <1>1, <1>2, <1>4 DEF DataInv

(* Storage::writeItem asks for a page: it is opened, and when it was the   *)
(* last free one the page that gains most is to be moved there.            *)
LEMMA RequestNewPageTodo ==
    ASSUME PagesInv, DataInv, RequestNewPage
    PROVE  /\ UNCHANGED disk /\ Settled
           /\ \/ phase' = "error" /\ todo' = <<>>
              \/ phase' = "again" /\ (todo' = <<>> \/ (todo' = <<Erase(Back')>> /\ State(Back') = "CORRUPT"))
              \/ phase' = "again" /\ \E v \in Kept : Refills(todo', Back', flash[Back'], v)
<1>1. phase = "request" /\ todo = <<>> /\ UNCHANGED <<disk, call, findPage, reply>>
  BY DEF RequestNewPage
<1>2. FlashType /\ Headers /\ RamType /\ Lists /\ Plain /\ State(Back) = "FULL" /\ UNCHANGED disk
  BY <1>1, IdleIsPlain DEF PagesInv, UpPhases
<1>3. Settled
  BY <1>1 DEF DataInv
<1>4. Settled /\ UNCHANGED disk
  BY <1>2, <1>3
<1>5. PICK q, v, a : q = Head(freeList) /\ v = Victim /\ a = Activate(q)
  OBVIOUS
<1>6. /\ pageList \in Seq(Pages) /\ freeList \in Seq(Pages) /\ pageList # <<>> /\ freeList # <<>>
      /\ Injective(pageList) /\ Injective(freeList)
      /\ Range(pageList) \cap Range(freeList) = {} /\ Range(pageList) \cup Range(freeList) = Pages
  BY <1>2 DEF RamType, Lists
<1>7. q \in Range(freeList) /\ q \in Pages /\ q \notin Range(pageList)
  BY <1>5, <1>6, RangeMembers
<1>8. v \in Range(pageList) /\ v \in Pages
  BY <1>5, <1>6, VictimIsThere
<1>9. \A p \in Range(pageList) : State(p) = "FULL"
  BY <1>2 DEF Lists
<1>10. State(q) \in {"UNINITIALIZED", "CORRUPT"}
  BY <1>2, <1>7 DEF Plain, Unused
<1>11. a = <<>> \/ (a = <<Erase(q)>> /\ State(q) = "CORRUPT")
  BY <1>5 DEF Activate, State
<1>12. \/ phase' = "error" /\ todo' = <<>>
       \/ /\ TwoFree /\ pageList' = Append(pageList, q)
          /\ todo' = a /\ phase' = "again"
       \/ /\ ~ TwoFree /\ pageList' = Without(Append(pageList, q), v) /\ freeList' = <<v>>
          /\ todo' = a \o <<PageState(v, "FREEING")>> \o CopyItems(v, q) \o <<Erase(v)>>
          /\ phase' = "again"
  BY <1>1, <1>5 DEF RequestNewPage
<1>13. CASE phase' = "error" /\ todo' = <<>>
  BY <1>4, <1>13
<1>14. CASE /\ TwoFree /\ pageList' = Append(pageList, q)
            /\ todo' = a /\ phase' = "again"
  <2>1. Back' = q
    <3>1. Last(Append(pageList, q)) = q
      BY <1>6, <1>7, AppendRange
    <3> QED BY <1>14, <3>1 DEF Back
  <2> QED BY <1>4, <1>11, <1>14, <2>1
<1>15. CASE /\ ~ TwoFree /\ pageList' = Without(Append(pageList, q), v) /\ freeList' = <<v>>
            /\ todo' = a \o <<PageState(v, "FREEING")>> \o CopyItems(v, q) \o <<Erase(v)>>
            /\ phase' = "again"
  <2>1. Back' = q
    <3>1. /\ Append(pageList, q) \in Seq(Pages) /\ Append(pageList, q) # <<>>
          /\ Injective(Append(pageList, q)) /\ Last(Append(pageList, q)) = q
      BY <1>6, <1>7, AppendRange
    <3>2. v # q
      BY <1>7, <1>8
    <3>3. PICK s : s = Append(pageList, q)
      OBVIOUS
    <3>4. Last(Without(s, v)) = q
      BY <3>1, <3>2, <3>3, WithoutRange
    <3> QED BY <1>15, <3>3, <3>4 DEF Back
  <2>2. v \in Kept /\ Sound(flash[v])
    <3>1. v \in Kept
      BY <1>8, <1>9, <1>2, LiveStates DEF Kept
    <3> QED BY <1>3, <3>1 DEF Settled
  <2>3. PICK b : b = <<PageState(v, "FREEING")>>
    OBVIOUS
  <2>4. /\ b \in Seq(Ops) /\ Len(b) = 1 /\ b[1].op = "state"
        /\ a \in Seq(Ops) /\ \A x \in 1 .. Len(a) : a[x].op = "erase"
    <3>1. PICK o : o = PageState(v, "FREEING")
      OBVIOUS
    <3>2. o \in Ops /\ o.op = "state"
      BY <1>8, <3>1, OpTypes DEF PageState
    <3>3. <<o>> \in Seq(Ops) /\ Len(<<o>>) = 1 /\ <<o>>[1] = o
      BY <3>2
    <3>4. a \in Seq(Ops) /\ \A x \in 1 .. Len(a) : a[x].op = "erase"
      BY <1>7, <1>11, ErasesOne
    <3> QED BY <2>3, <3>1, <3>2, <3>3, <3>4
  <2>5. PICK n \in Nat : n = Len(a)
    BY <2>4, LenProperties
  <2>6. PICK pre : pre = a \o b
    OBVIOUS
  <2>7. Joins(pre, a, b, n, 1)
    BY ONLY <2>4, <2>5, <2>6, JoinsIs
  <2>8. /\ pre \in Seq(Ops) /\ Len(pre) = n + 1
        /\ \A x \in 1 .. n + 1 : pre[x] = IF x <= n THEN a[x] ELSE b[x - n]
    BY <2>7 DEF Joins
  <2>9. \A x \in 1 .. Len(pre) : pre[x].op \in {"erase", "state"}
    <3> SUFFICES ASSUME NEW x \in 1 .. n + 1 PROVE pre[x].op \in {"erase", "state"}
      BY <2>8
    <3>1. CASE x <= n
      BY <2>4, <2>5, <2>8, <3>1
    <3>2. CASE ~(x <= n)
      <4>1. x - n = 1
        BY <3>2
      <4> QED BY <2>4, <2>8, <3>2, <4>1
    <3> QED BY <3>1, <3>2
  <2>10. flash[q].state # "ACTIVE"
    BY <1>10 DEF State
  <2>11. todo' = (pre \o CopyItems(v, q)) \o <<Erase(v)>>
    BY <1>15, <2>3, <2>6, Zenon
  <2>12. Refills(todo', q, flash[q], v)
    BY <1>2, <1>7, <1>8, <2>2, <2>8, <2>9, <2>10, <2>11, MovesBehind
  <2> QED BY <1>4, <1>15, <2>1, <2>2, <2>12
<1> QED BY <1>12, <1>13, <1>14, <1>15

LEMMA RequestNewPageData == PagesInv /\ DataInv /\ RequestNewPage => DataInv'
<1> SUFFICES ASSUME PagesInv, DataInv, RequestNewPage PROVE DataInv'
  OBVIOUS
<1>1. /\ UNCHANGED disk /\ Settled
      /\ \/ phase' = "error" /\ todo' = <<>>
         \/ /\ phase' = "again"
            /\ \/ todo' = <<>> \/ todo' = <<Erase(Back')>>
               \/ \E v \in Kept : Refills(todo', Back', flash[Back'], v)
  BY RequestNewPageTodo
<1>2. Settled' /\ (\A p \in Kept : Steady(flash[p]))'
  BY <1>1, StillSettled
<1>3. phase' = "again" => Moves(todo', Back', flash[Back'])
  BY <1>1, MovesEither
<1>4. phase' = "again" => Moves(todo, Back, flash[Back])'
  BY <1>1, <1>3 DEF disk
<1> QED BY <1>1, <1>2, <1>4 DEF DataInv

-----------------------------------------------------------------------------
(* The operations of flash one by one.                                     *)

(* What the operations on entries do to their page.                        *)
Changed(o, P, Q) ==
    /\ o.op = "program" => ProgrammedIn(P, Q, o.entry, o.content)
    /\ o.op = "alter" /\ o.state = "WRITTEN" => WrittenIn(P, Q, o.entries)
    /\ o.op = "alter" /\ o.state = "ERASED" => ErasedIn(P, Q, o.entries)

LEMMA DoWrites ==
    ASSUME FlashType, NEW o \in Data(Pages), Perform(o)
    PROVE  /\ o.page \in Pages /\ Changed(o, flash[o.page], flash'[o.page])
           /\ \A p \in Pages : p # o.page => flash'[p] = flash[p]
<1>1. o.page \in Pages /\ o.op \in {"program", "alter"}
  BY DEF Data
<1>2. PICK p, P, Q : p = o.page /\ P = flash[p] /\ Q = NewPage(o)
  OBVIOUS
<1>3. flash' = [flash EXCEPT ![p] = Q] /\ flash \in [Pages -> PageType]
  BY <1>2 DEF Perform, FlashBecomes, FlashType
<1>4. P \in PageType
  BY <1>1, <1>2, <1>3
<1>5. flash'[p] = Q /\ \A r \in Pages : r # p => flash'[r] = flash[r]
  BY <1>1, <1>2, <1>3
<1>6. ASSUME o.op = "program" PROVE ProgrammedIn(P, Q, o.entry, o.content)
  <2>1. Q = [P EXCEPT !.data[o.entry] = o.content]
    BY <1>2, <1>6 DEF NewPage
  <2>2. /\ Q.state = P.state /\ Q.table = P.table
        /\ Q.data = [P.data EXCEPT ![o.entry] = o.content] /\ P.data \in [Entries -> Contents]
    BY <1>4, <2>1 DEF PageType
  <2> QED BY <2>2 DEF ProgrammedIn
<1>7. ASSUME o.op = "alter"
      PROVE  /\ Q.state = P.state
             /\ \A j \in Entries : /\ Q.table[j] = IF j \in o.entries THEN o.state ELSE P.table[j]
                                   /\ Q.data[j] = IF j \in o.entries /\ o.state = "ERASED"
                                                  THEN Spoiled(P.data[j]) ELSE P.data[j]
  <2> DEFINE table == [i \in Entries |-> IF i \in o.entries THEN o.state ELSE P.table[i]]
             data  == [i \in Entries |-> IF i \in o.entries /\ o.state = "ERASED"
                                         THEN Spoiled(P.data[i]) ELSE P.data[i]]
  <2>1. Q = [P EXCEPT !.table = table, !.data = data]
    BY <1>2, <1>7 DEF NewPage
  <2>2. /\ \A j \in Entries : table[j] = IF j \in o.entries THEN o.state ELSE P.table[j]
        /\ \A j \in Entries : data[j] = IF j \in o.entries /\ o.state = "ERASED"
                                        THEN Spoiled(P.data[j]) ELSE P.data[j]
    OBVIOUS
  <2> HIDE DEF table, data
  <2>3. Q.state = P.state /\ Q.table = table /\ Q.data = data
    BY <1>4, <2>1 DEF PageType
  <2> QED BY <2>2, <2>3
<1>8. o.op = "alter" /\ o.state = "WRITTEN" => WrittenIn(P, Q, o.entries)
  BY <1>7 DEF WrittenIn
<1>9. o.op = "alter" /\ o.state = "ERASED" => ErasedIn(P, Q, o.entries)
  BY <1>7 DEF ErasedIn
<1>10. Changed(o, P, Q)
  BY <1>6, <1>8, <1>9 DEF Changed
<1> QED BY <1>1, <1>2, <1>5, <1>10

(* A program that is cut off.                                              *)
LEMMA TornWrites ==
    ASSUME FlashType, NEW p \in Pages, NEW i, NEW c,
           flash' = [flash EXCEPT ![p].data[i] = Spoiled(c)]
    PROVE  /\ ProgrammedIn(flash[p], flash'[p], i, Spoiled(c))
           /\ \A r \in Pages : r # p => flash'[r] = flash[r]
<1>1. PICK P : P = flash[p]
  OBVIOUS
<1>2. P \in PageType
  BY <1>1 DEF FlashType
<1>3. flash'[p] = [P EXCEPT !.data[i] = Spoiled(c)] /\ \A r \in Pages : r # p => flash'[r] = flash[r]
  BY <1>1 DEF FlashType
<1>4. PICK Q : Q = flash'[p]
  OBVIOUS
<1>5. /\ Q.state = P.state /\ Q.table = P.table
      /\ Q.data = [P.data EXCEPT ![i] = Spoiled(c)] /\ P.data \in [Entries -> Contents]
  BY <1>2, <1>3, <1>4 DEF PageType
<1>6. ProgrammedIn(P, Q, i, Spoiled(c))
  BY <1>5 DEF ProgrammedIn
<1> QED BY <1>1, <1>3, <1>4, <1>6

(* A page that is kept after a step on another page was kept before.       *)
LEMMA KeptBefore ==
    ASSUME NEW r, \A q \in Pages : q # r => flash'[q] = flash[q],
           NEW p \in Kept', p # r, State(p) = "ACTIVE" => State(r) # "FREEING"
    PROVE  p \in Kept /\ p \in Pages /\ flash'[p] = flash[p]
<1>1. p \in Pages /\ flash'[p].state \in Loaded
  BY DEF Kept, Live, State
<1>2. flash'[p] = flash[p]
  BY <1>1
<1>3. p \in Live
  BY <1>1, <1>2 DEF Live, State
<1>4. ASSUME State(p) = "ACTIVE", NEW q \in Pages PROVE State(q) # "FREEING"
  <2>1. flash'[q].state # "FREEING"
    BY <1>2, <1>4 DEF Kept, State
  <2>2. CASE q = r
    BY <1>4, <2>2
  <2>3. CASE q # r
    BY <2>1, <2>3 DEF State
  <2> QED BY <2>2, <2>3
<1> QED BY <1>1, <1>2, <1>3, <1>4 DEF Kept

(* The pages that are kept depend on the states of all pages.              *)
LEMMA KeptStates ==
    ASSUME \A q \in Pages : State(q)' = State(q)
    PROVE  Kept' = Kept
<1>1. Live' = Live
  BY DEF Live
<1>2. \A p \in Live : p \in Pages
  BY DEF Live
<1> QED BY <1>1, <1>2 DEF Kept

(* A move without its first operation still ends with an erase, and what   *)
(* follows a header stays the same.                                        *)
LEMMA MovesLater ==
    ASSUME NEW S, NEW s \in Seq(S), s # <<>>, NEW q, NEW P, NEW F,
           s[Len(s)].op = "erase", CopiesTo(s, q, P, F), NEW t, t = Tail(s)
    PROVE  /\ t # <<>> => t[Len(t)].op = "erase"
           /\ \A m \in 1 .. Len(t) : t[m] = Header(q) => Remaining(t, m, Opened, F)
<1>1. /\ t \in Seq(S) /\ Len(t) = Len(s) - 1 /\ Len(s) \in Nat /\ Len(s) >= 1 /\ Len(t) \in Nat
      /\ \A x \in 1 .. Len(t) : t[x] = s[x + 1]
  OBVIOUS
<1>2. t # <<>> => t[Len(t)].op = "erase"
  <2> SUFFICES ASSUME t # <<>> PROVE t[Len(t)].op = "erase"
    OBVIOUS
  <2>1. Len(t) # 0
    BY <1>1, EmptySeq
  <2>2. Len(t) \in 1 .. Len(t) /\ Len(t) + 1 = Len(s)
    BY <1>1, <2>1
  <2>3. t[Len(t)] = s[Len(s)]
    BY <1>1, <2>2
  <2> QED BY <2>3
<1>3. ASSUME NEW m \in 1 .. Len(t), t[m] = Header(q) PROVE Remaining(t, m, Opened, F)
  <2>1. m + 1 \in 1 .. Len(s) /\ s[m + 1] = Header(q) /\ m \in Nat
    BY <1>1, <1>3
  <2>2. Remaining(s, m + 1, Opened, F)
    BY <2>1 DEF CopiesTo
  <2> QED BY <2>1, <2>2, RemainingTail
<1> QED BY <1>2, <1>3

(* What is left of a move when the first operation is done: ... one that   *)
(* leaves the page q closed, ...                                           *)
LEMMA CopiesTail ==
    ASSUME NEW S, NEW s \in Seq(S), s # <<>>, NEW q, NEW P, NEW Q, NEW F,
           s[Len(s)].op = "erase", CopiesTo(s, q, P, F), Q.state # "ACTIVE"
    PROVE  CopiesTo(Tail(s), q, Q, F)
<1>1. PICK t : t = Tail(s)
  OBVIOUS
<1>2. \A m \in 1 .. Len(t) : t[m] = Header(q) => Remaining(t, m, Opened, F)
  BY <1>1, MovesLater
<1>3. CopiesTo(t, q, Q, F)
  BY <1>2 DEF CopiesTo
<1> QED BY <1>1, <1>3

(* ... the header of q, ...                                                *)
LEMMA CopiesOpened ==
    ASSUME NEW S, NEW s \in Seq(S), s # <<>>, NEW q, NEW P, NEW F,
           s[Len(s)].op = "erase", CopiesTo(s, q, P, F), s[1] = Header(q)
    PROVE  CopiesTo(Tail(s), q, Opened, F)
<1>1. PICK t : t = Tail(s)
  OBVIOUS
<1>2. \A m \in 1 .. Len(t) : t[m] = Header(q) => Remaining(t, m, Opened, F)
  BY <1>1, MovesLater
<1>3. Remaining(t, 0, Opened, F)
  <2>1. 1 \in 1 .. Len(s) /\ 0 + 1 = 1 /\ 0 \in Nat
    BY EmptySeq
  <2>2. Remaining(s, 0 + 1, Opened, F)
    BY <2>1 DEF CopiesTo
  <2> QED BY <1>1, <2>1, <2>2, RemainingTail
<1>4. CopiesTo(t, q, Opened, F)
  BY <1>2, <1>3 DEF CopiesTo
<1> QED BY <1>1, <1>4

(* ... or a write into q.                                                  *)
LEMMA CopiesWrite ==
    ASSUME NEW S, NEW s \in Seq(S), s # <<>>, NEW q, NEW P, NEW Q, NEW F,
           s[Len(s)].op = "erase", CopiesTo(s, q, P, F),
           P.state = "ACTIVE", s[1].op \in {"program", "alter"}, Changed(s[1], P, Q)
    PROVE  CopiesTo(Tail(s), q, Q, F)
<1>1. PICK t : t = Tail(s)
  OBVIOUS
<1>2. \A m \in 1 .. Len(t) : t[m] = Header(q) => Remaining(t, m, Opened, F)
  BY <1>1, MovesLater
<1>3. Remaining(s, 0, P, F)
  <2>1. s[1] # Erase(q)
    BY DEF Erase
  <2> QED BY <2>1 DEF CopiesTo
<1>4. s[1].op = "alter" => s[1].state = "WRITTEN"
  <2>1. 1 \in 1 .. Len(s) /\ 1 > 0
    BY EmptySeq
  <2> QED BY <1>3, <2>1 DEF Remaining
<1>5. \/ s[1].op = "program" /\ ProgrammedIn(P, Q, s[1].entry, s[1].content)
      \/ s[1].op = "alter" /\ WrittenIn(P, Q, s[1].entries)
  BY <1>4 DEF Changed
<1>6. Remaining(t, 0, Q, F)
  BY <1>1, <1>3, <1>5, RemainingNext
<1>7. CopiesTo(t, q, Q, F)
  BY <1>2, <1>6 DEF CopiesTo
<1> QED BY <1>1, <1>7

(* So that a move stays one.                                               *)
LEMMA MovesOn ==
    ASSUME NEW S, NEW s \in Seq(S), s # <<>>, NEW q, NEW P, NEW Q, Moves(s, q, P),
           \A F \in PageType : CopiesTo(s, q, P, F) => CopiesTo(Tail(s), q, Q, F)
    PROVE  Moves(Tail(s), q, Q)
<1>1. PICK t : t = Tail(s)
  OBVIOUS
<1>2. PICK F \in PageType : CopiesTo(s, q, P, F)
  BY DEF Moves
<1>3. s[Len(s)].op = "erase"
  BY DEF Moves
<1>4. t # <<>> => t[Len(t)].op = "erase"
  BY <1>1, <1>2, <1>3, MovesLater
<1> QED BY <1>1, <1>2, <1>4 DEF Moves

LEMMA MovesTail ==
    ASSUME NEW S, NEW s \in Seq(S), s # <<>>, NEW q, NEW P, NEW Q,
           Moves(s, q, P), Q.state # "ACTIVE"
    PROVE  Moves(Tail(s), q, Q)
<1>1. s[Len(s)].op = "erase"
  BY DEF Moves
<1> QED BY <1>1, CopiesTail, MovesOn

LEMMA MovesOpened ==
    ASSUME NEW S, NEW s \in Seq(S), s # <<>>, NEW q, NEW P,
           Moves(s, q, P), s[1] = Header(q)
    PROVE  Moves(Tail(s), q, Opened)
<1>1. s[Len(s)].op = "erase"
  BY DEF Moves
<1> QED BY <1>1, CopiesOpened, MovesOn

LEMMA MovesWrite ==
    ASSUME NEW S, NEW s \in Seq(S), s # <<>>, NEW q, NEW P, NEW Q,
           Moves(s, q, P), P.state = "ACTIVE", s[1].op \in {"program", "alter"},
           Changed(s[1], P, Q)
    PROVE  Moves(Tail(s), q, Q)
<1>1. s[Len(s)].op = "erase"
  BY DEF Moves
<1> QED BY <1>1, CopiesWrite, MovesOn

(* When only the page v is left to be erased, q holds whole items.         *)
LEMMA MovesOver ==
    ASSUME NEW q, NEW v, v # q, NEW s, s = <<Erase(v)>>, NEW P, P.state = "ACTIVE", Moves(s, q, P)
    PROVE  Sound(P)
<1>1. PICK F \in PageType : CopiesTo(s, q, P, F)
  BY DEF Moves
<1>2. s[1] = Erase(v) /\ s # <<>> /\ \A x \in 1 .. Len(s) : s[x] = Erase(v)
  OBVIOUS
<1>3. Erase(v) # Erase(q) /\ Erase(v).op = "erase"
  <2>1. Erase(v).page = v /\ Erase(q).page = q /\ Erase(v).op = "erase"
    BY DEF Erase
  <2> QED BY <2>1
<1>4. Remaining(s, 0, P, F) /\ Sound(F) /\ F.state = P.state
  BY <1>1, <1>2, <1>3 DEF CopiesTo
<1>5. \A x \in 1 .. Len(s) : s[x].op = "erase"
  BY <1>2, <1>3
<1> QED BY <1>4, <1>5, RemainingOver

(* The next operation of a move: it marks the page v, erases a page that   *)
(* holds nothing, opens the current page, fills it or erases v.            *)
Marks(v) == /\ Head(todo) = PageState(v, "FREEING") /\ v \in Pages /\ v # Back
            /\ State(v) = "FULL" /\ \A p \in Pages : State(p) # "ACTIVE"
Wipes(r) == /\ Head(todo) = Erase(r) /\ r \in Pages /\ State(r) # "FREEING"
            /\ r = Back \/ State(Back) # "ACTIVE"
            /\ r \notin Kept
Opens(v) == /\ Head(todo) = Header(Back) /\ v \in Pages /\ v # Back
            /\ State(v) = "FREEING" /\ State(Back) = "UNINITIALIZED"
            /\ Copying(Tail(todo), v, Back)
Fills(v) == /\ Head(todo) \in Data({Back}) /\ v \in Pages /\ v # Back
            /\ State(v) = "FREEING" /\ State(Back) = "ACTIVE"
            /\ Copying(todo, v, Back)
Frees(v) == /\ todo = <<Erase(v)>> /\ v \in Pages /\ v # Back /\ State(v) = "FREEING"
            /\ \A p \in Pages : State(p) = "ACTIVE" => p = Back

LEMMA MoveHead ==
    ASSUME PagesInv, phase \in {"ready", "again"}, todo # <<>>, todo[Len(todo)].op = "erase"
    PROVE  \E p \in Pages : Marks(p) \/ Wipes(p) \/ Opens(p) \/ Fills(p) \/ Frees(p)
<1>1. FlashType /\ RamType /\ Headers /\ Lists /\ (Plain \/ Wiping \/ Moving)
  BY DEF PagesInv, Phases, UpPhases
<1>2. ~ Plain
  <2> SUFFICES ASSUME Plain PROVE FALSE
    OBVIOUS
  <2>1. todo \in Seq(Data(Live)) /\ todo \in Seq(Ops)
    BY <1>1 DEF Plain, RamType
  <2>2. Len(todo) \in 1 .. Len(todo)
    BY <2>1, EmptySeq, LenProperties
  <2>3. todo[Len(todo)] \in Data(Live)
    BY <2>1, <2>2
  <2> QED BY <2>3 DEF Data
<1>3. /\ Back \in Pages
      /\ \A r : State(r) = "CORRUPT" => r \notin Kept
      /\ \A r : \A v \in Pages : State(r) = "ACTIVE" /\ State(v) = "FREEING" => r \notin Kept
  <2>1. Back \in Pages
    BY <1>1, BackIsPage
  <2>2. \A r : State(r) = "CORRUPT" => r \notin Kept
    BY DEF Kept, Live, Loaded
  <2>3. \A r : \A v \in Pages : State(r) = "ACTIVE" /\ State(v) = "FREEING" => r \notin Kept
    BY DEF Kept
  <2> QED BY <2>1, <2>2, <2>3
<1>4. CASE Wiping
  <2>1. todo = <<Erase(Back)>> /\ State(Back) = "CORRUPT"
    BY <1>4 DEF Wiping
  <2>2. Head(todo) = Erase(Back)
    BY <2>1
  <2>3. Wipes(Back)
    BY <1>3, <2>1, <2>2 DEF Wipes
  <2> QED BY <1>3, <2>3
<1>5. CASE Moving
  <2>1. PICK v \in Range(freeList) : Marking(v) \/ Freeing(v) \/ Redoing(v)
    BY <1>5 DEF Moving
  <2>2. /\ v \in Pages /\ v # Back
        /\ Range(freeList) \subseteq Pages /\ Range(pageList) \cup Range(freeList) = Pages
        /\ \A p \in Range(pageList) : p = Back \/ State(p) = "FULL"
    BY <1>1, MovedPage
  <2>3. CASE Marking(v)
    <3>1. \/ State(Back) = "UNINITIALIZED" /\ Head(todo) = PageState(v, "FREEING")
          \/ State(Back) = "CORRUPT" /\ Head(todo) = Erase(Back)
      BY <2>3 DEF Marking
    <3>2. State(v) = "FULL" /\ Unused(Range(freeList) \ {v})
      BY <2>3 DEF Marking
    <3>3. State(Back) # "ACTIVE"
      BY <3>1
    <3>4. \A p \in Pages : State(p) # "ACTIVE"
      BY <2>2, <3>2, <3>3 DEF Unused
    <3>5. Marks(v) \/ Wipes(Back)
      BY <1>3, <2>2, <3>1, <3>2, <3>4 DEF Marks, Wipes
    <3> QED BY <1>3, <2>2, <3>5
  <2>4. CASE Freeing(v)
    <3>1. /\ State(v) = "FREEING" /\ Unused(Range(freeList) \ {v})
          /\ \/ Cleaned(todo, v)
             \/ State(Back) = "ACTIVE" /\ Copying(todo, v, Back)
      BY <2>4 DEF Freeing
    <3>2. \A p \in Pages : State(p) = "ACTIVE" => p = Back
      BY <2>2, <3>1 DEF Unused
    <3>3. todo = <<Erase(v)>> => Frees(v)
      BY <2>2, <3>1, <3>2 DEF Frees
    <3>4. ASSUME State(Back) = "UNINITIALIZED", Fresh(todo, v, Back) PROVE Opens(v) \/ Frees(v)
      BY <2>2, <3>1, <3>3, <3>4 DEF Fresh, Opens
    <3>5. ASSUME State(Back) \in {"CORRUPT", "ACTIVE"}, Head(todo) = Erase(Back) PROVE Wipes(Back)
      BY <1>3, <2>2, <3>1, <3>5 DEF Wipes
    <3>6. ASSUME State(Back) = "ACTIVE", Copying(todo, v, Back) PROVE Fills(v) \/ Frees(v)
      <4>1. todo = <<Erase(v)>> \/ Head(todo) \in Data({Back})
        BY <1>3, <2>2, <3>6, CopyingStep
      <4> QED BY <2>2, <3>1, <3>3, <3>6, <4>1 DEF Fills
    <3>7. Cleaned(todo, v) => Opens(v) \/ Frees(v) \/ Wipes(Back)
      BY <3>4, <3>5 DEF Cleaned
    <3> QED BY <1>3, <2>2, <3>1, <3>6, <3>7
  <2>5. CASE Redoing(v)
    <3>1. PICK t \in Range(freeList) : State(t) = "ACTIVE" /\ Head(todo) = Erase(t)
      BY <2>5 DEF Redoing
    <3>2. State(Back) # "ACTIVE"
      BY <2>5 DEF Redoing
    <3>3. Wipes(t)
      <4>1. State(v) = "FREEING" /\ t \in Pages
        BY <2>2, <2>5 DEF Redoing
      <4> QED BY <1>3, <2>2, <3>1, <3>2, <4>1 DEF Wipes
    <3> QED BY <2>2, <3>1, <3>3
  <2> QED BY <2>1, <2>3, <2>4, <2>5
<1> QED BY <1>1, <1>2, <1>4, <1>5

(* A step of a move: every page that is kept is whole afterwards.          *)
LEMMA MoveData ==
    ASSUME PagesInv, PagesInv', DataInv, DoFlash, phase \in {"ready", "again"}
    PROVE  DataInv'
<1>1. /\ todo # <<>> /\ todo' = Tail(todo) /\ Perform(Head(todo)) /\ phase' = phase
      /\ pageList' = pageList /\ Back' = Back
  BY DEF DoFlash, ram, Back
<1>2. /\ FlashType /\ todo \in Seq(Ops) /\ Lists /\ RamType /\ FlashType'
  BY DEF PagesInv, Phases, RamType, UpPhases
<1>3. Back \in Pages
  BY <1>2, BackIsPage
<1>4. Settled /\ Moves(todo, Back, flash[Back])
  BY DEF DataInv
<1>5. todo[Len(todo)].op = "erase" /\ todo[1] = Head(todo)
  BY <1>1, <1>4 DEF Moves
<1>6. PICK v \in Pages : Marks(v) \/ Wipes(v) \/ Opens(v) \/ Fills(v) \/ Frees(v)
  BY <1>1, <1>5, MoveHead
<1>7. SUFFICES Settled' /\ Moves(todo', Back, flash'[Back])
  <2>1. ASSUME Settled', Moves(todo', Back, flash'[Back]) PROVE DataInv'
    <3>1. (\A p \in Kept : Steady(flash[p]))'
      <4>1. Settled => \A p \in Kept : Steady(flash[p])
        BY ErasingNothing
      <4>2. Settled' => (\A p \in Kept : Steady(flash[p]))'
        BY ErasingDone DEF Settled
      <4> QED BY <2>1, <4>2
    <3>2. Moves(todo, Back, flash[Back])'
      BY <1>1, <2>1
    <3> QED BY <1>1, <2>1, <3>1, <3>2 DEF DataInv
  <2> QED BY <2>1
<1>8. \A p \in Kept : Sound(flash[p])
  BY <1>4 DEF Settled
<1>9. ASSUME flash'[Back].state # "ACTIVE" PROVE Moves(todo', Back, flash'[Back])
  BY <1>1, <1>2, <1>4, <1>9, MovesTail
\* The victim is marked.
<1>10. CASE Marks(v)
  <2>1. flash' = [flash EXCEPT ![v] = [@ EXCEPT !.state = "FREEING"]]
    BY <1>1, <1>10, PerformIs DEF Marks
  <2>2. PICK P : P = flash[v]
    OBVIOUS
  <2>3. P \in PageType /\ P.state = "FULL" /\ v \in Kept
    BY <1>2, <1>10, <2>2, LiveStates DEF FlashType, Marks, State, Kept
  <2>4. flash'[v] = [P EXCEPT !.state = "FREEING"] /\ \A q \in Pages : q # v => flash'[q] = flash[q]
    BY <1>2, <2>1, <2>2 DEF FlashType
  <2>5. PICK Q : Q = flash'[v]
    OBVIOUS
  <2>6. Q.state = "FREEING" /\ Q.table = P.table /\ Q.data = P.data
    BY <2>3, <2>4, <2>5 DEF PageType
  <2>7. Sound(Q)
    <3>1. Sound(P)
      BY <1>8, <2>2, <2>3
    <3>2. \A j \in Entries : Q.table[j] = P.table[j] /\ Q.data[j] = P.data[j]
      BY <2>6
    <3>3. Q.state = "ACTIVE" => P.state = "ACTIVE"
      BY <2>6
    <3> QED BY <3>1, <3>2, <3>3, SameSound
  <2>8. ASSUME NEW p \in Kept', p # v PROVE Sound(flash'[p])
    <3>1. \A q : q \in Pages /\ q # v => flash'[q] = flash[q]
      BY <2>4
    <3>2. State(v) # "FREEING"
      BY <1>10 DEF Marks
    <3>3. p \in Kept /\ flash'[p] = flash[p]
      BY <2>8, <3>1, <3>2, KeptBefore
    <3> QED BY <1>8, <3>3
  <2>9. Settled'
    BY <2>5, <2>7, <2>8 DEF Settled
  <2>10. flash'[Back].state # "ACTIVE"
    BY <1>3, <1>10, <2>4 DEF Marks, State
  <2> QED BY <1>9, <2>9, <2>10
\* A page that holds nothing is erased.
<1>11. CASE Wipes(v)
  <2>1. flash' = [flash EXCEPT ![v] = ErasedPage]
    BY <1>1, <1>11, PerformIs DEF Wipes
  <2>2. flash'[v] = ErasedPage /\ \A q \in Pages : q # v => flash'[q] = flash[q]
    BY <1>2, <2>1 DEF FlashType
  <2>3. v \notin Kept'
    BY <2>2, ErasedType DEF Kept, Live, State, Loaded
  <2>4. ASSUME NEW p \in Kept' PROVE Sound(flash'[p])
    <3>1. \A q : q \in Pages /\ q # v => flash'[q] = flash[q]
      BY <2>2
    <3>2. State(v) # "FREEING" /\ p # v
      BY <1>11, <2>3, <2>4 DEF Wipes
    <3>3. p \in Kept /\ flash'[p] = flash[p]
      BY <2>4, <3>1, <3>2, KeptBefore
    <3> QED BY <1>8, <3>3
  <2>5. Settled'
    BY <2>4 DEF Settled
  <2>6. flash'[Back].state # "ACTIVE"
    <3>1. CASE Back = v
      BY <2>2, <3>1, ErasedType
    <3>2. CASE Back # v
      BY <1>3, <1>11, <2>2, <3>2 DEF Wipes, State
    <3> QED BY <3>1, <3>2
  <2> QED BY <1>9, <2>5, <2>6
\* The current page is opened.
<1>12. CASE Opens(v)
  <2>1. Head(todo) = Header(Back)
    BY <1>12 DEF Opens
  <2>2. PICK b : b = Back
    OBVIOUS
  <2>3. flash' = [flash EXCEPT ![b] = [@ EXCEPT !.state = "ACTIVE"]]
    BY <1>1, <2>1, <2>2, PerformIs
  <2>4. flash[b] = ErasedPage
    BY <1>3, <1>12, <2>2 DEF PagesInv, Headers, Opens
  <2>5. flash'[b] = Opened /\ \A q \in Pages : q # b => flash'[q] = flash[q]
    BY <1>2, <1>3, <2>2, <2>3, <2>4 DEF FlashType, Opened
  <2>6. b \notin Kept'
    <3>1. State(b)' = "ACTIVE"
      BY <2>5, OpenedIs DEF State
    <3>2. State(v)' = "FREEING" /\ v \in Pages
      BY <1>12, <2>2, <2>5 DEF Opens, State
    <3> QED BY <3>1, <3>2 DEF Kept
  <2>7. ASSUME NEW p \in Kept' PROVE Sound(flash'[p])
    <3>1. \A q : q \in Pages /\ q # b => flash'[q] = flash[q]
      BY <2>5
    <3>2. State(b) # "FREEING" /\ p # b
      BY <1>12, <2>2, <2>6, <2>7 DEF Opens
    <3>3. p \in Kept /\ flash'[p] = flash[p]
      BY <2>7, <3>1, <3>2, KeptBefore
    <3> QED BY <1>8, <3>3
  <2>8. Settled'
    BY <2>7 DEF Settled
  <2>9. Moves(todo', b, Opened)
    BY <1>1, <1>2, <1>4, <1>5, <2>1, <2>2, MovesOpened
  <2> QED BY <2>2, <2>5, <2>8, <2>9
\* It is filled.
<1>13. CASE Fills(v)
  <2>1. PICK o : o = Head(todo)
    OBVIOUS
  <2>2. o \in Data(Pages) /\ o.page = Back /\ o.op \in {"program", "alter"}
    BY <1>3, <1>13, <2>1 DEF Fills, Data
  <2>3. /\ Changed(o, flash[Back], flash'[Back])
        /\ \A q \in Pages : q # Back => flash'[q] = flash[q]
    BY <1>1, <1>2, <2>1, <2>2, DoWrites
  <2>4. Moves(todo', Back, flash'[Back])
    <3>1. PICK P, Q : P = flash[Back] /\ Q = flash'[Back]
      OBVIOUS
    <3>2. P.state = "ACTIVE" /\ Moves(todo, Back, P) /\ todo[1] = o /\ Changed(o, P, Q)
      BY <1>4, <1>5, <1>13, <2>1, <2>3, <3>1 DEF Fills, State
    <3> QED BY <1>1, <1>2, <2>2, <3>1, <3>2, MovesWrite
  <2>5. Back \notin Kept'
    <3>1. flash'[Back].state = "ACTIVE"
      <4>1. flash'[Back].state = flash[Back].state
        BY <2>2, <2>3 DEF Changed, ProgrammedIn, WrittenIn, ErasedIn, Data
      <4> QED BY <1>13, <4>1 DEF Fills, State
    <3>2. flash'[v].state = "FREEING"
      BY <1>13, <2>3 DEF Fills, State
    <3> QED BY <3>1, <3>2 DEF Kept, State
  <2>6. ASSUME NEW p \in Kept' PROVE Sound(flash'[p])
    <3>1. PICK b : b = Back
      OBVIOUS
    <3>2. \A q : q \in Pages /\ q # b => flash'[q] = flash[q]
      BY <2>3, <3>1
    <3>3. State(b) # "FREEING" /\ p # b
      BY <1>13, <2>5, <2>6, <3>1 DEF Fills
    <3>4. p \in Kept /\ flash'[p] = flash[p]
      BY <2>6, <3>2, <3>3, KeptBefore
    <3> QED BY <1>8, <3>4
  <2>7. Settled'
    BY <2>6 DEF Settled
  <2> QED BY <2>4, <2>7
\* The page that was moved is erased, and the current page counts.
<1>14. CASE Frees(v)
  <2>1. todo = <<Erase(v)>> /\ v # Back
    BY <1>14 DEF Frees
  <2>2. Head(todo) = Erase(v) /\ todo' = <<>>
    BY <1>1, <2>1
  <2>3. flash' = [flash EXCEPT ![v] = ErasedPage]
    BY <1>1, <2>2, PerformIs
  <2>4. flash'[v] = ErasedPage /\ \A q \in Pages : q # v => flash'[q] = flash[q]
    BY <1>2, <2>3 DEF FlashType
  <2>5. v \notin Kept'
    BY <2>4, ErasedType DEF Kept, Live, State, Loaded
  <2>6. ASSUME NEW p \in Kept' PROVE Sound(flash'[p])
    <3>1. \A q : q \in Pages /\ q # v => flash'[q] = flash[q]
      BY <2>4
    <3>2. CASE State(p) # "ACTIVE"
      <4>1. p \in Kept /\ flash'[p] = flash[p]
        BY <2>5, <2>6, <3>1, <3>2, KeptBefore
      <4> QED BY <1>8, <4>1
    <3>3. CASE State(p) = "ACTIVE"
      <4>1. p = Back
        BY <1>14, <2>6, <3>3 DEF Frees, Kept, Live
      <4>2. Sound(flash[Back])
        BY <1>4, <2>1, <3>3, <4>1, MovesOver DEF State
      <4> QED BY <1>3, <2>1, <2>4, <4>1, <4>2
    <3> QED BY <3>2, <3>3
  <2>7. Settled'
    BY <2>6 DEF Settled
  <2> QED BY <2>2, <2>7, IdleMoves
<1> QED BY <1>6, <1>10, <1>11, <1>12, <1>13, <1>14

(* A step of nvs_flash_init, or of what erases items.                      *)
LEMMA EraseData ==
    ASSUME PagesInv, PagesInv', DataInv, DoFlash,
           phase \in {"manager", "freeing", "stored", "clearing"}
    PROVE  DataInv'
<1>1. todo # <<>> /\ todo' = Tail(todo) /\ Perform(Head(todo)) /\ phase' = phase
  BY DEF DoFlash, ram
<1>2. FlashType /\ Headers /\ todo \in Seq(Data(Live)) /\ todo \in Seq(Ops)
  BY DEF PagesInv, Phases, RamType, UpPhases, Plain
<1>3. PICK o : o = Head(todo)
  OBVIOUS
<1>4. o \in Data(Live) /\ todo[1] = o
  BY <1>1, <1>2, <1>3, HeadTailProperties
<1>5. Live \subseteq Pages /\ o \in Data(Pages)
  BY <1>4, DataMonotone DEF Live
<1>6. Kept' = Kept
  BY <1>1, <1>2, <1>3, <1>4, DoData, KeptStates
<1>7. /\ \A p \in Kept : Steady(flash[p]) /\ ErasingPage(todo, p, flash[p])
      /\ \A x \in 1 .. Len(todo) : todo[x].op = "alter" /\ todo[x].state = "ERASED"
  BY DEF DataInv, Erasing
<1>8. 1 \in 1 .. Len(todo) /\ o.op = "alter" /\ o.state = "ERASED"
  <2>1. 1 \in 1 .. Len(todo)
    BY <1>1, <1>2, EmptySeq
  <2> QED BY <1>4, <1>7, <2>1
<1>9. /\ o.page \in Pages /\ ErasedIn(flash[o.page], flash'[o.page], o.entries)
      /\ \A p \in Pages : p # o.page => flash'[p] = flash[p]
  BY <1>1, <1>2, <1>3, <1>5, <1>8, DoWrites DEF Changed
<1>10. ASSUME NEW p \in Kept PROVE Steady(flash'[p]) /\ ErasingPage(Tail(todo), p, flash'[p])
  <2>1. CASE p = o.page
    <3>1. PICK P, Q : P = flash[p] /\ Q = flash'[p]
      OBVIOUS
    <3>2. /\ Steady(P) /\ ErasingPage(todo, p, P) /\ ErasedIn(P, Q, todo[1].entries)
          /\ todo[1].op = "alter" /\ todo[1].page = p
      BY <1>4, <1>7, <1>8, <1>9, <1>10, <2>1, <3>1
    <3>3. Steady(Q) /\ ErasingPage(Tail(todo), p, Q)
      BY <1>1, <1>2, <3>2, ErasingStep
    <3> QED BY <3>1, <3>3
  <2>2. CASE p # o.page
    <3>1. p \in Pages
      BY <1>10 DEF Kept, Live
    <3>2. flash'[p] = flash[p] /\ todo[1].page # p
      BY <1>4, <1>9, <2>2, <3>1
    <3>3. ErasingPage(Tail(todo), p, flash[p])
      BY <1>1, <1>2, <1>7, <1>10, <3>2, ErasingOther
    <3> QED BY <1>7, <1>10, <3>2, <3>3
  <2> QED BY <2>1, <2>2
<1>11. \A x \in 1 .. Len(todo') : todo'[x].op = "alter" /\ todo'[x].state = "ERASED"
  <2>1. \A x \in 1 .. Len(Tail(todo)) : x + 1 \in 1 .. Len(todo) /\ Tail(todo)[x] = todo[x + 1]
    BY <1>1, <1>2
  <2> QED BY <1>1, <1>7, <2>1
<1>12. Erasing(todo)' /\ (\A p \in Kept : Steady(flash[p]))'
  BY <1>1, <1>6, <1>10, <1>11 DEF Erasing
<1> QED BY <1>1, <1>12 DEF DataInv

(* The current page is marked as full.                                     *)
LEMMA CloseData ==
    ASSUME PagesInv, PagesInv', DataInv, DoFlash, phase = "request"
    PROVE  DataInv'
<1>1. /\ todo # <<>> /\ todo' = Tail(todo) /\ Perform(Head(todo)) /\ phase' = phase
  BY DEF DoFlash, ram
<1>2. FlashType /\ RamType /\ Lists /\ Closing
  BY <1>1 DEF PagesInv, Phases, UpPhases
<1>3. PICK b : b = Back
  OBVIOUS
<1>4. b \in Pages /\ State(b) = "ACTIVE" /\ \A p \in Pages : p # b => State(p) \in {"UNINITIALIZED", "CORRUPT", "FULL"}
  BY <1>2, <1>3, BackIsPage, PlainStates DEF Closing
<1>5. Head(todo) = PageState(b, "FULL") /\ todo' = <<>>
  BY <1>1, <1>2, <1>3 DEF Closing
<1>6. flash' = [flash EXCEPT ![b] = [@ EXCEPT !.state = "FULL"]]
  BY <1>1, <1>5, PerformIs
<1>7. PICK P, Q : P = flash[b] /\ Q = flash'[b]
  OBVIOUS
<1>8. P \in PageType /\ Q = [P EXCEPT !.state = "FULL"] /\ \A q : q \in Pages /\ q # b => flash'[q] = flash[q]
  BY <1>2, <1>4, <1>6, <1>7 DEF FlashType
<1>9. Q.state = "FULL" /\ Q.table = P.table /\ Q.data = P.data
  BY <1>8 DEF PageType
<1>10. b \in Kept
  <2>1. \A q \in Pages : State(q) # "FREEING"
    BY <1>4
  <2> QED BY <1>4, <2>1 DEF Kept, Live, Loaded
<1>11. \A p \in Kept : Sound(flash[p])
  BY DEF DataInv, Settled
<1>12. Sound(Q)
  <2>1. Sound(P)
    BY <1>7, <1>10, <1>11
  <2>2. \A j \in Entries : Q.table[j] = P.table[j] /\ Q.data[j] = P.data[j]
    BY <1>9
  <2>3. Q.state = "ACTIVE" => P.state = "ACTIVE"
    BY <1>9
  <2> QED BY <2>1, <2>2, <2>3, SameSound
<1>13. ASSUME NEW p \in Kept' PROVE Sound(flash'[p])
  <2>1. CASE p = b
    BY <1>7, <1>12, <2>1
  <2>2. CASE p # b
    <3>1. State(b) # "FREEING"
      BY <1>4
    <3>2. p \in Kept /\ flash'[p] = flash[p]
      BY <1>8, <1>13, <2>2, <3>1, KeptBefore
    <3> QED BY <1>11, <3>2
  <2> QED BY <2>1, <2>2
<1>14. Settled'
  BY <1>13 DEF Settled
<1>15. (\A p \in Kept : Steady(flash[p]))'
  BY <1>13, ErasingDone
<1> QED BY <1>1, <1>14, <1>15 DEF DataInv

(* A step of the writing of an item.                                       *)
LEMMA ItemData ==
    ASSUME PagesInv, PagesInv', DataInv, DoFlash, phase = "written"
    PROVE  DataInv'
<1>1. /\ todo # <<>> /\ todo' = Tail(todo) /\ Perform(Head(todo)) /\ phase' = phase
      /\ call' = call /\ Back' = Back
  BY DEF DoFlash, ram, Back
<1>2. FlashType /\ Headers /\ RamType /\ Lists /\ (Plain \/ Opening) /\ FlashType'
  BY DEF PagesInv, Phases, UpPhases
<1>3. PICK b, k, v : b = Back /\ k = call.key /\ v = call.value
  OBVIOUS
<1>4. b \in Pages /\ k \in Keys /\ v \in Values
  BY <1>2, <1>3, BackIsPage DEF RamType
<1>5. \A p \in Kept : p # b => Sound(flash[p])
  BY <1>3 DEF DataInv
<1>6. ASSUME \A q : q \in Pages /\ q # b => flash'[q] = flash[q], State(b) # "FREEING",
             NEW h \in Entries, Writing(todo', flash'[b], b, h, k, v), NEW T, todo' \in Seq(Data(T))
      PROVE  DataInv'
  <2>1. ASSUME NEW p \in Kept', p # b PROVE Sound(flash'[p])
    <3>1. p \in Kept /\ flash'[p] = flash[p]
      BY <1>6, <2>1, KeptBefore
    <3> QED BY <1>5, <2>1, <3>1
  <2>2. Steady(flash'[b])
    <3>1. flash'[b] \in PageType
      BY <1>2, <1>4 DEF FlashType
    <3> QED BY <1>4, <1>6, <3>1, WritingSteady
  <2>3. (\A p \in Kept : Steady(flash[p]))'
    BY <2>1, <2>2, ErasingDone
  <2>4. ~(todo' # <<>> /\ Head(todo') = Header(b))
    <3>1. todo' # <<>> => Head(todo') \in Data(T)
      BY <1>6, HeadTailProperties
    <3>2. Header(b) \notin Data(T)
      BY DEF Header, Data
    <3> QED BY <3>1, <3>2
  <2>5. (\A p \in Kept : p # Back => Sound(flash[p]))'
    BY <1>1, <1>3, <2>1
  <2>6. (\E i \in Entries : Writing(todo, flash[Back], Back, i, call.key, call.value))'
    BY <1>1, <1>3, <1>6
  <2>7. ~(todo # <<>> /\ Head(todo) = Header(Back))'
    BY <1>1, <1>3, <2>4
  <2> QED BY <1>1, <2>3, <2>5, <2>6, <2>7 DEF DataInv, WritesAt
<1>7. CASE Opening
  <2>1. State(b) = "UNINITIALIZED" /\ Head(todo) = Header(b) /\ Tail(todo) \in Seq(Data({b}))
    BY <1>3, <1>7 DEF Opening
  <2>2. PICK h \in Entries : Writing(Tail(todo), Opened, b, h, k, v)
    BY <1>1, <1>3, <2>1 DEF DataInv, WritesAt
  <2>3. flash' = [flash EXCEPT ![b] = [@ EXCEPT !.state = "ACTIVE"]]
    BY <1>1, <2>1, PerformIs
  <2>4. flash[b] = ErasedPage
    BY <1>2, <1>4, <2>1 DEF Headers
  <2>5. flash'[b] = Opened /\ \A q : q \in Pages /\ q # b => flash'[q] = flash[q]
    BY <1>2, <1>4, <2>3, <2>4 DEF FlashType, Opened
  <2> QED BY <1>1, <1>6, <2>1, <2>2, <2>5
<1>8. CASE Plain
  <2>1. todo \in Seq(Data(Live)) /\ State(b) \in {"UNINITIALIZED", "ACTIVE", "FULL"}
    BY <1>3, <1>8 DEF Plain
  <2>2. PICK o : o = Head(todo)
    OBVIOUS
  <2>3. o \in Data(Live) /\ Tail(todo) \in Seq(Data(Live)) /\ todo[1] = o
    BY <1>1, <2>1, <2>2, HeadTailProperties
  <2>4. o # Header(b)
    BY <2>3 DEF Header, Data
  <2>5. PICK h \in Entries : Writing(todo, flash[b], b, h, k, v)
    BY <1>1, <1>3, <2>2, <2>4 DEF DataInv, WritesAt
  <2>6. PICK P, Q : P = flash[b] /\ Q = flash'[b]
    OBVIOUS
  <2>7. P \in PageType /\ Writing(todo, P, b, h, k, v)
    BY <1>2, <1>4, <2>5, <2>6 DEF FlashType
  <2>8. WritesNext(o, P, b)
    BY <1>1, <1>4, <2>1, <2>3, <2>7, WritingHead
  <2>9. o.page = b
    BY <2>8 DEF WritesNext
  <2>10. Live \subseteq Pages
    BY DEF Live
  <2>11. o \in Data(Pages)
    BY <2>3, <2>10, DataMonotone
  <2>12. Changed(o, P, Q) /\ \A q : q \in Pages /\ q # b => flash'[q] = flash[q]
    BY <1>1, <1>2, <2>2, <2>6, <2>9, <2>11, DoWrites
  <2>13. /\ todo[1].op = "program" => ProgrammedIn(P, Q, todo[1].entry, todo[1].content)
         /\ todo[1].op = "alter" /\ todo[1].state = "WRITTEN" => WrittenIn(P, Q, todo[1].entries)
    BY <2>3, <2>12 DEF Changed
  <2>14. Writing(Tail(todo), Q, b, h, k, v)
    BY <1>1, <1>4, <2>1, <2>7, <2>13, WritingStep
  <2>15. todo' \in Seq(Data(Live)) /\ Writing(todo', flash'[b], b, h, k, v) /\ State(b) # "FREEING"
    BY <1>1, <2>1, <2>3, <2>6, <2>14
  <2>16. PICK T : T = Live
    OBVIOUS
  <2>17. todo' \in Seq(Data(T))
    BY <2>15, <2>16
  <2> QED BY <1>6, <2>12, <2>15, <2>17
<1> QED BY <1>2, <1>7, <1>8

(* One operation of flash.                                                 *)
LEMMA DoFlashData == PagesInv /\ PagesInv' /\ DataInv /\ DoFlash => DataInv'
<1> SUFFICES ASSUME PagesInv, PagesInv', DataInv, DoFlash PROVE DataInv'
  OBVIOUS
<1>1. todo # <<>>
  BY DEF DoFlash
<1>2. phase # "load" /\ phase # "error"
  BY <1>1 DEF PagesInv, Phases, DataInv
<1>3. \/ phase \in {"manager", "freeing", "stored", "clearing"}
      \/ phase = "request" \/ phase = "written" \/ phase \in {"ready", "again"}
  BY <1>2 DEF PagesInv, RamType, UpPhases
<1> QED BY <1>3, EraseData, CloseData, ItemData, MoveData

(* A page that is being freed is only ever erased as the end of a move.    *)
LEMMA FreeingErased ==
    ASSUME PagesInv, DataInv, todo # <<>>, NEW o, o = Head(todo), o.op \in {"header", "erase"},
           State(o.page) = "FREEING"
    PROVE  phase \in {"ready", "again"} /\ Frees(o.page)
<1>1. /\ \A p, s : PageState(p, s).op = "state"
      /\ \A p : Erase(p).op = "erase" /\ Erase(p).page = p /\ Header(p).op = "header"
      /\ \A T : \A d \in Data(T) : d.op \in {"program", "alter"}
  BY DEF PageState, Erase, Header, Data
<1>2. o.op = "erase"
  <2> SUFFICES ASSUME o.op = "header" PROVE FALSE
    OBVIOUS
  <2>1. flash[o.page] = ErasedPage
    BY HeadersErased DEF HeadersOnErased
  <2> QED BY <2>1, ErasedType DEF State
<1>3. \A T : todo \notin Seq(Data(T))
  <2> TAKE T
  <2>1. todo \in Seq(Data(T)) => o \in Data(T)
    BY HeadTailProperties
  <2> QED BY <1>1, <1>2, <2>1
<1>4. ~Plain
  BY <1>3 DEF Plain
<1>5. ~Opening
  BY <1>1, <1>2 DEF Opening
<1>6. ~Closing
  <2> SUFFICES ASSUME Closing PROVE FALSE
    OBVIOUS
  <2>1. o = PageState(Back, "FULL")
    BY DEF Closing
  <2> QED BY <1>1, <1>2, <2>1
<1>7. phase \in {"ready", "again"}
  BY <1>3, <1>4, <1>5, <1>6 DEF PagesInv, Phases, RamType, UpPhases
<1>8. todo[Len(todo)].op = "erase"
  BY <1>7 DEF DataInv, Moves
<1>9. PICK v \in Pages : Marks(v) \/ Wipes(v) \/ Opens(v) \/ Fills(v) \/ Frees(v)
  BY <1>7, <1>8, MoveHead
<1>10. ~Marks(v)
  BY <1>1, <1>2 DEF Marks
<1>11. ~Wipes(v)
  BY <1>1 DEF Wipes
<1>12. ~Opens(v)
  BY <1>1, <1>2 DEF Opens
<1>13. ~Fills(v)
  BY <1>1, <1>2 DEF Fills
<1>14. Frees(v)
  BY <1>9, <1>10, <1>11, <1>12, <1>13
<1>15. o = Erase(v)
  BY <1>14 DEF Frees
<1> QED BY <1>1, <1>7, <1>14, <1>15

(* An operation of flash that is cut off: what is left of the page is      *)
(* corrupt, or given up when the page is loaded.                           *)
LEMMA TornFlashData == PagesInv /\ DataInv /\ TornFlash => DataInv'
<1> SUFFICES ASSUME PagesInv, DataInv, TornFlash PROVE DataInv'
  OBVIOUS
<1>1. todo # <<>> /\ Tear(Head(todo)) /\ phase' = "load"
  BY DEF TornFlash, Restart
<1>2. FlashType /\ Headers /\ RamType /\ todo \in Seq(Ops)
  BY DEF PagesInv, RamType
<1>3. PICK o : o = Head(todo)
  OBVIOUS
<1>4. o \in Ops /\ (o.op = "program" => o \in Data(Live)) /\ todo[1] = o /\ 1 \in 1 .. Len(todo)
  <2>1. Head(todo) = todo[1] /\ 1 \in 1 .. Len(todo)
    BY <1>1, <1>2, HeadTailProperties, EmptySeq
  <2> QED BY <1>1, <1>3, <2>1, HeadCases
<1>5. phase \in {"ready", "again"} => /\ \E p \in Pages : Marks(p) \/ Wipes(p) \/ Opens(p) \/ Fills(p) \/ Frees(p)
                                      /\ Moves(todo, Back, flash[Back])
  <2> SUFFICES ASSUME phase \in {"ready", "again"}
               PROVE  /\ \E p \in Pages : Marks(p) \/ Wipes(p) \/ Opens(p) \/ Fills(p) \/ Frees(p)
                      /\ Moves(todo, Back, flash[Back])
    OBVIOUS
  <2>1. Moves(todo, Back, flash[Back])
    BY DEF DataInv
  <2>2. todo[Len(todo)].op = "erase"
    BY <1>1, <2>1 DEF Moves
  <2> QED BY <1>1, <2>1, <2>2, MoveHead
<1>6. /\ \A p, s : PageState(p, s).op = "state"
      /\ \A p : Erase(p).op = "erase" /\ Erase(p).page = p /\ Header(p).op = "header"
      /\ \A T : \A d \in Data(T) : d.op \in {"program", "alter"} /\ d.page \in T
  BY DEF PageState, Erase, Header, Data
<1>7. \A p \in Kept : Steady(flash[p])
  BY DEF DataInv
<1>8. SUFFICES ASSUME NEW p \in Kept' PROVE Steady(flash'[p])
  BY <1>1 DEF DataInv
<1>9. p \in Pages
  BY DEF Kept, Live
\* An entry is programmed in part.
<1>10. CASE o.op = "program"
  <2>1. flash' = [flash EXCEPT ![o.page].data[o.entry] = Spoiled(o.content)]
    BY <1>1, <1>3, <1>10 DEF Tear, FlashBecomes
  <2>2. o.page \in Pages
    BY <1>4, <1>6, <1>10 DEF Live
  <2>3. PICK r : r = o.page
    OBVIOUS
  <2>4. /\ ProgrammedIn(flash[r], flash'[r], o.entry, Spoiled(o.content))
        /\ \A q \in Pages : q # r => flash'[q] = flash[q]
    BY <1>2, <2>1, <2>2, <2>3, TornWrites
  <2>5. flash'[r].state = flash[r].state
    BY <2>4 DEF ProgrammedIn
  <2>6. \A q \in Pages : flash'[q].state = flash[q].state
    BY <2>4, <2>5
  <2>7. p \in Kept
    <3>1. Kept' = Kept
      BY <2>6, KeptStates DEF State
    <3> QED BY <3>1
  <2>8. CASE p # r
    BY <1>7, <1>9, <2>4, <2>7, <2>8
  <2>9. CASE p = r
    <3>1. phase \notin {"manager", "freeing", "stored", "clearing"}
      BY <1>4, <1>10 DEF DataInv, Erasing
    <3>2. phase # "load" /\ phase # "error"
      BY <1>1 DEF PagesInv, Phases, DataInv
    <3>3. phase # "request"
      <4> SUFFICES ASSUME phase = "request" PROVE FALSE
        OBVIOUS
      <4>1. todo = <<PageState(Back, "FULL")>>
        BY <1>1 DEF PagesInv, Phases, Closing
      <4>2. o = PageState(Back, "FULL")
        BY <1>3, <4>1
      <4> QED BY <1>6, <1>10, <4>2
    <3>4. phase \notin {"ready", "again"}
      <4> SUFFICES ASSUME phase \in {"ready", "again"} PROVE FALSE
        OBVIOUS
      <4>1. PICK v \in Pages : Marks(v) \/ Wipes(v) \/ Opens(v) \/ Fills(v) \/ Frees(v)
        BY <1>5
      <4>2. ~Marks(v)
        BY <1>3, <1>6, <1>10 DEF Marks
      <4>3. ~Wipes(v)
        BY <1>3, <1>6, <1>10 DEF Wipes
      <4>4. ~Opens(v)
        BY <1>3, <1>6, <1>10 DEF Opens
      <4>5. ~Frees(v)
        <5> SUFFICES ASSUME Frees(v) PROVE FALSE
          OBVIOUS
        <5>1. todo = <<Erase(v)>>
          BY DEF Frees
        <5>2. o = Erase(v)
          BY <1>3, <5>1
        <5> QED BY <1>6, <1>10, <5>2
      <4>6. Fills(v)
        BY <4>1, <4>2, <4>3, <4>4, <4>5
      <4>7. r = Back
        BY <1>3, <1>6, <2>3, <4>6 DEF Fills
      <4>8. State(p) = "ACTIVE" /\ State(v) = "FREEING"
        BY <2>9, <4>6, <4>7 DEF Fills
      <4> QED BY <2>7, <4>8 DEF Kept
    <3>5. phase = "written"
      BY <3>1, <3>2, <3>3, <3>4 DEF PagesInv, RamType, UpPhases
    <3>6. o # Header(Back)
      BY <1>6, <1>10
    <3>7. PICK h \in Entries : Writing(todo, flash[Back], Back, h, call.key, call.value)
      BY <1>3, <3>5, <3>6 DEF DataInv, WritesAt
    <3>8. Back \in Pages /\ call.value \in Values /\ flash[Back] \in PageType
      <4>1. Lists
        BY <3>5 DEF PagesInv, Phases, UpPhases
      <4> QED BY <1>2, <3>5, <4>1, BackIsPage DEF RamType, FlashType
    <3>9. WritesNext(o, flash[Back], Back)
      BY <1>1, <1>2, <1>4, <3>7, <3>8, WritingHead
    <3>10. r = Back /\ \A Q \in PageType : ProgrammedIn(flash[Back], Q, o.entry, Spoiled(o.content)) => Steady(Q)
      BY <1>10, <2>3, <3>9 DEF WritesNext
    <3>11. flash'[r] \in PageType
      <4>1. PICK P : P = flash[r]
        OBVIOUS
      <4>2. P \in PageType /\ flash'[r] = [P EXCEPT !.data[o.entry] = Spoiled(o.content)]
        BY <1>2, <2>1, <2>2, <2>3, <4>1 DEF FlashType
      <4>3. o.content \in Contents
        BY <1>4, <1>10 DEF Data
      <4>4. Spoiled(o.content) \in Contents /\ P.data \in [Entries -> Contents]
        BY <4>2, <4>3, SpoiledType DEF PageType
      <4>5. [P.data EXCEPT ![o.entry] = Spoiled(o.content)] \in [Entries -> Contents]
        BY <4>4
      <4> QED BY <4>2, <4>5 DEF PageType
    <3> QED BY <2>4, <2>9, <3>10, <3>11
  <2> QED BY <2>8, <2>9
\* A header is written, or a page erased, in part.
<1>11. CASE o.op \in {"header", "erase"}
  <2>1. flash' = [flash EXCEPT ![o.page] = Corrupted]
    BY <1>1, <1>3, <1>11 DEF Tear, FlashBecomes
  <2>2. PICK r : r = o.page
    OBVIOUS
  <2>3. r \in Pages
    BY <1>4, <2>2 DEF Ops, Data
  <2>4. flash'[r] = Corrupted /\ \A q : q \in Pages /\ q # r => flash'[q] = flash[q]
    BY <1>2, <2>1, <2>2, <2>3 DEF FlashType
  <2>5. p # r
    BY <2>4, ErasedType DEF Kept, Live, State, Loaded
  <2>6. CASE State(p) # "ACTIVE" \/ State(r) # "FREEING"
    <3>1. p \in Kept /\ flash'[p] = flash[p]
      BY <2>4, <2>5, <2>6, KeptBefore
    <3> QED BY <1>7, <3>1
  <2>7. CASE State(p) = "ACTIVE" /\ State(r) = "FREEING"
    <3>1. phase \in {"ready", "again"} /\ Frees(r)
      BY <1>1, <1>3, <1>11, <2>2, <2>7, FreeingErased
    <3>2. todo = <<Erase(r)>> /\ r # Back /\ p = Back
      BY <1>9, <2>7, <3>1 DEF Frees
    <3>3. Sound(flash[Back])
      <4>1. flash[Back].state = "ACTIVE"
        BY <2>7, <3>2 DEF State
      <4> QED BY <1>5, <3>1, <3>2, <4>1, MovesOver
    <3>4. flash'[p] = flash[p]
      BY <1>9, <2>4, <2>5
    <3> QED BY <3>2, <3>3, <3>4, ErasingDone
  <2> QED BY <2>6, <2>7
<1> QED BY <1>1, <1>3, <1>10, <1>11 DEF Tear

-----------------------------------------------------------------------------
(* What follows for every state of the library.                            *)

(* The items of the pages of flash, at every moment.                       *)
THEOREM DataInvariant == Spec => []DataInv
<1>1. ASSUME PagesInv, DataInv, UNCHANGED vars PROVE DataInv'
  <2>1. UNCHANGED <<flash, order, stored, todo, pageList, freeList, phase, call, findPage, reply>>
    BY <1>1 DEF vars, disk, ram
  <2>2. Kept' = Kept /\ flash' = flash
    BY <2>1 DEF Kept, Live, State
  <2>3. Back' = Back
    BY <2>1 DEF Back
  <2> QED BY <1>1, <2>1, <2>2, <2>3 DEF DataInv, WritesAt, Settled, Erasing
<1>2. ASSUME PagesInv, PagesInv', DataInv, Next PROVE DataInv'
  BY <1>2, LoadPagesData, LoadManagerData, FinishFreeingData, SetItemData, RequestNewPageData,
     WriteAgainData, EraseOldData, EraseAllData, EraseNextData, ReturnData, DoFlashData,
     PowerLossData, TornFlashData DEF Next
<1>3. PagesInv /\ PagesInv' /\ DataInv /\ [Next]_vars => DataInv'
  BY <1>1, <1>2
<1> QED BY <1>3, InitData, PagesInvariant, PTL DEF Spec

(* An item whose header counts is whole.                                   *)
LEMMA SoundIsWhole ==
    ASSUME NEW P \in PageType, Sound(P), NEW i \in Visited(P)
    PROVE  IsWhole(P, i)
<1>1. i \in Headed(P)
  BY VisitedHeaders DEF Sound
<1>2. i \in Entries /\ IsHeader(P.data[i])
  BY <1>1 DEF Headed
<1>3. LastOf(P, i) < EntryCount /\ LastOf(P, i) \in Nat /\ EntryCount \in Nat
  BY <1>1, <1>2, LastOfType, NvsAssumption DEF Sound, Shape, Apart
<1>4. ASSUME NEW j \in i .. LastOf(P, i) PROVE P.table[j] = "WRITTEN"
  <2>1. i \in Nat
    BY <1>2, EntriesAreNat
  <2>2. j \in Entries /\ i <= j /\ j <= LastOf(P, i)
    BY <1>3, <2>1 DEF Entries
  <2> QED BY <1>1, <2>2 DEF Sound, Complete, InSpan
<1> QED BY <1>2, <1>4 DEF IsWhole

(* Between two calls every entry marked as written is part of a whole      *)
(* item: whatever a power loss had cut off was given up when the pages     *)
(* were loaded, and every write and every move since is complete.          *)
THEOREM OnlyWholeItems == Spec => []ItemsWhole
<1>1. PagesInv /\ DataInv => ItemsWhole
  <2> SUFFICES ASSUME PagesInv, DataInv, Ready, NEW p \in Range(pageList), NEW i \in Visited(flash[p])
               PROVE  IsWhole(flash[p], i)
    BY DEF ItemsWhole
  <2>1. FlashType /\ RamType /\ Headers /\ Lists /\ Plain /\ Settled
    <3>1. phase = "ready" /\ phase \in UpPhases /\ todo = <<>>
      BY DEF Ready, UpPhases
    <3>2. FlashType /\ RamType /\ Headers /\ Lists /\ Plain
      BY <3>1, IdleIsPlain DEF PagesInv
    <3>3. Settled
      BY <3>1 DEF DataInv
    <3> QED BY <3>2, <3>3
  <2>2. p \in Pages
    BY <2>1 DEF Lists
  <2>3. p \in Live
    BY <2>1, <2>2, WrittenIsLive
  <2>4. \A q \in Pages : State(q) # "FREEING"
    BY <2>1, PlainStates DEF Plain
  <2>5. p \in Kept
    BY <2>3, <2>4 DEF Kept
  <2>6. flash[p] \in PageType /\ Sound(flash[p])
    BY <2>1, <2>2, <2>5 DEF FlashType, Settled
  <2> QED BY <2>6, SoundIsWhole
<1> QED BY <1>1, PagesInvariant, DataInvariant, PTL

(* Flash is written only where it is erased, whatever a power loss has     *)
(* left behind: an item goes behind all that was begun before, a copy into *)
(* a page that is opened for it.                                           *)
THEOREM OnlyErasedFlash == Spec => []WritesErasedFlash
<1>1. PagesInv /\ DataInv => WritesErasedFlash
  <2> SUFFICES ASSUME PagesInv, DataInv, todo # <<>>
               PROVE  /\ Head(todo).op = "program" => flash[Head(todo).page].data[Head(todo).entry] = Blank
                      /\ Head(todo).op = "header" => flash[Head(todo).page] = ErasedPage
    BY DEF WritesErasedFlash
  <2>1. Head(todo).op = "header" => flash[Head(todo).page] = ErasedPage
    BY HeadersErased DEF HeadersOnErased
  <2>2. FlashType /\ RamType /\ todo \in Seq(Ops)
    BY DEF PagesInv, RamType
  <2>3. PICK o : o = Head(todo)
    OBVIOUS
  <2>4. todo[1] = o /\ 1 \in 1 .. Len(todo)
    BY <2>2, <2>3, HeadTailProperties, EmptySeq
  <2>5. ASSUME o.op = "program" PROVE flash[o.page].data[o.entry] = Blank
    <3>1. phase \notin {"manager", "freeing", "stored", "clearing"}
      BY <2>4, <2>5 DEF DataInv, Erasing
    <3>2. phase # "load" /\ phase # "error"
      BY DEF PagesInv, Phases, DataInv
    <3>3. phase # "request"
      <4> SUFFICES ASSUME phase = "request" PROVE FALSE
        OBVIOUS
      <4>1. todo = <<PageState(Back, "FULL")>>
        BY DEF PagesInv, Phases, Closing
      <4>2. o = PageState(Back, "FULL") /\ PageState(Back, "FULL").op = "state"
        BY <2>3, <4>1 DEF PageState
      <4> QED BY <2>5, <4>2
    <3>4. CASE phase = "written"
      <4>1. o # Header(Back)
        BY <2>5 DEF Header
      <4>2. PICK h \in Entries : Writing(todo, flash[Back], Back, h, call.key, call.value)
        BY <2>3, <3>4, <4>1 DEF DataInv, WritesAt
      <4>3. Back \in Pages /\ call.value \in Values /\ flash[Back] \in PageType
        <5>1. Lists
          BY <3>4 DEF PagesInv, Phases, UpPhases
        <5> QED BY <2>2, <3>4, <5>1, BackIsPage DEF RamType, FlashType
      <4>4. WritesNext(o, flash[Back], Back)
        BY <2>2, <2>4, <4>2, <4>3, WritingHead
      <4> QED BY <2>5, <4>4 DEF WritesNext
    <3>5. CASE phase \in {"ready", "again"}
      <4>1. Moves(todo, Back, flash[Back])
        BY <3>5 DEF DataInv
      <4>2. PICK F \in PageType : CopiesTo(todo, Back, flash[Back], F)
        BY <4>1 DEF Moves
      <4>3. PICK v \in Pages : Marks(v) \/ Wipes(v) \/ Opens(v) \/ Fills(v) \/ Frees(v)
        <5>1. todo[Len(todo)].op = "erase"
          BY <4>1 DEF Moves
        <5> QED BY <3>5, <5>1, MoveHead
      <4>4. /\ \A p, s : PageState(p, s).op = "state"
            /\ \A p : Erase(p).op = "erase" /\ Erase(p).page = p /\ Header(p).op = "header"
        BY DEF PageState, Erase, Header
      <4>5. ~Marks(v)
        BY <2>3, <2>5, <4>4 DEF Marks
      <4>6. ~Wipes(v)
        BY <2>3, <2>5, <4>4 DEF Wipes
      <4>7. ~Opens(v)
        BY <2>3, <2>5, <4>4 DEF Opens
      <4>8. ~Frees(v)
        <5> SUFFICES ASSUME Frees(v) PROVE FALSE
          OBVIOUS
        <5>1. todo = <<Erase(v)>>
          BY DEF Frees
        <5>2. o = Erase(v)
          BY <2>3, <5>1
        <5> QED BY <2>5, <4>4, <5>2
      <4>9. o \in Data({Back}) /\ State(Back) = "ACTIVE"
        BY <2>3, <4>3, <4>5, <4>6, <4>7, <4>8 DEF Fills
      <4>10. o.page = Back /\ todo[1] # Erase(Back)
        BY <2>4, <2>5, <4>4, <4>9 DEF Data
      <4>11. Remaining(todo, 0, flash[Back], F)
        BY <4>2, <4>9, <4>10 DEF CopiesTo, State
      <4>12. flash[Back].data[todo[1].entry] = Blank
        BY <2>4, <2>5, <4>11 DEF Remaining
      <4> QED BY <2>4, <4>10, <4>12
    <3> QED BY <3>1, <3>2, <3>3, <3>4, <3>5 DEF PagesInv, RamType, UpPhases
  <2> QED BY <2>1, <2>3, <2>5
<1> QED BY <1>1, PagesInvariant, DataInvariant, PTL
=============================================================================
