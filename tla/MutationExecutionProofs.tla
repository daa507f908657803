----------------------- MODULE MutationExecutionProofs -----------------------
(***************************************************************************)
(* One Change Set on the disk, for any vault, any request, and any number  *)
(* of errors, crashes and writes of somebody else: what a proof state says *)
(* is so, a restore spares what others wrote, a request that stays at the  *)
(* head of the queue has a reason, and what a crash cuts off is undone.    *)
(***************************************************************************)
EXTENDS MutationExecutionInvariant, SequenceTheorems, FiniteSetTheorems, WellFoundedInduction, TLAPS

\* A set of natural numbers has a least one.
LEMMA Least ==
  ASSUME NEW S \in SUBSET Nat, S # {}
  PROVE  \E n \in S : \A m \in S : n <= m
<1> DEFINE R == OpToRel(<, Nat)
<1>1. IsWellFoundedOn(R, Nat) BY NatLessThanWellFounded
<1>2. \A x, y \in Nat : x < y => <<x, y>> \in R BY DEF OpToRel
<1> HIDE DEF R
<1>3. PICK n \in S : \A m \in S : <<m, n>> \notin R BY <1>1, WFMin
<1>4. n \in Nat /\ \A m \in S : m \in Nat /\ ~(m < n) BY <1>2, <1>3
<1>5. \A m \in S : n <= m BY <1>4
<1> QED BY <1>5

-----------------------------------------------------------------------------
(* Sequences that are put together from sequences.                         *)

\* A function on 1..n is a sequence of that length.
LEMMA FunctionIsSeq ==
  ASSUME NEW T, NEW n \in Nat, NEW s \in [1..n -> T]
  PROVE  s \in Seq(T) /\ Len(s) = n /\ DOMAIN s = 1..n
<1>1. s \in Seq(T) BY SeqDef
<1>2. Len(s) \in Nat /\ DOMAIN s = 1..Len(s) /\ DOMAIN s = 1..n BY <1>1, LenProperties
<1>3. Len(s) = n BY <1>2
<1> QED BY <1>1, <1>2, <1>3

\* The library's recursion gives a flattened sequence prefix by prefix.
Accumulates(f, ss, n) ==
  f[0] = <<>> /\ (\A i \in 1..n : f[i] = f[i - 1] \o ss[i]) /\ FlattenSeq(ss) = f[n]
LEMMA FlattenIs ==
  ASSUME NEW U, NEW n \in Nat, NEW ss \in [1..n -> Seq(U)]
  PROVE  \E f \in [0..n -> Seq(U)] : Accumulates(f, ss, n)
<1> USE DEF Accumulates
<1> DEFINE H(m, g) == [i \in 1..m |-> IF i = 1 THEN ss[i] ELSE g[i - 1] \o ss[i]]
           flatten[i \in 1..Len(ss)] == IF i = 1 THEN ss[i] ELSE flatten[i - 1] \o ss[i]
           Bad == {m \in 1..n : ~ \E g : g \in [1..m -> Seq(U)] /\ g = H(m, g)}
<1>0. Len(ss) = n BY FunctionIsSeq
<1>1. ASSUME NEW m \in 1..n PROVE \E g : g \in [1..m -> Seq(U)] /\ g = H(m, g)
  <2> SUFFICES ASSUME Bad # {} PROVE FALSE OBVIOUS
  <2>0. Bad \in SUBSET Nat
    <3> HIDE DEF H, flatten
    <3>1. \A l \in 1..n : l \in Nat OBVIOUS
    <3> QED BY <3>1
  <2>1. PICK l \in Bad : \A k \in Bad : l <= k
    <3> HIDE DEF Bad
    <3> QED BY <2>0, Least
  <2>2. CASE l = 1
    <3> DEFINE g == [i \in 1..l |-> ss[i]]
    <3>1. g \in [1..l -> Seq(U)] /\ g = H(l, g) BY <2>1, <2>2
    <3> QED BY <2>1, <3>1
  <2>3. CASE l # 1
    <3>0. l \in 1..n BY <2>1
    <3>1. l - 1 \in 1..n /\ l - 1 \notin Bad
      <4> HIDE DEF Bad
      <4> QED BY <2>1, <2>3, <3>0
    <3>2. PICK g : g \in [1..(l - 1) -> Seq(U)] /\ g = H(l - 1, g) BY <3>1
    <3>6. \A i \in 1..(l - 1) : g[i] = IF i = 1 THEN ss[i] ELSE g[i - 1] \o ss[i] BY <3>2
    <3> DEFINE h == [i \in 1..l |-> IF i = l THEN g[l - 1] \o ss[l] ELSE g[i]]
    <3>7. l - 1 \in 1..(l - 1) /\ g[l - 1] \in Seq(U) /\ ss[l] \in Seq(U) BY <3>0, <3>1, <3>2
    <3> HIDE DEF H, Bad, flatten
    <3>3. \A i \in 1..l : h[i] \in Seq(U) BY <3>0, <3>2, <3>7, ConcatProperties
    <3>4. \A i \in 1..l : h[i] = IF i = 1 THEN ss[i] ELSE h[i - 1] \o ss[i]
      <4> SUFFICES ASSUME NEW i \in 1..l PROVE h[i] = IF i = 1 THEN ss[i] ELSE h[i - 1] \o ss[i] OBVIOUS
      <4>1. CASE i = l
        <5>1. l - 1 \in 1..l /\ l - 1 # l /\ h[l - 1] = g[l - 1] BY <3>0, <3>7
        <5> QED BY <2>3, <4>1, <5>1
      <4>2. CASE i # l BY <3>0, <4>2, <3>6
      <4> QED BY <4>1, <4>2
    <3>5. h \in [1..l -> Seq(U)] /\ h = H(l, h) BY <3>3, <3>4 DEF H
    <3> QED BY <2>1, <3>5 DEF Bad
  <2> QED BY <2>2, <2>3
<1>2. CASE n = 0
  <2>1. ss = <<>> /\ FlattenSeq(ss) = <<>> BY <1>0, <1>2 DEF FlattenSeq
  <2> HIDE DEF H, Bad, flatten
  <2> DEFINE f == [i \in 0..0 |-> <<>>]
  <2>2. f \in [0..0 -> Seq(U)] /\ f[0] = <<>> /\ FlattenSeq(ss) = f[0] BY <2>1
  <2> QED
    <3>1. \A i \in 1..0 : FALSE OBVIOUS
    <3> HIDE DEF f
    <3> QED BY <1>2, <2>2, <3>1
<1>3. CASE n # 0
  <2>0. n \in 1..n BY <1>3
  <2>1. PICK g : g \in [1..n -> Seq(U)] /\ g = H(n, g)
    <3> HIDE DEF H, Bad, flatten
    <3> QED BY <1>1, <2>0
  <2>2. flatten = CHOOSE h : h = H(n, h) BY <1>0
  <2>3. flatten = H(n, flatten)
    <3> HIDE DEF H, flatten
    <3> QED BY <2>1, <2>2
  <2>4. FlattenSeq(ss) = flatten[n] BY <1>0, <1>3 DEF FlattenSeq
  <2> HIDE DEF flatten
  <2>5. \A i \in 1..n : flatten[i] = IF i = 1 THEN ss[i] ELSE flatten[i - 1] \o ss[i] BY <2>3
  <2> DEFINE Off == {i \in 1..n : flatten[i] \notin Seq(U)}
  <2>6. Off = {}
    <3> SUFFICES ASSUME Off # {} PROVE FALSE OBVIOUS
    <3>0. Off \in SUBSET Nat OBVIOUS
    <3>1. PICK l \in Off : \A k \in Off : l <= k
      <4> HIDE DEF Off
      <4> QED BY <3>0, Least
    <3>2. l # 1 BY <2>5, <3>1
    <3>4. l \in 1..n /\ flatten[l] \notin Seq(U) BY <3>1
    <3>3. l - 1 \in 1..n /\ flatten[l - 1] \in Seq(U) BY <3>1, <3>2
    <3>5. ss[l] \in Seq(U) /\ flatten[l] = flatten[l - 1] \o ss[l] BY <2>5, <3>2, <3>4
    <3> QED BY <3>3, <3>4, <3>5, ConcatProperties
  <2> DEFINE f == [i \in 0..n |-> IF i = 0 THEN <<>> ELSE flatten[i]]
  <2> HIDE DEF H, Bad
  <2>7. f \in [0..n -> Seq(U)] /\ f[0] = <<>>
    <3>1. \A i \in 1..n : flatten[i] \in Seq(U) BY <2>6
    <3>2. \A i \in 0..n : i # 0 => i \in 1..n OBVIOUS
    <3> HIDE DEF Off
    <3> QED BY <3>1, <3>2, EmptySeq
  <2>8. \A i \in 1..n : f[i] = f[i - 1] \o ss[i]
    <3> SUFFICES ASSUME NEW i \in 1..n PROVE f[i] = f[i - 1] \o ss[i] OBVIOUS
    <3>1. CASE i = 1 BY <2>5, <3>1, ConcatEmptySeq
    <3>2. CASE i # 1
      <4>1. i - 1 \in 1..n /\ f[i] = flatten[i] /\ f[i - 1] = flatten[i - 1] BY <3>2
      <4> QED BY <2>5, <3>2, <4>1
    <3> QED BY <3>1, <3>2
  <2>9. FlattenSeq(ss) = f[n] BY <1>3, <2>4
  <2> QED BY <2>7, <2>8, <2>9
<1> HIDE DEF H, flatten, Bad
<1> QED BY <1>2, <1>3

\* What holds of the parts and is kept by concatenation holds of the whole.
LEMMA FlattenIn ==
  ASSUME NEW U, NEW P \in SUBSET Seq(U), <<>> \in P, \A s, t \in P : s \o t \in P,
         NEW n \in Nat, NEW ss \in [1..n -> P]
  PROVE  FlattenSeq(ss) \in P
<1>1. ss \in [1..n -> Seq(U)] OBVIOUS
<1>2. PICK f \in [0..n -> Seq(U)] : Accumulates(f, ss, n) BY <1>1, FlattenIs
<1> USE DEF Accumulates
<1>4. n \in 0..n OBVIOUS
<1> DEFINE Bad == {i \in 0..n : f[i] \notin P}
<1>3. Bad = {}
  <2> SUFFICES ASSUME Bad # {} PROVE FALSE OBVIOUS
  <2>0. Bad \in SUBSET Nat OBVIOUS
  <2>1. PICK l \in Bad : \A k \in Bad : l <= k
    <3> HIDE DEF Bad
    <3> QED BY <2>0, Least
  <2>2. l # 0 BY <1>2, <2>1
  <2>3. l \in 1..n /\ l - 1 \in 0..n /\ f[l - 1] \in P BY <2>1, <2>2
  <2>4. ss[l] \in P /\ f[l] = f[l - 1] \o ss[l] BY <1>2, <2>3
  <2> QED BY <2>1, <2>3, <2>4
<1> QED BY <1>2, <1>3, <1>4

\* Concatenation and reversal keep what sequences hold.
LEMMA ConcatRange ==
  ASSUME NEW U, NEW s \in Seq(U), NEW t \in Seq(U)
  PROVE  s \o t \in Seq(U) /\ Range(s \o t) = Range(s) \cup Range(t)
<1>1. s \o t \in Seq(U) /\ Len(s) \in Nat /\ Len(t) \in Nat /\ Len(s \o t) = Len(s) + Len(t)
      /\ DOMAIN s = 1..Len(s) /\ DOMAIN t = 1..Len(t) /\ DOMAIN (s \o t) = 1..(Len(s) + Len(t))
  BY LenProperties, ConcatProperties
<1>2. \A i \in 1..Len(s) + Len(t) : (s \o t)[i] = IF i <= Len(s) THEN s[i] ELSE t[i - Len(s)] BY ConcatProperties
<1>3. \A i \in 1..Len(s) : (s \o t)[i] = s[i] BY <1>1, <1>2
<1>4. \A i \in 1..Len(t) : Len(s) + i \in 1..(Len(s) + Len(t)) /\ (s \o t)[Len(s) + i] = t[i] BY <1>1, <1>2
<1>5. Range(s) \cup Range(t) \subseteq Range(s \o t)
  <2>1. \A x \in Range(s) : \E i \in 1..Len(s) : x = s[i] BY <1>1 DEF Range
  <2>2. \A x \in Range(t) : \E i \in 1..Len(t) : x = t[i] BY <1>1 DEF Range
  <2>3. \A i \in 1..(Len(s) + Len(t)) : (s \o t)[i] \in Range(s \o t) BY <1>1 DEF Range
  <2>4. \A i \in 1..Len(s) : i \in 1..(Len(s) + Len(t)) BY <1>1
  <2> QED BY <1>3, <1>4, <2>1, <2>2, <2>3, <2>4
<1>6. ASSUME NEW i \in 1..(Len(s) + Len(t)) PROVE (s \o t)[i] \in Range(s) \cup Range(t) BY <1>1, <1>2 DEF Range
<1> QED BY <1>1, <1>5, <1>6 DEF Range

\* A flattened sequence holds what its parts hold.
LEMMA FlattenRange ==
  ASSUME NEW U, NEW n \in Nat, NEW ss \in [1..n -> Seq(U)]
  PROVE  /\ FlattenSeq(ss) \in Seq(U)
         /\ \A x : x \in Range(FlattenSeq(ss)) <=> \E i \in 1..n : x \in Range(ss[i])
<1>1. PICK f \in [0..n -> Seq(U)] : Accumulates(f, ss, n) BY FlattenIs
<1> USE DEF Accumulates
<1> DEFINE Holds(m) == \A x : x \in Range(f[m]) <=> \E i \in 1..m : x \in Range(ss[i])
           Bad == {m \in 0..n : ~Holds(m)}
<1>2. Bad = {}
  <2> SUFFICES ASSUME Bad # {} PROVE FALSE OBVIOUS
  <2> HIDE DEF Holds
  <2>0. Bad \in SUBSET Nat OBVIOUS
  <2>1. PICK l \in Bad : \A k \in Bad : l <= k
    <3> HIDE DEF Bad
    <3> QED BY <2>0, Least
  <2>2. l # 0 BY <1>1, <2>1 DEF Range, Holds
  <2>3. l \in 1..n /\ l - 1 \in 0..n BY <2>1, <2>2
  <2>4. l - 1 \notin Bad
    <3> HIDE DEF Bad
    <3> QED BY <2>1, <2>3
  <2>5. Holds(l - 1) BY <2>3, <2>4
  <2>6. f[l] = f[l - 1] \o ss[l] /\ f[l - 1] \in Seq(U) /\ ss[l] \in Seq(U) BY <1>1, <2>3
  <2>7. Range(f[l]) = Range(f[l - 1]) \cup Range(ss[l]) BY <2>6, ConcatRange
  <2>8. \A i : i \in 1..l <=> i \in 1..(l - 1) \/ i = l BY <2>3
  <2>9. Holds(l) BY <2>5, <2>7, <2>8 DEF Holds
  <2> QED BY <2>1, <2>9
<1>3. n \in 0..n /\ f[n] \in Seq(U) BY <1>1
<1>4. Holds(n)
  <2> HIDE DEF Holds
  <2> QED BY <1>2, <1>3
<1> QED BY <1>1, <1>3, <1>4

\* A finite set is listed completely, and each element once.
LEMMA ListIs ==
  ASSUME NEW S, IsFiniteSet(S)
  PROVE  /\ Cardinality(S) \in Nat /\ SetToSeq(S) \in [1..Cardinality(S) -> S]
         /\ SetToSeq(S) \in Seq(S) /\ Len(SetToSeq(S)) = Cardinality(S)
         /\ Range(SetToSeq(S)) = S
         /\ \A i, j \in 1..Cardinality(S) : i # j => SetToSeq(S)[i] # SetToSeq(S)[j]
<1> DEFINE n == Cardinality(S)
           s == SetToSeq(S)
<1>1. n \in Nat /\ ExistsBijection(1..n, S) BY FS_CardinalityType
<1>2. \E f \in [1..n -> S] : IsInjective(f) BY <1>1 DEF ExistsBijection, Bijection, Injection
<1>3. s \in [1..n -> S] /\ IsInjective(s) BY <1>2 DEF SetToSeq
<1>4. IsFiniteSet(1..n) /\ Cardinality(1..n) = n BY <1>1, FS_Interval
<1> HIDE DEF n, s
<1>5. s \in Injection(1..n, S) BY <1>3 DEF Injection
<1>6. s \in Surjection(1..n, S) BY <1>4, <1>5, FS_Injection DEF n
<1>7. Range(s) = S BY <1>3, <1>6 DEF Surjection, Range
<1>8. s \in Seq(S) /\ Len(s) = n BY <1>1, <1>3
<1>9. \A i, j \in 1..n : i # j => s[i] # s[j] BY <1>3 DEF IsInjective
<1> QED BY <1>1, <1>3, <1>7, <1>8, <1>9 DEF n, s

LEMMA ReverseIs ==
  ASSUME NEW U, NEW s \in Seq(U)
  PROVE  /\ Reverse(s) \in Seq(U) /\ Len(Reverse(s)) = Len(s) /\ Range(Reverse(s)) = Range(s)
         /\ \A i \in 1..Len(s) : (Len(s) - i) + 1 \in 1..Len(s) /\ Reverse(s)[i] = s[(Len(s) - i) + 1]
<1>1. Len(s) \in Nat /\ DOMAIN s = 1..Len(s) /\ \A i \in 1..Len(s) : s[i] \in U BY LenProperties, ElementOfSeq
<1>2. Reverse(s) = [i \in 1..Len(s) |-> s[(Len(s) - i) + 1]] BY DEF Reverse
<1>3. \A i \in 1..Len(s) : (Len(s) - i) + 1 \in 1..Len(s) /\ (Len(s) - ((Len(s) - i) + 1)) + 1 = i BY <1>1
<1>4. Reverse(s) \in [1..Len(s) -> U] BY <1>1, <1>2, <1>3
<1>5. Reverse(s) \in Seq(U) /\ Len(Reverse(s)) = Len(s) BY <1>1, <1>4
<1>6. \A i \in 1..Len(s) : s[i] = Reverse(s)[(Len(s) - i) + 1] BY <1>2, <1>3
<1>7. \A i \in 1..Len(s) : Reverse(s)[i] = s[(Len(s) - i) + 1] BY <1>2
<1>8. DOMAIN Reverse(s) = 1..Len(s) BY <1>2
<1>9. \A x : x \in Range(s) <=> \E i \in 1..Len(s) : s[i] = x BY <1>1 DEF Range
<1>10. \A x : x \in Range(Reverse(s)) <=> \E i \in 1..Len(s) : Reverse(s)[i] = x BY <1>8 DEF Range
<1>11. \A x : x \in Range(s) <=> x \in Range(Reverse(s)) BY <1>3, <1>6, <1>7, <1>9, <1>10
<1> QED BY <1>3, <1>5, <1>7, <1>11

-----------------------------------------------------------------------------
(* The order of the steps in a plan, through concatenation and from one    *)
(* step to the next.                                                       *)

\* The tail of a sequence, and what was ahead of it.
LEMMA TailIs ==
  ASSUME NEW U, NEW s \in Seq(U), s # <<>>
  PROVE  /\ Head(s) \in U /\ Head(s) = s[1] /\ 1 \in DOMAIN s /\ Tail(s) \in Seq(U)
         /\ DOMAIN s \subseteq Nat
         /\ \A i \in Int : i \in DOMAIN Tail(s) <=> i >= 1 /\ i + 1 \in DOMAIN s
         /\ \A i \in DOMAIN Tail(s) : i \in Nat /\ Tail(s)[i] = s[i + 1]
         /\ Range(Tail(s)) \subseteq Range(s) /\ Range(s) = {Head(s)} \cup Range(Tail(s))
<1>1. Len(s) \in Nat /\ Len(s) # 0 /\ DOMAIN s = 1..Len(s) BY LenProperties, EmptySeq
<1>2. Head(s) \in U /\ Tail(s) \in Seq(U) /\ Len(Tail(s)) = Len(s) - 1
      /\ \A i \in 1..Len(Tail(s)) : Tail(s)[i] = s[i + 1]
  BY HeadTailProperties
<1>3. DOMAIN Tail(s) = 1..(Len(s) - 1) /\ Head(s) = s[1] BY <1>1, <1>2, LenProperties
<1>4. \A i \in Int : i \in DOMAIN Tail(s) <=> i >= 1 /\ i + 1 \in DOMAIN s BY <1>1, <1>3
<1>5. \A i \in DOMAIN Tail(s) : i \in Nat /\ i + 1 \in DOMAIN s /\ Tail(s)[i] = s[i + 1] BY <1>1, <1>2, <1>3
<1>6. Range(Tail(s)) \subseteq Range(s) BY <1>5 DEF Range
<1>7. ASSUME NEW i \in DOMAIN s PROVE s[i] = Head(s) \/ s[i] \in Range(Tail(s))
  <2>1. i = 1 \/ (i - 1 \in DOMAIN Tail(s) /\ Tail(s)[i - 1] = s[i]) BY <1>1, <1>2, <1>3
  <2> QED BY <1>3, <2>1 DEF Range
<1>8. 1 \in DOMAIN s /\ DOMAIN s \subseteq Nat BY <1>1
<1>9. Range(s) = {Head(s)} \cup Range(Tail(s)) BY <1>3, <1>6, <1>7, <1>8 DEF Range
<1> QED BY <1>2, <1>3, <1>4, <1>5, <1>6, <1>8, <1>9

\* The orders survive a step of the plan.
LEMMA NeverTail ==
  ASSUME NEW U, NEW A, NEW B, NEW s \in Never(U, A, B), s # <<>>
  PROVE  /\ Tail(s) \in Never(U, A, B)
         /\ Head(s) \in A => \A x \in Range(Tail(s)) : x \notin B
<1>0. s \in Seq(U) /\ \A i, j \in DOMAIN s : i < j /\ s[i] \in A => s[j] \notin B BY DEF Never
<1>1. /\ Head(s) = s[1] /\ 1 \in DOMAIN s /\ Tail(s) \in Seq(U)
      /\ \A i \in DOMAIN Tail(s) : i \in Nat /\ Tail(s)[i] = s[i + 1] /\ i >= 1 /\ i + 1 \in DOMAIN s
  BY <1>0, TailIs
<1>2. \A i, j \in DOMAIN Tail(s) : i < j /\ Tail(s)[i] \in A => Tail(s)[j] \notin B BY <1>1, <1>0
<1>3. ASSUME Head(s) \in A, NEW j \in DOMAIN Tail(s) PROVE Tail(s)[j] \notin B BY <1>1, <1>3, <1>0
<1> QED BY <1>1, <1>2, <1>3 DEF Never, Range

LEMMA LeadsTail ==
  ASSUME NEW U, NEW A, NEW B, NEW s \in Leads(U, A, B), s # <<>>
  PROVE  /\ Tail(s) \in Leads(U, A, B)
         /\ Head(s) \in A => \E x \in Range(Tail(s)) : x \in B
<1>0. s \in Seq(U) /\ \A i \in DOMAIN s : s[i] \in A => \E j \in DOMAIN s : i < j /\ s[j] \in B BY DEF Leads
<1>1. /\ Head(s) = s[1] /\ 1 \in DOMAIN s /\ Tail(s) \in Seq(U) /\ DOMAIN s \subseteq Nat
      /\ \A i \in DOMAIN Tail(s) : i \in Nat /\ Tail(s)[i] = s[i + 1] /\ i >= 1 /\ i + 1 \in DOMAIN s
      /\ \A i \in Int : i \in DOMAIN Tail(s) <=> i >= 1 /\ i + 1 \in DOMAIN s
  BY <1>0, TailIs
<1>2. ASSUME NEW i \in DOMAIN s, s[i] \in A, i >= 1 PROVE \E j \in DOMAIN Tail(s) : i - 1 < j /\ Tail(s)[j] \in B
  <2>1. PICK j \in DOMAIN s : i < j /\ s[j] \in B BY <1>0, <1>2
  <2>2. i \in Nat /\ j \in Nat /\ j - 1 \in DOMAIN Tail(s) BY <1>1, <1>2, <2>1
  <2>3. Tail(s)[j - 1] = s[(j - 1) + 1] /\ (j - 1) + 1 = j BY <1>1, <2>2
  <2> QED BY <2>1, <2>2, <2>3
<1>3. ASSUME NEW i \in DOMAIN Tail(s), Tail(s)[i] \in A PROVE \E j \in DOMAIN Tail(s) : i < j /\ Tail(s)[j] \in B
  BY <1>1, <1>3, <1>2
<1>4. ASSUME Head(s) \in A PROVE \E x \in Range(Tail(s)) : x \in B BY <1>1, <1>2, <1>4 DEF Range
<1> QED BY <1>1, <1>3, <1>4 DEF Leads

LEMMA AdjacentTail ==
  ASSUME NEW U, NEW A, NEW B, NEW s \in Adjacent(U, A, B), s # <<>>
  PROVE  /\ Tail(s) \in Adjacent(U, A, B)
         /\ Head(s) \in A => Tail(s) # <<>> /\ Head(Tail(s)) \in B
<1>0. s \in Seq(U) /\ \A i \in DOMAIN s : s[i] \in A => i + 1 \in DOMAIN s /\ s[i + 1] \in B BY DEF Adjacent
<1>1. /\ Head(s) = s[1] /\ 1 \in DOMAIN s /\ Tail(s) \in Seq(U) /\ DOMAIN s \subseteq Nat
      /\ \A i \in DOMAIN Tail(s) : i \in Nat /\ Tail(s)[i] = s[i + 1] /\ i >= 1 /\ i + 1 \in DOMAIN s
      /\ \A i \in Int : i \in DOMAIN Tail(s) <=> i >= 1 /\ i + 1 \in DOMAIN s
  BY <1>0, TailIs
<1>2. ASSUME NEW i \in DOMAIN Tail(s), Tail(s)[i] \in A PROVE i + 1 \in DOMAIN Tail(s) /\ Tail(s)[i + 1] \in B
  BY <1>1, <1>2, <1>0
<1>3. ASSUME Head(s) \in A PROVE Tail(s) # <<>> /\ Head(Tail(s)) \in B BY <1>0, <1>1, <1>3, TailIs
<1> QED BY <1>1, <1>2, <1>3 DEF Adjacent

LEMMA PrecededTail ==
  ASSUME NEW U, NEW A, NEW B, NEW s \in Preceded(U, A, B), s # <<>>
  PROVE  /\ Tail(s) \in Preceded(U, A, B)
         /\ Tail(s) # <<>> /\ Head(Tail(s)) \in A => Head(s) \in B
<1>0. s \in Seq(U) /\ \A i \in DOMAIN s : i - 1 \in DOMAIN s /\ s[i] \in A => s[i - 1] \in B BY DEF Preceded
<1>1. /\ Head(s) = s[1] /\ 1 \in DOMAIN s /\ Tail(s) \in Seq(U) /\ DOMAIN s \subseteq Nat
      /\ \A i \in DOMAIN Tail(s) : i \in Nat /\ Tail(s)[i] = s[i + 1] /\ i >= 1 /\ i + 1 \in DOMAIN s
      /\ \A i \in Int : i \in DOMAIN Tail(s) <=> i >= 1 /\ i + 1 \in DOMAIN s
  BY <1>0, TailIs
<1>2. ASSUME NEW i \in DOMAIN Tail(s), i - 1 \in DOMAIN Tail(s), Tail(s)[i] \in A PROVE Tail(s)[i - 1] \in B
  <2>4. i \in Nat /\ (i - 1) + 1 \in DOMAIN s /\ i + 1 \in DOMAIN s /\ s[i + 1] \in A BY <1>1, <1>2
  <2>1. i + 1 \in DOMAIN s /\ (i + 1) - 1 = i /\ i \in DOMAIN s /\ s[i + 1] \in A BY <2>4
  <2>2. s[i] \in B BY <1>0, <2>1
  <2>3. Tail(s)[i - 1] = s[(i - 1) + 1] /\ (i - 1) + 1 = i BY <1>1, <1>2, <2>1
  <2> QED BY <2>2, <2>3
<1>3. ASSUME Tail(s) # <<>>, Head(Tail(s)) \in A PROVE Head(s) \in B BY <1>1, <1>3, TailIs, <1>0
<1> QED BY <1>1, <1>2, <1>3 DEF Preceded

\* What stands where in a concatenation.
LEMMA ConcatIs ==
  ASSUME NEW U, NEW s \in Seq(U), NEW t \in Seq(U)
  PROVE  /\ s \o t \in Seq(U) /\ Len(s) \in Nat /\ DOMAIN s = 1..Len(s)
         /\ \A i \in DOMAIN t : i \in Nat /\ i >= 1
         /\ \A i \in DOMAIN s : i \in DOMAIN (s \o t) /\ (s \o t)[i] = s[i]
         /\ \A i \in DOMAIN t : Len(s) + i \in DOMAIN (s \o t) /\ (s \o t)[Len(s) + i] = t[i]
         /\ \A i \in DOMAIN (s \o t) : i \in Nat /\ (i \in DOMAIN s \/ i - Len(s) \in DOMAIN t)
<1>1. s \o t \in Seq(U) /\ Len(s) \in Nat /\ Len(t) \in Nat
      /\ DOMAIN s = 1..Len(s) /\ DOMAIN t = 1..Len(t) /\ DOMAIN (s \o t) = 1..(Len(s) + Len(t))
  BY LenProperties, ConcatProperties
<1>2. \A i \in 1..Len(s) + Len(t) : (s \o t)[i] = IF i <= Len(s) THEN s[i] ELSE t[i - Len(s)] BY ConcatProperties
<1>3. \A i \in DOMAIN s : i \in DOMAIN (s \o t) /\ (s \o t)[i] = s[i] BY <1>1, <1>2
<1>4. \A i \in DOMAIN t : Len(s) + i \in DOMAIN (s \o t) /\ (s \o t)[Len(s) + i] = t[i] BY <1>1, <1>2
<1>5. \A i \in DOMAIN (s \o t) : i \in Nat /\ (i \in DOMAIN s \/ i - Len(s) \in DOMAIN t) BY <1>1
<1>6. \A i \in DOMAIN t : i \in Nat /\ i >= 1 BY <1>1
<1> QED BY <1>1, <1>3, <1>4, <1>5, <1>6

\* Concatenation, when the left part leaves nothing for the right one to spoil.
LEMMA NeverConcat ==
  ASSUME NEW U, NEW A, NEW B, NEW s \in Never(U, A, B), NEW t \in Never(U, A, B),
         Range(s) \cap A = {} \/ Range(t) \cap B = {}
  PROVE  s \o t \in Never(U, A, B)
<1>0. /\ s \in Seq(U) /\ t \in Seq(U)
      /\ \A i, j \in DOMAIN s : i < j /\ s[i] \in A => s[j] \notin B
      /\ \A i, j \in DOMAIN t : i < j /\ t[i] \in A => t[j] \notin B
  BY DEF Never
<1> DEFINE n == Len(s)
           c == s \o t
<1>1. /\ c \in Seq(U) /\ n \in Nat /\ DOMAIN s = 1..n /\ \A i \in DOMAIN t : i \in Nat /\ i >= 1
      /\ \A i \in DOMAIN s : i \in DOMAIN c /\ c[i] = s[i]
      /\ \A i \in DOMAIN t : n + i \in DOMAIN c /\ c[n + i] = t[i]
      /\ \A i \in DOMAIN c : i \in Nat /\ (i \in DOMAIN s \/ i - n \in DOMAIN t)
  BY <1>0, ConcatIs
<1> HIDE DEF n, c
<1>2. \A i \in DOMAIN c : i - n \in DOMAIN t => c[i] = t[i - n] BY <1>1
<1> SUFFICES ASSUME NEW i \in DOMAIN c, NEW j \in DOMAIN c, i < j, c[i] \in A PROVE c[j] \notin B BY <1>1 DEF Never, c
<1>3. CASE i \in DOMAIN s /\ j \in DOMAIN s BY <1>0, <1>1, <1>3
<1>4. CASE i \in DOMAIN s /\ j - n \in DOMAIN t BY <1>1, <1>2, <1>4 DEF Range
<1>5. CASE i - n \in DOMAIN t /\ j - n \in DOMAIN t BY <1>1, <1>2, <1>5, <1>0
<1>6. i - n \in DOMAIN t /\ j \in DOMAIN s => FALSE BY <1>1
<1> QED BY <1>1, <1>3, <1>4, <1>5, <1>6

\* The orders of a concatenation are those of its parts.
LEMMA LeadsConcat ==
  ASSUME NEW U, NEW A, NEW B, NEW s \in Seq(U), NEW t \in Leads(U, A, B),
         s \in Leads(U, A, B) \/ Range(s) \cap A = {} \/ Range(t) \cap B # {}
  PROVE  s \o t \in Leads(U, A, B)
<1>0. /\ s \in Seq(U) /\ t \in Seq(U)
      /\ \A i \in DOMAIN t : t[i] \in A => \E j \in DOMAIN t : i < j /\ t[j] \in B
  BY DEF Leads
<1> DEFINE n == Len(s)
           c == s \o t
<1>1. /\ c \in Seq(U) /\ n \in Nat /\ DOMAIN s = 1..n /\ \A i \in DOMAIN t : i \in Nat /\ i >= 1
      /\ \A i \in DOMAIN s : i \in DOMAIN c /\ c[i] = s[i]
      /\ \A i \in DOMAIN t : n + i \in DOMAIN c /\ c[n + i] = t[i]
      /\ \A i \in DOMAIN c : i \in Nat /\ (i \in DOMAIN s \/ i - n \in DOMAIN t)
  BY <1>0, ConcatIs
<1> HIDE DEF n, c
<1>2. \A i \in DOMAIN c : i - n \in DOMAIN t => c[i] = t[i - n] BY <1>1
<1> SUFFICES ASSUME NEW i \in DOMAIN c, c[i] \in A PROVE \E j \in DOMAIN c : i < j /\ c[j] \in B BY <1>1 DEF Leads, c
<1>3. CASE i \in DOMAIN s
  <2>1. s[i] \in A /\ s[i] \in Range(s) BY <1>1, <1>3 DEF Range
  <2>2. CASE s \in Leads(U, A, B)
    <3>1. PICK j \in DOMAIN s : i < j /\ s[j] \in B BY <1>3, <2>1, <2>2 DEF Leads
    <3> QED BY <1>1, <3>1
  <2>3. CASE Range(t) \cap B # {}
    <3>1. PICK j \in DOMAIN t : t[j] \in B BY <2>3 DEF Range
    <3>2. n + j \in DOMAIN c /\ c[n + j] \in B /\ i < n + j BY <1>1, <1>3, <3>1
    <3> QED BY <3>2
  <2> QED BY <2>1, <2>2, <2>3
<1>4. CASE i - n \in DOMAIN t
  <2>1. t[i - n] \in A BY <1>2, <1>4
  <2>2. PICK j \in DOMAIN t : i - n < j /\ t[j] \in B BY <1>0, <1>4, <2>1
  <2>3. n + j \in DOMAIN c /\ c[n + j] \in B /\ i < n + j BY <1>1, <2>2
  <2> QED BY <2>3
<1> QED BY <1>1, <1>3, <1>4

LEMMA AdjacentConcat ==
  ASSUME NEW U, NEW A, NEW B, NEW s \in Adjacent(U, A, B), NEW t \in Adjacent(U, A, B)
  PROVE  s \o t \in Adjacent(U, A, B)
<1>0. /\ s \in Seq(U) /\ t \in Seq(U)
      /\ \A i \in DOMAIN s : s[i] \in A => i + 1 \in DOMAIN s /\ s[i + 1] \in B
      /\ \A i \in DOMAIN t : t[i] \in A => i + 1 \in DOMAIN t /\ t[i + 1] \in B
  BY DEF Adjacent
<1> DEFINE n == Len(s)
           c == s \o t
<1>1. /\ c \in Seq(U) /\ n \in Nat /\ DOMAIN s = 1..n /\ \A i \in DOMAIN t : i \in Nat /\ i >= 1
      /\ \A i \in DOMAIN s : i \in DOMAIN c /\ c[i] = s[i]
      /\ \A i \in DOMAIN t : n + i \in DOMAIN c /\ c[n + i] = t[i]
      /\ \A i \in DOMAIN c : i \in Nat /\ (i \in DOMAIN s \/ i - n \in DOMAIN t)
  BY <1>0, ConcatIs
<1> HIDE DEF n, c
<1>2. \A i \in DOMAIN c : i - n \in DOMAIN t => c[i] = t[i - n] BY <1>1
<1> SUFFICES ASSUME NEW i \in DOMAIN c, c[i] \in A PROVE i + 1 \in DOMAIN c /\ c[i + 1] \in B BY <1>1 DEF Adjacent, c
<1>3. CASE i \in DOMAIN s BY <1>0, <1>1, <1>3
<1>4. CASE i - n \in DOMAIN t
  <2>1. t[i - n] \in A BY <1>2, <1>4
  <2>2. (i - n) + 1 \in DOMAIN t /\ t[(i - n) + 1] \in B BY <1>0, <1>4, <2>1
  <2>3. n + ((i - n) + 1) = i + 1 BY <1>1
  <2> QED BY <1>1, <2>2, <2>3
<1> QED BY <1>1, <1>3, <1>4

LEMMA PrecededConcat ==
  ASSUME NEW U, NEW A, NEW B, NEW s \in Preceded(U, A, B), NEW t \in Preceded(U, A, B),
         t # <<>> => Head(t) \notin A
  PROVE  s \o t \in Preceded(U, A, B)
<1>0. /\ s \in Seq(U) /\ t \in Seq(U)
      /\ \A i \in DOMAIN s : i - 1 \in DOMAIN s /\ s[i] \in A => s[i - 1] \in B
      /\ \A i \in DOMAIN t : i - 1 \in DOMAIN t /\ t[i] \in A => t[i - 1] \in B
  BY DEF Preceded
<1> DEFINE n == Len(s)
           c == s \o t
<1>1. /\ c \in Seq(U) /\ n \in Nat /\ DOMAIN s = 1..n /\ \A i \in DOMAIN t : i \in Nat /\ i >= 1
      /\ \A i \in DOMAIN s : i \in DOMAIN c /\ c[i] = s[i]
      /\ \A i \in DOMAIN t : n + i \in DOMAIN c /\ c[n + i] = t[i]
      /\ \A i \in DOMAIN c : i \in Nat /\ (i \in DOMAIN s \/ i - n \in DOMAIN t)
  BY <1>0, ConcatIs
<1>9. \A i \in DOMAIN t : i = 1 => t[1] \notin A BY <1>0, TailIs
<1> HIDE DEF n, c
<1>2. \A i \in DOMAIN c : i - n \in DOMAIN t => c[i] = t[i - n] BY <1>1
<1> SUFFICES ASSUME NEW i \in DOMAIN c, i - 1 \in DOMAIN c, c[i] \in A PROVE c[i - 1] \in B BY <1>1 DEF Preceded, c
<1>3. CASE i \in DOMAIN s BY <1>1, <1>3, <1>0
<1>4. CASE i - n \in DOMAIN t
  <2>1. t[i - n] \in A BY <1>2, <1>4
  <2>2. i - n # 1 BY <1>4, <1>9, <2>1
  <2>3. (i - 1) - n = (i - n) - 1 /\ i - 1 \notin DOMAIN s BY <1>1, <1>4, <2>2
  <2>4. (i - n) - 1 \in DOMAIN t BY <1>1, <2>3
  <2>5. t[(i - n) - 1] \in B BY <1>0, <1>4, <2>1, <2>4
  <2> QED BY <1>2, <2>3, <2>4, <2>5
<1> QED BY <1>1, <1>3, <1>4

-----------------------------------------------------------------------------
(* The steps, the invariant, and the preview that it rests on.             *)

-----------------------------------------------------------------------------
(* The preview.                                                            *)

\* A request is a sequence of well-formed operations.
LEMMA RequestIs ==
  ASSUME request \in Requests
  PROVE  /\ Len(request) \in Nat /\ DOMAIN request = Operations /\ Operations = 1..Len(request)
         /\ \A i \in Operations : request[i].kind \in Kinds /\ WellFormed(request[i]) /\ i \notin Paths
                                  /\ (request[i].kind = "move" => Len(request) = 1)
<1>1. request \in Seq(Range(request)) BY RequestsAssumption
<1>2. Len(request) \in Nat /\ DOMAIN request = 1..Len(request) BY <1>1, LenProperties
<1> QED BY <1>2, RequestsAssumption DEF Operations

\* The kinds of paths and of contents are apart.
LEMMA Distinct ==
  /\ Notes \cap Directories = {} /\ Attachments \cap Directories = {} /\ Files \cap Directories = {}
  /\ Notes \cap Attachments = {} /\ Files \subseteq Paths /\ Directories \subseteq Paths
  /\ Notes \subseteq Files /\ Attachments \subseteq Files /\ Paths = Files \cup Directories
  /\ None \notin Paths /\ None \notin Bytes /\ Absent \notin Bytes /\ Dir \notin Bytes
  /\ Absent # Dir /\ Absent # None /\ Dir # None /\ Theirs \in Bytes
  /\ Theirs \notin Known /\ Known \subseteq Bytes
BY PathsAssumption, BytesAssumption DEF Paths, Files, Known

\* Projecting one operation keeps the views in shape.
LEMMA ProjectIs ==
  ASSUME NEW view, NEW after, Fits(view), DOMAIN after \subseteq Paths,
         \A p \in DOMAIN after : after[p] \in MayEnd(p),
         \A p \in DOMAIN after \ DOMAIN view.final : disk[p].is \in MayStart(p)
  PROVE  /\ Fits(ProjectPaths(view, after))
         /\ DOMAIN ProjectPaths(view, after).final = DOMAIN view.final \cup DOMAIN after
<1> DEFINE w == ProjectPaths(view, after)
           D == DOMAIN view.final
           A == DOMAIN after
           P == [p \in D \cup A |-> IF p \in D THEN view.pre[p] ELSE Current(view, p)]
           F == [p \in D \cup A |-> IF p \in A THEN after[p] ELSE view.final[p]]
<1>1. view = [accepted |-> TRUE, pre |-> view.pre, final |-> view.final] /\ DOMAIN view.pre = D BY DEF Fits
<1>5. w = [accepted |-> TRUE, pre |-> P, final |-> F] BY <1>1 DEF ProjectPaths
<1>6. w.pre = P /\ w.final = F /\ w = [accepted |-> TRUE, pre |-> w.pre, final |-> w.final]
  <2> HIDE DEF P, F, w
  <2> QED BY <1>5
<1>7. DOMAIN w.pre = D \cup A /\ DOMAIN w.final = D \cup A BY <1>6
<1>8. ASSUME NEW p \in D \cup A PROVE w.pre[p] = disk[p].is /\ w.pre[p] \in MayStart(p) /\ w.final[p] \in MayEnd(p)
  <2>1. w.pre[p] = (IF p \in D THEN view.pre[p] ELSE disk[p].is) BY <1>6 DEF Current
  <2>2. w.final[p] = (IF p \in A THEN after[p] ELSE view.final[p]) BY <1>6
  <2>3. p \in D => view.pre[p] = disk[p].is /\ view.pre[p] \in MayStart(p) /\ view.final[p] \in MayEnd(p) BY DEF Fits
  <2> HIDE DEF w, P, F
  <2> QED BY <2>1, <2>2, <2>3
<1>9. D \cup A \subseteq Paths BY DEF Fits
<1> HIDE DEF w, P, F
<1> QED BY <1>6, <1>7, <1>8, <1>9 DEF Fits, w

\* What an operation finds is what the preview says of its path before.
LEMMA ProjectOperationIs ==
  ASSUME NEW view, NEW op, Fits(view), Accepts(view, op), WellFormed(op), op.kind \in Kinds
  PROVE  LET w == ProjectOperation(view, op) IN
         /\ Fits(w) /\ DOMAIN view.final \subseteq DOMAIN w.final
         /\ {op.source, op.target} \subseteq {None} \cup DOMAIN w.final
<1> DEFINE after == After(view, op)
           A == MissingAbove(view, op.target) \cup DOMAIN op.rewrites \cup ({op.source, op.target} \ {None})
<1>1. /\ op.source # None => op.source \in Files /\ op.from \in Known
      /\ op.target # None => (op.target \in Directories /\ op.to = Dir) \/ (op.target \in Files /\ op.to \in Known)
      /\ op.source # None => SourceAfter(op) \in Known \cup {Absent}
      /\ DOMAIN op.rewrites \subseteq Notes
      /\ \A p \in DOMAIN op.rewrites : op.rewrites[p].from \in Known /\ op.rewrites[p].to \in Known
  BY Distinct DEF WellFormed, Kinds, Mutations, SourceAfter
<1>2. /\ op.source # None => Current(view, op.source) = op.from
      /\ op.target # None => Current(view, op.target) = Absent
      /\ \A p \in DOMAIN op.rewrites : Current(view, p) = op.rewrites[p].from
  BY DEF Accepts
<1>3. \A p : p \notin DOMAIN view.final => Current(view, p) = disk[p].is BY DEF Current
<1>5. \A p \in MissingAbove(view, op.target) : p \in Directories /\ Current(view, p) = Absent
  BY <1>1, PathsAssumption, Distinct DEF MissingAbove
<1>10. \A p \in A : p # None /\ ~(p = op.target /\ p = op.source) BY <1>1, <1>2, <1>5, Distinct
<1>11. DOMAIN after = A /\ \A p \in A : after[p] =
        CASE p = op.target -> op.to
          [] p = op.source -> SourceAfter(op)
          [] p \in DOMAIN op.rewrites \ {op.source, op.target} -> op.rewrites[p].to
          [] OTHER -> Dir BY DEF After
<1>4. /\ DOMAIN after = A
      /\ \A p \in A : p = op.target => after[p] = op.to
      /\ \A p \in A : p # op.target /\ p = op.source => after[p] = SourceAfter(op)
      /\ \A p \in A : p \notin {op.target, op.source} /\ p \in DOMAIN op.rewrites => after[p] = op.rewrites[p].to
      /\ \A p \in A : p \notin {op.target, op.source} /\ p \notin DOMAIN op.rewrites => after[p] = Dir
  <2> HIDE DEF after, A
  <2> QED BY <1>10, <1>11
<1> HIDE DEF after
<1>6. ASSUME NEW p \in A
      PROVE  p \in Paths /\ after[p] \in MayEnd(p) /\ (p \notin DOMAIN view.final => disk[p].is \in MayStart(p))
  BY <1>4, <1>1, <1>5, Distinct, <1>2, <1>3 DEF MayStart, MayEnd
<1> HIDE DEF A
<1>7. Fits(ProjectPaths(view, after)) /\ DOMAIN ProjectPaths(view, after).final = DOMAIN view.final \cup A
  BY <1>4, <1>6, ProjectIs
<1>8. ProjectPaths(view, after) = ProjectOperation(view, op) BY DEF ProjectOperation, after
<1>9. {op.source, op.target} \subseteq {None} \cup A BY DEF A
<1> QED BY <1>7, <1>8, <1>9

\* The preflight projects the operations one after the other.
LEMMA ViewsAre ==
  ASSUME request \in Requests
  PROVE  LET n == Len(request) IN
         \E V : /\ V[0] = Blank /\ Preflight = V[n]
               /\ \A i \in 1..n : V[i] = Projected(V[i - 1], request[i])
<1> DEFINE n == Len(request)
           G(m, g) == [i \in 0..m |-> IF i = 0 THEN Blank ELSE Projected(g[i - 1], request[i])]
           View[i \in 0..n] == IF i = 0 THEN Blank ELSE Projected(View[i - 1], request[i])
<1>0. n \in Nat BY RequestIs
<1>1. View = CHOOSE g : g = G(n, g) OBVIOUS
<1>2. Preflight = View[n] BY DEF Preflight
<1> HIDE DEF View, n
<1>3. \E g : g = G(n, g)
  <2> DEFINE Bad == {m \in Nat : ~ \E g : g = G(m, g)}
  <2>0. Bad \in SUBSET Nat OBVIOUS
  <2>1. Bad = {}
    <3> SUFFICES ASSUME Bad # {} PROVE FALSE OBVIOUS
    <3>1. PICK l \in Bad : \A k \in Bad : l <= k
      <4> HIDE DEF Bad
      <4> QED BY <2>0, Least
    <3>2. CASE l = 0
      <4> DEFINE g == [i \in 0..0 |-> Blank]
      <4>1. g = G(0, g) OBVIOUS
      <4> HIDE DEF g, G
      <4> QED BY <3>1, <3>2, <4>1
    <3>3. CASE l # 0
      <4>0. l \in Nat BY <3>1
      <4>1. l - 1 \in Nat /\ l - 1 \notin Bad
        <5> HIDE DEF Bad
        <5> QED BY <3>1, <3>3, <4>0
      <4>2. PICK g : g = G(l - 1, g)
        <5> HIDE DEF G
        <5> QED BY <4>1
      <4>3. \A i \in 0..(l - 1) : g[i] = IF i = 0 THEN Blank ELSE Projected(g[i - 1], request[i]) BY <4>2
      <4> DEFINE h == [i \in 0..l |-> IF i = l THEN Projected(g[l - 1], request[l]) ELSE g[i]]
      <4>4. ASSUME NEW i \in 0..l PROVE h[i] = IF i = 0 THEN Blank ELSE Projected(h[i - 1], request[i])
        BY <3>3, <4>0, <4>3
      <4>5. h = G(l, h) BY <4>4
      <4> HIDE DEF h, G
      <4> QED BY <3>1, <4>5
    <3> QED BY <3>2, <3>3
  <2> HIDE DEF G
  <2> QED BY <1>0, <2>1
<1>4. View = G(n, View)
  <2> HIDE DEF G
  <2> QED BY <1>1, <1>3
<1>5. \A i \in 0..n : View[i] = IF i = 0 THEN Blank ELSE Projected(View[i - 1], request[i]) BY <1>4
<1>6. View[0] = Blank /\ \A i \in 1..n : View[i] = Projected(View[i - 1], request[i]) BY <1>0, <1>5
<1> HIDE DEF G
<1> QED BY <1>2, <1>6 DEF n

\* An accepted request fits the vault that it is projected on.
LEMMA PreflightIs ==
  ASSUME request \in Requests, Preflight.accepted
  PROVE  Fits(Preflight) /\ Covers(Preflight, Len(request))
<1> DEFINE n == Len(request)
<1>0. n \in Nat /\ \A i \in 1..n : request[i].kind \in Kinds /\ WellFormed(request[i]) BY RequestIs
<1>1. PICK View : /\ View[0] = Blank /\ Preflight = View[n]
                  /\ \A i \in 1..n : View[i] = Projected(View[i - 1], request[i])
  BY ViewsAre
<1>2. Preflight = View[n] BY <1>1
<1>5. \A i \in 0..n : View[i] = IF i = 0 THEN Blank ELSE Projected(View[i - 1], request[i]) BY <1>0, <1>1
<1> HIDE DEF n
<1> DEFINE Sound(i) == View[i].accepted => Fits(View[i]) /\ Covers(View[i], i)
           Wrong == {i \in 0..n : ~Sound(i)}
<1>6. Wrong = {}
  <2> SUFFICES ASSUME Wrong # {} PROVE FALSE OBVIOUS
  <2> HIDE DEF Sound
  <2>0. Wrong \in SUBSET Nat BY <1>0
  <2>1. PICK l \in Wrong : \A k \in Wrong : l <= k
    <3> HIDE DEF Wrong
    <3> QED BY <2>0, Least
  <2>2. l \in 0..n /\ ~Sound(l) BY <2>1
  <2>3. CASE l = 0
    <3>1. View[0] = Blank BY <1>0, <1>5
    <3>2. Fits(Blank) /\ Covers(Blank, 0) BY DEF Fits, Covers, Blank
    <3> QED BY <2>2, <2>3, <3>1, <3>2 DEF Sound
  <2>4. CASE l # 0
    <3>1. l \in 1..n /\ l - 1 \in 0..n /\ l - 1 \notin Wrong
      <4> HIDE DEF Wrong
      <4> QED BY <1>0, <2>1, <2>2, <2>4
    <3>2. Sound(l - 1) BY <3>1
    <3>3. View[l] = Projected(View[l - 1], request[l]) BY <1>5, <2>2, <2>4
    <3> DEFINE v == View[l - 1]
               op == request[l]
    <3>4. CASE ~(v.accepted /\ Accepts(v, op)) BY <3>3, <3>4, <2>2 DEF Projected, Blank, Sound
    <3>5. CASE v.accepted /\ Accepts(v, op)
      <4>1. View[l] = ProjectOperation(v, op) BY <3>3, <3>5 DEF Projected
      <4>2. Fits(v) /\ Covers(v, l - 1) BY <3>2, <3>5 DEF Sound
      <4>3. op.kind \in Kinds /\ WellFormed(op) BY <1>0, <3>1
      <4>4. /\ Fits(View[l]) /\ DOMAIN v.final \subseteq DOMAIN View[l].final
            /\ {op.source, op.target} \subseteq {None} \cup DOMAIN View[l].final
        <5> HIDE DEF v, op
        <5> QED BY <3>5, <4>1, <4>2, <4>3, ProjectOperationIs
      <4>5. \A i \in 1..l : i \in 1..(l - 1) \/ i = l BY <3>1
      <4>6. Covers(View[l], l) BY <4>2, <4>4, <4>5 DEF Covers
      <4> QED BY <2>2, <4>4, <4>6 DEF Sound
    <3> QED BY <3>4, <3>5
  <2> QED BY <2>3, <2>4
<1>7. n \in 0..n BY <1>0
<1>8. Sound(n) BY <1>6, <1>7
<1> QED BY <1>2, <1>8 DEF n

-----------------------------------------------------------------------------
(* Steps, and the plans they make.                                         *)

\* Steps have the form of their kind, and the forms are steps.
LEMMA StepIs ==
  ASSUME NEW s \in Step
  PROVE  /\ s[1] \in {"prepare", "prepare-back"} => s = <<s[1], s[2], s[3]>> /\ s[2] \in Stages /\ s[3] \in Known
         /\ s[1] \in {"publish", "publish-back"} => s = <<s[1], s[2], s[3]>> /\ s[2] \in Stages /\ s[3] \in Files
         /\ s[1] = "discard" => s = <<s[1], s[2]>> /\ s[2] \in Stages
         /\ s[1] = "drop" => s = <<s[1], s[2]>> /\ s[2] \in Operations
         /\ s[1] \in {"prepare-directory", "publish-directory", "remove-directory"} =>
              s = <<s[1], s[2]>> /\ s[2] \in Directories
         /\ s[1] = "unlink" => s = <<s[1], s[2]>> /\ s[2] \in Files
         /\ s[1] = "link" => s = <<s[1], s[2], s[3]>> /\ s[2] \in Files /\ s[3] \in Files
         /\ s[1] \in {"hide", "unhide"} => s = <<s[1], s[2], s[3]>> /\ s[2] \in Files /\ s[3] \in Operations
         /\ s[1] = "undo-copy" => s = <<s[1], s[2], s[3]>> /\ s[2] \in Files /\ s[3] \in Known
         /\ s[1] = "journal" => s[2] \in SUBSET Paths
         /\ s[1] = "compare" => s = <<s[1], s[2], s[3]>> /\ s[2] \in Paths /\ s[3] \in Places
<1>1. CASE s \in {<<"save">>, <<"refuse">>} BY <1>1
<1>2. CASE s \in {"discard"} \X Stages
  <2>1. PICK a \in {"discard"}, x \in Stages : s = <<a, x>> BY <1>2
  <2>2. s[1] = a /\ s[2] = x BY <2>1
  <2> QED BY <2>1, <2>2
<1>3. CASE s \in {"drop"} \X Operations
  <2>1. PICK a \in {"drop"}, x \in Operations : s = <<a, x>> BY <1>3
  <2>2. s[1] = a /\ s[2] = x BY <2>1
  <2> QED BY <2>1, <2>2
<1>4. CASE s \in {"prepare", "prepare-back"} \X Stages \X Known
  <2>1. PICK a \in {"prepare", "prepare-back"}, x \in Stages, y \in Known : s = <<a, x, y>> BY <1>4
  <2>2. s[1] = a /\ s[2] = x /\ s[3] = y BY <2>1
  <2> QED BY <2>1, <2>2
<1>5. CASE s \in {"publish", "publish-back"} \X Stages \X Files
  <2>1. PICK a \in {"publish", "publish-back"}, x \in Stages, y \in Files : s = <<a, x, y>> BY <1>5
  <2>2. s[1] = a /\ s[2] = x /\ s[3] = y BY <2>1
  <2> QED BY <2>1, <2>2
<1>6. CASE s \in {"prepare-directory", "publish-directory", "remove-directory"} \X Directories
  <2>1. PICK a \in {"prepare-directory", "publish-directory", "remove-directory"}, x \in Directories : s = <<a, x>>
    BY <1>6
  <2>2. s[1] = a /\ s[2] = x BY <2>1
  <2> QED BY <2>1, <2>2
<1>7. CASE s \in {"unlink"} \X Files
  <2>1. PICK a \in {"unlink"}, x \in Files : s = <<a, x>> BY <1>7
  <2>2. s[1] = a /\ s[2] = x BY <2>1
  <2> QED BY <2>1, <2>2
<1>8. CASE s \in {"link"} \X Files \X Files
  <2>1. PICK a \in {"link"}, x \in Files, y \in Files : s = <<a, x, y>> BY <1>8
  <2>2. s[1] = a /\ s[2] = x /\ s[3] = y BY <2>1
  <2> QED BY <2>1, <2>2
<1>9. CASE s \in {"hide", "unhide"} \X Files \X Operations
  <2>1. PICK a \in {"hide", "unhide"}, x \in Files, y \in Operations : s = <<a, x, y>> BY <1>9
  <2>2. s[1] = a /\ s[2] = x /\ s[3] = y BY <2>1
  <2> QED BY <2>1, <2>2
<1>10. CASE s \in {"undo-copy"} \X Files \X Known
  <2>1. PICK a \in {"undo-copy"}, x \in Files, y \in Known : s = <<a, x, y>> BY <1>10
  <2>2. s[1] = a /\ s[2] = x /\ s[3] = y BY <2>1
  <2> QED BY <2>1, <2>2
<1>11. CASE s \in {"journal"} \X (SUBSET Paths)
  <2>1. PICK a \in {"journal"}, x \in SUBSET Paths : s = <<a, x>> BY <1>11
  <2>2. s[1] = a /\ s[2] = x BY <2>1
  <2> QED BY <2>1, <2>2
<1>12. CASE s \in {"compare"} \X Paths \X Places
  <2>1. PICK a \in {"compare"}, x \in Paths, y \in Places : s = <<a, x, y>> BY <1>12
  <2>2. s[1] = a /\ s[2] = x /\ s[3] = y BY <2>1
  <2> QED BY <2>1, <2>2
<1> QED BY <1>1, <1>2, <1>3, <1>4, <1>5, <1>6, <1>7, <1>8, <1>9, <1>10, <1>11, <1>12 DEF Step

LEMMA IsStep ==
  /\ <<"save">> \in Step /\ <<"refuse">> \in Step
  /\ \A k \in Stages : <<"discard", k>> \in Step
  /\ \A i \in Operations : <<"drop", i>> \in Step
  /\ \A a \in {"prepare", "prepare-back"}, k \in Stages, b \in Known : <<a, k, b>> \in Step
  /\ \A a \in {"publish", "publish-back"}, k \in Stages, p \in Files : <<a, k, p>> \in Step
  /\ \A a \in {"prepare-directory", "publish-directory", "remove-directory"}, d \in Directories : <<a, d>> \in Step
  /\ \A p \in Files : <<"unlink", p>> \in Step
  /\ \A p, q \in Files : <<"link", p, q>> \in Step
  /\ \A a \in {"hide", "unhide"}, p \in Files, i \in Operations : <<a, p, i>> \in Step
  /\ \A p \in Files, b \in Known : <<"undo-copy", p, b>> \in Step
  /\ \A P \in SUBSET Paths : <<"journal", P>> \in Step
  /\ \A p \in Paths, x \in Places : <<"compare", p, x>> \in Step
<1>1. <<"save">> \in Step /\ <<"refuse">> \in Step BY DEF Step
<1>2. \A k \in Stages : <<"discard", k>> \in Step BY DEF Step
<1>3. \A i \in Operations : <<"drop", i>> \in Step BY DEF Step
<1>4. \A a \in {"prepare", "prepare-back"}, k \in Stages, b \in Known : <<a, k, b>> \in Step BY DEF Step
<1>5. \A a \in {"publish", "publish-back"}, k \in Stages, p \in Files : <<a, k, p>> \in Step BY DEF Step
<1>6. \A a \in {"prepare-directory", "publish-directory", "remove-directory"}, d \in Directories : <<a, d>> \in Step
  BY DEF Step
<1>7. \A p \in Files : <<"unlink", p>> \in Step BY DEF Step
<1>8. \A p, q \in Files : <<"link", p, q>> \in Step BY DEF Step
<1>9. \A a \in {"hide", "unhide"}, p \in Files, i \in Operations : <<a, p, i>> \in Step BY DEF Step
<1>10. \A p \in Files, b \in Known : <<"undo-copy", p, b>> \in Step BY DEF Step
<1>11. \A P \in SUBSET Paths : <<"journal", P>> \in Step BY DEF Step
<1>12. \A p \in Paths, x \in Places : <<"compare", p, x>> \in Step BY DEF Step
<1> QED BY <1>1, <1>2, <1>3, <1>4, <1>5, <1>6, <1>7, <1>8, <1>9, <1>10, <1>11, <1>12

\* What a frozen preview says of the steps that are built from it.
LEMMA PreviewIs ==
  ASSUME TypeOK, PreviewOK, Accepted
  PROVE  /\ Staged \subseteq Notes \cap DOMAIN final /\ \A p \in Staged : final[p] \in Known
         /\ IsFiniteSet(Staged)
         /\ NewDirectories = Directories \cap DOMAIN final /\ IsFiniteSet(NewDirectories)
         /\ Len(request) \in Nat /\ Operations = 1..Len(request) /\ Stages = Paths \cup Operations
         /\ Operations \cap Paths = {}
         /\ \A i \in Operations :
              /\ request[i].kind \in {"copy", "move-attachment"} =>
                   /\ {request[i].source, request[i].target} \subseteq Files \cap DOMAIN final
                   /\ request[i].from \in Known
              /\ request[i].kind = "trash" => request[i].source \in Files \cap DOMAIN final /\ request[i].from \in Known
         /\ IsMove => /\ Len(request) = 1 /\ Operations = {1} /\ move.kind = "move"
                      /\ {move.source, move.target} \subseteq Notes \cap DOMAIN final
                      /\ {move.from, move.to} \subseteq Known
         /\ DOMAIN pre = DOMAIN final /\ DOMAIN final \subseteq Paths
         /\ \A p \in DOMAIN final \cap Files : {pre[p], final[p]} \subseteq Known \cup {Absent}
<1>1. /\ DOMAIN pre = DOMAIN final /\ DOMAIN final \subseteq Paths
      /\ \A p \in DOMAIN final \cap Files : {pre[p], final[p]} \subseteq Known \cup {Absent}
      /\ \A p \in DOMAIN final \cap Directories : pre[p] = Absent /\ final[p] = Dir
  BY DEF PreviewOK
<1>2. /\ Len(request) \in Nat /\ Operations = 1..Len(request)
      /\ \A i \in Operations : request[i].kind \in Kinds /\ WellFormed(request[i]) /\ i \notin Paths
                                  /\ (request[i].kind = "move" => Len(request) = 1)
  BY RequestIs DEF TypeOK
<1>3. Staged \subseteq Notes \cap DOMAIN final /\ \A p \in Staged : final[p] \in Known BY <1>1 DEF Staged, FilePaths
<1>4. IsFiniteSet(Staged) BY <1>3, PathsAssumption, Distinct, FS_Subset
<1>5. NewDirectories = Directories \cap DOMAIN final BY <1>1 DEF NewDirectories
<1>6. IsFiniteSet(NewDirectories) BY <1>5, PathsAssumption, Distinct, FS_Subset
<1>7. \A i \in Operations : {request[i].source, request[i].target} \subseteq {None} \cup DOMAIN final BY DEF PreviewOK
<1>8. ASSUME NEW i \in Operations
      PROVE  /\ request[i].kind \in {"copy", "move-attachment"} =>
                   /\ {request[i].source, request[i].target} \subseteq Files \cap DOMAIN final
                   /\ request[i].from \in Known
             /\ request[i].kind = "trash" => request[i].source \in Files \cap DOMAIN final /\ request[i].from \in Known
             /\ request[i].kind = "move" =>
                   /\ {request[i].source, request[i].target} \subseteq Notes \cap DOMAIN final
                   /\ {request[i].from, request[i].to} \subseteq Known
  <2> DEFINE op == request[i]
  <2>1. op.kind \in Kinds /\ WellFormed(op) /\ {op.source, op.target} \subseteq {None} \cup DOMAIN final BY <1>2, <1>7
  <2> HIDE DEF op
  <2>2. /\ op.kind = "trash" => op.source \in Files /\ op.target = None /\ op.from \in Known
        /\ op.kind = "move" => {op.source, op.target} \subseteq Notes /\ {op.from, op.to} \subseteq Known
        /\ op.kind \in {"copy", "move-attachment"} =>
             {op.source, op.target} \subseteq Attachments /\ op.from \in Known /\ op.to = op.from
    BY <2>1 DEF WellFormed
  <2>3. /\ op.kind \in {"copy", "move-attachment"} =>
                   {op.source, op.target} \subseteq Files \cap DOMAIN final /\ op.from \in Known
        /\ op.kind = "trash" => op.source \in Files \cap DOMAIN final /\ op.from \in Known
        /\ op.kind = "move" => {op.source, op.target} \subseteq Notes \cap DOMAIN final /\ {op.from, op.to} \subseteq Known
    BY <2>1, <2>2, Distinct
  <2> QED BY <2>3 DEF op
<1> HIDE DEF Operations
<1>9. IsMove => /\ Len(request) = 1 /\ Operations = {1} /\ move.kind = "move"
                /\ {move.source, move.target} \subseteq Notes \cap DOMAIN final
                /\ {move.from, move.to} \subseteq Known
  BY <1>2, <1>8 DEF IsMove, move
<1>10. Operations \cap Paths = {} /\ Stages = Paths \cup Operations BY <1>2 DEF Stages
<1>11. \A i \in Operations :
              /\ request[i].kind \in {"copy", "move-attachment"} =>
                   /\ {request[i].source, request[i].target} \subseteq Files \cap DOMAIN final
                   /\ request[i].from \in Known
              /\ request[i].kind = "trash" => request[i].source \in Files \cap DOMAIN final /\ request[i].from \in Known
  BY <1>8
<1>12. \A p \in DOMAIN final \cap Files : {pre[p], final[p]} \subseteq Known \cup {Absent} BY <1>1
<1> QED BY <1>1, <1>2, <1>3, <1>4, <1>5, <1>6, <1>9, <1>10, <1>11, <1>12

\* Which steps an execution, and a restore, may have.
LEMMA IsRunStep ==
  /\ RunSteps \subseteq Step
  /\ <<"save">> \in RunSteps
  /\ \A P \in SUBSET Paths : <<"journal", P>> \in RunSteps
  /\ \A p \in Paths, x \in Places : <<"compare", p, x>> \in RunSteps
  /\ \A k \in Stages : <<"discard", k>> \in RunSteps
  /\ \A k \in Stages \cap Stageable, b \in Known : <<"prepare", k, b>> \in RunSteps
  /\ \A p \in Files \cap DOMAIN final, k \in Stages : k \in {p} \cup Operations => <<"publish", k, p>> \in RunSteps
  /\ \A a \in {"prepare-directory", "publish-directory"}, d \in Directories \cap NewDirectories : <<a, d>> \in RunSteps
  /\ \A p \in Files, q \in Files \cap DOMAIN final : <<"link", p, q>> \in RunSteps
  /\ \A p \in Files \cap DOMAIN final : <<"unlink", p>> \in RunSteps
  /\ \A p \in Files, i \in Operations : request[i].kind = "trash" => <<"hide", p, i>> \in RunSteps
<1>1. RunSteps \subseteq Step BY DEF RunSteps
<1>2. <<"save">> \in RunSteps BY IsStep DEF RunSteps
<1>3. \A P \in SUBSET Paths : <<"journal", P>> \in RunSteps BY IsStep DEF RunSteps
<1>4. \A p \in Paths, x \in Places : <<"compare", p, x>> \in RunSteps BY IsStep DEF RunSteps
<1>5. \A k \in Stages : <<"discard", k>> \in RunSteps BY IsStep DEF RunSteps
<1>6. \A k \in Stages \cap Stageable, b \in Known : <<"prepare", k, b>> \in RunSteps BY IsStep DEF RunSteps
<1>7. \A p \in Files \cap DOMAIN final, k \in Stages : k \in {p} \cup Operations => <<"publish", k, p>> \in RunSteps
  BY IsStep DEF RunSteps
<1>8. \A a \in {"prepare-directory", "publish-directory"}, d \in Directories \cap NewDirectories : <<a, d>> \in RunSteps
  BY IsStep DEF RunSteps
<1>9. \A p \in Files, q \in Files \cap DOMAIN final : <<"link", p, q>> \in RunSteps BY IsStep DEF RunSteps
<1>10. \A p \in Files \cap DOMAIN final : <<"unlink", p>> \in RunSteps BY IsStep DEF RunSteps
<1>11. \A p \in Files, i \in Operations : request[i].kind = "trash" => <<"hide", p, i>> \in RunSteps
  BY IsStep DEF RunSteps
<1> QED BY <1>1, <1>2, <1>3, <1>4, <1>5, <1>6, <1>7, <1>8, <1>9, <1>10, <1>11

LEMMA IsUndoStep ==
  /\ UndoSteps \subseteq Step /\ Sparing \subseteq UndoSteps
  /\ \A k \in Stages : <<"discard", k>> \in UndoSteps
  /\ \A i \in Operations : <<"drop", i>> \in UndoSteps
  /\ \A p \in Files \cap DOMAIN final, b \in Known : <<"undo-copy", p, b>> \in UndoSteps
  /\ \A p \in Files, q \in Files \cap DOMAIN final : <<"link", p, q>> \in UndoSteps
  /\ \A p \in Files \cap DOMAIN final : <<"unlink", p>> \in UndoSteps
  /\ \A p \in Files \cap DOMAIN final, i \in Operations : <<"unhide", p, i>> \in UndoSteps
  /\ \A k \in Stages \cap Restaged, b \in Known : <<"prepare-back", k, b>> \in UndoSteps
  /\ \A p \in Files \cap DOMAIN final, k \in Stages : <<"publish-back", k, p>> \in UndoSteps
  /\ \A d \in Directories \cap NewDirectories : <<"remove-directory", d>> \in UndoSteps
<1>1. UndoSteps \subseteq Step /\ Sparing \subseteq UndoSteps BY DEF UndoSteps, Sparing
<1>2. \A k \in Stages : <<"discard", k>> \in UndoSteps BY IsStep DEF UndoSteps
<1>3. \A i \in Operations : <<"drop", i>> \in UndoSteps BY IsStep DEF UndoSteps
<1>4. \A p \in Files \cap DOMAIN final, b \in Known : <<"undo-copy", p, b>> \in UndoSteps BY IsStep DEF UndoSteps
<1>5. \A p \in Files, q \in Files \cap DOMAIN final : <<"link", p, q>> \in UndoSteps BY IsStep DEF UndoSteps
<1>6. \A p \in Files \cap DOMAIN final : <<"unlink", p>> \in UndoSteps BY IsStep DEF UndoSteps
<1>7. \A p \in Files \cap DOMAIN final, i \in Operations : <<"unhide", p, i>> \in UndoSteps BY IsStep DEF UndoSteps
<1>8. \A k \in Stages \cap Restaged, b \in Known : <<"prepare-back", k, b>> \in UndoSteps BY IsStep DEF UndoSteps
<1>9. \A p \in Files \cap DOMAIN final, k \in Stages : <<"publish-back", k, p>> \in UndoSteps BY IsStep DEF UndoSteps
<1>10. \A d \in Directories \cap NewDirectories : <<"remove-directory", d>> \in UndoSteps BY IsStep DEF UndoSteps
<1> QED BY <1>1, <1>2, <1>3, <1>4, <1>5, <1>6, <1>7, <1>8, <1>9, <1>10

\* Short plans, one step after the other.
LEMMA ShortSeq ==
  ASSUME NEW U
  PROVE  /\ <<>> \in Seq(U)
         /\ \A a \in U : <<a>> \in Seq(U)
         /\ \A a, b \in U : <<a, b>> \in Seq(U)
         /\ \A a, b, c, d \in U : <<a, b, c, d>> \in Seq(U)
OBVIOUS

-----------------------------------------------------------------------------
(* Plans whose parts have steps of their own.                              *)

\* The parts of a plan: only the k-th has steps of A or of B.
LEMMA NeverFlatten ==
  ASSUME NEW U, NEW A, NEW B, NEW n \in Nat, NEW ss \in [1..n -> Never(U, A, B)], NEW k,
         \A i \in 1..n : i = k \/ Range(ss[i]) \cap (A \cup B) = {}
  PROVE  FlattenSeq(ss) \in Never(U, A, B)
<1>0. ss \in [1..n -> Seq(U)] BY DEF Never
<1>1. PICK f \in [0..n -> Seq(U)] : Accumulates(f, ss, n) BY <1>0, FlattenIs
<1> USE DEF Accumulates
<1> DEFINE Holds(m) == f[m] \in Never(U, A, B) /\ (k \notin 1..m => Range(f[m]) \cap A = {})
           Bad == {m \in 0..n : ~Holds(m)}
<1>2. Bad = {}
  <2> SUFFICES ASSUME Bad # {} PROVE FALSE OBVIOUS
  <2> HIDE DEF Holds
  <2>0. Bad \in SUBSET Nat OBVIOUS
  <2>1. PICK l \in Bad : \A j \in Bad : l <= j
    <3> HIDE DEF Bad
    <3> QED BY <2>0, Least
  <2>2. l # 0 BY <1>1, <2>1 DEF Range, Never, Holds
  <2>3. l \in 1..n /\ l - 1 \in 0..n BY <2>1, <2>2
  <2>4. l - 1 \notin Bad
    <3> HIDE DEF Bad
    <3> QED BY <2>1, <2>3
  <2>5. f[l - 1] \in Never(U, A, B) /\ (k \notin 1..(l - 1) => Range(f[l - 1]) \cap A = {}) BY <2>3, <2>4 DEF Holds
  <2>6. f[l] = f[l - 1] \o ss[l] /\ f[l - 1] \in Seq(U) /\ ss[l] \in Seq(U) /\ ss[l] \in Never(U, A, B)
    BY <1>0, <1>1, <2>3
  <2>7. Range(f[l]) = Range(f[l - 1]) \cup Range(ss[l]) BY <2>6, ConcatRange
  <2>8. CASE l = k
    <3>1. k \notin 1..(l - 1) /\ k \in 1..l BY <2>3, <2>8
    <3>2. f[l] \in Never(U, A, B) BY <2>5, <3>1, <2>6, NeverConcat
    <3> QED BY <2>1, <3>1, <3>2 DEF Holds
  <2>9. CASE l # k
    <3>1. Range(ss[l]) \cap (A \cup B) = {} BY <2>3, <2>9
    <3>2. Range(ss[l]) \cap A = {} /\ Range(ss[l]) \cap B = {} BY <3>1
    <3>3. f[l] \in Never(U, A, B) BY <2>5, <2>6, <3>2, NeverConcat
    <3>4. k \notin 1..l => k \notin 1..(l - 1) BY <2>3
    <3>5. k \notin 1..l => Range(f[l]) \cap A = {} BY <2>5, <2>7, <3>2, <3>4
    <3> QED BY <2>1, <3>3, <3>5 DEF Holds
  <2> QED BY <2>8, <2>9
<1>3. n \in 0..n OBVIOUS
<1>4. Holds(n)
  <2> HIDE DEF Holds
  <2> QED BY <1>2, <1>3
<1> QED BY <1>1, <1>4

\* Parts without such steps.
LEMMA NoneOf ==
  ASSUME NEW U, NEW A, NEW B, NEW s \in Seq(U), Range(s) \cap A = {}
  PROVE  s \in Never(U, A, B) /\ s \in Leads(U, A, B) /\ s \in Adjacent(U, A, B) /\ s \in Preceded(U, A, B)
<1>1. \A i \in DOMAIN s : s[i] \notin A BY DEF Range
<1> QED BY <1>1 DEF Never, Leads, Adjacent, Preceded

LEMMA NoneAfter ==
  ASSUME NEW U, NEW A, NEW B, NEW s \in Seq(U), Range(s) \cap B = {}
  PROVE  s \in Never(U, A, B)
<1>1. \A i \in DOMAIN s : s[i] \notin B BY DEF Range
<1> QED BY <1>1 DEF Never

LEMMA ShortRange ==
  /\ Range(<<>>) = {}
  /\ \A a : Range(<<a>>) = {a}
  /\ \A a, b : Range(<<a, b>>) = {a, b}
  /\ \A a, b, c, d : Range(<<a, b, c, d>>) = {a, b, c, d}
<1>1. Range(<<>>) = {} BY DEF Range
<1>2. ASSUME NEW a PROVE Range(<<a>>) = {a} BY DEF Range
<1>3. ASSUME NEW a, NEW b PROVE Range(<<a, b>>) = {a, b}
  <2> DEFINE s == <<a, b>>
  <2>1. DOMAIN s = {1, 2} /\ s[1] = a /\ s[2] = b OBVIOUS
  <2> HIDE DEF s
  <2>2. Range(s) = {a, b} BY <2>1 DEF Range
  <2> QED BY <2>2 DEF s
<1>4. ASSUME NEW a, NEW b, NEW c, NEW d PROVE Range(<<a, b, c, d>>) = {a, b, c, d}
  <2> DEFINE s == <<a, b, c, d>>
  <2>1. DOMAIN s = {1, 2, 3, 4} /\ s[1] = a /\ s[2] = b /\ s[3] = c /\ s[4] = d OBVIOUS
  <2> HIDE DEF s
  <2>2. Range(s) = {a, b, c, d} BY <2>1 DEF Range
  <2> QED BY <2>2 DEF s
<1> QED BY <1>1, <1>2, <1>3, <1>4

\* Two steps: the second is the answer to the first.
LEMMA Pair ==
  ASSUME NEW U, NEW A, NEW B, NEW a \in U, NEW b \in U, b \in B, b \notin A
  PROVE  /\ <<a, b>> \in Leads(U, A, B) /\ <<a, b>> \in Adjacent(U, A, B)
         /\ <<a, b>> \in Never(U, B, A)
<1> DEFINE s == <<a, b>>
<1>1. s \in Seq(U) /\ DOMAIN s = {1, 2} /\ s[1] = a /\ s[2] = b BY ShortSeq
<1> HIDE DEF s
<1>2. \A i \in DOMAIN s : s[i] \in A => i = 1 BY <1>1
<1>3. s \in Leads(U, A, B) BY <1>1, <1>2 DEF Leads
<1>4. s \in Adjacent(U, A, B) BY <1>1, <1>2 DEF Adjacent
<1>5. s \in Never(U, B, A) BY <1>1, <1>2 DEF Never
<1> QED BY <1>3, <1>4, <1>5 DEF s

\* Four steps: the second answers to the first, and is answered by the last.
LEMMA Four ==
  ASSUME NEW U, NEW A, NEW a \in U, NEW b \in U, NEW c \in U, NEW d \in U,
         a \notin A, c \notin A, d \notin A
  PROVE  /\ \A B : d \in B => <<a, b, c, d>> \in Leads(U, A, B)
         /\ \A B : a \in B => <<a, b, c, d>> \in Preceded(U, A, B)
<1> DEFINE s == <<a, b, c, d>>
<1>1. s \in Seq(U) /\ DOMAIN s = {1, 2, 3, 4} /\ s[1] = a /\ s[2] = b /\ s[3] = c /\ s[4] = d BY ShortSeq
<1> HIDE DEF s
<1>2. \A i \in DOMAIN s : s[i] \in A => i = 2 BY <1>1
<1>3. \A B : d \in B => s \in Leads(U, A, B) BY <1>1, <1>2 DEF Leads
<1>4. \A B : a \in B => s \in Preceded(U, A, B) BY <1>1, <1>2 DEF Preceded
<1> QED BY <1>3, <1>4 DEF s

-----------------------------------------------------------------------------
(* The parts of an execution.                                              *)

\* Staging and publishing the notes.
LEMMA StageAllIs ==
  ASSUME TypeOK, PreviewOK, Accepted
  PROVE  /\ StageAll \in Seq(RunSteps)
         /\ \A x \in Range(StageAll) : \E p \in Staged : x = <<"prepare", p, final[p]>>
<1> DEFINE s == SetToSeq(Staged)
           n == Len(s)
           ss == [i \in 1..n |-> StageFile(s[i])]
<1>1. s \in [1..n -> Staged] /\ n \in Nat BY PreviewIs, ListIs
<1>2. StageAll = FlattenSeq(ss) BY DEF StageAll, Each
<1>3. ASSUME NEW p \in Staged
      PROVE  StageFile(p) \in Seq(RunSteps) /\ Range(StageFile(p)) = {<<"prepare", p, final[p]>>}
  BY PreviewIs, Distinct, IsRunStep, ShortSeq, ShortRange DEF Stageable, StageFile
<1> HIDE DEF s, n
<1>4. ss \in [1..n -> Seq(RunSteps)] /\ \A i \in 1..n : s[i] \in Staged /\ ss[i] = StageFile(s[i]) BY <1>1, <1>3
<1> HIDE DEF ss
<1>5. FlattenSeq(ss) \in Seq(RunSteps) /\ \A x : x \in Range(FlattenSeq(ss)) <=> \E i \in 1..n : x \in Range(ss[i])
  BY <1>1, <1>4, FlattenRange
<1>6. ASSUME NEW x \in Range(FlattenSeq(ss)) PROVE \E p \in Staged : x = <<"prepare", p, final[p]>>
  <2>1. PICK i \in 1..n : x \in Range(ss[i]) BY <1>5
  <2> QED BY <1>3, <1>4, <2>1
<1> QED BY <1>2, <1>5, <1>6

LEMMA RenameIs ==
  ASSUME TypeOK, PreviewOK, Accepted, NEW p \in Files \cap DOMAIN final, NEW k \in Stages, k \in {p} \cup Operations
  PROVE  /\ Rename(k, p) \in Seq(RunSteps)
         /\ Range(Rename(k, p)) = {<<"compare", p, disk[p]>>, <<"publish", k, p>>}
<1>1. disk[p] \in Places /\ p \in Paths BY Distinct DEF TypeOK
<1>2. <<"compare", p, disk[p]>> \in RunSteps /\ <<"publish", k, p>> \in RunSteps BY <1>1, IsRunStep
<1> QED BY <1>2, ShortSeq, ShortRange DEF Rename

LEMMA PublishAllIs ==
  ASSUME TypeOK, PreviewOK, Accepted
  PROVE  /\ PublishAll \in Seq(RunSteps)
         /\ \A p \in Staged : <<"publish", p, p>> \in Range(PublishAll)
         /\ \A x \in Range(PublishAll) : \E p \in Staged : x \in {<<"compare", p, disk[p]>>, <<"publish", p, p>>}
<1> DEFINE s == SetToSeq(Staged)
           n == Len(s)
           ss == [i \in 1..n |-> PublishStaged(s[i])]
<1>1. s \in [1..n -> Staged] /\ n \in Nat /\ Range(s) = Staged BY PreviewIs, ListIs
<1>2. PublishAll = FlattenSeq(ss) BY DEF PublishAll, Each
<1>3. ASSUME NEW p \in Staged PROVE PublishStaged(p) \in Seq(RunSteps)
             /\ Range(PublishStaged(p)) = {<<"compare", p, disk[p]>>, <<"publish", p, p>>}
  BY PreviewIs, Distinct, RenameIs DEF PublishStaged
<1> HIDE DEF s, n
<1>4. ss \in [1..n -> Seq(RunSteps)] /\ \A i \in 1..n : s[i] \in Staged /\ ss[i] = PublishStaged(s[i]) BY <1>1, <1>3
<1> HIDE DEF ss
<1>5. FlattenSeq(ss) \in Seq(RunSteps) /\ \A x : x \in Range(FlattenSeq(ss)) <=> \E i \in 1..n : x \in Range(ss[i])
  BY <1>1, <1>4, FlattenRange
<1>6. ASSUME NEW x \in Range(FlattenSeq(ss))
      PROVE  \E p \in Staged : x \in {<<"compare", p, disk[p]>>, <<"publish", p, p>>}
  <2>1. PICK i \in 1..n : x \in Range(ss[i]) BY <1>5
  <2> QED BY <1>3, <1>4, <2>1
<1>7. ASSUME NEW p \in Staged PROVE <<"publish", p, p>> \in Range(FlattenSeq(ss))
  <2>1. PICK i \in 1..n : s[i] = p BY <1>1 DEF Range
  <2>2. <<"publish", p, p>> \in Range(ss[i]) BY <1>3, <1>4, <2>1
  <2> QED BY <1>5, <2>2
<1> QED BY <1>2, <1>5, <1>6, <1>7

\* Directories, from the top.
LEMMA ByDepthIs ==
  ASSUME NEW S \in SUBSET Directories
  PROVE  ByDepth(S) \in Seq(S) /\ \A d \in S : d \in Range(ByDepth(S))
<1>1. IsFiniteSet(Directories) BY PathsAssumption, Distinct, FS_Subset
<1> DEFINE n == Cardinality(Directories) + 1
           ss == [i \in 1..n |-> AtDepth(S, i - 1)]
           T(m) == {d \in S : Cardinality(Above[d]) = m}
<1>2. Cardinality(Directories) \in Nat /\ n \in Nat BY <1>1, FS_CardinalityType
<1>3. \A m : AtDepth(S, m) = SetToSeq(T(m)) BY DEF AtDepth
<1>4. ASSUME NEW m PROVE AtDepth(S, m) \in Seq(S) /\ Range(AtDepth(S, m)) = T(m)
  <2>1. T(m) \subseteq S /\ IsFiniteSet(T(m))
    <3>1. T(m) \subseteq S /\ T(m) \subseteq Directories OBVIOUS
    <3> HIDE DEF T
    <3> QED BY <1>1, <3>1, FS_Subset
  <2> HIDE DEF T
  <2>2. SetToSeq(T(m)) \in Seq(T(m)) /\ Range(SetToSeq(T(m))) = T(m) BY <2>1, ListIs
  <2>3. SetToSeq(T(m)) \in Seq(S) BY <2>1, <2>2
  <2> QED BY <1>3, <2>2, <2>3
<1>5. ss \in [1..n -> Seq(S)] /\ \A i \in 1..n : ss[i] = AtDepth(S, i - 1) BY <1>4
<1>6. ByDepth(S) = FlattenSeq(ss) BY DEF ByDepth
<1> HIDE DEF ss, T
<1>7. FlattenSeq(ss) \in Seq(S) /\ \A x : x \in Range(FlattenSeq(ss)) <=> \E i \in 1..n : x \in Range(ss[i])
  <2> HIDE DEF n
  <2> QED BY <1>2, <1>5, FlattenRange
<1>8. ASSUME NEW d \in S PROVE d \in Range(FlattenSeq(ss))
  <2>1. Above[d] \subseteq Directories BY PathsAssumption, Distinct
  <2>2. Cardinality(Above[d]) \in Nat /\ Cardinality(Above[d]) <= Cardinality(Directories)
    BY <1>1, <2>1, FS_Subset, FS_CardinalityType
  <2>3. Cardinality(Above[d]) + 1 \in 1..n BY <1>2, <2>2
  <2> DEFINE i == Cardinality(Above[d]) + 1
  <2>4. i - 1 = Cardinality(Above[d]) BY <2>2
  <2>5. d \in T(i - 1) BY <2>4 DEF T
  <2>6. d \in Range(ss[i])
    <3> HIDE DEF i, n
    <3>1. i \in 1..n BY <2>3 DEF i
    <3> QED BY <1>4, <1>5, <2>5, <3>1
  <2> QED BY <1>7, <2>3, <2>6
<1> QED BY <1>6, <1>7, <1>8

\* A directory is looked at, staged, made durable and published.
LEMMA MakeDirectoryIs ==
  ASSUME TypeOK, PreviewOK, Accepted, NEW d \in NewDirectories
  PROVE  /\ MakeDirectory(d) \in Seq(RunSteps)
         /\ Range(MakeDirectory(d)) = {<<"compare", d, Nowhere>>, <<"prepare-directory", d>>,
                                       <<"journal", {d}>>, <<"publish-directory", d>>}
         /\ \A k \in Stages : MakeDirectory(d) \in Leads(Step, Prepares(k), Publishes(k))
         /\ \A e \in Directories :
              MakeDirectory(d) \in Preceded(Step, {<<"prepare-directory", e>>}, {<<"compare", e, Nowhere>>})
         /\ MakeDirectory(d) # <<>> /\ Head(MakeDirectory(d)) = <<"compare", d, Nowhere>>
<1> DEFINE a == <<"compare", d, Nowhere>>
           b == <<"prepare-directory", d>>
           c == <<"journal", {d}>>
           e == <<"publish-directory", d>>
<1>0. d \in Paths /\ d \in Directories \cap NewDirectories BY PreviewIs, Distinct
<1>1. Nowhere \in Places BY DEF Nowhere, At, Places
<1>2. a \in RunSteps /\ b \in RunSteps /\ c \in RunSteps /\ e \in RunSteps BY <1>0, <1>1, IsRunStep
<1>3. MakeDirectory(d) = <<a, b, c, e>> BY DEF MakeDirectory
<1>4. a \in Step /\ b \in Step /\ c \in Step /\ e \in Step BY <1>2, IsRunStep
<1>5. ASSUME NEW k \in Stages PROVE <<a, b, c, e>> \in Leads(Step, Prepares(k), Publishes(k))
  <2>1. a \notin Prepares(k) /\ c \notin Prepares(k) /\ e \notin Prepares(k) BY DEF Prepares
  <2>2. CASE k = d
    <3>1. e \in Publishes(k) BY <2>2 DEF Publishes
    <3> HIDE DEF a, b, c, e
    <3> QED BY <1>4, <2>1, <3>1, Four
  <2>3. CASE k # d
    <3>1. b \notin Prepares(k) BY <2>3 DEF Prepares
    <3> HIDE DEF a, b, c, e
    <3>2. Range(<<a, b, c, e>>) = {a, b, c, e} /\ <<a, b, c, e>> \in Seq(Step) BY <1>4, ShortRange, ShortSeq
    <3>3. Range(<<a, b, c, e>>) \cap Prepares(k) = {} BY <2>1, <3>1, <3>2
    <3> QED BY <3>2, <3>3, NoneOf
  <2> QED BY <2>2, <2>3
<1>6. ASSUME NEW f \in Directories
      PROVE  <<a, b, c, e>> \in Preceded(Step, {<<"prepare-directory", f>>}, {<<"compare", f, Nowhere>>})
  <2> DEFINE A == {<<"prepare-directory", f>>}
             B == {<<"compare", f, Nowhere>>}
  <2>1. a \notin A /\ c \notin A /\ e \notin A OBVIOUS
  <2>2. CASE f = d
    <3>1. a \in B BY <2>2
    <3> HIDE DEF a, b, c, e, A, B
    <3> QED BY <1>4, <2>1, <3>1, Four DEF A, B
  <2>3. CASE f # d
    <3>1. b \notin A BY <2>3
    <3> HIDE DEF a, b, c, e, A, B
    <3>2. Range(<<a, b, c, e>>) = {a, b, c, e} /\ <<a, b, c, e>> \in Seq(Step) BY <1>4, ShortRange, ShortSeq
    <3>3. Range(<<a, b, c, e>>) \cap A = {} BY <2>1, <3>1, <3>2
    <3> QED BY <3>2, <3>3, NoneOf DEF A, B
  <2> QED BY <2>2, <2>3
<1>7. <<a, b, c, e>> # <<>> /\ Head(<<a, b, c, e>>) = a
  <2> HIDE DEF a, b, c, e
  <2> QED OBVIOUS
<1>8. <<a, b, c, e>> \in Seq(RunSteps) /\ Range(<<a, b, c, e>>) = {a, b, c, e}
  <2> HIDE DEF a, b, c, e
  <2> QED BY <1>2, ShortSeq, ShortRange
<1> QED BY <1>3, <1>5, <1>6, <1>7, <1>8

\* Where a concatenation begins.
LEMMA HeadConcat ==
  ASSUME NEW U, NEW s \in Seq(U), NEW t \in Seq(U)
  PROVE  /\ s = <<>> => s \o t = t
         /\ s # <<>> => s \o t # <<>> /\ Head(s \o t) = Head(s)
<1>1. s = <<>> => s \o t = t BY ConcatEmptySeq
<1>2. ASSUME s # <<>> PROVE s \o t # <<>> /\ Head(s \o t) = Head(s) BY <1>2, TailIs, ConcatIs
<1> QED BY <1>1, <1>2

LEMMA ConcatNone ==
  ASSUME NEW U
  PROVE  /\ \A A, B : <<>> \in Leads(U, A, B) /\ <<>> \in Adjacent(U, A, B) /\ <<>> \in Preceded(U, A, B) /\ <<>> \in Never(U, A, B)
         /\ \A A, B : \A s, t \in Leads(U, A, B) : s \o t \in Leads(U, A, B)
         /\ \A A, B : \A s, t \in Adjacent(U, A, B) : s \o t \in Adjacent(U, A, B)
<1>1. \A A, B : <<>> \in Leads(U, A, B) /\ <<>> \in Adjacent(U, A, B) /\ <<>> \in Preceded(U, A, B) /\ <<>> \in Never(U, A, B)
  BY DEF Leads, Adjacent, Preceded, Never
<1>2. ASSUME NEW A, NEW B, NEW s \in Leads(U, A, B), NEW t \in Leads(U, A, B) PROVE s \o t \in Leads(U, A, B)
  <2>1. s \in Seq(U) BY DEF Leads
  <2> QED BY <2>1, LeadsConcat
<1>3. ASSUME NEW A, NEW B, NEW s \in Adjacent(U, A, B), NEW t \in Adjacent(U, A, B) PROVE s \o t \in Adjacent(U, A, B)
  BY AdjacentConcat
<1> QED BY <1>1, <1>2, <1>3

\* The kinds of steps are apart.
LEMMA Sorts ==
  ASSUME NEW k
  PROVE  /\ \A x \in Prepares(k) : x[1] \in {"prepare", "prepare-directory"} /\ x[2] = k
         /\ \A x \in Publishes(k) : x[1] \in {"publish", "publish-directory"} /\ x[2] = k
         /\ \A x \in Staging(k) : x[1] = "prepare" /\ x[2] = k
         /\ \A x \in Publishing(k) : x[1] = "publish" /\ x[2] = k
         /\ \A x \in Doubles(k) : x[1] \in {"link", "hide"} /\ x[2] = k
         /\ \A x \in PreparesBack(k) : x[1] = "prepare-back" /\ x[2] = k
         /\ \A x \in PublishesBack(k) : x[1] = "publish-back" /\ x[2] = k
         /\ \A p \in Files : <<"publish", k, p>> \in Publishes(k) /\ <<"publish", k, p>> \in Publishing(k)
                             /\ <<"publish-back", k, p>> \in PublishesBack(k)
         /\ Staging(k) \subseteq Prepares(k) /\ Publishing(k) \subseteq Publishes(k)
<1>1. \A x \in Staging(k) : x[1] = "prepare" /\ x[2] = k BY DEF Staging
<1>2. \A x \in Publishing(k) : x[1] = "publish" /\ x[2] = k BY DEF Publishing
<1>3. \A x \in Prepares(k) : x \in Staging(k) \/ x = <<"prepare-directory", k>> BY DEF Prepares, Staging
<1>4. \A x \in Publishes(k) : x \in Publishing(k) \/ x = <<"publish-directory", k>> BY DEF Publishes, Publishing
<1>5. \A x \in Prepares(k) : x[1] \in {"prepare", "prepare-directory"} /\ x[2] = k BY <1>1, <1>3
<1>6. \A x \in Publishes(k) : x[1] \in {"publish", "publish-directory"} /\ x[2] = k BY <1>2, <1>4
<1>7. ASSUME NEW x \in Doubles(k) PROVE x[1] \in {"link", "hide"} /\ x[2] = k
  <2>1. CASE x \in {"link"} \X {k} \X Files BY <2>1
  <2>2. CASE x \in {"hide"} \X {k} \X Operations
    <3> DEFINE O == Operations
    <3>1. x \in {"hide"} \X {k} \X O BY <2>2
    <3> HIDE DEF O
    <3> QED BY <3>1
  <2> QED BY <2>1, <2>2 DEF Doubles
<1>8. \A x \in PreparesBack(k) : x[1] = "prepare-back" /\ x[2] = k BY DEF PreparesBack
<1>9. \A x \in PublishesBack(k) : x[1] = "publish-back" /\ x[2] = k BY DEF PublishesBack
<1>10. \A p \in Files : <<"publish", k, p>> \in Publishing(k) /\ <<"publish-back", k, p>> \in PublishesBack(k)
  BY DEF Publishing, PublishesBack
<1>11. Staging(k) \subseteq Prepares(k) /\ Publishing(k) \subseteq Publishes(k)
  BY DEF Staging, Publishing, Prepares, Publishes
<1> QED BY <1>1, <1>2, <1>5, <1>6, <1>7, <1>8, <1>9, <1>10, <1>11

LEMMA MakeAllIs ==
  ASSUME TypeOK, PreviewOK, Accepted
  PROVE  /\ MakeAll \in Seq(RunSteps)
         /\ \A x \in Range(MakeAll) : x[1] \in {"compare", "prepare-directory", "journal", "publish-directory"}
         /\ \A k \in Stages : MakeAll \in Leads(Step, Prepares(k), Publishes(k))
         /\ \A d \in Directories :
              MakeAll \in Preceded(Step, {<<"prepare-directory", d>>}, {<<"compare", d, Nowhere>>})
         /\ MakeAll # <<>> => Head(MakeAll)[1] = "compare"
<1> DEFINE s == ByDepth(NewDirectories)
           n == Len(s)
           ss == [i \in 1..n |-> MakeDirectory(s[i])]
<1>1. s \in Seq(NewDirectories)
  <2>1. NewDirectories \in SUBSET Directories BY PreviewIs
  <2> HIDE DEF s
  <2> QED BY <2>1, ByDepthIs DEF s
<1>2. MakeAll = FlattenSeq(ss) BY DEF MakeAll, Each
<1> HIDE DEF s, n
<1>3. n \in Nat /\ \A i \in 1..n : s[i] \in NewDirectories BY <1>1, LenProperties, ElementOfSeq DEF n
<1>4. \A i \in 1..n : ss[i] = MakeDirectory(s[i]) OBVIOUS
<1>5. ss \in [1..n -> Seq(RunSteps)] BY <1>3, MakeDirectoryIs
<1>6. ASSUME NEW k \in Stages PROVE ss \in [1..n -> Leads(Step, Prepares(k), Publishes(k))] BY <1>3, MakeDirectoryIs
<1>7. DOMAIN ss = 1..n /\ ss = [i \in 1..n |-> ss[i]] OBVIOUS
<1> HIDE DEF ss
<1>8. FlattenSeq(ss) \in Seq(RunSteps) /\ \A x : x \in Range(FlattenSeq(ss)) <=> \E i \in 1..n : x \in Range(ss[i])
  BY <1>3, <1>5, FlattenRange
<1>9. ASSUME NEW x \in Range(FlattenSeq(ss))
      PROVE  x[1] \in {"compare", "prepare-directory", "journal", "publish-directory"}
  <2>1. PICK i \in 1..n : x \in Range(ss[i]) BY <1>8
  <2>2. PICK d \in NewDirectories : x \in Range(MakeDirectory(d)) BY <1>3, <1>4, <2>1
  <2>3. x \in {<<"compare", d, Nowhere>>, <<"prepare-directory", d>>, <<"journal", {d}>>, <<"publish-directory", d>>}
    BY <2>2, MakeDirectoryIs
  <2> QED BY <2>3
<1>10. ASSUME NEW k \in Stages PROVE FlattenSeq(ss) \in Leads(Step, Prepares(k), Publishes(k))
  <2> DEFINE P == Leads(Step, Prepares(k), Publishes(k))
  <2>1. P \in SUBSET Seq(Step) /\ <<>> \in P /\ \A t, u \in P : t \o u \in P
    <3>1. P \in SUBSET Seq(Step) BY DEF Leads
    <3> QED BY <3>1, ConcatNone
  <2>2. ss \in [1..n -> P] BY <1>6
  <2> HIDE DEF P
  <2>3. FlattenSeq(ss) \in P BY <1>3, <2>1, <2>2, FlattenIn
  <2> QED BY <2>3 DEF P
<1>11. ASSUME NEW d \in Directories
       PROVE  /\ FlattenSeq(ss) \in Preceded(Step, {<<"prepare-directory", d>>}, {<<"compare", d, Nowhere>>})
              /\ FlattenSeq(ss) # <<>> => Head(FlattenSeq(ss))[1] = "compare"
  <2> DEFINE A == {<<"prepare-directory", d>>}
             B == {<<"compare", d, Nowhere>>}
             P == {t \in Preceded(Step, A, B) : t # <<>> => Head(t)[1] = "compare"}
  <2>1. P \in SUBSET Seq(Step) /\ <<>> \in P BY ConcatNone DEF Preceded
  <2>2. ASSUME NEW t \in P, NEW u \in P PROVE t \o u \in P
    <3>1. t \in Seq(Step) /\ u \in Seq(Step) /\ t \in Preceded(Step, A, B) /\ u \in Preceded(Step, A, B)
      BY DEF Preceded
    <3>2. (t # <<>> => Head(t)[1] = "compare") /\ (u # <<>> => Head(u)[1] = "compare") OBVIOUS
    <3>3. u # <<>> => Head(u) \notin A BY <3>2
    <3>4. t \o u \in Preceded(Step, A, B)
      <4> HIDE DEF A, B, P
      <4> QED BY <3>1, <3>3, PrecededConcat
    <3>5. t \o u # <<>> => Head(t \o u)[1] = "compare"
      <4> HIDE DEF A, B, P
      <4> QED BY <3>1, <3>2, HeadConcat
    <3> QED BY <3>4, <3>5
  <2>3. ASSUME NEW i \in 1..n PROVE ss[i] \in P BY <1>3, <1>4, MakeDirectoryIs
  <2>4. ss \in [1..n -> P]
    <3> HIDE DEF P
    <3> QED BY <1>7, <2>3
  <2> HIDE DEF P
  <2>5. FlattenSeq(ss) \in P BY <1>3, <2>1, <2>2, <2>4, FlattenIn
  <2> QED BY <2>5 DEF P
<1>12. FlattenSeq(ss) # <<>> => Head(FlattenSeq(ss))[1] = "compare"
  <2>1. CASE Directories = {} BY <1>3, <2>1, PreviewIs, <1>8, TailIs
  <2> QED BY <1>11, <2>1
<1> QED BY <1>2, <1>8, <1>9, <1>10, <1>11, <1>12

\* The mutations; a note that is renamed.
LEMMA MutateIs ==
  ASSUME TypeOK, PreviewOK, Accepted, NEW i \in Operations
  PROVE  /\ Mutate(i) \in Seq(RunSteps)
         /\ \A x \in Range(Mutate(i)) :
              /\ x[1] \in {"prepare", "publish", "link", "unlink", "hide"}
              /\ x[1] \in {"prepare", "publish"} => x[2] = i
         /\ \A k \in Stages : /\ Mutate(i) \in Leads(Step, Prepares(k), Publishes(k))
                              /\ Mutate(i) \in Never(Step, Publishing(k), Staging(k))
         /\ \A p \in Files : Mutate(i) \in Adjacent(Step, Doubles(p), {<<"unlink", p>>})
         /\ request[i].kind = "move" => Mutate(i) = <<>>
<1> DEFINE op == request[i]
<1>0. i \in Stages /\ Operations \cap Paths = {} BY PreviewIs
<1>1. CASE op.kind = "copy"
  <2> DEFINE a == <<"prepare", i, op.from>>
             b == <<"publish", i, op.target>>
  <2>1. Mutate(i) = <<a, b>> BY <1>1 DEF Mutate
  <2>2. op.from \in Known /\ op.target \in Files \cap DOMAIN final /\ i \in Stageable \cap Stages
    BY <1>0, <1>1, PreviewIs DEF Stageable
  <2> HIDE DEF op
  <2>3. a \in RunSteps /\ b \in RunSteps /\ a \in Step /\ b \in Step BY <2>2, IsRunStep
  <2>4. a[1] = "prepare" /\ a[2] = i /\ b[1] = "publish" /\ b[2] = i OBVIOUS
  <2>5. a \in Staging(i) /\ a \in Prepares(i) BY <2>2 DEF Staging, Prepares
  <2>6. b \in Publishing(i) /\ b \in Publishes(i) BY <2>2, Sorts
  <2> HIDE DEF a, b
  <2>7. <<a, b>> \in Seq(RunSteps) /\ <<a, b>> \in Seq(Step) /\ Range(<<a, b>>) = {a, b} BY <2>3, ShortSeq, ShortRange
  <2>8. ASSUME NEW k \in Stages
        PROVE  /\ <<a, b>> \in Leads(Step, Prepares(k), Publishes(k))
               /\ <<a, b>> \in Never(Step, Publishing(k), Staging(k))
    <3>1. CASE k = i BY <2>4, Sorts, <2>3, <2>5, <2>6, <3>1, Pair
    <3>2. CASE k # i
      <4>1. {a, b} \cap Prepares(k) = {} /\ {a, b} \cap Publishing(k) = {} BY <2>4, <3>2, Sorts
      <4> QED BY <2>7, <4>1, NoneOf
    <3> QED BY <3>1, <3>2
  <2>9. ASSUME NEW p \in Files PROVE <<a, b>> \in Adjacent(Step, Doubles(p), {<<"unlink", p>>})
    <3>1. {a, b} \cap Doubles(p) = {} BY <2>4, Sorts
    <3> QED BY <2>7, <3>1, NoneOf
  <2>10. op.kind # "move" BY <1>1 DEF op
  <2> QED BY <2>1, <2>4, <2>7, <2>8, <2>9, <2>10 DEF op
<1>2. CASE op.kind \in {"move-attachment", "trash"}
  <2> DEFINE a == IF op.kind = "trash" THEN <<"hide", op.source, i>> ELSE <<"link", op.source, op.target>>
             b == <<"unlink", op.source>>
  <2>1. Mutate(i) = <<a, b>> BY <1>2 DEF Mutate, MoveToTrash, MoveFile
  <2>2. /\ op.source \in Files \cap DOMAIN final
        /\ op.kind = "move-attachment" => op.target \in Files \cap DOMAIN final
    BY <1>2, PreviewIs
  <2>3. a \in RunSteps /\ b \in RunSteps /\ a \in Step /\ b \in Step BY <2>2, IsRunStep, <1>2
  <2>4. a[1] \in {"hide", "link"} /\ b[1] = "unlink" OBVIOUS
  <2>5. a[2] = op.source OBVIOUS
  <2>6. b \in {<<"unlink", op.source>>} OBVIOUS
  <2> HIDE DEF a, b
  <2>7. <<a, b>> \in Seq(RunSteps) /\ <<a, b>> \in Seq(Step) /\ Range(<<a, b>>) = {a, b} BY <2>3, ShortSeq, ShortRange
  <2>8. ASSUME NEW k \in Stages
        PROVE  /\ <<a, b>> \in Leads(Step, Prepares(k), Publishes(k))
               /\ <<a, b>> \in Never(Step, Publishing(k), Staging(k))
    <3>1. {a, b} \cap Prepares(k) = {} /\ {a, b} \cap Publishing(k) = {} BY <2>4, Sorts
    <3> QED BY <2>7, <3>1, NoneOf
  <2>9. ASSUME NEW p \in Files PROVE <<a, b>> \in Adjacent(Step, Doubles(p), {<<"unlink", p>>})
    <3>1. b \notin Doubles(p) BY <2>4, Sorts
    <3>2. CASE p = op.source BY <2>3, <2>6, <3>1, <3>2, Pair
    <3>3. CASE p # op.source
      <4>1. {a, b} \cap Doubles(p) = {} BY <2>5, <3>1, <3>3, Sorts
      <4> QED BY <2>7, <4>1, NoneOf
    <3> QED BY <3>2, <3>3
  <2>10. op.kind # "move" BY <1>2
  <2> HIDE DEF op
  <2> QED BY <2>1, <2>4, <2>7, <2>8, <2>9, <2>10 DEF op
<1>3. CASE op.kind \notin {"copy", "move-attachment", "trash"} BY <1>3, ShortSeq, ShortRange, NoneOf DEF Mutate
<1> QED BY <1>1, <1>2, <1>3

LEMMA MutateAllIs ==
  ASSUME TypeOK, PreviewOK, Accepted
  PROVE  /\ MutateAll \in Seq(RunSteps)
         /\ \A x \in Range(MutateAll) :
              /\ x[1] \in {"prepare", "publish", "link", "unlink", "hide"}
              /\ x[1] \in {"prepare", "publish"} => x[2] \in Operations
         /\ \A k \in Stages : /\ MutateAll \in Leads(Step, Prepares(k), Publishes(k))
                              /\ MutateAll \in Never(Step, Publishing(k), Staging(k))
         /\ \A p \in Files : MutateAll \in Adjacent(Step, Doubles(p), {<<"unlink", p>>})
         /\ IsMove => Range(MutateAll) = {}
<1> DEFINE n == Len(request)
           ss == [i \in 1..n |-> Mutate(i)]
<1>1. n \in Nat /\ Operations = 1..n BY PreviewIs
<1>2. InOrder \in Seq(Operations) /\ Len(InOrder) = n /\ \A i \in 1..n : InOrder[i] = i
  <2>1. InOrder \in [1..n -> Operations] BY <1>1 DEF InOrder
  <2> HIDE DEF n
  <2> QED BY <1>1, <2>1, FunctionIsSeq DEF InOrder
<1>3. MutateAll = FlattenSeq(ss)
  <2>1. [i \in 1..Len(InOrder) |-> Mutate(InOrder[i])] = ss BY <1>2
  <2> HIDE DEF ss
  <2> QED BY <2>1 DEF MutateAll, Each
<1> HIDE DEF n
<1>4. \A i \in 1..n : i \in Operations /\ ss[i] = Mutate(i) BY <1>1
<1>5. ss \in [1..n -> Seq(RunSteps)] BY <1>1, MutateIs
<1>6. DOMAIN ss = 1..n /\ ss = [i \in 1..n |-> ss[i]] OBVIOUS
<1> HIDE DEF ss
<1>7. FlattenSeq(ss) \in Seq(RunSteps) /\ \A x : x \in Range(FlattenSeq(ss)) <=> \E i \in 1..n : x \in Range(ss[i])
  BY <1>1, <1>5, FlattenRange
<1>8. ASSUME NEW x \in Range(FlattenSeq(ss))
      PROVE  /\ x[1] \in {"prepare", "publish", "link", "unlink", "hide"}
             /\ x[1] \in {"prepare", "publish"} => x[2] \in Operations
  <2>1. PICK i \in 1..n : x \in Range(ss[i]) BY <1>7
  <2> QED BY <1>4, <2>1, MutateIs
<1>9. ASSUME NEW k \in Stages PROVE FlattenSeq(ss) \in Leads(Step, Prepares(k), Publishes(k))
  <2> DEFINE P == Leads(Step, Prepares(k), Publishes(k))
  <2>1. P \in SUBSET Seq(Step) /\ <<>> \in P /\ \A t, u \in P : t \o u \in P
    <3>1. P \in SUBSET Seq(Step) BY DEF Leads
    <3> QED BY <3>1, ConcatNone
  <2>2. \A i \in 1..n : ss[i] \in P BY <1>4, MutateIs
  <2> HIDE DEF P
  <2>3. ss \in [1..n -> P] BY <1>6, <2>2
  <2>4. FlattenSeq(ss) \in P BY <1>1, <2>1, <2>3, FlattenIn
  <2> QED BY <2>4 DEF P
<1>10. ASSUME NEW p \in Files PROVE FlattenSeq(ss) \in Adjacent(Step, Doubles(p), {<<"unlink", p>>})
  <2> DEFINE P == Adjacent(Step, Doubles(p), {<<"unlink", p>>})
  <2>1. P \in SUBSET Seq(Step) /\ <<>> \in P /\ \A t, u \in P : t \o u \in P BY ConcatNone DEF Adjacent
  <2>2. \A i \in 1..n : ss[i] \in P BY <1>4, MutateIs
  <2> HIDE DEF P
  <2>3. ss \in [1..n -> P] BY <1>6, <2>2
  <2>4. FlattenSeq(ss) \in P BY <1>1, <2>1, <2>3, FlattenIn
  <2> QED BY <2>4 DEF P
<1>11. ASSUME NEW k \in Stages PROVE FlattenSeq(ss) \in Never(Step, Publishing(k), Staging(k))
  <2> DEFINE P == Never(Step, Publishing(k), Staging(k))
  <2>1. \A i \in 1..n : ss[i] \in P BY <1>4, MutateIs
  <2>2. ss \in [1..n -> P]
    <3> HIDE DEF P
    <3> QED BY <1>6, <2>1
  <2>3. ASSUME NEW i \in 1..n, i # k PROVE Range(ss[i]) \cap (Publishing(k) \cup Staging(k)) = {}
    BY <1>4, MutateIs, <2>3, Sorts
  <2> QED BY <1>1, <2>2, <2>3, NeverFlatten
<1>12. ASSUME IsMove PROVE Range(FlattenSeq(ss)) = {}
  <2>1. \A i \in 1..n : request[i].kind = "move" BY <1>1, <1>12, PreviewIs DEF move
  <2>2. \A i \in 1..n : ss[i] = <<>> BY <1>4, <2>1, MutateIs
  <2> QED BY <1>7, <2>2, ShortRange
<1> QED BY <1>3, <1>7, <1>8, <1>9, <1>10, <1>11, <1>12

LEMMA RenameItIs ==
  ASSUME TypeOK, PreviewOK, Accepted
  PROVE  /\ RenameIt \in Seq(RunSteps)
         /\ \A x \in Range(RenameIt) :
              /\ x[1] \in {"compare", "publish", "link", "unlink"}
              /\ x[1] = "publish" => IsMove /\ x[2] = 1
         /\ SelfReferring => <<"publish", 1, move.source>> \in Range(RenameIt)
         /\ \A p \in Files : RenameIt \in Adjacent(Step, Doubles(p), {<<"unlink", p>>})
<1>1. CASE ~IsMove BY <1>1, ShortSeq, ShortRange, NoneOf DEF RenameIt, When, SelfReferring
<1>2. CASE IsMove
  <2> DEFINE s == move.source
             t == move.target
             r == When(SelfReferring, Rename(1, s))
             c == <<"compare", t, Nowhere>>
             l == <<"link", s, t>>
             u == <<"unlink", s>>
  <2>1. RenameIt = (r \o <<c>>) \o <<l, u>> BY <1>2 DEF RenameIt, RenameNote, When, MoveFile
  <2>2. {s, t} \subseteq Files \cap DOMAIN final /\ 1 \in Operations /\ 1 \in Stages BY <1>2, PreviewIs, Distinct
  <2> HIDE DEF s, t
  <2>3. r \in Seq(RunSteps) /\ \A x \in Range(r) : x[1] = "compare" \/ (x[1] = "publish" /\ x[2] = 1)
    <3>1. CASE SelfReferring
      <4>1. Rename(1, s) \in Seq(RunSteps) /\ Range(Rename(1, s)) = {<<"compare", s, disk[s]>>, <<"publish", 1, s>>}
        BY <2>2, RenameIs
      <4>2. r = Rename(1, s) BY <3>1 DEF When
      <4> HIDE DEF r
      <4> QED BY <4>1, <4>2
    <3>2. CASE ~SelfReferring
      <4>1. r = <<>> BY <3>2 DEF When
      <4> HIDE DEF r
      <4> QED BY <4>1, ShortSeq, ShortRange
    <3> QED BY <3>1, <3>2
  <2>4. SelfReferring => <<"publish", 1, s>> \in Range(r)
    <3> SUFFICES ASSUME SelfReferring PROVE <<"publish", 1, s>> \in Range(r) OBVIOUS
    <3>1. Range(Rename(1, s)) = {<<"compare", s, disk[s]>>, <<"publish", 1, s>>} BY <2>2, RenameIs
    <3>2. r = Rename(1, s) BY DEF When
    <3> HIDE DEF r
    <3> QED BY <3>1, <3>2
  <2>5. c \in RunSteps /\ l \in RunSteps /\ u \in RunSteps BY <2>2, Distinct, IsRunStep DEF Nowhere, At, Places
  <2>6. c[1] = "compare" /\ l[1] = "link" /\ u[1] = "unlink" /\ l[2] = s /\ u \in {<<"unlink", s>>} OBVIOUS
  <2> HIDE DEF r, c, l, u
  <2>7. /\ <<c>> \in Seq(RunSteps) /\ Range(<<c>>) = {c}
        /\ <<l, u>> \in Seq(RunSteps) /\ Range(<<l, u>>) = {l, u}
    BY <2>5, ShortSeq, ShortRange
  <2>8. r \o <<c>> \in Seq(RunSteps) /\ Range(r \o <<c>>) = Range(r) \cup {c} BY <2>3, <2>7, ConcatRange
  <2>9. RenameIt \in Seq(RunSteps) /\ Range(RenameIt) = (Range(r) \cup {c}) \cup {l, u}
    <3> DEFINE rc == r \o <<c>>
               lu == <<l, u>>
    <3>1. RenameIt = rc \o lu /\ rc \in Seq(RunSteps) /\ lu \in Seq(RunSteps)
          /\ Range(rc) = Range(r) \cup {c} /\ Range(lu) = {l, u}
      BY <2>1, <2>7, <2>8
    <3> HIDE DEF rc, lu
    <3>2. rc \o lu \in Seq(RunSteps) /\ Range(rc \o lu) = Range(rc) \cup Range(lu) BY <3>1, ConcatRange
    <3> QED BY <3>1, <3>2
  <2>10. ASSUME NEW x \in Range(RenameIt)
         PROVE  /\ x[1] \in {"compare", "publish", "link", "unlink"}
                /\ x[1] = "publish" => IsMove /\ x[2] = 1
    BY <1>2, <2>3, <2>6, <2>9
  <2>11. ASSUME NEW p \in Files PROVE RenameIt \in Adjacent(Step, Doubles(p), {<<"unlink", p>>})
    <3>1. RunSteps \subseteq Step /\ r \o <<c>> \in Seq(Step) /\ <<l, u>> \in Seq(Step) /\ l \in Step /\ u \in Step
      BY <2>5, <2>7, <2>8, IsRunStep
    <3>2. r \o <<c>> \in Adjacent(Step, Doubles(p), {<<"unlink", p>>})
      <4>1. Range(r \o <<c>>) \cap Doubles(p) = {} BY <2>3, <2>6, <2>8, Sorts
      <4> QED BY <3>1, <4>1, NoneOf
    <3>3. u \notin Doubles(p) BY <2>6, Sorts
    <3>4. <<l, u>> \in Adjacent(Step, Doubles(p), {<<"unlink", p>>})
      <4>1. CASE p = s BY <2>6, <3>1, <3>3, <4>1, Pair
      <4>2. CASE p # s
        <5>1. {l, u} \cap Doubles(p) = {} BY <2>6, <3>3, <4>2, Sorts
        <5> QED BY <2>7, <3>1, <5>1, NoneOf
      <4> QED BY <4>1, <4>2
    <3> QED BY <2>1, <3>2, <3>4, AdjacentConcat
  <2>12. SelfReferring => <<"publish", 1, move.source>> \in Range(RenameIt) BY <2>4, <2>9 DEF s
  <2> QED BY <2>9, <2>10, <2>11, <2>12
<1> QED BY <1>1, <1>2

-----------------------------------------------------------------------------
(* The execution.                                                          *)

\* The parts that are one step or two.
LEMMA OnesAre ==
  ASSUME TypeOK, PreviewOK, Accepted
  PROVE  /\ << <<"save">> >> \in Seq(RunSteps) /\ Range(<< <<"save">> >>) = {<<"save">>}
         /\ JournalStaged \in Seq(RunSteps) /\ \A x \in Range(JournalStaged) : x[1] = "journal"
         /\ StageMoved \in Seq(RunSteps)
         /\ \A x \in Range(StageMoved) :
              /\ x[1] \in {"discard", "prepare"}
              /\ x[1] = "prepare" => SelfReferring /\ x[2] = 1
<1>0. <<>> \in Seq(RunSteps) /\ Range(<<>>) = {} BY ShortSeq, ShortRange
<1>1. << <<"save">> >> \in Seq(RunSteps) /\ Range(<< <<"save">> >>) = {<<"save">>}
  <2> DEFINE a == <<"save">>
  <2>1. a \in RunSteps BY IsRunStep
  <2> HIDE DEF a
  <2>2. <<a>> \in Seq(RunSteps) /\ Range(<<a>>) = {a} BY <2>1, ShortSeq, ShortRange
  <2> QED BY <2>2 DEF a
<1>2. JournalStaged \in Seq(RunSteps) /\ \A x \in Range(JournalStaged) : x[1] = "journal"
  <2> DEFINE a == <<"journal", Staged>>
  <2>1. Staged \in SUBSET Paths BY PreviewIs, Distinct
  <2>2. a \in RunSteps /\ a[1] = "journal" BY <2>1, IsRunStep
  <2>3. JournalStaged \in {<<>>, <<a>>} BY DEF JournalStaged, When
  <2> HIDE DEF a
  <2>4. <<a>> \in Seq(RunSteps) /\ Range(<<a>>) = {a} BY <2>2, ShortSeq, ShortRange
  <2> QED BY <1>0, <2>2, <2>3, <2>4
<1>3. /\ StageMoved \in Seq(RunSteps)
      /\ \A x \in Range(StageMoved) :
              /\ x[1] \in {"discard", "prepare"}
              /\ x[1] = "prepare" => SelfReferring /\ x[2] = 1
  <2>1. CASE ~SelfReferring BY <2>1, <1>0 DEF StageMoved, When
  <2>2. CASE SelfReferring
    <3> DEFINE a == <<"discard", 1>>
               b == <<"prepare", 1, move.to>>
    <3>1. StageMoved = <<a, b>> BY <2>2 DEF StageMoved, When
    <3>2. 1 \in Stages \cap Stageable /\ move.to \in Known BY <2>2, PreviewIs DEF SelfReferring, Stageable
    <3>3. a \in RunSteps /\ b \in RunSteps /\ a[1] = "discard" /\ b[1] = "prepare" /\ b[2] = 1 BY <3>2, IsRunStep
    <3> HIDE DEF a, b
    <3>4. <<a, b>> \in Seq(RunSteps) /\ Range(<<a, b>>) = {a, b} BY <3>3, ShortSeq, ShortRange
    <3> QED BY <2>2, <3>1, <3>3, <3>4
  <2> QED BY <2>1, <2>2
<1> QED BY <1>1, <1>2, <1>3

LEMMA HeadNot ==
  ASSUME NEW U, NEW A, NEW t \in Seq(U), Range(t) \cap A = {}
  PROVE  t # <<>> => Head(t) \notin A BY TailIs

\* An execution stages what it publishes, publishes what it staged, looks at
\* the place of a directory before it makes it, and removes the second name.
LEMMA ExecutionIs ==
  ASSUME TypeOK, PreviewOK, Accepted
  PROVE  /\ Execution \in Seq(RunSteps) /\ Execution # <<>> /\ Head(Execution) = <<"save">>
         /\ \A k \in Stages : /\ Execution \in Leads(Step, Prepares(k), Publishes(k))
                              /\ Execution \in Never(Step, Publishing(k), Staging(k))
         /\ \A d \in Directories :
              Execution \in Preceded(Step, {<<"prepare-directory", d>>}, {<<"compare", d, Nowhere>>})
         /\ \A p \in Files : Execution \in Adjacent(Step, Doubles(p), {<<"unlink", p>>})
<1> DEFINE E0 == << <<"save">> >>
           E1 == StageAll
           E2 == JournalStaged
           E3 == StageMoved
           E4 == MakeAll
           E5 == PublishAll
           E6 == MutateAll
           E7 == RenameIt
           X1 == E0 \o E1
           X2 == X1 \o E2
           X3 == X2 \o E3
           X4 == X3 \o E4
           X5 == X4 \o E5
           X6 == X5 \o E6
           X7 == X6 \o E7
<1>1. Execution = X7 BY DEF Execution, StageAll, JournalStaged, StageMoved, MakeAll, PublishAll, MutateAll, RenameIt
<1>2. /\ E0 \in Seq(RunSteps) /\ \A x \in Range(E0) : x[1] = "save"
      /\ E1 \in Seq(RunSteps) /\ \A x \in Range(E1) : x[1] = "prepare" /\ x[2] \in Staged
      /\ E2 \in Seq(RunSteps) /\ \A x \in Range(E2) : x[1] = "journal"
      /\ E3 \in Seq(RunSteps) /\ \A x \in Range(E3) :
           x[1] \in {"discard", "prepare"} /\ (x[1] = "prepare" => SelfReferring /\ x[2] = 1) BY OnesAre, StageAllIs
<1>3. /\ E4 \in Seq(RunSteps)
      /\ \A x \in Range(E4) : x[1] \in {"compare", "prepare-directory", "journal", "publish-directory"}
      /\ E4 # <<>> => Head(E4)[1] = "compare"
  BY MakeAllIs
<1>4. /\ E5 \in Seq(RunSteps) /\ \A p \in Staged : <<"publish", p, p>> \in Range(E5)
      /\ \A x \in Range(E5) : x[1] \in {"compare", "publish"} /\ (x[1] = "publish" => x[2] \in Staged)
  BY PublishAllIs
<1>5. /\ E6 \in Seq(RunSteps)
      /\ \A x \in Range(E6) : /\ x[1] \in {"prepare", "publish", "link", "unlink", "hide"}
                              /\ x[1] \in {"prepare", "publish"} => x[2] \in Operations
  BY MutateAllIs
<1>6. /\ E7 \in Seq(RunSteps) /\ \A x \in Range(E7) : x[1] \in {"compare", "publish", "link", "unlink"}
      /\ SelfReferring => <<"publish", 1, move.source>> \in Range(E7)
  BY RenameItIs
<1>7. /\ \A k \in Stages : E4 \in Leads(Step, Prepares(k), Publishes(k))
      /\ \A k \in Stages : E6 \in Leads(Step, Prepares(k), Publishes(k))
      /\ \A k \in Stages : E6 \in Never(Step, Publishing(k), Staging(k))
  BY MakeAllIs, MutateAllIs
<1>8. /\ \A d \in Directories : E4 \in Preceded(Step, {<<"prepare-directory", d>>}, {<<"compare", d, Nowhere>>})
      /\ \A p \in Files : E6 \in Adjacent(Step, Doubles(p), {<<"unlink", p>>})
      /\ \A p \in Files : E7 \in Adjacent(Step, Doubles(p), {<<"unlink", p>>})
  BY MakeAllIs, MutateAllIs, RenameItIs
<1>9. Staged \cap Operations = {} /\ Stages = Paths \cup Operations /\ Operations \cap Paths = {} /\ Staged \subseteq Paths
      /\ (SelfReferring => 1 \in Operations /\ move.source \in Files)
  BY PreviewIs, Distinct DEF SelfReferring
<1>10. E0 # <<>> /\ Head(E0) = <<"save">>
  <2> DEFINE a == <<"save">>
  <2> HIDE DEF a
  <2>1. <<a>> # <<>> /\ Head(<<a>>) = a OBVIOUS
  <2> QED BY <2>1 DEF a
<1>11. RunSteps \subseteq Step BY IsRunStep
<1> HIDE DEF E0, E1, E2, E3, E4, E5, E6, E7
<1>12. X1 \in Seq(RunSteps) /\ Range(X1) = Range(E0) \cup Range(E1) /\ X1 # <<>> /\ Head(X1) = <<"save">>
  BY <1>2, <1>10, ConcatRange, HeadConcat
<1> HIDE DEF X1
<1>13. X2 \in Seq(RunSteps) /\ Range(X2) = Range(X1) \cup Range(E2) /\ X2 # <<>> /\ Head(X2) = <<"save">>
  BY <1>2, <1>12, ConcatRange, HeadConcat
<1> HIDE DEF X2
<1>14. X3 \in Seq(RunSteps) /\ Range(X3) = Range(X2) \cup Range(E3) /\ X3 # <<>> /\ Head(X3) = <<"save">>
  BY <1>2, <1>13, ConcatRange, HeadConcat
<1> HIDE DEF X3
<1>15. X4 \in Seq(RunSteps) /\ Range(X4) = Range(X3) \cup Range(E4) /\ X4 # <<>> /\ Head(X4) = <<"save">>
  BY <1>3, <1>14, ConcatRange, HeadConcat
<1> HIDE DEF X4
<1>16. X5 \in Seq(RunSteps) /\ Range(X5) = Range(X4) \cup Range(E5) /\ X5 # <<>> /\ Head(X5) = <<"save">>
  BY <1>4, <1>15, ConcatRange, HeadConcat
<1> HIDE DEF X5
<1>17. X6 \in Seq(RunSteps) /\ Range(X6) = Range(X5) \cup Range(E6) /\ X6 # <<>> /\ Head(X6) = <<"save">>
  BY <1>5, <1>16, ConcatRange, HeadConcat
<1> HIDE DEF X6
<1>18. X7 \in Seq(RunSteps) /\ X7 # <<>> /\ Head(X7) = <<"save">> BY <1>6, <1>17, ConcatRange, HeadConcat
<1> HIDE DEF X7
<1>19. /\ E0 \in Seq(Step) /\ E1 \in Seq(Step) /\ E2 \in Seq(Step) /\ E3 \in Seq(Step)
       /\ E4 \in Seq(Step) /\ E5 \in Seq(Step) /\ E6 \in Seq(Step) /\ E7 \in Seq(Step)
  BY <1>2, <1>3, <1>4, <1>5, <1>6, <1>11
<1>20. X1 \in Seq(Step) /\ X2 \in Seq(Step) /\ X3 \in Seq(Step) /\ X4 \in Seq(Step) /\ X5 \in Seq(Step) /\ X6 \in Seq(Step)
  BY <1>11, <1>12, <1>13, <1>14, <1>15, <1>16, <1>17
<1>21. ASSUME NEW k \in Stages PROVE X7 \in Leads(Step, Prepares(k), Publishes(k))
  <2> DEFINE P == Leads(Step, Prepares(k), Publishes(k))
             A == Prepares(k)
  <2>0. \A x \in A : x[1] \in {"prepare", "prepare-directory"} /\ x[2] = k BY Sorts
  <2> HIDE DEF A
  <2>1. E0 \in P /\ E2 \in P /\ E5 \in P /\ E7 \in P BY <1>2, <1>4, <1>6, <2>0, <1>19, NoneOf DEF A
  <2>2. E4 \in P /\ E6 \in P BY <1>7
  <2>3. k \notin Staged => E1 \in P BY <1>2, <2>0, <1>19, NoneOf DEF A
  <2>4. ~(SelfReferring /\ k = 1) => E3 \in P BY <1>2, <2>0, <1>19, NoneOf DEF A
  <2>5. \A s, t \in P : s \o t \in P BY ConcatNone
  <2>6. CASE k \in Staged
    <3>1. <<"publish", k, k>> \in Range(E5) /\ k \in Files BY <1>4, <2>6, PreviewIs, Distinct
    <3>2. Range(E5) \cap Publishes(k) # {} BY <3>1, Sorts
    <3>3. X5 \in P BY <1>20, <2>1, <3>2, LeadsConcat DEF X5
    <3> HIDE DEF P
    <3>4. X6 \in P BY <2>2, <2>5, <3>3 DEF X6
    <3>5. X7 \in P BY <2>1, <2>5, <3>4 DEF X7
    <3> QED BY <3>5 DEF P
  <2>7. CASE SelfReferring /\ k = 1
    <3>1. Range(E7) \cap Publishes(k) # {}
      <4> DEFINE b == <<"publish", 1, move.source>>
      <4>1. b \in Range(E7) BY <1>6, <2>7
      <4>2. b \in Publishes(1) BY <1>9, <2>7, Sorts
      <4> HIDE DEF b
      <4> QED BY <2>7, <4>1, <4>2
    <3>2. X7 \in P BY <1>20, <2>1, <3>1, LeadsConcat DEF X7
    <3> QED BY <3>2
  <2>8. CASE k \notin Staged /\ ~(SelfReferring /\ k = 1)
    <3> HIDE DEF P
    <3>1. X1 \in P BY <2>1, <2>3, <2>5, <2>8 DEF X1
    <3>2. X2 \in P BY <2>1, <2>5, <3>1 DEF X2
    <3>3. X3 \in P BY <2>4, <2>5, <2>8, <3>2 DEF X3
    <3>4. X4 \in P BY <2>2, <2>5, <3>3 DEF X4
    <3>5. X5 \in P BY <2>1, <2>5, <3>4 DEF X5
    <3>6. X6 \in P BY <2>2, <2>5, <3>5 DEF X6
    <3>7. X7 \in P BY <2>1, <2>5, <3>6 DEF X7
    <3> QED BY <3>7 DEF P
  <2> QED BY <2>6, <2>7, <2>8
<1>22. ASSUME NEW k \in Stages PROVE X7 \in Never(Step, Publishing(k), Staging(k))
  <2> DEFINE A == Publishing(k)
             B == Staging(k)
             P == Never(Step, A, B)
  <2>1. (\A x \in A : x[1] = "publish" /\ x[2] = k) /\ (\A x \in B : x[1] = "prepare" /\ x[2] = k) BY Sorts
  <2> HIDE DEF A, B
  <2>2. Range(X4) \cap A = {} BY <1>12, <1>13, <1>14, <1>15, <1>2, <1>3, <2>1
  <2>3. X4 \in P BY <1>20, <2>2, NoneOf
  <2>4. E5 \in P /\ E7 \in P /\ Range(E7) \cap B = {} BY <1>4, <1>6, <2>1, <1>19, NoneAfter
  <2>5. X5 \in P BY <2>2, <2>3, <2>4, NeverConcat DEF X5
  <2>6. E6 \in P BY <1>7 DEF A, B
  <2>7. Range(X5) \cap A = {} \/ Range(E6) \cap B = {} BY <1>9, <1>4, <2>1, <1>16, <2>2, <1>5
  <2>8. X6 \in P BY <2>5, <2>6, <2>7, NeverConcat DEF X6
  <2>9. X7 \in P BY <2>4, <2>8, NeverConcat DEF X7
  <2> QED BY <2>9 DEF A, B
<1>23. ASSUME NEW d \in Directories
       PROVE  X7 \in Preceded(Step, {<<"prepare-directory", d>>}, {<<"compare", d, Nowhere>>})
  <2> DEFINE A == {<<"prepare-directory", d>>}
             B == {<<"compare", d, Nowhere>>}
             P == Preceded(Step, A, B)
  <2>1. \A x \in A : x[1] = "prepare-directory" OBVIOUS
  <2>2. E4 \in P BY <1>8
  <2> HIDE DEF A, B
  <2>3. /\ Range(X3) \cap A = {} /\ Range(E5) \cap A = {} /\ Range(E6) \cap A = {} /\ Range(E7) \cap A = {}
    BY <1>12, <1>13, <1>14, <1>2, <1>4, <1>5, <1>6, <2>1
  <2>4. X3 \in P /\ E5 \in P /\ E6 \in P /\ E7 \in P BY <1>19, <1>20, <2>3, NoneOf
  <2>5. /\ E4 # <<>> => Head(E4) \notin A
        /\ E5 # <<>> => Head(E5) \notin A
        /\ E6 # <<>> => Head(E6) \notin A
        /\ E7 # <<>> => Head(E7) \notin A
    BY <1>3, <1>19, <2>1, <2>3, HeadNot
  <2>6. X4 \in P BY <1>19, <1>20, <2>2, <2>4, <2>5, PrecededConcat DEF X4
  <2>7. X5 \in P BY <1>19, <1>20, <2>4, <2>5, <2>6, PrecededConcat DEF X5
  <2>8. X6 \in P BY <1>19, <1>20, <2>4, <2>5, <2>7, PrecededConcat DEF X6
  <2>9. X7 \in P BY <1>19, <1>20, <2>4, <2>5, <2>8, PrecededConcat DEF X7
  <2> QED BY <2>9 DEF A, B
<1>24. ASSUME NEW p \in Files PROVE X7 \in Adjacent(Step, Doubles(p), {<<"unlink", p>>})
  <2> DEFINE P == Adjacent(Step, Doubles(p), {<<"unlink", p>>})
             A == Doubles(p)
  <2>1. \A x \in A : x[1] \in {"link", "hide"} BY Sorts
  <2>2. E6 \in P /\ E7 \in P BY <1>8
  <2>3. \A s, t \in P : s \o t \in P BY ConcatNone
  <2> HIDE DEF A
  <2>4. Range(X5) \cap A = {} BY <1>12, <1>13, <1>14, <1>15, <1>16, <1>2, <1>3, <1>4, <2>1
  <2>5. X5 \in P BY <1>20, <2>4, NoneOf DEF A
  <2> HIDE DEF P
  <2>6. X6 \in P BY <2>2, <2>3, <2>5 DEF X6
  <2>7. X7 \in P BY <2>2, <2>3, <2>6 DEF X7
  <2> QED BY <2>7 DEF P
<1> QED BY <1>1, <1>18, <1>21, <1>22, <1>23, <1>24

-----------------------------------------------------------------------------
(* The parts of a restore: they are made of steps that spare, or refuse.   *)

\* Which steps spare, by what is at the path.
LEMMA IsSparing ==
  /\ Sparing \subseteq UndoSteps /\ Sparing \subseteq Step
  /\ \A k \in Stages : <<"discard", k>> \in Sparing
  /\ \A i \in Operations : <<"drop", i>> \in Sparing
  /\ \A p \in Files \cap DOMAIN final, b \in Known : disk[p].is # Theirs => <<"undo-copy", p, b>> \in Sparing
  /\ \A p \in Files, q \in Files \cap DOMAIN final : disk[p].is # Theirs => <<"link", p, q>> \in Sparing
  /\ \A p \in Files \cap DOMAIN final : disk[p].is # Theirs => <<"unlink", p>> \in Sparing
  /\ \A p \in Files \cap DOMAIN final, i \in Operations : trash[i].is # Theirs => <<"unhide", p, i>> \in Sparing
  /\ \A k \in Stages \cap Restaged, b \in Known : <<"prepare-back", k, b>> \in Sparing
  /\ \A p \in Files \cap DOMAIN final, k \in Stages : disk[p].is # Theirs => <<"publish-back", k, p>> \in Sparing
  /\ \A d \in Directories \cap NewDirectories : disk[d].is # Theirs => <<"remove-directory", d>> \in Sparing
<1>1. Sparing \subseteq UndoSteps /\ Sparing \subseteq Step BY IsUndoStep DEF Sparing
<1>2. \A k \in Stages : <<"discard", k>> \in Sparing BY IsUndoStep DEF Sparing
<1>3. \A i \in Operations : <<"drop", i>> \in Sparing BY IsUndoStep DEF Sparing
<1>4. \A p \in Files \cap DOMAIN final, b \in Known : disk[p].is # Theirs => <<"undo-copy", p, b>> \in Sparing
  BY IsUndoStep DEF Sparing
<1>5. \A p \in Files, q \in Files \cap DOMAIN final : disk[p].is # Theirs => <<"link", p, q>> \in Sparing
  BY IsUndoStep DEF Sparing
<1>6. \A p \in Files \cap DOMAIN final : disk[p].is # Theirs => <<"unlink", p>> \in Sparing BY IsUndoStep DEF Sparing
<1>7. \A p \in Files \cap DOMAIN final, i \in Operations : trash[i].is # Theirs => <<"unhide", p, i>> \in Sparing
  BY IsUndoStep DEF Sparing
<1>8. \A k \in Stages \cap Restaged, b \in Known : <<"prepare-back", k, b>> \in Sparing BY IsUndoStep DEF Sparing
<1>9. \A p \in Files \cap DOMAIN final, k \in Stages : disk[p].is # Theirs => <<"publish-back", k, p>> \in Sparing
  BY IsUndoStep DEF Sparing
<1>10. \A d \in Directories \cap NewDirectories : disk[d].is # Theirs => <<"remove-directory", d>> \in Sparing
  BY IsUndoStep DEF Sparing
<1> QED BY <1>1, <1>2, <1>3, <1>4, <1>5, <1>6, <1>7, <1>8, <1>9, <1>10

\* A part that spares or refuses, and a plan of such parts.
LEMMA SparingPart ==
  ASSUME NEW s \in Seq(Sparing), \A x \in Range(s) : x[1] # "prepare-back"
  PROVE  PartOK(s)
<1>1. s \in Seq(Step) BY IsSparing
<1>2. ASSUME NEW k \in Stages PROVE s \in Leads(Step, PreparesBack(k), PublishesBack(k)) BY Sorts, <1>1, NoneOf
<1> QED BY <1>1, <1>2 DEF PartOK

LEMMA RefusedPart == PartOK(Refused) /\ <<"refuse">> \in Range(Refused)
<1> DEFINE a == <<"refuse">>
<1>1. a \in Step /\ Refused = <<a>> BY IsStep DEF Refused
<1> HIDE DEF a
<1>2. <<a>> \in Seq(Step) /\ Range(<<a>>) = {a} BY <1>1, ShortSeq, ShortRange
<1> QED BY <1>1, <1>2 DEF PartOK, a

LEMMA ConcatPart ==
  ASSUME NEW s, NEW t, PartOK(s), PartOK(t)
  PROVE  PartOK(s \o t) /\ Range(s \o t) = Range(s) \cup Range(t)
<1>1. s \in Seq(Step) /\ t \in Seq(Step) BY DEF PartOK
<1>2. s \o t \in Seq(Step) /\ Range(s \o t) = Range(s) \cup Range(t) BY <1>1, ConcatRange
<1>3. ASSUME <<"refuse">> \notin Range(s \o t)
      PROVE  s \o t \in Seq(Sparing) /\ \A k \in Stages : s \o t \in Leads(Step, PreparesBack(k), PublishesBack(k))
  BY <1>2, <1>3, ConcatProperties, ConcatNone DEF PartOK
<1> QED BY <1>2, <1>3 DEF PartOK

LEMMA FlattenPart ==
  ASSUME NEW n \in Nat, NEW ss, ss = [i \in 1..n |-> ss[i]], \A i \in 1..n : PartOK(ss[i])
  PROVE  /\ PartOK(FlattenSeq(ss))
         /\ \A x : x \in Range(FlattenSeq(ss)) <=> \E i \in 1..n : x \in Range(ss[i])
<1> DEFINE P == {s \in Seq(Step) : PartOK(s)}
<1>1. P \in SUBSET Seq(Step) /\ <<>> \in P BY ShortSeq, ShortRange, SparingPart DEF PartOK
<1>2. \A s, t \in P : s \o t \in P BY ConcatPart DEF PartOK
<1>3. \A i \in 1..n : ss[i] \in P BY DEF PartOK
<1> HIDE DEF P
<1>4. ss \in [1..n -> P] BY <1>3
<1>5. FlattenSeq(ss) \in P BY <1>1, <1>2, <1>4, FlattenIn
<1>6. ss \in [1..n -> Seq(Step)] BY <1>1, <1>4
<1>7. \A x : x \in Range(FlattenSeq(ss)) <=> \E i \in 1..n : x \in Range(ss[i]) BY <1>6, FlattenRange
<1> QED BY <1>5, <1>7 DEF P

LEMMA PutBackIs ==
  ASSUME NEW k \in Stages \cap Restaged, NEW p \in Files \cap DOMAIN final, NEW b \in Known, disk[p].is # Theirs
  PROVE  PartOK(PutBack(k, p, b)) /\ Range(PutBack(k, p, b)) \cap PublishesBack(k) # {}
         /\ Range(PutBack(k, p, b)) = {<<"prepare-back", k, b>>, <<"publish-back", k, p>>}
<1> DEFINE x == <<"prepare-back", k, b>>
           y == <<"publish-back", k, p>>
<1>1. x \in Sparing /\ y \in Sparing /\ PutBack(k, p, b) = <<x, y>> BY IsSparing DEF PutBack
<1>2. y \in PublishesBack(k) BY Sorts
<1>3. x[1] = "prepare-back" /\ x[2] = k /\ y[1] = "publish-back" OBVIOUS
<1> HIDE DEF x, y
<1>4. x \in Step /\ y \in Step BY <1>1, IsSparing
<1>5. <<x, y>> \in Seq(Step) /\ <<x, y>> \in Seq(Sparing) /\ Range(<<x, y>>) = {x, y}
  BY <1>1, <1>4, ShortSeq, ShortRange
<1>6. ASSUME NEW j \in Stages PROVE <<x, y>> \in Leads(Step, PreparesBack(j), PublishesBack(j))
  <2>1. y \notin PreparesBack(j) BY <1>3, Sorts
  <2>2. CASE j = k BY <1>2, <1>4, <2>1, <2>2, Pair
  <2>3. CASE j # k
    <3>1. Range(<<x, y>>) \cap PreparesBack(j) = {} BY <1>3, <1>5, <2>1, <2>3, Sorts
    <3> QED BY <1>5, <3>1, NoneOf
  <2> QED BY <2>2, <2>3
<1>7. PartOK(<<x, y>>) BY <1>5, <1>6 DEF PartOK
<1> QED BY <1>1, <1>2, <1>5, <1>7 DEF x, y

\* Each part of the restore refuses what is a third party's.
LEMMA UndoIs ==
  ASSUME TypeOK, PreviewOK, Accepted, NEW i \in Operations
  PROVE  /\ PartOK(Undo(i))
         /\ <<"refuse">> \notin Range(Undo(i)) =>
              /\ request[i].kind = "trash" /\ trash[i] # Nowhere => <<"drop", i>> \in Range(Undo(i))
              /\ request[i].kind = "copy" => <<"discard", i>> \in Range(Undo(i))
<1> DEFINE op == request[i]
           from == op.from
           src == op.source
           tgt == op.target
           B == <<"drop", i>>
           D == <<"discard", i>>
<1>0. i \in Stages /\ B \in Sparing /\ D \in Sparing BY PreviewIs, IsSparing
<1>1. CASE op.kind = "copy"
  <2>0. from \in Known /\ tgt \in Files \cap DOMAIN final BY <1>1, PreviewIs
  <2>1. CASE disk[tgt].is = from \/ disk[tgt].is = Absent
    <3> DEFINE a == <<"undo-copy", tgt, from>>
    <3>1. Undo(i) = <<a, D>> BY <1>1, <2>1 DEF Undo, UndoCopy, Is
    <3>2. disk[tgt].is # Theirs BY <2>0, <2>1, Distinct
    <3>3. a \in Sparing BY <2>0, <3>2, IsSparing
    <3>4. a[1] = "undo-copy" /\ D[1] = "discard" OBVIOUS
    <3> HIDE DEF a, D
    <3>5. <<a, D>> \in Seq(Sparing) /\ Range(<<a, D>>) = {a, D} BY <1>0, <3>3, ShortSeq, ShortRange
    <3>6. PartOK(<<a, D>>) BY <3>4, <3>5, SparingPart
    <3>7. op.kind # "trash" BY <1>1
    <3> QED BY <3>1, <3>5, <3>6, <3>7 DEF D
  <2>2. CASE ~(disk[tgt].is = from \/ disk[tgt].is = Absent) BY <1>1, <2>2, RefusedPart DEF Undo, UndoCopy, Is
  <2> QED BY <2>1, <2>2
<1>2. CASE op.kind = "move-attachment"
  <2>0. from \in Known /\ tgt \in Files \cap DOMAIN final /\ src \in Files \cap DOMAIN final /\ from # Theirs /\ from # Absent
    BY <1>2, PreviewIs, Distinct
  <2> DEFINE l == <<"link", tgt, src>>
             u == <<"unlink", tgt>>
  <2>1. disk[tgt].is = from => l \in Sparing /\ u \in Sparing BY <2>0, IsSparing
  <2>2. l[1] = "link" /\ u[1] = "unlink" OBVIOUS
  <2>3. Undo(i) = UndoMoveAttachment(op) BY <1>2 DEF Undo
  <2>4. CASE disk[src].is = from /\ disk[tgt].is = Absent
    BY <2>0, <2>3, <2>4, ShortSeq, ShortRange, <1>2, SparingPart DEF UndoMoveAttachment, Is
  <2>5. CASE disk[src].is = Absent /\ disk[tgt].is = from
    <3>1. Undo(i) = <<l, u>> BY <2>0, <2>3, <2>5 DEF UndoMoveAttachment, MoveFile, Is
    <3> HIDE DEF l, u
    <3>2. <<l, u>> \in Seq(Sparing) /\ Range(<<l, u>>) = {l, u} BY <2>1, <2>5, ShortSeq, ShortRange
    <3>3. PartOK(<<l, u>>) BY <2>2, <3>2, SparingPart
    <3> QED BY <1>2, <3>1, <3>3
  <2>6. CASE disk[src].is = from /\ disk[tgt].is = from
    <3>1. Undo(i) = <<u>> BY <2>0, <2>3, <2>6 DEF UndoMoveAttachment, Is
    <3> HIDE DEF u
    <3>2. <<u>> \in Seq(Sparing) /\ Range(<<u>>) = {u} BY <2>1, <2>6, ShortSeq, ShortRange
    <3>3. PartOK(<<u>>) BY <2>2, <3>2, SparingPart
    <3> QED BY <1>2, <3>1, <3>3
  <2>7. CASE /\ ~(disk[src].is = from /\ disk[tgt].is = Absent)
             /\ ~(disk[src].is = Absent /\ disk[tgt].is = from)
             /\ ~(disk[src].is = from /\ disk[tgt].is = from)
    BY <2>3, <2>7, RefusedPart DEF UndoMoveAttachment, Is
  <2> QED BY <2>4, <2>5, <2>6, <2>7
<1>3. CASE op.kind = "trash"
  <2>0. from \in Known /\ src \in Files \cap DOMAIN final /\ from # Theirs /\ from # Absent
    BY <1>3, PreviewIs, Distinct
  <2> DEFINE u == <<"unhide", src, i>>
  <2>1. trash[i].is = from => u \in Sparing BY <2>0, IsSparing
  <2>2. u[1] = "unhide" /\ B[1] = "drop" OBVIOUS
  <2>3. Undo(i) = UndoTrash(op, i) BY <1>3 DEF Undo
  <2>9. trash[i] = Nowhere => trash[i].is = Absent BY DEF Nowhere, At
  <2>10. op.kind # "copy" BY <1>3
  <2>4. CASE disk[src].is = Absent /\ trash[i].is = from
    <3>1. Undo(i) = <<u, B>> BY <2>0, <2>3, <2>4 DEF UndoTrash, Is
    <3> HIDE DEF u, B
    <3>2. <<u, B>> \in Seq(Sparing) /\ Range(<<u, B>>) = {u, B} BY <1>0, <2>1, <2>4, ShortSeq, ShortRange
    <3>3. PartOK(<<u, B>>) BY <2>2, <3>2, SparingPart
    <3> QED BY <2>10, <3>1, <3>2, <3>3 DEF B
  <2>5. CASE disk[src].is = from /\ trash[i].is = from
    <3>1. Undo(i) = <<B>> BY <2>0, <2>3, <2>5, <2>9 DEF UndoTrash, Is
    <3> HIDE DEF B
    <3>2. <<B>> \in Seq(Sparing) /\ Range(<<B>>) = {B} BY <1>0, ShortSeq, ShortRange
    <3>3. PartOK(<<B>>) BY <2>2, <3>2, SparingPart
    <3> QED BY <2>10, <3>1, <3>2, <3>3 DEF B
  <2>6. CASE disk[src].is = from /\ trash[i] = Nowhere
    BY <2>0, <2>3, <2>6, <2>9, ShortSeq, ShortRange, <2>10, SparingPart DEF UndoTrash, Is
  <2>7. CASE /\ ~(disk[src].is = Absent /\ trash[i].is = from)
             /\ ~(disk[src].is = from /\ trash[i].is = from)
             /\ ~(disk[src].is = from /\ trash[i] = Nowhere)
    BY <2>3, <2>7, RefusedPart DEF UndoTrash, Is
  <2> QED BY <2>4, <2>5, <2>6, <2>7
<1>4. CASE op.kind \notin {"copy", "move-attachment", "trash"} BY <1>4, ShortSeq, ShortRange, SparingPart DEF Undo
<1> QED BY <1>1, <1>2, <1>3, <1>4

LEMMA UndoRenameIs ==
  ASSUME TypeOK, PreviewOK, Accepted, IsMove
  PROVE  /\ PartOK(UndoRename)
         /\ <<"refuse">> \notin Range(UndoRename) => <<"discard", 1>> \in Range(UndoRename)
<1> DEFINE s == move.source
           t == move.target
           from == move.from
           to == move.to
           d == <<"discard", 1>>
           u == <<"unlink", t>>
           l == <<"link", t, s>>
           there == disk[s].is = from \/ disk[s].is = to
           w == When(disk[s].is # from /\ SelfReferring, PutBack(1, s, from))
           content == <<d>> \o w
<1>0. /\ 1 \in Operations /\ 1 \in Stages /\ s \in Files \cap DOMAIN final /\ t \in Files \cap DOMAIN final
      /\ from \in Known /\ to \in Known /\ from # Absent /\ to # Absent /\ from # Theirs /\ to # Theirs
      /\ Absent # Theirs
  BY PreviewIs, Distinct
<1>1. UndoRename =
        CASE disk[t].is = Absent /\ there -> content
          [] disk[t].is = to /\ disk[s].is = Absent -> <<l, u>> \o content
          [] disk[t].is = to /\ there -> <<u>> \o content
          [] OTHER -> Refused BY DEF UndoRename, Is, MoveFile
<1>2. d \in Sparing /\ d[1] = "discard" /\ l[1] = "link" /\ u[1] = "unlink" BY <1>0, IsSparing
<1>3. disk[t].is = to => l \in Sparing /\ u \in Sparing BY <1>0, IsSparing
<1>4. ASSUME there \/ disk[s].is = Absent PROVE PartOK(content) /\ d \in Range(content)
  <2>1. disk[s].is # Theirs BY <1>0, <1>4
  <2>2. PartOK(w)
    <3>1. CASE disk[s].is # from /\ SelfReferring
      <4>1. w = PutBack(1, s, from) BY <3>1 DEF When
      <4>2. 1 \in Stages \cap Restaged BY <1>0, <3>1 DEF Restaged
      <4> HIDE DEF w, s, from
      <4> QED BY <1>0, <2>1, <4>1, <4>2, PutBackIs
    <3>2. CASE ~(disk[s].is # from /\ SelfReferring)
      <4>1. w = <<>> BY <3>2 DEF When
      <4>2. <<>> \in Seq(Sparing) /\ Range(<<>>) = {} BY ShortSeq, ShortRange
      <4> HIDE DEF w
      <4> QED BY <4>1, <4>2, SparingPart
    <3> QED BY <3>1, <3>2
  <2> HIDE DEF w, d
  <2>3. <<d>> \in Seq(Sparing) /\ Range(<<d>>) = {d} BY <1>2, ShortSeq, ShortRange
  <2>4. PartOK(<<d>>) BY <1>2, <2>3, SparingPart
  <2>5. PartOK(<<d>> \o w) /\ Range(<<d>> \o w) = Range(<<d>>) \cup Range(w) BY <2>2, <2>4, ConcatPart
  <2> QED BY <2>3, <2>5
<1> HIDE DEF content, l, u, d
<1>5. CASE disk[t].is = Absent /\ there BY <1>0, <1>1, <1>5, <1>4 DEF d
<1>6. CASE disk[t].is = to /\ disk[s].is = Absent
  <2>1. UndoRename = <<l, u>> \o content BY <1>0, <1>1, <1>6
  <2>2. <<l, u>> \in Seq(Sparing) /\ Range(<<l, u>>) = {l, u} BY <1>3, <1>6, ShortSeq, ShortRange
  <2>3. PartOK(<<l, u>>) BY <1>2, <2>2, SparingPart
  <2>4. PartOK(<<l, u>> \o content) /\ Range(<<l, u>> \o content) = Range(<<l, u>>) \cup Range(content)
    BY <1>4, <1>6, <2>3, ConcatPart
  <2> QED BY <1>4, <1>6, <2>1, <2>4 DEF d
<1>7. CASE disk[t].is = to /\ there
  <2>1. UndoRename = <<u>> \o content BY <1>0, <1>1, <1>7
  <2>2. <<u>> \in Seq(Sparing) /\ Range(<<u>>) = {u} BY <1>3, <1>7, ShortSeq, ShortRange
  <2>3. PartOK(<<u>>) BY <1>2, <2>2, SparingPart
  <2>4. PartOK(<<u>> \o content) /\ Range(<<u>> \o content) = Range(<<u>>) \cup Range(content)
    BY <1>4, <1>7, <2>3, ConcatPart
  <2> QED BY <1>4, <1>7, <2>1, <2>4 DEF d
<1>8. CASE /\ ~(disk[t].is = Absent /\ there)
           /\ ~(disk[t].is = to /\ disk[s].is = Absent)
           /\ ~(disk[t].is = to /\ there)
  BY <1>1, <1>8, RefusedPart
<1> QED BY <1>5, <1>6, <1>7, <1>8

LEMMA RestoreFileIs ==
  ASSUME TypeOK, PreviewOK, Accepted, NodesOK, NEW p \in Staged
  PROVE  /\ PartOK(RestoreFile(p))
         /\ <<"refuse">> \notin Range(RestoreFile(p)) =>
              /\ stage[p] \in Bytes => <<"discard", p>> \in Range(RestoreFile(p))
              /\ pre[p] # Absent => <<"discard", p>> \in Range(RestoreFile(p))
                                    \/ Range(RestoreFile(p)) \cap PublishesBack(p) # {}
<1>0. p \in Files \cap DOMAIN final /\ p \in Stages /\ p \in Paths /\ final[p] \in Known /\ final[p] # Theirs
      /\ pre[p] \in Known \cup {Absent}
  BY PreviewIs, Distinct
<1> DEFINE d == <<"discard", p>>
           u == <<"unlink", p>>
<1>1. d \in Sparing /\ d[1] = "discard" /\ u[1] = "unlink" BY <1>0, IsSparing
<1>2. CASE disk[p].is = pre[p]
  <2>1. RestoreFile(p) = <<d>> BY <1>2 DEF RestoreFile, Is
  <2> HIDE DEF d
  <2>2. <<d>> \in Seq(Sparing) /\ Range(<<d>>) = {d} BY <1>1, ShortSeq, ShortRange
  <2>3. PartOK(<<d>>) BY <1>1, <2>2, SparingPart
  <2> QED BY <2>1, <2>2, <2>3 DEF d
<1>3. CASE disk[p].is # pre[p] /\ p \in known /\ disk[p] = At(final[p], <<"staged", p>>)
  <2>1. disk[p].is = final[p] /\ disk[p].node = <<"staged", p>> BY <1>3 DEF At
  <2>2. stage[p] \notin Bytes BY <1>0, <2>1 DEF NodesOK, Visible
  <2>3. disk[p].is # Theirs BY <1>0, <2>1
  <2>4. CASE pre[p] = Absent
    <3>1. RestoreFile(p) = <<u>> BY <1>3, <2>4 DEF RestoreFile, Is
    <3>2. u \in Sparing BY <1>0, <2>3, IsSparing
    <3> HIDE DEF u
    <3>3. <<u>> \in Seq(Sparing) /\ Range(<<u>>) = {u} BY <3>2, ShortSeq, ShortRange
    <3>4. PartOK(<<u>>) BY <1>1, <3>3, SparingPart
    <3> QED BY <2>2, <2>4, <3>1, <3>4
  <2>5. CASE pre[p] # Absent BY <1>3, <2>5, <1>0, <2>3, PutBackIs, <2>2 DEF RestoreFile, Is, Restaged
  <2> QED BY <2>4, <2>5
<1>4. CASE disk[p].is # pre[p] /\ ~(p \in known /\ disk[p] = At(final[p], <<"staged", p>>))
  BY <1>4, RefusedPart DEF RestoreFile, Is
<1> QED BY <1>2, <1>3, <1>4

LEMMA RestoreDirectoryIs ==
  ASSUME TypeOK, PreviewOK, Accepted, NodesOK, NEW e \in NewDirectories
  PROVE  /\ PartOK(RestoreDirectory(e))
         /\ <<"refuse">> \notin Range(RestoreDirectory(e)) =>
              (stage[e] # None => <<"discard", e>> \in Range(RestoreDirectory(e)))
<1>0. e \in Directories \cap NewDirectories /\ e \in Stages /\ e \in Paths /\ Dir # Absent /\ Dir # Theirs
  BY PreviewIs, Distinct
<1> DEFINE d == <<"discard", e>>
           u == <<"remove-directory", e>>
<1>1. d \in Sparing /\ d[1] = "discard" /\ u[1] = "remove-directory" BY <1>0, IsSparing
<1>2. CASE disk[e].is = Absent
  <2>1. disk[e] # At(Dir, <<"staged", e>>) BY <1>0, <1>2 DEF At
  <2>2. RestoreDirectory(e) = <<d>> BY <1>2, <2>1 DEF RestoreDirectory, Is
  <2> HIDE DEF d
  <2>3. <<d>> \in Seq(Sparing) /\ Range(<<d>>) = {d} BY <1>1, ShortSeq, ShortRange
  <2>4. PartOK(<<d>>) BY <1>1, <2>3, SparingPart
  <2> QED BY <2>2, <2>3, <2>4 DEF d
<1>3. CASE disk[e].is # Absent /\ e \in known /\ disk[e] = At(Dir, <<"staged", e>>)
  <2>1. disk[e].is = Dir /\ disk[e].node = <<"staged", e>> BY <1>3 DEF At
  <2>2. stage[e] = None BY <1>0, <2>1 DEF NodesOK, Visible
  <2>3. RestoreDirectory(e) = <<u>> BY <1>3 DEF RestoreDirectory, Is
  <2>4. u \in Sparing BY <1>0, <2>1, IsSparing
  <2> HIDE DEF u
  <2>5. <<u>> \in Seq(Sparing) /\ Range(<<u>>) = {u} BY <2>4, ShortSeq, ShortRange
  <2>6. PartOK(<<u>>) BY <1>1, <2>5, SparingPart
  <2> QED BY <2>2, <2>3, <2>6
<1>4. CASE disk[e].is # Absent /\ ~(e \in known /\ disk[e] = At(Dir, <<"staged", e>>))
  BY <1>4, RefusedPart DEF RestoreDirectory, Is
<1> QED BY <1>2, <1>3, <1>4

-----------------------------------------------------------------------------
(* The restore.                                                            *)

\* All of a kind.
LEMMA UndoAllIs ==
  ASSUME TypeOK, PreviewOK, Accepted
  PROVE  /\ PartOK(UndoAll)
         /\ <<"refuse">> \notin Range(UndoAll) => \A i \in Operations :
              /\ request[i].kind = "trash" /\ trash[i] # Nowhere => <<"drop", i>> \in Range(UndoAll)
              /\ request[i].kind = "copy" => <<"discard", i>> \in Range(UndoAll)
<1> DEFINE s == Reverse(InOrder)
           n == Len(s)
           ss == [j \in 1..n |-> Undo(s[j])]
<1>1. InOrder \in Seq(Operations) /\ Range(InOrder) = Operations BY PreviewIs, FunctionIsSeq DEF InOrder, Range
<1>2. s \in Seq(Operations) /\ Range(s) = Operations BY <1>1, ReverseIs
<1>3. UndoAll = FlattenSeq(ss) BY DEF UndoAll, Each
<1> HIDE DEF s
<1>4. n \in Nat /\ DOMAIN s = 1..n /\ \A j \in 1..n : s[j] \in Operations BY <1>2, LenProperties, ElementOfSeq
<1> HIDE DEF n
<1>5. ss = [j \in 1..n |-> ss[j]] /\ \A j \in 1..n : ss[j] = Undo(s[j]) OBVIOUS
<1> HIDE DEF ss
<1>6. \A j \in 1..n : PartOK(ss[j]) BY <1>4, <1>5, UndoIs
<1>7. PartOK(FlattenSeq(ss)) /\ \A x : x \in Range(FlattenSeq(ss)) <=> \E j \in 1..n : x \in Range(ss[j])
  BY <1>4, <1>5, <1>6, FlattenPart
<1>8. ASSUME <<"refuse">> \notin Range(FlattenSeq(ss)), NEW i \in Operations
      PROVE  /\ request[i].kind = "trash" /\ trash[i] # Nowhere => <<"drop", i>> \in Range(FlattenSeq(ss))
             /\ request[i].kind = "copy" => <<"discard", i>> \in Range(FlattenSeq(ss))
  <2>1. PICK j \in 1..n : s[j] = i BY <1>2, <1>4 DEF Range
  <2>2. ss[j] = Undo(i) /\ <<"refuse">> \notin Range(ss[j]) BY <1>5, <1>7, <1>8, <2>1
  <2>3. /\ request[i].kind = "trash" /\ trash[i] # Nowhere => <<"drop", i>> \in Range(ss[j])
        /\ request[i].kind = "copy" => <<"discard", i>> \in Range(ss[j])
    BY <2>2, UndoIs
  <2> QED BY <1>7, <2>3
<1> QED BY <1>3, <1>7, <1>8

LEMMA RestoreFilesIs ==
  ASSUME TypeOK, PreviewOK, Accepted, NodesOK
  PROVE  /\ PartOK(RestoreFiles)
         /\ <<"refuse">> \notin Range(RestoreFiles) => \A p \in Staged :
              /\ stage[p] \in Bytes => <<"discard", p>> \in Range(RestoreFiles)
              /\ pre[p] # Absent => <<"discard", p>> \in Range(RestoreFiles)
                                    \/ Range(RestoreFiles) \cap PublishesBack(p) # {}
<1> DEFINE s == Reverse(SetToSeq(Staged))
           n == Len(s)
           ss == [j \in 1..n |-> RestoreFile(s[j])]
<1>1. SetToSeq(Staged) \in Seq(Staged) /\ Range(SetToSeq(Staged)) = Staged BY PreviewIs, ListIs
<1>2. s \in Seq(Staged) /\ Range(s) = Staged BY <1>1, ReverseIs
<1>3. RestoreFiles = FlattenSeq(ss) BY DEF RestoreFiles, Each
<1> HIDE DEF s
<1>4. n \in Nat /\ DOMAIN s = 1..n /\ \A j \in 1..n : s[j] \in Staged BY <1>2, LenProperties, ElementOfSeq
<1> HIDE DEF n
<1>5. ss = [j \in 1..n |-> ss[j]] /\ \A j \in 1..n : ss[j] = RestoreFile(s[j]) OBVIOUS
<1> HIDE DEF ss
<1>6. \A j \in 1..n : PartOK(ss[j]) BY <1>4, <1>5, RestoreFileIs
<1>7. PartOK(FlattenSeq(ss)) /\ \A x : x \in Range(FlattenSeq(ss)) <=> \E j \in 1..n : x \in Range(ss[j])
  BY <1>4, <1>5, <1>6, FlattenPart
<1>8. ASSUME <<"refuse">> \notin Range(FlattenSeq(ss)), NEW p \in Staged
      PROVE  /\ stage[p] \in Bytes => <<"discard", p>> \in Range(FlattenSeq(ss))
             /\ pre[p] # Absent => <<"discard", p>> \in Range(FlattenSeq(ss))
                                   \/ Range(FlattenSeq(ss)) \cap PublishesBack(p) # {}
  <2>1. PICK j \in 1..n : s[j] = p BY <1>2, <1>4 DEF Range
  <2>2. ss[j] = RestoreFile(p) /\ <<"refuse">> \notin Range(ss[j]) BY <1>5, <1>7, <1>8, <2>1
  <2>3. /\ stage[p] \in Bytes => <<"discard", p>> \in Range(ss[j])
        /\ pre[p] # Absent => <<"discard", p>> \in Range(ss[j])
                              \/ Range(ss[j]) \cap PublishesBack(p) # {}
    BY <2>2, RestoreFileIs
  <2> QED BY <1>7, <2>3
<1> QED BY <1>3, <1>7, <1>8

LEMMA RestoreDirectoriesIs ==
  ASSUME TypeOK, PreviewOK, Accepted, NodesOK
  PROVE  /\ PartOK(RestoreDirectories)
         /\ <<"refuse">> \notin Range(RestoreDirectories) => \A e \in NewDirectories :
              stage[e] # None => <<"discard", e>> \in Range(RestoreDirectories)
<1> DEFINE s == Reverse(ByDepth(NewDirectories))
           n == Len(s)
           ss == [j \in 1..n |-> RestoreDirectory(s[j])]
<1>1. ByDepth(NewDirectories) \in Seq(NewDirectories) /\ \A e \in NewDirectories : e \in Range(ByDepth(NewDirectories))
  BY PreviewIs, ByDepthIs
<1>2. s \in Seq(NewDirectories) /\ \A e \in NewDirectories : e \in Range(s) BY <1>1, ReverseIs
<1>3. RestoreDirectories = FlattenSeq(ss) BY DEF RestoreDirectories, Each
<1> HIDE DEF s
<1>4. n \in Nat /\ DOMAIN s = 1..n /\ \A j \in 1..n : s[j] \in NewDirectories BY <1>2, LenProperties, ElementOfSeq
<1> HIDE DEF n
<1>5. ss = [j \in 1..n |-> ss[j]] /\ \A j \in 1..n : ss[j] = RestoreDirectory(s[j]) OBVIOUS
<1> HIDE DEF ss
<1>6. \A j \in 1..n : PartOK(ss[j]) BY <1>4, <1>5, RestoreDirectoryIs
<1>7. PartOK(FlattenSeq(ss)) /\ \A x : x \in Range(FlattenSeq(ss)) <=> \E j \in 1..n : x \in Range(ss[j])
  BY <1>4, <1>5, <1>6, FlattenPart
<1>8. ASSUME <<"refuse">> \notin Range(FlattenSeq(ss)), NEW e \in NewDirectories
      PROVE  stage[e] # None => <<"discard", e>> \in Range(FlattenSeq(ss))
  <2>1. PICK j \in 1..n : s[j] = e BY <1>2, <1>4 DEF Range
  <2>2. ss[j] = RestoreDirectory(e) /\ <<"refuse">> \notin Range(ss[j]) BY <1>5, <1>7, <1>8, <2>1
  <2>3. stage[e] # None => <<"discard", e>> \in Range(ss[j]) BY <2>2, RestoreDirectoryIs
  <2> QED BY <1>7, <2>3
<1> QED BY <1>3, <1>7, <1>8

\* A restore that is begun discards every stage, drops the whole trash, and
\* takes nothing of a third party.
LEMMA RestoreIs ==
  ASSUME TypeOK, PreviewOK, Accepted, NodesOK, PrivateOK, Restorable(Restore)
  PROVE  /\ Restore \in Seq(Sparing) /\ Restore \in Seq(UndoSteps)
         /\ \A i \in Operations : trash[i] # Nowhere => <<"drop", i>> \in Range(Restore)
         /\ \A k \in Stages :
              /\ stage[k] \in Bytes \/ (k \in Directories /\ stage[k] # None) => <<"discard", k>> \in Range(Restore)
              /\ back[k] \in Bytes => <<"discard", k>> \in Range(Restore) \/ Range(Restore) \cap PublishesBack(k) # {}
              /\ Restore \in Leads(Step, PreparesBack(k), PublishesBack(k))
<1> DEFINE R1 == UndoAll
           R2 == RenameBack
           R3 == RestoreFiles
           R4 == RestoreDirectories
           R12 == R1 \o R2
           R123 == R12 \o R3
           R == R123 \o R4
<1>1. Restore = R BY DEF Restore, UndoAll, RenameBack, RestoreFiles, RestoreDirectories
<1>2. PartOK(R2) /\ (IsMove /\ <<"refuse">> \notin Range(R2) => <<"discard", 1>> \in Range(R2))
  <2>1. CASE IsMove BY <2>1, UndoRenameIs DEF RenameBack, When
  <2>2. CASE ~IsMove BY <2>2, ShortSeq, ShortRange, SparingPart DEF RenameBack, When
  <2> QED BY <2>1, <2>2
<1>3. PartOK(R1) /\ PartOK(R3) /\ PartOK(R4) BY UndoAllIs, RestoreFilesIs, RestoreDirectoriesIs
<1> HIDE DEF R1, R2, R3, R4
<1>4. PartOK(R12) /\ Range(R12) = Range(R1) \cup Range(R2) BY <1>2, <1>3, ConcatPart
<1> HIDE DEF R12
<1>5. PartOK(R123) /\ Range(R123) = Range(R12) \cup Range(R3) BY <1>3, <1>4, ConcatPart
<1> HIDE DEF R123
<1>6. PartOK(R) /\ Range(R) = Range(R123) \cup Range(R4) BY <1>3, <1>5, ConcatPart
<1> HIDE DEF R
<1>7. \A x : x \in Range(R) <=> x \in Range(R1) \/ x \in Range(R2) \/ x \in Range(R3) \/ x \in Range(R4)
  BY <1>4, <1>5, <1>6
<1>8. <<"refuse">> \notin Range(R) BY <1>1 DEF Restorable
<1>9. R \in Seq(Sparing) /\ \A k \in Stages : R \in Leads(Step, PreparesBack(k), PublishesBack(k))
  BY <1>6, <1>8 DEF PartOK
<1>10. R \in Seq(UndoSteps) BY IsSparing, <1>9
<1>11. \A i \in Operations : trash[i] # Nowhere => <<"drop", i>> \in Range(R)
  BY <1>7, <1>8, UndoAllIs DEF PrivateOK, R1
<1>12. \A p \in Staged : stage[p] \in Bytes => <<"discard", p>> \in Range(R) BY <1>7, <1>8, RestoreFilesIs DEF R3
<1>13. \A i \in Operations : i \in Stageable \/ i \in Restaged => <<"discard", i>> \in Range(R)
  <2> SUFFICES ASSUME NEW i \in Operations, i \in Stageable \/ i \in Restaged PROVE <<"discard", i>> \in Range(R)
    OBVIOUS
  <2>1. request[i].kind = "copy" \/ SelfReferring BY PreviewIs, Distinct DEF Stageable, Restaged
  <2>2. CASE request[i].kind = "copy" BY <1>7, <1>8, <2>2, UndoAllIs DEF R1
  <2>3. CASE SelfReferring BY <2>3, PreviewIs, <1>2, <1>7, <1>8 DEF SelfReferring
  <2> QED BY <2>1, <2>2, <2>3
<1>14. \A e \in Directories : stage[e] # None => <<"discard", e>> \in Range(R)
  BY <1>7, <1>8, RestoreDirectoriesIs DEF PrivateOK, R4
<1>15. ASSUME NEW k \in Stages, stage[k] \in Bytes \/ (k \in Directories /\ stage[k] # None)
       PROVE  <<"discard", k>> \in Range(R) BY <1>14, <1>12, <1>13, <1>15 DEF PrivateOK, Stageable
<1>16. ASSUME NEW k \in Stages, back[k] \in Bytes
       PROVE  <<"discard", k>> \in Range(R) \/ Range(R) \cap PublishesBack(k) # {}
  BY <1>16, Distinct, <1>7, <1>8, RestoreFilesIs, <1>13 DEF PrivateOK, Restaged, R3
<1> QED BY <1>1, <1>9, <1>10, <1>11, <1>15, <1>16

-----------------------------------------------------------------------------
(* The steps of the host: what they do to the vault, and to the plan       *)
(* ahead.                                                                  *)

\* What is derived from the request and its preview stays what it is.
LEMMA Stable ==
  ASSUME request' = request, entry'.preview = entry.preview
  PROVE  /\ Operations' = Operations /\ Stages' = Stages /\ Step' = Step
         /\ pre' = pre /\ final' = final
         /\ NewDirectories' = NewDirectories /\ Staged' = Staged
         /\ Stageable' = Stageable /\ Restaged' = Restaged
         /\ RunSteps' = RunSteps /\ UndoSteps' = UndoSteps
         /\ \A p : Doubles(p)' = Doubles(p)
<1>1. Operations' = Operations /\ (SelfReferring' <=> SelfReferring) /\ pre' = pre /\ final' = final
  BY DEF Operations, SelfReferring, IsMove, move, pre, final
<1>2. Stages' = Stages /\ \A p : Doubles(p)' = Doubles(p) BY <1>1 DEF Stages, Doubles
<1>3. Step' = Step BY <1>1, <1>2 DEF Step
<1>4. NewDirectories' = NewDirectories BY <1>1 DEF NewDirectories
<1>5. Staged' = Staged BY <1>1 DEF Staged, FilePaths, IsMove, move
<1>6. Stageable' = Stageable BY <1>1, <1>5 DEF Stageable
<1>7. Restaged' = Restaged BY <1>1, <1>5 DEF Restaged
<1>8. RunSteps' = RunSteps BY <1>1, <1>3, <1>4, <1>6 DEF RunSteps
<1>9. UndoSteps' = UndoSteps BY <1>1, <1>3, <1>4, <1>7 DEF UndoSteps
<1> QED BY <1>1, <1>2, <1>3, <1>4, <1>5, <1>6, <1>7, <1>8, <1>9

-----------------------------------------------------------------------------
(* What a step of the host may do.                                         *)

\* The step at hand, and the rest of the plan.
LEMMA HeadIn ==
  ASSUME IInv, pc \in {"run", "undo"}, todo # <<>>
  PROVE  /\ Accepted /\ args \in Step
         /\ pc = "run" => args \in RunSteps
         /\ pc = "undo" => args \in UndoSteps
         /\ pc = "undo" /\ ~late => args \in Sparing
<1>1. Accepted BY DEF Accepted
<1>2. pc = "run" => args \in RunSteps BY TailIs DEF IInv, RunOK, Executing, args
<1>3. pc = "undo" => args \in UndoSteps BY TailIs DEF IInv, UndoOK, args
<1>4. pc = "undo" /\ ~late => args \in Sparing BY TailIs DEF IInv, UndoOK, args
<1> QED BY <1>1, <1>2, <1>3, <1>4, IsRunStep, IsUndoStep

\* No step of an execution stages at a directory.
LEMMA NoFileAtDirectory ==
  ASSUME IInv, Accepted
  PROVE  Stageable \cap Directories = {} /\ Restaged \cap Directories = {}
<1>1. Staged \subseteq Notes /\ Operations \cap Paths = {} BY PreviewIs DEF IInv
<1> QED BY <1>1, Distinct DEF Stageable, Restaged

LEMMA RunTail ==
  ASSUME IInv, pc = "run", todo # <<>>, UNCHANGED <<elsewhere, entry>>, Continues, RunCont
  PROVE  RunOK' /\ Unshared'
<1> DEFINE s == todo
           t == Tail(todo)
<1>0. /\ Operations' = Operations /\ Stages' = Stages /\ Step' = Step /\ RunSteps' = RunSteps
      /\ \A p : Doubles(p)' = Doubles(p)
  BY Stable DEF elsewhere
<1>1. /\ s \in Seq(RunSteps) /\ s # <<>> /\ t = todo' /\ pc' = "run" /\ args = Head(s)
  BY DEF IInv, RunOK, Executing, Continues, args
<1>2. /\ t \in Seq(RunSteps) /\ Head(s) \in RunSteps /\ Range(s) \subseteq RunSteps
      /\ Range(s) = {Head(s)} \cup Range(t)
  BY <1>1, RangeOfSeq, TailIs
<1>3. ASSUME NEW k \in Stages
      PROVE  /\ t \in Leads(Step, Prepares(k), Publishes(k)) /\ t \in Never(Step, Publishing(k), Staging(k))
             /\ stage'[k] # None => Range(t) \cap Publishes(k) # {}
             /\ Visible(<<"staged", k>>)' \/ Hidden(<<"staged", k>>)' => Range(t) \cap Staging(k) = {}
  <2>1. /\ s \in Leads(Step, Prepares(k), Publishes(k)) /\ s \in Never(Step, Publishing(k), Staging(k))
        /\ stage[k] # None => Range(s) \cap Publishes(k) # {}
        /\ Seen(<<"staged", k>>) => Range(s) \cap Staging(k) = {}
    BY <1>1 DEF IInv, RunOK, Executing, Seen
  <2>2. t \in Leads(Step, Prepares(k), Publishes(k))
        /\ (args \in Prepares(k) => \E x \in Range(t) : x \in Publishes(k))
    BY <1>1, <2>1, LeadsTail
  <2>3. t \in Never(Step, Publishing(k), Staging(k))
        /\ (args \in Publishing(k) => \A x \in Range(t) : x \notin Staging(k))
    BY <1>1, <2>1, NeverTail
  <2>4. stage'[k] # None => (stage[k] # None /\ args \notin Publishes(k)) \/ args \in Prepares(k) BY <1>1 DEF RunCont
  <2>5. Seen(<<"staged", k>>)' => Seen(<<"staged", k>>) \/ args \in Publishing(k) \/ k \in Directories
    BY <1>1 DEF RunCont
  <2>6. stage'[k] # None => Range(t) \cap Publishes(k) # {} BY <1>1, <1>2, <2>1, <2>2, <2>4
  <2>7. k \in Directories => Range(s) \cap Staging(k) = {}
    BY <1>2, Sorts, <1>1, HeadIn, NoFileAtDirectory DEF RunSteps
  <2>8. Seen(<<"staged", k>>)' => Range(t) \cap Staging(k) = {} BY <1>2, <2>1, <2>3, <2>5, <2>7
  <2> QED BY <2>2, <2>3, <2>6, <2>8 DEF Seen
<1>4. ASSUME NEW d \in Directories
      PROVE  /\ t \in Preceded(Step, {<<"prepare-directory", d>>}, {<<"compare", d, Nowhere>>})
             /\ HeadIs(<<"prepare-directory", d>>)' => disk'[d].node # <<"staged", d>>
  <2>1. s \in Preceded(Step, {<<"prepare-directory", d>>}, {<<"compare", d, Nowhere>>})
    BY <1>1 DEF IInv, RunOK, Executing
  <2>2. /\ t \in Preceded(Step, {<<"prepare-directory", d>>}, {<<"compare", d, Nowhere>>})
        /\ t # <<>> /\ Head(t) = <<"prepare-directory", d>> => args = <<"compare", d, Nowhere>>
    <3> DEFINE A == {<<"prepare-directory", d>>}
               B == {<<"compare", d, Nowhere>>}
    <3>1. s \in Preceded(Step, A, B) BY <2>1
    <3>2. Tail(s) \in Preceded(Step, A, B) /\ (Tail(s) # <<>> /\ Head(Tail(s)) \in A => Head(s) \in B)
      <4> HIDE DEF A, B
      <4> QED BY <1>1, <3>1, PrecededTail
    <3> QED BY <1>1, <3>2
  <2>3. args = <<"compare", d, Nowhere>> => disk'[d].node # <<"staged", d>> BY <1>1 DEF RunCont
  <2> QED BY <1>1, <2>2, <2>3 DEF HeadIs
<1>5. ASSUME NEW p \in Files
      PROVE  /\ t \in Adjacent(Step, Doubles(p), {<<"unlink", p>>})
             /\ args \in Doubles(p) => HeadIs(<<"unlink", p>>)'
  <2>1. s \in Adjacent(Step, Doubles(p), {<<"unlink", p>>}) BY <1>1 DEF IInv, RunOK, Executing
  <2> DEFINE A == Doubles(p)
             B == {<<"unlink", p>>}
  <2>2. s \in Adjacent(Step, A, B) BY <2>1
  <2>3. Tail(s) \in Adjacent(Step, A, B) /\ (Head(s) \in A => Tail(s) # <<>> /\ Head(Tail(s)) \in B)
    <3> HIDE DEF A, B
    <3> QED BY <1>1, <2>2, AdjacentTail
  <2> QED BY <1>1, <2>3 DEF HeadIs
<1>6. RunOK' BY <1>0, <1>1, <1>2, <1>3, <1>4, <1>5 DEF RunOK, Executing
<1>7. Unshared' BY <1>0, <1>1, <1>5 DEF RunCont, Unshared
<1> QED BY <1>6, <1>7

LEMMA UndoTail ==
  ASSUME IInv, pc = "undo", todo # <<>>, UNCHANGED <<elsewhere, entry>>, Continues, UndoCont, Spares
  PROVE  UndoOK'
<1> DEFINE s == todo
           t == Tail(todo)
<1>0. Operations' = Operations /\ Stages' = Stages /\ Step' = Step /\ UndoSteps' = UndoSteps BY Stable DEF elsewhere
<1>1. /\ s \in Seq(UndoSteps) /\ s # <<>> /\ t = todo' /\ pc' = "undo" /\ args = Head(s) /\ late' = late
  BY DEF IInv, UndoOK, Continues, args, elsewhere
<1>2. t \in Seq(UndoSteps) /\ Range(s) = {args} \cup Range(t) BY <1>1, TailIs
<1>3. ~late => t \in Seq(Sparing')
  <2> SUFFICES ASSUME ~late PROVE t \in Seq(Sparing') OBVIOUS
  <2>1. s \in Seq(Sparing) BY <1>1 DEF IInv, UndoOK
  <2>2. t \in Seq(Sparing) BY <1>1, <2>1, TailIs
  <2>3. ASSUME NEW x \in Sparing PROVE x \in Sparing' BY IsSparing, StepIs, Distinct, <1>0 DEF Spares, Sparing
  <2>4. Range(t) \subseteq Sparing BY <2>2, RangeOfSeq
  <2> QED BY <2>2, <2>3, LenProperties, ElementOfSeq, SeqDef
<1>4. ASSUME NEW i \in Operations, trash'[i] # Nowhere PROVE <<"drop", i>> \in Range(t)
  BY <1>1, <1>2, <1>4 DEF IInv, UndoOK, UndoCont
<1>5. ASSUME NEW k \in Stages
      PROVE  /\ stage'[k] \in Bytes \/ (k \in Directories /\ stage'[k] # None) => <<"discard", k>> \in Range(t)
             /\ back'[k] \in Bytes => <<"discard", k>> \in Range(t) \/ Range(t) \cap PublishesBack(k) # {}
             /\ t \in Leads(Step, PreparesBack(k), PublishesBack(k))
  BY <1>1, LeadsTail, <1>2 DEF IInv, UndoOK, UndoCont
<1> QED BY <1>0, <1>1, <1>2, <1>3, <1>4, <1>5 DEF UndoOK

\* Errors are counted.
LEMMA FaultIs ==
  ASSUME TypeOK, NEW kind \in FaultKinds, Fault(kind)
  PROVE  /\ faults' \in Seq(FaultKinds) /\ Len(faults') <= MaxFaults
         /\ Erred' <=> Erred \/ kind = "commit"
<1>1. /\ faults \in Seq(FaultKinds) /\ Len(faults) \in Nat /\ Len(faults) < MaxFaults /\ MaxFaults \in Nat
      /\ faults' = Append(faults, kind)
  BY LenProperties, BoundsAssumption DEF TypeOK, FaultKinds, Fault
<1>2. /\ faults' \in Seq(FaultKinds) /\ Len(faults') = Len(faults) + 1
      /\ \A i \in 1..Len(faults) : faults'[i] = faults[i]
      /\ faults'[Len(faults) + 1] = kind
  BY <1>1, AppendProperties
<1>3. DOMAIN faults' = 1..(Len(faults) + 1) /\ DOMAIN faults = 1..Len(faults) BY <1>1, <1>2, LenProperties
<1>4. \A i \in 1..(Len(faults) + 1) : i \in 1..Len(faults) \/ i = Len(faults) + 1 BY <1>1
<1>5. 1..Len(faults) \subseteq 1..(Len(faults) + 1) /\ Len(faults) + 1 \in 1..(Len(faults) + 1) BY <1>1
<1>6. Erred <=> \E i \in DOMAIN faults : faults[i] = "commit" BY DEF Erred, Errors
<1>7. Erred' <=> \E i \in DOMAIN faults' : faults'[i] = "commit" BY DEF Erred, Errors
<1>8. Erred' <=> Erred \/ kind = "commit" BY <1>2, <1>3, <1>4, <1>5, <1>6, <1>7
<1>9. Len(faults) + 1 <= MaxFaults BY <1>1
<1> QED BY <1>2, <1>8, <1>9

\* What a step leaves of the executor's own bookkeeping.
LEMMA FaultsAre ==
  ASSUME TypeOK, faults' = faults \/ \E kind \in FaultKinds \ {"commit"} : Fault(kind)
  PROVE  faults' \in Seq(FaultKinds) /\ Len(faults') <= MaxFaults /\ (Erred' <=> Erred)
<1>1. CASE faults' = faults BY <1>1 DEF TypeOK, FaultKinds, Erred, Errors
<1>2. CASE \E kind \in FaultKinds \ {"commit"} : Fault(kind) BY <1>2, FaultIs
<1> QED BY <1>1, <1>2

\* A step that is good keeps the invariant.
LEMMA GoodIs ==
  ASSUME IInv, Good
  PROVE  IInv'
<1>0. /\ Operations' = Operations /\ Stages' = Stages /\ pre' = pre /\ final' = final
      /\ request' = request /\ entry' = entry /\ opening' = opening /\ touched' = touched /\ late' = late
      /\ crashes' = crashes /\ writes' = writes
  BY Stable DEF Good, HostFrame, elsewhere
<1>1. /\ pc \in {"run", "undo"} /\ todo # <<>> /\ journal'.phase = journal.phase
      /\ journal' = [phase |-> journal.phase, known |-> journal'.known]
      /\ known' \subseteq Paths /\ journal'.known \subseteq Paths
  BY DEF Good, HostFrame
<1>2. /\ faults' \in Seq(FaultKinds) /\ Len(faults') <= MaxFaults /\ (Erred' <=> Erred)
  BY FaultsAre DEF Good, Stops, Continues, FaultHere, FaultKinds, IInv
<1>3. /\ pc' = "run" => pc = "run" /\ Continues /\ RunCont
      /\ pc' = "undo" => pc = "undo" /\ Continues /\ UndoCont
      /\ pc' = "plan" => pc = "run"
      /\ pc' \in {"run", "undo", "plan", "fail"}
      /\ pc' \notin {"run", "undo"} => todo' = <<>>
  BY <1>1 DEF Good, Stops, Continues, Throws, Goto
<1>4. TypeOK' BY <1>0, <1>1, <1>2, <1>3 DEF Good, Effect, Typed, IInv, TypeOK, FaultKinds
<1>5. (entry = [state |-> entry.state, preview |-> entry.preview])' /\ NodesOK' /\ PrivateOK'
  BY <1>0 DEF IInv, Good, Effect
<1>6. PreviewOK' BY <1>0, <1>1 DEF IInv, PreviewOK, Accepted
<1>7. PhaseOK' BY <1>0, <1>1, <1>2, <1>3 DEF IInv, PhaseOK
<1>8. QuietOK' BY <1>1, <1>0, <1>3 DEF IInv, PhaseOK, QuietOK, Accepted, Is, Good, Effect
<1>9. RunOK' /\ SharedOK'
  BY <1>1, <1>2, <1>3, RunTail DEF IInv, PhaseOK, Executing, Complete, Good, HostFrame, RunOK, SharedOK
<1>10. CompleteOK' BY <1>1, <1>2, <1>3 DEF IInv, PhaseOK, CompleteOK, Complete
<1>11. UndoOK' BY <1>1, <1>3, UndoTail DEF Good, HostFrame, Effect, UndoOK
<1> QED BY <1>4, <1>5, <1>6, <1>7, <1>8, <1>9, <1>10, <1>11 DEF IInv

-----------------------------------------------------------------------------
(* Each step of the host.                                                  *)

\* The step at hand keeps everything but the vault.
LEMMA HostIs ==
  ASSUME IInv, NEW step, Host(step)
  PROVE  HostFrame /\ args[1] = step
<1>1. journal = [phase |-> journal.phase, known |-> journal.known] /\ journal.known \subseteq Paths /\ known \subseteq Paths
  BY DEF IInv, TypeOK
<1>2. /\ pc \in {"run", "undo"} /\ todo # <<>> /\ args[1] = step
      /\ UNCHANGED <<elsewhere, entry, opening>> /\ journal' = journal /\ known' = known
  BY DEF Host, Doing, args
<1> QED BY <1>1, <1>2 DEF HostFrame

\* The facts of the invariant that the steps use.
LEMMA Facts ==
  ASSUME IInv, HostFrame
  PROVE  /\ Operations' = Operations /\ Stages' = Stages /\ Accepted
         /\ final' = final /\ NewDirectories' = NewDirectories
         /\ Stageable' = Stageable /\ Restaged' = Restaged /\ request' = request /\ writes' = writes
         /\ disk \in [Paths -> Places] /\ trash \in [Operations -> Places]
         /\ stage \in [Stages -> Bytes \cup {Dir, None}] /\ back \in [Stages -> Bytes \cup {None}]
         /\ NodesOK /\ PrivateOK /\ Stages = Paths \cup Operations /\ Operations \cap Paths = {}
         /\ NewDirectories = Directories \cap DOMAIN final /\ DOMAIN final \subseteq Paths
         /\ Stageable \cap Directories = {} /\ Restaged \cap Directories = {}
         /\ args \in Step /\ (pc = "run" => args \in RunSteps) /\ (pc = "undo" => args \in UndoSteps)
         /\ pc = "undo" /\ ~late => args \in Sparing
<1>1. pc \in {"run", "undo"} /\ todo # <<>> /\ request' = request /\ entry' = entry /\ writes' = writes
  BY DEF HostFrame, elsewhere
<1>2. Accepted BY <1>1, HeadIn
<1>3. /\ Operations' = Operations /\ Stages' = Stages
      /\ final' = final /\ NewDirectories' = NewDirectories
      /\ Stageable' = Stageable /\ Restaged' = Restaged
  BY <1>1, Stable
<1>4. /\ disk \in [Paths -> Places] /\ trash \in [Operations -> Places]
      /\ stage \in [Stages -> Bytes \cup {Dir, None}] /\ back \in [Stages -> Bytes \cup {None}]
      /\ NodesOK /\ PrivateOK
  BY DEF IInv, TypeOK
<1>5. /\ Stages = Paths \cup Operations /\ Operations \cap Paths = {}
      /\ NewDirectories = Directories \cap DOMAIN final /\ DOMAIN final \subseteq Paths
  BY <1>2, PreviewIs DEF IInv
<1>6. Stageable \cap Directories = {} /\ Restaged \cap Directories = {} BY <1>2, NoFileAtDirectory
<1>7. /\ args \in Step /\ (pc = "run" => args \in RunSteps) /\ (pc = "undo" => args \in UndoSteps)
      /\ pc = "undo" /\ ~late => args \in Sparing
  BY <1>1, HeadIn
<1> QED BY <1>1, <1>2, <1>3, <1>4, <1>5, <1>6, <1>7

\* A step that is not about to remove a name finds no file with two.
LEMMA NoSharing ==
  ASSUME IInv, HostFrame, pc = "run", args[1] # "unlink"
  PROVE  /\ \A p, q \in Paths : disk[p].node = disk[q].node /\ disk[p].node # None => p = q
         /\ \A i \in Operations, p \in Paths : trash[i].node = disk[p].node => disk[p].node = None
<1>1. Unshared /\ \A p : ~HeadIs(<<"unlink", p>>) BY DEF IInv, SharedOK, Executing, HeadIs, args
<1> QED BY <1>1 DEF Unshared

\* A step that fails, or has no effect.
LEMMA NothingDone ==
  ASSUME IInv, HostFrame, UNCHANGED vault
  PROVE  Effect
<1>0. disk' = disk /\ stage' = stage /\ back' = back /\ trash' = trash BY DEF vault, private
<1>1. Typed BY <1>0, Facts DEF Typed
<1>2. NodesOK' BY <1>0, Facts DEF NodesOK, Visible, Hidden
<1>3. PrivateOK' BY <1>0, Facts DEF PrivateOK
<1> QED BY <1>0, <1>1, <1>2, <1>3 DEF Effect, Spares

LEMMA Failing ==
  ASSUME IInv, HostFrame, UNCHANGED vault, Stops
  PROVE  Good BY NothingDone DEF Good

\* A stage is written.
LEMMA PrepareFileIs ==
  ASSUME IInv, PrepareFile
  PROVE  Good
<1> DEFINE k == args[2]
           b == args[3]
<1>1. HostFrame /\ args[1] = "prepare" BY HostIs DEF PrepareFile
<1>2. CASE UNCHANGED vault /\ Stops BY <1>1, <1>2, Failing
<1>3. CASE /\ stage[k] = None /\ stage' = [stage EXCEPT ![k] = b]
           /\ disk' = disk /\ back' = back /\ trash' = trash /\ (Stops \/ Continues)
  <2>1. args = <<"prepare", k, b>> /\ k \in Stages /\ b \in Known BY <1>1, Facts, StepIs
  <2>2. pc = "run" /\ args \in RunSteps BY <1>1, Facts DEF HostFrame, UndoSteps
  <2>3. k \in Stageable /\ k \notin Directories BY <1>1, <2>2, Facts DEF RunSteps
  <2>4. stage'[k] = b /\ \A j \in Stages : j # k => stage'[j] = stage[j] BY <1>1, <1>3, <2>1, Facts
  <2>5. args \in Staging(k) /\ args \in Prepares(k) BY <2>1, Sorts DEF Staging
  <2>6. ~Visible(<<"staged", k>>) /\ ~Hidden(<<"staged", k>>)
    BY <1>1, <2>2, TailIs, <2>1, <2>5 DEF HostFrame, IInv, RunOK, Executing, args
  <2>7. Typed BY <1>1, <1>3, <2>1, Facts, Distinct DEF Typed
  <2>8. NodesOK' BY <1>1, <1>3, Facts, <2>4, <2>6 DEF Visible, Hidden, NodesOK
  <2>9. PrivateOK' BY <1>1, <2>1, <2>3, <2>4, Facts, Distinct, <1>3 DEF PrivateOK
  <2>10. RunCont BY <1>1, <2>4, <2>5, Sorts, <1>3, Facts, <2>1, <2>2, NoSharing DEF Seen, Visible, Hidden, RunCont
  <2>11. UndoCont /\ Spares BY <2>2 DEF UndoCont, Spares
  <2> QED BY <1>1, <1>3, <2>7, <2>8, <2>9, <2>10, <2>11 DEF Good, Effect
<1> QED BY <1>2, <1>3 DEF PrepareFile, Done, NotDone, Works, Stops, Continues, SameDisk, vault, private

\* Nodes are told apart by how they were made.
LEMMA NodeIs ==
  ASSUME request \in Requests
  PROVE  /\ \A k \in Stages : <<"staged", k>> \in Nodes /\ <<"staged", k>> # None /\ <<"restored", k>> \in Nodes
                              /\ <<"restored", k>> # None
         /\ \A n \in Nat : <<"other", n>> \in Nodes /\ <<"other", n>> # None
         /\ \A p \in Paths : <<"start", p>> \in Nodes /\ <<"start", p>> # None
         /\ \A d \in Directories : <<"staged", d>> \in Nodes /\ <<"staged", d>> # None
         /\ Nowhere \in Places /\ Nowhere.is = Absent /\ Nowhere.node = None
         /\ \A b \in Bytes \cup {Absent, Dir}, n \in Nodes :
              At(b, n) \in Places /\ At(b, n).is = b /\ At(b, n).node = n
<1>1. Stages \subseteq Paths \cup Nat BY RequestIs DEF Stages
<1>2. None \notin Nodes BY BytesAssumption
<1>3. \A k \in Paths \cup Nat, a \in {"start", "staged", "restored", "other"} : <<a, k>> \in Nodes BY DEF Nodes
<1>4. Nowhere \in Places /\ Nowhere.is = Absent /\ Nowhere.node = None BY DEF Nowhere, At, Places
<1>5. \A b \in Bytes \cup {Absent, Dir}, n \in Nodes :
              At(b, n) \in Places /\ At(b, n).is = b /\ At(b, n).node = n BY DEF At, Places
<1>6. \A k \in Paths \cup Nat, a \in {"start", "staged", "restored", "other"} : <<a, k>> # None BY <1>2, <1>3
<1>7. Directories \subseteq Paths \cup Nat BY Distinct
<1>8. \A k \in Stages : <<"staged", k>> \in Nodes /\ <<"staged", k>> # None /\ <<"restored", k>> \in Nodes
                         /\ <<"restored", k>> # None
  BY <1>1, <1>3, <1>6
<1>9. \A d \in Directories : <<"staged", d>> \in Nodes /\ <<"staged", d>> # None BY <1>3, <1>6, <1>7
<1>10. \A n \in Nat : <<"other", n>> \in Nodes /\ <<"other", n>> # None BY <1>3, <1>6
<1>11. \A p \in Paths : <<"start", p>> \in Nodes /\ <<"start", p>> # None BY <1>3, <1>6
<1> QED BY <1>4, <1>5, <1>8, <1>9, <1>10, <1>11

\* A step that takes from the private places.
LEMMA Fewer ==
  ASSUME IInv, HostFrame, NEW k, NEW i,
         stage' \in {stage, [stage EXCEPT ![k] = None]}, back' \in {back, [back EXCEPT ![k] = None]},
         trash' \in {trash, [trash EXCEPT ![i] = Nowhere]}
  PROVE  /\ PrivateOK'
         /\ stage' \in [Stages -> Bytes \cup {Dir, None}] /\ back' \in [Stages -> Bytes \cup {None}]
         /\ trash' \in [Operations -> Places]
         /\ \A j \in Stages : stage'[j] \in {stage[j], None} /\ back'[j] \in {back[j], None}
         /\ \A j \in Operations : trash'[j] \in {trash[j], Nowhere}
         /\ \A n : n # None /\ Hidden(n)' => Hidden(n)
<1>1. /\ stage' \in [Stages -> Bytes \cup {Dir, None}]
      /\ \A j \in Stages : stage'[j] \in {stage[j], None}
  BY Facts
<1>2. back' \in [Stages -> Bytes \cup {None}] /\ \A j \in Stages : back'[j] \in {back[j], None} BY Facts
<1>3. Nowhere \in Places /\ Nowhere.node = None BY NodeIs DEF IInv, TypeOK
<1>4. trash' \in [Operations -> Places] /\ \A j \in Operations : trash'[j] \in {trash[j], Nowhere} BY <1>3, Facts
<1>5. \A n : n # None /\ Hidden(n)' => Hidden(n) BY <1>3, <1>4, Facts DEF Hidden
<1>6. PrivateOK' BY <1>1, <1>2, Facts, Distinct, <1>4 DEF PrivateOK
<1> QED BY <1>1, <1>2, <1>4, <1>5, <1>6

\* Something is put at a path.
LEMMA Puttings ==
  ASSUME IInv, HostFrame, NEW p \in Paths, NEW x \in Places, disk' = [disk EXCEPT ![p] = x], trash' = trash,
         x.is = Absent \/ x.node = None => x = Nowhere,
         \A n \in 1..MaxWrites : x.node = <<"other", n>> => Seen(x.node),
         \A k \in Stages : Seen(<<"staged", k>>) \/ x.node = <<"staged", k>> =>
           stage'[k] \notin Bytes /\ (k \in Directories => stage'[k] = None),
         \A d \in Directories : x.node = <<"staged", d>> => p = d /\ x.is = Dir
  PROVE  /\ NodesOK' /\ disk' \in [Paths -> Places] /\ disk'[p] = x
         /\ \A q \in Paths : q # p => disk'[q] = disk[q]
         /\ \A n : Seen(n)' => Seen(n) \/ x.node = n
<1>1. disk' \in [Paths -> Places] /\ disk'[p] = x /\ \A q \in Paths : q # p => disk'[q] = disk[q] BY Facts
<1>2. \A n : Visible(n)' => Visible(n) \/ x.node = n BY <1>1 DEF Visible
<1>3. \A n : Hidden(n)' <=> Hidden(n) BY Facts DEF Hidden
<1>4. \A n : Seen(n)' => Seen(n) \/ x.node = n BY <1>2, <1>3 DEF Seen
<1>5. \A q \in Paths : (disk'[q].is = Absent \/ disk'[q].node = None) => disk'[q] = Nowhere BY <1>1, Facts DEF NodesOK
<1>6. \A i \in Operations : (trash'[i].is = Absent \/ trash'[i].node = None) => trash'[i] = Nowhere
  BY Facts DEF NodesOK
<1>7. \A n \in 1..MaxWrites : Seen(<<"other", n>>)' => n <= writes BY <1>4, Facts DEF NodesOK, Seen
<1>8. \A k \in Stages : Seen(<<"staged", k>>)' => stage'[k] \notin Bytes /\ (k \in Directories => stage'[k] = None)
  BY <1>4
<1>9. \A d \in Directories : ~Hidden(<<"staged", d>>)' /\
        \A q \in Paths : disk'[q].node = <<"staged", d>> => q = d /\ disk'[q].is = Dir
  BY <1>1, <1>3, Facts DEF NodesOK
<1>10. NodesOK' BY <1>5, <1>6, <1>7, <1>8, <1>9, Facts DEF NodesOK, Seen
<1> QED BY <1>1, <1>4, <1>10

\* Nothing is put on the disk.
LEMMA Hidings ==
  ASSUME IInv, HostFrame, disk' = disk,
         \A i \in Operations : (trash'[i].is = Absent \/ trash'[i].node = None) => trash'[i] = Nowhere,
         \A n : n # None /\ Hidden(n)' => Hidden(n) \/ (n \notin {"staged"} \X Directories /\ Visible(n)),
         \A k \in Stages : Seen(<<"staged", k>>) =>
           stage'[k] \notin Bytes /\ (k \in Directories => stage'[k] = None)
  PROVE  NodesOK' /\ \A n : n # None /\ Seen(n)' => Seen(n)
<1>1. \A n : Visible(n)' <=> Visible(n) BY DEF Visible
<1>2. \A n : n # None /\ Seen(n)' => Seen(n) BY <1>1 DEF Seen
<1>3. /\ \A k \in Stages : <<"staged", k>> # None
      /\ \A n \in Nat : <<"other", n>> # None
      /\ \A d \in Directories : <<"staged", d>> # None
  BY NodeIs DEF IInv, TypeOK
<1>4. \A n \in 1..MaxWrites : Seen(<<"other", n>>)' => n <= writes
  BY BoundsAssumption, <1>2, <1>3, Facts DEF NodesOK, Seen
<1>5. \A k \in Stages : Seen(<<"staged", k>>)' => stage'[k] \notin Bytes /\ (k \in Directories => stage'[k] = None)
  BY <1>2, <1>3
<1>6. \A d \in Directories : ~Hidden(<<"staged", d>>)'
  <2>1. \A d \in Directories : <<"staged", d>> \in {"staged"} \X Directories OBVIOUS
  <2> QED BY <1>3, <2>1, Facts DEF NodesOK
<1>7. NodesOK' BY <1>1, <1>4, <1>5, <1>6, Facts DEF NodesOK, Seen
<1> QED BY <1>2, <1>7

\* A stage is renamed over a path.
LEMMA PublishFileIs ==
  ASSUME IInv, PublishFile
  PROVE  Good
<1> DEFINE k == args[2]
           p == args[3]
           x == At(stage[k], <<"staged", k>>)
<1>1. HostFrame /\ args[1] = "publish" BY HostIs DEF PublishFile
<1>2. CASE UNCHANGED vault /\ Stops BY <1>1, <1>2, Failing
<1>3. CASE /\ stage[k] \in Bytes /\ stage' = [stage EXCEPT ![k] = None] /\ disk' = [disk EXCEPT ![p] = x]
           /\ back' = back /\ trash' = trash /\ (Stops \/ Continues)
  <2>1. args = <<"publish", k, p>> /\ k \in Stages /\ p \in Files /\ p \in Paths BY <1>1, Facts, StepIs, Distinct
  <2>2. pc = "run" /\ args \in RunSteps /\ p \in DOMAIN final BY <1>1, Facts DEF HostFrame, UndoSteps, RunSteps
  <2>3. k \notin Directories /\ ~Seen(<<"staged", k>>)
    BY <1>1, <1>3, <2>1, Facts, Distinct DEF PrivateOK, NodesOK, Seen
  <2>4. x \in Places /\ x.is = stage[k] /\ x.node = <<"staged", k>> /\ x.node # None
    BY <2>1, NodeIs, <1>3 DEF IInv, TypeOK, At, Places
  <2>5. stage'[k] = None /\ \A j \in Stages : j # k => stage'[j] = stage[j] BY <1>1, <1>3, <2>1, Facts
  <2>6. PrivateOK' /\ Typed BY <1>1, <1>3, <2>1, <2>4, Facts, Fewer DEF Typed
  <2>7. /\ NodesOK' /\ disk' \in [Paths -> Places] /\ disk'[p] = x
        /\ \A q \in Paths : q # p => disk'[q] = disk[q]
        /\ \A n : Seen(n)' => Seen(n) \/ x.node = n
    <3>1. x.is = Absent \/ x.node = None => x = Nowhere BY <1>3, <2>4, Distinct
    <3>2. \A n \in 1..MaxWrites : x.node = <<"other", n>> => Seen(x.node) BY <2>4
    <3>3. \A j \in Stages : Seen(<<"staged", j>>) \/ x.node = <<"staged", j>> =>
           stage'[j] \notin Bytes /\ (j \in Directories => stage'[j] = None)
      BY <1>1, <2>4, <2>5, Facts, Distinct DEF NodesOK, Seen
    <3>4. \A d \in Directories : x.node = <<"staged", d>> => p = d /\ x.is = Dir BY <2>3, <2>4
    <3> HIDE DEF x, k, p
    <3> QED BY <1>1, <1>3, <2>1, <2>4, <3>1, <3>2, <3>3, <3>4, Puttings
  <2>8. RunCont
    <3>1. args \in Publishing(k) /\ args \in Publishes(k) BY <2>1 DEF Publishing, Publishes
    <3>2. \A j \in Stages : stage'[j] # None => stage[j] # None /\ args \notin Publishes(j) BY <2>5, Sorts
    <3>3. \A j \in Stages : Seen(<<"staged", j>>)' => Seen(<<"staged", j>>) \/ args \in Publishing(j)
      BY <2>4, <2>7, <3>1
    <3>4. \A d : args # <<"compare", d, Nowhere>> BY <2>1
    <3>5. /\ \A a, b \in Paths : disk[a].node = disk[b].node /\ disk[a].node # None => a = b
          /\ \A i \in Operations, a \in Paths : trash[i].node = disk[a].node => disk[a].node = None
      BY <1>1, <2>2, NoSharing
    <3>6. /\ \A a \in Paths : disk[a].node # x.node
          /\ \A i \in Operations : trash[i].node # x.node
      BY <2>3, <2>4 DEF Seen, Visible, Hidden
    <3>7. /\ \A a, b \in Paths : disk'[a].node = disk'[b].node /\ disk'[a].node # None => a = b
          /\ \A i \in Operations, a \in Paths : trash'[i].node = disk'[a].node => disk'[a].node = None
      <4> HIDE DEF x
      <4> QED BY <1>3, <2>7, <3>5, <3>6
    <3> QED BY <3>2, <3>3, <3>4, <3>7 DEF RunCont
  <2>9. UndoCont /\ Spares BY <2>2 DEF UndoCont, Spares
  <2>10. \A q \in Paths \ DOMAIN final : disk'[q] = disk[q] BY <2>2, <2>7
  <2> QED BY <1>1, <1>3, <2>6, <2>7, <2>8, <2>9, <2>10 DEF Good, Effect
<1> QED BY <1>2, <1>3 DEF PublishFile, Done, NotDone, Works, Stops, Continues, SameDisk, Puts, vault, private

LEMMA DiscardPreparedIs ==
  ASSUME IInv, DiscardPrepared
  PROVE  Good
<1> DEFINE k == args[2]
<1>1. HostFrame /\ args[1] = "discard" BY HostIs DEF DiscardPrepared
<1>2. CASE UNCHANGED vault /\ Stops BY <1>1, <1>2, Failing
<1>3. CASE /\ stage' = [stage EXCEPT ![k] = None] /\ back' = [back EXCEPT ![k] = None]
           /\ disk' = disk /\ trash' = trash /\ (Stops \/ Continues)
  <2>1. args = <<"discard", k>> /\ k \in Stages BY <1>1, Facts, StepIs
  <2>2. /\ PrivateOK' /\ Typed
        /\ \A j \in Stages : stage'[j] \in {stage[j], None} /\ back'[j] \in {back[j], None}
        /\ stage'[k] = None /\ back'[k] = None
        /\ \A n : n # None /\ Hidden(n)' => Hidden(n)
    BY <1>1, <1>3, <2>1, Fewer, Facts DEF Typed
  <2>3. NodesOK' /\ \A n : n # None /\ Seen(n)' => Seen(n)
    BY <1>1, <2>2, Facts, Distinct, <1>3, Hidings DEF NodesOK, Seen
  <2>4. RunCont
    <3> SUFFICES ASSUME pc = "run" PROVE RunCont BY DEF RunCont
    <3>1. \A j \in Stages : stage'[j] # None => stage[j] # None /\ args \notin Publishes(j) BY <2>1, <2>2, Sorts
    <3>2. \A j \in Stages : Seen(<<"staged", j>>)' => Seen(<<"staged", j>>) BY <2>3, NodeIs DEF IInv, TypeOK
    <3>3. \A d : args # <<"compare", d, Nowhere>> BY <2>1
    <3>4. /\ \A a, b \in Paths : disk[a].node = disk[b].node /\ disk[a].node # None => a = b
          /\ \A i \in Operations, a \in Paths : trash[i].node = disk[a].node => disk[a].node = None
      BY <1>1, NoSharing
    <3> QED BY <1>3, <3>1, <3>2, <3>3, <3>4 DEF RunCont
  <2>5. UndoCont BY <2>1, Sorts, <1>3, <2>2, Distinct DEF UndoCont
  <2> QED BY <1>1, <1>3, <2>2, <2>3, <2>4, <2>5 DEF Good, Effect, Spares
<1> QED BY <1>2, <1>3 DEF DiscardPrepared, Done, NotDone, Works, Stops, Continues, SameDisk, vault, private

LEMMA PrepareBackIs ==
  ASSUME IInv, PrepareBack
  PROVE  Good
<1> DEFINE k == args[2]
           b == args[3]
<1>1. HostFrame /\ args[1] = "prepare-back" BY HostIs DEF PrepareBack
<1>2. CASE UNCHANGED vault /\ Stops BY <1>1, <1>2, Failing
<1>3. CASE /\ stage[k] \in {None, Dir} /\ stage' = [stage EXCEPT ![k] = Dir] /\ back' = [back EXCEPT ![k] = b]
           /\ disk' = disk /\ trash' = trash /\ (Stops \/ Continues)
  <2>1. args = <<"prepare-back", k, b>> /\ k \in Stages /\ b \in Known BY <1>1, Facts, StepIs
  <2>2. pc = "undo" /\ args \in UndoSteps /\ k \in Restaged /\ k \notin Directories
    BY <1>1, Facts DEF HostFrame, UndoSteps, RunSteps
  <2>3. /\ stage'[k] = Dir /\ back'[k] = b
        /\ \A j \in Stages : j # k => stage'[j] = stage[j] /\ back'[j] = back[j]
    BY <1>1, <1>3, <2>1, Facts
  <2>4. Typed BY <1>1, <1>3, <2>1, Facts, Distinct DEF Typed
  <2>5. PrivateOK' BY <1>1, <2>1, <2>2, <2>3, Facts, Distinct, <1>3 DEF PrivateOK
  <2>6. NodesOK' BY <1>1, <2>2, <2>3, Facts, Distinct, <1>3, Hidings DEF NodesOK, Seen, Hidden
  <2>7. UndoCont BY <2>1, Sorts, <2>2, <2>3, Distinct, <1>3 DEF PreparesBack, UndoCont
  <2> QED BY <1>1, <1>3, <2>2, <2>4, <2>5, <2>6, <2>7 DEF Good, Effect, Spares, RunCont
<1> QED BY <1>2, <1>3 DEF PrepareBack, Done, NotDone, Works, Stops, Continues, SameDisk, vault, private

\* What is put at a path of the preview, when only the stage may change with it.
LEMMA PutIsGood ==
  ASSUME IInv, HostFrame, NEW k, NEW p \in Paths \cap DOMAIN final, NEW x \in Places,
         disk' = [disk EXCEPT ![p] = x], trash' = trash,
         stage' = stage, back' \in {back, [back EXCEPT ![k] = None]},
         x.is = Absent \/ x.node = None => x = Nowhere,
         \A n \in 1..MaxWrites : x.node = <<"other", n>> => Seen(x.node),
         \A j \in Stages : x.node = <<"staged", j>> => Seen(x.node),
         \A d \in Directories : x.node # <<"staged", d>>,
         pc = "undo" /\ ~late => disk[p].is # Theirs /\ x.is # Theirs,
         Stops \/ Continues, pc = "run" => RunCont,
         \A j \in Stages : args # <<"discard", j>> /\ (back'[j] \in Bytes => args \notin PublishesBack(j)),
         \A i \in Operations : args # <<"drop", i>>
  PROVE  Good
<1>1. /\ PrivateOK' /\ stage' \in [Stages -> Bytes \cup {Dir, None}] /\ back' \in [Stages -> Bytes \cup {None}]
      /\ trash' \in [Operations -> Places] /\ \A j \in Stages : back'[j] \in {back[j], None}
  BY Fewer
<1>2. /\ NodesOK' /\ disk' \in [Paths -> Places] /\ disk'[p] = x
      /\ \A q \in Paths : q # p => disk'[q] = disk[q]
  <2>1. \A j \in Stages : Seen(<<"staged", j>>) \/ x.node = <<"staged", j>> =>
           stage'[j] \notin Bytes /\ (j \in Directories => stage'[j] = None) BY Facts DEF NodesOK, Seen
  <2>2. \A d \in Directories : x.node = <<"staged", d>> => p = d /\ x.is = Dir OBVIOUS
  <2> QED BY <2>1, <2>2, Puttings
<1>3. Spares BY <1>2 DEF Spares
<1>4. UndoCont BY <1>1, Distinct DEF UndoCont
<1>5. RunCont BY DEF RunCont
<1> QED BY <1>1, <1>2, <1>3, <1>4, <1>5 DEF Good, Effect, Typed

LEMMA PublishBackIs ==
  ASSUME IInv, PublishBack
  PROVE  Good
<1> DEFINE k == args[2]
           p == args[3]
           x == At(back[k], <<"restored", k>>)
<1>1. HostFrame /\ args[1] = "publish-back" BY HostIs DEF PublishBack
<1>2. CASE UNCHANGED vault /\ Stops BY <1>1, <1>2, Failing
<1>3. CASE /\ back[k] \in Bytes /\ back' = [back EXCEPT ![k] = None] /\ disk' = [disk EXCEPT ![p] = x]
           /\ stage' = stage /\ trash' = trash /\ (Stops \/ Continues)
  <2>1. args = <<"publish-back", k, p>> /\ k \in Stages /\ p \in Files /\ p \in Paths BY <1>1, Facts, StepIs, Distinct
  <2>2. pc = "undo" /\ args \in UndoSteps /\ p \in DOMAIN final BY <1>1, Facts DEF HostFrame, UndoSteps, RunSteps
  <2>3. back[k] \in Known BY <1>1, <1>3, <2>1, Facts, Distinct DEF PrivateOK
  <2>4. x \in Places /\ x.is = back[k] /\ x.node = <<"restored", k>> /\ x.node # None
    BY <2>1, NodeIs, <1>3 DEF IInv, TypeOK, At, Places
  <2>5. ~late => disk[p].is # Theirs /\ x.is # Theirs
    BY <1>1, <1>3, <2>1, <2>2, <2>3, <2>4, Facts, Distinct DEF Sparing
  <2>6. \A j \in Stages : args # <<"discard", j>> /\ (back'[j] \in Bytes => args \notin PublishesBack(j))
    BY Sorts, <1>1, <1>3, <2>1, Facts, Distinct
  <2>7. \A i \in Operations : args # <<"drop", i>> BY <2>1
  <2>8. x.is = Absent \/ x.node = None => x = Nowhere BY <1>3, <2>4, Distinct
  <2>9. /\ \A n \in 1..MaxWrites : x.node = <<"other", n>> => Seen(x.node)
        /\ \A j \in Stages : x.node = <<"staged", j>> => Seen(x.node)
        /\ \A d \in Directories : x.node # <<"staged", d>>
    BY <2>4
  <2>10. pc # "run" BY <2>2
  <2> HIDE DEF x, k, p
  <2> QED BY <1>1, <1>3, <2>1, <2>2, <2>4, <2>5, <2>6, <2>7, <2>8, <2>9, <2>10, PutIsGood
<1> QED BY <1>2, <1>3 DEF PublishBack, Done, NotDone, Works, Stops, Continues, SameDisk, Puts, vault, private

LEMMA LinkFileIs ==
  ASSUME IInv, LinkFile
  PROVE  Good
<1> DEFINE q == args[2]
           p == args[3]
           x == disk[q]
<1>1. HostFrame /\ args[1] = "link" BY HostIs DEF LinkFile
<1>2. CASE UNCHANGED vault /\ Stops BY <1>1, <1>2, Failing
<1>3. CASE /\ disk[q].is \in Bytes /\ disk[p].is = Absent /\ disk' = [disk EXCEPT ![p] = x]
           /\ stage' = stage /\ back' = back /\ trash' = trash /\ (Stops \/ Continues)
  <2>1. args = <<"link", q, p>> /\ p \in Files /\ p \in Paths /\ q \in Files /\ q \in Paths
    BY <1>1, Facts, StepIs, Distinct
  <2>2. p \in DOMAIN final BY <1>1, Facts DEF HostFrame, UndoSteps, RunSteps
  <2>4. x \in Places /\ Visible(x.node) /\ x.is \in Bytes BY <1>1, <1>3, <2>1, Facts DEF Visible
  <2>5. pc = "undo" /\ ~late => disk[p].is # Theirs /\ x.is # Theirs BY <1>1, <1>3, <2>1, Facts, Distinct DEF Sparing
  <2>6. \A j \in Stages : args # <<"discard", j>> /\ (back'[j] \in Bytes => args \notin PublishesBack(j))
    BY <2>1, Sorts
  <2>7. \A i \in Operations : args # <<"drop", i>> BY <2>1
  <2>8. x.is = Absent \/ x.node = None => x = Nowhere BY <1>1, <2>1, Facts DEF NodesOK
  <2>9. Seen(x.node) /\ \A d \in Directories : x.node # <<"staged", d>>
    <3>1. Seen(x.node) BY <2>4 DEF Seen
    <3>2. \A d \in Directories : disk[q].node = <<"staged", d>> => disk[q].is = Dir BY <1>1, <2>1, Facts DEF NodesOK
    <3> QED BY <1>3, <3>1, <3>2, Distinct
  <2>10. ASSUME pc = "run" PROVE RunCont
    <3>1. args \in Doubles(q) BY <1>1, <2>1, Facts DEF Doubles
    <3>2. \A j \in Stages : args \notin Publishes(j) /\ args \notin Publishing(j) BY <2>1, Sorts
    <3>3. \A j \in Stages : Seen(<<"staged", j>>)' => Seen(<<"staged", j>>)
      BY <1>1, <1>3, <2>1, Facts DEF Visible, Hidden, Seen
    <3>4. \A d : args # <<"compare", d, Nowhere>> BY <2>1
    <3>5. /\ \A a, b \in Paths : disk[a].node = disk[b].node /\ disk[a].node # None => a = b
          /\ \A i \in Operations, a \in Paths : trash[i].node = disk[a].node => disk[a].node = None
      BY <1>1, <2>10, NoSharing
    <3>6. /\ disk'[p] = disk[q]
          /\ \A r \in Paths : r # p => disk'[r] = disk[r]
      BY <1>1, <1>3, <2>1, Facts
    <3>7. /\ \A a, b \in Paths : a # b /\ disk'[a].node = disk'[b].node /\ disk'[a].node # None => q \in {a, b}
          /\ \A i \in Operations, a \in Paths : trash'[i].node = disk'[a].node => disk'[a].node = None
      <4> HIDE DEF x, p, q
      <4> QED BY <1>3, <2>1, <3>5, <3>6
    <3> QED BY <1>3, <2>1, <3>1, <3>2, <3>3, <3>4, <3>7 DEF RunCont
  <2> HIDE DEF x, p, q
  <2> QED BY <1>1, <1>3, <2>1, <2>2, <2>4, <2>5, <2>6, <2>7, <2>8, <2>9, <2>10, PutIsGood
<1> QED BY <1>2, <1>3 DEF LinkFile, Done, NotDone, Works, Stops, Continues, SameDisk, Puts, IsFile, vault, private

\* A name is removed, whatever is there.
LEMMA RemovalIsGood ==
  ASSUME IInv, HostFrame, NEW p \in Paths \cap DOMAIN final,
         disk' = [disk EXCEPT ![p] = Nowhere], stage' = stage, back' = back, trash' = trash,
         pc = "undo" /\ ~late => disk[p].is # Theirs,
         Stops \/ Continues, pc = "run" => RunCont,
         args[1] \notin {"discard", "drop", "publish-back"}
  PROVE  Good
<1>1. Nowhere \in Places /\ Nowhere.is = Absent /\ Nowhere.node = None BY NodeIs DEF IInv, TypeOK
<1>2. /\ \A j \in Stages : args # <<"discard", j>> /\ args \notin PublishesBack(j)
      /\ \A i \in Operations : args # <<"drop", i>>
  BY Sorts
<1>3. /\ \A n \in 1..MaxWrites : Nowhere.node # <<"other", n>>
      /\ \A j \in Stages : Nowhere.node # <<"staged", j>>
      /\ \A d \in Directories : Nowhere.node # <<"staged", d>>
  <2>1. 1..MaxWrites \subseteq Nat BY BoundsAssumption
  <2> QED BY <1>1, <2>1, NodeIs DEF IInv, TypeOK
<1> DEFINE x == Nowhere
<1>4. x \in Places /\ x.is # Theirs /\ (x.is = Absent \/ x.node = None => x = Nowhere) BY <1>1, Distinct
<1>5. /\ \A n \in 1..MaxWrites : x.node = <<"other", n>> => Seen(x.node)
      /\ \A j \in Stages : x.node = <<"staged", j>> => Seen(x.node)
      /\ \A d \in Directories : x.node # <<"staged", d>>
  BY <1>3
<1>6. disk' = [disk EXCEPT ![p] = x] OBVIOUS
<1> HIDE DEF x
<1> QED BY <1>2, <1>4, <1>5, <1>6, PutIsGood

LEMMA RemoveFileIs ==
  ASSUME IInv, RemoveFile
  PROVE  Good
<1> DEFINE p == args[2]
<1>1. HostFrame /\ args[1] = "unlink" BY HostIs DEF RemoveFile
<1>2. CASE UNCHANGED vault /\ Stops BY <1>1, <1>2, Failing
<1>3. CASE /\ disk' = [disk EXCEPT ![p] = Nowhere]
           /\ stage' = stage /\ back' = back /\ trash' = trash /\ (Stops \/ Continues)
  <2>1. args = <<"unlink", p>> /\ p \in Files /\ p \in Paths BY <1>1, Facts, StepIs, Distinct
  <2>2. p \in DOMAIN final BY <1>1, Facts DEF HostFrame, UndoSteps, RunSteps
  <2>3. pc = "undo" /\ ~late => disk[p].is # Theirs BY <1>1, <2>1, Facts DEF Sparing
  <2>4. ASSUME pc = "run" PROVE RunCont
    <3>1. Nowhere.node = None BY NodeIs DEF IInv, TypeOK
    <3>2. disk'[p] = Nowhere /\ \A r \in Paths : r # p => disk'[r] = disk[r] BY <1>1, <1>3, <2>1, Facts
    <3>3. \A j \in Stages : args \notin Publishes(j) /\ args \notin Publishing(j) BY <2>1, Sorts
    <3>4. \A j \in Stages : Seen(<<"staged", j>>)' => Seen(<<"staged", j>>)
      <4>1. \A n : n # None /\ Visible(n)' => Visible(n) BY <3>1, <3>2 DEF Visible
      <4>2. \A n : Hidden(n)' => Hidden(n) BY <1>1, <1>3, Facts DEF Hidden
      <4> QED BY <4>1, <4>2, NodeIs DEF Seen, IInv, TypeOK
    <3>5. \A d : args # <<"compare", d, Nowhere>> BY <2>1
    <3>6. Unshared /\ \A r : HeadIs(<<"unlink", r>>) => r = p
      BY <2>1, <2>4 DEF IInv, SharedOK, Executing, HeadIs, args
    <3>7. /\ \A a, b \in Paths : disk'[a].node = disk'[b].node /\ disk'[a].node # None => a = b
          /\ \A i \in Operations, a \in Paths : trash'[i].node = disk'[a].node => disk'[a].node = None
      <4> HIDE DEF p
      <4> QED BY <1>3, <3>1, <3>2, <3>6 DEF Unshared
    <3> QED BY <1>3, <3>3, <3>4, <3>5, <3>7 DEF RunCont
  <2> HIDE DEF p
  <2> QED BY <1>1, <1>3, <2>1, <2>2, <2>3, <2>4, RemovalIsGood
<1> QED BY <1>2, <1>3 DEF RemoveFile, Done, NotDone, Works, Stops, Continues, SameDisk, Puts, vault, private

\* The trash, the copies and the directories.
LEMMA HideInTrashIs ==
  ASSUME IInv, HideInTrash
  PROVE  Good
<1> DEFINE p == args[2]
           i == args[3]
<1>1. HostFrame /\ args[1] = "hide" BY HostIs DEF HideInTrash
<1>2. CASE UNCHANGED vault /\ Stops BY <1>1, <1>2, Failing
<1>3. CASE /\ disk[p].is \in Bytes /\ trash[i] = Nowhere /\ trash' = [trash EXCEPT ![i] = disk[p]]
           /\ disk' = disk /\ stage' = stage /\ back' = back /\ (Stops \/ Continues)
  <2>1. args = <<"hide", p, i>> /\ p \in Files /\ p \in Paths /\ i \in Operations BY <1>1, Facts, StepIs, Distinct
  <2>2. pc = "run" /\ request[i].kind = "trash" BY <1>1, Facts DEF HostFrame, UndoSteps, RunSteps
  <2>3. trash'[i] = disk[p] /\ \A j \in Operations : j # i => trash'[j] = trash[j] BY <1>1, <1>3, <2>1, Facts
  <2>4. disk[p] \in Places /\ disk[p].node # None /\ \A d \in Directories : disk[p].node # <<"staged", d>>
    <3>1. disk[p] \in Places /\ disk[p].is # Absent BY <1>1, <1>3, <2>1, Facts, Distinct
    <3>2. disk[p].node # None BY <1>1, <2>1, <3>1, Facts, NodeIs DEF NodesOK, IInv, TypeOK
    <3>3. \A d \in Directories : disk[p].node = <<"staged", d>> => disk[p].is = Dir BY <1>1, <2>1, Facts DEF NodesOK
    <3> QED BY <1>3, <3>1, <3>2, <3>3, Distinct
  <2>5. Typed BY <1>1, <1>3, <2>1, <2>4, Facts DEF Typed
  <2>6. PrivateOK' BY <1>1, <1>3, <2>2, <2>3, Facts DEF PrivateOK
  <2>7. NodesOK' /\ \A n : n # None /\ Seen(n)' => Seen(n)
    <3>1. \A j \in Stages : Seen(<<"staged", j>>) => stage'[j] \notin Bytes /\ (j \in Directories => stage'[j] = None)
      BY <1>1, <1>3, Facts DEF NodesOK, Seen
    <3>2. \A j \in Operations : (trash'[j].is = Absent \/ trash'[j].node = None) => trash'[j] = Nowhere
      BY <1>1, <1>3, <2>3, <2>4, Facts, Distinct DEF NodesOK
    <3>3. \A n : n # None /\ Hidden(n)' => Hidden(n) \/ (n \notin {"staged"} \X Directories /\ Visible(n))
      <4>1. \A n : Hidden(n)' => Hidden(n) \/ n = disk[p].node BY <1>1, <2>3, Facts DEF Hidden
      <4>2. Visible(disk[p].node) BY <2>1 DEF Visible
      <4>3. disk[p].node \notin {"staged"} \X Directories
        <5> HIDE DEF p
        <5> QED BY <2>4
      <4> QED BY <4>1, <4>2, <4>3
    <3> QED BY <1>1, <1>3, <3>1, <3>2, <3>3, Hidings
  <2>8. RunCont
    <3>1. args \in Doubles(p) BY <1>1, <2>1, Facts DEF Doubles
    <3>2. \A j \in Stages : args \notin Publishes(j) /\ args \notin Publishing(j) BY <2>1, Sorts
    <3>3. \A j \in Stages : Seen(<<"staged", j>>)' => Seen(<<"staged", j>>) BY <2>7, NodeIs DEF IInv, TypeOK
    <3>4. \A d : args # <<"compare", d, Nowhere>> BY <2>1
    <3>5. /\ \A a, b \in Paths : disk[a].node = disk[b].node /\ disk[a].node # None => a = b
          /\ \A j \in Operations, a \in Paths : trash[j].node = disk[a].node => disk[a].node = None
      BY <1>1, <2>2, NoSharing
    <3>6. \A j \in Operations, a \in Paths : trash'[j].node = disk'[a].node /\ disk'[a].node # None => a = p
      <4> HIDE DEF p, i
      <4> QED BY <1>3, <2>1, <2>3, <3>5
    <3> QED BY <1>3, <2>1, <3>1, <3>2, <3>3, <3>4, <3>5, <3>6 DEF RunCont
  <2>9. UndoCont /\ Spares BY <2>2 DEF UndoCont, Spares
  <2> QED BY <1>1, <1>3, <2>5, <2>6, <2>7, <2>8, <2>9 DEF Good, Effect
<1> QED BY <1>2, <1>3 DEF HideInTrash, Done, NotDone, Works, Stops, Continues, SameDisk, IsFile, vault, private

LEMMA RestoreFromTrashIs ==
  ASSUME IInv, RestoreFromTrash
  PROVE  Good
<1> DEFINE p == args[2]
           i == args[3]
           x == At(trash[i].is, <<"restored", p>>)
<1>1. HostFrame /\ args[1] = "unhide" BY HostIs DEF RestoreFromTrash
<1>2. CASE UNCHANGED vault /\ Stops BY <1>1, <1>2, Failing
<1>3. CASE /\ trash[i] # Nowhere /\ disk[p].is = Absent /\ disk' = [disk EXCEPT ![p] = x]
           /\ stage' = stage /\ back' = back /\ trash' = trash /\ (Stops \/ Continues)
  <2>1. args = <<"unhide", p, i>> /\ p \in Files /\ p \in Paths /\ i \in Operations BY <1>1, Facts, StepIs, Distinct
  <2>2. pc = "undo" /\ args \in UndoSteps /\ p \in DOMAIN final BY <1>1, Facts DEF HostFrame, UndoSteps, RunSteps
  <2>3. trash[i].is # Absent /\ trash[i].is \in Bytes \cup {Absent, Dir}
    BY <1>1, <1>3, <2>1, Facts DEF NodesOK, Places
  <2>4. x \in Places /\ x.is = trash[i].is /\ x.node = <<"restored", p>> /\ x.node # None
    BY <1>1, <2>1, Facts, NodeIs, <2>3 DEF IInv, TypeOK, At, Places
  <2>5. ~late => disk[p].is # Theirs /\ x.is # Theirs BY <1>1, <1>3, <2>1, <2>2, <2>4, Facts, Distinct DEF Sparing
  <2>6. \A j \in Stages : args # <<"discard", j>> /\ args \notin PublishesBack(j) BY <2>1, Sorts
  <2>7. \A j \in Operations : args # <<"drop", j>> BY <2>1
  <2>8. x.is = Absent \/ x.node = None => x = Nowhere BY <2>3, <2>4
  <2>9. /\ \A n \in 1..MaxWrites : x.node = <<"other", n>> => Seen(x.node)
        /\ \A j \in Stages : x.node = <<"staged", j>> => Seen(x.node)
        /\ \A d \in Directories : x.node # <<"staged", d>>
    BY <2>4
  <2>10. pc # "run" BY <2>2
  <2> HIDE DEF x, i, p
  <2> QED BY <1>1, <1>3, <2>1, <2>2, <2>4, <2>5, <2>6, <2>7, <2>8, <2>9, <2>10, PutIsGood
<1> QED BY <1>2, <1>3 DEF RestoreFromTrash, Done, NotDone, Works, Stops, Continues, SameDisk, Puts, Is, vault, private

LEMMA DiscardTrashIs ==
  ASSUME IInv, DiscardTrash
  PROVE  Good
<1> DEFINE i == args[2]
<1>1. HostFrame /\ args[1] = "drop" BY HostIs DEF DiscardTrash
<1>2. CASE UNCHANGED vault /\ Stops BY <1>1, <1>2, Failing
<1>3. CASE /\ trash' = [trash EXCEPT ![i] = Nowhere]
           /\ disk' = disk /\ stage' = stage /\ back' = back /\ (Stops \/ Continues)
  <2>1. args = <<"drop", i>> /\ i \in Operations BY <1>1, Facts, StepIs
  <2>2. pc = "undo" BY <1>1, Facts DEF HostFrame, RunSteps
  <2>3. /\ PrivateOK' /\ Typed
        /\ \A j \in Operations : trash'[j] \in {trash[j], Nowhere}
        /\ \A n : n # None /\ Hidden(n)' => Hidden(n)
    <3>1. trash' \in {trash, [trash EXCEPT ![i] = Nowhere]} /\ stage' \in {stage, [stage EXCEPT ![i] = None]}
          /\ back' \in {back, [back EXCEPT ![i] = None]}
      BY <1>3
    <3> HIDE DEF i
    <3>2. /\ PrivateOK' /\ trash' \in [Operations -> Places]
          /\ \A j \in Operations : trash'[j] \in {trash[j], Nowhere}
          /\ \A n : n # None /\ Hidden(n)' => Hidden(n)
      BY <1>1, <3>1, Fewer
    <3> QED BY <1>1, <1>3, <3>2, Facts DEF Typed
  <2>4. trash'[i] = Nowhere BY <1>1, <1>3, <2>1, Facts
  <2>5. NodesOK' BY <1>1, <1>3, Facts, <2>3, Hidings DEF NodesOK, Seen
  <2>6. Spares BY Distinct, <1>3, <2>3 DEF Nowhere, At, Spares
  <2>7. UndoCont BY <2>1, Sorts, <2>3, <2>4, <1>3 DEF UndoCont
  <2> QED BY <1>1, <1>3, <2>2, <2>3, <2>5, <2>6, <2>7 DEF Good, Effect, RunCont
<1> QED BY <1>2, <1>3 DEF DiscardTrash, Done, NotDone, Works, Stops, Continues, SameDisk, vault, private

LEMMA RemoveCopyIs ==
  ASSUME IInv, RemoveCopy
  PROVE  Good
<1> DEFINE p == args[2]
<1>1. HostFrame /\ args[1] = "undo-copy" BY HostIs DEF RemoveCopy
<1>2. CASE UNCHANGED vault /\ Stops BY <1>1, <1>2, Failing
<1>3. CASE /\ disk' = [disk EXCEPT ![p] = Nowhere]
           /\ stage' = stage /\ back' = back /\ trash' = trash /\ (Stops \/ Continues)
  <2>1. p \in Paths /\ p \in DOMAIN final /\ pc = "undo"
    BY <1>1, Facts, StepIs, Distinct DEF HostFrame, UndoSteps, RunSteps
  <2>2. ~late => disk[p].is # Theirs BY <1>1, <2>1, Facts DEF Sparing
  <2> HIDE DEF p
  <2> QED BY <1>1, <1>3, <2>1, <2>2, RemovalIsGood
<1> QED BY <1>2, <1>3 DEF RemoveCopy, Done, NotDone, Works, Stops, Continues, SameDisk, Puts, vault, private

LEMMA RemoveDirectoryIs ==
  ASSUME IInv, RemoveDirectory
  PROVE  Good
<1> DEFINE p == args[2]
<1>1. HostFrame /\ args[1] = "remove-directory" BY HostIs DEF RemoveDirectory
<1>2. CASE UNCHANGED vault /\ Stops BY <1>1, <1>2, Failing
<1>3. CASE /\ disk' = [disk EXCEPT ![p] = Nowhere]
           /\ stage' = stage /\ back' = back /\ trash' = trash /\ (Stops \/ Continues)
  <2>1. p \in Paths /\ p \in DOMAIN final /\ pc = "undo"
    BY <1>1, Facts, StepIs, Distinct DEF HostFrame, UndoSteps, RunSteps
  <2>2. ~late => disk[p].is # Theirs BY <1>1, <2>1, Facts DEF Sparing
  <2> HIDE DEF p
  <2> QED BY <1>1, <1>3, <2>1, <2>2, RemovalIsGood
<1> QED BY <1>2, <1>3 DEF RemoveDirectory, Done, NotDone, Works, Stops, Continues, SameDisk, Puts, vault, private

LEMMA PrepareDirectoryIs ==
  ASSUME IInv, PrepareDirectory
  PROVE  Good
<1> DEFINE e == args[2]
<1>1. HostFrame /\ args[1] = "prepare-directory" BY HostIs DEF PrepareDirectory
<1>2. CASE UNCHANGED vault /\ Stops BY <1>1, <1>2, Failing
<1>3. CASE /\ stage' = [stage EXCEPT ![e] = Dir]
           /\ disk' = disk /\ back' = back /\ trash' = trash /\ (Stops \/ Continues)
  <2>1. args = <<"prepare-directory", e>> /\ e \in Directories /\ e \in Stages BY <1>1, Facts, StepIs, Distinct
  <2>2. pc = "run" /\ e \in NewDirectories BY <1>1, Facts DEF HostFrame, UndoSteps, RunSteps
  <2>3. stage'[e] = Dir /\ \A j \in Stages : j # e => stage'[j] = stage[j] BY <1>1, <1>3, <2>1, Facts
  <2>4. ~Seen(<<"staged", e>>)
    BY <1>1, <2>1, <2>2, Facts DEF HeadIs, args, HostFrame, IInv, RunOK, Executing, NodesOK, Seen, Visible
  <2>5. Typed BY <1>1, <1>3, <2>1, Facts DEF Typed
  <2>6. PrivateOK' BY <1>1, <2>3, Facts, Distinct, <2>2, <1>3 DEF PrivateOK
  <2>7. NodesOK' BY <1>1, <2>3, <2>4, Facts, Distinct, <1>3, Hidings DEF NodesOK, Seen, Hidden
  <2>8. RunCont BY <2>1, Sorts, <1>1, <1>3, Facts, <2>2, NoSharing, <2>3 DEF Prepares, Seen, Visible, Hidden, RunCont
  <2>9. UndoCont /\ Spares BY <2>2 DEF UndoCont, Spares
  <2> QED BY <1>1, <1>3, <2>5, <2>6, <2>7, <2>8, <2>9 DEF Good, Effect
<1> QED BY <1>2, <1>3 DEF PrepareDirectory, Done, NotDone, Works, Stops, Continues, SameDisk, vault, private

LEMMA PublishDirectoryIs ==
  ASSUME IInv, PublishDirectory
  PROVE  Good
<1> DEFINE e == args[2]
           x == At(Dir, <<"staged", e>>)
<1>1. HostFrame /\ args[1] = "publish-directory" BY HostIs DEF PublishDirectory
<1>2. CASE UNCHANGED vault /\ Stops BY <1>1, <1>2, Failing
<1>3. CASE /\ stage' = [stage EXCEPT ![e] = None] /\ disk' = [disk EXCEPT ![e] = x]
           /\ back' = back /\ trash' = trash /\ (Stops \/ Continues)
  <2>1. args = <<"publish-directory", e>> /\ e \in Directories /\ e \in Stages /\ e \in Paths
    BY <1>1, Facts, StepIs, Distinct
  <2>2. pc = "run" /\ e \in NewDirectories /\ e \in DOMAIN final BY <1>1, Facts DEF HostFrame, UndoSteps, RunSteps
  <2>3. stage'[e] = None /\ \A j \in Stages : j # e => stage'[j] = stage[j] BY <1>1, <1>3, <2>1, Facts
  <2>4. x \in Places /\ x.is = Dir /\ x.node = <<"staged", e>> /\ x.node # None
    BY <2>1, NodeIs DEF IInv, TypeOK, At, Places
  <2>5. PrivateOK' /\ Typed BY <1>1, <1>3, <2>1, <2>4, Facts, Fewer DEF Typed
  <2>6. /\ NodesOK' /\ disk'[e] = x
        /\ \A q \in Paths : q # e => disk'[q] = disk[q]
        /\ \A n : Seen(n)' => Seen(n) \/ x.node = n
    <3>1. x.is = Absent \/ x.node = None => x = Nowhere BY <2>4, Distinct
    <3>2. \A n \in 1..MaxWrites : x.node = <<"other", n>> => Seen(x.node) BY <2>4
    <3>3. \A j \in Stages : Seen(<<"staged", j>>) \/ x.node = <<"staged", j>> =>
           stage'[j] \notin Bytes /\ (j \in Directories => stage'[j] = None)
      BY <1>1, <2>3, <2>4, Facts, Distinct DEF NodesOK, Seen
    <3>4. \A d \in Directories : x.node = <<"staged", d>> => e = d /\ x.is = Dir BY <2>4
    <3> HIDE DEF x, e
    <3> QED BY <1>1, <1>3, <2>1, <2>4, <3>1, <3>2, <3>3, <3>4, Puttings
  <2>7. RunCont
    <3>1. \A j \in Stages : args \in Publishes(j) => j = e BY <2>1, Sorts
    <3>2. args \in Publishes(e) BY <2>1 DEF Publishes
    <3>3. \A j \in Stages : Seen(<<"staged", j>>)' => Seen(<<"staged", j>>) \/ j \in Directories BY <2>1, <2>4, <2>6
    <3>4. \A d : args # <<"compare", d, Nowhere>> BY <2>1
    <3>5. /\ \A a, b \in Paths : disk[a].node = disk[b].node /\ disk[a].node # None => a = b
          /\ \A i \in Operations, a \in Paths : trash[i].node = disk[a].node => disk[a].node = None
      BY <1>1, <2>2, NoSharing
    <3>6. /\ \A a \in Paths : disk[a].node = x.node => a = e
          /\ \A i \in Operations : trash[i].node # x.node
      BY <1>1, <2>1, <2>4, Facts DEF NodesOK, Hidden
    <3>7. /\ \A a, b \in Paths : disk'[a].node = disk'[b].node /\ disk'[a].node # None => a = b
          /\ \A i \in Operations, a \in Paths : trash'[i].node = disk'[a].node => disk'[a].node = None
      <4> HIDE DEF x, e
      <4> QED BY <1>3, <2>6, <3>5, <3>6
    <3>8. \A j \in Stages : stage'[j] # None => stage[j] # None /\ args \notin Publishes(j) BY <2>3, <3>1
    <3> QED BY <3>3, <3>4, <3>7, <3>8 DEF RunCont
  <2>8. UndoCont /\ Spares BY <2>2 DEF UndoCont, Spares
  <2>9. \A q \in Paths \ DOMAIN final : disk'[q] = disk[q] BY <2>2, <2>6
  <2> QED BY <1>1, <1>3, <2>5, <2>6, <2>7, <2>8, <2>9 DEF Good, Effect
<1> QED BY <1>2, <1>3 DEF PublishDirectory, Done, NotDone, Works, Stops, Continues, SameDisk, Puts, vault, private

\* A step that leaves the vault as it is.
LEMMA IdleIsGood ==
  ASSUME IInv, HostFrame, UNCHANGED vault, Stops \/ Continues,
         args[1] \in {"compare", "journal", "save"},
         \A e \in Directories : args = <<"compare", e, Nowhere>> => disk[e] = Nowhere
  PROVE  Good
<1>0. disk' = disk /\ stage' = stage /\ back' = back /\ trash' = trash BY DEF vault, private
<1>1. Effect BY NothingDone
<1>2. pc = "run" BY Facts DEF HostFrame, UndoSteps
<1>3. RunCont
  <2>1. \A j \in Stages : args \notin Publishes(j) BY Sorts
  <2>2. \A j \in Stages : Seen(<<"staged", j>>)' => Seen(<<"staged", j>>) BY <1>0, Facts DEF Seen, Visible, Hidden
  <2>3. \A e \in Directories : args = <<"compare", e, Nowhere>> => disk[e].node # <<"staged", e>>
    <3>1. Nowhere.node = None /\ \A e \in Directories : <<"staged", e>> # None BY NodeIs DEF IInv, TypeOK
    <3> QED BY <3>1
  <2>4. /\ \A a, b \in Paths : disk[a].node = disk[b].node /\ disk[a].node # None => a = b
        /\ \A i \in Operations, a \in Paths : trash[i].node = disk[a].node => disk[a].node = None
    BY <1>2, NoSharing
  <2> QED BY <1>0, <2>1, <2>2, <2>3, <2>4 DEF RunCont
<1>4. UndoCont BY <1>2 DEF UndoCont
<1> QED BY <1>1, <1>3, <1>4 DEF Good

LEMMA CompareIs ==
  ASSUME IInv, Compare
  PROVE  Good
<1>1. HostFrame /\ args[1] = "compare" /\ UNCHANGED vault BY HostIs DEF Compare
<1>2. Stops \/ (Continues /\ disk[args[2]] = args[3]) BY DEF Compare, Done, NotDone, Works, Stops, Continues
<1>3. CASE Stops BY <1>1, <1>3, Failing
<1>4. CASE Continues /\ disk[args[2]] = args[3] BY <1>4, <1>1, IdleIsGood
<1> QED BY <1>2, <1>3, <1>4

LEMMA SavePhaseIs ==
  ASSUME IInv, SavePhase
  PROVE  Good
<1>1. HostFrame /\ args[1] = "save" /\ UNCHANGED vault BY HostIs DEF SavePhase
<1>2. Stops \/ Continues BY DEF SavePhase, Done, NotDone, Works, Stops, Continues
<1>3. \A e \in Directories : args # <<"compare", e, Nowhere>> BY <1>1
<1> QED BY <1>1, <1>2, <1>3, IdleIsGood

LEMMA PersistIdentitiesIs ==
  ASSUME IInv, PersistIdentities
  PROVE  Good
<1>1. /\ pc \in {"run", "undo"} /\ todo # <<>> /\ args[1] = "journal" /\ UNCHANGED vault
      /\ UNCHANGED <<elsewhere, entry, opening>> /\ known' = known \cup args[2]
      /\ journal' \in {journal, [journal EXCEPT !.known = known']}
  BY DEF PersistIdentities, Doing, Done, NotDone, args
<1>2. args \in Step BY <1>1, HeadIn
<1>3. args[2] \in SUBSET Paths BY <1>1, <1>2, StepIs
<1>4. known' \subseteq Paths BY <1>1, <1>3 DEF IInv, TypeOK
<1>5. journal = [phase |-> journal.phase, known |-> journal.known] /\ journal.known \subseteq Paths
  BY DEF IInv, TypeOK
<1>6. journal' = [phase |-> journal.phase, known |-> journal'.known] /\ journal'.known \subseteq Paths
  BY <1>5, <1>4, <1>1
<1>7. HostFrame BY <1>1, <1>4, <1>6 DEF HostFrame
<1>8. Stops \/ Continues BY DEF PersistIdentities, Done, NotDone, Works, Stops, Continues
<1>9. \A e \in Directories : args # <<"compare", e, Nowhere>> BY <1>1
<1> QED BY <1>1, <1>7, <1>8, <1>9, IdleIsGood

\* Every step of the host is good, and keeps the invariant.
LEMMA HostStepIs ==
  ASSUME IInv, HostStep
  PROVE  Good /\ IInv'
<1>1. Good BY PrepareFileIs, PublishFileIs, DiscardPreparedIs, PrepareBackIs, PublishBackIs, LinkFileIs, RemoveFileIs,
     HideInTrashIs, RestoreFromTrashIs, DiscardTrashIs, RemoveCopyIs, PrepareDirectoryIs, PublishDirectoryIs,
     RemoveDirectoryIs, CompareIs, PersistIdentitiesIs, SavePhaseIs DEF HostStep
<1> QED BY <1>1, GoodIs

-----------------------------------------------------------------------------
(* The steps between them.                                                 *)

\* Such a step keeps most of the invariant.
LEMMA StillIs ==
  ASSUME IInv, Still
  PROVE  /\ TypeOK' /\ entry' = [state |-> entry'.state, preview |-> entry'.preview]
         /\ NodesOK' /\ PrivateOK' /\ PreviewOK'
         /\ Operations' = Operations /\ Stages' = Stages /\ final' = final /\ (Accepted' => Accepted)
         /\ disk' = disk /\ stage' = stage /\ back' = back /\ trash' = trash /\ request' = request
         /\ touched' = touched /\ writes' = writes
<1>0. disk' = disk /\ stage' = stage /\ back' = back /\ trash' = trash /\ request' = request
      /\ touched' = touched /\ writes' = writes
  BY DEF Still, vault, private
<1>1. entry'.preview = entry.preview /\ entry' = [state |-> entry'.state, preview |-> entry'.preview] BY DEF Still
<1>a. Accepted' => Accepted BY DEF Still, Accepted
<1>2. /\ Operations' = Operations /\ Stages' = Stages /\ final' = final
      /\ pre' = pre /\ NewDirectories' = NewDirectories
      /\ Stageable' = Stageable /\ Restaged' = Restaged
  BY <1>0, <1>1, Stable
<1>3. NodesOK' /\ PrivateOK' BY <1>0, <1>2, <1>a DEF IInv, NodesOK, Visible, Hidden, PrivateOK
<1>4. PreviewOK' BY <1>0, <1>a, <1>2 DEF IInv, PreviewOK
<1>5. TypeOK' BY <1>0, <1>2 DEF IInv, TypeOK, Still, States, Labels, Phases, FaultKinds
<1> QED BY <1>0, <1>a, <1>1, <1>2, <1>3, <1>4, <1>5

\* Files have two names only in the middle of a move or of a trashing.
LEMMA NotSharedIs ==
  ASSUME IInv, Complete \/ journal.phase = "none" \/ (pc = "run" /\ todo = <<>>)
  PROVE  NotShared
<1>1. Unshared BY DEF IInv, SharedOK, Executing
<1>2. \A p : ~HeadIs(<<"unlink", p>>) BY DEF HeadIs, IInv, RunOK, Executing, TypeOK, PhaseOK, Complete
<1> QED BY <1>1, <1>2 DEF Unshared, NotShared

\* At the end of an execution nothing is staged.
LEMMA StageIsEmpty ==
  ASSUME IInv, Complete \/ (pc = "run" /\ todo = <<>>)
  PROVE  \A k \in Stages : stage[k] = None
<1>1. CASE Complete BY <1>1 DEF IInv, CompleteOK
<1>2. CASE pc = "run" /\ todo = <<>> BY <1>2, ShortRange DEF IInv, RunOK, Executing
<1> QED BY <1>1, <1>2

\* A step between the host's operations.
LEMMA Moves ==
  ASSUME IInv, Still, PhaseOK', RunOK', UndoOK',
         journal'.phase \in {"none", "ROLLED_BACK"} \/ pc' \in {"settle", "roll-back"} => Clean /\ Unchanged0,
         journal'.phase = "none" \/ pc' = "prepare" => journal.phase = "none",
         Executing' => journal.phase = "none",
         Complete' => Complete \/ (pc = "run" /\ todo = <<>>),
         pc' = "commit" \/ (journal'.phase = "COMMITTED" /\ ~Erred') => Right
  PROVE  IInv'
<1>0. /\ TypeOK' /\ entry' = [state |-> entry'.state, preview |-> entry'.preview]
      /\ NodesOK' /\ PrivateOK' /\ PreviewOK'
      /\ Operations' = Operations /\ Stages' = Stages /\ final' = final /\ (Accepted' => Accepted)
      /\ disk' = disk /\ stage' = stage /\ back' = back /\ trash' = trash /\ request' = request
      /\ touched' = touched /\ writes' = writes
  BY StillIs
<1>1. QuietOK' BY <1>0 DEF Clean, Unchanged0, Is, IInv, QuietOK, Visible
<1>2. SharedOK' BY NotSharedIs, <1>0 DEF NotShared, Unshared, SharedOK
<1>3. CompleteOK' BY StageIsEmpty, <1>0 DEF Right, Is, CompleteOK
<1> QED BY <1>0, <1>1, <1>2, <1>3 DEF IInv

\* One that plans none of them.
LEMMA MovesOn ==
  ASSUME IInv, Still, pc' \notin {"prepare", "run", "undo"}, PhaseOK',
         journal'.phase \in {"none", "ROLLED_BACK"} \/ pc' \in {"settle", "roll-back"} => Clean /\ Unchanged0,
         journal'.phase = "none" => journal.phase = "none",
         Complete' => Complete \/ (pc = "run" /\ todo = <<>>),
         pc' = "commit" \/ (journal'.phase = "COMMITTED" /\ ~Erred') => Right
  PROVE  IInv'
<1>1. RunOK' /\ UndoOK' /\ ~Executing' BY DEF RunOK, UndoOK, Executing
<1> QED BY <1>1, Moves

\* The records of the executor and their fields.
LEMMA Shapes ==
  ASSUME IInv
  PROVE  /\ entry = [state |-> entry.state, preview |-> entry.preview] /\ entry.state \in States /\ pc \in Labels
         /\ journal = [phase |-> journal.phase, known |-> journal.known]
         /\ journal.phase \in Phases /\ journal.known \subseteq Paths /\ known \subseteq Paths
         /\ opening \in BOOLEAN /\ late \in BOOLEAN
         /\ faults \in Seq(FaultKinds) /\ Len(faults) <= MaxFaults
         /\ crashes \in 0..MaxCrashes /\ MaxCrashes \in Nat
         /\ pc \notin {"prepare", "run", "undo"} => todo = <<>>
         /\ pc \notin {"submit", "done"} => Accepted
         /\ PhaseOK
<1>1. TypeOK /\ PhaseOK /\ PreviewOK /\ entry = [state |-> entry.state, preview |-> entry.preview] BY DEF IInv
<1>2. pc \notin {"submit", "done"} => Accepted BY DEF Accepted
<1>3. /\ journal = [phase |-> journal.phase, known |-> journal.known]
      /\ journal.phase \in Phases /\ journal.known \subseteq Paths
  BY <1>1 DEF TypeOK, Phases
<1>4. faults \in Seq(FaultKinds) BY <1>1 DEF TypeOK, FaultKinds
<1> QED BY <1>1, <1>2, <1>3, <1>4, BoundsAssumption DEF TypeOK, States, Labels

\* What persisting a phase or deciding a state makes of its record.
LEMMA Written ==
  ASSUME IInv
  PROVE  /\ \A f \in Phases : Persists(f) => journal' = [phase |-> f, known |-> journal.known] /\ journal'.phase = f
         /\ \A s \in States : Decides(s) => entry' = [state |-> s, preview |-> entry.preview] /\ entry'.state = s
<1>1. ASSUME NEW f \in Phases, Persists(f) PROVE journal' = [phase |-> f, known |-> journal.known]
  BY <1>1, Shapes DEF Persists
<1>2. ASSUME NEW s \in States, Decides(s) PROVE entry' = [state |-> s, preview |-> entry.preview]
  BY <1>2, Shapes DEF Decides
<1> QED BY <1>1, <1>2

\* Which steps are still.
LEMMA KeepsStill ==
  ASSUME IInv, UNCHANGED <<request, touched, crashes, writes, vault>>, pc \notin {"submit", "done"},
         pc' \in Labels, pc' \notin {"prepare", "run", "undo"} => todo' = <<>>,
         journal' = [phase |-> journal'.phase, known |-> journal'.known], journal'.phase \in Phases,
         journal'.known \subseteq Paths,
         entry' = [state |-> entry'.state, preview |-> entry.preview], entry'.state \in States,
         known' \subseteq Paths, opening' \in BOOLEAN, late' \in BOOLEAN,
         faults' = faults \/ \E kind \in FaultKinds : Fault(kind)
  PROVE  Still
<1>1. faults' \in Seq(FaultKinds) /\ Len(faults') <= MaxFaults BY FaultIs, Shapes DEF IInv
<1>2. Accepted /\ crashes' \in 0..MaxCrashes BY Shapes
<1> QED BY <1>1, <1>2 DEF Still

\* The steps that begin at one label with nothing ahead.
LEMMA FromStands ==
  ASSUME IInv, NEW l \in Labels \ {"submit", "done"}, Stands(l),
         pc' \in Labels, pc' \notin {"prepare", "run", "undo"} => todo' = <<>>,
         \/ journal' = journal
         \/ journal'.phase \in Phases /\ journal' = [phase |-> journal'.phase, known |-> journal.known],
         \/ entry' = entry
         \/ entry'.state \in States /\ entry' = [state |-> entry'.state, preview |-> entry.preview],
         known' = known \/ known' = journal.known, opening' \in BOOLEAN,
         faults' = faults \/ \E kind \in FaultKinds : Fault(kind)
  PROVE  Still
<1>1. UNCHANGED <<request, touched, late, crashes, writes, vault>> /\ pc = l BY DEF Stands, elsewhere
<1>2. /\ journal' = [phase |-> journal'.phase, known |-> journal'.known] /\ journal'.phase \in Phases
      /\ journal'.known \subseteq Paths
  BY Shapes
<1>3. entry' = [state |-> entry'.state, preview |-> entry.preview] /\ entry'.state \in States BY Shapes
<1>4. known' \subseteq Paths /\ opening' \in BOOLEAN /\ late' \in BOOLEAN BY <1>1, Shapes
<1> QED BY <1>1, <1>2, <1>3, <1>4, KeepsStill

\* An error at COMMITTED is remembered.
LEMMA ErredIs ==
  ASSUME IInv
  PROVE  /\ faults' = faults => (Erred' <=> Erred)
         /\ \A kind \in FaultKinds \ {"commit"} : Fault(kind) => (Erred' <=> Erred)
         /\ Fault("commit") => Erred'
<1>1. faults' = faults => (Erred' <=> Erred) BY DEF Erred, Errors
<1>2. TypeOK /\ "commit" \in FaultKinds BY DEF IInv, FaultKinds
<1> QED BY <1>1, <1>2, FaultIs

LEMMA BeginIs ==
  ASSUME IInv, Begin
  PROVE  IInv'
<1>1. pc = "queued" /\ journal.phase = "none" /\ journal' = journal /\ known' = known /\ opening' = opening
      /\ entry.state \notin {"none", "applied", "unproven", "not_applied"}
  BY Shapes DEF Begin, Stands, PhaseOK
<1>2. /\ todo' = <<>> /\ pc' \in {"capture", "done", "stalled"}
      /\ \/ entry' = entry /\ pc' # "done"
         \/ pc' = "done" /\ Decides("not_applied")
      /\ faults' = faults \/ Fault("before")
  BY DEF Begin, Goto, Works
<1>3. Decides("not_applied") => entry' = [state |-> "not_applied", preview |-> entry.preview]
                                /\ entry'.state = "not_applied"
  BY Written DEF States
<1>4. Still BY <1>2, <1>1, <1>3, FromStands, Shapes DEF Begin, Labels, FaultKinds, States
<1>5. PhaseOK' BY <1>1, <1>2, <1>3, Shapes DEF PhaseOK
<1>6. Clean /\ Unchanged0 BY <1>1 DEF IInv, QuietOK
<1> QED BY <1>1, <1>2, <1>4, <1>5, <1>6, MovesOn DEF Complete

\* What is whole is what the preview said.
LEMMA WholeIsRight ==
  ASSUME IInv, Accepted, Whole
  PROVE  Right
<1>1. /\ DOMAIN final \subseteq Paths /\ NewDirectories = Directories \cap DOMAIN final
      /\ \A d \in DOMAIN final \cap Directories : final[d] = Dir
  BY PreviewIs DEF IInv, PreviewOK
<1>2. \A p \in DOMAIN final : Is(p, final[p]) BY <1>1, Distinct DEF Whole, FilePaths
<1> QED BY <1>2 DEF Right, Whole

\* Reading back, waiting for evidence, committing and recording.
LEMMA InspectIs ==
  ASSUME IInv, NEW from, NEW to, Inspect(from, to),
         (from = "run" /\ to = "evidence") \/ (from = "confirm" /\ to = "commit")
  PROVE  IInv'
<1>1. /\ pc = from /\ todo = <<>> /\ journal' = journal /\ entry' = entry /\ known' = known /\ opening' = opening
      /\ todo' = <<>> /\ faults' = faults /\ pc' = (IF Whole THEN to ELSE "plan")
  BY DEF Inspect, Stands, Goto, Works
<1>2. Still BY <1>1, FromStands, Shapes DEF Inspect, Labels
<1>3. journal.phase = "PREPARED" BY <1>1, Shapes DEF PhaseOK
<1>4. PhaseOK' BY <1>1, <1>3, Shapes DEF PhaseOK
<1>5. Complete' => Complete \/ (pc = "run" /\ todo = <<>>) BY <1>1, <1>3 DEF Complete
<1>6. pc' = "commit" => Right BY <1>1, WholeIsRight, Shapes
<1> QED BY <1>1, <1>2, <1>3, <1>4, <1>5, <1>6, MovesOn

LEMMA AwaitIs ==
  ASSUME IInv, NEW from, NEW to, NEW otherwise, NEW kind, Await(from, to, otherwise, kind),
         \/ from = "evidence" /\ to = "confirm" /\ otherwise = "plan" /\ kind = "doing"
         \/ from = "settle" /\ to = "roll-back" /\ otherwise = "fail" /\ kind = "undoing"
  PROVE  IInv'
<1>1. /\ pc = from /\ todo = <<>> /\ journal' = journal /\ entry' = entry /\ known' = known /\ opening' = opening
      /\ todo' = <<>> /\ pc' \in {to, otherwise} /\ (faults' = faults \/ Fault(kind))
  BY DEF Await, Stands, Goto, Works
<1>2. Still BY <1>1, FromStands, Shapes DEF Await, Labels, FaultKinds
<1>3. Erred' <=> Erred BY <1>1, ErredIs DEF FaultKinds
<1>4. /\ from = "evidence" => journal.phase = "PREPARED"
      /\ from = "settle" => journal.phase = "PREPARED" \/ (journal.phase = "COMMITTED" /\ Erred)
  BY <1>1, Shapes DEF PhaseOK
<1>5. PhaseOK' BY <1>1, <1>3, <1>4, Shapes DEF PhaseOK
<1>6. from = "settle" => Clean /\ Unchanged0 BY <1>1 DEF IInv, QuietOK
<1>7. Complete' => Complete BY <1>1, <1>3, <1>4 DEF Complete
<1>8. pc' # "commit" /\ ~(journal'.phase = "COMMITTED" /\ ~Erred') BY <1>1, <1>3, <1>4
<1> QED BY <1>1, <1>2, <1>4, <1>5, <1>6, <1>7, <1>8, MovesOn

LEMMA CommitIs ==
  ASSUME IInv, Commit
  PROVE  IInv'
<1>1. /\ pc = "commit" /\ todo = <<>> /\ entry' = entry /\ known' = known /\ opening' = opening /\ todo' = <<>>
      /\ \/ Persists("COMMITTED") /\ pc' = "record" /\ faults' = faults
         \/ Persists("COMMITTED") /\ pc' = "plan" /\ Fault("commit")
         \/ journal' = journal /\ pc' = "plan" /\ Fault("doing")
  BY DEF Commit, Stands, Goto, Works
<1>2. Persists("COMMITTED") => journal' = [phase |-> "COMMITTED", known |-> journal.known] /\ journal'.phase = "COMMITTED"
  BY Written DEF Phases
<1>3. Still BY <1>1, <1>2, FromStands, Shapes DEF Commit, Labels, FaultKinds, Phases
<1>4. journal.phase = "PREPARED" BY <1>1, Shapes DEF PhaseOK
<1>5. \/ journal'.phase = "COMMITTED" /\ pc' = "record"
      \/ journal'.phase = "COMMITTED" /\ pc' = "plan" /\ Erred'
      \/ journal'.phase = "PREPARED" /\ pc' = "plan"
  BY <1>1, <1>2, <1>4, ErredIs
<1>6. PhaseOK' BY <1>1, Shapes, <1>5 DEF PhaseOK
<1>7. Complete /\ Right BY <1>1 DEF IInv, CompleteOK, Complete, Right
<1> QED BY <1>3, <1>5, <1>6, <1>7, MovesOn

LEMMA RecordsIs ==
  ASSUME IInv, NEW from, NEW state, Records(from, state, "undoing"),
         \/ from = "record" /\ state = "applied"
         \/ from = "rolled-back" /\ state = "not_applied"
         \/ from = "unprove" /\ state = "unproven"
  PROVE  IInv'
<1>1. /\ pc = from /\ todo = <<>> /\ journal' = journal /\ known' = known /\ todo' = <<>>
      /\ \/ Decides(state) /\ pc' = "done" /\ faults' = faults /\ opening' = opening
         \/ entry' = entry /\ pc' \in {"unprove", "stalled"} /\ Fault("undoing") /\ opening' = FALSE
  BY DEF Records, Stands, Goto, Works
<1>2. Decides(state) => entry' = [state |-> state, preview |-> entry.preview] /\ entry'.state = state
  BY Written DEF States
<1>3. Still BY <1>1, <1>2, FromStands, Shapes DEF Records, Labels, FaultKinds, States
<1>4. Erred' <=> Erred BY <1>1, ErredIs DEF FaultKinds
<1>5. /\ from = "record" => journal.phase = "COMMITTED"
      /\ from = "rolled-back" => journal.phase = "ROLLED_BACK"
      /\ entry.state \notin {"none", "applied", "not_applied", "unproven"}
      /\ journal.phase # "none"
  BY <1>1, Shapes DEF PhaseOK
<1>6. PhaseOK' BY <1>1, <1>2, <1>4, <1>5, Shapes DEF PhaseOK
<1>7. journal.phase \in {"none", "ROLLED_BACK"} => Clean /\ Unchanged0 BY DEF IInv, QuietOK
<1>8. Complete' => Complete BY <1>1, <1>4 DEF Complete
<1>9. journal.phase = "COMMITTED" /\ ~Erred => Right BY DEF IInv, CompleteOK, Right
<1> QED BY <1>1, <1>3, <1>4, <1>5, <1>6, <1>7, <1>8, <1>9, MovesOn

LEMMA RollBackIs ==
  ASSUME IInv, RollBack
  PROVE  IInv'
<1>1. /\ pc = "roll-back" /\ todo = <<>> /\ entry' = entry /\ known' = known /\ opening' = opening /\ todo' = <<>>
      /\ \/ Persists("ROLLED_BACK") /\ pc' = "rolled-back" /\ faults' = faults
         \/ Persists("ROLLED_BACK") /\ pc' = "fail" /\ Fault("undoing")
         \/ journal' = journal /\ pc' = "fail" /\ Fault("undoing")
  BY DEF RollBack, Stands, Goto, Works
<1>2. Persists("ROLLED_BACK") =>
        journal' = [phase |-> "ROLLED_BACK", known |-> journal.known] /\ journal'.phase = "ROLLED_BACK"
  BY Written DEF Phases
<1>3. Still BY <1>1, <1>2, FromStands, Shapes DEF RollBack, Labels, FaultKinds, Phases
<1>4. Erred' <=> Erred BY <1>1, ErredIs DEF FaultKinds
<1>5. journal.phase = "PREPARED" \/ (journal.phase = "COMMITTED" /\ Erred) BY <1>1, Shapes DEF PhaseOK
<1>6. PhaseOK' BY <1>1, <1>2, <1>4, <1>5, Shapes DEF PhaseOK
<1>7. Clean /\ Unchanged0 BY <1>1 DEF IInv, QuietOK
<1>8. pc' \notin {"commit", "evidence", "confirm"} /\ ~(journal'.phase = "COMMITTED" /\ ~Erred') /\ journal'.phase # "none"
  BY <1>1, <1>2, <1>4, <1>5
<1> QED BY <1>1, <1>3, <1>6, <1>7, <1>8, MovesOn DEF Complete

LEMMA FailIs ==
  ASSUME IInv, Fail
  PROVE  IInv'
<1>1. /\ pc = "fail" /\ todo = <<>> /\ entry' = entry /\ known' = known /\ opening' = opening /\ todo' = <<>>
      /\ pc' = "unprove"
      /\ \/ Persists("FAILED") /\ faults' = faults
         \/ journal' = journal /\ Fault("undoing")
  BY DEF Fail, Stands, Goto, Works
<1>2. Persists("FAILED") => journal' = [phase |-> "FAILED", known |-> journal.known] /\ journal'.phase = "FAILED"
  BY Written DEF Phases
<1>3. Still BY <1>1, <1>2, FromStands, Shapes DEF Fail, Labels, FaultKinds, Phases
<1>4. Erred' <=> Erred BY <1>1, ErredIs DEF FaultKinds
<1>5. journal.phase # "none" /\ (journal.phase = "COMMITTED" => Erred) BY <1>1, Shapes DEF PhaseOK
<1>6. PhaseOK' BY <1>1, <1>2, <1>4, <1>5, Shapes DEF PhaseOK
<1>7. journal.phase = "ROLLED_BACK" => Clean /\ Unchanged0 BY DEF IInv, QuietOK
<1>8. journal'.phase \in {"FAILED", journal.phase} BY <1>1, <1>2
<1> QED BY <1>1, <1>3, <1>4, <1>5, <1>6, <1>7, <1>8, MovesOn DEF Complete

\* A restore that is found complete; a start after a crash; the crash; the plan.
LEMMA SettleIs ==
  ASSUME IInv, Settle
  PROVE  IInv'
<1>1. /\ pc = "undo" /\ todo = <<>> /\ journal' = journal /\ entry' = entry /\ known' = known /\ opening' = opening
      /\ todo' = <<>> /\ faults' = faults /\ pc' = (IF Restored THEN "settle" ELSE "fail")
  BY DEF Settle, Stands, Goto, Works
<1>2. Still BY <1>1, FromStands, Shapes DEF Settle, Labels
<1>3. Erred' <=> Erred BY <1>1, ErredIs
<1>4. journal.phase = "PREPARED" \/ (journal.phase = "COMMITTED" /\ Erred) BY <1>1, Shapes DEF PhaseOK
<1>5. PhaseOK' BY <1>1, <1>3, <1>4, Shapes DEF PhaseOK
<1>6. Clean
  <2>1. Range(todo) = {} BY <1>1, ShortRange
  <2>2. Directories \subseteq Stages BY Distinct DEF Stages
  <2> QED BY <1>1, <2>1, <2>2 DEF IInv, UndoOK, Clean
<1>7. Restored => Unchanged0
  BY <1>1, Shapes, PreviewIs, Distinct DEF Unchanged0, Is, IInv, PreviewOK, QuietOK, Restored, FilePaths
<1>8. pc' \notin {"commit", "evidence", "confirm"} /\ ~(journal'.phase = "COMMITTED" /\ ~Erred') /\ journal'.phase # "none"
      /\ journal'.phase # "ROLLED_BACK" /\ (pc' \in {"settle", "roll-back"} => Restored)
  BY <1>1, <1>3, <1>4
<1> QED BY <1>1, <1>2, <1>5, <1>6, <1>7, <1>8, MovesOn DEF Complete

LEMMA OpenIs ==
  ASSUME IInv, Open
  PROVE  IInv'
<1>1. /\ pc = "down" /\ todo = <<>> /\ journal' = journal /\ entry' = entry /\ known' = journal.known
      /\ opening' \in BOOLEAN /\ todo' = <<>> /\ faults' = faults
  BY DEF Open, Stands, Goto, Works
<1>2. /\ journal.phase = "none" => pc' = "queued"
      /\ journal.phase = "PREPARED" => pc' = "plan"
      /\ journal.phase = "COMMITTED" => pc' = "record"
      /\ journal.phase = "ROLLED_BACK" => pc' = "rolled-back"
      /\ journal.phase = "FAILED" => pc' = "unprove"
  BY DEF Open, Goto
<1>3. pc' \in {"queued", "plan", "record", "rolled-back", "unprove"} BY <1>2, Shapes DEF Phases
<1>4. Still BY <1>3, <1>1, FromStands, Shapes DEF Open, Labels
<1>5. Erred' <=> Erred BY <1>1, ErredIs
<1>6. PhaseOK' BY <1>1, <1>2, <1>3, <1>5, Shapes DEF PhaseOK, Phases
<1>7. journal.phase \in {"none", "ROLLED_BACK"} => Clean /\ Unchanged0 BY DEF IInv, QuietOK
<1>8. Complete' => Complete BY <1>1, <1>3, <1>5 DEF Complete
<1>9. journal.phase = "COMMITTED" /\ ~Erred => Right BY DEF IInv, CompleteOK, Right
<1> QED BY <1>1, <1>3, <1>4, <1>5, <1>6, <1>7, <1>8, <1>9, MovesOn

LEMMA CrashIs ==
  ASSUME IInv, Crash
  PROVE  IInv'
<1>1. /\ pc \notin {"submit", "down", "done"} /\ crashes < MaxCrashes /\ crashes' = crashes + 1
      /\ pc' = "down" /\ todo' = <<>> /\ known' = {} /\ opening' = FALSE
      /\ UNCHANGED <<request, vault, journal, entry, touched, late, faults, writes>>
  BY DEF Crash, Goto
<1>2. Still
  <2>1. crashes' \in 0..MaxCrashes BY <1>1, Shapes
  <2>2. pc' \in Labels BY <1>1 DEF Labels
  <2> QED BY <1>1, <2>1, <2>2, Shapes DEF Still
<1>3. Erred' <=> Erred BY <1>1, ErredIs
<1>4. PhaseOK' BY <1>1, <1>3, Shapes DEF PhaseOK
<1>5. journal.phase \in {"none", "ROLLED_BACK"} => Clean /\ Unchanged0 BY DEF IInv, QuietOK
<1>6. Complete' => Complete BY <1>1, <1>3 DEF Complete
<1>7. journal.phase = "COMMITTED" /\ ~Erred => Right BY DEF IInv, CompleteOK, Right
<1> QED BY <1>1, <1>2, <1>3, <1>4, <1>5, <1>6, <1>7, MovesOn

LEMMA PlanRestoreIs ==
  ASSUME IInv, PlanRestore
  PROVE  IInv'
<1>1. /\ pc = "plan" /\ late' = FALSE
      /\ UNCHANGED <<request, vault, journal, entry, known, opening, touched, crashes, writes>>
      /\ \/ Restorable(Restore) /\ pc' = "undo" /\ todo' = Restore /\ faults' = faults
         \/ pc' = "fail" /\ todo' = <<>> /\ (faults' = faults \/ Fault("undoing"))
  BY DEF PlanRestore, Goto, Works
<1>2. Still BY <1>1, KeepsStill, Shapes DEF Labels, FaultKinds
<1>3. Erred' <=> Erred BY <1>1, ErredIs DEF FaultKinds
<1>4. journal.phase = "PREPARED" \/ (journal.phase = "COMMITTED" /\ Erred) BY <1>1, Shapes DEF PhaseOK
<1>5. PhaseOK' BY <1>1, <1>3, <1>4, Shapes DEF PhaseOK
<1>6. RunOK' /\ ~Executing' BY <1>1 DEF RunOK, Executing
<1>7. UndoOK'
  <2> SUFFICES ASSUME pc' = "undo" PROVE UndoOK' BY DEF UndoOK
  <2>1. Restorable(Restore) /\ todo' = Restore BY <1>1
  <2>2. /\ Restore \in Seq(Sparing) /\ Restore \in Seq(UndoSteps)
        /\ \A i \in Operations : trash[i] # Nowhere => <<"drop", i>> \in Range(Restore)
        /\ \A k \in Stages :
             /\ stage[k] \in Bytes \/ (k \in Directories /\ stage[k] # None) => <<"discard", k>> \in Range(Restore)
             /\ back[k] \in Bytes => <<"discard", k>> \in Range(Restore) \/ Range(Restore) \cap PublishesBack(k) # {}
             /\ Restore \in Leads(Step, PreparesBack(k), PublishesBack(k))
    BY <1>1, <2>1, RestoreIs, Shapes DEF IInv
  <2>3. disk' = disk /\ stage' = stage /\ back' = back /\ trash' = trash BY <1>1 DEF vault, private
  <2>4. Operations' = Operations /\ Stages' = Stages /\ Step' = Step /\ UndoSteps' = UndoSteps BY <1>1, Stable
  <2>5. Sparing' = Sparing BY <2>3, <2>4 DEF Sparing
  <2> HIDE DEF Restore
  <2> QED BY <2>1, <2>2, <2>3, <2>4, <2>5 DEF UndoOK
<1>8. /\ journal'.phase \notin {"none", "ROLLED_BACK"} /\ pc' \notin {"settle", "roll-back", "prepare", "commit"}
      /\ ~Complete' /\ ~(journal'.phase = "COMMITTED" /\ ~Erred')
  BY <1>1, <1>3, <1>4 DEF Complete
<1> QED BY <1>2, <1>5, <1>6, <1>7, <1>8, Moves

\* From the capture to PREPARED, and the submission.
LEMMA CaptureIs ==
  ASSUME IInv, Capture
  PROVE  IInv'
<1>1. /\ pc = "capture" /\ todo = <<>> /\ journal' = journal /\ entry' = entry /\ known' = known /\ opening' = opening
      /\ \/ pc' = "prepare" /\ todo' = Execution /\ faults' = faults
         \/ pc' = "stalled" /\ todo' = <<>> /\ (faults' = faults \/ Fault("before"))
  BY DEF Capture, Stands, Goto, Works
<1>2. Still BY <1>1, FromStands, Shapes DEF Capture, Labels, FaultKinds
<1>3. journal.phase = "none" BY <1>1, Shapes DEF PhaseOK
<1>4. PhaseOK' BY <1>1, <1>3, Shapes DEF PhaseOK
<1>5. Clean /\ Unchanged0 BY <1>3 DEF IInv, QuietOK
<1>6. RunOK'
  <2> SUFFICES ASSUME pc' = "prepare" PROVE RunOK' BY <1>1 DEF RunOK, Executing
  <2>1. /\ Execution \in Seq(RunSteps) /\ Execution # <<>> /\ Head(Execution) = <<"save">>
        /\ \A k \in Stages : /\ Execution \in Leads(Step, Prepares(k), Publishes(k))
                             /\ Execution \in Never(Step, Publishing(k), Staging(k))
        /\ \A d \in Directories :
             Execution \in Preceded(Step, {<<"prepare-directory", d>>}, {<<"compare", d, Nowhere>>})
        /\ \A p \in Files : Execution \in Adjacent(Step, Doubles(p), {<<"unlink", p>>})
    BY <1>1, ExecutionIs, Shapes DEF IInv
  <2>2. todo' = Execution BY <1>1
  <2>3. /\ Operations' = Operations /\ Stages' = Stages /\ Step' = Step /\ RunSteps' = RunSteps
        /\ \A p : Doubles(p)' = Doubles(p)
        /\ disk' = disk /\ stage' = stage /\ trash' = trash
    BY <1>1, <1>2, Stable, StillIs
  <2>4. \A k \in Stages : stage[k] = None /\ ~Visible(<<"staged", k>>)' /\ ~Hidden(<<"staged", k>>)'
    <3>1. \A k \in Stages : stage[k] = None /\ ~Visible(<<"staged", k>>) BY <1>3 DEF IInv, QuietOK
    <3>2. \A i \in Operations : trash[i].node = None BY <1>5, NodeIs DEF Clean, IInv, TypeOK
    <3>3. \A k \in Stages : <<"staged", k>> # None BY NodeIs DEF IInv, TypeOK
    <3> QED BY <2>3, <3>1, <3>2, <3>3 DEF Visible, Hidden
  <2>5. HeadIs(<<"save">>)' /\ \A d : ~HeadIs(<<"prepare-directory", d>>)' BY <2>1, <2>2 DEF HeadIs
  <2> HIDE DEF Execution
  <2> QED BY <2>1, <2>2, <2>3, <2>4, <2>5 DEF RunOK
<1>7. UndoOK' /\ ~Complete' /\ pc' \notin {"settle", "roll-back", "commit"} BY <1>1, <1>3 DEF UndoOK, Complete
<1> QED BY <1>1, <1>2, <1>3, <1>4, <1>5, <1>6, <1>7, Moves

LEMMA PrepareIs ==
  ASSUME IInv, Prepare
  PROVE  IInv'
<1>1. /\ pc = "prepare" /\ known' = {} /\ UNCHANGED <<request, touched, late, crashes, writes, vault, entry, opening>>
      /\ \/ journal' = Prepared /\ pc' = "run" /\ todo' = todo /\ faults' = faults
         \/ journal' \in {journal, Prepared} /\ pc' = "stalled" /\ todo' = <<>> /\ Fault("before")
  BY DEF Prepare, Goto, Works, elsewhere
<1>2. Prepared = [phase |-> "PREPARED", known |-> {}] /\ Prepared.phase = "PREPARED" /\ Prepared.known = {}
  BY DEF Prepared
<1>3. Still BY <1>1, <1>2, Shapes, KeepsStill DEF Labels, FaultKinds, Phases
<1>4. journal.phase = "none" BY <1>1, Shapes DEF PhaseOK
<1>5. PhaseOK' BY <1>1, <1>2, <1>4, Shapes DEF PhaseOK
<1>6. Clean /\ Unchanged0 BY <1>4 DEF IInv, QuietOK
<1>7. RunOK' BY <1>1, <1>3, Stable, StillIs DEF RunOK, Executing, IInv, HeadIs, Visible, Hidden
<1>8. /\ UndoOK' /\ ~Complete' /\ pc' \notin {"settle", "roll-back", "commit", "prepare"}
      /\ journal'.phase \in {"none", "PREPARED"}
  BY <1>1, <1>2, <1>4 DEF UndoOK, Complete
<1> QED BY <1>1, <1>3, <1>4, <1>5, <1>6, <1>7, <1>8, Moves

LEMMA SubmitIs ==
  ASSUME IInv, Submit
  PROVE  IInv'
<1>1. /\ pc = "submit" /\ todo = <<>> /\ journal' = journal /\ known' = known /\ opening' = opening /\ todo' = <<>>
      /\ faults' = faults /\ UNCHANGED <<request, touched, late, crashes, writes, vault>>
      /\ \/ /\ Preflight.accepted /\ pc' = "queued"
            /\ entry' = [state |-> "in_progress", preview |-> [pre |-> Preflight.pre, final |-> Preflight.final]]
         \/ Decides("not_applied") /\ pc' = "done"
  BY DEF Submit, Stands, Goto, Works, elsewhere
<1>2. journal.phase = "none" /\ touched = {} BY <1>1, Shapes DEF PhaseOK
<1>3. Clean /\ Unchanged0 /\ \A k \in Stages : stage[k] = None /\ back[k] = None BY <1>2 DEF IInv, QuietOK
<1>4. CASE Decides("not_applied") /\ pc' = "done"
  BY <1>4, Written, <1>1, Shapes, <1>2, <1>3, MovesOn DEF States, Still, Labels, PhaseOK, Complete
<1>5. CASE /\ Preflight.accepted /\ pc' = "queued"
           /\ entry' = [state |-> "in_progress", preview |-> [pre |-> Preflight.pre, final |-> Preflight.final]]
  <2>0. /\ disk' = disk /\ stage' = stage /\ back' = back /\ trash' = trash /\ request' = request
        /\ touched' = touched /\ writes' = writes /\ late' = late /\ crashes' = crashes
        /\ Operations' = Operations /\ Stages' = Stages
    BY <1>1 DEF vault, private, Operations, Stages
  <2>1. /\ entry'.state = "in_progress" /\ entry' = [state |-> entry'.state, preview |-> entry'.preview]
        /\ pre' = Preflight.pre /\ final' = Preflight.final
    BY <1>5 DEF pre, final
  <2>2. Fits(Preflight) /\ Covers(Preflight, Len(request)) BY <1>5, PreflightIs DEF IInv, TypeOK
  <2>3. TypeOK' BY <1>1, <1>5, <2>0, <2>1 DEF IInv, TypeOK
  <2>4. NodesOK' BY <2>0 DEF IInv, NodesOK, Visible, Hidden
  <2>5. PrivateOK' BY Distinct, <1>3, <2>0 DEF Stages, PrivateOK, Clean
  <2>6. PreviewOK'
    BY <2>1, <2>2, <1>2, <1>3, <2>0, Distinct DEF Fits, Covers, Operations, Unchanged0, Is, PreviewOK, MayStart,
       MayEnd
  <2>7. PhaseOK' BY <1>1, <1>2, <1>5, <2>1 DEF PhaseOK
  <2>8. QuietOK' BY <1>3, <2>0, <1>2 DEF Clean, Unchanged0, Is, IInv, QuietOK, Visible
  <2>9. RunOK' /\ UndoOK' BY <1>5 DEF RunOK, UndoOK, Executing
  <2>10. SharedOK' BY <1>2, NotSharedIs, <2>0 DEF NotShared, SharedOK, Unshared
  <2>11. CompleteOK' BY <1>1, <1>2, <1>5 DEF CompleteOK, Complete
  <2> QED BY <2>1, <2>3, <2>4, <2>5, <2>6, <2>7, <2>8, <2>9, <2>10, <2>11 DEF IInv
<1> QED BY <1>1, <1>4, <1>5

-----------------------------------------------------------------------------
(* Somebody else.                                                          *)

\* Every kind of write is such a write.
LEMMA OthersAre ==
  ASSUME IInv, Others
  PROVE  /\ pc \notin {"submit", "done"} /\ writes' = writes + 1 /\ writes' \in 1..MaxWrites /\ late' = TRUE
         /\ UNCHANGED <<request, stage, back, journal, entry, pc, todo, known, opening, faults, crashes>>
         /\ touched \subseteq touched' /\ touched' \subseteq Paths
         /\ disk' \in [Paths -> Places] /\ trash' \in [Operations -> Places]
         /\ \E p \in Paths : p \in touched' /\ Foreign(p)
<1>1. /\ pc \notin {"submit", "done"} /\ writes' = writes + 1 /\ writes < MaxWrites
      /\ UNCHANGED <<request, stage, back, journal, entry, pc, todo, known, opening, faults, crashes>>
  BY DEF Others, executor
<1>2. writes' \in 1..MaxWrites /\ writes' \in Nat BY <1>1, BoundsAssumption DEF IInv, TypeOK
<1>3. PICK p \in Paths :
       LET same == {q \in Paths : disk[q].node = disk[p].node}
           wrote == IF IsFile(p) THEN same ELSE {p} IN
       /\ Housed(p) /\ touched' = touched \cup wrote /\ late' = TRUE
       /\ \/ /\ IsFile(p)
             /\ disk' = [q \in Paths |-> IF q \in same THEN [disk[q] EXCEPT !.is = Theirs] ELSE disk[q]]
             /\ trash' = [i \in Operations |-> IF trash[i].node = disk[p].node
                                              THEN [trash[i] EXCEPT !.is = Theirs] ELSE trash[i]]
          \/ /\ IsFile(p) \/ (p \in Files /\ Is(p, Absent))
             /\ \E b \in {Theirs, disk[p].is} \cap Bytes : Puts(p, At(b, <<"other", writes'>>))
             /\ UNCHANGED trash
          \/ (IsFile(p) \/ (Is(p, Dir) /\ Empty(p))) /\ Puts(p, Nowhere) /\ UNCHANGED trash
          \/ p \in Directories /\ Is(p, Absent) /\ Puts(p, At(Dir, <<"other", writes'>>)) /\ UNCHANGED trash
  BY DEF Others
<1> DEFINE same == {q \in Paths : disk[q].node = disk[p].node}
           wrote == IF IsFile(p) THEN same ELSE {p}
<1>4. touched' = touched \cup wrote /\ late' = TRUE BY <1>3
<1>5. p \in wrote /\ wrote \subseteq Paths BY DEF IsFile
<1>6. /\ disk \in [Paths -> Places] /\ trash \in [Operations -> Places] /\ touched \subseteq Paths
      /\ NodesOK /\ Theirs \in Bytes /\ Absent \notin Bytes /\ Dir \notin Bytes /\ Absent # Dir
  BY Distinct DEF IInv, TypeOK
<1>7. Nowhere \in Places /\ Nowhere.is = Absent /\ Nowhere.node = None /\ New \in Nodes /\ New # None
      /\ \A b \in Bytes \cup {Absent, Dir} : At(b, New) \in Places /\ At(b, New).is = b /\ At(b, New).node = New
  <2>1. request \in Requests BY DEF IInv, TypeOK
  <2>2. New \in Nodes /\ New # None BY <1>2, <2>1, NodeIs DEF New
  <2> HIDE DEF New
  <2> QED BY <2>1, <2>2, NodeIs
<1>8. \A x \in Places : /\ [x EXCEPT !.is = Theirs] \in Places
                        /\ [x EXCEPT !.is = Theirs].is = Theirs /\ [x EXCEPT !.is = Theirs].node = x.node
  BY <1>6 DEF Places
<1>9. CASE /\ IsFile(p)
           /\ disk' = [q \in Paths |-> IF q \in same THEN [disk[q] EXCEPT !.is = Theirs] ELSE disk[q]]
           /\ trash' = [i \in Operations |-> IF trash[i].node = disk[p].node
                                              THEN [trash[i] EXCEPT !.is = Theirs] ELSE trash[i]]
  BY <1>6, <1>8, <1>9, <1>7, <1>4, <1>1, <1>2, <1>5 DEF NodesOK, IsFile, Foreign
<1>10. ASSUME NEW x \in Places, disk' = [disk EXCEPT ![p] = x], trash' = trash,
              x = Nowhere \/ (x.node = New /\ x.is # Absent)
       PROVE  /\ disk' \in [Paths -> Places] /\ trash' \in [Operations -> Places] /\ Foreign(p)
  <2>1. /\ disk' \in [Paths -> Places] /\ disk'[p] = x /\ \A q \in Paths : q # p => disk'[q] = disk[q] BY <1>6, <1>10
  <2>2. \A q \in Paths : q \notin touched' => disk'[q] = disk[q] BY <1>4, <1>5, <2>1
  <2>3. \A q \in Paths : (disk'[q].is = Absent \/ disk'[q].node = None) => disk'[q] = Nowhere
    BY <1>6, <1>7, <1>10, <2>1 DEF NodesOK
  <2>4. disk'[p].node \in {None, New} BY <1>7, <1>10, <2>1
  <2> HIDE DEF New
  <2> QED BY <1>6, <1>10, <2>1, <2>2, <2>3, <2>4 DEF Foreign
<1>11. ASSUME NEW b \in Bytes \cup {Dir}, disk' = [disk EXCEPT ![p] = At(b, New)], trash' = trash
       PROVE  /\ disk' \in [Paths -> Places] /\ trash' \in [Operations -> Places] /\ Foreign(p)
  BY <1>6, <1>7, <1>10, <1>11
<1>12. \/ \E b \in Bytes \cup {Dir} : disk' = [disk EXCEPT ![p] = At(b, New)] /\ trash' = trash
       \/ disk' = [disk EXCEPT ![p] = Nowhere] /\ trash' = trash
       \/ /\ IsFile(p)
          /\ disk' = [q \in Paths |-> IF q \in same THEN [disk[q] EXCEPT !.is = Theirs] ELSE disk[q]]
          /\ trash' = [i \in Operations |-> IF trash[i].node = disk[p].node
                                              THEN [trash[i] EXCEPT !.is = Theirs] ELSE trash[i]]
  BY <1>3 DEF Puts, New
<1>13. CASE \E b \in Bytes \cup {Dir} : disk' = [disk EXCEPT ![p] = At(b, New)] /\ trash' = trash
  BY <1>1, <1>2, <1>4, <1>5, <1>6, <1>11, <1>13
<1>14. CASE disk' = [disk EXCEPT ![p] = Nowhere] /\ trash' = trash BY <1>1, <1>2, <1>4, <1>5, <1>6, <1>7, <1>10, <1>14
<1> QED BY <1>9, <1>12, <1>13, <1>14

\* Writes of somebody else keep the invariant: they touch no stage, and what they
\* change is remembered as touched.
LEMMA OthersIs ==
  ASSUME IInv, Others
  PROVE  IInv'
<1>1. /\ pc \notin {"submit", "done"} /\ writes' = writes + 1 /\ writes' \in 1..MaxWrites /\ late' = TRUE
      /\ UNCHANGED <<request, stage, back, journal, entry, pc, todo, known, opening, faults, crashes>>
      /\ touched \subseteq touched' /\ touched' \subseteq Paths
      /\ disk' \in [Paths -> Places] /\ trash' \in [Operations -> Places]
  BY OthersAre
<1>2. PICK p \in Paths : Foreign(p) BY OthersAre
<1>3. /\ Operations' = Operations /\ Stages' = Stages /\ pre' = pre /\ final' = final /\ Step' = Step
      /\ NewDirectories' = NewDirectories /\ Stageable' = Stageable /\ Restaged' = Restaged
      /\ RunSteps' = RunSteps /\ UndoSteps' = UndoSteps /\ \A q : Doubles(q)' = Doubles(q)
      /\ (Accepted' <=> Accepted) /\ Accepted
  BY <1>1, Stable DEF Accepted
<1>4. /\ \A q \in Paths : q \notin touched' => disk'[q] = disk[q]
      /\ \A q \in Paths : q # p => disk'[q].node = disk[q].node
      /\ disk'[p].node \in {disk[p].node, None, New}
      /\ \A q \in Paths : (disk'[q].is = Absent \/ disk'[q].node = None) => disk'[q] = Nowhere
      /\ \A q \in Paths : disk'[q].node \in {None, New} \/ disk'[q].is = disk[q].is \/ disk[q].is \in Bytes
                          \/ (disk[q].node = disk[p].node /\ disk[p].is \in Bytes)
      /\ \A i \in Operations : /\ trash'[i].node = trash[i].node
                               /\ trash[i].is = Absent \/ trash[i].node = None => trash'[i] = trash[i]
                               /\ trash'[i].is = Absent => trash[i].is = Absent
                               /\ trash'[i] = trash[i] \/ (trash[i].node = disk[p].node /\ disk[p].node # None)
  BY <1>2 DEF Foreign
<1>5. /\ \A n : Visible(n)' => Visible(n) \/ n \in {None, New}
      /\ \A n : Hidden(n)' <=> Hidden(n)
      /\ New # None /\ New \in Nodes
  <2>1. New # None /\ New \in Nodes BY <1>1, NodeIs, BoundsAssumption DEF New, IInv, TypeOK
  <2>2. \A n : Visible(n)' => Visible(n) \/ n \in {None, New}
    <3> HIDE DEF New
    <3> QED BY <1>4 DEF Visible
  <2>3. \A n : Hidden(n)' <=> Hidden(n) BY <1>3, <1>4 DEF Hidden
  <2> QED BY <2>1, <2>2, <2>3
<1>6. ~Visible(New) /\ ~Hidden(New) BY <1>1 DEF IInv, TypeOK, NodesOK, New
<1>7. /\ \A k \in Stages : <<"staged", k>> \notin {None, New}
      /\ \A d \in Directories : <<"staged", d>> \notin {None, New}
      /\ \A n \in Nat : <<"other", n>> # None
      /\ Nowhere.node = None /\ Nowhere.is = Absent
  BY NodeIs DEF IInv, TypeOK, New
<1>8. TypeOK' BY <1>1, <1>3, BoundsAssumption DEF IInv, TypeOK
<1>9. NodesOK'
  <2>1. \A i \in Operations : (trash'[i].is = Absent \/ trash'[i].node = None) => trash'[i] = Nowhere
    BY <1>4 DEF IInv, NodesOK
  <2>2. \A n \in 1..MaxWrites : Visible(<<"other", n>>)' \/ Hidden(<<"other", n>>)' => n <= writes'
    BY BoundsAssumption, <1>1, <1>5, <1>7 DEF IInv, TypeOK, New, NodesOK
  <2>3. \A k \in Stages : Visible(<<"staged", k>>)' \/ Hidden(<<"staged", k>>)' =>
          stage'[k] \notin Bytes /\ (k \in Directories => stage'[k] = None) BY <1>1, <1>5, <1>7 DEF IInv, NodesOK
  <2>4. \A d \in Directories : ~Hidden(<<"staged", d>>)' BY <1>5 DEF IInv, NodesOK
  <2>5. ASSUME NEW d \in Directories, NEW q \in Paths, disk'[q].node = <<"staged", d>>
        PROVE  q = d /\ disk'[q].is = Dir
    <3>1. disk[q].node = <<"staged", d>>
      <4> HIDE DEF New
      <4> QED BY <1>4, <1>7, <2>5
    <3>2. q = d /\ disk[q].is = Dir BY <3>1 DEF IInv, NodesOK
    <3>3. disk[p].node = <<"staged", d>> => disk[p].is = Dir BY DEF IInv, NodesOK
    <3> HIDE DEF New
    <3> QED BY <1>4, <1>7, <2>5, <3>1, <3>2, <3>3, Distinct
  <2> QED BY <1>3, <1>4, <2>1, <2>2, <2>3, <2>4, <2>5 DEF NodesOK
<1>10. \A i \in Operations : trash'[i] # Nowhere => trash[i] # Nowhere BY <1>4, <1>7
<1>11. PrivateOK' BY <1>1, <1>3, <1>10 DEF IInv, PrivateOK
<1>12. PreviewOK' BY <1>1, <1>3 DEF IInv, PreviewOK
<1>13. Erred' <=> Erred BY <1>1, ErredIs
<1>14. PhaseOK' BY <1>1, <1>13 DEF IInv, PhaseOK
<1>15. QuietOK' BY <1>1, <1>3, <1>10, <1>4, <1>5, <1>7 DEF Clean, Unchanged0, Is, IInv, QuietOK
<1>16. RunOK'
  <2> SUFFICES ASSUME Executing PROVE RunOK' BY <1>1 DEF RunOK, Executing
  <2>1. \A k \in Stages : Visible(<<"staged", k>>)' \/ Hidden(<<"staged", k>>)' =>
          Visible(<<"staged", k>>) \/ Hidden(<<"staged", k>>) BY <1>5, <1>7
  <2>2. \A d \in Directories : disk'[d].node = <<"staged", d>> => disk[d].node = <<"staged", d>>
    <3> HIDE DEF New
    <3> QED BY <1>4, <1>7, Distinct
  <2> QED BY <1>1, <1>3, <2>1, <2>2 DEF IInv, RunOK, HeadIs
<1>17. SharedOK'
  <2>1. /\ \A a, b \in Paths : a # b /\ disk'[a].node = disk'[b].node /\ disk'[a].node # None =>
             disk[a].node = disk[b].node /\ disk[a].node # None
        /\ \A i \in Operations, a \in Paths : trash'[i].node = disk'[a].node /\ disk'[a].node # None =>
             trash[i].node = disk[a].node /\ disk[a].node # None
    <3>1. /\ \A a \in Paths : disk[a].node # New
          /\ \A i \in Operations : trash[i].node # New
      BY <1>6 DEF Visible, Hidden
    <3> HIDE DEF New
    <3> QED BY <1>4, <3>1
  <2>2. Unshared => Unshared' BY <1>1, <1>3, <2>1 DEF Unshared, HeadIs
  <2> QED BY <1>1, <1>13, <2>2 DEF IInv, SharedOK, Executing, Complete
<1>18. CompleteOK'
  <2>1. Complete' <=> Complete BY <1>1, <1>13 DEF Complete
  <2>2. Complete => \A i \in Operations : trash'[i] = trash[i] BY NotSharedIs, <1>2, <1>4 DEF NotShared
  <2>3. Complete /\ Right => Right' BY <1>1, <1>3, <1>4, <2>2, PreviewIs DEF Right, Is, IInv
  <2>4. pc = "commit" \/ (journal.phase = "COMMITTED" /\ ~Erred) => Complete /\ Right
    BY DEF IInv, CompleteOK, Complete, Right
  <2> QED BY <1>1, <1>3, <1>13, <2>1, <2>3, <2>4 DEF IInv, CompleteOK, Right
<1>19. UndoOK' BY <1>1, <1>3, <1>10 DEF IInv, UndoOK
<1> QED BY <1>1, <1>8, <1>9, <1>11, <1>12, <1>14, <1>15, <1>16, <1>17, <1>18, <1>19 DEF IInv

-----------------------------------------------------------------------------
(* The invariant is inductive, and what follows from it.                   *)

\* It holds at first, and while nothing happens.
LEMMA InitIs ==
  ASSUME Init
  PROVE  IInv
<1>1. /\ request \in Requests /\ pc = "submit" /\ todo = <<>> /\ known = {} /\ opening = FALSE
      /\ touched = {} /\ late = FALSE /\ faults = <<>> /\ crashes = 0 /\ writes = 0
      /\ journal = [phase |-> "none", known |-> {}] /\ entry = [state |-> "none", preview |-> None]
      /\ stage = [k \in Stages |-> None] /\ back = [k \in Stages |-> None]
      /\ trash = [i \in Operations |-> Nowhere]
      /\ disk = [p \in Paths |-> IF Start[p] = Absent THEN Nowhere ELSE At(Start[p], <<"start", p>>)]
  BY DEF Init
<1>2. /\ journal.phase = "none" /\ journal.known = {} /\ entry.state = "none" /\ entry.preview = None
      /\ entry = [state |-> entry.state, preview |-> entry.preview]
  BY <1>1
<1>3. /\ \A k \in Stages : stage[k] = None /\ back[k] = None
      /\ \A i \in Operations : trash[i] = Nowhere
      /\ \A d \in Directories : stage[d] = None
  BY <1>1, Distinct DEF Stages
<1>4. /\ \A p \in Paths : Start[p] \in Bytes \cup {Absent, Dir}
      /\ \A p \in Paths : <<"start", p>> \in Nodes /\ <<"start", p>> # None
      /\ Nowhere \in Places /\ Nowhere.is = Absent /\ Nowhere.node = None
      /\ \A b \in Bytes \cup {Absent, Dir}, n \in Nodes :
           At(b, n) \in Places /\ At(b, n).is = b /\ At(b, n).node = n BY <1>1, NodeIs, BytesAssumption
<1>5. /\ \A p \in Paths : disk[p] = IF Start[p] = Absent THEN Nowhere ELSE At(Start[p], <<"start", p>>)
      /\ \A p \in Paths : disk[p] \in Places /\ disk[p].is = Start[p]
      /\ \A p \in Paths : (Start[p] = Absent /\ disk[p] = Nowhere) \/ (Start[p] # Absent /\ disk[p].node = <<"start", p>>)
  <2>1. \A p \in Paths : disk[p] = IF Start[p] = Absent THEN Nowhere ELSE At(Start[p], <<"start", p>>) BY <1>1
  <2>2. ASSUME NEW p \in Paths
        PROVE  /\ disk[p] \in Places /\ disk[p].is = Start[p]
               /\ (Start[p] = Absent /\ disk[p] = Nowhere) \/ (Start[p] # Absent /\ disk[p].node = <<"start", p>>)
    <3> DEFINE n == <<"start", p>>
    <3>1. n \in Nodes /\ Start[p] \in Bytes \cup {Absent, Dir} BY <1>4
    <3> HIDE DEF n
    <3>2. At(Start[p], n) \in Places /\ At(Start[p], n).is = Start[p] /\ At(Start[p], n).node = n BY <1>4, <3>1
    <3>3. disk[p] = IF Start[p] = Absent THEN Nowhere ELSE At(Start[p], n) BY <2>1 DEF n
    <3>4. /\ disk[p] \in Places /\ disk[p].is = Start[p]
          /\ (Start[p] = Absent /\ disk[p] = Nowhere) \/ (Start[p] # Absent /\ disk[p].node = n)
      BY <1>4, <3>2, <3>3
    <3> QED BY <3>4 DEF n
  <2> QED BY <2>1, <2>2
<1>6. /\ disk \in [Paths -> Places] /\ trash \in [Operations -> Places]
      /\ stage \in [Stages -> Bytes \cup {Dir, None}] /\ back \in [Stages -> Bytes \cup {None}]
  BY <1>1, <1>4, <1>5
<1>7. TypeOK
  <2>1. faults \in Seq({"before", "doing", "undoing", "commit"}) /\ Len(faults) = 0 BY <1>1
  <2>2. MaxFaults \in Nat /\ MaxCrashes \in Nat /\ MaxWrites \in Nat BY BoundsAssumption
  <2>3. Len(faults) <= MaxFaults /\ crashes \in 0..MaxCrashes /\ writes \in 0..MaxWrites BY <1>1, <2>1, <2>2
  <2>4. journal \in [phase : {"none", "PREPARED", "COMMITTED", "ROLLED_BACK", "FAILED"}, known : SUBSET Paths] BY <1>1
  <2> QED BY <1>1, <1>2, <1>6, <2>1, <2>3, <2>4 DEF TypeOK
<1>8. /\ \A n : Visible(n) => \E p \in Paths : n = <<"start", p>> \/ n = None
      /\ \A n : Hidden(n) => n = None
  <2>1. \A p \in Paths : disk[p].node = <<"start", p>> \/ disk[p].node = None BY <1>4, <1>5
  <2>2. \A i \in Operations : trash[i].node = None BY <1>3, <1>4
  <2> QED BY <2>1, <2>2 DEF Visible, Hidden
<1>9. /\ \A k \in Stages : ~Visible(<<"staged", k>>) /\ ~Hidden(<<"staged", k>>)
      /\ \A d \in Directories : ~Visible(<<"staged", d>>) /\ ~Hidden(<<"staged", d>>)
      /\ \A n \in Nat : ~Visible(<<"other", n>>) /\ ~Hidden(<<"other", n>>)
  BY <1>1, NodeIs, <1>8
<1>10. NodesOK
  <2>1. ASSUME NEW p \in Paths, disk[p].is = Absent \/ disk[p].node = None PROVE disk[p] = Nowhere
    BY <1>1, NodeIs, <1>5, <2>1
  <2>2. \A n \in 1..MaxWrites : n \in Nat BY BoundsAssumption
  <2>3. \A d \in Directories, p \in Paths : disk[p].node # <<"staged", d>> BY <1>9 DEF Visible
  <2> QED BY <1>3, <1>9, <2>1, <2>2, <2>3 DEF NodesOK
<1>11. PrivateOK BY <1>1, <1>3, Distinct DEF PrivateOK, Accepted
<1>12. PreviewOK BY <1>1 DEF PreviewOK, Accepted
<1>13. PhaseOK BY <1>1, <1>2 DEF PhaseOK
<1>14. QuietOK
  <2>1. Clean BY <1>3, Distinct DEF Clean
  <2>2. Unchanged0 BY <1>5 DEF Unchanged0, Is
  <2> QED BY <1>1, <1>3, <1>9, <2>1, <2>2 DEF QuietOK, Accepted
<1>15. SharedOK BY <1>4, <1>5, <1>3 DEF SharedOK, Unshared
<1>16. RunOK /\ CompleteOK /\ UndoOK BY <1>1, <1>2 DEF RunOK, Executing, CompleteOK, Complete, UndoOK
<1> QED BY <1>2, <1>7, <1>10, <1>11, <1>12, <1>13, <1>14, <1>15, <1>16 DEF IInv

LEMMA StutterIs ==
  ASSUME IInv, UNCHANGED vars
  PROVE  IInv'
<1>1. UNCHANGED <<request, disk, stage, back, trash, journal, entry, pc, todo, known, opening,
                  touched, late, faults, crashes, writes>> BY DEF vars, vault, private, executor, history
<1>2. /\ Operations' = Operations /\ Stages' = Stages /\ pre' = pre /\ final' = final /\ Step' = Step
      /\ NewDirectories' = NewDirectories /\ Stageable' = Stageable /\ Restaged' = Restaged
      /\ RunSteps' = RunSteps /\ UndoSteps' = UndoSteps /\ \A q : Doubles(q)' = Doubles(q)
  BY <1>1, Stable
<1>3. /\ \A n : Visible(n)' <=> Visible(n)
      /\ \A n : Hidden(n)' <=> Hidden(n)
      /\ (Accepted' <=> Accepted) /\ (Erred' <=> Erred) /\ (Complete' <=> Complete)
      /\ (Executing' <=> Executing)
  BY <1>1, <1>2 DEF Visible, Hidden, Accepted, Erred, Errors, Complete, Executing
<1>4. Sparing' = Sparing BY <1>1, <1>2 DEF Sparing
<1>5. TypeOK' BY <1>1, <1>2 DEF IInv, TypeOK
<1>6. NodesOK' /\ PrivateOK' /\ PreviewOK' BY <1>1, <1>2, <1>3 DEF IInv, NodesOK, PrivateOK, PreviewOK
<1>7. PhaseOK' /\ QuietOK' BY <1>1, <1>2, <1>3 DEF IInv, PhaseOK, QuietOK, Clean, Unchanged0, Is
<1>8. RunOK' BY <1>1, <1>2, <1>3 DEF IInv, RunOK, HeadIs
<1>9. SharedOK' BY <1>1, <1>2, <1>3 DEF IInv, SharedOK, Unshared, HeadIs
<1>10. CompleteOK' BY <1>1, <1>2, <1>3 DEF IInv, CompleteOK, Is
<1>11. UndoOK' BY <1>1, <1>2, <1>3, <1>4 DEF IInv, UndoOK
<1> QED BY <1>1, <1>5, <1>6, <1>7, <1>8, <1>9, <1>10, <1>11 DEF IInv

\* The strengthening is inductive.
LEMMA NextIs ==
  ASSUME IInv, [Next]_vars
  PROVE  IInv'
<1>1. ASSUME Work PROVE IInv'
  <2>1. CASE HostStep BY <2>1, HostStepIs
  <2>2. CASE Begin \/ Capture \/ Prepare BY <2>2, BeginIs, CaptureIs, PrepareIs
  <2>3. CASE Verify \/ Confirm BY <2>3, InspectIs DEF Verify, Confirm
  <2>4. CASE AwaitEvidence \/ AwaitRestoreEvidence BY <2>4, AwaitIs DEF AwaitEvidence, AwaitRestoreEvidence
  <2>5. CASE Commit \/ PlanRestore \/ Settle \/ RollBack \/ Fail \/ Open
    BY <2>5, CommitIs, PlanRestoreIs, SettleIs, RollBackIs, FailIs, OpenIs
  <2>6. CASE Record \/ RecordRollback \/ Unprove BY <2>6, RecordsIs DEF Record, RecordRollback, Unprove
  <2> QED BY <1>1, <2>1, <2>2, <2>3, <2>4, <2>5, <2>6 DEF Work
<1> QED BY <1>1, SubmitIs, CrashIs, OthersIs, StutterIs DEF Next

-----------------------------------------------------------------------------
(* What a proof state says is so.                                          *)

\* It implies what the proof states say.
LEMMA OutcomesFollow ==
  ASSUME IInv
  PROVE  OutcomesAreTrue
<1>1. PhaseOK /\ CompleteOK /\ QuietOK BY DEF IInv
<1>2. ASSUME entry.state = "applied", ~Errors({"commit"})
      PROVE  /\ \A p \in DOMAIN final \ touched : Is(p, final[p])
             /\ \A i \in Operations : request[i].kind = "trash" /\ request[i].source \notin touched
                                        => trash[i].is = request[i].from
             /\ \A k \in Stages : stage[k] = None
  BY <1>1, <1>2 DEF PhaseOK, Erred, CompleteOK, Complete
<1>3. ASSUME entry.state = "not_applied" PROVE Clean /\ Unchanged0 BY <1>1, <1>3 DEF PhaseOK, QuietOK
<1> QED BY <1>2, <1>3 DEF OutcomesAreTrue, Clean, Unchanged0

\* No step of the restore touches what somebody else had written before it.
LEMMA StepsSpare ==
  ASSUME IInv, [Next]_vars, pc = "undo", ~late', NEW p \in Paths, Is(p, Theirs)
  PROVE  disk'[p].is = Theirs
<1>1. disk[p].is = Theirs BY DEF Is
<1>2. CASE HostStep BY <1>2, HostStepIs, <1>1 DEF Good, HostFrame, Effect, elsewhere, Spares
<1>3. CASE Settle BY <1>1, <1>3 DEF Settle, Stands, vault
<1>4. CASE Crash BY <1>1, <1>4 DEF Crash, vault
<1>5. CASE Others BY <1>5 DEF Others
<1>6. CASE UNCHANGED vars BY <1>1, <1>6 DEF vars, vault
<1>7. CASE Submit \/ Begin \/ Capture \/ Prepare \/ Verify \/ AwaitEvidence \/ Confirm \/ Commit
           \/ Record \/ PlanRestore \/ AwaitRestoreEvidence \/ RollBack \/ RecordRollback
           \/ Fail \/ Unprove \/ Open
  BY <1>7 DEF Submit, Begin, Capture, Prepare, Verify, Confirm, Inspect, AwaitEvidence,
     AwaitRestoreEvidence, Await, Commit, Record, RecordRollback, Unprove, Records, PlanRestore,
     RollBack, Fail, Open, Stands
<1> QED BY <1>2, <1>3, <1>4, <1>5, <1>6, <1>7 DEF Next, Work

\* What is asked for stays, and what others did and went wrong is remembered.
LEMMA RequestStays ==
  ASSUME IInv, [Next]_vars, pc # "submit"
  PROVE  /\ request' = request /\ entry'.preview = entry.preview /\ touched \subseteq touched'
         /\ faults' = faults \/ \E kind \in FaultKinds : Fault(kind)
<1>1. \A state : Decides(state) => entry'.preview = entry.preview BY Shapes DEF Decides
<1>2. CASE HostStep BY <1>2, HostStepIs DEF Good, Stops, Continues, FaultKinds, HostFrame, elsewhere, FaultHere
<1>3. CASE Begin \/ Capture \/ Prepare \/ PlanRestore
  BY <1>1, <1>3 DEF Begin, Capture, Prepare, PlanRestore, Stands, elsewhere, Works, FaultKinds
<1>4. CASE Verify \/ Confirm \/ AwaitEvidence \/ AwaitRestoreEvidence
  BY <1>4 DEF Verify, Confirm, Inspect, AwaitEvidence, AwaitRestoreEvidence, Await, Stands, elsewhere, Works, FaultKinds
<1>5. CASE Commit \/ Settle \/ RollBack \/ Fail \/ Open
  BY <1>5 DEF Commit, Settle, RollBack, Fail, Open, Stands, elsewhere, Works, FaultKinds
<1>6. CASE Record \/ RecordRollback \/ Unprove
  BY <1>1, <1>6 DEF Record, RecordRollback, Unprove, Records, Stands, elsewhere, Works, FaultKinds
<1>7. CASE Crash BY <1>7 DEF Crash
<1>8. CASE Others BY <1>8, OthersAre DEF Others
<1>9. CASE UNCHANGED vars BY <1>9 DEF vars, history
<1> QED BY <1>2, <1>3, <1>4, <1>5, <1>6, <1>7, <1>8, <1>9 DEF Next, Work, Submit, Stands

\* A cause does not go away.
LEMMA CauseStays ==
  ASSUME IInv, [Next]_vars, pc # "submit", Cause
  PROVE  Cause'
<1>1. /\ request' = request /\ entry'.preview = entry.preview /\ touched \subseteq touched'
      /\ faults # <<>> => faults' # <<>>
  BY Shapes, RequestStays DEF Fault
<1>2. (Buildable' <=> Buildable) /\ Footprint' = Footprint
  BY <1>1 DEF FilePaths, pre, final, NewDirectories, Footprint, Buildable
<1> QED BY <1>1, <1>2 DEF Cause

\* What is captured is part of the preview, and was found as the preview says.
LEMMA CaptureFails ==
  ASSUME IInv, pc = "capture", Buildable, NEW p \in Captured, ~Is(p, pre[p])
  PROVE  touched \cap Footprint # {}
<1>1. journal.phase = "none" /\ Accepted BY DEF IInv, PhaseOK, Accepted
<1>2. Unchanged0 BY <1>1 DEF IInv, QuietOK
<1>3. p \in DOMAIN final
  BY <1>1, RequestIs, Distinct DEF IsMove, move, Operations, IInv, PreviewOK, TypeOK, WellFormed, Captured, Staged,
     FilePaths, SelfReferring
<1>4. p \in Paths /\ pre[p] = Start[p] BY <1>1, <1>3 DEF IInv, PreviewOK
<1>5. p \in touched BY <1>2, <1>4 DEF Unchanged0, Is
<1> QED BY <1>3, <1>5 DEF Footprint

\* Every step that stalls has a cause.
LEMMA StallsHaveCauses ==
  ASSUME IInv, StallHasACause, [Next]_vars
  PROVE  StallHasACause'
<1>1. (StallHasACause <=> (pc = "stalled" => Cause)) /\ (StallHasACause' <=> (pc' = "stalled" => Cause'))
  BY DEF StallHasACause, Cause
<1>2. SUFFICES ASSUME pc' = "stalled" PROVE Cause' BY <1>1
<1>3. CASE pc = "stalled" BY <1>1, <1>3, CauseStays
<1>4. CASE pc # "stalled"
  <2>1. \A kind : Fault(kind) => faults' # <<>> BY Shapes DEF Fault
  <2>2. CASE \E kind : Fault(kind) BY <2>1, <2>2 DEF Cause
  <2>3. CASE Capture /\ ~ \E kind : Fault(kind) BY <1>2, <2>3, CaptureFails, CauseStays DEF Capture, Stands, Cause
  <2>4. CASE ~Capture /\ ~ \E kind : Fault(kind)
    <3>1. ~Work
      <4>1. ~HostStep
        <5>1. HostStep => pc' \in {"run", "undo", "plan", "fail"}
          BY HostStepIs DEF Good, HostFrame, Stops, Continues, Throws, Goto
        <5> QED BY <1>2, <5>1
      <4>2. ~Begin /\ ~Prepare /\ ~PlanRestore BY <1>2, <2>4 DEF Begin, Prepare, PlanRestore, Goto
      <4>3. ~Verify /\ ~Confirm /\ ~AwaitEvidence /\ ~AwaitRestoreEvidence
        BY <1>2 DEF Verify, Confirm, Inspect, AwaitEvidence, AwaitRestoreEvidence, Await, Goto
      <4>4. ~Commit /\ ~Settle /\ ~RollBack /\ ~Fail /\ ~Open
        BY <1>2, Shapes DEF Open, Goto, Phases, Commit, Settle, RollBack, Fail
      <4>5. ~Record /\ ~RecordRollback /\ ~Unprove BY <1>2, <2>4 DEF Record, RecordRollback, Unprove, Records, Goto
      <4> QED BY <2>4, <4>1, <4>2, <4>3, <4>4, <4>5 DEF Work
    <3>2. ~Submit /\ ~Crash BY <1>2 DEF Submit, Crash, Goto
    <3>3. ~Others /\ ~UNCHANGED vars BY <1>2, <1>4 DEF Others, executor, vars
    <3> QED BY <3>1, <3>2, <3>3 DEF Next
  <2> QED BY <2>2, <2>3, <2>4
<1> QED BY <1>3, <1>4

LEMMA OrderedTail ==
  ASSUME NEW U, NEW R, NEW s \in Ordered(U, R), s # <<>>
  PROVE  /\ Tail(s) \in Ordered(U, R)
         /\ \A x \in Range(Tail(s)) : <<Head(s), x>> \notin R
<1>0. s \in Seq(U) /\ \A i, j \in DOMAIN s : i < j => <<s[i], s[j]>> \notin R BY DEF Ordered
<1>1. /\ Head(s) = s[1] /\ 1 \in DOMAIN s /\ Tail(s) \in Seq(U)
      /\ \A i \in DOMAIN Tail(s) : i \in Nat /\ Tail(s)[i] = s[i + 1] /\ i >= 1 /\ i + 1 \in DOMAIN s
  BY <1>0, TailIs
<1>2. ASSUME NEW i \in DOMAIN Tail(s), NEW j \in DOMAIN Tail(s), i < j PROVE <<Tail(s)[i], Tail(s)[j]>> \notin R
  <2>1. i + 1 \in DOMAIN s /\ j + 1 \in DOMAIN s /\ i + 1 < j + 1 BY <1>1, <1>2
  <2>2. <<s[i + 1], s[j + 1]>> \notin R BY <1>0, <2>1
  <2> QED BY <1>1, <2>2
<1>3. ASSUME NEW j \in DOMAIN Tail(s) PROVE <<Head(s), Tail(s)[j]>> \notin R
  <2>1. j + 1 \in DOMAIN s /\ 1 < j + 1 BY <1>1
  <2>2. <<s[1], s[j + 1]>> \notin R BY <1>0, <1>1, <2>1
  <2> QED BY <1>1, <2>2
<1> QED BY <1>1, <1>2, <1>3 DEF Ordered, Range

LEMMA OrderedConcat ==
  ASSUME NEW U, NEW R, NEW s \in Ordered(U, R), NEW t \in Ordered(U, R),
         \A x \in Range(s), y \in Range(t) : <<x, y>> \notin R
  PROVE  s \o t \in Ordered(U, R)
<1>0. /\ s \in Seq(U) /\ t \in Seq(U)
      /\ \A i, j \in DOMAIN s : i < j => <<s[i], s[j]>> \notin R
      /\ \A i, j \in DOMAIN t : i < j => <<t[i], t[j]>> \notin R
  BY DEF Ordered
<1> DEFINE n == Len(s)
           c == s \o t
<1>1. /\ c \in Seq(U) /\ n \in Nat /\ DOMAIN s = 1..n /\ \A i \in DOMAIN t : i \in Nat /\ i >= 1
      /\ \A i \in DOMAIN s : i \in DOMAIN c /\ c[i] = s[i]
      /\ \A i \in DOMAIN t : n + i \in DOMAIN c /\ c[n + i] = t[i]
      /\ \A i \in DOMAIN c : i \in Nat /\ (i \in DOMAIN s \/ i - n \in DOMAIN t)
  BY <1>0, ConcatIs
<1> HIDE DEF n, c
<1>2. \A i \in DOMAIN c : i - n \in DOMAIN t => c[i] = t[i - n] BY <1>1
<1> SUFFICES ASSUME NEW i \in DOMAIN c, NEW j \in DOMAIN c, i < j PROVE <<c[i], c[j]>> \notin R BY <1>1 DEF Ordered, c
<1>3. CASE i \in DOMAIN s /\ j \in DOMAIN s BY <1>0, <1>3, <1>1
<1>4. CASE i \in DOMAIN s /\ j - n \in DOMAIN t BY <1>1, <1>2, <1>4 DEF Range
<1>5. CASE i - n \in DOMAIN t /\ j - n \in DOMAIN t BY <1>1, <1>2, <1>5, <1>0
<1>6. i - n \in DOMAIN t /\ j \in DOMAIN s => FALSE BY <1>1
<1> QED BY <1>1, <1>3, <1>4, <1>5, <1>6

LEMMA OrderedFlatten ==
  ASSUME NEW U, NEW R, NEW n \in Nat, NEW ss \in [1..n -> Ordered(U, R)],
         \A i, j \in 1..n : i < j => \A x \in Range(ss[i]), y \in Range(ss[j]) : <<x, y>> \notin R
  PROVE  FlattenSeq(ss) \in Ordered(U, R)
<1>0. ss \in [1..n -> Seq(U)] BY DEF Ordered
<1>1. PICK f \in [0..n -> Seq(U)] : Accumulates(f, ss, n) BY <1>0, FlattenIs
<1> USE DEF Accumulates
<1> DEFINE Holds(m) == /\ f[m] \in Ordered(U, R)
                       /\ \A x \in Range(f[m]) : \E i \in 1..m : x \in Range(ss[i])
           Bad == {m \in 0..n : ~Holds(m)}
<1>2. Bad = {}
  <2> SUFFICES ASSUME Bad # {} PROVE FALSE OBVIOUS
  <2> HIDE DEF Holds
  <2>0. Bad \in SUBSET Nat OBVIOUS
  <2>1. PICK l \in Bad : \A j \in Bad : l <= j
    <3> HIDE DEF Bad
    <3> QED BY <2>0, Least
  <2>2. l # 0 BY <1>1, <2>1 DEF Range, Ordered, Holds
  <2>3. l \in 1..n /\ l - 1 \in 0..n BY <2>1, <2>2
  <2>4. l - 1 \notin Bad
    <3> HIDE DEF Bad
    <3> QED BY <2>1, <2>3
  <2>5. /\ f[l - 1] \in Ordered(U, R)
        /\ \A x \in Range(f[l - 1]) : \E i \in 1..(l - 1) : x \in Range(ss[i])
    BY <2>3, <2>4 DEF Holds
  <2>6. f[l] = f[l - 1] \o ss[l] /\ f[l - 1] \in Seq(U) /\ ss[l] \in Seq(U) /\ ss[l] \in Ordered(U, R)
    BY <1>0, <1>1, <2>3
  <2>7. Range(f[l]) = Range(f[l - 1]) \cup Range(ss[l]) BY <2>6, ConcatRange
  <2>8. \A x \in Range(f[l - 1]), y \in Range(ss[l]) : <<x, y>> \notin R
    <3> SUFFICES ASSUME NEW x \in Range(f[l - 1]), NEW y \in Range(ss[l]) PROVE <<x, y>> \notin R OBVIOUS
    <3>1. PICK i \in 1..(l - 1) : x \in Range(ss[i]) BY <2>5
    <3>2. i \in 1..n /\ i < l BY <2>3
    <3> QED BY <2>3, <3>1, <3>2
  <2>9. f[l] \in Ordered(U, R) BY <2>5, <2>6, <2>8, OrderedConcat
  <2>10. \A x \in Range(f[l]) : \E i \in 1..l : x \in Range(ss[i]) BY <2>3, <2>5, <2>7
  <2> QED BY <2>1, <2>9, <2>10 DEF Holds
<1>3. n \in 0..n OBVIOUS
<1>4. Holds(n)
  <2> HIDE DEF Holds
  <2> QED BY <1>2, <1>3
<1> QED BY <1>1, <1>4

\* Short plans.
LEMMA ShortOrdered ==
  ASSUME NEW U, NEW R
  PROVE  /\ <<>> \in Ordered(U, R)
         /\ \A a \in U : <<a>> \in Ordered(U, R)
         /\ \A a, b \in U : <<a, b>> \notin R => <<a, b>> \in Ordered(U, R)
         /\ \A a, b, c, d \in U :
              {<<a, b>>, <<a, c>>, <<a, d>>, <<b, c>>, <<b, d>>, <<c, d>>} \cap R = {} => <<a, b, c, d>> \in Ordered(U, R)
<1>1. <<>> \in Ordered(U, R) BY DEF Ordered
<1>2. ASSUME NEW a \in U PROVE <<a>> \in Ordered(U, R)
  <2> DEFINE s == <<a>>
  <2>1. s \in Seq(U) /\ DOMAIN s = {1} BY ShortSeq
  <2> HIDE DEF s
  <2> QED BY <2>1 DEF Ordered, s
<1>3. ASSUME NEW a \in U, NEW b \in U, <<a, b>> \notin R PROVE <<a, b>> \in Ordered(U, R)
  <2> DEFINE s == <<a, b>>
  <2>1. s \in Seq(U) /\ DOMAIN s = {1, 2} /\ s[1] = a /\ s[2] = b BY ShortSeq
  <2> HIDE DEF s
  <2>2. \A i, j \in DOMAIN s : i < j => i = 1 /\ j = 2 BY <2>1
  <2>3. \A i, j \in DOMAIN s : i < j => <<s[i], s[j]>> \notin R BY <1>3, <2>1, <2>2
  <2>4. s \in Ordered(U, R) BY <2>1, <2>3 DEF Ordered
  <2> QED BY <2>4 DEF s
<1>4. ASSUME NEW a \in U, NEW b \in U, NEW c \in U, NEW d \in U,
             {<<a, b>>, <<a, c>>, <<a, d>>, <<b, c>>, <<b, d>>, <<c, d>>} \cap R = {}
      PROVE  <<a, b, c, d>> \in Ordered(U, R)
  <2> DEFINE s == <<a, b, c, d>>
  <2>1. s \in Seq(U) /\ DOMAIN s = {1, 2, 3, 4} /\ s[1] = a /\ s[2] = b /\ s[3] = c /\ s[4] = d BY ShortSeq
  <2> HIDE DEF s
  <2>2. \A i, j \in DOMAIN s : i < j =>
          <<s[i], s[j]>> \in {<<a, b>>, <<a, c>>, <<a, d>>, <<b, c>>, <<b, d>>, <<c, d>>} BY <2>1
  <2>3. s \in Ordered(U, R) BY <1>4, <2>1, <2>2 DEF Ordered
  <2> QED BY <2>3 DEF s
<1> QED BY <1>1, <1>2, <1>3, <1>4

-----------------------------------------------------------------------------
(* Calm: an execution that only meets errors of its own, and crashes.      *)

\* The paths of an operation of each kind.
LEMMA WorkingIs ==
  ASSUME request \in Requests
  PROVE  /\ \A i \in Working :
              /\ i \in Operations /\ Source(i) \in Files /\ Source(i) # None /\ request[i].from \in Known
              /\ Trashing(i) => Target(i) = None /\ ~Moving(i) /\ ~Copying(i)
              /\ Moving(i) \/ Copying(i) => Target(i) \in Files /\ Target(i) # None /\ request[i].to \in Known /\ ~Trashing(i)
              /\ Copying(i) => ~Moving(i)
              /\ Copying(i) \/ (Moving(i) /\ ~SelfReferring) => request[i].to = request[i].from
              /\ request[i].kind = "move" => IsMove /\ i = 1 /\ Operations = {1}
              /\ ~IsMove /\ Target(i) # None => {Source(i), Target(i)} \subseteq Attachments
         /\ \A i, j \in Operations : i \in Working /\ i # j =>
              i \in MutationIndexes /\ request[j].kind # "move"
         /\ IsMove => Working = {1} /\ Moving(1) /\ {Source(1), Target(1)} \subseteq Notes /\ Operations = {1}
         /\ SelfReferring => IsMove
<1>0. /\ Len(request) \in Nat /\ Operations = 1..Len(request)
      /\ \A i \in Operations : WellFormed(request[i]) /\ (request[i].kind = "move" => Len(request) = 1)
  BY RequestIs
<1>1. ASSUME NEW i \in Operations
      PROVE  /\ request[i].kind = "move" => Len(request) = 1 /\ i = 1 /\ IsMove /\ Operations = {1}
             /\ request[i].kind = "trash" => Source(i) \in Files /\ Target(i) = None /\ request[i].from \in Known
             /\ request[i].kind = "move" => {Source(i), Target(i)} \subseteq Notes /\ {request[i].from, request[i].to} \subseteq Known
             /\ request[i].kind \in {"copy", "move-attachment"} =>
                  {Source(i), Target(i)} \subseteq Attachments /\ request[i].from \in Known /\ request[i].to = request[i].from
  BY <1>0 DEF WellFormed, Source, Target, IsMove, move
<1>2. IsMove => 1 \in Operations /\ Operations = {1} /\ request[1].kind = "move" BY <1>0 DEF IsMove, move
<1>3. \A i \in Operations : i \in Working <=> request[i].kind \in {"copy", "trash", "move", "move-attachment"}
  BY DEF Working, Moving, Copying, Trashing
<1>4. ASSUME NEW i \in Operations, NEW j \in Operations, i \in Working, i # j
      PROVE  i \in MutationIndexes /\ request[j].kind # "move" BY <1>1, <1>4, <1>3 DEF MutationIndexes, Mutations
<1>5. SelfReferring => IsMove BY DEF SelfReferring
<1>6. ASSUME NEW i \in Working, Moving(i), ~SelfReferring PROVE request[i].to = request[i].from
  BY <1>1, <1>6 DEF SelfReferring, move, Working, Moving
<1>7. Working \subseteq Operations BY DEF Working
<1>8. ASSUME NEW i \in Working
      PROVE  /\ i \in Operations /\ Source(i) \in Files /\ Source(i) # None /\ request[i].from \in Known
             /\ Trashing(i) => Target(i) = None /\ ~Moving(i) /\ ~Copying(i)
             /\ Moving(i) \/ Copying(i) => Target(i) \in Files /\ Target(i) # None /\ request[i].to \in Known /\ ~Trashing(i)
             /\ Copying(i) => ~Moving(i)
             /\ Copying(i) => request[i].to = request[i].from
             /\ request[i].kind = "move" => IsMove /\ i = 1 /\ Operations = {1}
             /\ ~IsMove /\ Target(i) # None => {Source(i), Target(i)} \subseteq Attachments
  BY <1>1, <1>3, <1>7, Distinct DEF Moving, Copying, Trashing
<1>9. IsMove => Working = {1} /\ Moving(1) /\ {Source(1), Target(1)} \subseteq Notes /\ Operations = {1}
  BY <1>1, <1>2, <1>3, <1>7 DEF Moving
<1> QED BY <1>4, <1>5, <1>6, <1>8, <1>9

\* Operations that are not chained keep off each other's paths.
LEMMA ApartIs ==
  ASSUME request \in Requests, ~Chained, NEW i \in Working, NEW j \in Operations, i # j
  PROVE  {Source(i), Target(i)} \cap {Source(j), Target(j)} \subseteq {None}
<1>1. i \in Operations /\ i \in MutationIndexes BY WorkingIs DEF Working
<1>2. Operations = 1..Len(request) /\ Len(request) \in Nat BY RequestIs
<1>3. OpPaths(request[i]) \cap OpPaths(request[j]) = {} BY <1>1, <1>2 DEF Chained
<1> QED BY <1>3 DEF OpPaths, Source, Target

\* One more operation.
LEMMA PlainStep ==
  ASSUME request \in Requests, ~Chained, NEW view, NEW l \in Operations,
         Fits(view), PlainView(view, l - 1), Accepts(view, request[l])
  PROVE  PlainView(ProjectOperation(view, request[l]), l)
<1> DEFINE op == request[l]
           after == After(view, op)
           w == ProjectOperation(view, op)
           D == DOMAIN view.final
           A == MissingAbove(view, op.target) \cup DOMAIN op.rewrites \cup ({op.source, op.target} \ {None})
<1>0. /\ l \in Nat /\ l >= 1 /\ Operations = 1..Len(request) /\ Len(request) \in Nat /\ WellFormed(op)
      /\ (op.kind = "move" => Len(request) = 1)
  BY RequestIs
<1>1. /\ op.source # None => Current(view, op.source) = op.from
      /\ op.target # None => Current(view, op.target) = Absent
  BY DEF Accepts
<1>2. DOMAIN op.rewrites \subseteq Notes /\ (op.kind # "move" => DOMAIN op.rewrites = {}) BY <1>0 DEF WellFormed
<1>3. MissingAbove(view, op.target) \cap Files = {}
  BY RequestIs, <1>0, Distinct, PathsAssumption DEF Kinds, Mutations, WellFormed, MissingAbove
<1>4. DOMAIN after = A /\ (op.source \in A /\ op.source # op.target => after[op.source] = SourceAfter(op))
  BY DEF After
<1>5. /\ DOMAIN view.pre = D
      /\ DOMAIN w.pre = D \cup A /\ DOMAIN w.final = D \cup A
      /\ \A p \in D \cup A : /\ w.pre[p] = IF p \in D THEN view.pre[p] ELSE Current(view, p)
                             /\ w.final[p] = IF p \in A THEN after[p] ELSE view.final[p]
  <2>1. DOMAIN view.pre = D BY DEF Fits
  <2> HIDE DEF after, A
  <2> QED BY <1>4, <2>1 DEF ProjectOperation, ProjectPaths, after
<1> HIDE DEF after, w
<1>6. ASSUME NEW p \in (D \cup A) \cap Files
      PROVE  \E j \in 1..l : p \in {Source(j), Target(j)} \/ request[j].kind = "move"
  <2>1. CASE p \in D
    <3>1. PICK j \in 1..(l - 1) : p \in {Source(j), Target(j)} \/ request[j].kind = "move" BY <2>1 DEF PlainView
    <3> QED BY <1>0, <3>1
  <2>2. CASE p \in A BY <1>3, <2>2, <1>0, <1>2 DEF Source, Target
  <2> QED BY <2>1, <2>2
<1>7. ASSUME NEW i \in 1..(l - 1), i \in Working
      PROVE  /\ Source(i) \in D \cup A /\ w.pre[Source(i)] = request[i].from
             /\ Target(i) # None => Target(i) \in D \cup A /\ w.pre[Target(i)] = Absent
             /\ Trashing(i) => w.final[Source(i)] = Absent
  <2>1. /\ Source(i) \in D /\ view.pre[Source(i)] = request[i].from
        /\ Target(i) # None => Target(i) \in D /\ view.pre[Target(i)] = Absent
        /\ Trashing(i) => view.final[Source(i)] = Absent
    BY <1>7 DEF PlainView
  <2>2. i \in Operations /\ i # l BY <1>0
  <2>3. op.kind # "move" /\ Source(i) # None /\ Source(i) \in Files BY <1>7, <2>2, WorkingIs
  <2>4. Source(i) \notin {Source(l), Target(l)} BY <1>7, <2>2, <2>3, ApartIs
  <2>5. Source(i) \notin A BY <1>2, <1>3, <2>3, <2>4 DEF Source, Target
  <2> QED BY <1>5, <2>1, <2>5
<1>8. ASSUME l \in Working
      PROVE  /\ Source(l) \in D \cup A /\ w.pre[Source(l)] = op.from
             /\ Target(l) # None => Target(l) \in D \cup A /\ w.pre[Target(l)] = Absent
             /\ Trashing(l) => w.final[Source(l)] = Absent
  <2>1. /\ Source(l) = op.source /\ Target(l) = op.target /\ Source(l) \in Files /\ Source(l) # None
        /\ (Moving(l) \/ Copying(l) => Target(l) \in Files) /\ (Trashing(l) => Target(l) = None)
    BY <1>8, WorkingIs DEF Source, Target
  <2>2. Moving(l) \/ Copying(l) \/ Trashing(l) BY <1>8 DEF Working
  <2>3. \A p \in {Source(l), Target(l)} \cap Files : p \notin D
    <3> SUFFICES ASSUME NEW p \in {Source(l), Target(l)} \cap Files, p \in D PROVE FALSE OBVIOUS
    <3>1. PICK j \in 1..(l - 1) : p \in {Source(j), Target(j)} \/ request[j].kind = "move" BY DEF PlainView
    <3>2. j \in Operations /\ j # l BY <1>0
    <3>3. request[j].kind # "move" /\ p # None BY <1>8, <3>2, WorkingIs, Distinct
    <3> QED BY <1>8, <3>1, <3>2, <3>3, ApartIs
  <2>4. Source(l) \in A /\ (Target(l) # None => Target(l) \in A) BY <2>1
  <2>5. Source(l) \notin D /\ (Target(l) # None => Target(l) \notin D) BY <2>1, <2>2, <2>3
  <2>6. w.pre[Source(l)] = op.from /\ (Target(l) # None => w.pre[Target(l)] = Absent) BY <1>1, <1>5, <2>1, <2>4, <2>5
  <2>7. ASSUME Trashing(l) PROVE w.final[Source(l)] = Absent BY <2>7, <2>1, <1>4, <1>5, <2>4 DEF SourceAfter, Trashing
  <2> QED BY <2>4, <2>6, <2>7
<1>9. \A i \in 1..l : i \in 1..(l - 1) \/ i = l BY <1>0
<1> HIDE DEF A, D
<1> QED BY <1>5, <1>6, <1>7, <1>8, <1>9 DEF PlainView, w, op

\* What the preview of such a request says of its operations.
LEMMA PreviewIsPlain ==
  ASSUME request \in Requests, Preflight.accepted, ~Chained
  PROVE  PlainView(Preflight, Len(request))
<1> DEFINE n == Len(request)
<1>0. n \in Nat /\ Operations = 1..n /\ \A i \in 1..n : request[i].kind \in Kinds /\ WellFormed(request[i])
  BY RequestIs
<1>1. PICK View : /\ View[0] = Blank /\ Preflight = View[n]
                  /\ \A i \in 1..n : View[i] = Projected(View[i - 1], request[i])
  BY ViewsAre
<1> HIDE DEF n
<1> DEFINE Sound(i) == View[i].accepted => Fits(View[i]) /\ PlainView(View[i], i)
           Wrong == {i \in 0..n : ~Sound(i)}
<1>6. Wrong = {}
  <2> SUFFICES ASSUME Wrong # {} PROVE FALSE OBVIOUS
  <2> HIDE DEF Sound
  <2>0. Wrong \in SUBSET Nat BY <1>0
  <2>1. PICK l \in Wrong : \A k \in Wrong : l <= k
    <3> HIDE DEF Wrong
    <3> QED BY <2>0, Least
  <2>2. l \in 0..n /\ ~Sound(l) BY <2>1
  <2>3. CASE l = 0
    <3>1. Fits(Blank) /\ PlainView(Blank, 0) BY DEF Fits, PlainView, Blank
    <3> QED BY <1>1, <2>2, <2>3, <3>1 DEF Sound
  <2>4. CASE l # 0
    <3>1. l \in 1..n /\ l - 1 \in 0..n /\ l - 1 \notin Wrong
      <4> HIDE DEF Wrong
      <4> QED BY <1>0, <2>1, <2>2, <2>4
    <3>2. Sound(l - 1) BY <3>1
    <3>3. View[l] = Projected(View[l - 1], request[l]) BY <1>1, <3>1
    <3> DEFINE v == View[l - 1]
               op == request[l]
    <3>4. CASE ~(v.accepted /\ Accepts(v, op)) BY <3>3, <3>4, <2>2 DEF Projected, Blank, Sound
    <3>5. CASE v.accepted /\ Accepts(v, op)
      <4>1. View[l] = ProjectOperation(v, op) BY <3>3, <3>5 DEF Projected
      <4>2. Fits(v) /\ PlainView(v, l - 1) BY <3>2, <3>5 DEF Sound
      <4>3. op.kind \in Kinds /\ WellFormed(op) /\ l \in Operations BY <1>0, <3>1
      <4>4. Fits(View[l])
        <5> HIDE DEF v, op
        <5> QED BY <3>5, <4>1, <4>2, <4>3, ProjectOperationIs
      <4>5. PlainView(View[l], l)
        <5> HIDE DEF v
        <5> QED BY <3>5, <4>1, <4>2, <4>3, PlainStep
      <4> QED BY <2>2, <4>4, <4>5 DEF Sound
    <3> QED BY <3>4, <3>5
  <2> QED BY <2>3, <2>4
<1>7. n \in 0..n BY <1>0
<1>8. Sound(n) BY <1>6, <1>7
<1>9. Preflight.accepted OBVIOUS
<1> QED BY <1>1, <1>8, <1>9 DEF n

\* What the request's own paths are, in such a preview.
LEMMA PlainIs ==
  ASSUME TypeOK, PreviewOK, Accepted, ~Chained, PlainOK, NEW i \in Working
  PROVE  /\ Source(i) \in FilePaths \ Staged /\ pre[Source(i)] = request[i].from
         /\ Target(i) # None => Target(i) \in FilePaths \ Staged /\ pre[Target(i)] = Absent /\ Target(i) # Source(i)
         /\ \A j \in Working : j # i =>
              /\ Source(i) # Source(j) /\ Source(i) # Target(j) /\ Target(i) # Source(j)
              /\ Target(i) # None => Target(i) # Target(j)
<1>0. request \in Requests BY DEF TypeOK
<1>1. /\ i \in Operations /\ Source(i) \in Files /\ Source(i) # None /\ request[i].from \in Known
      /\ Trashing(i) => Target(i) = None
      /\ Moving(i) \/ Copying(i) => Target(i) \in Files /\ Target(i) # None
      /\ ~IsMove /\ Target(i) # None => {Source(i), Target(i)} \subseteq Attachments
      /\ IsMove => Working = {1} /\ Moving(1)
  BY <1>0, WorkingIs
<1>2. Moving(i) \/ Copying(i) \/ Trashing(i) BY DEF Working
<1>3. /\ pre[Source(i)] = request[i].from
      /\ Target(i) # None => pre[Target(i)] = Absent
      /\ Trashing(i) => final[Source(i)] = Absent
  BY DEF PlainOK
<1>4. {request[i].source, request[i].target} \subseteq {None} \cup DOMAIN final BY <1>1 DEF PreviewOK
<1>5. Source(i) \in FilePaths /\ (Target(i) # None => Target(i) \in FilePaths)
  BY <1>1, <1>2, <1>4 DEF Source, Target, FilePaths
<1>6. Staged \subseteq Notes /\ (\A p \in Staged : final[p] # Absent) /\ (IsMove => Staged \cap {Source(1), Target(1)} = {})
  BY DEF Staged, Source, Target, move
<1>7. Source(i) \notin Staged /\ (Target(i) # None => Target(i) \notin Staged) BY <1>1, <1>6, <1>2, <1>3, Distinct
<1>8. Target(i) # None => Target(i) # Source(i) BY <1>1, <1>3, Distinct
<1>9. ASSUME NEW j \in Working, j # i
      PROVE  /\ Source(i) # Source(j) /\ Source(i) # Target(j) /\ Target(i) # Source(j)
             /\ Target(i) # None => Target(i) # Target(j)
  <2>1. j \in Operations /\ Source(j) # None BY <1>0, WorkingIs
  <2>2. {Source(i), Target(i)} \cap {Source(j), Target(j)} \subseteq {None} BY <1>0, <1>9, <2>1, ApartIs
  <2> QED BY <1>1, <2>1, <2>2
<1> QED BY <1>3, <1>5, <1>7, <1>8, <1>9

-----------------------------------------------------------------------------
(* The steps of an execution come in an order that never spoils what they  *)
(* leave.                                                                  *)

LEMMA PairsAre ==
  \A x, y \in Step : (<<x, y>> \in Late <=> Clash(x, y)) /\ (<<x, y>> \in Early <=> Spoils(x, y)) BY DEF Late, Early

\* Steps that do not clash may come in any order.
LEMMA AnyOrder ==
  ASSUME NEW U, NEW R, NEW s \in Seq(U), \A x, y \in Range(s) : <<x, y>> \notin R
  PROVE  s \in Ordered(U, R) BY DEF Ordered, Range

LEMMA ByDepthOrdered ==
  ASSUME NEW S \in SUBSET Directories
  PROVE  ByDepth(S) \in Ordered(Directories, Upward)
<1>1. IsFiniteSet(Directories) BY PathsAssumption, Distinct, FS_Subset
<1> DEFINE n == Cardinality(Directories) + 1
           ss == [i \in 1..n |-> AtDepth(S, i - 1)]
           T(m) == {d \in S : Cardinality(Above[d]) = m}
<1>2. Cardinality(Directories) \in Nat /\ n \in Nat BY <1>1, FS_CardinalityType
<1>3. \A m : AtDepth(S, m) = SetToSeq(T(m)) BY DEF AtDepth
<1>4. ByDepth(S) = FlattenSeq(ss) BY DEF ByDepth
<1>5. \A d \in S : \A e \in Above[d] : Cardinality(Above[e]) < Cardinality(Above[d])
  BY PathsAssumption, TreeAssumption, Distinct, <1>1, FS_Subset, FS_CardinalityType
<1>6. \A d, e \in S : <<d, e>> \in Upward => d = e \/ Cardinality(Above[e]) < Cardinality(Above[d]) BY <1>5 DEF Upward
<1>7. ASSUME NEW m PROVE AtDepth(S, m) \in Ordered(Directories, Upward) /\ Range(AtDepth(S, m)) = T(m)
  <2>1. T(m) \subseteq S /\ T(m) \subseteq Directories /\ \A d \in T(m) : Cardinality(Above[d]) = m OBVIOUS
  <2>2. \A d \in T(m) : Cardinality(Above[d]) \in Nat
    BY <2>1, PathsAssumption, Distinct, <1>1, FS_Subset, FS_CardinalityType
  <2>3. IsFiniteSet(T(m))
    <3> HIDE DEF T
    <3> QED BY <1>1, <2>1, FS_Subset
  <2> DEFINE s == SetToSeq(T(m))
             c == Cardinality(T(m))
  <2>4. /\ c \in Nat /\ s \in [1..c -> T(m)] /\ s \in Seq(T(m)) /\ Range(s) = T(m)
        /\ \A i, j \in 1..c : i # j => s[i] # s[j]
    <3> HIDE DEF T
    <3> QED BY <2>3, ListIs
  <2> HIDE DEF s, c, T
  <2>5. \A d, e \in T(m) : <<d, e>> \in Upward => d = e BY <1>6, <2>1, <2>2
  <2>6. ASSUME NEW i \in DOMAIN s, NEW j \in DOMAIN s, i < j PROVE <<s[i], s[j]>> \notin Upward BY <2>4, <2>6, <2>5
  <2>7. s \in Seq(Directories) BY <2>1, <2>4
  <2> QED BY <1>3, <2>4, <2>6, <2>7 DEF Ordered, s
<1>8. ss \in [1..n -> Ordered(Directories, Upward)] /\ \A i \in 1..n : ss[i] = AtDepth(S, i - 1) BY <1>7
<1> HIDE DEF ss
<1>9. ASSUME NEW i \in 1..n, NEW j \in 1..n, i < j, NEW x \in Range(ss[i]), NEW y \in Range(ss[j])
      PROVE  <<x, y>> \notin Upward BY <1>7, <1>8, <1>2, <1>6, <1>9
<1> HIDE DEF n, T
<1>10. FlattenSeq(ss) \in Ordered(Directories, Upward) BY <1>2, <1>8, <1>9, OrderedFlatten
<1> QED BY <1>4, <1>10

\* The parts of an execution, one by one.
LEMMA MakeAllFits ==
  ASSUME TypeOK, PreviewOK, Accepted
  PROVE  /\ MakeAll \in Ordered(Step, Late)
         /\ \A x \in Range(MakeAll) : x[1] \in {"compare", "prepare-directory", "journal", "publish-directory"}
         /\ \A d \in NewDirectories : <<"journal", {d}>> \in Range(MakeAll)
<1> DEFINE s == ByDepth(NewDirectories)
           n == Len(s)
           ss == [i \in 1..n |-> MakeDirectory(s[i])]
<1>0. NewDirectories \in SUBSET Directories BY PreviewIs
<1>1. /\ s \in Seq(NewDirectories) /\ s \in Ordered(Directories, Upward)
      /\ \A d \in NewDirectories : d \in Range(s)
  BY <1>0, ByDepthIs, ByDepthOrdered
<1>2. MakeAll = FlattenSeq(ss) BY DEF MakeAll, Each
<1> HIDE DEF s, n
<1>3. n \in Nat /\ DOMAIN s = 1..n /\ \A i \in 1..n : s[i] \in NewDirectories
  BY <1>1, LenProperties, ElementOfSeq DEF n
<1>4. \A i, j \in 1..n : i < j => s[i] # s[j] BY <1>1, <1>3, <1>0 DEF Ordered, Upward
<1>5. ASSUME NEW d \in NewDirectories
      PROVE  /\ MakeDirectory(d) \in Ordered(Step, Late)
             /\ <<"journal", {d}>> \in Range(MakeDirectory(d))
             /\ \A x \in Range(MakeDirectory(d)) :
                  /\ x \in Step /\ x[1] \in {"compare", "prepare-directory", "journal", "publish-directory"}
                  /\ x[1] = "journal" => x[2] = {d}
                  /\ x[1] = "publish-directory" => x[2] = d
  <2> DEFINE a == <<"compare", d, Nowhere>>
             b == <<"prepare-directory", d>>
             c == <<"journal", {d}>>
             e == <<"publish-directory", d>>
  <2>1. MakeDirectory(d) \in Seq(RunSteps) /\ Range(MakeDirectory(d)) = {a, b, c, e} /\ MakeDirectory(d) = <<a, b, c, e>>
    BY MakeDirectoryIs DEF MakeDirectory
  <2>2. /\ a[1] = "compare" /\ b[1] = "prepare-directory" /\ c[1] = "journal" /\ e[1] = "publish-directory"
        /\ c[2] = {d} /\ e[2] = d
    OBVIOUS
  <2> HIDE DEF a, b, c, e
  <2>3. a \in Step /\ b \in Step /\ c \in Step /\ e \in Step BY <2>1, IsRunStep DEF Range
  <2>4. ~Clash(a, b) /\ ~Clash(a, c) /\ ~Clash(a, e) /\ ~Clash(b, c) /\ ~Clash(b, e) /\ ~Clash(c, e) BY <2>2 DEF Clash
  <2>5. {<<a, b>>, <<a, c>>, <<a, e>>, <<b, c>>, <<b, e>>, <<c, e>>} \cap Late = {} BY <2>3, <2>4, PairsAre
  <2>6. <<a, b, c, e>> \in Ordered(Step, Late) BY <2>3, <2>5, ShortOrdered
  <2> QED BY <2>1, <2>2, <2>3, <2>6 DEF c
<1>6. ss \in [1..n -> Ordered(Step, Late)] /\ \A i \in 1..n : ss[i] = MakeDirectory(s[i]) BY <1>3, <1>5
<1> HIDE DEF ss
<1>7. ASSUME NEW i \in 1..n, NEW j \in 1..n, i < j, NEW x \in Range(ss[i]), NEW y \in Range(ss[j])
      PROVE  <<x, y>> \notin Late
  <2>1. s[i] \in NewDirectories /\ s[j] \in NewDirectories /\ s[i] # s[j] BY <1>3, <1>4, <1>7
  <2>2. /\ x \in Step /\ x[1] \in {"compare", "prepare-directory", "journal", "publish-directory"}
        /\ x[1] = "publish-directory" => x[2] = s[i]
        /\ y \in Step /\ y[1] \in {"compare", "prepare-directory", "journal", "publish-directory"}
        /\ y[1] = "journal" => y[2] = {s[j]}
    BY <1>5, <1>6, <2>1
  <2>3. ~Clash(x, y) BY <2>1, <2>2 DEF Clash
  <2> QED BY <2>2, <2>3, PairsAre
<1>8. FlattenSeq(ss) \in Ordered(Step, Late) BY <1>3, <1>6, <1>7, OrderedFlatten
<1>9. \A x : x \in Range(FlattenSeq(ss)) <=> \E i \in 1..n : x \in Range(ss[i])
  BY <1>6, <1>3, FlattenRange DEF Ordered
<1>10. ASSUME NEW x \in Range(FlattenSeq(ss))
       PROVE  x[1] \in {"compare", "prepare-directory", "journal", "publish-directory"}
  <2>1. PICK i \in 1..n : x \in Range(ss[i]) BY <1>9
  <2>2. s[i] \in NewDirectories /\ x \in Range(MakeDirectory(s[i])) BY <1>3, <1>6, <2>1
  <2> QED BY <1>5, <2>2
<1>11. ASSUME NEW d \in NewDirectories PROVE <<"journal", {d}>> \in Range(FlattenSeq(ss))
  <2>1. PICK i \in 1..n : s[i] = d BY <1>1, <1>3 DEF Range
  <2>2. <<"journal", {d}>> \in Range(ss[i]) BY <1>5, <1>6, <2>1
  <2> QED BY <1>9, <2>2
<1> QED BY <1>2, <1>8, <1>10, <1>11

LEMMA MutateFits ==
  ASSUME TypeOK, PreviewOK, Accepted, ~Chained, PlainOK, NEW i \in Operations
  PROVE  /\ Mutate(i) \in Ordered(Step, Late)
         /\ \A x \in Range(Mutate(i)) :
              /\ x \in Step /\ Means(x) /\ x[1] \in {"prepare", "publish", "link", "unlink", "hide"}
              /\ x[1] \in {"link", "unlink", "hide"} => i \in Working /\ x[2] = Source(i)
              /\ x[1] = "publish" => i \in Working /\ x[3] = Target(i)
         /\ i \in Working /\ ~IsMove =>
              /\ Moving(i) => <<"link", Source(i), Target(i)>> \in Range(Mutate(i))
              /\ Trashing(i) => <<"hide", Source(i), i>> \in Range(Mutate(i))
<1> DEFINE op == request[i]
           s == op.source
           t == op.target
<1>0. /\ request \in Requests /\ s = Source(i) /\ t = Target(i)
      /\ Mutate(i) \in Seq(RunSteps) /\ RunSteps \subseteq Step
  BY MutateIs, IsRunStep DEF TypeOK, Source, Target
<1>1. /\ i \in Working => op.kind \in {"copy", "move-attachment", "trash", "move"}
      /\ op.kind \in {"copy", "move-attachment", "trash"} => i \in Working
  BY DEF Working, Moving, Copying, Trashing
<1>2. i \in Working => /\ s \in Files /\ s # None /\ (Trashing(i) => t = None)
                       /\ (Moving(i) \/ Copying(i) => t \in Files /\ t # None /\ t # s)
                       /\ (Copying(i) => op.to = op.from)
  BY <1>0, PlainIs, WorkingIs
<1>3. i \notin Staged BY PreviewIs, Distinct
<1> HIDE DEF op, s, t
<1>4. CASE op.kind \notin {"copy", "move-attachment", "trash"}
  BY <1>4, ShortRange, ShortOrdered, <1>1, <1>0, WorkingIs DEF Mutate, op
<1>5. CASE op.kind = "copy"
  <2> DEFINE a == <<"prepare", i, op.from>>
             b == <<"publish", i, t>>
  <2>1. Mutate(i) = <<a, b>> BY <1>5 DEF Mutate, op, t
  <2>2. a[1] = "prepare" /\ a[2] = i /\ a[3] = op.from /\ b[1] = "publish" /\ b[2] = i /\ b[3] = t OBVIOUS
  <2> HIDE DEF a, b
  <2>3. i \in Working /\ Copying(i) /\ ~Trashing(i) /\ ~Moving(i) BY <1>1, <1>5 DEF Copying, Trashing, Moving, op
  <2>4. Means(a) BY <1>2, <2>3, <1>3, <2>2 DEF Means, Content, op
  <2>5. Means(b) BY <1>0, <2>2, <2>3 DEF Means
  <2>6. ~Clash(a, b) BY <2>2 DEF Clash
  <2>7. Range(Mutate(i)) = {a, b} BY <2>1, ShortRange
  <2>8. a \in Step /\ b \in Step BY <1>0, <2>7 DEF Range
  <2>9. Mutate(i) \in Ordered(Step, Late) BY <2>1, <2>6, <2>8, PairsAre, ShortOrdered
  <2> QED BY <1>0, <2>2, <2>3, <2>4, <2>5, <2>7, <2>8, <2>9
<1>6. CASE op.kind = "move-attachment"
  <2> DEFINE a == <<"link", s, t>>
             b == <<"unlink", s>>
  <2>1. Mutate(i) = <<a, b>> BY <1>6 DEF Mutate, MoveFile, op, s, t
  <2>2. a[1] = "link" /\ a[2] = s /\ a[3] = t /\ b[1] = "unlink" /\ b[2] = s /\ a = <<"link", Source(i), Target(i)>>
    BY <1>0
  <2> HIDE DEF a, b
  <2>3. i \in Working /\ Moving(i) /\ ~Trashing(i) /\ ~Copying(i) BY <1>1, <1>6 DEF Copying, Trashing, Moving, op
  <2>4. Means(a) /\ Means(b) BY <1>0, <2>2, <2>3 DEF Means
  <2>6. ~Clash(a, b) BY <2>2 DEF Clash
  <2>7. Range(Mutate(i)) = {a, b} BY <2>1, ShortRange
  <2>8. a \in Step /\ b \in Step BY <1>0, <2>7 DEF Range
  <2>9. Mutate(i) \in Ordered(Step, Late) BY <2>1, <2>6, <2>8, PairsAre, ShortOrdered
  <2> QED BY <1>0, <2>2, <2>3, <2>4, <2>7, <2>8, <2>9
<1>7. CASE op.kind = "trash"
  <2> DEFINE a == <<"hide", s, i>>
             b == <<"unlink", s>>
  <2>1. Mutate(i) = <<a, b>> BY <1>7 DEF Mutate, MoveToTrash, op, s
  <2>2. a[1] = "hide" /\ a[2] = s /\ a[3] = i /\ b[1] = "unlink" /\ b[2] = s /\ a = <<"hide", Source(i), i>> BY <1>0
  <2> HIDE DEF a, b
  <2>3. i \in Working /\ Trashing(i) /\ ~Moving(i) /\ ~Copying(i) BY <1>1, <1>7 DEF Copying, Trashing, Moving, op
  <2>4. Means(a) /\ Means(b) BY <1>0, <2>2, <2>3 DEF Means
  <2>6. ~Clash(a, b) BY <2>2 DEF Clash
  <2>7. Range(Mutate(i)) = {a, b} BY <2>1, ShortRange
  <2>8. a \in Step /\ b \in Step BY <1>0, <2>7 DEF Range
  <2>9. Mutate(i) \in Ordered(Step, Late) BY <2>1, <2>6, <2>8, PairsAre, ShortOrdered
  <2> QED BY <1>0, <2>2, <2>3, <2>4, <2>7, <2>8, <2>9
<1> QED BY <1>4, <1>5, <1>6, <1>7

LEMMA MutateAllFits ==
  ASSUME TypeOK, PreviewOK, Accepted, ~Chained, PlainOK
  PROVE  /\ MutateAll \in Ordered(Step, Late)
         /\ \A x \in Range(MutateAll) :
              x \in Step /\ Means(x) /\ x[1] \in {"prepare", "publish", "link", "unlink", "hide"}
         /\ \A i \in Working : ~IsMove =>
              /\ Moving(i) => <<"link", Source(i), Target(i)>> \in Range(MutateAll)
              /\ Trashing(i) => <<"hide", Source(i), i>> \in Range(MutateAll)
<1> DEFINE n == Len(InOrder)
           ss == [i \in 1..n |-> Mutate(InOrder[i])]
<1>0. Len(request) \in Nat /\ Operations = 1..Len(request) /\ Working \subseteq Operations BY PreviewIs DEF Working
<1>1. n \in Nat /\ Operations = 1..n /\ \A i \in 1..n : InOrder[i] = i BY <1>0 DEF InOrder
<1>2. MutateAll = FlattenSeq(ss) BY DEF MutateAll, Each
<1>3. ss \in [1..n -> Ordered(Step, Late)] /\ \A i \in 1..n : ss[i] = Mutate(i) BY <1>1, MutateFits
<1> HIDE DEF ss, n
<1>4. ASSUME NEW i \in 1..n, NEW j \in 1..n, i < j, NEW x \in Range(ss[i]), NEW y \in Range(ss[j])
      PROVE  <<x, y>> \notin Late
  <2>1. i \in Operations /\ j \in Operations /\ x \in Range(Mutate(i)) /\ y \in Range(Mutate(j)) BY <1>1, <1>3
  <2>2. /\ x \in Step /\ x[1] \in {"prepare", "publish", "link", "unlink", "hide"}
        /\ x[1] \in {"link", "unlink", "hide"} => i \in Working /\ x[2] = Source(i)
    BY <2>1, MutateFits
  <2>3. /\ y \in Step /\ y[1] \in {"prepare", "publish", "link", "unlink", "hide"}
        /\ y[1] \in {"link", "unlink", "hide"} => j \in Working /\ y[2] = Source(j)
        /\ y[1] = "publish" => j \in Working /\ y[3] = Target(j)
    BY <2>1, MutateFits
  <2>4. i \in Working /\ j \in Working => Source(i) # Source(j) /\ Source(i) # Target(j) BY <1>1, <1>4, PlainIs
  <2>5. ~Clash(x, y) BY <2>2, <2>3, <2>4 DEF Clash
  <2> QED BY <2>2, <2>3, <2>5, PairsAre
<1>5. FlattenSeq(ss) \in Ordered(Step, Late) BY <1>1, <1>3, <1>4, OrderedFlatten
<1>6. \A x : x \in Range(FlattenSeq(ss)) <=> \E i \in 1..n : x \in Range(ss[i])
  BY <1>3, <1>1, FlattenRange DEF Ordered
<1>7. ASSUME NEW x \in Range(FlattenSeq(ss))
      PROVE  x \in Step /\ Means(x) /\ x[1] \in {"prepare", "publish", "link", "unlink", "hide"}
  <2>1. PICK i \in 1..n : x \in Range(ss[i]) BY <1>6
  <2>2. i \in Operations /\ x \in Range(Mutate(i)) BY <1>1, <1>3, <2>1
  <2> QED BY <2>2, MutateFits
<1>8. ASSUME NEW i \in Working, ~IsMove
      PROVE  /\ Moving(i) => <<"link", Source(i), Target(i)>> \in Range(FlattenSeq(ss))
             /\ Trashing(i) => <<"hide", Source(i), i>> \in Range(FlattenSeq(ss))
  BY <1>0, <1>1, <1>3, <1>6, <1>8, MutateFits
<1> QED BY <1>2, <1>5, <1>7, <1>8

LEMMA RenameItFits ==
  ASSUME TypeOK, PreviewOK, Accepted, ~Chained, PlainOK
  PROVE  /\ RenameIt \in Ordered(Step, Late)
         /\ \A x \in Range(RenameIt) : x \in Step /\ Means(x) /\ x[1] \in {"compare", "publish", "link", "unlink"}
         /\ IsMove => <<"link", Source(1), Target(1)>> \in Range(RenameIt)
         /\ ~IsMove => RenameIt = <<>>
<1>1. CASE ~IsMove BY <1>1, ShortRange, ShortOrdered DEF RenameIt, When
<1>2. CASE IsMove
  <2> DEFINE s == move.source
             t == move.target
             A == When(SelfReferring, Rename(1, s))
             b == <<"compare", t, Nowhere>>
             c == <<"link", s, t>>
             d == <<"unlink", s>>
  <2>0. /\ request \in Requests /\ s = Source(1) /\ t = Target(1)
        /\ s \in Files \cap DOMAIN final /\ t \in Files \cap DOMAIN final /\ 1 \in Operations /\ 1 \in Stages
        /\ Working = {1} /\ Moving(1) /\ RunSteps \subseteq Step
    BY <1>2, PreviewIs, WorkingIs, IsRunStep, Distinct DEF TypeOK, Source, Target, move
  <2>1. RenameIt = (A \o <<b>>) \o <<c, d>> BY <1>2 DEF RenameIt, When, RenameNote, MoveFile
  <2>2. /\ b[1] = "compare" /\ c[1] = "link" /\ c[2] = s /\ c[3] = t /\ d[1] = "unlink" /\ d[2] = s
        /\ c = <<"link", Source(1), Target(1)>>
    BY <2>0
  <2>3. b \in Step /\ c \in Step /\ d \in Step BY <2>0, NodeIs, IsStep, Distinct
  <2>4. A \in Seq(Step) /\ \A x \in Range(A) : Means(x) /\ x[1] \in {"compare", "publish"}
    <3>1. CASE ~SelfReferring BY <3>1, ShortSeq, ShortRange DEF When
    <3>2. CASE SelfReferring
      <4> DEFINE u == <<"compare", s, disk[s]>>
                 v == <<"publish", 1, s>>
      <4>1. A = Rename(1, s) BY <3>2 DEF When
      <4>2. Rename(1, s) \in Seq(RunSteps) /\ Range(Rename(1, s)) = {u, v} BY <2>0, RenameIs
      <4>3. u[1] = "compare" /\ v[1] = "publish" /\ v[2] = 1 /\ v[3] = s OBVIOUS
      <4> HIDE DEF A, u, v, s, t
      <4>4. Means(u) /\ Means(v) BY <2>0, <3>2, <4>3 DEF Means
      <4> QED BY <2>0, <4>1, <4>2, <4>3, <4>4
    <3> QED BY <3>1, <3>2
  <2> HIDE DEF A, b, c, d, s, t
  <2>5. Means(b) /\ Means(c) /\ Means(d) BY <2>0, <2>2 DEF Means
  <2>6. <<b>> \in Seq(Step) /\ Range(<<b>>) = {b} /\ <<c, d>> \in Seq(Step) /\ Range(<<c, d>>) = {c, d}
    BY <2>3, ShortSeq, ShortRange
  <2>7. A \o <<b>> \in Seq(Step) /\ Range(A \o <<b>>) = Range(A) \cup {b} BY <2>4, <2>6, ConcatRange
  <2>8. \A x \in Range(A \o <<b>>) : x \in Step /\ Means(x) /\ x[1] \in {"compare", "publish"}
    BY <2>7, <2>2, <2>4, <2>5 DEF Range
  <2>9. \A x \in Range(A \o <<b>>), y \in Step : y[1] # "journal" => <<x, y>> \notin Late BY <2>8, PairsAre DEF Clash
  <2>10. A \o <<b>> \in Ordered(Step, Late) BY <2>7, <2>8, <2>9, AnyOrder
  <2>11. <<c, d>> \in Ordered(Step, Late) BY <2>2, <2>3, PairsAre, ShortOrdered DEF Clash
  <2>12. RenameIt \in Ordered(Step, Late) BY <2>1, <2>2, <2>3, <2>6, <2>9, <2>10, <2>11, OrderedConcat
  <2>13. Range(RenameIt) = Range(A \o <<b>>) \cup {c, d}
    <3> DEFINE X == A \o <<b>>
               Y == <<c, d>>
    <3>1. X \in Seq(Step) /\ Y \in Seq(Step) /\ RenameIt = X \o Y /\ Range(Y) = {c, d} BY <2>1, <2>6, <2>7
    <3> HIDE DEF X, Y
    <3>2. Range(X \o Y) = Range(X) \cup Range(Y) BY <3>1, ConcatRange
    <3> QED BY <3>1, <3>2 DEF X
  <2> QED BY <1>2, <2>2, <2>3, <2>5, <2>8, <2>12, <2>13
<1> QED BY <1>1, <1>2

\* The whole: what is staged is durable before it is published, a second name
\* comes before the first is removed, and after its bytes.
LEMMA ExecutionFits ==
  ASSUME TypeOK, PreviewOK, Accepted, ~Chained, PlainOK
  PROVE  /\ Execution \in Ordered(Step, Late)
         /\ \A x \in Range(Execution) : Means(x)
         /\ \A p \in Staged \cup NewDirectories : \E S \in SUBSET Paths : p \in S /\ <<"journal", S>> \in Range(Execution)
         /\ \A i \in Working :
              /\ Moving(i) => <<"link", Source(i), Target(i)>> \in Range(Execution)
              /\ Trashing(i) => <<"hide", Source(i), i>> \in Range(Execution)
              /\ SelfReferring => <<"publish", i, Source(i)>> \in Range(Execution)
<1> DEFINE E0 == << <<"save">> >>
           E1 == StageAll
           E2 == JournalStaged
           E3 == StageMoved
           E4 == MakeAll
           E5 == PublishAll
           E6 == MutateAll
           E7 == RenameIt
           X1 == E0 \o E1
           X2 == X1 \o E2
           X3 == X2 \o E3
           X4 == X3 \o E4
           X5 == X4 \o E5
           X6 == X5 \o E6
           X7 == X6 \o E7
           First == {"save", "prepare", "journal", "discard", "compare", "prepare-directory"}
           Kinds5 == First \cup {"publish-directory", "publish"}
<1>1. Execution = X7 BY DEF Execution, StageAll, JournalStaged, StageMoved, MakeAll, PublishAll, MutateAll, RenameIt
<1>2. /\ request \in Requests /\ RunSteps \subseteq Step
      /\ Staged \subseteq Notes \cap DOMAIN final /\ Staged \cap Operations = {} /\ Staged \in SUBSET Paths
  BY PreviewIs, IsRunStep, Distinct DEF TypeOK
<1>3. E0 \in Seq(Step) /\ \A x \in Range(E0) : x \in Step /\ Means(x) /\ x[1] \in First
  <2> DEFINE a == <<"save">>
  <2>1. a \in Step /\ a[1] = "save" BY IsStep
  <2>2. E0 \in Seq(Step) /\ Range(E0) = {a} BY <1>2, OnesAre
  <2> HIDE DEF a, E0
  <2> QED BY <2>1, <2>2 DEF Means
<1>4. E1 \in Seq(Step) /\ \A x \in Range(E1) : x \in Step /\ Means(x) /\ x[1] \in First
  <2>1. E1 \in Seq(Step) /\ \A x \in Range(E1) : \E p \in Staged : x = <<"prepare", p, final[p]>> BY <1>2, StageAllIs
  <2>2. ASSUME NEW x \in Range(E1) PROVE x \in Step /\ Means(x) /\ x[1] \in First
    <3>1. PICK p \in Staged : x = <<"prepare", p, final[p]>> BY <2>1
    <3>2. x[1] = "prepare" /\ x[2] = p /\ x[3] = final[p] BY <3>1
    <3>3. x \in Step BY <2>1 DEF Range
    <3> QED BY <3>2, <3>3 DEF Means, Content
  <2> QED BY <2>1, <2>2
<1>5. /\ E2 \in Seq(Step) /\ \A x \in Range(E2) : x \in Step /\ Means(x) /\ x[1] \in First
      /\ Staged # {} => <<"journal", Staged>> \in Range(E2)
  <2>1. E2 \in Seq(Step) /\ \A x \in Range(E2) : x[1] = "journal" BY <1>2, OnesAre
  <2>2. \A x \in Range(E2) : x \in Step /\ Means(x) /\ x[1] \in First BY <2>1 DEF Range, Means
  <2>3. Staged # {} => <<"journal", Staged>> \in Range(E2)
    <3> DEFINE a == <<"journal", Staged>>
    <3>1. Staged # {} => E2 = <<a>> BY DEF JournalStaged, When
    <3> HIDE DEF a, E2
    <3>2. Range(<<a>>) = {a} BY ShortRange
    <3> QED BY <3>1, <3>2 DEF a
  <2> QED BY <2>1, <2>2, <2>3
<1>6. E3 \in Seq(Step) /\ \A x \in Range(E3) : x \in Step /\ Means(x) /\ x[1] \in First
  <2>1. E3 \in Seq(Step) /\ \A x \in Range(E3) : x \in Step BY <1>2, OnesAre DEF Range
  <2>2. CASE ~SelfReferring BY <2>2, <2>1, ShortRange DEF StageMoved, When
  <2>3. CASE SelfReferring
    <3> DEFINE a == <<"discard", 1>>
               b == <<"prepare", 1, move.to>>
    <3>1. E3 = <<a, b>> /\ 1 \notin Staged BY <1>2, <2>3, WorkingIs DEF StageMoved, When
    <3>2. a[1] = "discard" /\ b[1] = "prepare" /\ b[2] = 1 /\ b[3] = request[1].to BY DEF move
    <3> HIDE DEF a, b, E3
    <3>3. Means(a) /\ Means(b) BY <3>1, <3>2 DEF Means, Content
    <3>4. Range(E3) = {a, b} BY <3>1, ShortRange
    <3> QED BY <2>1, <3>2, <3>3, <3>4
  <2> QED BY <2>2, <2>3
<1>7. /\ E4 \in Ordered(Step, Late) /\ E4 \in Seq(Step)
      /\ \A x \in Range(E4) : x \in Step /\ Means(x) /\ x[1] \in First \cup {"publish-directory"}
      /\ \A d \in NewDirectories : <<"journal", {d}>> \in Range(E4)
  <2>1. /\ E4 \in Ordered(Step, Late)
        /\ \A x \in Range(E4) : x[1] \in {"compare", "prepare-directory", "journal", "publish-directory"}
        /\ \A d \in NewDirectories : <<"journal", {d}>> \in Range(E4)
    BY MakeAllFits
  <2>2. E4 \in Seq(Step) /\ \A x \in Range(E4) : x \in Step BY <2>1 DEF Ordered, Range
  <2>3. \A x \in Range(E4) : Means(x) BY <2>1 DEF Means
  <2> QED BY <2>1, <2>2, <2>3
<1>8. E5 \in Seq(Step) /\ \A x \in Range(E5) : x \in Step /\ Means(x) /\ x[1] \in {"compare", "publish"}
  <2>1. E5 \in Seq(Step) /\ \A x \in Range(E5) : \E p \in Staged : x \in {<<"compare", p, disk[p]>>, <<"publish", p, p>>}
    BY <1>2, PublishAllIs
  <2>2. ASSUME NEW x \in Range(E5) PROVE x \in Step /\ Means(x) /\ x[1] \in {"compare", "publish"}
    <3>1. PICK p \in Staged : x = <<"compare", p, disk[p]>> \/ x = <<"publish", p, p>> BY <2>1
    <3>2. x[1] = "compare" \/ (x[1] = "publish" /\ x[2] = p /\ x[3] = p) BY <3>1
    <3>3. x \in Step BY <2>1 DEF Range
    <3> QED BY <3>2, <3>3 DEF Means
  <2> QED BY <2>1, <2>2
<1>9. /\ E6 \in Ordered(Step, Late) /\ E6 \in Seq(Step)
      /\ \A x \in Range(E6) : x \in Step /\ Means(x) /\ x[1] \in {"prepare", "publish", "link", "unlink", "hide"}
      /\ IsMove => Range(E6) = {}
  BY MutateAllFits, MutateAllIs DEF Ordered
<1>10. /\ E7 \in Ordered(Step, Late) /\ E7 \in Seq(Step)
       /\ \A x \in Range(E7) : x \in Step /\ Means(x) /\ x[1] \in {"compare", "publish", "link", "unlink"}
       /\ ~IsMove => E7 = <<>>
  BY RenameItFits DEF Ordered
<1>11. ASSUME NEW i \in Working
       PROVE  /\ Moving(i) => <<"link", Source(i), Target(i)>> \in Range(E6) \cup Range(E7)
              /\ Trashing(i) => <<"hide", Source(i), i>> \in Range(E6) \cup Range(E7)
              /\ SelfReferring => <<"publish", i, Source(i)>> \in Range(E6) \cup Range(E7)
  <2>1. CASE IsMove BY <1>2, <2>1, WorkingIs, RenameItFits, RenameItIs DEF Source, move
  <2>2. CASE ~IsMove BY <2>2, MutateAllFits DEF SelfReferring
  <2> QED BY <2>1, <2>2
<1>12. /\ \A x, y \in Step : x[1] \in First => <<x, y>> \notin Late
       /\ \A x, y \in Step : x[1] \in Kinds5 /\ y[1] # "journal" => <<x, y>> \notin Late
  BY PairsAre DEF Clash
<1> HIDE DEF E0, E1, E2, E3, E4, E5, E6, E7
<1>13. X1 \in Seq(Step) /\ Range(X1) = Range(E0) \cup Range(E1) BY <1>3, <1>4, ConcatRange
<1> HIDE DEF X1
<1>14. X2 \in Seq(Step) /\ Range(X2) = Range(X1) \cup Range(E2) BY <1>5, <1>13, ConcatRange
<1> HIDE DEF X2
<1>15. X3 \in Seq(Step) /\ Range(X3) = Range(X2) \cup Range(E3) BY <1>6, <1>14, ConcatRange
<1> HIDE DEF X3
<1>16. \A x \in Range(X3) : x \in Step /\ Means(x) /\ x[1] \in First BY <1>3, <1>4, <1>5, <1>6, <1>13, <1>14, <1>15
<1>17. X3 \in Ordered(Step, Late) BY <1>12, <1>15, <1>16, AnyOrder
<1>18. X4 \in Ordered(Step, Late) BY <1>7, <1>12, <1>16, <1>17, OrderedConcat
<1>19. X4 \in Seq(Step) /\ Range(X4) = Range(X3) \cup Range(E4) BY <1>7, <1>15, ConcatRange
<1> HIDE DEF X4
<1>20. \A x \in Range(X4) : x \in Step /\ Means(x) /\ x[1] \in Kinds5 BY <1>7, <1>16, <1>19
<1>21. E5 \in Ordered(Step, Late) BY <1>8, <1>12, AnyOrder
<1>22. X5 \in Ordered(Step, Late) BY <1>8, <1>12, <1>20, <1>18, <1>21, OrderedConcat
<1>23. X5 \in Seq(Step) /\ Range(X5) = Range(X4) \cup Range(E5) BY <1>8, <1>19, ConcatRange
<1> HIDE DEF X5
<1>24. \A x \in Range(X5) : x \in Step /\ Means(x) /\ x[1] \in Kinds5 BY <1>8, <1>20, <1>23
<1>25. X6 \in Ordered(Step, Late) BY <1>9, <1>12, <1>24, <1>22, OrderedConcat
<1>26. X6 \in Seq(Step) /\ Range(X6) = Range(X5) \cup Range(E6) BY <1>9, <1>23, ConcatRange
<1> HIDE DEF X6
<1>27. X7 \in Ordered(Step, Late) BY <1>9, <1>26, <1>10, <1>12, <1>24, ShortRange, <1>25, OrderedConcat
<1>28. Range(X7) = Range(X6) \cup Range(E7) BY <1>10, <1>26, ConcatRange
<1> HIDE DEF X7
<1>29. \A x \in Range(X7) : Means(x) BY <1>9, <1>10, <1>24, <1>26, <1>28
<1>30. Range(E2) \cup Range(E4) \cup Range(E6) \cup Range(E7) \subseteq Range(X7)
  BY <1>14, <1>15, <1>19, <1>23, <1>26, <1>28
<1>31. ASSUME NEW p \in Staged \cup NewDirectories
       PROVE  \E S \in SUBSET Paths : p \in S /\ <<"journal", S>> \in Range(X7)
  <2>1. CASE p \in Staged BY <1>5, <1>30, <2>1, <1>2
  <2>2. CASE p \in NewDirectories
    <3>1. <<"journal", {p}>> \in Range(X7) BY <1>7, <1>30, <2>2
    <3>2. p \in Paths BY <2>2, PreviewIs, Distinct
    <3> QED BY <3>1, <3>2
  <2> QED BY <2>1, <2>2
<1>32. ASSUME NEW i \in Working
       PROVE  /\ Moving(i) => <<"link", Source(i), Target(i)>> \in Range(X7)
              /\ Trashing(i) => <<"hide", Source(i), i>> \in Range(X7)
              /\ SelfReferring => <<"publish", i, Source(i)>> \in Range(X7)
  BY <1>11, <1>30
<1> QED BY <1>1, <1>27, <1>29, <1>31, <1>32

LEMMA ReadyMore ==
  ASSUME NEW x, NEW S, NEW T, S \subseteq T, Ready(x, S),
         x[1] = "publish-back" => <<"prepare-back", x[2], Kept(x[2])>> \in S
  PROVE  Ready(x, T) /\ (x[1] = "publish-back" => <<"prepare-back", x[2], Kept(x[2])>> \in T) BY DEF Ready

LEMMA FittingConcat ==
  ASSUME NEW s, NEW t, Fitting(s), Fitting(t), \A x \in Range(s), y \in Range(t) : ~Spoils(x, y)
  PROVE  Fitting(s \o t) /\ Range(s \o t) = Range(s) \cup Range(t)
<1>1. s \in Seq(Step) /\ t \in Seq(Step) /\ s \in Ordered(Step, Early) /\ t \in Ordered(Step, Early)
  BY DEF Fitting, Ordered
<1>2. Range(s) \subseteq Step /\ Range(t) \subseteq Step BY <1>1 DEF Range
<1>3. \A x \in Range(s), y \in Range(t) : <<x, y>> \notin Early BY <1>2, PairsAre
<1>4. s \o t \in Ordered(Step, Early) BY <1>1, <1>3, OrderedConcat
<1>5. Range(s \o t) = Range(s) \cup Range(t) BY <1>1, ConcatRange
<1>6. ASSUME NEW x \in Range(s) \cup Range(t)
      PROVE  /\ x[1] # "refuse" /\ Undoes(x) /\ Ready(x, Range(s) \cup Range(t))
             /\ x[1] = "publish-back" => <<"prepare-back", x[2], Kept(x[2])>> \in Range(s) \cup Range(t)
  BY ReadyMore DEF Fitting
<1> QED BY <1>4, <1>5, <1>6 DEF Fitting

LEMMA FittingFlatten ==
  ASSUME NEW n \in Nat, NEW ss, ss = [i \in 1..n |-> ss[i]], \A i \in 1..n : Fitting(ss[i]),
         \A i, j \in 1..n : i < j => \A x \in Range(ss[i]), y \in Range(ss[j]) : ~Spoils(x, y)
  PROVE  /\ Fitting(FlattenSeq(ss))
         /\ \A x : x \in Range(FlattenSeq(ss)) <=> \E i \in 1..n : x \in Range(ss[i])
<1>1. \A i \in 1..n : ss[i] \in Ordered(Step, Early) /\ ss[i] \in Seq(Step) BY DEF Fitting, Ordered
<1>2. \A i \in 1..n : Range(ss[i]) \subseteq Step BY <1>1 DEF Range
<1>3. ss \in [1..n -> Ordered(Step, Early)] /\ ss \in [1..n -> Seq(Step)] BY <1>1
<1>4. \A x : x \in Range(FlattenSeq(ss)) <=> \E i \in 1..n : x \in Range(ss[i]) BY <1>3, FlattenRange
<1>5. \A i, j \in 1..n : i < j => \A x \in Range(ss[i]), y \in Range(ss[j]) : <<x, y>> \notin Early BY <1>2, PairsAre
<1>6. FlattenSeq(ss) \in Ordered(Step, Early) BY <1>3, <1>5, OrderedFlatten
<1>7. ASSUME NEW x \in Range(FlattenSeq(ss))
      PROVE  /\ x[1] # "refuse" /\ Undoes(x) /\ Ready(x, Range(FlattenSeq(ss)))
             /\ x[1] = "publish-back" => <<"prepare-back", x[2], Kept(x[2])>> \in Range(FlattenSeq(ss))
  <2>1. PICK i \in 1..n : x \in Range(ss[i]) BY <1>4
  <2>2. Range(ss[i]) \subseteq Range(FlattenSeq(ss)) BY <1>4
  <2> QED BY <2>1, <2>2, ReadyMore DEF Fitting
<1> QED BY <1>4, <1>6, <1>7 DEF Fitting

LEMMA FittingShort ==
  /\ Fitting(<<>>)
  /\ \A x \in Step : x[1] \in {"discard", "drop"} => Fitting(<<x>>)
  /\ \A x \in Step : x[1] \notin {"refuse", "prepare-back", "publish-back"} /\ Undoes(x) /\ Ready(x, {}) => Fitting(<<x>>)
  /\ \A x, y \in Step :
       /\ ~Spoils(x, y)
       /\ x[1] \notin {"refuse", "prepare-back", "publish-back"} /\ y[1] \notin {"refuse", "prepare-back", "publish-back"}
       /\ Undoes(x) /\ Undoes(y) /\ Ready(x, {}) /\ Ready(y, {})
     => Fitting(<<x, y>>)
<1>1. ASSUME NEW x, x[1] \notin {"prepare-back", "publish-back"}, Ready(x, {}) PROVE \A S : Ready(x, S)
  BY <1>1 DEF Ready
<1>2. \A x : x[1] \in {"discard", "drop"} => Undoes(x) /\ Ready(x, {}) BY DEF Undoes, Ready
<1>3. Fitting(<<>>) BY ShortOrdered, ShortRange DEF Fitting
<1>4. ASSUME NEW x \in Step, x[1] \notin {"refuse", "prepare-back", "publish-back"}, Undoes(x), Ready(x, {})
      PROVE  Fitting(<<x>>) BY ShortOrdered, ShortRange, <1>1, <1>4 DEF Fitting
<1>5. ASSUME NEW x \in Step, NEW y \in Step, ~Spoils(x, y),
             x[1] \notin {"refuse", "prepare-back", "publish-back"}, y[1] \notin {"refuse", "prepare-back", "publish-back"},
             Undoes(x), Undoes(y), Ready(x, {}), Ready(y, {})
      PROVE  Fitting(<<x, y>>) BY <1>5, PairsAre, ShortOrdered, ShortRange, <1>1 DEF Fitting
<1>6. \A x \in Step : x[1] \in {"discard", "drop"} => Fitting(<<x>>) BY <1>2, <1>4
<1>7. \A x \in Step : x[1] \notin {"refuse", "prepare-back", "publish-back"} /\ Undoes(x) /\ Ready(x, {}) => Fitting(<<x>>)
  BY <1>4
<1> QED BY <1>3, <1>5, <1>6, <1>7

LEMMA PutBackFits ==
  ASSUME NEW k \in Stages, NEW p \in Files, Kept(k) \in Known,
         Undoes(<<"publish-back", k, p>>), NEW a \in Ordered(Step, Early), a \in {<<>>, << <<"discard", k>> >>},
         stage[k] \notin Bytes \/ a # <<>>
  PROVE  /\ Fitting(a \o PutBack(k, p, Kept(k)))
         /\ Range(a \o PutBack(k, p, Kept(k))) =
              Range(a) \cup {<<"prepare-back", k, Kept(k)>>, <<"publish-back", k, p>>}
<1> DEFINE x == <<"prepare-back", k, Kept(k)>>
           y == <<"publish-back", k, p>>
           d == <<"discard", k>>
<1>1. x \in Step /\ y \in Step /\ d \in Step /\ PutBack(k, p, Kept(k)) = <<x, y>> BY IsStep DEF PutBack
<1>2. /\ x[1] = "prepare-back" /\ x[2] = k /\ x[3] = Kept(k) /\ y[1] = "publish-back" /\ y[2] = k
      /\ d[1] = "discard" /\ d[2] = k /\ Undoes(y)
      /\ <<"prepare-back", y[2], Kept(y[2])>> = x /\ <<"discard", x[2]>> = d
  OBVIOUS
<1>3. a \in {<<>>, <<d>>} OBVIOUS
<1> HIDE DEF x, y, d
<1>4. <<x, y>> \notin Early BY <1>1, <1>2, PairsAre DEF Spoils
<1> DEFINE t == <<x, y>>
<1>5. t \in Ordered(Step, Early) /\ Range(t) = {x, y} /\ Range(<<>>) = {} /\ Range(<<d>>) = {d}
  BY <1>1, <1>4, ShortOrdered, ShortRange
<1> HIDE DEF t
<1>6. Range(a) \subseteq {d} /\ (a # <<>> => d \in Range(a)) BY <1>3, <1>5
<1>7. \A e \in Range(a), f \in Range(t) : <<e, f>> \notin Early
  <2>1. ~Spoils(d, x) /\ ~Spoils(d, y) BY <1>2 DEF Spoils
  <2> QED BY <1>1, <1>5, <1>6, <2>1, PairsAre
<1>8. a \o t \in Ordered(Step, Early) BY <1>5, <1>7, OrderedConcat
<1>9. Range(a \o t) = Range(a) \cup {x, y} BY <1>5, ConcatRange DEF Ordered
<1>10. ASSUME NEW z \in Range(a) \cup {x, y}
       PROVE  /\ z[1] # "refuse" /\ Undoes(z) /\ Ready(z, Range(a) \cup {x, y})
              /\ z[1] = "publish-back" => <<"prepare-back", z[2], Kept(z[2])>> \in Range(a) \cup {x, y}
  BY <1>2, <1>6 DEF Undoes, Ready
<1>11. Fitting(a \o t) BY <1>8, <1>9, <1>10 DEF Fitting
<1> QED BY <1>1, <1>9, <1>11 DEF x, y, t

\* What undoes an operation puts its paths back.
LEMMA UndoFits1 ==
  ASSUME TypeOK, PreviewOK, Accepted, ~Chained, PlainOK, LeftOK, ~IsMove, NEW i \in Operations
  PROVE  /\ Fitting(Undo(i))
         /\ \A x \in Range(Undo(i)) :
              /\ i \in Working /\ x[1] \in {"undo-copy", "link", "unlink", "unhide", "drop", "discard"}
              /\ x[1] \in {"undo-copy", "link", "unlink"} => x[2] = Target(i)
              /\ x[1] = "drop" => x[2] = i
              /\ x[1] = "unhide" => x[3] = i
         /\ i \in Working =>
              /\ \A p \in {Source(i), Target(i)} \ {None} :
                   Is(p, pre[p]) \/ \E x \in Range(Undo(i)) : Repairs(x, p)
              /\ Moving(i) /\ Is(Source(i), Absent) => <<"link", Target(i), Source(i)>> \in Range(Undo(i))
<1> DEFINE op == request[i]
           from == op.from
           src == op.source
           tgt == op.target
           cp == <<"undo-copy", tgt, from>>
           dc == <<"discard", i>>
           ln == <<"link", tgt, src>>
           un == <<"unlink", tgt>>
           uh == <<"unhide", src, i>>
           dr == <<"drop", i>>
<1>0. /\ request \in Requests /\ i \in Stages /\ src = Source(i) /\ tgt = Target(i)
      /\ ~SelfReferring /\ op.kind # "move"
  BY RequestIs DEF TypeOK, IsMove, move, Stages, Source, Target, SelfReferring
<1>1. /\ op.kind = "copy" <=> Copying(i)
      /\ op.kind = "move-attachment" <=> Moving(i)
      /\ op.kind = "trash" <=> Trashing(i)
      /\ i \in Working <=> Copying(i) \/ Moving(i) \/ Trashing(i)
  BY <1>0 DEF Copying, Moving, Trashing, Working
<1>2. ASSUME i \in Working
      PROVE  /\ src \in Files /\ src # None /\ from \in Known /\ from \in Bytes /\ from # Absent
             /\ Trashing(i) => tgt = None
             /\ Moving(i) \/ Copying(i) => tgt \in Files /\ tgt # None /\ op.to = from /\ pre[tgt] = Absent /\ tgt # src
             /\ pre[src] = from
             /\ Copying(i) => CopyLeft(i)
             /\ Moving(i) => MoveLeft(i)
             /\ Trashing(i) => TrashLeft(i)
  BY <1>0, <1>2, WorkingIs, PlainIs, Distinct DEF LeftOK
<1>3. /\ cp[1] = "undo-copy" /\ cp[2] = tgt /\ cp[3] = from /\ dc[1] = "discard" /\ ln[1] = "link" /\ ln[2] = tgt /\ ln[3] = src
      /\ un[1] = "unlink" /\ un[2] = tgt /\ uh[1] = "unhide" /\ uh[2] = src /\ uh[3] = i /\ dr[1] = "drop" /\ dr[2] = i
  OBVIOUS
<1>4. ln = <<"link", Target(i), Source(i)>> BY <1>0
<1>5. /\ dc \in Step /\ dr \in Step
      /\ i \in Working => uh \in Step
      /\ Moving(i) => ln \in Step /\ un \in Step
      /\ Copying(i) => cp \in Step
  BY <1>0, <1>1, <1>2, IsStep
<1> HIDE DEF cp, dc, ln, un, uh, dr
<1>6. CASE Copying(i)
  BY <1>1, <1>2, <1>6, <1>0, <1>3, <1>5, FittingShort, ShortRange DEF Undo, UndoCopy, CopyLeft, Is, cp, dc, Undoes,
     Ready, Spoils, Repairs
<1>7. CASE Moving(i)
  <2>1. MoveLeft(i) /\ i \in Working /\ op.kind = "move-attachment" /\ op.to = from BY <1>1, <1>2, <1>7
  <2>2. Undo(i) = UndoMoveAttachment(op) BY <2>1 DEF Undo
  <2>3. Undoes(ln) /\ Undoes(un) /\ ~Spoils(ln, un) BY <1>0, <1>3, <1>7, <2>1 DEF Undoes, Spoils
  <2>4. disk[tgt].is = from => Ready(un, {}) BY <1>2, <1>3, <2>1 DEF Ready, IsFile
  <2>5. disk[tgt].is = from /\ disk[src].is = Absent => Ready(ln, {}) BY <1>2, <1>3, <2>1 DEF Ready, IsFile, Is
  <2>6. Repairs(ln, src) /\ Repairs(un, tgt) BY <1>0, <1>3 DEF Repairs
  <2>7. CASE disk[src].is = from /\ disk[tgt].is = Absent
    BY <1>2, <2>1, <2>2, <2>7, FittingShort, ShortRange, <1>0, <1>7 DEF UndoMoveAttachment, Is
  <2>8. CASE disk[src].is = Absent /\ disk[tgt].is = from
    <3>1. Undo(i) = <<ln, un>> BY <1>2, <2>1, <2>2, <2>8 DEF UndoMoveAttachment, MoveFile, Is, ln, un
    <3>2. Fitting(<<ln, un>>) /\ Range(<<ln, un>>) = {ln, un}
      BY <1>3, <1>5, <1>7, <2>3, <2>4, <2>5, <2>8, FittingShort, ShortRange
    <3> QED BY <1>0, <1>3, <1>4, <2>1, <2>6, <3>1, <3>2
  <2>9. CASE disk[src].is = from /\ disk[tgt].is = from
    <3>1. Undo(i) = <<un>> BY <1>2, <2>1, <2>2, <2>9 DEF UndoMoveAttachment, Is, un
    <3>2. Fitting(<<un>>) /\ Range(<<un>>) = {un} BY <1>3, <1>5, <1>7, <2>3, <2>4, <2>9, FittingShort, ShortRange
    <3> QED BY <1>0, <1>2, <1>3, <2>1, <2>6, <2>9, <3>1, <3>2 DEF Is
  <2> QED BY <1>0, <2>1, <2>7, <2>8, <2>9 DEF MoveLeft, Is
<1>8. CASE Trashing(i)
  <2>1. TrashLeft(i) /\ i \in Working /\ op.kind = "trash" /\ ~Moving(i) BY <1>0, <1>1, <1>2, <1>8, WorkingIs
  <2>2. Undo(i) = UndoTrash(op, i) /\ (trash[i] = Nowhere => trash[i].is = Absent) BY <2>1 DEF Undo, Nowhere, At
  <2>3. Undoes(uh) /\ ~Spoils(uh, dr) BY <1>0, <1>3, <1>8 DEF Undoes, Spoils
  <2>4. disk[src].is = Absent /\ trash[i].is = from => Ready(uh, {}) BY <1>3 DEF Ready, Is
  <2>5. Repairs(uh, src) /\ Undoes(dr) /\ Ready(dr, {}) BY <1>3 DEF Repairs, Undoes, Ready
  <2>6. CASE disk[src].is = Absent /\ trash[i].is = from
    <3>1. Undo(i) = <<uh, dr>> BY <1>2, <2>1, <2>2, <2>6 DEF UndoTrash, Is, uh, dr
    <3>2. Fitting(<<uh, dr>>) /\ Range(<<uh, dr>>) = {uh, dr}
      BY <1>3, <1>5, <2>1, <2>3, <2>4, <2>5, <2>6, FittingShort, ShortRange
    <3> QED BY <1>0, <1>2, <1>3, <1>8, <2>1, <2>5, <3>1, <3>2
  <2>7. CASE disk[src].is = from
    <3>1. Undo(i) \in {<<>>, <<dr>>} BY <1>2, <2>1, <2>2, <2>7, <1>0 DEF UndoTrash, Is, dr, TrashLeft
    <3>2. Fitting(Undo(i)) /\ Range(Undo(i)) \subseteq {dr} BY <1>3, <1>5, <3>1, FittingShort, ShortRange
    <3> QED BY <1>0, <1>2, <1>3, <1>8, <2>1, <2>7, <3>2 DEF Is
  <2> QED BY <1>0, <2>1, <2>6, <2>7 DEF TrashLeft, Is
<1>9. CASE i \notin Working BY <1>1, <1>9, ShortRange, FittingShort DEF Undo
<1> QED BY <1>1, <1>6, <1>7, <1>8, <1>9

LEMMA UndoAllFits ==
  ASSUME TypeOK, PreviewOK, Accepted, ~Chained, PlainOK, LeftOK
  PROVE  /\ Fitting(UndoAll)
         /\ \A x \in Range(UndoAll) : Outer(x) /\ ~IsMove
         /\ ~IsMove => \A i \in Working :
              /\ \A p \in {Source(i), Target(i)} \ {None} :
                   Is(p, pre[p]) \/ \E x \in Range(UndoAll) : Repairs(x, p)
              /\ Moving(i) /\ Is(Source(i), Absent) => <<"link", Target(i), Source(i)>> \in Range(UndoAll)
<1> DEFINE s == Reverse(InOrder)
           n == Len(s)
           ss == [j \in 1..n |-> Undo(s[j])]
<1>0. /\ request \in Requests /\ Len(request) \in Nat /\ Operations = 1..Len(request)
      /\ IsMove => Operations = {1} /\ request[1].kind = "move"
  BY PreviewIs DEF TypeOK, IsMove, move
<1>1. InOrder \in Seq(Operations) /\ Len(InOrder) = Len(request) /\ \A i \in Operations : InOrder[i] = i
  BY <1>0, FunctionIsSeq DEF InOrder
<1>2. /\ s \in Seq(Operations) /\ Len(s) = Len(request) /\ DOMAIN s = Operations
      /\ \A j \in Operations : s[j] = (Len(request) - j) + 1
  <2>1. /\ s \in Seq(Operations) /\ Len(s) = Len(InOrder)
        /\ \A j \in 1..Len(InOrder) : s[j] = InOrder[(Len(InOrder) - j) + 1]
    BY <1>1, ReverseIs
  <2> HIDE DEF s
  <2>2. DOMAIN s = Operations BY <1>0, <1>1, <2>1, LenProperties
  <2>3. ASSUME NEW j \in Operations PROVE s[j] = (Len(request) - j) + 1
    <3>1. (Len(request) - j) + 1 \in Operations BY <1>0
    <3> QED BY <1>1, <2>1, <2>2, <3>1
  <2> QED BY <1>1, <2>1, <2>2, <2>3
<1>3. UndoAll = FlattenSeq(ss) BY DEF UndoAll, Each
<1> HIDE DEF s
<1>4. n \in Nat /\ 1..n = Operations /\ (\A j \in 1..n : s[j] \in Operations)
      /\ (\A i \in Operations : \E j \in 1..n : s[j] = i) /\ \A i, j \in 1..n : i < j => s[i] # s[j]
  <2>1. n = Len(request) BY <1>2
  <2>2. \A i \in Operations : (Len(request) - i) + 1 \in Operations /\ (Len(request) - ((Len(request) - i) + 1)) + 1 = i
    BY <1>0
  <2>3. \A i, j \in Operations : i < j => (Len(request) - i) + 1 # (Len(request) - j) + 1 BY <1>0
  <2>4. \A j \in Operations : s[j] = (Len(request) - j) + 1 BY <1>2
  <2>5. \A i \in Operations : \E j \in Operations : s[j] = i BY <2>2, <2>4
  <2>6. \A i, j \in Operations : i < j => s[i] # s[j] BY <2>3, <2>4
  <2>7. \A j \in Operations : s[j] \in Operations BY <2>2, <2>4
  <2> QED BY <1>0, <2>1, <2>5, <2>6, <2>7
<1> HIDE DEF n
<1>5. ss = [j \in 1..n |-> ss[j]] /\ \A j \in 1..n : ss[j] = Undo(s[j]) OBVIOUS
<1> HIDE DEF ss
<1>6. CASE ~IsMove
  <2>1. ASSUME NEW j \in 1..n
        PROVE  /\ Fitting(ss[j])
               /\ \A x \in Range(ss[j]) :
                    /\ s[j] \in Working /\ x[1] \in {"undo-copy", "link", "unlink", "unhide", "drop", "discard"}
                    /\ x[1] \in {"undo-copy", "link", "unlink"} => x[2] = Target(s[j])
                    /\ x[1] = "drop" => x[2] = s[j]
                    /\ x[1] = "unhide" => x[3] = s[j]
    <3>1. ss[j] = Undo(s[j]) /\ s[j] \in Operations BY <1>4, <1>5
    <3> QED BY <1>6, <3>1, UndoFits1
  <2>2. ASSUME NEW i \in 1..n, NEW j \in 1..n, i < j, NEW x \in Range(ss[i]), NEW y \in Range(ss[j])
        PROVE  ~Spoils(x, y)
    <3>1. s[i] \in Working /\ s[j] \in Working /\ s[i] # s[j] BY <1>4, <2>1, <2>2
    <3>2. Target(s[i]) # None => Target(s[i]) # Target(s[j]) BY <3>1, PlainIs
    <3>3. x[1] \in {"undo-copy", "link", "unlink"} => Target(s[i]) # None
      <4>1. Undoes(x) /\ request \in Requests BY <1>0, <2>1 DEF Fitting
      <4>2. \A k \in Working : Moving(k) \/ Copying(k) => Target(k) # None BY <4>1, WorkingIs
      <4>3. \A p \in Staged : p # None BY PreviewIs, Distinct
      <4> QED BY <2>1, <4>1, <4>2, <4>3 DEF Undoes
    <3> QED BY <2>1, <3>1, <3>2, <3>3 DEF Spoils
  <2>3. Fitting(UndoAll) /\ \A x : x \in Range(UndoAll) <=> \E j \in 1..n : x \in Range(ss[j])
    BY <1>3, <1>4, <1>5, <2>1, <2>2, FittingFlatten
  <2>4. ASSUME NEW x \in Range(UndoAll) PROVE Outer(x)
    <3>1. PICK j \in 1..n : x \in Range(ss[j]) BY <2>3
    <3>2. Target(s[j]) \notin Staged BY <2>1, <3>1, PreviewIs, Distinct, PlainIs
    <3> QED BY <2>1, <3>1, <3>2 DEF Outer
  <2>5. ASSUME NEW i \in Working
        PROVE  /\ \A p \in {Source(i), Target(i)} \ {None} :
                    Is(p, pre[p]) \/ \E x \in Range(UndoAll) : Repairs(x, p)
               /\ Moving(i) /\ Is(Source(i), Absent) => <<"link", Target(i), Source(i)>> \in Range(UndoAll)
    <3>1. PICK j \in 1..n : s[j] = i BY <1>4 DEF Working
    <3>2. i \in Operations /\ ss[j] = Undo(i) BY <1>5, <3>1 DEF Working
    <3>3. Range(Undo(i)) \subseteq Range(UndoAll) BY <2>3, <3>2
    <3> QED BY <1>6, <3>2, <3>3, UndoFits1
  <2> QED BY <1>6, <2>3, <2>4, <2>5
<1>7. CASE IsMove BY <1>0, <1>4, <1>7, <1>5, FittingShort, ShortRange, <1>3, FittingFlatten DEF Undo
<1> QED BY <1>6, <1>7

\* A renamed note comes back.
LEMMA RenameBackFits ==
  ASSUME TypeOK, PreviewOK, Accepted, ~Chained, PlainOK, LeftOK
  PROVE  /\ Fitting(RenameBack)
         /\ \A x \in Range(RenameBack) : Outer(x)
         /\ IsMove => \A i \in Working :
              /\ \A p \in {Source(i), Target(i)} \ {None} :
                   Is(p, pre[p]) \/ \E x \in Range(RenameBack) : Repairs(x, p)
              /\ Moving(i) /\ Is(Source(i), Absent) => <<"link", Target(i), Source(i)>> \in Range(RenameBack)
<1>1. CASE ~IsMove BY <1>1, ShortRange, FittingShort DEF RenameBack, When
<1>2. CASE IsMove
  <2> DEFINE s == move.source
             t == move.target
             from == move.from
             to == move.to
             d == <<"discard", 1>>
             l == <<"link", t, s>>
             u == <<"unlink", t>>
             x == <<"prepare-back", 1, from>>
             y == <<"publish-back", 1, s>>
             again == disk[s].is # from /\ SelfReferring
             content == <<d>> \o When(again, PutBack(1, s, from))
             first == IF disk[t].is = Absent THEN <<>> ELSE IF disk[s].is = Absent THEN <<l, u>> ELSE <<u>>
  <2>0. /\ request \in Requests /\ Working = {1} /\ 1 \in Operations /\ 1 \in Stages /\ s = Source(1) /\ t = Target(1)
        /\ Moving(1) /\ s \in Files /\ t \in Files /\ s # t /\ pre[s] = from /\ pre[t] = Absent
        /\ s \notin Staged /\ t \notin Staged /\ 1 \notin Staged /\ MoveLeft(1)
        /\ from \in Known /\ to \in Known /\ from \in Bytes /\ to \in Bytes /\ Absent \notin Bytes
        /\ SelfReferring <=> from # to
    BY <1>2, WorkingIs, PreviewIs, Distinct, PlainIs DEF TypeOK, Source, Target, move, SelfReferring, LeftOK
  <2>1. (disk[s].is \in {from, to} /\ disk[t].is \in {Absent, to}) \/ (disk[s].is = Absent /\ disk[t].is = to)
    BY <2>0 DEF MoveLeft, Is, move
  <2>2. UndoRename = first \o content
    <3>1. UndoRename =
            CASE disk[t].is = Absent /\ disk[s].is \in {from, to} -> content
              [] disk[t].is = to /\ disk[s].is = Absent -> <<l, u>> \o content
              [] disk[t].is = to /\ disk[s].is \in {from, to} -> <<u>> \o content
              [] OTHER -> Refused BY DEF UndoRename, Is, MoveFile
    <3>2. content \in Seq(Step) BY <2>0, IsStep, ShortSeq, ConcatRange DEF PutBack, When
    <3> HIDE DEF content, l, u
    <3>3. <<>> \o content = content BY <3>2
    <3> QED BY <2>0, <2>1, <3>1, <3>3
  <2>3. /\ d[1] = "discard" /\ d[2] = 1 /\ l[1] = "link" /\ l[2] = t /\ l[3] = s /\ u[1] = "unlink" /\ u[2] = t
        /\ x[1] = "prepare-back" /\ x[2] = 1 /\ y[1] = "publish-back" /\ y[2] = 1 /\ y[3] = s
    OBVIOUS
  <2>4. d \in Step /\ l \in Step /\ u \in Step /\ l = <<"link", Target(1), Source(1)>> BY <2>0, IsStep
  <2>5. Kept(1) = from BY <2>0 DEF Kept, move
  <2>6. Fitting(content) /\ Range(content) = {d} \cup (IF again THEN {x, y} ELSE {})
    <3>1. <<d>> \in Ordered(Step, Early) /\ Range(<<d>>) = {d} /\ Fitting(<<d>>)
      BY <2>3, <2>4, ShortOrdered, ShortRange, FittingShort
    <3>2. CASE again
      <4>1. Undoes(<<"publish-back", 1, s>>) BY <2>0, <3>2 DEF Undoes
      <4> DEFINE a == << <<"discard", 1>> >>
      <4>2. content = a \o PutBack(1, s, Kept(1)) BY <2>5, <3>2 DEF When
      <4>3. a # <<>> /\ a \in Ordered(Step, Early) /\ Range(a) = {<<"discard", 1>>} BY <3>1
      <4>4. a \in {<<>>, << <<"discard", 1>> >>} OBVIOUS
      <4> HIDE DEF a
      <4>5. /\ Fitting(a \o PutBack(1, s, Kept(1)))
            /\ Range(a \o PutBack(1, s, Kept(1))) = Range(a) \cup {<<"prepare-back", 1, Kept(1)>>, <<"publish-back", 1, s>>}
        BY <2>0, <2>5, <4>1, <4>3, <4>4, PutBackFits
      <4> QED BY <2>5, <3>2, <4>2, <4>3, <4>5
    <3>3. CASE ~again
      <4>1. content = <<d>> \o <<>> BY <3>3 DEF When
      <4>3. \A q \in Seq(Step) : q \o <<>> = q OBVIOUS
      <4>2. <<d>> \in Seq(Step) BY <3>1 DEF Ordered
      <4> HIDE DEF content, d
      <4> QED BY <3>1, <3>3, <4>1, <4>2, <4>3
    <3> QED BY <3>2, <3>3
  <2> HIDE DEF content, l, u, d, x, y
  <2>7. /\ Fitting(first)
        /\ Range(first) = IF disk[t].is = Absent THEN {} ELSE IF disk[s].is = Absent THEN {l, u} ELSE {u}
    BY <2>0, <2>3, <2>1, <2>4, FittingShort, ShortRange DEF Undoes, Spoils, Ready, IsFile, Is
  <2>8. \A e \in Range(first), f \in Range(content) : ~Spoils(e, f) BY <2>3, <2>6, <2>7 DEF Spoils
  <2> HIDE DEF first
  <2>9. Fitting(RenameBack) /\ Range(RenameBack) = Range(first) \cup Range(content)
    BY <1>2, <2>2, <2>6, <2>7, <2>8, FittingConcat DEF RenameBack, When
  <2>10. \A e \in Range(RenameBack) : Outer(e) BY <2>0, <2>3, <2>6, <2>7, <2>9 DEF Outer
  <2>11. disk[s].is = from \/ \E e \in Range(RenameBack) : Repairs(e, s)
    BY <2>3, <2>6, <2>9, <2>0, <2>1, <2>7 DEF Repairs
  <2>12. disk[t].is = Absent \/ \E e \in Range(RenameBack) : Repairs(e, t) BY <2>7, <2>9, <2>3 DEF Repairs
  <2>13. disk[s].is = Absent => l \in Range(RenameBack) BY <2>0, <2>1, <2>7, <2>9
  <2> QED BY <2>0, <2>4, <2>9, <2>10, <2>11, <2>12, <2>13 DEF Is
<1> QED BY <1>1, <1>2

\* Each staged note comes back.
LEMMA RestoreFile1 ==
  ASSUME TypeOK, PreviewOK, Accepted, NodesOK, LeftOK, journal.known \subseteq known, NEW p \in Staged
  PROVE  /\ Fitting(RestoreFile(p))
         /\ \A x \in Range(RestoreFile(p)) :
              x[1] \in {"discard", "unlink", "prepare-back", "publish-back"} /\ x[2] = p
         /\ Is(p, pre[p]) \/ \E x \in Range(RestoreFile(p)) : Repairs(x, p)
<1> DEFINE d == <<"discard", p>>
           u == <<"unlink", p>>
<1>0. /\ p \in Files /\ p \in Stages /\ p \in Paths /\ final[p] \in Known /\ final[p] \in Bytes /\ pre[p] \in Known \cup {Absent}
      /\ Kept(p) = pre[p] /\ StagedLeft(p)
  BY PreviewIs, Distinct DEF Kept, LeftOK
<1>1. d[1] = "discard" /\ d[2] = p /\ u[1] = "unlink" /\ u[2] = p /\ d \in Step /\ u \in Step BY <1>0, IsStep
<1>2. CASE disk[p].is = pre[p]
  <2>1. RestoreFile(p) = <<d>> BY <1>2 DEF RestoreFile, Is
  <2> HIDE DEF d
  <2>2. Fitting(<<d>>) /\ Range(<<d>>) = {d} BY <1>1, FittingShort, ShortRange
  <2> QED BY <1>1, <1>2, <2>1, <2>2 DEF Is
<1>3. CASE disk[p].is # pre[p]
  <2>1. p \in known /\ disk[p] = At(final[p], <<"staged", p>>) BY <1>0, <1>3 DEF StagedLeft, Is
  <2>2. disk[p].is = final[p] /\ disk[p].node = <<"staged", p>> BY <2>1 DEF At
  <2>3. stage[p] \notin Bytes BY <1>0, <2>2 DEF NodesOK, Visible
  <2>4. CASE pre[p] = Absent
    <3>1. RestoreFile(p) = <<u>> BY <1>3, <2>1, <2>4 DEF RestoreFile, Is
    <3>2. Undoes(u) /\ Ready(u, {}) /\ Repairs(u, p) BY <1>0, <1>1, <2>2, <2>4 DEF Undoes, Ready, IsFile, Repairs
    <3> HIDE DEF u
    <3>3. Fitting(<<u>>) /\ Range(<<u>>) = {u} BY <1>1, <3>2, FittingShort, ShortRange
    <3> QED BY <1>1, <3>1, <3>2, <3>3
  <2>5. CASE pre[p] # Absent
    <3> DEFINE x == <<"prepare-back", p, pre[p]>>
               y == <<"publish-back", p, p>>
    <3>1. RestoreFile(p) = PutBack(p, p, pre[p]) /\ PutBack(p, p, pre[p]) = <<x, y>>
      BY <1>3, <2>1, <2>5 DEF RestoreFile, Is, PutBack
    <3>2. /\ x[1] = "prepare-back" /\ x[2] = p /\ x[3] = pre[p] /\ y[1] = "publish-back" /\ y[2] = p /\ y[3] = p
          /\ x \in Step /\ y \in Step
      BY <1>0, <2>5, IsStep
    <3>3. Undoes(x) /\ Undoes(y) /\ Repairs(y, p) /\ ~Spoils(x, y) /\ <<"prepare-back", y[2], Kept(y[2])>> = x
      BY <1>0, <2>5, <3>2 DEF Undoes, Repairs, Spoils
    <3>4. \A S : Ready(x, S) /\ (x \in S => Ready(y, S)) BY <2>3, <3>2, <3>3 DEF Ready
    <3> HIDE DEF x, y
    <3>5. <<x, y>> \in Ordered(Step, Early) /\ Range(<<x, y>>) = {x, y}
      BY <3>2, <3>3, PairsAre, ShortOrdered, ShortRange
    <3>6. Fitting(<<x, y>>) BY <3>2, <3>3, <3>4, <3>5 DEF Fitting
    <3> QED BY <3>1, <3>2, <3>3, <3>5, <3>6
  <2> QED BY <2>4, <2>5
<1> QED BY <1>2, <1>3

LEMMA RestoreFilesFit ==
  ASSUME TypeOK, PreviewOK, Accepted, NodesOK, LeftOK, journal.known \subseteq known
  PROVE  /\ Fitting(RestoreFiles)
         /\ \A x \in Range(RestoreFiles) :
              x[1] \in {"discard", "unlink", "prepare-back", "publish-back"} /\ x[2] \in Staged
         /\ \A p \in Staged : Is(p, pre[p]) \/ \E x \in Range(RestoreFiles) : Repairs(x, p)
<1> DEFINE q == SetToSeq(Staged)
           s == Reverse(q)
           n == Len(s)
           ss == [j \in 1..n |-> RestoreFile(s[j])]
<1>1. q \in Seq(Staged) /\ Range(q) = Staged /\ Len(q) \in Nat /\ \A i, j \in 1..Len(q) : q[i] = q[j] => i = j
  BY PreviewIs, ListIs
<1> HIDE DEF q
<1>2. /\ s \in Seq(Staged) /\ Len(s) = Len(q) /\ Range(s) = Staged
      /\ \A i \in 1..Len(q) : (Len(q) - i) + 1 \in 1..Len(q) /\ s[i] = q[(Len(q) - i) + 1]
  BY <1>1, ReverseIs
<1>3. RestoreFiles = FlattenSeq(ss) BY DEF RestoreFiles, Each, q
<1> HIDE DEF s
<1>4. n \in Nat /\ DOMAIN s = 1..n /\ (\A j \in 1..n : s[j] \in Staged) /\ \A i, j \in 1..n : i < j => s[i] # s[j]
  <2>1. n = Len(q) /\ n \in Nat /\ DOMAIN s = 1..n /\ \A j \in 1..n : s[j] \in Staged
    BY <1>2, LenProperties, ElementOfSeq
  <2>2. ASSUME NEW i \in 1..n, NEW j \in 1..n, i < j PROVE s[i] # s[j] BY <2>2, <1>1, <1>2, <2>1
  <2> QED BY <2>1, <2>2
<1> HIDE DEF n
<1>5. ss = [j \in 1..n |-> ss[j]] /\ \A j \in 1..n : ss[j] = RestoreFile(s[j]) OBVIOUS
<1> HIDE DEF ss
<1>6. ASSUME NEW j \in 1..n
      PROVE  /\ Fitting(ss[j])
             /\ \A x \in Range(ss[j]) : x[1] \in {"discard", "unlink", "prepare-back", "publish-back"} /\ x[2] = s[j]
             /\ Is(s[j], pre[s[j]]) \/ \E x \in Range(ss[j]) : Repairs(x, s[j])
  BY <1>4, <1>5, RestoreFile1
<1>7. ASSUME NEW i \in 1..n, NEW j \in 1..n, i < j, NEW x \in Range(ss[i]), NEW y \in Range(ss[j]) PROVE ~Spoils(x, y)
  BY <1>4, <1>7, <1>6 DEF Spoils
<1>8. Fitting(RestoreFiles) /\ \A x : x \in Range(RestoreFiles) <=> \E j \in 1..n : x \in Range(ss[j])
  BY <1>3, <1>4, <1>5, <1>6, <1>7, FittingFlatten
<1>9. ASSUME NEW p \in Staged PROVE Is(p, pre[p]) \/ \E x \in Range(RestoreFiles) : Repairs(x, p)
  <2>1. PICK j \in 1..n : s[j] = p BY <1>2, <1>4 DEF Range
  <2> QED BY <1>6, <1>8, <2>1
<1> QED BY <1>4, <1>6, <1>8, <1>9

\* The directories that were made go, from the bottom.
LEMMA RestoreDirectoriesFit ==
  ASSUME TypeOK, PreviewOK, Accepted, LeftOK, journal.known \subseteq known
  PROVE  /\ Fitting(RestoreDirectories)
         /\ \A x \in Range(RestoreDirectories) : x[1] \in {"discard", "remove-directory"} /\ x[2] \in Directories
         /\ \A d \in NewDirectories : Is(d, Absent) \/ <<"remove-directory", d>> \in Range(RestoreDirectories)
<1> DEFINE q == ByDepth(NewDirectories)
           s == Reverse(q)
           n == Len(s)
           ss == [j \in 1..n |-> RestoreDirectory(s[j])]
<1>0. NewDirectories \in SUBSET Directories BY PreviewIs
<1>1. q \in Seq(NewDirectories) /\ NewDirectories \subseteq Range(q) /\ q \in Ordered(Directories, Upward)
  BY <1>0, ByDepthIs, ByDepthOrdered
<1> HIDE DEF q
<1>2. /\ s \in Seq(NewDirectories) /\ Len(s) = Len(q) /\ Range(s) = Range(q)
      /\ \A i \in 1..Len(q) : (Len(q) - i) + 1 \in 1..Len(q) /\ s[i] = q[(Len(q) - i) + 1]
  BY <1>1, ReverseIs
<1>3. RestoreDirectories = FlattenSeq(ss) BY DEF RestoreDirectories, Each, q
<1> HIDE DEF s
<1>4. /\ n \in Nat /\ DOMAIN s = 1..n /\ \A j \in 1..n : s[j] \in NewDirectories
      /\ \A i, j \in 1..n : i < j => s[i] \notin Above[s[j]] \cup {s[j]}
  <2>1. n = Len(q) /\ n \in Nat /\ DOMAIN s = 1..n /\ (\A j \in 1..n : s[j] \in NewDirectories) /\ DOMAIN q = 1..n
    BY <1>1, <1>2, LenProperties, ElementOfSeq
  <2>2. ASSUME NEW i \in 1..n, NEW j \in 1..n, i < j PROVE s[i] \notin Above[s[j]] \cup {s[j]}
    <3> DEFINE k == (n - i) + 1
               l == (n - j) + 1
    <3>1. l < k /\ l \in 1..n /\ k \in 1..n /\ s[i] = q[k] /\ s[j] = q[l] BY <1>2, <2>1, <2>2
    <3> HIDE DEF k, l
    <3>2. <<q[l], q[k]>> \notin Upward BY <1>1, <2>1, <3>1 DEF Ordered
    <3>3. s[i] \in Directories /\ s[j] \in Directories BY <1>0, <2>1
    <3> QED BY <3>1, <3>2, <3>3 DEF Upward
  <2> QED BY <2>1, <2>2
<1> HIDE DEF n
<1>5. ss = [j \in 1..n |-> ss[j]] /\ \A j \in 1..n : ss[j] = RestoreDirectory(s[j]) OBVIOUS
<1> HIDE DEF ss
<1>6. ASSUME NEW j \in 1..n
      PROVE  /\ Fitting(ss[j])
             /\ \A x \in Range(ss[j]) : x[1] \in {"discard", "remove-directory"} /\ x[2] = s[j]
             /\ Is(s[j], Absent) \/ <<"remove-directory", s[j]>> \in Range(ss[j])
  <2> DEFINE e == s[j]
             d == <<"discard", e>>
             r == <<"remove-directory", e>>
  <2>0. e \in NewDirectories /\ e \in Directories /\ e \in Stages /\ ss[j] = RestoreDirectory(e) /\ DirectoryLeft(e) /\ Dir # Absent
    BY <1>0, <1>4, <1>5, Distinct DEF LeftOK, Stages
  <2> HIDE DEF e
  <2>1. d[1] = "discard" /\ d[2] = e /\ r[1] = "remove-directory" /\ r[2] = e /\ d \in Step /\ r \in Step
    BY <2>0, IsStep
  <2>2. CASE disk[e].is = Absent
    <3>1. ss[j] = <<d>> BY <2>0, <2>2 DEF RestoreDirectory, Is, At
    <3> HIDE DEF d
    <3>2. Fitting(<<d>>) /\ Range(<<d>>) = {d} BY <2>1, FittingShort, ShortRange
    <3> QED BY <2>1, <2>2, <3>1, <3>2 DEF Is, e
  <2>3. CASE disk[e].is # Absent
    <3>1. e \in known /\ disk[e] = At(Dir, <<"staged", e>>) BY <2>0, <2>3 DEF DirectoryLeft, Is
    <3>2. ss[j] = <<r>> /\ disk[e].is = Dir BY <2>0, <2>3, <3>1 DEF RestoreDirectory, Is, At
    <3>3. Undoes(r) /\ Ready(r, {}) BY <2>1, <3>2 DEF Undoes, Ready, Is
    <3>4. r = <<"remove-directory", s[j]>> BY DEF e
    <3> HIDE DEF r
    <3>5. Fitting(<<r>>) /\ Range(<<r>>) = {r} BY <2>1, <3>3, FittingShort, ShortRange
    <3>6. Fitting(ss[j]) /\ r \in Range(ss[j]) /\ \A x \in Range(ss[j]) : x = r BY <3>2, <3>5
    <3> QED BY <2>1, <3>4, <3>6 DEF e
  <2> QED BY <2>2, <2>3
<1>7. ASSUME NEW i \in 1..n, NEW j \in 1..n, i < j, NEW x \in Range(ss[i]), NEW y \in Range(ss[j]) PROVE ~Spoils(x, y)
  <2>1. s[i] \notin Above[s[j]] \cup {s[j]} BY <1>4, <1>7
  <2> QED BY <1>6, <2>1 DEF Spoils
<1>8. Fitting(RestoreDirectories) /\ \A x : x \in Range(RestoreDirectories) <=> \E j \in 1..n : x \in Range(ss[j])
  BY <1>3, <1>4, <1>5, <1>6, <1>7, FittingFlatten
<1>9. ASSUME NEW d \in NewDirectories PROVE Is(d, Absent) \/ <<"remove-directory", d>> \in Range(RestoreDirectories)
  <2>1. PICK j \in 1..n : s[j] = d BY <1>1, <1>2, <1>4 DEF Range
  <2> QED BY <1>6, <1>8, <2>1
<1>10. ASSUME NEW x \in Range(RestoreDirectories)
       PROVE  x[1] \in {"discard", "remove-directory"} /\ x[2] \in Directories
  <2>1. PICK j \in 1..n : x \in Range(ss[j]) BY <1>8
  <2> QED BY <1>0, <1>4, <1>6, <2>1
<1> QED BY <1>8, <1>9, <1>10

\* A restore that is planned where the execution left off can be taken to its end.
LEMMA RestoreFits ==
  ASSUME TypeOK, PreviewOK, Accepted, ~Chained, PlainOK, NodesOK, LeftOK, journal.known \subseteq known
  PROVE  /\ Restorable(Restore) /\ Fitting(Restore)
         /\ \A p \in FilePaths : Is(p, pre[p]) \/ \E x \in Range(Restore) : Repairs(x, p)
         /\ \A d \in NewDirectories : Is(d, Absent) \/ <<"remove-directory", d>> \in Range(Restore)
         /\ \A i \in Working : Moving(i) /\ Is(Source(i), Absent) => <<"link", Target(i), Source(i)>> \in Range(Restore)
<1> DEFINE A == UndoAll
           B == RenameBack
           C == RestoreFiles
           D == RestoreDirectories
<1>1. Restore = ((A \o B) \o C) \o D BY DEF Restore, UndoAll, RenameBack, RestoreFiles, RestoreDirectories
<1>2. Fitting(A) /\ Fitting(B) /\ Fitting(C) /\ Fitting(D)
  BY UndoAllFits, RenameBackFits, RestoreFilesFit, RestoreDirectoriesFit
<1>3. /\ \A x \in Range(A) \cup Range(B) : Outer(x)
      /\ \A x \in Range(C) : x[1] \in {"discard", "unlink", "prepare-back", "publish-back"} /\ x[2] \in Staged
      /\ \A x \in Range(D) : x[1] \in {"discard", "remove-directory"} /\ x[2] \in Directories
  BY UndoAllFits, RenameBackFits, RestoreFilesFit, RestoreDirectoriesFit
<1>4. Range(A) = {} \/ Range(B) = {} BY UndoAllFits, ShortRange DEF RenameBack, When
<1>5. Operations \cap Directories = {} /\ Staged \cap Directories = {} /\ Operations \cap Staged = {}
  BY PreviewIs, Distinct
<1>6. /\ \A p \in Owned \ {None} : Is(p, pre[p]) \/ \E x \in Range(A) \cup Range(B) : Repairs(x, p)
      /\ \A i \in Working : Moving(i) /\ Is(Source(i), Absent) => <<"link", Target(i), Source(i)>> \in Range(A) \cup Range(B)
  BY UndoAllFits, RenameBackFits DEF Owned
<1>7. /\ \A p \in Staged : Is(p, pre[p]) \/ \E x \in Range(C) : Repairs(x, p)
      /\ \A d \in NewDirectories : Is(d, Absent) \/ <<"remove-directory", d>> \in Range(D)
  BY RestoreFilesFit, RestoreDirectoriesFit
<1>8. \A p \in FilePaths : p # None /\ (p \in Staged \/ p \in Owned \/ Is(p, pre[p]))
  BY Distinct DEF LeftOK, FilePaths
<1> HIDE DEF A, B, C, D
<1>9. Fitting(A \o B) /\ Range(A \o B) = Range(A) \cup Range(B) BY <1>2, <1>4, FittingConcat
<1>10. \A x \in Range(A \o B), y \in Range(C) : ~Spoils(x, y) BY <1>3, <1>5, <1>9 DEF Spoils, Outer
<1>11. Fitting((A \o B) \o C) /\ Range((A \o B) \o C) = Range(A) \cup Range(B) \cup Range(C)
  BY <1>2, <1>9, <1>10, FittingConcat
<1>12. \A x \in Range((A \o B) \o C), y \in Range(D) : ~Spoils(x, y) BY <1>3, <1>5, <1>11 DEF Spoils, Outer
<1>13. Fitting(Restore) /\ Range(Restore) = Range(A) \cup Range(B) \cup Range(C) \cup Range(D)
  BY <1>1, <1>2, <1>11, <1>12, FittingConcat
<1>14. Restorable(Restore) BY <1>13 DEF Fitting, Restorable
<1> QED BY <1>6, <1>7, <1>8, <1>13, <1>14

\* What is said of the request and its preview stays as it is.
LEMMA Rigid ==
  ASSUME request' = request, entry'.preview = entry.preview
  PROVE  /\ Working' = Working /\ FilePaths' = FilePaths /\ Owned' = Owned /\ Staged' = Staged
         /\ NewDirectories' = NewDirectories /\ Operations' = Operations /\ Stages' = Stages /\ pre' = pre /\ final' = final
         /\ (SelfReferring' <=> SelfReferring) /\ (Chained' <=> Chained) /\ Footprint' = Footprint
         /\ Late' = Late /\ Early' = Early /\ Step' = Step
         /\ \A i : /\ Source(i)' = Source(i) /\ Target(i)' = Target(i)
                   /\ (Moving(i)' <=> Moving(i)) /\ (Copying(i)' <=> Copying(i)) /\ (Trashing(i)' <=> Trashing(i))
         /\ \A k : Content(k)' = Content(k) /\ Kept(k)' = Kept(k)
         /\ \A x : (Means(x)' <=> Means(x)) /\ (Undoes(x)' <=> Undoes(x))
         /\ PlainOK' <=> PlainOK
<1>1. /\ Operations' = Operations /\ Stages' = Stages /\ Step' = Step /\ pre' = pre /\ final' = final
      /\ NewDirectories' = NewDirectories /\ Staged' = Staged
  BY Stable
<1>2. /\ SelfReferring' <=> SelfReferring
      /\ \A i : /\ Source(i)' = Source(i) /\ Target(i)' = Target(i)
                /\ (Moving(i)' <=> Moving(i)) /\ (Copying(i)' <=> Copying(i)) /\ (Trashing(i)' <=> Trashing(i))
  BY DEF SelfReferring, IsMove, move, Source, Target, Moving, Copying, Trashing
<1>3. FilePaths' = FilePaths /\ Late' = Late /\ Early' = Early BY <1>1 DEF FilePaths, Late, Early
<1>4. Working' = Working BY <1>1, <1>2 DEF Working
<1>5. Owned' = Owned BY <1>2, <1>4 DEF Owned
<1>6. Chained' <=> Chained BY <1>1 DEF Chained, MutationIndexes
<1>7. Footprint' = Footprint BY <1>1 DEF Footprint
<1>8. \A k : Content(k)' = Content(k) /\ Kept(k)' = Kept(k) BY <1>1 DEF Content, Kept
<1>9. \A x : (Means(x)' <=> Means(x)) /\ (Undoes(x)' <=> Undoes(x)) BY <1>1, <1>2, <1>4, <1>8 DEF Means, Undoes
<1>10. PlainOK' <=> PlainOK BY <1>1, <1>2, <1>4 DEF PlainOK
<1> QED BY <1>1, <1>2, <1>3, <1>4, <1>5, <1>6, <1>7, <1>8, <1>9, <1>10

LEMMA TidyKeeps ==
  ASSUME IInv, Accepted, ~Chained, PlainOK, HiddenOK, LeftOK, request' = request, entry'.preview = entry.preview,
         NEW p, NEW i, Tidy(p, i)
  PROVE  LeftOK' /\ HiddenOK' /\ PlainOK'
<1>0. /\ Working' = Working /\ FilePaths' = FilePaths /\ Owned' = Owned /\ Staged' = Staged
      /\ NewDirectories' = NewDirectories /\ Operations' = Operations /\ pre' = pre /\ final' = final
      /\ \A j : /\ Source(j)' = Source(j) /\ Target(j)' = Target(j)
                /\ (Moving(j)' <=> Moving(j)) /\ (Copying(j)' <=> Copying(j)) /\ (Trashing(j)' <=> Trashing(j))
      /\ (PlainOK' <=> PlainOK)
  BY Rigid
<1>1. /\ Staged \subseteq Paths /\ NewDirectories \subseteq Paths /\ FilePaths \subseteq Paths /\ Working \subseteq Operations
      /\ NewDirectories \subseteq DOMAIN final /\ Staged \subseteq DOMAIN final
  BY PreviewIs, Distinct DEF IInv, FilePaths, Working
<1>2. \A j \in Working : Source(j) \in Paths \cap DOMAIN final /\ (Target(j) # None => Target(j) \in Paths \cap DOMAIN final)
                         /\ (Moving(j) \/ Copying(j) => Target(j) # None)
  BY PlainIs, WorkingIs, <1>1 DEF IInv, TypeOK, FilePaths
<1>3. \A q \in Staged : StagedLeft(q)' BY <1>1, <1>0 DEF Tidy, LeftOK, StagedLeft, Is
<1>4. \A d \in NewDirectories : DirectoryLeft(d)' BY <1>1, <1>0 DEF Tidy, LeftOK, DirectoryLeft, Is
<1>5. ASSUME NEW j \in Working
      PROVE  (Copying(j) => CopyLeft(j)') /\ (Moving(j) => MoveLeft(j)') /\ (Trashing(j) => TrashLeft(j)')
  <2>1. p # Source(j) => disk'[Source(j)] = disk[Source(j)] BY <1>2 DEF Tidy
  <2>2. p # Target(j) /\ (Moving(j) \/ Copying(j)) => disk'[Target(j)] = disk[Target(j)] BY <1>2 DEF Tidy
  <2>3. i # j => trash'[j] = trash[j] BY <1>1 DEF Tidy
  <2>4. Copying(j) /\ p \notin {Source(j), Target(j)} => CopyLeft(j)' BY <1>0, <2>1, <2>2 DEF LeftOK, CopyLeft, Is
  <2>5. Moving(j) /\ p \notin {Source(j), Target(j)} => MoveLeft(j)' BY <1>0, <2>1, <2>2 DEF LeftOK, MoveLeft, Is
  <2>6. Trashing(j) /\ p # Source(j) /\ i # j => TrashLeft(j)'
    BY <1>0, <2>1, <2>3 DEF Nowhere, At, LeftOK, TrashLeft, Is
  <2> QED BY <2>4, <2>5, <2>6 DEF Tidy
<1>6. \A q \in FilePaths \ (Staged \cup Owned) : disk'[q].is = pre[q]
  BY PreviewIs, Distinct, <1>1 DEF IInv, FilePaths, Tidy, LeftOK, Is
<1>7. LeftOK' BY <1>0, <1>3, <1>4, <1>5, <1>6 DEF LeftOK, Is
<1>8. HiddenOK' BY <1>0, <1>1, <1>2, Distinct DEF HiddenOK, Tidy, Owned
<1> QED BY <1>0, <1>7, <1>8

LEMMA RunHead ==
  ASSUME Going
  PROVE  /\ Accepted /\ todo # <<>> /\ request' = request /\ entry' = entry /\ args \in RunSteps /\ args \in Step /\ Means(args)
         /\ Tail(todo) \in Ordered(Step, Late) /\ Range(todo) = {args} \cup Range(Tail(todo))
         /\ \A x \in Range(Tail(todo)) : x \in Step /\ ~Clash(args, x)
<1> DEFINE s == todo
<1>1. s \in Ordered(Step, Late) /\ s # <<>> /\ s \in Seq(Step) /\ args = Head(s)
  BY DEF Going, RunFits, HostFrame, Ordered, args
<1>2. args \in Step /\ Range(s) = {args} \cup Range(Tail(s)) /\ Range(s) \subseteq Step BY <1>1, TailIs, RangeOfSeq
<1>3. Tail(s) \in Ordered(Step, Late) /\ \A x \in Range(Tail(s)) : <<args, x>> \notin Late BY <1>1, OrderedTail
<1>4. Accepted /\ args \in RunSteps BY <1>1, HeadIn DEF Going
<1> QED BY <1>1, <1>2, <1>3, <1>4, PairsAre DEF Going, HostFrame, elsewhere, RunFits

LEMMA RunMoves ==
  ASSUME Going, NEW p, NEW i, Tidy(p, i), journal'.known \subseteq known', pc' \in {"run", "plan"},
         pc' = "run" =>
           /\ todo' = Tail(todo)
           /\ \A k \in Stages : stage'[k] \in Bytes => stage'[k] \in {stage[k], Content(k)}
           /\ \A S : args = <<"journal", S>> => S \subseteq journal'.known
           /\ \A j \in Working :
                /\ Moving(j) /\ (p = Target(j) \/ args = <<"link", Source(j), Target(j)>>) => disk'[Target(j)].is = request[j].to
                /\ Trashing(j) /\ (i = j \/ args = <<"hide", Source(j), j>>) => trash'[j].is = request[j].from
                /\ SelfReferring /\ (p = Source(j) \/ args = <<"publish", j, Source(j)>>) =>
                     disk'[Source(j)].is \in {request[j].to, Absent}
  PROVE  Onward
<1>0. /\ Accepted /\ request' = request /\ entry'.preview = entry.preview /\ Tail(todo) \in Ordered(Step, Late)
      /\ Range(todo) = {args} \cup Range(Tail(todo))
  BY RunHead
<1>1. LeftOK' /\ HiddenOK' /\ PlainOK' BY <1>0, TidyKeeps DEF Going
<1>2. ASSUME pc' = "run" PROVE RunFits'
  <2>0. /\ Working' = Working /\ Staged' = Staged /\ NewDirectories' = NewDirectories /\ Operations' = Operations
        /\ Stages' = Stages /\ Late' = Late /\ Step' = Step /\ (SelfReferring' <=> SelfReferring)
        /\ \A j : /\ Source(j)' = Source(j) /\ Target(j)' = Target(j)
                  /\ (Moving(j)' <=> Moving(j)) /\ (Trashing(j)' <=> Trashing(j))
        /\ \A k : Content(k)' = Content(k)
        /\ \A x : Means(x)' <=> Means(x)
    BY <1>0, Rigid
  <2>1. /\ todo' = Tail(todo) /\ \A x : Ahead(x) => x = args \/ Ahead(x)' BY <1>0, <1>2 DEF Ahead
  <2>2. todo' \in Ordered(Step, Late) /\ \A x \in Range(todo') : Means(x) BY <1>0, <2>1 DEF Going, RunFits
  <2>3. \A k \in Stages : stage'[k] \in Bytes => stage'[k] = Content(k) BY <1>2 DEF Going, RunFits
  <2>4. ASSUME NEW q \in Staged \cup NewDirectories
        PROVE  q \in journal'.known \/ \E S \in SUBSET Paths : q \in S /\ Ahead(<<"journal", S>>)'
    <3>1. CASE q \in journal.known BY <3>1 DEF Tidy
    <3>2. CASE q \notin journal.known
      <4>1. PICK S \in SUBSET Paths : q \in S /\ Ahead(<<"journal", S>>) BY <3>2 DEF Going, RunFits
      <4> QED BY <1>2, <2>1, <4>1
    <3> QED BY <3>1, <3>2
  <2>5. ASSUME NEW j \in Working
        PROVE  /\ Moving(j) => Ahead(<<"link", Source(j), Target(j)>>)' \/ disk'[Target(j)].is = request[j].to
               /\ Trashing(j) => Ahead(<<"hide", Source(j), j>>)' \/ trash'[j].is = request[j].from
               /\ SelfReferring => Ahead(<<"publish", j, Source(j)>>)' \/ disk'[Source(j)].is \in {request[j].to, Absent}
    <3> DEFINE l == <<"link", Source(j), Target(j)>>
               h == <<"hide", Source(j), j>>
               u == <<"publish", j, Source(j)>>
    <3>0. /\ Source(j) \in Paths /\ j \in Operations /\ (Moving(j) => Target(j) \in Paths)
          /\ SelfReferring => Moving(j)
      BY WorkingIs, Distinct DEF Going, IInv, TypeOK
    <3>1. /\ Moving(j) => Ahead(l) \/ disk[Target(j)].is = request[j].to
          /\ Trashing(j) => Ahead(h) \/ trash[j].is = request[j].from
          /\ SelfReferring => Ahead(u) \/ disk[Source(j)].is \in {request[j].to, Absent}
      BY DEF Going, RunFits, Is
    <3>2. /\ Moving(j) /\ p # Target(j) => disk'[Target(j)] = disk[Target(j)]
          /\ i # j => trash'[j] = trash[j]
          /\ p # Source(j) => disk'[Source(j)] = disk[Source(j)]
      BY <3>0 DEF Tidy
    <3>3. /\ Moving(j) /\ (p = Target(j) \/ args = l) => disk'[Target(j)].is = request[j].to
          /\ Trashing(j) /\ (i = j \/ args = h) => trash'[j].is = request[j].from
          /\ SelfReferring /\ (p = Source(j) \/ args = u) => disk'[Source(j)].is \in {request[j].to, Absent}
      BY <1>2
    <3> HIDE DEF l, h, u
    <3>4. /\ Moving(j) => l \in Range(todo') \/ disk'[Target(j)].is = request[j].to
          /\ Trashing(j) => h \in Range(todo') \/ trash'[j].is = request[j].from
          /\ SelfReferring => u \in Range(todo') \/ disk'[Source(j)].is \in {request[j].to, Absent}
      BY <1>0, <1>2, <2>1, <3>1, <3>2, <3>3 DEF Ahead
    <3> QED BY <2>0, <3>4 DEF Ahead, l, h, u
  <2> QED BY <1>0, <1>2, <2>0, <2>2, <2>3, <2>4, <2>5 DEF RunFits, Is
<1> QED BY <1>1, <1>2 DEF Onward

\* A step that leaves the disk and the trash alone.
LEMMA RunIdle ==
  ASSUME Going, disk' = disk, trash' = trash, journal.known \subseteq journal'.known, journal'.known \subseteq known',
         pc' \in {"run", "plan"},
         pc' = "run" =>
           /\ todo' = Tail(todo) /\ args[1] \notin {"link", "hide", "publish"}
           /\ \A k \in Stages : stage'[k] \in Bytes => stage'[k] \in {stage[k], Content(k)}
           /\ \A S : args = <<"journal", S>> => S \subseteq journal'.known
  PROVE  Onward
<1> DEFINE p == None
           i == 0
<1>0. /\ None \notin Paths /\ 0 \notin Operations /\ Working \subseteq Operations
      /\ \A j \in Working : Source(j) # None /\ (Moving(j) \/ Copying(j) => Target(j) # None)
  BY WorkingIs, RequestIs, Distinct DEF Going, IInv, TypeOK, Working
<1>1. None \notin Staged /\ None \notin NewDirectories BY <1>0, RunHead, PreviewIs, Distinct DEF Going, IInv
<1>2. Tidy(p, i) BY <1>0, <1>1 DEF Tidy
<1>3. \A j : /\ p = Target(j) \/ args = <<"link", Source(j), Target(j)>> => p = Target(j) \/ args[1] = "link"
             /\ args = <<"hide", Source(j), j>> => args[1] = "hide"
             /\ args = <<"publish", j, Source(j)>> => args[1] = "publish"
  OBVIOUS
<1>4. \A j \in Working : (Moving(j) => p # Target(j)) /\ i # j /\ p # Source(j) BY <1>0
<1> HIDE DEF p, i
<1> QED BY <1>2, <1>3, <1>4, RunMoves

\* An operation's path is nobody else's.
LEMMA OwnIs ==
  ASSUME IInv, Accepted, ~Chained, PlainOK, NEW k \in Working, NEW p \in {Source(k), Target(k)} \ {None}
  PROVE  /\ p \in Owned /\ p \in Paths /\ p \in Files /\ p \in DOMAIN final /\ p \notin Staged /\ p \notin NewDirectories
         /\ \A j \in Working : p \in {Source(j), Target(j)} => j = k
         /\ Source(k) # Target(k) /\ k \in Operations /\ Source(k) \in Paths
         /\ Moving(k) \/ Copying(k) => Target(k) # None /\ Target(k) \in Paths
<1>0. request \in Requests BY DEF IInv, TypeOK
<1>1. /\ Source(k) \in FilePaths \ Staged /\ (Target(k) # None => Target(k) \in FilePaths \ Staged /\ Target(k) # Source(k))
      /\ \A j \in Working : j # k =>
           /\ Source(k) # Source(j) /\ Source(k) # Target(j) /\ Target(k) # Source(j)
           /\ Target(k) # None => Target(k) # Target(j)
  BY PlainIs DEF IInv
<1>2. /\ k \in Operations /\ Source(k) # None /\ Source(k) \in Files
      /\ Moving(k) \/ Copying(k) => Target(k) # None /\ Target(k) \in Files
  BY <1>0, WorkingIs
<1>3. FilePaths \subseteq Files /\ FilePaths \subseteq DOMAIN final /\ Files \subseteq Paths /\ NewDirectories \cap Files = {}
  BY PreviewIs, Distinct DEF IInv, FilePaths
<1> QED BY <1>1, <1>2, <1>3 DEF Owned

\* How a step of the host can end.
LEMMA Ends ==
  ASSUME Going, NEW step, Host(step)
  PROVE  /\ args[1] = step /\ journal' = journal /\ known' = known /\ step \in {x[1] : x \in RunSteps}
         /\ \A ok \in BOOLEAN : /\ Done(ok) => ok /\ pc' \in {"run", "plan"} /\ (pc' = "run" => todo' = Tail(todo))
                                /\ NotDone(ok) => pc' = "plan"
<1>1. args[1] = step /\ journal' = journal /\ known' = known BY DEF Host, Doing, args
<1>2. args \in RunSteps BY RunHead
<1>3. ASSUME NEW ok \in BOOLEAN
      PROVE  /\ Done(ok) => ok /\ pc' \in {"run", "plan"} /\ (pc' = "run" => todo' = Tail(todo))
             /\ NotDone(ok) => pc' = "plan"
  BY DEF Going, Done, NotDone, Throws, Goto
<1> QED BY <1>1, <1>2, <1>3

\* A change at a path of an operation.
LEMMA RunOwned ==
  ASSUME Going, disk' \in [Paths -> Places], NEW k \in Working, NEW p \in {Source(k), Target(k)} \ {None},
         \A q \in Paths : q # p => disk'[q] = disk[q], trash' = trash, journal' = journal, known' = known,
         pc' \in {"run", "plan"}, pc' = "run" => todo' = Tail(todo), args[1] # "journal",
         \A s \in Stages : stage'[s] \in Bytes => stage'[s] \in {stage[s], Content(s)},
         /\ Copying(k) => CopyLeft(k)'
         /\ Moving(k) => MoveLeft(k)'
         /\ Trashing(k) => TrashLeft(k)',
         /\ Moving(k) /\ (p = Target(k) \/ args = <<"link", Source(k), Target(k)>>) => disk'[Target(k)].is = request[k].to
         /\ SelfReferring /\ (p = Source(k) \/ args = <<"publish", k, Source(k)>>) =>
              disk'[Source(k)].is \in {request[k].to, Absent},
         args[1] \in {"link", "publish", "unlink"}, args[1] = "link" => args[2] = Source(k),
         args[1] = "publish" => args[3] \in {Source(k), Target(k)} \ {None}
  PROVE  Onward
<1>0. Accepted /\ IInv /\ ~Chained /\ PlainOK /\ request \in Requests BY RunHead DEF Going, IInv, TypeOK
<1>1. /\ p \in Owned /\ p \in Paths /\ p \notin Staged /\ p \notin NewDirectories
      /\ \A j \in Working : p \in {Source(j), Target(j)} => j = k
  BY <1>0, OwnIs
<1>2. 0 \notin Operations BY <1>0, RequestIs
<1>3. \A j \in Working : j \in Operations BY DEF Working
<1>4. Tidy(p, 0) BY <1>1, <1>2, <1>3 DEF Tidy
<1>5. ASSUME NEW j \in Working
      PROVE  /\ Moving(j) /\ (p = Target(j) \/ args = <<"link", Source(j), Target(j)>>) => disk'[Target(j)].is = request[j].to
             /\ Trashing(j) => 0 # j /\ args # <<"hide", Source(j), j>>
             /\ SelfReferring /\ (p = Source(j) \/ args = <<"publish", j, Source(j)>>) =>
                  disk'[Source(j)].is \in {request[j].to, Absent} BY <1>2, <1>3, <1>1, <1>0, WorkingIs, OwnIs
<1>6. journal'.known \subseteq known' BY DEF Going
<1>7. \A S : args # <<"journal", S>> OBVIOUS
<1> QED BY <1>4, <1>5, <1>6, <1>7, RunMoves

LEMMA PublishRuns ==
  ASSUME Going, PublishFile
  PROVE  Onward
<1> PICK p : p = args[3] OBVIOUS
<1> DEFINE ok == stage[args[2]] \in Bytes /\ Housed(args[3]) /\ disk[args[3]].is # Dir
           is == At(stage[args[2]], <<"staged", args[2]>>)
<1>0. /\ IInv /\ HostFrame /\ pc = "run" /\ ~Chained /\ PlainOK /\ LeftOK /\ RunFits /\ Accepted /\ request' = request
      /\ entry' = entry /\ request \in Requests /\ args \in Step /\ Means(args) /\ journal.known \subseteq known
  BY RunHead DEF Going, IInv, TypeOK
<1>1. Host("publish") /\ trash' = trash BY DEF PublishFile
<1>2. args[1] = "publish" /\ journal' = journal /\ known' = known BY <1>1, Ends
<1>3. args[2] \in Stages /\ p \in Files /\ p \in Paths BY <1>0, <1>2, StepIs, Distinct
<1>4. CASE NotDone(ok) /\ disk' = disk BY <1>0, <1>4, <1>1, <1>2, RunIdle DEF NotDone, Throws, Goto
<1>5. CASE Done(ok) /\ disk' = [disk EXCEPT ![p] = is] /\ stage' = [stage EXCEPT ![args[2]] = None]
  <2>1. /\ stage[args[2]] \in Bytes /\ pc' \in {"run", "plan"} /\ (pc' = "run" => todo' = Tail(todo))
    BY <1>0, <1>5 DEF Done, Throws, Goto
  <2>2. /\ disk'[p] = is /\ (\A q \in Paths : q # p => disk'[q] = disk[q]) /\ stage[args[2]] = Content(args[2])
        /\ is.is = Content(args[2]) /\ disk' \in [Paths -> Places]
    <3>1. disk \in [Paths -> Places] /\ stage[args[2]] = Content(args[2])
      BY <1>0, <1>3, <2>1 DEF IInv, TypeOK, RunFits
    <3>2. disk' \in [Paths -> Places] BY <1>0, HostStepIs DEF HostStep, Good, Effect, Typed
    <3> QED BY <1>3, <1>5, <3>1, <3>2 DEF At
  <2>3. \A s \in Stages : stage'[s] \in Bytes => stage'[s] \in {stage[s], Content(s)}
    BY <1>0, Distinct, <1>3, <1>5 DEF IInv, TypeOK
  <2> HIDE DEF is, ok
  <2>4. CASE args[2] = p /\ p \in Staged
    <3>1. p \in journal.known
      <4> SUFFICES ASSUME p \notin journal.known PROVE FALSE OBVIOUS
      <4>1. PICK S \in SUBSET Paths : p \in S /\ Ahead(<<"journal", S>>) BY <1>0, <2>4 DEF RunFits
      <4> DEFINE x == <<"journal", S>>
      <4>2. x \in Range(todo) /\ x[1] = "journal" /\ x[2] = S BY <4>1 DEF Ahead
      <4> HIDE DEF x
      <4>3. x \in Range(Tail(todo)) BY <1>2, <4>2, RunHead
      <4>4. ~Clash(args, x) BY <4>3, RunHead
      <4> QED BY <1>2, <2>4, <4>1, <4>2, <4>4 DEF Clash
    <3>2. /\ p \notin Owned /\ p \notin NewDirectories /\ 0 \notin Operations
      BY <1>0, <1>3, <2>4, PlainIs, Distinct, PreviewIs, RequestIs DEF IInv, Owned
    <3>3. StagedLeft(p)' BY <1>0, Stable, <2>2, <2>4, <1>2, <3>1 DEF is, Content, StagedLeft
    <3>4. \A j \in Working : p # Source(j) /\ p # Target(j) /\ j # 0 BY <3>2 DEF Owned, Working
    <3>5. Tidy(p, 0) BY <1>1, <1>2, <2>2, <2>4, <3>2, <3>3, <3>4 DEF Tidy
    <3>6. \A j \in Working : /\ args # <<"link", Source(j), Target(j)>> /\ args # <<"hide", Source(j), j>>
                             /\ args # <<"publish", j, Source(j)>>
      BY <1>2, <3>4
    <3>7. \A S : args # <<"journal", S>> BY <1>2
    <3> QED BY <1>0, <1>2, <2>1, <2>3, <3>4, <3>5, <3>6, <3>7, RunMoves
  <2>5. ASSUME NEW k \in Working, args[2] = k,
               (Copying(k) /\ p = Target(k)) \/ (SelfReferring /\ p = Source(k))
        PROVE  Onward
    <3>1. /\ k \in Operations /\ Source(k) # Target(k) /\ k \notin Staged /\ p \in {Source(k), Target(k)} \ {None}
          /\ Source(k) \in Paths /\ (Moving(k) \/ Copying(k) => Target(k) \in Paths)
          /\ (Copying(k) => ~Moving(k) /\ ~SelfReferring /\ ~Trashing(k) /\ request[k].to = request[k].from)
          /\ (SelfReferring => Moving(k) /\ ~Trashing(k) /\ ~Copying(k))
      BY <1>0, PreviewIs, WorkingIs, <1>3, <2>5, Distinct, OwnIs DEF IInv, Working
    <3>2. disk'[p].is = request[k].to BY <2>2, <2>5, <3>1 DEF Content
    <3>3. /\ Source(k)' = Source(k) /\ Target(k)' = Target(k) BY <1>0, Rigid
    <3>4. Copying(k) => CopyLeft(k)' BY <1>0, <2>2, <2>5, <3>1, <3>2, <3>3 DEF LeftOK, CopyLeft, Is
    <3>5. Moving(k) => MoveLeft(k)' BY <1>0, <2>2, <2>5, <3>1, <3>2, <3>3 DEF LeftOK, MoveLeft, Is
    <3>6. args # <<"link", Source(k), Target(k)>> BY <1>2
    <3>7. /\ p = args[3] /\ args[1] = "publish" BY <1>2
    <3>8. /\ Moving(k) /\ (p = Target(k) \/ args = <<"link", Source(k), Target(k)>>) => disk'[Target(k)].is = request[k].to
          /\ SelfReferring /\ (p = Source(k) \/ args = <<"publish", k, Source(k)>>) =>
               disk'[Source(k)].is \in {request[k].to, Absent} BY <2>5, <3>1, <3>2, <3>6
    <3>9. Trashing(k) => TrashLeft(k)' BY <2>5, <3>1
    <3> QED BY <1>0, <1>1, <1>2, <2>1, <2>2, <2>3, <2>5, <3>1, <3>4, <3>5, <3>7, <3>8, <3>9, RunOwned
  <2> QED BY <1>0, <1>2, <2>4, <2>5 DEF Means
<1> QED BY <1>4, <1>5 DEF PublishFile, Puts, SameDisk

LEMMA LinkRuns ==
  ASSUME Going, LinkFile
  PROVE  Onward
<1> PICK s : s = args[2] OBVIOUS
<1> PICK t : t = args[3] OBVIOUS
<1> DEFINE ok == IsFile(args[2]) /\ disk[args[3]].is = Absent /\ Housed(args[3])
<1>0. /\ IInv /\ HostFrame /\ pc = "run" /\ ~Chained /\ PlainOK /\ LeftOK /\ RunFits /\ Accepted /\ request' = request
      /\ entry' = entry /\ request \in Requests /\ args \in Step /\ Means(args) /\ journal.known \subseteq known
  BY RunHead DEF Going, IInv, TypeOK
<1>1. Host("link") /\ trash' = trash /\ stage' = stage BY DEF LinkFile, private
<1>2. args[1] = "link" /\ journal' = journal /\ known' = known BY <1>1, Ends
<1>3. CASE NotDone(ok) /\ disk' = disk BY <1>0, <1>3, <1>1, <1>2, RunIdle DEF NotDone, Throws, Goto
<1>4. CASE Done(ok) /\ disk' = [disk EXCEPT ![t] = disk[s]]
  <2>1. disk[s].is \in Bytes /\ disk[t].is = Absent /\ pc' \in {"run", "plan"} /\ (pc' = "run" => todo' = Tail(todo))
    BY <1>0, <1>4 DEF Done, Throws, Goto, IsFile
  <2>2. PICK k \in Working : Moving(k) /\ s = Source(k) /\ t = Target(k) BY <1>0, <1>2 DEF Means
  <2>3. /\ k \in Operations /\ s # t /\ s \in Paths /\ t # None /\ t \in Paths
        /\ ~Copying(k) /\ ~Trashing(k) /\ (~SelfReferring => request[k].to = request[k].from)
    BY <1>0, <2>2, OwnIs, WorkingIs
  <2>4. disk[s].is = request[k].to
    <3>1. disk[s].is \in {request[k].from, request[k].to} BY <1>0, <2>1, <2>2, Distinct DEF LeftOK, MoveLeft, Is
    <3>2. CASE SelfReferring
      <4> DEFINE x == <<"publish", k, Source(k)>>
      <4>1. x[1] = "publish" /\ x[3] = s BY <2>2
      <4>2. Ahead(x) \/ disk[s].is \in {request[k].to, Absent} BY <1>0, <2>2, <3>2 DEF RunFits, Is
      <4> HIDE DEF x
      <4>3. ~Ahead(x) BY <1>2, <4>1, RunHead DEF Ahead, Clash
      <4> QED BY <2>1, <4>2, <4>3, Distinct
    <3> QED BY <2>3, <3>1, <3>2
  <2>5. disk'[t].is = request[k].to /\ disk'[s] = disk[s] /\ disk' \in [Paths -> Places]
        /\ \A q \in Paths : q # t => disk'[q] = disk[q]
    BY <1>0, <1>4, <2>3, <2>4 DEF IInv, TypeOK
  <2>6. Source(k)' = s /\ Target(k)' = t BY <1>0, <2>2, Rigid
  <2>7. MoveLeft(k)' BY <1>0, <2>4, <2>5, <2>6 DEF MoveLeft, Is
  <2>8. /\ t \in {Source(k), Target(k)} \ {None} /\ args[2] = Source(k) /\ t # Source(k)
        /\ args # <<"publish", k, Source(k)>>
    BY <1>2, <2>2, <2>3
  <2>9. /\ Moving(k) /\ (t = Target(k) \/ args = <<"link", Source(k), Target(k)>>) => disk'[Target(k)].is = request[k].to
        /\ SelfReferring /\ (t = Source(k) \/ args = <<"publish", k, Source(k)>>) =>
             disk'[Source(k)].is \in {request[k].to, Absent} BY <2>2, <2>5, <2>8
  <2> QED BY <1>0, <1>1, <1>2, <2>1, <2>3, <2>5, <2>7, <2>8, <2>9, RunOwned
<1> QED BY <1>3, <1>4 DEF LinkFile, Puts, SameDisk

LEMMA RemoveRuns ==
  ASSUME Going, RemoveFile
  PROVE  Onward
<1> PICK s : s = args[2] OBVIOUS
<1> DEFINE ok == IsFile(args[2])
<1>0. /\ IInv /\ HostFrame /\ pc = "run" /\ ~Chained /\ PlainOK /\ LeftOK /\ RunFits /\ Accepted /\ request' = request
      /\ entry' = entry /\ request \in Requests /\ args \in Step /\ Means(args) /\ journal.known \subseteq known
  BY RunHead DEF Going, IInv, TypeOK
<1>1. Host("unlink") /\ trash' = trash /\ stage' = stage BY DEF RemoveFile, private
<1>2. args[1] = "unlink" /\ journal' = journal /\ known' = known BY <1>1, Ends
<1>3. CASE NotDone(ok) /\ disk' = disk BY <1>0, <1>3, <1>1, <1>2, RunIdle DEF NotDone, Throws, Goto
<1>4. CASE Done(ok) /\ disk' = [disk EXCEPT ![s] = Nowhere]
  <2>1. disk[s].is \in Bytes /\ pc' \in {"run", "plan"} /\ (pc' = "run" => todo' = Tail(todo))
    BY <1>0, <1>4 DEF Done, Throws, Goto, IsFile
  <2>2. PICK k \in Working : (Moving(k) \/ Trashing(k)) /\ s = Source(k) BY <1>0, <1>2 DEF Means
  <2>3. /\ k \in Operations /\ s # Target(k) /\ s \in Paths /\ s # None /\ (Moving(k) => Target(k) \in Paths)
        /\ ~Copying(k) /\ (Trashing(k) => ~Moving(k))
    BY <1>0, <2>2, WorkingIs, OwnIs
  <2>4. ASSUME NEW x, x[1] \in {"link", "hide"}, x[2] = s PROVE ~Ahead(x) BY <1>2, <2>4, RunHead DEF Ahead, Clash
  <2>5. /\ Moving(k) => disk[Target(k)].is = request[k].to
        /\ Trashing(k) => trash[k].is = request[k].from
    <3> DEFINE l == <<"link", Source(k), Target(k)>>
               h == <<"hide", Source(k), k>>
    <3>1. /\ Moving(k) => Ahead(l) \/ disk[Target(k)].is = request[k].to
          /\ Trashing(k) => Ahead(h) \/ trash[k].is = request[k].from
          /\ l[1] = "link" /\ l[2] = s /\ h[1] = "hide" /\ h[2] = s
      BY <1>0, <2>2 DEF RunFits, Is
    <3> HIDE DEF l, h
    <3> QED BY <2>4, <3>1
  <2>6. disk'[s].is = Absent /\ disk' \in [Paths -> Places] /\ \A q \in Paths : q # s => disk'[q] = disk[q]
    BY <1>0, NodeIs, <1>4, <2>3 DEF IInv, TypeOK
  <2>7. Source(k)' = s /\ Target(k)' = Target(k) BY <1>0, <2>2, Rigid
  <2>8. Moving(k) => MoveLeft(k)' BY <1>0, <2>3, <2>5, <2>6, <2>7 DEF MoveLeft, Is
  <2>9. Trashing(k) => TrashLeft(k)' BY <1>0, <1>1, <2>5, <2>6, <2>7 DEF TrashLeft, Is
  <2>10. /\ s \in {Source(k), Target(k)} \ {None} /\ args # <<"publish", k, Source(k)>>
         /\ args # <<"link", Source(k), Target(k)>>
    BY <1>2, <2>2, <2>3
  <2>11. /\ Moving(k) /\ (s = Target(k) \/ args = <<"link", Source(k), Target(k)>>) => disk'[Target(k)].is = request[k].to
         /\ SelfReferring /\ (s = Source(k) \/ args = <<"publish", k, Source(k)>>) =>
              disk'[Source(k)].is \in {request[k].to, Absent} BY <2>2, <2>3, <2>6, <2>10
  <2> QED BY <1>0, <1>1, <1>2, <2>1, <2>3, <2>6, <2>8, <2>9, <2>10, <2>11, RunOwned
<1> QED BY <1>3, <1>4 DEF RemoveFile, Puts, SameDisk

LEMMA HideRuns ==
  ASSUME Going, HideInTrash
  PROVE  Onward
<1> PICK s : s = args[2] OBVIOUS
<1> PICK k : k = args[3] OBVIOUS
<1> DEFINE ok == IsFile(args[2]) /\ trash[args[3]] = Nowhere
<1>0. /\ IInv /\ HostFrame /\ pc = "run" /\ ~Chained /\ PlainOK /\ LeftOK /\ RunFits /\ Accepted /\ request' = request
      /\ entry' = entry /\ request \in Requests /\ args \in Step /\ Means(args) /\ journal.known \subseteq known
  BY RunHead DEF Going, IInv, TypeOK
<1>1. Host("hide") /\ disk' = disk /\ stage' = stage BY DEF HideInTrash, SameDisk
<1>2. args[1] = "hide" /\ journal' = journal /\ known' = known BY <1>1, Ends
<1>3. CASE NotDone(ok) /\ trash' = trash BY <1>0, <1>3, <1>1, <1>2, RunIdle DEF NotDone, Throws, Goto
<1>4. CASE Done(ok) /\ trash' = [trash EXCEPT ![k] = disk[s]]
  <2>1. disk[s].is \in Bytes /\ pc' \in {"run", "plan"} /\ (pc' = "run" => todo' = Tail(todo))
    BY <1>0, <1>4 DEF Done, Throws, Goto, IsFile
  <2>2. k \in Operations /\ k \in Working /\ Trashing(k) /\ s = Source(k) BY <1>0, <1>2, StepIs DEF Means, Working
  <2>3. /\ s \in Paths /\ s \in DOMAIN final /\ s # None BY <1>0, <2>2, WorkingIs, OwnIs
  <2>4. disk[s].is = request[k].from BY <1>0, <2>1, <2>2, Distinct DEF LeftOK, TrashLeft, Is
  <2>5. trash'[k] = disk[s] /\ \A j \in Operations : j # k => trash'[j] = trash[j]
    BY <1>0, <1>4, <2>2 DEF IInv, TypeOK
  <2>6. TrashLeft(k)' BY <1>0, <2>2, Rigid, <1>1, <2>4, <2>5 DEF TrashLeft, Is
  <2>7. \A q \in Paths : trash'[k].node = disk'[q].node /\ disk'[q].node # None => q \in DOMAIN final
    BY <1>0, <1>1, <1>2, <2>3, <2>5, NoSharing
  <2>8. \A j \in Working : Source(j) # None /\ (Moving(j) \/ Copying(j) => Target(j) # None) BY <1>0, WorkingIs
  <2>9. None \notin Paths /\ None \notin Staged /\ None \notin NewDirectories BY <1>0, PreviewIs, Distinct DEF IInv
  <2>10. Tidy(None, k) BY <1>1, <1>2, <2>5, <2>6, <2>7, <2>8, <2>9 DEF Tidy
  <2>11. ASSUME NEW j \in Working
         PROVE  /\ Moving(j) => None # Target(j) /\ args # <<"link", Source(j), Target(j)>>
                /\ Trashing(j) /\ (k = j \/ args = <<"hide", Source(j), j>>) => trash'[j].is = request[j].from
                /\ None # Source(j) /\ args # <<"publish", j, Source(j)>>
    BY <1>2, <2>4, <2>5, <2>8
  <2>12. \A S : args # <<"journal", S>> BY <1>2
  <2> QED BY <1>0, <1>1, <1>2, <2>1, <2>10, <2>11, <2>12, RunMoves
<1> QED BY <1>3, <1>4 DEF HideInTrash

LEMMA PublishDirectoryRuns ==
  ASSUME Going, PublishDirectory
  PROVE  Onward
<1> PICK d : d = args[2] OBVIOUS
<1> DEFINE ok == Empty(args[2]) /\ disk[args[2]].is \in {Absent, Dir} /\ Housed(args[2])
<1>0. /\ IInv /\ HostFrame /\ pc = "run" /\ ~Chained /\ PlainOK /\ LeftOK /\ RunFits /\ Accepted /\ request' = request
      /\ entry' = entry /\ request \in Requests /\ args \in Step /\ args \in RunSteps /\ journal.known \subseteq known
  BY RunHead DEF Going, IInv, TypeOK
<1>1. Host("publish-directory") /\ trash' = trash BY DEF PublishDirectory
<1>2. args[1] = "publish-directory" /\ journal' = journal /\ known' = known BY <1>1, Ends
<1>3. CASE NotDone(ok) /\ disk' = disk BY <1>0, <1>3, <1>1, <1>2, RunIdle DEF NotDone, Throws, Goto
<1>4. CASE Done(ok) /\ disk' = [disk EXCEPT ![d] = At(Dir, <<"staged", d>>)] /\ stage' = [stage EXCEPT ![d] = None]
  <2>1. pc' \in {"run", "plan"} /\ (pc' = "run" => todo' = Tail(todo)) BY <1>0, <1>4 DEF Done, Throws, Goto
  <2>2. d \in NewDirectories /\ d \in Directories /\ d \in Paths BY <1>0, <1>2, PreviewIs, Distinct DEF IInv, RunSteps
  <2>3. d \in journal.known
    <3> SUFFICES ASSUME d \notin journal.known PROVE FALSE OBVIOUS
    <3>1. PICK S \in SUBSET Paths : d \in S /\ Ahead(<<"journal", S>>) BY <1>0, <2>2 DEF RunFits
    <3> DEFINE x == <<"journal", S>>
    <3>2. x \in Range(todo) /\ x[1] = "journal" /\ x[2] = S BY <3>1 DEF Ahead
    <3> HIDE DEF x
    <3>3. x \in Range(Tail(todo)) BY <1>2, <3>2, RunHead
    <3>4. ~Clash(args, x) BY <3>3, RunHead
    <3> QED BY <1>2, <3>1, <3>2, <3>4 DEF Clash
  <2>4. /\ disk'[d] = At(Dir, <<"staged", d>>) /\ \A q \in Paths : q # d => disk'[q] = disk[q]
        /\ \A s \in Stages : stage'[s] \in Bytes => stage'[s] = stage[s]
    BY <1>0, <1>4, <2>2, Distinct DEF IInv, TypeOK
  <2>5. DirectoryLeft(d)' BY <1>2, <2>3, <2>4 DEF DirectoryLeft
  <2>6. d \notin Staged /\ 0 \notin Operations BY <1>0, <2>2, PreviewIs, Distinct DEF IInv
  <2>7. \A j \in Working : d # Source(j) /\ (Moving(j) \/ Copying(j) => d # Target(j)) /\ 0 # j
    BY <1>0, <2>2, <2>6, WorkingIs, Distinct
  <2>8. Tidy(d, 0) BY <1>1, <1>2, <2>2, <2>4, <2>5, <2>6, <2>7 DEF Tidy
  <2>9. \A j \in Working : /\ args # <<"link", Source(j), Target(j)>> /\ args # <<"hide", Source(j), j>>
                           /\ args # <<"publish", j, Source(j)>>
    BY <1>2
  <2>10. \A S : args # <<"journal", S>> BY <1>2
  <2> QED BY <1>0, <1>2, <2>1, <2>4, <2>7, <2>8, <2>9, <2>10, RunMoves
<1> QED BY <1>3, <1>4 DEF PublishDirectory, Puts, SameDisk

\* Every step of an execution leaves what the restore knows.
LEMMA RunKeeps ==
  ASSUME Going, HostStep
  PROVE  Onward
<1>0. /\ IInv /\ HostFrame /\ pc = "run" /\ RunFits /\ args \in Step /\ args \in RunSteps /\ Means(args)
      /\ journal.known \subseteq known /\ stage \in [Stages -> Bytes \cup {Dir, None}]
  BY RunHead DEF Going, IInv, TypeOK
<1>1. args[1] \notin {"unhide", "drop", "undo-copy", "remove-directory", "prepare-back", "publish-back"}
  BY <1>0 DEF RunSteps
<1>2. ~(PrepareBack \/ PublishBack \/ RestoreFromTrash \/ DiscardTrash \/ RemoveCopy \/ RemoveDirectory)
  BY <1>1 DEF PrepareBack, PublishBack, RestoreFromTrash, DiscardTrash, RemoveCopy, RemoveDirectory, Host, Doing, args
<1>3. ASSUME NEW step \in {"prepare", "discard", "prepare-directory", "compare", "save"}, Host(step),
             disk' = disk, trash' = trash, \E ok \in BOOLEAN : Done(ok) \/ NotDone(ok),
             \A k \in Stages : stage'[k] \in Bytes => stage'[k] \in {stage[k], Content(k)}
      PROVE  Onward BY <1>3, Ends, <1>0, RunIdle
<1>4. CASE PrepareFile
  <2> PICK k : k = args[2] OBVIOUS
  <2> DEFINE ok == stage[args[2]] = None
  <2>1. Host("prepare") /\ disk' = disk /\ trash' = trash /\ (Done(ok) \/ NotDone(ok))
    BY <1>4 DEF PrepareFile, SameDisk
  <2>2. args[1] = "prepare" BY <2>1, Ends
  <2>3. k \in Stages /\ args[3] = Content(k) BY <1>0, <2>2, StepIs DEF Means
  <2>4. stage' = stage \/ stage' = [stage EXCEPT ![k] = Content(k)] BY <1>4, <2>3 DEF PrepareFile
  <2>5. \A j \in Stages : stage'[j] \in {stage[j], Content(j)} BY <1>0, <2>3, <2>4
  <2>6. ok \in BOOLEAN OBVIOUS
  <2> HIDE DEF ok
  <2> QED BY <1>3, <2>1, <2>5, <2>6
<1>5. CASE DiscardPrepared \/ PrepareDirectory \/ Compare \/ SavePhase
  <2>1. PICK step \in {"discard", "prepare-directory", "compare", "save"} : Host(step)
    BY <1>5 DEF DiscardPrepared, PrepareDirectory, Compare, SavePhase
  <2>2. disk' = disk /\ trash' = trash BY <1>5 DEF DiscardPrepared, PrepareDirectory, Compare, SavePhase, SameDisk, vault, private
  <2>3. (Done(TRUE) \/ NotDone(TRUE)) \/ (Done(disk[args[2]] = args[3]) \/ NotDone(disk[args[2]] = args[3]))
    BY <1>5 DEF DiscardPrepared, PrepareDirectory, Compare, SavePhase
  <2>4. (disk[args[2]] = args[3]) \in BOOLEAN OBVIOUS
  <2>5. \E ok \in BOOLEAN : Done(ok) \/ NotDone(ok) BY <2>3, <2>4
  <2>6. \/ stage' = stage \/ stage' = [stage EXCEPT ![args[2]] = None] \/ stage' = [stage EXCEPT ![args[2]] = Dir]
    BY <1>5 DEF DiscardPrepared, PrepareDirectory, Compare, SavePhase, vault, private
  <2>7. \A j \in Stages : stage'[j] \in {stage[j], None, Dir} BY <1>0, <2>6
  <2> QED BY <1>3, <2>1, <2>2, <2>5, <2>7, Distinct
<1>6. CASE PersistIdentities
  <2>1. /\ args[1] = "journal" /\ known' = known \cup args[2] /\ disk' = disk /\ trash' = trash /\ stage' = stage
        /\ \/ Done(TRUE) /\ journal' = [journal EXCEPT !.known = known']
           \/ NotDone(TRUE) /\ journal' = journal
    BY <1>6 DEF PersistIdentities, Doing, args, vault, private
  <2>2. journal = [phase |-> journal.phase, known |-> journal.known] BY <1>0, Shapes
  <2>3. CASE Done(TRUE) /\ journal' = [journal EXCEPT !.known = known']
    BY <1>0, <2>3, <2>2, <2>1, RunIdle DEF Done, Throws, Goto
  <2>4. CASE NotDone(TRUE) /\ journal' = journal BY <1>0, <2>4, <2>1, RunIdle DEF NotDone, Throws, Goto
  <2> QED BY <2>1, <2>3, <2>4
<1> QED BY <1>2, <1>4, <1>5, <1>6, PublishRuns, LinkRuns, RemoveRuns, HideRuns, PublishDirectoryRuns DEF HostStep

LEMMA UndoHead ==
  ASSUME Undoing
  PROVE  /\ Accepted /\ todo # <<>> /\ request' = request /\ entry' = entry /\ args \in UndoSteps /\ args \in Step
         /\ Undoes(args) /\ Ready(args, Range(todo)) /\ args \in Range(todo)
         /\ Tail(todo) \in Ordered(Step, Early) /\ Range(todo) = {args} \cup Range(Tail(todo))
         /\ \A x \in Range(Tail(todo)) :
              x \in Step /\ x[1] # "refuse" /\ Undoes(x) /\ Ready(x, Range(todo)) /\ ~Spoils(args, x)
<1> DEFINE s == todo
<1>1. s \in Ordered(Step, Early) /\ s # <<>> /\ s \in Seq(Step) /\ args = Head(s)
  BY DEF Undoing, UndoFits, HostFrame, Ordered, args
<1>2. args \in Step /\ Range(s) = {args} \cup Range(Tail(s)) /\ Range(s) \subseteq Step BY <1>1, TailIs, RangeOfSeq
<1>3. Tail(s) \in Ordered(Step, Early) /\ \A x \in Range(Tail(s)) : <<args, x>> \notin Early BY <1>1, OrderedTail
<1>4. Accepted /\ args \in UndoSteps BY <1>1, HeadIn DEF Undoing
<1>5. \A x \in Range(s) : x[1] # "refuse" /\ Undoes(x) /\ Ready(x, Range(s)) BY DEF Undoing, UndoFits
<1> QED BY <1>1, <1>2, <1>3, <1>4, <1>5, PairsAre DEF Undoing, HostFrame, elsewhere

LEMMA ReadyStays ==
  ASSUME Undoing, NEW p, NEW i, Tidy(p, i), Mends(p, i), todo' = Tail(todo), NEW x \in Range(Tail(todo))
  PROVE  Ready(x, Range(todo))'
<1>0. /\ IInv /\ Accepted /\ ~Chained /\ PlainOK /\ request \in Requests /\ request' = request /\ entry'.preview = entry.preview
      /\ x \in Step /\ Undoes(x) /\ Ready(x, Range(todo)) /\ ~Spoils(args, x) /\ args \in Step /\ Undoes(args)
      /\ Range(todo) = {args} \cup Range(Tail(todo))
  BY UndoHead DEF Undoing, IInv, TypeOK
<1> DEFINE S == Range(todo)
           T == Range(Tail(todo))
<1>1. S = {args} \cup T /\ T = Range(todo') BY <1>0
<1>2. /\ \A q \in Paths : q # p => disk'[q] = disk[q]
      /\ \A j \in Operations : j # i => trash'[j] = trash[j]
  BY DEF Tidy
<1>3. /\ \A k \in Working : /\ k \in Operations /\ Source(k) \in Files
                            /\ Moving(k) => Target(k) \in Files /\ ~Trashing(k)
      /\ Files \subseteq Paths /\ Files \cap Directories = {} /\ Directories \subseteq Paths /\ Staged \subseteq Files
  BY <1>0, WorkingIs, PreviewIs, Distinct DEF IInv
<1>4. x[1] \in {"link", "unlink"} => x[2] \in Files /\ IsFile(x[2])'
  BY <1>0, StepIs, <1>2, <1>3 DEF Ready, IsFile, Spoils, Mends
<1>5. x[1] = "link" => disk'[x[3]].is = Absent
  <2> SUFFICES ASSUME x[1] = "link" PROVE disk'[x[3]].is = Absent OBVIOUS
  <2>1. PICK k \in Working : Moving(k) /\ x[2] = Target(k) /\ x[3] = Source(k) BY <1>0 DEF Undoes
  <2>2. p # x[3] BY <1>0, <2>1 DEF Mends, Spoils
  <2> QED BY <1>0, <1>2, <1>3, <2>1, <2>2 DEF Ready, Is
<1>6. x[1] = "unhide" => trash'[x[3]].is = request[x[3]].from /\ disk'[x[2]].is = Absent
  BY <1>0, StepIs, <1>2, <1>3 DEF Undoes, Working, Mends, Spoils, Ready, Is
<1>7. x[1] = "prepare-back" => stage'[x[2]] \notin Bytes \/ <<"discard", x[2]>> \in T
  BY <1>0, StepIs, <1>1 DEF Ready, Mends
<1>8. x[1] = "publish-back" => \/ back'[x[2]] = Kept(x[2]) /\ <<"discard", x[2]>> \notin T
                               \/ <<"prepare-back", x[2], Kept(x[2])>> \in T
  <2> SUFFICES ASSUME x[1] = "publish-back", <<"prepare-back", x[2], Kept(x[2])>> \notin T
               PROVE  back'[x[2]] = Kept(x[2]) /\ <<"discard", x[2]>> \notin T OBVIOUS
  <2> DEFINE k == x[2]
             d == <<"discard", k>>
             b == <<"prepare-back", k, Kept(k)>>
  <2>1. /\ k \in Stages /\ d[1] = "discard" /\ d[2] = k /\ b[1] = "prepare-back" /\ b[2] = k
        /\ (back[k] = Kept(k) /\ d \notin S) \/ b \in S
    BY <1>0, StepIs DEF Ready
  <2>2. ~(args[1] = "publish-back" /\ args[2] = k) BY <1>0 DEF Spoils
  <2>3. /\ args = b => back'[k] = Kept(k)
        /\ back'[k] = back[k] \/ back'[k] = Kept(k) \/ args = d
    BY <2>1, <2>2 DEF Mends
  <2>4. b \notin T OBVIOUS
  <2>5. ASSUME args = b, d \in T PROVE FALSE
    <3>1. ~Spoils(args, d) BY <2>5, UndoHead
    <3> HIDE DEF d, b
    <3> QED BY <2>1, <2>5, <3>1 DEF Spoils
  <2> HIDE DEF d, b
  <2>6. back'[k] = Kept(k) /\ d \notin T BY <1>1, <2>1, <2>3, <2>4, <2>5
  <2> QED BY <2>6 DEF d
<1>9. x[1] = "remove-directory" => disk'[x[2]].is = Dir BY <1>0, StepIs, <1>2, <1>3 DEF Ready, Is, Mends, Spoils
<1>10. Kept(x[2])' = Kept(x[2]) /\ request' = request BY <1>0, Rigid
<1> QED BY <1>1, <1>4, <1>5, <1>6, <1>7, <1>8, <1>9, <1>10 DEF Ready, Is

LEMMA UndoMoves ==
  ASSUME Undoing, NEW p, NEW i, Tidy(p, i), Mends(p, i), todo' = Tail(todo), pc' = "undo",
         journal' = journal, known' = known
  PROVE  Nearer
<1>0. /\ IInv /\ Accepted /\ ~Chained /\ PlainOK /\ request \in Requests /\ request' = request /\ entry'.preview = entry.preview
      /\ Tail(todo) \in Ordered(Step, Early) /\ Range(todo) = {args} \cup Range(Tail(todo)) /\ UndoFits
      /\ \A x \in Range(Tail(todo)) : x \in Step /\ x[1] # "refuse" /\ Undoes(x)
  BY UndoHead DEF Undoing, IInv, TypeOK
<1>1. LeftOK' /\ HiddenOK' /\ PlainOK' BY <1>0, TidyKeeps DEF Undoing
<1>2. /\ Working' = Working /\ NewDirectories' = NewDirectories /\ FilePaths' = FilePaths /\ pre' = pre
      /\ Early' = Early /\ Step' = Step /\ (SelfReferring' <=> SelfReferring)
      /\ \A j : Source(j)' = Source(j) /\ Target(j)' = Target(j) /\ (Moving(j)' <=> Moving(j))
      /\ \A x : Undoes(x)' <=> Undoes(x)
  BY <1>0, Rigid
<1>3. \A q \in Paths : q # p => disk'[q] = disk[q] BY DEF Tidy
<1>4. FilePaths \subseteq Paths /\ NewDirectories \subseteq Directories /\ Directories \subseteq Paths
  BY <1>0, PreviewIs, Distinct DEF FilePaths, IInv
<1>5. \A x \in Range(todo') : x[1] # "refuse" /\ Undoes(x)' /\ Ready(x, Range(todo))' BY <1>0, <1>2, ReadyStays
<1>6. \A x, q : Repairs(x, q)' <=> Repairs(x, q) BY <1>2 DEF Repairs
<1>7. ASSUME NEW q \in FilePaths PROVE disk'[q].is = pre[q] \/ \E x \in Range(todo') : Repairs(x, q)
  BY <1>7, <1>0, <1>3, <1>4 DEF Mends, UndoFits, Is
<1>8. ASSUME NEW d \in NewDirectories PROVE disk'[d].is = Absent \/ <<"remove-directory", d>> \in Range(todo')
  <2>1. CASE d = p BY <1>4, <2>1 DEF Mends
  <2>2. CASE d # p
    <3> DEFINE r == <<"remove-directory", d>>
    <3>1. args # r BY <2>2 DEF Mends
    <3>2. disk[d].is = Absent \/ r \in Range(todo) BY <1>0 DEF UndoFits, Is, Ahead
    <3> HIDE DEF r
    <3>3. disk'[d].is = Absent \/ r \in Range(todo') BY <1>0, <1>3, <1>4, <2>2, <3>1, <3>2
    <3> QED BY <3>3 DEF r
  <2> QED BY <2>1, <2>2
<1>9. ASSUME NEW j \in Working, Moving(j), disk'[Source(j)].is = Absent
      PROVE  <<"link", Target(j), Source(j)>> \in Range(todo')
  <2>1. p # Source(j) BY <1>9 DEF Mends
  <2> DEFINE l == <<"link", Target(j), Source(j)>>
  <2>2. args # l BY <2>1 DEF Mends
  <2>3. Source(j) \in Paths BY <1>0, WorkingIs, Distinct
  <2>4. l \in Range(todo) BY <1>0, <1>3, <1>9, <2>1, <2>3 DEF UndoFits, Is, Ahead
  <2> HIDE DEF l
  <2>5. l \in Range(todo') BY <1>0, <2>2, <2>4
  <2> QED BY <2>5 DEF l
<1>10. UndoFits' BY <1>0, <1>2, <1>5, <1>6, <1>7, <1>8, <1>9 DEF UndoFits, Is, Ahead
<1> QED BY <1>1, <1>10 DEF Nearer, Undoing

\* What is in a file when the request comes is in directories that are there.
LEMMA HousedIs ==
  ASSUME IInv, Accepted, touched \cap Footprint = {}, NEW p \in FilePaths, pre[p] # Absent
  PROVE  Housed(p)
<1> SUFFICES ASSUME NEW d \in Above[p] PROVE disk[d].is = Dir BY DEF Housed
<1>1. p \in DOMAIN final /\ p \in Paths /\ pre[p] = Start[p] BY PreviewIs, Distinct DEF IInv, FilePaths, PreviewOK
<1>2. Start[d] = Dir BY <1>1, TreeAssumption
<1>3. d \in Directories /\ d \in Paths BY <1>1, PathsAssumption, Distinct
<1>4. d \notin DOMAIN final BY <1>2, <1>3, Distinct DEF IInv, PreviewOK
<1>5. d \in Footprint BY <1>1 DEF Footprint
<1>6. d \in Paths \ (touched \cup DOMAIN final) BY <1>3, <1>4, <1>5
<1> QED BY <1>2, <1>6 DEF IInv, QuietOK, Is

\* A restore that meets no error does what it is at.
LEMMA UndoEnds ==
  ASSUME Undoing, ~FaultHere, NEW step, Host(step)
  PROVE  /\ args[1] = step /\ journal' = journal /\ known' = known
         /\ \A ok \in BOOLEAN : /\ Done(ok) => ok /\ pc' = "undo" /\ todo' = Tail(todo)
                                /\ NotDone(ok) => ~ok
<1>1. args[1] = step /\ journal' = journal /\ known' = known BY DEF Host, Doing, args
<1>2. ASSUME NEW ok \in BOOLEAN
      PROVE  /\ Done(ok) => ok /\ pc' = "undo" /\ todo' = Tail(todo)
             /\ NotDone(ok) => ~ok
  BY DEF Done, NotDone, Undoing
<1> QED BY <1>1, <1>2

\* A step that leaves the disk and the trash.
LEMMA UndoIdle ==
  ASSUME Undoing, disk' = disk, trash' = trash, todo' = Tail(todo), pc' = "undo", journal' = journal, known' = known,
         args[1] \in {"discard", "prepare-back"},
         \A k \in Stages :
           /\ stage'[k] \in Bytes => stage[k] \in Bytes /\ args # <<"discard", k>>
           /\ args = <<"prepare-back", k, Kept(k)>> => back'[k] = Kept(k)
           /\ back'[k] = back[k] \/ back'[k] = Kept(k) \/ args = <<"discard", k>>
  PROVE  Nearer
<1> DEFINE p == None
           i == 0
<1>0. /\ IInv /\ Accepted /\ request \in Requests BY UndoHead DEF Undoing, IInv, TypeOK
<1>1. /\ None \notin Paths /\ None \notin Staged /\ None \notin NewDirectories /\ None \notin FilePaths
      /\ None \notin Files /\ None \notin Directories /\ 0 \notin Operations
  BY <1>0, RequestIs, PreviewIs, Distinct DEF IInv, FilePaths
<1>2. \A j \in Working : Source(j) # None /\ j # 0 /\ (Moving(j) \/ Copying(j) => Target(j) # None)
  BY <1>0, <1>1, WorkingIs
<1>3. Tidy(p, i) BY <1>1, <1>2 DEF Tidy
<1>4. \A q : ~Repairs(args, q) BY DEF Repairs
<1>5. Mends(p, i) BY <1>1, <1>2, <1>4 DEF Mends
<1> HIDE DEF p, i
<1> QED BY <1>3, <1>5, UndoMoves

\* A path that is put back.
LEMMA UndoOwned ==
  ASSUME Undoing, NEW p \in FilePaths, p \in Staged \cup Owned, \A q \in Paths : q # p => disk'[q] = disk[q], trash' = trash,
         todo' = Tail(todo), pc' = "undo", journal' = journal, known' = known, stage' = stage,
         \A k \in Stages : back'[k] = back[k] \/ (args[1] = "publish-back" /\ args[2] = k),
         p \in Staged => disk'[p].is = pre[p],
         \A k \in Working :
           /\ p \in {Source(k), Target(k)} =>
                /\ Copying(k) => CopyLeft(k)'
                /\ Moving(k) => MoveLeft(k)'
                /\ Trashing(k) => TrashLeft(k)'
           /\ Moving(k) /\ p = Source(k) =>
                \/ args[1] = "link" /\ args[2] = Target(k)
                \/ args[1] = "publish-back" /\ args[3] = p
           /\ Trashing(k) /\ p = Source(k) => args[1] = "unhide" /\ args[3] = k,
         disk'[p].is = pre[p] \/ \E x \in Range(Tail(todo)) : Repairs(x, p),
         disk'[p].is \in Bytes \/ (args[1] \in {"unlink", "undo-copy"} /\ args[2] = p),
         args[1] \in {"link", "publish-back", "unhide", "unlink", "undo-copy"},
         args[1] \in {"link", "publish-back"} => args[3] = p,
         args[1] \in {"unhide", "unlink", "undo-copy"} => args[2] = p
  PROVE  Nearer
<1> DEFINE i == 0
<1>0. /\ IInv /\ Accepted /\ request \in Requests /\ args \in Step /\ request' = request /\ entry'.preview = entry.preview
  BY UndoHead DEF Undoing, IInv, TypeOK
<1>1. /\ p \in Paths /\ p \in Files /\ p \notin Directories /\ p \notin NewDirectories /\ 0 \notin Operations
      /\ Absent \notin Bytes
  BY <1>0, RequestIs, PreviewIs, Distinct DEF IInv, FilePaths
<1>2. \A j \in Working : j # 0 BY <1>0, <1>1, WorkingIs
<1>3. p \in Staged => StagedLeft(p)' BY <1>0, Rigid DEF StagedLeft, Is
<1>4. \A j \in Working : Trashing(j) /\ p = Source(j) => TrashLeft(j)' OBVIOUS
<1>5. Tidy(p, i) BY <1>1, <1>2, <1>3, <1>4 DEF Tidy
<1>6. \A q : Repairs(args, q) => q = p BY DEF Repairs
<1>7. \A k \in Stages : /\ args # <<"discard", k>> /\ args # <<"prepare-back", k, Kept(k)>>
                        /\ stage'[k] = stage[k]
  OBVIOUS
<1>8. \A k \in Working :
        /\ Moving(k) /\ p = Source(k) => /\ disk'[p].is # Absent
                                         /\ \/ args[1] = "link" /\ args[2] = Target(k)
                                            \/ args[1] = "publish-back" /\ args[3] = p
        /\ args[1] = "link" /\ args[3] = Source(k) => p = Source(k)
        /\ Trashing(k) /\ p = Source(k) => args[1] = "unhide" /\ args[3] = k
  BY <1>1
<1>9. Mends(p, i) BY <1>1, <1>2, <1>6, <1>7, <1>8 DEF Mends
<1> HIDE DEF i
<1> QED BY <1>5, <1>9, UndoMoves

LEMMA DiscardUndoes ==
  ASSUME Undoing, ~FaultHere, DiscardPrepared
  PROVE  Nearer
<1>0. IInv /\ args \in Step BY UndoHead DEF Undoing
<1>1. Host("discard") /\ disk' = disk /\ trash' = trash BY DEF DiscardPrepared, SameDisk
<1>2. args[1] = "discard" /\ journal' = journal /\ known' = known /\ ~NotDone(TRUE) BY <1>1, UndoEnds
<1>3. Done(TRUE) /\ stage' = [stage EXCEPT ![args[2]] = None] /\ back' = [back EXCEPT ![args[2]] = None]
  BY <1>2 DEF DiscardPrepared
<1>4. pc' = "undo" /\ todo' = Tail(todo) BY <1>1, <1>3, UndoEnds
<1>5. args[2] \in Stages /\ args = <<"discard", args[2]>> BY <1>0, <1>2, StepIs
<1>6. \A k \in Stages :
        /\ stage'[k] \in Bytes => stage[k] \in Bytes /\ args # <<"discard", k>>
        /\ back'[k] = back[k] \/ args = <<"discard", k>>
  BY <1>0, Distinct, <1>3, <1>5 DEF IInv, TypeOK
<1>7. \A k \in Stages : args # <<"prepare-back", k, Kept(k)>> BY <1>2
<1> QED BY <1>1, <1>2, <1>4, <1>6, <1>7, UndoIdle

LEMMA PrepareBackUndoes ==
  ASSUME Undoing, ~FaultHere, PrepareBack
  PROVE  Nearer
<1> PICK k : k = args[2] OBVIOUS
<1> DEFINE ok == stage[args[2]] \in {None, Dir}
<1>0. /\ IInv /\ args \in Step /\ Undoes(args) /\ Ready(args, Range(todo)) /\ Range(todo) = {args} \cup Range(Tail(todo))
      /\ stage \in [Stages -> Bytes \cup {Dir, None}] /\ back \in [Stages -> Bytes \cup {None}]
  BY UndoHead DEF Undoing, IInv, TypeOK
<1>1. Host("prepare-back") /\ disk' = disk /\ trash' = trash BY DEF PrepareBack, SameDisk
<1>2. args[1] = "prepare-back" /\ journal' = journal /\ known' = known BY <1>1, UndoEnds
<1>3. k \in Stages /\ args[3] = Kept(k) /\ args = <<"prepare-back", k, Kept(k)>> BY <1>0, <1>2, StepIs DEF Undoes
<1>4. stage[k] \notin Bytes
  <2> SUFFICES ASSUME stage[k] \in Bytes PROVE FALSE OBVIOUS
  <2> DEFINE d == <<"discard", k>>
  <2>1. d \in Range(todo) /\ d[1] = "discard" /\ d[2] = k BY <1>0, <1>2 DEF Ready
  <2> HIDE DEF d
  <2>2. d \in Range(Tail(todo)) BY <1>0, <1>2, <2>1
  <2>3. ~Spoils(args, d) BY <2>2, UndoHead
  <2> QED BY <1>2, <2>1, <2>3 DEF Spoils
<1>5. ok BY <1>0, <1>3, <1>4
<1>6. Done(ok) /\ stage' = [stage EXCEPT ![k] = Dir] /\ back' = [back EXCEPT ![k] = Kept(k)]
  <2>1. ok \in BOOLEAN OBVIOUS
  <2>2. ~NotDone(ok)
    <3> HIDE DEF ok
    <3> QED BY <1>1, <1>5, <2>1, UndoEnds
  <2> QED BY <1>3, <2>2 DEF PrepareBack
<1>7. pc' = "undo" /\ todo' = Tail(todo)
  <2>1. ok \in BOOLEAN OBVIOUS
  <2> HIDE DEF ok
  <2> QED BY <1>1, <1>6, <2>1, UndoEnds
<1>8. \A j \in Stages :
        /\ stage'[j] \in Bytes => stage[j] \in Bytes
        /\ j # k => back'[j] = back[j]
        /\ back'[k] = Kept(k)
  BY <1>0, <1>3, <1>6, Distinct
<1>9. \A j \in Stages :
        /\ stage'[j] \in Bytes => stage[j] \in Bytes /\ args # <<"discard", j>>
        /\ args = <<"prepare-back", j, Kept(j)>> => back'[j] = Kept(j)
        /\ back'[j] = back[j] \/ back'[j] = Kept(j) \/ args = <<"discard", j>>
  BY <1>2, <1>8
<1> QED BY <1>1, <1>2, <1>7, <1>9, UndoIdle

\* What an operation of the request is for a restore.
LEMMA WorkIs ==
  ASSUME Undoing, NEW k \in Working
  PROVE  /\ k \in Operations /\ Source(k) \in FilePaths /\ Source(k) \in Owned /\ Source(k) \in Paths /\ Source(k) \notin Staged
         /\ pre[Source(k)] = request[k].from /\ request[k].from \in Bytes /\ request[k].from # Absent
         /\ Source(k) # None /\ Housed(Source(k)) /\ Source(k)' = Source(k) /\ Target(k)' = Target(k)
         /\ Trashing(k) => TrashLeft(k) /\ ~Moving(k) /\ ~Copying(k) /\ Target(k) = None
         /\ Moving(k) => MoveLeft(k) /\ ~Copying(k) /\ ~Trashing(k) /\ request[k].to \in Bytes
         /\ Copying(k) => CopyLeft(k) /\ ~Moving(k) /\ ~Trashing(k)
         /\ Moving(k) \/ Copying(k) =>
              /\ Target(k) \in FilePaths /\ Target(k) \in Owned /\ Target(k) \in Paths /\ Target(k) \notin Staged
              /\ pre[Target(k)] = Absent /\ Target(k) # Source(k) /\ Target(k) # None
         /\ \A j \in Working : {Source(k), Target(k)} \cap {Source(j), Target(j)} \subseteq {None} \/ j = k
         /\ ~SelfReferring /\ Moving(k) => request[k].to = request[k].from
         /\ SelfReferring => Moving(k) /\ k = 1
<1>0. /\ IInv /\ Accepted /\ request \in Requests /\ ~Chained /\ PlainOK /\ LeftOK /\ request' = request
      /\ entry'.preview = entry.preview /\ touched \cap Footprint = {}
  BY UndoHead DEF Undoing, IInv, TypeOK
<1>1. /\ Source(k) \in FilePaths \ Staged /\ pre[Source(k)] = request[k].from
      /\ Target(k) # None => Target(k) \in FilePaths \ Staged /\ pre[Target(k)] = Absent /\ Target(k) # Source(k)
      /\ \A j \in Working : j # k =>
              /\ Source(k) # Source(j) /\ Source(k) # Target(j) /\ Target(k) # Source(j)
              /\ Target(k) # None => Target(k) # Target(j)
  BY <1>0, PlainIs DEF IInv
<1>2. /\ k \in Operations /\ Source(k) # None /\ request[k].from \in Known
      /\ Trashing(k) => Target(k) = None /\ ~Moving(k) /\ ~Copying(k)
      /\ Moving(k) \/ Copying(k) => Target(k) \in Files /\ Target(k) # None /\ request[k].to \in Known /\ ~Trashing(k)
      /\ Copying(k) => ~Moving(k)
      /\ ~SelfReferring /\ Moving(k) => request[k].to = request[k].from
      /\ SelfReferring => Moving(k) /\ k = 1
  BY <1>0, WorkingIs
<1>3. request[k].from \in Bytes /\ request[k].from # Absent /\ (request[k].to \in Known => request[k].to \in Bytes)
  BY <1>2, Distinct
<1>4. Housed(Source(k)) BY <1>0, <1>1, <1>3, HousedIs
<1>5. Source(k)' = Source(k) /\ Target(k)' = Target(k) BY <1>0, Rigid
<1>6. FilePaths \subseteq Paths BY Distinct DEF FilePaths
<1>7. /\ Trashing(k) => TrashLeft(k)
      /\ Moving(k) => MoveLeft(k)
      /\ Copying(k) => CopyLeft(k)
  BY <1>0 DEF LeftOK
<1>8. Source(k) \in Owned /\ Target(k) \in Owned BY DEF Owned
<1> QED BY <1>1, <1>2, <1>3, <1>4, <1>5, <1>6, <1>7, <1>8

\* A step that can be taken is taken.
LEMMA Taken ==
  ASSUME Undoing, ~FaultHere, NEW step, Host(step), NEW ok \in BOOLEAN, ok, NEW done \in BOOLEAN, NEW failed \in BOOLEAN,
         (Done(ok) /\ done) \/ (NotDone(ok) /\ failed)
  PROVE  done /\ pc' = "undo" /\ todo' = Tail(todo) BY UndoEnds

LEMMA LinkUndoes ==
  ASSUME Undoing, ~FaultHere, LinkFile
  PROVE  Nearer
<1> PICK t : t = args[2] OBVIOUS
<1> PICK s : s = args[3] OBVIOUS
<1> DEFINE ok == IsFile(args[2]) /\ disk[args[3]].is = Absent /\ Housed(args[3])
<1>0. /\ IInv /\ args \in Step /\ Undoes(args) /\ Ready(args, Range(todo)) /\ Range(todo) = {args} \cup Range(Tail(todo))
      /\ disk \in [Paths -> Places] /\ UndoFits
  BY UndoHead DEF Undoing, IInv, TypeOK
<1>1. Host("link") /\ trash' = trash /\ stage' = stage /\ back' = back BY DEF LinkFile, private
<1>2. args[1] = "link" /\ journal' = journal /\ known' = known BY <1>1, UndoEnds
<1>3. PICK k \in Working : Moving(k) /\ t = Target(k) /\ s = Source(k) BY <1>0, <1>2 DEF Undoes
<1>4. ok BY <1>0, <1>2, <1>3, WorkIs DEF Ready, Is
<1>5. (Done(ok) /\ disk' = [disk EXCEPT ![s] = disk[t]]) \/ (NotDone(ok) /\ disk' = disk)
  BY DEF LinkFile, Puts, SameDisk
<1>6. ok \in BOOLEAN /\ disk[t].is \in Bytes /\ disk[s].is = Absent BY <1>4 DEF IsFile
<1>7. disk' = [disk EXCEPT ![s] = disk[t]] /\ pc' = "undo" /\ todo' = Tail(todo)
  <2> HIDE DEF ok
  <2> QED BY <1>1, <1>4, <1>5, <1>6, Taken
<1>8. disk'[s] = disk[t] /\ \A q \in Paths : q # s => disk'[q] = disk[q] BY <1>0, <1>3, <1>7, WorkIs
<1>9. disk[t].is = request[k].to BY <1>3, <1>6, WorkIs, Distinct DEF MoveLeft, Is
<1>10. MoveLeft(k)' /\ request' = request BY <1>3, <1>8, <1>9, WorkIs, UndoHead DEF MoveLeft, Is
<1>11. disk'[s].is = pre[s] \/ \E x \in Range(Tail(todo)) : Repairs(x, s)
  BY <1>3, <1>8, <1>9, WorkIs, <1>2, <1>6, <1>0 DEF Repairs, Is, UndoFits
<1>12. \A j \in Working : /\ s \in {Source(j), Target(j)} => j = k BY <1>3, WorkIs
<1>13. s \in FilePaths /\ s \in Owned /\ s \notin Staged /\ ~Copying(k) /\ ~Trashing(k) BY <1>3, WorkIs
<1> QED BY <1>1, <1>2, <1>3, <1>6, <1>7, <1>8, <1>10, <1>11, <1>12, <1>13, UndoOwned

LEMMA RemoveUndoes ==
  ASSUME Undoing, ~FaultHere, RemoveFile
  PROVE  Nearer
<1> PICK t : t = args[2] OBVIOUS
<1>0. /\ IInv /\ args \in Step /\ Undoes(args) /\ Ready(args, Range(todo)) /\ Range(todo) = {args} \cup Range(Tail(todo))
      /\ disk \in [Paths -> Places] /\ UndoFits /\ Nowhere.is = Absent /\ Accepted /\ request' = request
  BY UndoHead, NodeIs DEF Undoing, IInv, TypeOK
<1>1. Host("unlink") /\ trash' = trash /\ stage' = stage /\ back' = back BY DEF RemoveFile, private
<1>2. args[1] = "unlink" /\ journal' = journal /\ known' = known BY <1>1, UndoEnds
<1> DEFINE ok == IsFile(args[2])
<1>3. ok BY <1>0, <1>2 DEF Ready
<1>4. (Done(ok) /\ disk' = [disk EXCEPT ![t] = Nowhere]) \/ (NotDone(ok) /\ disk' = disk)
  BY DEF RemoveFile, Puts, SameDisk
<1>5. ok \in BOOLEAN BY DEF IsFile
<1>6. disk' = [disk EXCEPT ![t] = Nowhere] /\ pc' = "undo" /\ todo' = Tail(todo)
  <2> HIDE DEF ok
  <2> QED BY <1>1, <1>3, <1>4, <1>5, Taken
<1>7. t \in Paths BY <1>0, <1>2, StepIs, Distinct
<1>8. disk'[t].is = Absent /\ \A q \in Paths : q # t => disk'[q] = disk[q] BY <1>0, <1>6, <1>7
<1>9. ASSUME NEW k \in Working, Moving(k), t = Target(k) PROVE Nearer
  <2>1. disk[Source(k)].is # Absent
    <3> SUFFICES ASSUME disk[Source(k)].is = Absent PROVE FALSE OBVIOUS
    <3> DEFINE l == <<"link", Target(k), Source(k)>>
    <3>1. l \in Range(todo) /\ l[1] = "link" /\ l[2] = t BY <1>0, <1>9 DEF UndoFits, Is, Ahead
    <3> HIDE DEF l
    <3>2. l \in Range(Tail(todo)) BY <1>0, <1>2, <3>1
    <3>3. ~Spoils(args, l) BY <3>2, UndoHead
    <3> QED BY <1>2, <3>1, <3>3 DEF Spoils
  <2>2. MoveLeft(k)' BY <1>0, <1>8, <1>9, <2>1, WorkIs DEF MoveLeft, Is
  <2>3. \A j \in Working : t \in {Source(j), Target(j)} => j = k BY <1>9, WorkIs
  <2>4. t \in FilePaths /\ t \in Owned /\ t \notin Staged /\ ~Copying(k) /\ ~Trashing(k) /\ pre[t] = Absent /\ t # Source(k)
    BY <1>9, WorkIs
  <2> QED BY <1>1, <1>2, <1>6, <1>8, <1>9, <2>2, <2>3, <2>4, UndoOwned
<1>10. CASE t \in Staged /\ pre[t] = Absent
  BY <1>10, WorkIs, <1>7, Distinct, <1>1, <1>2, <1>6, <1>8, UndoOwned DEF Staged, Working
<1> QED BY <1>0, <1>2, <1>9, <1>10 DEF Undoes

LEMMA RestoreUndoes ==
  ASSUME Undoing, ~FaultHere, RestoreFromTrash
  PROVE  Nearer
<1> PICK s : s = args[2] OBVIOUS
<1> PICK k : k = args[3] OBVIOUS
<1> DEFINE ok == trash[args[3]] # Nowhere /\ Is(args[2], Absent) /\ Housed(args[2])
<1>0. /\ IInv /\ args \in Step /\ Undoes(args) /\ Ready(args, Range(todo)) /\ Nowhere.is = Absent
      /\ disk \in [Paths -> Places] /\ UndoFits /\ Accepted /\ request' = request
  BY UndoHead, NodeIs DEF Undoing, IInv, TypeOK
<1>1. Host("unhide") /\ trash' = trash /\ stage' = stage /\ back' = back BY DEF RestoreFromTrash, private
<1>2. args[1] = "unhide" /\ journal' = journal /\ known' = known BY <1>1, UndoEnds
<1>3. k \in Working /\ Trashing(k) /\ s = Source(k) BY <1>0, <1>2, StepIs DEF Undoes, Working
<1>4. ok /\ trash[k].is = request[k].from BY <1>0, <1>2, <1>3, WorkIs DEF Ready
<1>5. (Done(ok) /\ disk' = [disk EXCEPT ![s] = At(trash[k].is, <<"restored", s>>)]) \/ (NotDone(ok) /\ disk' = disk)
  BY DEF RestoreFromTrash, Puts, SameDisk
<1>6. ok \in BOOLEAN BY DEF Is, Housed
<1>7. disk' = [disk EXCEPT ![s] = At(trash[k].is, <<"restored", s>>)] /\ pc' = "undo" /\ todo' = Tail(todo)
  <2> HIDE DEF ok
  <2> QED BY <1>1, <1>4, <1>5, <1>6, Taken
<1>8. disk'[s].is = request[k].from /\ \A q \in Paths : q # s => disk'[q] = disk[q]
  BY <1>0, <1>3, <1>4, <1>7, WorkIs DEF At
<1>9. TrashLeft(k)' BY <1>0, <1>1, <1>3, <1>4, <1>8, WorkIs DEF TrashLeft, Is
<1>10. \A j \in Working : s \in {Source(j), Target(j)} => j = k BY <1>3, WorkIs
<1>11. s \in FilePaths /\ s \in Owned /\ s \notin Staged /\ ~Copying(k) /\ ~Moving(k) /\ pre[s] = request[k].from /\ request[k].from \in Bytes
  BY <1>3, WorkIs
<1> QED BY <1>1, <1>2, <1>3, <1>7, <1>8, <1>9, <1>10, <1>11, UndoOwned

LEMMA RemoveCopyUndoes ==
  ASSUME Undoing, ~FaultHere, RemoveCopy
  PROVE  Nearer
<1> PICK t : t = args[2] OBVIOUS
<1> DEFINE ok == disk[args[2]].is \in {args[3], Absent}
<1>0. /\ IInv /\ args \in Step /\ Undoes(args) /\ Nowhere.is = Absent
      /\ disk \in [Paths -> Places] /\ UndoFits /\ Accepted /\ request' = request
  BY UndoHead, NodeIs DEF Undoing, IInv, TypeOK
<1>1. Host("undo-copy") /\ trash' = trash /\ stage' = stage /\ back' = back BY DEF RemoveCopy, private
<1>2. args[1] = "undo-copy" /\ journal' = journal /\ known' = known BY <1>1, UndoEnds
<1>3. PICK k \in Working : Copying(k) /\ t = Target(k) /\ args[3] = request[k].from BY <1>0, <1>2 DEF Undoes
<1>4. ok BY <1>3, WorkIs DEF CopyLeft
<1>5. (Done(ok) /\ disk' = [disk EXCEPT ![t] = Nowhere]) \/ (NotDone(ok) /\ disk' = disk)
  BY DEF RemoveCopy, Puts, SameDisk
<1>6. ok \in BOOLEAN OBVIOUS
<1>7. disk' = [disk EXCEPT ![t] = Nowhere] /\ pc' = "undo" /\ todo' = Tail(todo)
  <2> HIDE DEF ok
  <2> QED BY <1>1, <1>4, <1>5, <1>6, Taken
<1>8. disk'[t].is = Absent /\ \A q \in Paths : q # t => disk'[q] = disk[q] BY <1>0, <1>3, <1>7, WorkIs
<1>9. CopyLeft(k)' BY <1>0, <1>3, <1>8, WorkIs DEF CopyLeft, Is
<1>10. \A j \in Working : t \in {Source(j), Target(j)} => j = k BY <1>3, WorkIs
<1>11. t \in FilePaths /\ t \in Owned /\ t \notin Staged /\ ~Trashing(k) /\ ~Moving(k) /\ pre[t] = Absent BY <1>3, WorkIs
<1> QED BY <1>1, <1>2, <1>3, <1>7, <1>8, <1>9, <1>10, <1>11, UndoOwned

LEMMA PublishBackUndoes ==
  ASSUME Undoing, ~FaultHere, PublishBack
  PROVE  Nearer
<1> PICK k : k = args[2] OBVIOUS
<1> PICK s : s = args[3] OBVIOUS
<1> DEFINE ok == back[args[2]] \in Bytes /\ Housed(args[3]) /\ disk[args[3]].is # Dir
<1>0. /\ IInv /\ args \in Step /\ Undoes(args) /\ Ready(args, Range(todo)) /\ Range(todo) = {args} \cup Range(Tail(todo))
      /\ disk \in [Paths -> Places] /\ back \in [Stages -> Bytes \cup {None}] /\ UndoFits /\ Accepted /\ request' = request
      /\ LeftOK /\ touched \cap Footprint = {}
  BY UndoHead DEF Undoing, IInv, TypeOK
<1>1. Host("publish-back") /\ trash' = trash /\ stage' = stage BY DEF PublishBack
<1>2. args[1] = "publish-back" /\ journal' = journal /\ known' = known BY <1>1, UndoEnds
<1>3. k \in Stages BY <1>0, <1>2, StepIs
<1>4. back[k] = Kept(k)
  <2> SUFFICES ASSUME back[k] # Kept(k) PROVE FALSE OBVIOUS
  <2> DEFINE b == <<"prepare-back", k, Kept(k)>>
  <2>1. b \in Range(todo) /\ b[1] = "prepare-back" /\ b[2] = k BY <1>0, <1>2 DEF Ready
  <2> HIDE DEF b
  <2>2. b \in Range(Tail(todo)) BY <1>0, <1>2, <2>1
  <2>3. ~Spoils(args, b) BY <2>2, UndoHead
  <2> QED BY <1>2, <2>1, <2>3 DEF Spoils
<1>5. /\ s \in FilePaths /\ s \in Paths /\ Kept(k) = pre[s] /\ pre[s] \in Bytes /\ disk[s].is # Dir
      /\ s \in Staged \/ (k \in Working /\ SelfReferring /\ s = Source(k))
  <2>1. CASE k = s /\ s \in Staged /\ pre[s] # Absent
    <3>1. s \in FilePaths /\ s \in Paths /\ s \in DOMAIN final /\ s \in Files BY <2>1, Distinct DEF Staged, FilePaths
    <3>2. {pre[s], final[s]} \subseteq Known \cup {Absent} BY <1>0, <3>1 DEF IInv, PreviewOK
    <3>3. disk[s].is \in {pre[s], final[s]}
      <4>1. StagedLeft(s) BY <1>0, <2>1 DEF LeftOK
      <4>2. disk[s].is = pre[s] \/ disk[s] = At(final[s], <<"staged", s>>) BY <4>1 DEF StagedLeft, Is
      <4> QED BY <4>2 DEF At
    <3> QED BY <2>1, <3>1, <3>2, <3>3, Distinct DEF Kept
  <2>2. CASE k \in Working /\ SelfReferring /\ s = Source(k)
    BY <1>0, <2>2, PreviewIs, WorkIs, Distinct DEF IInv, MoveLeft, Is, Kept
  <2> QED BY <1>0, <1>2, <2>1, <2>2 DEF Undoes
<1>6. ok BY <1>0, <1>5, HousedIs, Distinct, <1>4
<1>7. (Done(ok) /\ (disk' = [disk EXCEPT ![s] = At(Kept(k), <<"restored", k>>)] /\ back' = [back EXCEPT ![k] = None]))
      \/ (NotDone(ok) /\ disk' = disk)
  BY <1>4 DEF PublishBack, Puts, SameDisk
<1>8. ok \in BOOLEAN BY DEF Housed
<1>9. disk' = [disk EXCEPT ![s] = At(Kept(k), <<"restored", k>>)] /\ back' = [back EXCEPT ![k] = None]
      /\ pc' = "undo" /\ todo' = Tail(todo)
  <2> HIDE DEF ok
  <2> QED BY <1>1, <1>6, <1>7, <1>8, Taken
<1>10. /\ disk'[s].is = pre[s] /\ \A q \in Paths : q # s => disk'[q] = disk[q]
       /\ \A j \in Stages : back'[j] = back[j] \/ j = k
  BY <1>0, <1>5, <1>9 DEF At
<1>11. CASE s \in Staged BY <1>11, WorkIs, <1>5, Distinct, <1>1, <1>2, <1>9, <1>10, UndoOwned DEF Working
<1>12. CASE k \in Working /\ SelfReferring /\ s = Source(k)
  BY <1>0, <1>5, <1>10, <1>12, WorkIs, <1>1, <1>2, <1>9, UndoOwned DEF MoveLeft, Is
<1> QED BY <1>5, <1>11, <1>12

LEMMA DropUndoes ==
  ASSUME Undoing, ~FaultHere, DiscardTrash
  PROVE  Nearer
<1> PICK i : i = args[2] OBVIOUS
<1> DEFINE p == None
<1>0. /\ IInv /\ Accepted /\ request \in Requests /\ args \in Step /\ UndoFits /\ request' = request
      /\ Range(todo) = {args} \cup Range(Tail(todo)) /\ trash \in [Operations -> Places]
  BY UndoHead DEF Undoing, IInv, TypeOK
<1>1. Host("drop") /\ disk' = disk /\ stage' = stage /\ back' = back BY DEF DiscardTrash, SameDisk
<1>2. args[1] = "drop" /\ journal' = journal /\ known' = known BY <1>1, UndoEnds
<1>3. i \in Operations BY <1>0, <1>2, StepIs
<1>4. (Done(TRUE) /\ trash' = [trash EXCEPT ![i] = Nowhere]) \/ (NotDone(TRUE) /\ trash' = trash) BY DEF DiscardTrash
<1>5. trash' = [trash EXCEPT ![i] = Nowhere] /\ pc' = "undo" /\ todo' = Tail(todo) BY <1>1, <1>4, Taken
<1>6. trash'[i] = Nowhere /\ \A j \in Operations : j # i => trash'[j] = trash[j] BY <1>0, <1>3, <1>5
<1>7. ASSUME i \in Working, Trashing(i) PROVE TrashLeft(i)'
  <2>1. disk[Source(i)].is = request[i].from
    <3> SUFFICES ASSUME disk[Source(i)].is # request[i].from PROVE FALSE OBVIOUS
    <3>1. PICK x \in Range(todo) : Repairs(x, Source(i)) BY <1>0, <1>7, WorkIs DEF UndoFits, Is
    <3>2. x \in Range(Tail(todo)) BY <1>0, <1>2, <3>1 DEF Repairs
    <3>3. x \in Step /\ Undoes(x) /\ ~Spoils(args, x) BY <3>2, UndoHead
    <3>4. ~(x[1] = "unhide" /\ x[3] = i) BY <1>2, <3>3 DEF Spoils
    <3>5. CASE x[1] \in {"undo-copy", "unlink"} BY <3>1, <3>5, <3>3, <1>7, WorkIs DEF Repairs, Undoes
    <3>6. CASE x[1] = "unhide"
      <4>1. x[2] = Source(i) /\ Trashing(x[3]) /\ x[2] = Source(x[3]) /\ x[3] \in Operations
        BY <3>1, <3>3, <3>6, StepIs DEF Repairs, Undoes
      <4> QED BY <1>7, <3>4, <3>6, <4>1, WorkIs DEF Working
    <3>7. CASE x[1] = "publish-back" BY <3>1, <3>3, <3>7, <1>7, WorkIs DEF Repairs, Undoes
    <3>8. CASE x[1] = "link" BY <3>1, <3>3, <3>8, <1>7, WorkIs DEF Repairs, Undoes
    <3> QED BY <3>1, <3>5, <3>6, <3>7, <3>8 DEF Repairs
  <2> QED BY <1>0, <1>1, <1>6, <1>7, <2>1, WorkIs DEF TrashLeft, Is, Nowhere, At
<1>8. /\ None \notin Paths /\ None \notin Staged /\ None \notin NewDirectories /\ None \notin FilePaths
      /\ None \notin Files /\ None \notin Directories
  BY <1>0, PreviewIs, Distinct DEF IInv, FilePaths
<1>9. \A j \in Working : Source(j) # None /\ (Moving(j) \/ Copying(j) => Target(j) # None) BY WorkIs
<1>10. trash'[i].node = None BY <1>6 DEF Nowhere, At
<1>11. Tidy(p, i) BY <1>1, <1>2, <1>6, <1>7, <1>8, <1>9, <1>10 DEF Tidy
<1>12. \A q : ~Repairs(args, q) BY <1>2 DEF Repairs
<1>13. \A k \in Stages : args # <<"discard", k>> /\ args # <<"prepare-back", k, Kept(k)>> BY <1>2
<1>14. Mends(p, i) BY <1>1, <1>2, <1>8, <1>9, <1>12, <1>13 DEF Mends
<1> HIDE DEF p
<1> QED BY <1>2, <1>5, <1>11, <1>14, UndoMoves

LEMMA RemoveDirectoryUndoes ==
  ASSUME Undoing, ~FaultHere, RemoveDirectory
  PROVE  Nearer
<1> PICK d : d = args[2] OBVIOUS
<1> DEFINE ok == Is(args[2], Dir) /\ Empty(args[2])
<1>0. /\ IInv /\ Accepted /\ request \in Requests /\ args \in Step /\ args \in UndoSteps /\ UndoFits /\ request' = request
      /\ Range(todo) = {args} \cup Range(Tail(todo)) /\ disk \in [Paths -> Places] /\ Ready(args, Range(todo))
      /\ touched \cap Footprint = {} /\ Nowhere.is = Absent
  BY UndoHead, NodeIs DEF Undoing, IInv, TypeOK
<1>1. Host("remove-directory") /\ trash' = trash /\ stage' = stage /\ back' = back BY DEF RemoveDirectory, private
<1>2. args[1] = "remove-directory" /\ journal' = journal /\ known' = known BY <1>1, UndoEnds
<1>3. d \in NewDirectories /\ d \in Directories /\ d \in Paths /\ d \in DOMAIN final /\ Start[d] = Absent
  BY <1>0, <1>2, PreviewIs, Distinct DEF UndoSteps, IInv, PreviewOK
<1>4. ASSUME NEW q \in Paths, d \in Above[q] PROVE Is(q, Absent)
  <2>1. Start[q] = Absent BY <1>3, <1>4, TreeAssumption, Distinct
  <2>2. q # d BY <1>4, TreeAssumption
  <2>3. CASE q \in FilePaths
    <3>1. pre[q] = Absent BY <1>0, <2>1, <2>3 DEF FilePaths, IInv, PreviewOK
    <3> SUFFICES ASSUME ~Is(q, Absent) PROVE FALSE OBVIOUS
    <3>2. PICK x \in Range(todo) : Repairs(x, q) BY <1>0, <2>3, <3>1 DEF UndoFits
    <3>3. x \in Range(Tail(todo)) BY <1>0, <1>2, <3>2 DEF Repairs
    <3>4. ~Spoils(args, x) BY <3>3, UndoHead
    <3> QED BY <1>2, <3>2, <3>4 DEF Repairs, Spoils
  <2>4. CASE q \in NewDirectories
    <3> SUFFICES ASSUME ~Is(q, Absent) PROVE FALSE OBVIOUS
    <3> DEFINE r == <<"remove-directory", q>>
    <3>1. r \in Range(todo) /\ r[1] = "remove-directory" /\ r[2] = q BY <1>0, <2>4 DEF UndoFits, Ahead
    <3> HIDE DEF r
    <3>2. r \in Range(Tail(todo)) BY <1>0, <2>2, <3>1
    <3>3. ~Spoils(args, r) BY <3>2, UndoHead
    <3> QED BY <1>2, <1>4, <3>1, <3>3 DEF Spoils
  <2>5. CASE q \notin DOMAIN final BY <1>3, <1>4, <1>0, <2>1, <2>5 DEF Footprint, IInv, QuietOK
  <2>6. q \in DOMAIN final => q \in FilePaths \/ q \in NewDirectories BY <1>0, PreviewIs, Distinct DEF IInv, FilePaths
  <2> QED BY <2>3, <2>4, <2>5, <2>6
<1>5. ok BY <1>0, <1>2, <1>4 DEF Ready, Empty
<1>6. (Done(ok) /\ disk' = [disk EXCEPT ![d] = Nowhere]) \/ (NotDone(ok) /\ disk' = disk)
  BY DEF RemoveDirectory, Puts, SameDisk
<1>7. ok \in BOOLEAN BY DEF Is, Empty
<1>8. disk' = [disk EXCEPT ![d] = Nowhere] /\ pc' = "undo" /\ todo' = Tail(todo)
  <2> HIDE DEF ok
  <2> QED BY <1>1, <1>5, <1>6, <1>7, Taken
<1>9. disk'[d].is = Absent /\ \A q \in Paths : q # d => disk'[q] = disk[q] BY <1>0, <1>3, <1>8
<1>10. d \notin Staged /\ d \notin FilePaths /\ d \notin Files /\ 0 \notin Operations
  BY <1>0, <1>3, PreviewIs, Distinct DEF IInv, FilePaths
<1>11. \A j \in Working : d # Source(j) /\ j # 0 /\ (Moving(j) \/ Copying(j) => d # Target(j)) BY <1>10, WorkIs
<1>12. DirectoryLeft(d)' BY <1>9 DEF DirectoryLeft, Is
<1>13. Tidy(d, 0) BY <1>1, <1>2, <1>3, <1>9, <1>10, <1>11, <1>12 DEF Tidy
<1>14. \A q : ~Repairs(args, q) BY <1>2 DEF Repairs
<1>15. \A k \in Stages : args # <<"discard", k>> /\ args # <<"prepare-back", k, Kept(k)>> BY <1>2
<1>16. Mends(d, 0) BY <1>1, <1>2, <1>9, <1>10, <1>11, <1>14, <1>15 DEF Mends
<1> QED BY <1>2, <1>8, <1>13, <1>16, UndoMoves

\* A restore that is left alone, and that meets no error, goes on.
LEMMA UndoKeeps ==
  ASSUME Undoing, ~FaultHere, HostStep
  PROVE  Nearer
<1>1. args[1] \in {"discard", "undo-copy", "link", "unlink", "unhide", "drop", "prepare-back",
                   "publish-back", "remove-directory"} BY UndoHead DEF UndoSteps
<1>2. ~(PrepareFile \/ PublishFile \/ HideInTrash \/ PrepareDirectory \/ PublishDirectory \/ Compare \/ PersistIdentities
        \/ SavePhase)
  BY <1>1 DEF PrepareFile, PublishFile, HideInTrash, PrepareDirectory, PublishDirectory, Compare, PersistIdentities, SavePhase,
              Host, Doing, args
<1> QED BY <1>2, DiscardUndoes, PrepareBackUndoes, PublishBackUndoes, LinkUndoes, RemoveUndoes, RestoreUndoes,
           DropUndoes, RemoveCopyUndoes, RemoveDirectoryUndoes DEF HostStep

-----------------------------------------------------------------------------
(* Between them.                                                           *)

\* What is calm was calm before, and an error of a restore ends it.
LEMMA CalmBefore ==
  ASSUME IInv, [Next]_vars, pc # "submit", Calm'
  PROVE  /\ Calm /\ ~Fault("undoing") /\ ~Fault("commit") /\ touched' \cap Footprint = {}
         /\ request' = request /\ entry'.preview = entry.preview
<1> DEFINE Harms == {"undoing", "commit"}
<1>1. /\ request' = request /\ entry'.preview = entry.preview /\ touched \subseteq touched'
      /\ faults' = faults \/ \E kind \in FaultKinds : Fault(kind)
  BY RequestStays
<1>2. (Chained' <=> Chained) /\ Footprint' = Footprint BY <1>1, Rigid
<1>3. faults \in Seq(FaultKinds) BY Shapes
<1>4. ASSUME NEW kind \in FaultKinds, Fault(kind)
      PROVE  /\ \A i \in DOMAIN faults : i \in DOMAIN faults' /\ faults'[i] = faults[i]
             /\ \E i \in DOMAIN faults' : faults'[i] = kind
  BY <1>3, <1>4, LenProperties, AppendProperties DEF Fault
<1>5. Errors(Harms) => Errors(Harms)' BY <1>4, <1>1 DEF Errors
<1>6. Fault("undoing") \/ Fault("commit") => Errors(Harms)' BY <1>4 DEF FaultKinds, Errors
<1> QED BY <1>1, <1>2, <1>5, <1>6 DEF Calm

\* What the footprint holds decides what is said of the calm.
LEMMA Untouched ==
  ASSUME IInv, Accepted, ~Chained, PlainOK, request' = request, entry'.preview = entry.preview,
         \A q \in DOMAIN final : disk'[q] = disk[q], \A i \in Operations : trash'[i] = trash[i],
         journal.known \subseteq journal'.known
  PROVE  /\ PlainOK' /\ (LeftOK => LeftOK')
         /\ UNCHANGED <<stage, back, journal, pc, todo>> => (RunFits => RunFits') /\ (pc = "undo" /\ UndoFits => UndoFits')
<1>0. /\ Working' = Working /\ FilePaths' = FilePaths /\ Owned' = Owned /\ Staged' = Staged
      /\ NewDirectories' = NewDirectories /\ Operations' = Operations /\ Stages' = Stages /\ pre' = pre /\ final' = final
      /\ (SelfReferring' <=> SelfReferring) /\ Late' = Late /\ Early' = Early /\ Step' = Step
      /\ \A i : /\ Source(i)' = Source(i) /\ Target(i)' = Target(i)
                /\ (Moving(i)' <=> Moving(i)) /\ (Copying(i)' <=> Copying(i)) /\ (Trashing(i)' <=> Trashing(i))
      /\ \A k : Content(k)' = Content(k) /\ Kept(k)' = Kept(k)
      /\ \A x : (Means(x)' <=> Means(x)) /\ (Undoes(x)' <=> Undoes(x))
      /\ (PlainOK' <=> PlainOK)
  BY Rigid
<1>1. /\ Staged \subseteq DOMAIN final /\ NewDirectories \subseteq DOMAIN final /\ FilePaths \subseteq DOMAIN final
      /\ Working \subseteq Operations
  BY PreviewIs DEF IInv, FilePaths, Working, Staged
<1>2. \A i \in Working : Source(i) \in DOMAIN final /\ (Moving(i) \/ Copying(i) => Target(i) \in DOMAIN final)
  BY PlainIs, WorkingIs, <1>1 DEF IInv, TypeOK
<1>3. ASSUME LeftOK PROVE LeftOK'
  <2>1. \A p \in Staged : StagedLeft(p)' BY <1>0, <1>1, <1>3 DEF LeftOK, StagedLeft, Is
  <2>2. \A d \in NewDirectories : DirectoryLeft(d)' BY <1>0, <1>1, <1>3 DEF LeftOK, DirectoryLeft, Is
  <2>3. \A i \in Working : Copying(i) => CopyLeft(i)' BY <1>0, <1>2, <1>3 DEF LeftOK, CopyLeft, Is
  <2>4. \A i \in Working : Moving(i) => MoveLeft(i)' BY <1>0, <1>2, <1>3 DEF LeftOK, MoveLeft, Is
  <2>5. \A i \in Working : Trashing(i) => TrashLeft(i)'
    BY <1>0, <1>1, <1>2, <1>3 DEF Nowhere, At, LeftOK, TrashLeft, Is
  <2>6. \A p \in FilePaths \ (Staged \cup Owned) : Is(p, pre[p])' BY <1>0, <1>1, <1>3 DEF LeftOK, Is
  <2> QED BY <1>0, <2>1, <2>2, <2>3, <2>4, <2>5, <2>6 DEF LeftOK
<1>4. ASSUME UNCHANGED <<stage, back, journal, pc, todo>>, RunFits PROVE RunFits'
  BY <1>4, <1>1, <1>2, <1>0 DEF Ahead, RunFits, Is
<1>5. ASSUME UNCHANGED <<stage, back, journal, pc, todo>>, pc = "undo", UndoFits PROVE UndoFits'
  BY <1>5, <1>0, RangeOfSeq, <1>1, <1>2, IsUndoStep, StepIs DEF Ahead, Repairs, UndoFits, IInv, UndoOK, UndoSteps,
     Undoes, Working, Ready, IsFile, Is
<1> QED BY <1>0, <1>3, <1>4, <1>5

\* Where nothing was done yet, everything is as it was found.
LEMMA NothingLeft ==
  ASSUME IInv, Accepted, Calm, PlainOK, Clean, Unchanged0
  PROVE  LeftOK
<1>1. /\ Staged \subseteq DOMAIN final /\ NewDirectories \subseteq DOMAIN final /\ FilePaths \subseteq DOMAIN final
      /\ Working \subseteq Operations /\ \A d \in NewDirectories : pre[d] = Absent
  BY PreviewIs DEF IInv, FilePaths, Working, Staged, NewDirectories
<1>2. \A p \in DOMAIN final : Is(p, pre[p]) BY DEF IInv, PreviewOK, Calm, Footprint, Unchanged0
<1>3. ASSUME NEW i \in Working
      PROVE  /\ Copying(i) => CopyLeft(i)
             /\ Moving(i) => MoveLeft(i)
             /\ Trashing(i) => TrashLeft(i)
  BY <1>1, <1>2, PlainIs, WorkingIs DEF IInv, Calm, TypeOK, CopyLeft, MoveLeft, TrashLeft, Clean, Is
<1> QED BY <1>1, <1>2, <1>3 DEF LeftOK, StagedLeft, DirectoryLeft

\* A step that leaves the vault alone.
LEMMA CalmKeeps ==
  ASSUME IInv, JInv, Accepted, Calm, request' = request, entry'.preview = entry.preview, UNCHANGED vault,
         pc' \notin {"fail", "unprove"}, journal'.phase # "FAILED",
         journal'.phase = "PREPARED" => LeftOK',
         pc' \in {"prepare", "run"} => RunFits', pc' = "undo" => UndoFits',
         pc' \in {"run", "evidence", "confirm", "commit", "plan", "undo"} => journal'.known \subseteq known'
  PROVE  JInv'
<1>1. PlainOK /\ HiddenOK BY DEF JInv
<1>2. Operations' = Operations /\ final' = final /\ (PlainOK' <=> PlainOK) BY Rigid
<1>3. HiddenOK' BY <1>1, <1>2 DEF HiddenOK, vault, private
<1> QED BY <1>1, <1>2, <1>3 DEF JInv

\* What the calm says of a step between the host's.
LEMMA CalmIs ==
  ASSUME IInv, JInv, Accepted, Calm, request' = request, entry'.preview = entry.preview, UNCHANGED vault
  PROVE  /\ PlainOK /\ HiddenOK /\ PlainOK' /\ pc \notin {"fail", "unprove"} /\ journal.phase # "FAILED"
         /\ journal.phase = "PREPARED" /\ journal'.known = journal.known => LeftOK'
         /\ journal.phase = "none" => LeftOK /\ LeftOK'
         /\ pc \in {"run", "evidence", "confirm", "commit", "plan", "undo"} => journal.known \subseteq known
         /\ pc \in {"prepare", "run"} => RunFits
         /\ pc = "undo" => UndoFits
<1>1. /\ PlainOK /\ HiddenOK /\ pc \notin {"fail", "unprove"} /\ journal.phase # "FAILED"
      /\ journal.phase = "PREPARED" => LeftOK
      /\ pc \in {"run", "evidence", "confirm", "commit", "plan", "undo"} => journal.known \subseteq known
      /\ pc \in {"prepare", "run"} => RunFits
      /\ pc = "undo" => UndoFits
  BY DEF JInv
<1>2. journal.phase = "none" => LeftOK /\ Clean /\ Unchanged0 BY <1>1, NothingLeft DEF IInv, QuietOK
<1>3. ~Chained BY DEF Calm
<1>4. disk' = disk /\ trash' = trash BY DEF vault, private
<1>5. journal.known \subseteq journal'.known => PlainOK' /\ (LeftOK => LeftOK') BY <1>1, <1>3, <1>4, Untouched
<1>6. journal.phase = "none" => LeftOK'
  <2> SUFFICES ASSUME journal.phase = "none" PROVE LeftOK' OBVIOUS
  <2>1. /\ Staged' = Staged /\ NewDirectories' = NewDirectories /\ pre' = pre /\ final' = final /\ PlainOK'
        /\ Working' = Working /\ FilePaths' = FilePaths /\ Owned' = Owned
        /\ \A i : /\ Source(i)' = Source(i) /\ Target(i)' = Target(i)
                  /\ (Moving(i)' <=> Moving(i)) /\ (Copying(i)' <=> Copying(i)) /\ (Trashing(i)' <=> Trashing(i))
    BY <1>1, Rigid
  <2>2. /\ \A p \in Staged : Is(p, pre[p])
        /\ \A d \in NewDirectories : Is(d, Absent)
    BY <1>2 DEF IInv, PreviewOK, Calm, Footprint, Staged, FilePaths, NewDirectories, Unchanged0
  <2>3. \A i \in Working : /\ Copying(i) => CopyLeft(i)'
                           /\ Moving(i) => MoveLeft(i)'
                           /\ Trashing(i) => TrashLeft(i)'
    BY <1>2, <1>4, <2>1 DEF Nowhere, At, LeftOK, CopyLeft, MoveLeft, TrashLeft, Is
  <2>4. \A p \in FilePaths \ (Staged \cup Owned) : Is(p, pre[p])' BY <1>2, <1>4, <2>1 DEF LeftOK, Is
  <2> QED BY <1>4, <2>1, <2>2, <2>3, <2>4 DEF LeftOK, StagedLeft, DirectoryLeft, Is
<1>7. PlainOK' BY <1>1, Rigid
<1> QED BY <1>1, <1>2, <1>5, <1>6, <1>7

LEMMA CalmHost ==
  ASSUME IInv, JInv, [Next]_vars, Calm', HostStep
  PROVE  JInv'
<1>1. HostFrame /\ IInv' BY HostStepIs DEF Good
<1>2. /\ pc \in {"run", "undo"} /\ journal'.phase = journal.phase /\ todo # <<>> /\ Accepted
  BY <1>1, Shapes DEF HostFrame
<1>3. Calm /\ ~Fault("undoing") /\ ~Fault("commit") /\ touched \cap Footprint = {} BY <1>2, CalmBefore DEF Calm
<1>4. journal.phase = "PREPARED" BY <1>3, <1>2, Shapes DEF Calm, Erred, Errors, PhaseOK
<1>5. ~Chained /\ PlainOK /\ HiddenOK /\ LeftOK /\ journal.known \subseteq known BY <1>2, <1>3, <1>4 DEF JInv, Calm
<1>6. CASE pc = "run"
  BY <1>1, <1>2, <1>3, <1>5, <1>6, RunKeeps, HostStepIs, <1>4 DEF Going, JInv, Good, Stops, Continues, Throws, Goto,
     Onward
<1>7. CASE pc = "undo" BY <1>3, <1>7, <1>1, <1>2, <1>5, UndoKeeps, <1>4 DEF FaultHere, Undoing, JInv, Nearer
<1> QED BY <1>2, <1>6, <1>7

\* From the submission to PREPARED.
LEMMA CalmSubmit ==
  ASSUME IInv, JInv, Submit, Accepted', Calm'
  PROVE  JInv'
<1>1. /\ pc = "submit" /\ journal' = journal /\ todo' = <<>> /\ request' = request /\ disk' = disk /\ trash' = trash
      /\ Preflight.accepted /\ pc' = "queued" /\ entry'.preview = [pre |-> Preflight.pre, final |-> Preflight.final]
  BY DEF Submit, Stands, Goto, elsewhere, vault, private, Accepted
<1>2. journal.phase = "none" BY <1>1, Shapes DEF PhaseOK
<1>3. pre' = Preflight.pre /\ final' = Preflight.final /\ request \in Requests BY <1>1 DEF pre, final, IInv, TypeOK
<1>4. Operations' = Operations /\ ~Chained BY <1>1 DEF Operations, Calm, Chained, MutationIndexes
<1>5. PlainView(Preflight, Len(request)) BY <1>1, <1>3, <1>4, PreviewIsPlain
<1>6. PlainOK'
  BY <1>1, <1>4, <1>3, <1>5 DEF Source, Target, Moving, Copying, Trashing, Working, Operations, PlainOK, PlainView
<1>7. HiddenOK'
  <2>1. \A i \in Operations : trash[i].node = None BY <1>2, <1>3, NodeIs DEF IInv, QuietOK, Clean
  <2> QED BY <1>1, <1>4, <2>1 DEF HiddenOK
<1> QED BY <1>1, <1>2, <1>6, <1>7 DEF JInv

LEMMA CalmPrepares ==
  ASSUME IInv, JInv, [Next]_vars, Calm', Begin \/ Capture \/ Prepare, Accepted'
  PROVE  JInv'
<1>0. /\ pc \in {"queued", "capture", "prepare"} /\ pc' \in {"capture", "prepare", "run", "stalled"} /\ UNCHANGED vault
      /\ pc = "prepare" /\ pc' = "run" => todo' = todo /\ journal' = Prepared
      /\ pc' = "prepare" => todo' = Execution /\ journal' = journal
      /\ journal' \in {journal, Prepared} /\ (pc' = "run" => pc = "prepare")
  BY DEF Begin, Capture, Prepare, Stands, Goto, elsewhere, Accepted
<1>1. Accepted BY <1>0, Shapes
<1>2. Calm /\ request' = request /\ entry'.preview = entry.preview BY <1>0, CalmBefore
<1>3. journal.phase = "none" /\ Prepared.phase = "PREPARED" /\ Prepared.known = {} BY <1>0, Shapes DEF PhaseOK, Prepared
<1>4. PlainOK /\ LeftOK' /\ (pc = "prepare" => RunFits) BY <1>0, <1>1, <1>2, <1>3, CalmIs
<1>5. /\ Working' = Working /\ Staged' = Staged /\ NewDirectories' = NewDirectories /\ Stages' = Stages
      /\ (SelfReferring' <=> SelfReferring) /\ Late' = Late /\ Step' = Step
      /\ \A i : /\ Source(i)' = Source(i) /\ Target(i)' = Target(i)
                /\ (Moving(i)' <=> Moving(i)) /\ (Trashing(i)' <=> Trashing(i))
      /\ \A k : Content(k)' = Content(k)
      /\ \A x : Means(x)' <=> Means(x)
  BY <1>2, Rigid
<1>6. disk' = disk /\ trash' = trash /\ stage' = stage BY <1>0 DEF vault, private
<1>7. ASSUME pc' = "prepare" PROVE RunFits'
  <2>1. \A k \in Stages : stage[k] \notin Bytes BY <1>3, Distinct DEF IInv, QuietOK
  <2>2. /\ Execution \in Ordered(Step, Late) /\ \A x \in Range(Execution) : Means(x)
        /\ \A p \in Staged \cup NewDirectories : \E S \in SUBSET Paths : p \in S /\ <<"journal", S>> \in Range(Execution)
        /\ \A i \in Working :
             /\ Moving(i) => <<"link", Source(i), Target(i)>> \in Range(Execution)
             /\ Trashing(i) => <<"hide", Source(i), i>> \in Range(Execution)
             /\ SelfReferring => <<"publish", i, Source(i)>> \in Range(Execution)
    BY <1>1, <1>2, <1>4, ExecutionFits DEF IInv, Calm
  <2>3. todo' = Execution BY <1>0, <1>7
  <2> HIDE DEF Execution
  <2> QED BY <1>5, <1>6, <2>1, <2>2, <2>3 DEF RunFits, Ahead
<1>8. ASSUME pc' = "run" PROVE RunFits' BY <1>0, <1>4, <1>8, <1>5, <1>6, <1>2 DEF Ahead, RunFits, Is
<1>9. journal'.phase # "FAILED" /\ (pc' = "run" => journal'.known = {}) BY <1>0, <1>3
<1> QED BY <1>0, <1>1, <1>2, <1>4, <1>7, <1>8, <1>9, CalmKeeps

\* A plan can be carried out, and what was carried out is complete.
LEMMA CalmPlans ==
  ASSUME IInv, JInv, [Next]_vars, Calm', PlanRestore \/ Settle
  PROVE  JInv'
<1>0. /\ pc \in {"plan", "undo"} /\ UNCHANGED vault /\ journal' = journal /\ known' = known
      /\ pc = "plan" => \/ Restorable(Restore) /\ pc' = "undo" /\ todo' = Restore
                        \/ pc' = "fail" /\ (Restorable(Restore) => Fault("undoing"))
      /\ pc = "undo" => todo = <<>> /\ pc' = IF Restored THEN "settle" ELSE "fail"
  BY DEF PlanRestore, Settle, Stands, Goto
<1>1. Accepted BY <1>0, Shapes
<1>2. Calm /\ ~Fault("undoing") /\ request' = request /\ entry'.preview = entry.preview BY <1>0, CalmBefore
<1>3. journal.phase = "PREPARED" BY <1>2, <1>0, Shapes DEF Calm, Erred, Errors, PhaseOK
<1>4. PlainOK /\ LeftOK' /\ journal.known \subseteq known /\ (pc = "undo" => UndoFits) BY <1>0, <1>1, <1>2, <1>3, CalmIs
<1>5. CASE pc = "undo" BY <1>0, <1>4, <1>5, ShortRange, <1>1, <1>2, <1>3, CalmKeeps DEF UndoFits, Restored, Ahead
<1>6. CASE pc = "plan"
  <2>1. LeftOK BY <1>1, <1>2, <1>3 DEF JInv
  <2>2. /\ Restorable(Restore) /\ Fitting(Restore)
        /\ \A p \in FilePaths : Is(p, pre[p]) \/ \E x \in Range(Restore) : Repairs(x, p)
        /\ \A d \in NewDirectories : Is(d, Absent) \/ <<"remove-directory", d>> \in Range(Restore)
        /\ \A i \in Working : Moving(i) /\ Is(Source(i), Absent) => <<"link", Target(i), Source(i)>> \in Range(Restore)
    BY <1>1, <1>2, <1>4, <2>1, RestoreFits DEF IInv, Calm
  <2>3. pc' = "undo" /\ todo' = Restore BY <1>0, <1>2, <1>6, <2>2
  <2>4. UndoFits'
    <3>1. /\ Working' = Working /\ FilePaths' = FilePaths /\ NewDirectories' = NewDirectories /\ Early' = Early
          /\ Step' = Step /\ pre' = pre /\ (SelfReferring' <=> SelfReferring)
          /\ \A i : /\ Source(i)' = Source(i) /\ Target(i)' = Target(i) /\ (Moving(i)' <=> Moving(i))
          /\ \A k : Kept(k)' = Kept(k)
          /\ \A x : Undoes(x)' <=> Undoes(x)
      BY <1>2, Rigid
    <3>2. disk' = disk /\ trash' = trash /\ stage' = stage /\ back' = back BY <1>0 DEF vault, private
    <3>3. \A x, p : Repairs(x, p)' <=> Repairs(x, p) BY <3>1 DEF Repairs
    <3> HIDE DEF Restore
    <3>4. \A x \in Range(Restore) : Ready(x, Range(todo))'
      <4>1. ASSUME NEW x \in Range(Restore) PROVE Ready(x, Range(todo))'
        BY <2>2, <1>2, <2>3, <3>1, <3>2 DEF Fitting, Ready, IsFile, Is
      <4> QED BY <4>1
    <3> QED BY <2>2, <2>3, <3>1, <3>2, <3>3, <3>4 DEF UndoFits, Fitting, Ahead, Is
  <2> QED BY <1>0, <1>1, <1>2, <1>3, <1>4, <2>3, <2>4, CalmKeeps
<1> QED BY <1>0, <1>5, <1>6

\* The other steps of the executor, and a crash.
LEMMA CalmGoesOn ==
  ASSUME IInv, JInv, [Next]_vars, Calm', Accepted',
         \/ Verify \/ AwaitEvidence \/ Confirm \/ Commit \/ Record \/ AwaitRestoreEvidence \/ RollBack
         \/ RecordRollback \/ Fail \/ Unprove \/ Open \/ Crash
  PROVE  JInv'
<1>0. pc \notin {"submit", "done"} /\ UNCHANGED vault
  BY DEF Verify, AwaitEvidence, Confirm, Inspect, Await, Commit, Record, AwaitRestoreEvidence, RollBack, RecordRollback,
         Records, Fail, Unprove, Open, Crash, Stands
<1>1. Accepted BY <1>0, Shapes
<1>2. Calm /\ ~Fault("undoing") /\ ~Fault("commit") /\ request' = request /\ entry'.preview = entry.preview
  BY <1>0, CalmBefore
<1>3. /\ PlainOK /\ pc \notin {"fail", "unprove"} /\ journal.phase # "FAILED"
      /\ journal.phase = "PREPARED" /\ journal'.known = journal.known => LeftOK'
      /\ pc \in {"run", "evidence", "confirm", "commit", "plan", "undo"} => journal.known \subseteq known
  BY <1>0, <1>1, <1>2, CalmIs
<1>4. /\ Persists("COMMITTED") => journal'.phase = "COMMITTED"
      /\ Persists("ROLLED_BACK") => journal'.phase = "ROLLED_BACK"
  BY Written DEF Phases
<1>5. CASE Verify \/ Confirm \/ AwaitEvidence
  BY <1>5, <1>0, <1>1, <1>2, <1>3, CalmKeeps DEF Verify, Confirm, Inspect, AwaitEvidence, Await, Stands, Goto
<1>6. CASE Commit BY <1>2, <1>4, <1>6, <1>0, <1>1, <1>3, CalmKeeps DEF Commit, Stands, Goto
<1>7. CASE AwaitRestoreEvidence \/ RollBack
  BY <1>2, <1>4, <1>7, <1>0, <1>1, <1>3, CalmKeeps DEF AwaitRestoreEvidence, Await, RollBack, Stands, Goto
<1>8. CASE Record \/ RecordRollback \/ Unprove
  BY <1>2, <1>8 DEF Record, RecordRollback, Unprove, Records, Goto, Accepted
<1>9. CASE Fail BY <1>3, <1>9 DEF Fail, Stands
<1>10. CASE Open BY <1>10, <1>3, Shapes, <1>0, <1>1, <1>2, CalmKeeps DEF Open, Goto, Phases
<1>11. CASE Crash BY <1>11, <1>0, <1>1, <1>2, <1>3, CalmKeeps DEF Crash, Goto
<1> QED BY <1>5, <1>6, <1>7, <1>8, <1>9, <1>10, <1>11

\* What others write elsewhere.
LEMMA CalmElsewhere ==
  ASSUME IInv, JInv, [Next]_vars, Calm', Accepted', Others \/ UNCHANGED vars
  PROVE  JInv'
<1>0. UNCHANGED <<stage, back, journal, pc, todo, known>> /\ Accepted
  BY DEF Others, executor, vars, vault, private, Accepted
<1>1. /\ Calm /\ touched' \cap Footprint = {} /\ request' = request /\ entry'.preview = entry.preview
  BY <1>0, CalmBefore DEF Accepted
<1>2. PlainOK /\ HiddenOK BY <1>0, <1>1 DEF JInv
<1>3. Operations' = Operations /\ final' = final /\ ~Chained /\ DOMAIN final \subseteq Paths /\ DOMAIN final \cap touched' = {}
  BY <1>0, <1>1, Rigid DEF Calm, Footprint, IInv, PreviewOK
<1>4. (\A q \in DOMAIN final : disk'[q] = disk[q]) /\ (\A i \in Operations : trash'[i] = trash[i]) /\ HiddenOK'
  <2>1. CASE UNCHANGED vars BY <1>2, <1>3, <2>1 DEF vars, vault, private, HiddenOK
  <2>2. CASE Others
    <3>1. PICK p \in Paths : p \in touched' /\ Foreign(p) BY <2>2, OthersAre
    <3>2. p \notin DOMAIN final BY <1>3, <3>1
    <3>3. \A i \in Operations : trash[i].node = disk[p].node => disk[p].node = None BY <1>2, <3>1, <3>2 DEF HiddenOK
    <3>4. \A i \in Operations : trash'[i] = trash[i] BY <3>1, <3>3 DEF Foreign
    <3>a. writes \in Nat BY BoundsAssumption DEF IInv, TypeOK
    <3>5. writes' = writes + 1 /\ writes' \in 1..MaxWrites /\ writes \in Nat BY <2>2, <3>a, OthersAre
    <3>6. \A i \in Operations : trash[i].node # New
      <4>1. Hidden(New) => writes' <= writes BY <3>5 DEF IInv, NodesOK, New
      <4> QED BY <3>5, <4>1 DEF Hidden
    <3>7. \A q \in DOMAIN final : disk'[q] = disk[q] BY <1>3, <3>1 DEF Foreign
    <3> HIDE DEF New
    <3>8. ASSUME NEW i \in Operations, NEW q \in Paths, trash'[i].node = disk'[q].node, disk'[q].node # None
          PROVE  q \in DOMAIN final BY <3>1, <1>2, <3>4, <3>6, <3>8 DEF Foreign, HiddenOK
    <3> QED BY <1>3, <3>4, <3>7, <3>8 DEF HiddenOK
  <2> QED BY <2>1, <2>2
<1>5. PlainOK' /\ (LeftOK => LeftOK') /\ (RunFits => RunFits') /\ (pc = "undo" /\ UndoFits => UndoFits')
  BY <1>0, <1>1, <1>2, <1>3, <1>4, Untouched
<1> QED BY <1>0, <1>1, <1>4, <1>5 DEF JInv

\* While all is calm no restore fails, whatever comes next.
LEMMA CalmNext ==
  ASSUME IInv, JInv, [Next]_vars
  PROVE  JInv'
<1> SUFFICES ASSUME Accepted', Calm' PROVE JInv' BY DEF JInv
<1>1. CASE Submit BY <1>1, CalmSubmit
<1>2. CASE HostStep BY <1>2, CalmHost
<1>3. CASE Begin \/ Capture \/ Prepare BY <1>3, CalmPrepares
<1>4. CASE PlanRestore \/ Settle BY <1>4, CalmPlans
<1>5. CASE Others \/ UNCHANGED vars BY <1>5, CalmElsewhere
<1>6. CASE \/ Verify \/ AwaitEvidence \/ Confirm \/ Commit \/ Record \/ AwaitRestoreEvidence \/ RollBack
           \/ RecordRollback \/ Fail \/ Unprove \/ Open \/ Crash
  BY <1>6, CalmGoesOn
<1> QED BY <1>1, <1>2, <1>3, <1>4, <1>5, <1>6 DEF Next, Work

\* So nothing is unproven that was calm.
LEMMA RestoresConverge ==
  ASSUME IInv, JInv, CrashesConverge, [Next]_vars
  PROVE  CrashesConverge'
<1> SUFFICES ASSUME entry'.state = "unproven", Calm' PROVE FALSE BY DEF CrashesConverge, Calm
<1>1. CASE pc = "submit"
  <2>1. entry.state = "none" BY <1>1, Shapes DEF PhaseOK
  <2>2. CASE Submit BY <2>2, Written DEF Submit, States
  <2>3. ~Work /\ ~Crash /\ ~Others
    <3>1. ~HostStep BY <1>1, HostStepIs DEF Good, HostFrame
    <3> QED BY <1>1, <3>1 DEF Work, Begin, Capture, Prepare, Verify, Confirm, Inspect, AwaitEvidence, AwaitRestoreEvidence,
              Await, Commit, Record, RecordRollback, Unprove, Records, PlanRestore, Settle, RollBack, Fail, Open, Crash,
              Others, Stands
  <2>4. CASE UNCHANGED vars BY <2>1, <2>4 DEF vars
  <2> QED BY <2>2, <2>3, <2>4 DEF Next
<1>2. CASE pc # "submit"
  <2>1. Calm BY <1>2, CalmBefore
  <2>2. entry.state # "unproven" BY <2>1 DEF CrashesConverge, Calm
  <2>3. pc # "unprove" BY <2>1, Shapes DEF JInv
  <2>4. CASE HostStep BY <2>2, <2>4, HostStepIs DEF Good, HostFrame
  <2>5. CASE Begin \/ Record \/ RecordRollback \/ Unprove
    BY <2>2, <2>3, <2>5, Written DEF Begin, Record, RecordRollback, Unprove, Records, Stands, States
  <2>6. CASE Others \/ Crash \/ UNCHANGED vars BY <2>2, <2>6 DEF Others, Crash, vars
  <2>7. CASE \/ Submit \/ Capture \/ Prepare \/ Verify \/ AwaitEvidence \/ Confirm \/ Commit \/ PlanRestore \/ Settle
             \/ AwaitRestoreEvidence \/ RollBack \/ Fail \/ Open
    BY <1>2, <2>2, <2>7 DEF Submit, Capture, Prepare, Verify, Confirm, Inspect, AwaitEvidence, AwaitRestoreEvidence, Await,
       Commit, PlanRestore, Settle, RollBack, Fail, Open, Stands
  <2> QED BY <2>4, <2>5, <2>6, <2>7 DEF Next, Work
<1> QED BY <1>1, <1>2

-----------------------------------------------------------------------------
(* What follows for every behaviour.                                       *)

\* The state of an execution, of the disk and of what is staged, kept back and
\* hidden in the trash has its type after every operation, error and crash.
THEOREM ExecutionIsTyped == Spec => []TypeOK
<1>1. Init => IInv BY InitIs
<1>2. IInv /\ [Next]_vars => IInv' BY NextIs
<1>3. IInv => TypeOK BY DEF IInv
<1> QED BY <1>1, <1>2, <1>3, PTL DEF Spec

\* What the registry says of a Change Set (change-set.ts: applied, not_applied)
\* is so on the disk at every path that nobody else wrote, and nothing private
\* is left over, for every request, vault, and number of errors and crashes.
THEOREM ProofStatesAreTrue == Spec => []OutcomesAreTrue
<1>1. Init => IInv BY InitIs
<1>2. IInv /\ [Next]_vars => IInv' BY NextIs
<1>3. IInv => OutcomesAreTrue BY OutcomesFollow
<1> QED BY <1>1, <1>2, <1>3, PTL DEF Spec

\* The restore (#restorePrepared) never takes away what somebody else had
\* written before it was planned, at any path.
THEOREM RestoresSpareOthers == Spec => OthersAreSpared
<1>1. Init => IInv BY InitIs
<1>2. IInv /\ [Next]_vars => IInv' BY NextIs
<1>3. IInv /\ [Next]_vars =>
        [pc = "undo" /\ ~late' => \A p \in Paths : Is(p, Theirs) => disk'[p].is = Theirs]_vars BY StepsSpare
<1> QED BY <1>1, <1>2, <1>3, PTL DEF Spec, OthersAreSpared

\* A request that stays at the head of the queue does so for a reason: an error
\* on its way to PREPARED or in a save of its result, somebody else's write where
\* it works, or a chain of mutations that cannot be built.
THEOREM StallsAreExplained == Spec => []StallHasACause
<1>1. Init => IInv /\ StallHasACause BY InitIs DEF Init, StallHasACause
<1>2. IInv /\ StallHasACause /\ [Next]_vars => IInv' /\ StallHasACause' BY NextIs, StallsHaveCauses
<1> QED BY <1>1, <1>2, PTL DEF Spec

\* A Change Set that is cut off at any point, any number of times, or that meets
\* an error of its own on the way (#executeMutation, #recover), is restored: its
\* result is unproven only when somebody else wrote where it works, or when the
\* restore itself met an error. And what stalls has a cause, for every request.
THEOREM ConsistentHolds == Spec => []Consistent
<1>1. Init => IInv /\ JInv /\ CrashesConverge /\ StallHasACause
  <2>1. Init => IInv BY InitIs
  <2> QED BY <2>1 DEF Init, JInv, Accepted, CrashesConverge, StallHasACause
<1>2. IInv /\ JInv /\ CrashesConverge /\ StallHasACause /\ [Next]_vars =>
        IInv' /\ JInv' /\ CrashesConverge' /\ StallHasACause' BY NextIs, CalmNext, RestoresConverge, StallsHaveCauses
<1>3. IInv /\ JInv /\ CrashesConverge /\ StallHasACause => Consistent BY DEF IInv, Consistent
<1> QED BY <1>1, <1>2, <1>3, PTL DEF Spec

==============================================================================
