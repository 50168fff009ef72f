--------------------------- MODULE SequenceLemmas ---------------------------
(***************************************************************************)
(* Facts about sets of positions and about parts of sequences, in the form *)
(* in which the proofs about the cache and about texts use them.           *)
(***************************************************************************)
EXTENDS Integers, SequencesExt, FiniteSetsExt, SequenceTheorems, FiniteSetTheorems,
        WellFoundedInduction, TLAPS

(* Min is a member of a nonempty set of naturals, and below the others.    *)
LEMMA MinFacts ==
  ASSUME NEW T, T \subseteq Nat, T # {}
  PROVE  Min(T) \in T /\ \A y \in T : Min(T) <= y
<1>1. IsWellFoundedOn(OpToRel(<, Nat), Nat)
  BY NatLessThanWellFounded
<1>2. PICK x \in T : \A y \in T : <<y, x>> \notin OpToRel(<, Nat)
  BY <1>1, WFMin
<1>3. \A y \in T : ~(y < x)  BY <1>2 DEF OpToRel
<1>4. \A y \in T : x <= y  BY <1>3
<1> QED  BY <1>4 DEF Min

(* Max is a member of a nonempty set of positions, and above the others.   *)
LEMMA MaxFacts ==
  ASSUME NEW n \in Nat, NEW T, T \subseteq 1 .. n, T # {}
  PROVE  Max(T) \in T /\ \A y \in T : y <= Max(T)
<1> DEFINE D == {d \in Nat : n - d \in T}
<1>1. D # {} /\ D \subseteq Nat
  <2>1. PICK y \in T : TRUE  OBVIOUS
  <2>2. n - y \in Nat /\ n - (n - y) = y  BY <2>1
  <2> QED  BY <2>2
<1>2. Min(D) \in D /\ \A d \in D : Min(D) <= d  BY <1>1, MinFacts
<1> DEFINE x == n - Min(D)
<1>3. x \in T  BY <1>2
<1>4. ASSUME NEW y \in T  PROVE x >= y
  <2>1. n - y \in D  BY <1>4
  <2>2. Min(D) <= n - y /\ Min(D) \in Nat  BY <1>2, <2>1
  <2> QED  BY <2>2
<1> HIDE DEF x
<1> QED  BY <1>3, <1>4 DEF Max

(* A function on the first numbers is a sequence.                          *)
LEMMA FunctionIsSeq ==
  ASSUME NEW S, NEW n \in Nat, NEW f \in [1 .. n -> S]
  PROVE  f \in Seq(S) /\ Len(f) = n /\ DOMAIN f = 1 .. n
<1>1. f \in Seq(S)  BY SeqDef
<1>2. DOMAIN f = 1 .. n  OBVIOUS
<1> QED  BY <1>1, <1>2, LenProperties

(* SubSeq within bounds, where every position is known.                    *)
LEMMA SubSeqFacts ==
  ASSUME NEW S, NEW s \in Seq(S), NEW m \in 1 .. Len(s) + 1, NEW n \in m - 1 .. Len(s)
  PROVE  /\ SubSeq(s, m, n) \in Seq(S) /\ Len(SubSeq(s, m, n)) = n - m + 1
         /\ DOMAIN SubSeq(s, m, n) = 1 .. n - m + 1
         /\ \A i \in 1 .. n - m + 1 : SubSeq(s, m, n)[i] = s[m + i - 1]
<1>1. Len(s) \in Nat /\ \A i \in m .. n : s[i] \in S
  BY LenProperties, ElementOfSeq
<1>2. /\ SubSeq(s, m, n) \in Seq(S)
      /\ Len(SubSeq(s, m, n)) = IF m <= n THEN n - m + 1 ELSE 0
      /\ \A i \in 1 .. n - m + 1 : SubSeq(s, m, n)[i] = s[m + i - 1]
  BY <1>1, SubSeqProperties
<1>3. Len(SubSeq(s, m, n)) = n - m + 1  BY <1>1, <1>2
<1> QED  BY <1>2, <1>3, LenProperties

(* Taking an element out moves the later ones up by one.                   *)
LEMMA RemoveAtFacts ==
  ASSUME NEW S, NEW s \in Seq(S), NEW i \in 1 .. Len(s)
  PROVE  /\ RemoveAt(s, i) \in Seq(S)
         /\ Len(RemoveAt(s, i)) = Len(s) - 1
         /\ \A k \in 1 .. Len(s) - 1 : RemoveAt(s, i)[k] = s[IF k < i THEN k ELSE k + 1]
<1> DEFINE a == SubSeq(s, 1, i - 1)
           b == SubSeq(s, i + 1, Len(s))
<1>1. Len(s) \in Nat /\ \A k \in 1 .. Len(s) : s[k] \in S
  BY LenProperties, ElementOfSeq
<1>2. a \in Seq(S) /\ Len(a) = i - 1 /\ \A k \in 1 .. i - 1 : a[k] = s[k]
  BY <1>1, SubSeqProperties
<1>3. b \in Seq(S) /\ Len(b) = Len(s) - i /\ \A k \in 1 .. Len(s) - i : b[k] = s[i + k]
  <2>1. \A k \in i + 1 .. Len(s) : s[k] \in S  BY <1>1
  <2>2. /\ b \in Seq(S) /\ Len(b) = IF i + 1 <= Len(s) THEN Len(s) - (i + 1) + 1 ELSE 0
        /\ \A k \in 1 .. Len(s) - (i + 1) + 1 : b[k] = s[(i + 1) + k - 1]
    BY <1>1, <2>1, SubSeqProperties
  <2> QED  BY <1>1, <2>2
<1> HIDE DEF a, b
<1>4. /\ a \o b \in Seq(S) /\ Len(a \o b) = Len(a) + Len(b)
      /\ \A k \in 1 .. Len(a) + Len(b) :
           (a \o b)[k] = IF k <= Len(a) THEN a[k] ELSE b[k - Len(a)]
  BY <1>2, <1>3, ConcatProperties
<1>5. RemoveAt(s, i) = a \o b  BY DEF RemoveAt, a, b
<1>6. ASSUME NEW k \in 1 .. Len(s) - 1
      PROVE  RemoveAt(s, i)[k] = s[IF k < i THEN k ELSE k + 1]
  <2>1. CASE k < i  BY <1>1, <1>2, <1>3, <1>4, <1>5, <2>1
  <2>2. CASE k >= i
    <3>1. (a \o b)[k] = b[k - (i - 1)]  BY <1>1, <1>2, <1>3, <1>4, <2>2
    <3>2. b[k - (i - 1)] = s[i + (k - (i - 1))]  BY <1>1, <1>3, <2>2
    <3>3. i + (k - (i - 1)) = k + 1  OBVIOUS
    <3> QED  BY <1>5, <2>2, <3>1, <3>2, <3>3
  <2> QED  BY <2>1, <2>2
<1>7. RemoveAt(s, i) \in Seq(S) /\ Len(RemoveAt(s, i)) = Len(s) - 1
  BY <1>1, <1>2, <1>3, <1>4, <1>5
<1> QED  BY <1>6, <1>7

(* A new first element moves the others down by one.                       *)
LEMMA ConsFacts ==
  ASSUME NEW S, NEW s \in Seq(S), NEW e \in S
  PROVE  /\ <<e>> \o s \in Seq(S)
         /\ Len(<<e>> \o s) = Len(s) + 1
         /\ (<<e>> \o s)[1] = e
         /\ \A k \in 2 .. Len(s) + 1 : (<<e>> \o s)[k] = s[k - 1]
<1>1. <<e>> \in Seq(S) /\ Len(<<e>>) = 1 /\ <<e>>[1] = e  OBVIOUS
<1>2. /\ <<e>> \o s \in Seq(S) /\ Len(<<e>> \o s) = Len(<<e>>) + Len(s)
      /\ \A k \in 1 .. Len(<<e>>) + Len(s) :
           (<<e>> \o s)[k] = IF k <= Len(<<e>>) THEN <<e>>[k] ELSE s[k - Len(<<e>>)]
  BY <1>1, ConcatProperties
<1>3. Len(s) \in Nat  OBVIOUS
<1> QED  BY <1>1, <1>2, <1>3

(* Induction over the positions of a sequence, for the set of those where  *)
(* a fact holds.                                                           *)
LEMMA UpTo ==
  ASSUME NEW n \in Nat, NEW T \in SUBSET (0 .. n), 0 \in T,
         \A i \in 1 .. n : i - 1 \in T => i \in T
  PROVE  T = 0 .. n
<1> DEFINE D == (0 .. n) \ T
<1> SUFFICES ASSUME D # {} PROVE FALSE  OBVIOUS
<1>1. D \subseteq Nat  OBVIOUS
<1>2. Min(D) \in D /\ \A y \in D : Min(D) <= y  BY <1>1, MinFacts
<1>3. PICK i \in D : \A y \in D : i <= y  BY <1>2
<1>4. i \in 1 .. n /\ i - 1 \in 0 .. n /\ ~(i <= i - 1)  BY <1>3
<1> QED  BY <1>3, <1>4

(* FlattenSeq is the last of the sequences that grow by one element of ss  *)
(* at a time.  They exist for every length, and are what the recursion in  *)
(* FlattenSeq says.                                                        *)
LEMMA FlattenGrows ==
  ASSUME NEW S, NEW ss \in Seq(Seq(S))
  PROVE  \E grown \in [0 .. Len(ss) -> Seq(S)] :
           /\ grown[0] = <<>> /\ grown[Len(ss)] = FlattenSeq(ss)
           /\ \A i \in 1 .. Len(ss) : grown[i] = grown[i - 1] \o ss[i]
<1> DEFINE n == Len(ss)
           Growing(k) == {g \in [0 .. k -> Seq(S)] :
                            g[0] = <<>> /\ \A i \in 1 .. k : g[i] = g[i - 1] \o ss[i]}
           Step(f) == [i \in 1 .. n |-> IF i = 1 THEN ss[i] ELSE f[i - 1] \o ss[i]]
           flatten == CHOOSE f : f = Step(f)
<1>1. n \in Nat /\ \A i \in 1 .. n : ss[i] \in Seq(S)  BY LenProperties, ElementOfSeq
<1>2. Growing(n) # {}
  <2> DEFINE T == {k \in 0 .. n : Growing(k) # {}}
  <2> HIDE DEF Growing
  <2>1. 0 \in T
    <3>1. [i \in 0 .. 0 |-> <<>>] \in Growing(0)  BY DEF Growing
    <3> QED  BY <1>1, <3>1
  <2>2. ASSUME NEW k \in 1 .. n, k - 1 \in T  PROVE k \in T
    <3>1. PICK g : g \in Growing(k - 1)  BY <2>2
    <3>2. /\ g \in [0 .. k - 1 -> Seq(S)] /\ g[0] = <<>>
          /\ \A i \in 1 .. k - 1 : g[i] = g[i - 1] \o ss[i]
      BY <3>1 DEF Growing
    <3>3. PICK h : h = [i \in 0 .. k |-> IF i = k THEN g[k - 1] \o ss[k] ELSE g[i]]  OBVIOUS
    <3>4. h \in [0 .. k -> Seq(S)]
      <4>1. g[k - 1] \in Seq(S) /\ ss[k] \in Seq(S)  BY <1>1, <3>2
      <4>2. g[k - 1] \o ss[k] \in Seq(S)  BY <4>1, ConcatProperties
      <4>3. \A i \in 0 .. k : i # k => i \in 0 .. k - 1  BY <1>1
      <4> QED  BY <3>2, <3>3, <4>2, <4>3
    <3>5. h[0] = <<>> /\ k \in Nat  BY <1>1, <3>2, <3>3
    <3>6. ASSUME NEW i \in 1 .. k  PROVE h[i] = h[i - 1] \o ss[i]
      <4>1. i \in 0 .. k /\ i - 1 \in 0 .. k /\ i - 1 # k  BY <3>5
      <4>2. h[i - 1] = g[i - 1]  BY <3>3, <4>1
      <4>3. CASE i = k  BY <3>3, <4>1, <4>2, <4>3
      <4>4. CASE i # k
        <5>1. i \in 1 .. k - 1  BY <3>5, <4>4
        <5> QED  BY <3>2, <3>3, <4>1, <4>2, <4>4, <5>1
      <4> QED  BY <4>3, <4>4
    <3>7. h \in Growing(k)  BY <3>4, <3>5, <3>6 DEF Growing
    <3> QED  BY <1>1, <3>7
  <2> HIDE DEF T
  <2>3. T \in SUBSET (0 .. n)  BY DEF T
  <2>4. T = 0 .. n  BY <1>1, <2>1, <2>2, <2>3, UpTo
  <2> QED  BY <1>1, <2>4 DEF T
<1>3. PICK g \in [0 .. n -> Seq(S)] :
        g[0] = <<>> /\ \A i \in 1 .. n : g[i] = g[i - 1] \o ss[i]
  BY <1>2
<1>4. ASSUME n # 0  PROVE ss[1] = g[1]
  <2>1. 1 \in 1 .. n /\ 1 - 1 = 0  BY <1>1, <1>4
  <2>2. g[1] = g[0] \o ss[1]  BY <1>3, <2>1
  <2>3. ss[1] \in Seq(S)  BY <1>1, <2>1
  <2>4. <<>> \o ss[1] = ss[1]  BY <2>3, ConcatEmptySeq
  <2> QED  BY <1>3, <2>2, <2>4
<1>5. flatten = Step(flatten)
  <2> DEFINE f == [i \in 1 .. n |-> g[i]]
  <2>1. ASSUME NEW i \in 1 .. n  PROVE f[i] = IF i = 1 THEN ss[i] ELSE f[i - 1] \o ss[i]
    <3>1. CASE i = 1
      <4>1. n # 0  BY <1>1
      <4> QED  BY <1>4, <3>1, <4>1
    <3>2. CASE i # 1
      <4>1. i - 1 \in 1 .. n  BY <1>1, <3>2
      <4> QED  BY <1>3, <3>2, <4>1
    <3> QED  BY <3>1, <3>2
  <2>2. f = Step(f)  BY <2>1
  <2> HIDE DEF f, Step
  <2> QED  BY <2>2
<1> HIDE DEF flatten
<1>6. ASSUME NEW i \in 1 .. n  PROVE flatten[i] = g[i]
  <2> DEFINE T == {k \in 0 .. n : k # 0 => flatten[k] = g[k]}
  <2>1. 0 \in T  BY <1>1
  <2>2. ASSUME NEW k \in 1 .. n, k - 1 \in T  PROVE k \in T
    <3>1. flatten[k] = IF k = 1 THEN ss[k] ELSE flatten[k - 1] \o ss[k]  BY <1>5
    <3>2. CASE k = 1
      <4>1. n # 0  BY <1>1
      <4> QED  BY <1>4, <2>2, <3>1, <3>2, <4>1
    <3>3. CASE k # 1
      <4>1. flatten[k - 1] = g[k - 1] /\ k \in 0 .. n  BY <1>1, <2>2, <3>3
      <4>2. g[k] = g[k - 1] \o ss[k]  BY <1>3
      <4> QED  BY <3>1, <3>3, <4>1, <4>2
    <3> QED  BY <3>2, <3>3
  <2> HIDE DEF T
  <2>3. T \in SUBSET (0 .. n)  BY DEF T
  <2>4. T = 0 .. n  BY <1>1, <2>1, <2>2, <2>3, UpTo
  <2>5. i \in T /\ i # 0  BY <1>1, <2>4
  <2> QED  BY <2>5 DEF T
<1>7. FlattenSeq(ss) = IF n = 0 THEN ss ELSE flatten[n]  BY DEF FlattenSeq, flatten
<1>8. g[n] = FlattenSeq(ss)
  <2>1. CASE n = 0  BY <1>3, <1>7, <2>1, EmptySeq
  <2>2. CASE n # 0
    <3>1. n \in 1 .. n  BY <1>1, <2>2
    <3> QED  BY <1>6, <1>7, <2>2, <3>1
  <2> QED  BY <2>1, <2>2
<1> HIDE DEF flatten, Step, Growing
<1> QED  BY <1>3, <1>8

(* The elements of a concatenation, and where they come from.              *)
LEMMA ConcatFacts ==
  ASSUME NEW S, NEW a \in Seq(S), NEW b \in Seq(S)
  PROVE  /\ a \o b \in Seq(S) /\ Len(a \o b) = Len(a) + Len(b)
         /\ Len(a) \in Nat /\ Len(b) \in Nat
         /\ \A k \in 1 .. Len(a) : (a \o b)[k] = a[k]
         /\ \A k \in 1 .. Len(b) : (a \o b)[Len(a) + k] = b[k]
<1>1. Len(a) \in Nat /\ Len(b) \in Nat  BY LenProperties
<1>2. /\ a \o b \in Seq(S) /\ Len(a \o b) = Len(a) + Len(b)
      /\ \A k \in 1 .. Len(a) + Len(b) :
           (a \o b)[k] = IF k <= Len(a) THEN a[k] ELSE b[k - Len(a)]
  BY ConcatProperties
<1>3. \A k \in 1 .. Len(a) : (a \o b)[k] = a[k]  BY <1>1, <1>2
<1>4. ASSUME NEW k \in 1 .. Len(b)  PROVE (a \o b)[Len(a) + k] = b[k]
  <2>1. /\ Len(a) + k \in 1 .. Len(a) + Len(b) /\ ~(Len(a) + k <= Len(a))
        /\ Len(a) + k - Len(a) = k
    BY <1>1
  <2> QED  BY <1>2, <2>1
<1> QED  BY <1>1, <1>2, <1>3, <1>4

(* off[i] elements of FlattenSeq(ss) come from the first i of ss, and each *)
(* element of each of them is found behind those.                          *)
Offsets(ss, off) ==
  /\ off \in [0 .. Len(ss) -> Nat] /\ off[0] = 0
  /\ \A i \in 1 .. Len(ss) : off[i] = off[i - 1] + Len(ss[i])
  /\ Len(FlattenSeq(ss)) = off[Len(ss)]
  /\ \A i \in 1 .. Len(ss) : \A k \in 1 .. Len(ss[i]) :
       /\ off[i - 1] + k \in 1 .. off[Len(ss)]
       /\ FlattenSeq(ss)[off[i - 1] + k] = ss[i][k]
  /\ \A m \in 1 .. off[Len(ss)] :
       \E i \in 1 .. Len(ss) : \E k \in 1 .. Len(ss[i]) : m = off[i - 1] + k

(* FlattenSeq puts the elements of the elements of ss in a row.            *)
LEMMA FlattenFacts ==
  ASSUME NEW S, NEW ss \in Seq(Seq(S))
  PROVE  FlattenSeq(ss) \in Seq(S) /\ \E off : Offsets(ss, off)
<1> DEFINE n == Len(ss)
<1>1. n \in Nat /\ \A i \in 1 .. n : ss[i] \in Seq(S)  BY LenProperties, ElementOfSeq
<1>2. PICK g \in [0 .. n -> Seq(S)] :
        /\ g[0] = <<>> /\ g[n] = FlattenSeq(ss)
        /\ \A i \in 1 .. n : g[i] = g[i - 1] \o ss[i]
  BY FlattenGrows
<1>3. PICK off : off = [i \in 0 .. n |-> Len(g[i])]  OBVIOUS
<1>4. off \in [0 .. n -> Nat] /\ off[0] = 0
  <2>1. \A i \in 0 .. n : Len(g[i]) \in Nat  BY <1>2, LenProperties
  <2> QED  BY <1>1, <1>2, <1>3, <2>1
<1>5. ASSUME NEW j \in 1 .. n
      PROVE  /\ off[j] = off[j - 1] + Len(ss[j]) /\ Len(ss[j]) \in Nat /\ off[j - 1] \in Nat
             /\ \A k \in 1 .. off[j - 1] : g[j][k] = g[j - 1][k]
             /\ \A k \in 1 .. Len(ss[j]) : g[j][off[j - 1] + k] = ss[j][k]
  <2>1. j \in 0 .. n /\ j - 1 \in 0 .. n  BY <1>1
  <2>2. g[j - 1] \in Seq(S) /\ ss[j] \in Seq(S) /\ g[j] = g[j - 1] \o ss[j]  BY <1>1, <1>2, <2>1
  <2>3. off[j] = Len(g[j]) /\ off[j - 1] = Len(g[j - 1])  BY <1>3, <2>1
  <2>4. PICK a, b : a = g[j - 1] /\ b = ss[j] /\ a \in Seq(S) /\ b \in Seq(S)  BY <2>2
  <2>5. Len(a \o b) = Len(a) + Len(b) /\ Len(a) \in Nat /\ Len(b) \in Nat
    BY <2>4, ConcatFacts
  <2>6. \A k \in 1 .. Len(a) : (a \o b)[k] = a[k]  BY <2>4, ConcatFacts
  <2>7. \A k \in 1 .. Len(b) : (a \o b)[Len(a) + k] = b[k]  BY <2>4, ConcatFacts
  <2> QED  BY <2>2, <2>3, <2>4, <2>5, <2>6, <2>7
<1> DEFINE Kept(j) == \A i \in 1 .. j : \A k \in 1 .. Len(ss[i]) :
                        /\ off[i - 1] + k \in 1 .. off[j]
                        /\ g[j][off[i - 1] + k] = ss[i][k]
           Known(j) == \A m \in 1 .. off[j] :
                         \E i \in 1 .. j : \E k \in 1 .. Len(ss[i]) : m = off[i - 1] + k
<1>6. Kept(n) /\ Known(n)
  <2> DEFINE T == {j \in 0 .. n : Kept(j) /\ Known(j)}
  <2>1. 0 \in T  BY <1>1, <1>4
  <2>2. ASSUME NEW j \in 1 .. n, j - 1 \in T  PROVE j \in T
    <3>1. j \in 0 .. n /\ j - 1 \in 0 .. n /\ j \in Nat  BY <1>1
    <3>2. Kept(j - 1) /\ Known(j - 1)  BY <2>2
    <3>3. /\ off[j] = off[j - 1] + Len(ss[j]) /\ Len(ss[j]) \in Nat /\ off[j - 1] \in Nat
      BY <1>5
    <3>4. Kept(j)
      <4> SUFFICES ASSUME NEW i \in 1 .. j, NEW k \in 1 .. Len(ss[i])
                   PROVE  /\ off[i - 1] + k \in 1 .. off[j]
                          /\ g[j][off[i - 1] + k] = ss[i][k]
        OBVIOUS
      <4>1. CASE i = j
        <5>1. off[j - 1] + k \in 1 .. off[j]  BY <3>3, <4>1
        <5> QED  BY <1>5, <4>1, <5>1
      <4>2. CASE i # j
        <5>1. i \in 1 .. j - 1  BY <3>1, <4>2
        <5>2. off[i - 1] + k \in 1 .. off[j - 1] /\ g[j - 1][off[i - 1] + k] = ss[i][k]
          BY <3>2, <5>1
        <5>3. off[i - 1] + k \in 1 .. off[j]  BY <3>3, <5>2
        <5> QED  BY <1>5, <5>2, <5>3
      <4> QED  BY <4>1, <4>2
    <3>5. Known(j)
      <4> SUFFICES ASSUME NEW m \in 1 .. off[j]
                   PROVE  \E i \in 1 .. j : \E k \in 1 .. Len(ss[i]) : m = off[i - 1] + k
        OBVIOUS
      <4>1. CASE m <= off[j - 1]
        <5>1. m \in 1 .. off[j - 1]  BY <3>3, <4>1
        <5>2. PICK i \in 1 .. j - 1 : \E k \in 1 .. Len(ss[i]) : m = off[i - 1] + k
          BY <3>2, <5>1
        <5>3. i \in 1 .. j  BY <3>1
        <5> QED  BY <5>2, <5>3
      <4>2. CASE m > off[j - 1]
        <5>1. m - off[j - 1] \in 1 .. Len(ss[j]) /\ m = off[j - 1] + (m - off[j - 1])
          BY <3>3, <4>2
        <5>2. j \in 1 .. j  BY <3>1
        <5> QED  BY <5>1, <5>2
      <4> QED  BY <3>3, <4>1, <4>2
    <3> QED  BY <3>1, <3>4, <3>5
  <2> HIDE DEF T
  <2>3. T \in SUBSET (0 .. n)  BY DEF T
  <2>4. T = 0 .. n  BY <1>1, <2>1, <2>2, <2>3, UpTo
  <2>5. n \in T  BY <1>1, <2>4
  <2> QED  BY <2>5 DEF T
<1>7. n \in 0 .. n  BY <1>1
<1>8. FlattenSeq(ss) \in Seq(S) /\ Len(FlattenSeq(ss)) = off[n]  BY <1>2, <1>3, <1>7
<1> HIDE DEF n
<1>9. /\ \A i \in 1 .. n : \A k \in 1 .. Len(ss[i]) :
           /\ off[i - 1] + k \in 1 .. off[n]
           /\ FlattenSeq(ss)[off[i - 1] + k] = ss[i][k]
      /\ Known(n)
  BY <1>2, <1>6
<1>10. \A i \in 1 .. n : off[i] = off[i - 1] + Len(ss[i])  BY <1>5
<1>11. off \in [0 .. Len(ss) -> Nat]  BY <1>4 DEF n
<1>12. Offsets(ss, off)  BY Zenon, <1>4, <1>8, <1>9, <1>10, <1>11 DEF n, Offsets
<1> QED  BY <1>8, <1>12

(* The set A grows by the sets B, and off by their sizes.                  *)
GrowsBy(n, P, A, B, off) ==
  /\ A \in [0 .. n -> SUBSET P] /\ B \in [1 .. n -> SUBSET P] /\ A[0] = {}
  /\ \A i \in 1 .. n : A[i] = A[i - 1] \cup B[i] /\ A[i - 1] \cap B[i] = {}
  /\ off \in [0 .. n -> Nat] /\ off[0] = 0
  /\ \A i \in 1 .. n : off[i] = off[i - 1] + Cardinality(B[i])

(* Then off is the size of A.                                              *)
LEMMA Counts ==
  ASSUME NEW n \in Nat, NEW P, IsFiniteSet(P), NEW A, NEW B, NEW off, GrowsBy(n, P, A, B, off)
  PROVE  \A i \in 0 .. n : off[i] = Cardinality(A[i])
<1> USE DEF GrowsBy
<1> DEFINE T == {i \in 0 .. n : off[i] = Cardinality(A[i])}
<1>1. 0 \in T
  <2>1. Cardinality({}) = 0  BY FS_EmptySet
  <2>2. 0 \in 0 .. n /\ off[0] = Cardinality(A[0])  BY <2>1
  <2> QED  BY <2>2
<1>2. ASSUME NEW i \in 1 .. n, i - 1 \in T  PROVE i \in T
  <2>1. i \in 0 .. n /\ i - 1 \in 0 .. n  OBVIOUS
  <2>2. IsFiniteSet(A[i - 1]) /\ IsFiniteSet(B[i])  BY <2>1, FS_Subset
  <2>3. /\ Cardinality(A[i - 1]) \in Nat /\ Cardinality(B[i]) \in Nat
        /\ Cardinality(A[i - 1] \cap B[i]) = 0
    BY <2>2, FS_EmptySet, FS_CardinalityType
  <2>4. Cardinality(A[i - 1] \cup B[i]) = Cardinality(A[i - 1]) + Cardinality(B[i])
                                         - Cardinality(A[i - 1] \cap B[i])
    BY Zenon, <2>2, FS_Union
  <2>5. off[i - 1] = Cardinality(A[i - 1])  BY <1>2
  <2>6. A[i] = A[i - 1] \cup B[i] /\ off[i] = off[i - 1] + Cardinality(B[i])  OBVIOUS
  <2>7. Cardinality(A[i]) = Cardinality(A[i - 1]) + Cardinality(B[i])
    BY <2>3, <2>4, <2>6
  <2>8. off[i] = Cardinality(A[i])  BY Zenon, <2>5, <2>6, <2>7
  <2> QED  BY <2>1, <2>8
<1> HIDE DEF T
<1>3. T \in SUBSET (0 .. n)  BY DEF T
<1>4. T = 0 .. n  BY <1>1, <1>2, <1>3, UpTo
<1> QED  BY <1>4 DEF T

(* A loop over n positions that appends what e has for a position of I,    *)
(* and nothing for the others.                                             *)
Filter(n, I, e) == FlattenSeq([i \in 1 .. n |-> IF i \in I THEN <<e[i]>> ELSE <<>>])

(* The place of i among the positions of I, and what it is to have one     *)
(* element for each of them, in order.                                     *)
Rank(I, i) == Cardinality({j \in I : j <= i})
Collects(F, I, e) ==
  /\ IsFiniteSet(I) /\ Cardinality(I) \in Nat /\ Len(F) = Cardinality(I)
  /\ \A i \in I : Rank(I, i) \in 1 .. Cardinality(I) /\ F[Rank(I, i)] = e[i]
  /\ \A m \in 1 .. Cardinality(I) : \E i \in I : F[m] = e[i]

(* The loop does.                                                          *)
LEMMA FilterFacts ==
  ASSUME NEW S, NEW n \in Nat, NEW I \in SUBSET (1 .. n), NEW e \in [I -> S]
  PROVE  Filter(n, I, e) \in Seq(S) /\ Collects(Filter(n, I, e), I, e)
<1> DEFINE ss == [i \in 1 .. n |-> IF i \in I THEN <<e[i]>> ELSE <<>>]
<1>1. ss \in Seq(Seq(S)) /\ Len(ss) = n
  <2>1. \A i \in 1 .. n : (IF i \in I THEN <<e[i]>> ELSE <<>>) \in Seq(S)  OBVIOUS
  <2> QED  BY <2>1
<1>2. \A i \in 1 .. n : /\ i \in I => Len(ss[i]) = 1 /\ ss[i][1] = e[i]
                        /\ i \notin I => Len(ss[i]) = 0
  OBVIOUS
<1> HIDE DEF ss
<1>3. PICK off : Offsets(ss, off)  BY <1>1, FlattenFacts
<1> USE DEF Offsets
<1>4. IsFiniteSet(I) /\ Cardinality(I) \in Nat
  <2>1. IsFiniteSet(1 .. n)  BY FS_Interval
  <2>2. IsFiniteSet(I)  BY <2>1, FS_Subset
  <2> QED  BY <2>2, FS_CardinalityType
<1>5. \A i \in 0 .. n : off[i] = Cardinality({j \in I : j <= i})
  <2> DEFINE A == [i \in 0 .. n |-> {j \in I : j <= i}]
             B == [i \in 1 .. n |-> I \cap {i}]
  <2>1. A \in [0 .. n -> SUBSET I] /\ B \in [1 .. n -> SUBSET I]  BY Zenon
  <2>7. A[0] = {}
    <3>1. A[0] = {j \in I : j <= 0}  OBVIOUS
    <3>2. \A j \in I : ~(j <= 0)  OBVIOUS
    <3> QED  BY Zenon, <3>1, <3>2
  <2>2. ASSUME NEW i \in 1 .. n
        PROVE  A[i] = A[i - 1] \cup B[i] /\ A[i - 1] \cap B[i] = {}
    <3>1. /\ A[i] = {j \in I : j <= i} /\ A[i - 1] = {j \in I : j <= i - 1}
          /\ B[i] = I \cap {i}
      OBVIOUS
    <3>2. \A j \in I : (j <= i <=> j <= i - 1 \/ j = i) /\ ~(j <= i - 1 /\ j = i)  OBVIOUS
    <3> HIDE DEF A, B
    <3> QED  BY <3>1, <3>2
  <2>3. ASSUME NEW i \in 1 .. n  PROVE off[i] = off[i - 1] + Cardinality(B[i])
    <3>0. off[i] = off[i - 1] + Len(ss[i])  BY <1>1, <1>3
    <3>1. CASE i \in I
      <4>1. B[i] = {i}  BY <3>1
      <4>2. Cardinality(B[i]) = 1  BY <4>1, FS_Singleton
      <4> QED  BY <1>2, <3>0, <3>1, <4>2
    <3>2. CASE i \notin I
      <4>1. B[i] = {}  BY <3>2
      <4>2. Cardinality(B[i]) = 0  BY <4>1, FS_EmptySet
      <4>3. Len(ss[i]) = 0  BY <1>2, <3>2
      <4> QED  BY <3>0, <4>2, <4>3
    <3> QED  BY <3>1, <3>2
  <2>4. \A i \in 0 .. n : A[i] = {j \in I : j <= i}  OBVIOUS
  <2> HIDE DEF A, B
  <2>5. off \in [0 .. n -> Nat] /\ off[0] = 0  BY <1>1, <1>3
  <2>6. \A i \in 0 .. n : off[i] = Cardinality(A[i])
    <3>1. GrowsBy(n, I, A, B, off)  BY Zenon, <2>1, <2>7, <2>2, <2>3, <2>5 DEF GrowsBy
    <3> QED  BY <1>4, <3>1, Counts
  <2> QED  BY <2>4, <2>6
<1>6. off[n] = Cardinality(I)
  <2>1. \A j \in I : j <= n  OBVIOUS
  <2>2. {j \in I : j <= n} = I  BY Zenon, <2>1
  <2> QED  BY <1>5, <2>2
<1>7. ASSUME NEW i \in I
      PROVE  /\ off[i] \in 1 .. Cardinality(I) /\ FlattenSeq(ss)[off[i]] = e[i]
             /\ off[i] = Cardinality({j \in I : j <= i})
  <2>1. i \in 1 .. n /\ i \in 0 .. n /\ i - 1 \in 0 .. n  OBVIOUS
  <2>2. Len(ss[i]) = 1 /\ ss[i][1] = e[i]  BY <1>2
  <2>3. 1 \in 1 .. Len(ss[i])  BY <2>2
  <2>4. off[i - 1] + 1 \in 1 .. off[n] /\ FlattenSeq(ss)[off[i - 1] + 1] = e[i]
    BY <1>1, <1>3, <2>1, <2>2, <2>3
  <2>5. off[i] = off[i - 1] + 1  BY <1>1, <1>3, <2>1, <2>2
  <2> QED  BY <1>1, <1>5, <1>6, <2>1, <2>4, <2>5
<1>8. ASSUME NEW m \in 1 .. Cardinality(I)  PROVE \E i \in I : FlattenSeq(ss)[m] = e[i]
  <2>1. PICK i \in 1 .. n : \E k \in 1 .. Len(ss[i]) : m = off[i - 1] + k
    BY <1>1, <1>3, <1>6
  <2>2. PICK k \in 1 .. Len(ss[i]) : m = off[i - 1] + k  BY <2>1
  <2>3. i \in I /\ k = 1
    <3>1. CASE i \in I
      <4>1. Len(ss[i]) = 1  BY <1>2, <3>1
      <4> QED  BY <2>2, <3>1, <4>1
    <3>2. CASE i \notin I
      <4>1. Len(ss[i]) = 0  BY <1>2, <3>2
      <4> QED  BY <2>2, <4>1
    <3> QED  BY <3>1, <3>2
  <2>4. FlattenSeq(ss)[m] = ss[i][k]  BY <1>1, <1>3, <2>2
  <2> QED  BY <1>2, <2>3, <2>4
<1>9. FlattenSeq(ss) \in Seq(S) /\ Len(FlattenSeq(ss)) = Cardinality(I)
  BY <1>1, <1>3, <1>6, FlattenFacts
<1>10. \A i \in I : Rank(I, i) \in 1 .. Cardinality(I) /\ FlattenSeq(ss)[Rank(I, i)] = e[i]
  BY Zenon, <1>7 DEF Rank
<1> QED  BY Zenon, <1>4, <1>8, <1>9, <1>10 DEF Filter, Collects, ss

(* FlattenSeq of empty sequences is empty, and of no others.               *)
LEMMA FlattenEmpty ==
  ASSUME NEW S, NEW ss \in Seq(Seq(S))
  PROVE  FlattenSeq(ss) = <<>> <=> \A i \in 1 .. Len(ss) : Len(ss[i]) = 0
<1>1. Len(ss) \in Nat /\ \A i \in 1 .. Len(ss) : Len(ss[i]) \in Nat
  BY LenProperties, ElementOfSeq
<1>2. PICK off : Offsets(ss, off)  BY FlattenFacts
<1>3. FlattenSeq(ss) = <<>> <=> off[Len(ss)] = 0
  <2>1. FlattenSeq(ss) \in Seq(S) /\ Len(FlattenSeq(ss)) = off[Len(ss)]
    BY <1>2, FlattenFacts DEF Offsets
  <2> QED  BY <2>1, EmptySeq
<1>4. ASSUME off[Len(ss)] = 0, NEW i \in 1 .. Len(ss)  PROVE Len(ss[i]) = 0
  <2>1. Len(ss[i]) # 0 => 1 \in 1 .. Len(ss[i])  BY <1>1
  <2>2. \A k \in 1 .. Len(ss[i]) : off[i - 1] + k \in 1 .. off[Len(ss)]
    BY <1>2 DEF Offsets
  <2> QED  BY <1>4, <2>1, <2>2
<1>5. ASSUME off[Len(ss)] # 0  PROVE \E i \in 1 .. Len(ss) : Len(ss[i]) # 0
  <2>1. off[Len(ss)] \in Nat  BY <1>1, <1>2 DEF Offsets
  <2>2. 1 \in 1 .. off[Len(ss)]  BY <1>5, <2>1
  <2>3. PICK i \in 1 .. Len(ss) : \E k \in 1 .. Len(ss[i]) : 1 = off[i - 1] + k
    BY <1>2, <2>2 DEF Offsets
  <2> QED  BY <2>3
<1> QED  BY <1>3, <1>4, <1>5

(* Longer elements, one at least, make a longer sequence.                  *)
LEMMA FlattenLonger ==
  ASSUME NEW S, NEW ss \in Seq(Seq(S)), NEW tt \in Seq(Seq(S)), Len(tt) = Len(ss),
         \A i \in 1 .. Len(ss) : Len(tt[i]) <= Len(ss[i]),
         NEW l \in 1 .. Len(ss), Len(tt[l]) < Len(ss[l])
  PROVE  Len(FlattenSeq(tt)) < Len(FlattenSeq(ss))
<1> DEFINE n == Len(ss)
<1>1. /\ n \in Nat
      /\ \A i \in 1 .. n : Len(ss[i]) \in Nat /\ Len(tt[i]) \in Nat
  BY LenProperties, ElementOfSeq
<1>2. PICK a : Offsets(ss, a)  BY FlattenFacts
<1>3. PICK b : Offsets(tt, b)  BY FlattenFacts
<1> DEFINE T == {i \in 0 .. n : b[i] <= a[i] /\ (l <= i => b[i] < a[i])}
<1>4. /\ a \in [0 .. n -> Nat] /\ b \in [0 .. n -> Nat] /\ a[0] = 0 /\ b[0] = 0
      /\ \A i \in 1 .. n : a[i] = a[i - 1] + Len(ss[i]) /\ b[i] = b[i - 1] + Len(tt[i])
      /\ Len(FlattenSeq(ss)) = a[n] /\ Len(FlattenSeq(tt)) = b[n]
  BY <1>2, <1>3 DEF Offsets
<1> HIDE DEF n
<1>5. 0 \in T  BY <1>1, <1>4 DEF n
<1>6. ASSUME NEW i \in 1 .. n, i - 1 \in T  PROVE i \in T
  <2>1. /\ i \in 0 .. n /\ i - 1 \in 0 .. n /\ a[i - 1] \in Nat /\ b[i - 1] \in Nat
        /\ Len(ss[i]) \in Nat /\ Len(tt[i]) \in Nat /\ l \in Nat /\ i \in Nat
    BY <1>1, <1>4
  <2>2. PICK x \in Nat, y \in Nat, s \in Nat, t \in Nat :
          x = a[i - 1] /\ y = b[i - 1] /\ s = Len(ss[i]) /\ t = Len(tt[i])
    BY <2>1
  <2>3. /\ a[i] = x + s /\ b[i] = y + t /\ y <= x /\ t <= s
        /\ (l = i => t < s) /\ (l <= i - 1 => y < x)
    BY <1>4, <1>6, <2>2 DEF n
  <2>4. b[i] <= a[i]  BY <2>3
  <2>5. ASSUME l <= i  PROVE b[i] < a[i]
    <3>1. l = i \/ l <= i - 1  BY <2>1, <2>5
    <3>2. t < s \/ y < x  BY <2>3, <3>1
    <3> QED  BY <2>3, <3>2
  <2> QED  BY <2>1, <2>4, <2>5
<1> HIDE DEF T
<1>7. T \in SUBSET (0 .. n)  BY DEF T
<1>8. T = 0 .. n  BY <1>1, <1>5, <1>6, <1>7, UpTo
<1>9. n \in T /\ l <= n  BY <1>1, <1>8 DEF n
<1> QED  BY <1>4, <1>9 DEF T
=============================================================================
