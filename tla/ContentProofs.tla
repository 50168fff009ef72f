---------------------------- MODULE ContentProofs ----------------------------
(***************************************************************************)
(* Proofs about the data of one message: for bodies, texts, mentions and   *)
(* answers of any length.                                                  *)
(***************************************************************************)
EXTENDS Content, SequenceLemmas, TLAPS

-----------------------------------------------------------------------------
(***************************************************************************)
(* Padding.                                                                *)
(***************************************************************************)
(* The remainder is what is left of a multiple.                            *)
LEMMA Remainder ==
  ASSUME NEW b \in Nat \ {0}, NEW q \in Int, NEW r \in 0 .. b - 1
  PROVE  (b * q + r) % b = r
<1> DEFINE x == b * q + r
           d == x \div b
           e == x % b
<1>1. x \in Int /\ d \in Int /\ e \in 0 .. b - 1 /\ x = b * d + e  OBVIOUS
<1> HIDE DEF x, d, e
<1>2. b * q + r = b * d + e  BY <1>1 DEF x
<1>3. b * (q - d) = e - r  BY <1>1, <1>2
<1>4. q - d = 0
  <2>1. CASE q - d >= 1
    <3>1. b * (q - d) >= b  BY <1>1, <2>1
    <3> QED  BY <1>1, <1>3, <3>1
  <2>2. CASE q - d <= -1
    <3>1. b * (q - d) <= -b  BY <1>1, <2>2
    <3> QED  BY <1>1, <1>3, <3>1
  <2> QED  BY <1>1, <2>1, <2>2
<1>5. e = r  BY <1>1, <1>2, <1>4
<1> QED  BY <1>5 DEF e, x

(* Whole blocks without 1 to BlockSize of their bytes lack just these.     *)
LEMMA PadArithmetic ==
  ASSUME NEW n \in Nat, n % BlockSize = 0, NEW p \in 1 .. BlockSize, p <= n
  PROVE  BlockSize - ((n - p) % BlockSize) = p
<1> DEFINE q == n \div BlockSize
<1>1. BlockSize \in Nat \ {0} /\ q \in Int /\ n = BlockSize * q
  BY MessageTextAssumption
<1> HIDE DEF q
<1>2. n - p = BlockSize * (q - 1) + (BlockSize - p)
  <2>1. BlockSize * (q - 1) = BlockSize * q - BlockSize  BY <1>1
  <2> QED  BY <1>1, <2>1
<1>3. BlockSize - p \in 0 .. BlockSize - 1 /\ q - 1 \in Int  BY <1>1
<1>4. (BlockSize * (q - 1) + (BlockSize - p)) % BlockSize = BlockSize - p
  BY <1>1, <1>3, Remainder
<1> QED  BY <1>1, <1>2, <1>4

(* Padding gives the ciphertext back, whatever well-padded blocks it is of.*)
LEMMA PadUnpad ==
  ASSUME NEW data \in Seq(Nat), Len(data) > 0, Len(data) % BlockSize = 0, WellPadded(data)
  PROVE  Pad(Unpad(data)) = data
<1> DEFINE n == Len(data)
           p == data[n]
           u == SubSeq(data, 1, n - p)
           w == [i \in 1 .. p |-> p]
<1>1. n \in Nat /\ p \in 1 .. BlockSize /\ BlockSize \in Nat \ {0}
  BY LenProperties, MessageTextAssumption DEF WellPadded, PadLength
<1>2. \A i \in 0 .. p - 1 : data[n - i] = p  BY DEF WellPadded, PadLength
<1>3. p <= n
  <2> DEFINE q == n \div BlockSize
  <2>1. q \in Int /\ n = BlockSize * q  BY <1>1
  <2> HIDE DEF q
  <2>2. q >= 1
    <3> SUFFICES ASSUME q <= 0 PROVE FALSE  BY <2>1
    <3>1. BlockSize * q <= 0  BY <1>1, <2>1
    <3> QED  BY <2>1, <3>1
  <2>3. BlockSize * q >= BlockSize  BY <1>1, <2>1, <2>2
  <2> QED  BY <1>1, <2>1, <2>3
<1>4. u \in Seq(Nat) /\ Len(u) = n - p /\ \A i \in 1 .. n - p : u[i] = data[i]
  <2>1. n - p \in 1 - 1 .. Len(data) /\ 1 \in 1 .. Len(data) + 1  BY <1>1, <1>3
  <2> DEFINE m == n - p
  <2>2. m - 1 + 1 = m /\ \A i \in 1 .. m : 1 + i - 1 = i  BY <2>1
  <2> HIDE DEF m
  <2>3. LET t == SubSeq(data, 1, m)
        IN  t \in Seq(Nat) /\ Len(t) = m /\ \A i \in 1 .. m : t[i] = data[i]
    <3>1. m \in 1 - 1 .. Len(data)  BY <2>1 DEF m
    <3> QED  BY <2>1, <2>2, <3>1, SubSeqFacts
  <2> QED  BY <2>3 DEF m
<1>5. w \in Seq(Nat) /\ Len(w) = p /\ \A i \in 1 .. p : w[i] = p  BY <1>1
<1>6. Pad(Unpad(data)) = u \o w
  <2>1. BlockSize - (Len(u) % BlockSize) = p  BY <1>1, <1>3, <1>4, PadArithmetic
  <2> QED  BY <2>1 DEF Pad, Unpad, PadLength
<1>7. data \in Seq(Nat) /\ n = Len(data) /\ n - p \in Nat  BY <1>1, <1>3
<1> HIDE DEF u, w, n, p
<1>8. /\ u \o w \in Seq(Nat) /\ Len(u \o w) = Len(u) + Len(w)
      /\ \A i \in 1 .. Len(u) + Len(w) :
           (u \o w)[i] = IF i <= Len(u) THEN u[i] ELSE w[i - Len(u)]
  <2>1. u \in Seq(Nat) /\ w \in Seq(Nat)  BY <1>4, <1>5
  <2> QED  BY <2>1, ConcatProperties
<1> DEFINE c == u \o w
<1>9. /\ c \in Seq(Nat) /\ Len(c) = n
      /\ \A i \in 1 .. n : c[i] = IF i <= n - p THEN u[i] ELSE w[i - (n - p)]
  <2>1. Len(u) + Len(w) = n  BY <1>1, <1>4, <1>5
  <2> QED  BY <1>4, <1>8, <2>1
<1> HIDE DEF c
<1>10. ASSUME NEW i \in 1 .. n  PROVE c[i] = data[i]
  <2>1. i \in Int /\ n - p \in Int  BY <1>7, <1>10
  <2>2. CASE i <= n - p
    <3>1. i \in 1 .. n - p  BY <2>1, <2>2
    <3> QED  BY <1>4, <1>9, <2>2, <3>1
  <2>3. CASE ~(i <= n - p)
    <3>1. n - i \in 0 .. p - 1 /\ n - (n - i) = i  BY <1>1, <2>1, <2>3
    <3>2. data[i] = p  BY <1>2, <3>1
    <3>3. i - (n - p) \in 1 .. p  BY <1>1, <2>1, <2>3
    <3>4. c[i] = w[i - (n - p)]  BY <1>9, <2>3
    <3> QED  BY <1>5, <3>2, <3>3, <3>4
  <2> QED  BY <2>2, <2>3
<1>11. c = data  BY <1>7, <1>9, <1>10, SeqEqual
<1> QED  BY <1>6, <1>11 DEF c

(* The ciphertext of a body that is long enough.                           *)
LEMMA CiphertextFacts ==
  ASSUME NEW b \in Seq(Nat), ~TooShort(b)
  PROVE  Ciphertext(b) \in Seq(Nat) /\ Len(Ciphertext(b)) > 0
<1>1. Len(b) \in Nat /\ Len(b) >= BlockSize + 1 /\ BlockSize \in Nat \ {0}
  BY LenProperties, MessageTextAssumption DEF TooShort
<1>2. BlockSize + 1 \in 1 .. Len(b) + 1 /\ Len(b) \in BlockSize + 1 - 1 .. Len(b)  BY <1>1
<1>3. /\ SubSeq(b, BlockSize + 1, Len(b)) \in Seq(Nat)
      /\ Len(SubSeq(b, BlockSize + 1, Len(b))) = Len(b) - (BlockSize + 1) + 1
  BY <1>2, SubSeqFacts
<1> QED  BY <1>1, <1>3 DEF Ciphertext
-----------------------------------------------------------------------------
(***************************************************************************)
(* Texts.                                                                  *)
(***************************************************************************)
(* TrimSpace takes off the blanks at both ends, and nothing else.          *)
LEMMA TrimFacts ==
  ASSUME NEW s \in Seq(Token)
  PROVE  \/ TrimSpace(s) = <<>> /\ \A k \in 1 .. Len(s) : s[k] \in Blank
         \/ \E a, b \in 1 .. Len(s) :
              /\ a <= b /\ TrimSpace(s) = SubSeq(s, a, b)
              /\ s[a] \notin Blank /\ s[b] \notin Blank
              /\ \A k \in 1 .. Len(s) : k < a \/ k > b => s[k] \in Blank
<1> DEFINE words == {i \in 1 .. Len(s) : s[i] \notin Blank}
<1>1. Len(s) \in Nat /\ DOMAIN s = 1 .. Len(s)  BY LenProperties
<1>2. TrimSpace(s) = IF words = {} THEN <<>> ELSE SubSeq(s, Min(words), Max(words))
  BY <1>1 DEF TrimSpace
<1>3. CASE words = {}  BY <1>2, <1>3
<1>4. CASE words # {}
  <2>1. words \subseteq Nat  BY <1>1
  <2>2. Min(words) \in words /\ \A y \in words : Min(words) <= y  BY <1>4, <2>1, MinFacts
  <2>3. Max(words) \in words /\ \A y \in words : y <= Max(words)  BY <1>1, <1>4, MaxFacts
  <2>4. PICK a, b : a = Min(words) /\ b = Max(words)  OBVIOUS
  <2>5. TrimSpace(s) = SubSeq(s, a, b)  BY <1>2, <1>4, <2>4
  <2>6. a \in words /\ b \in words /\ a <= b  BY <2>2, <2>3, <2>4
  <2>7. \A y \in words : a <= y /\ y <= b  BY <2>2, <2>3, <2>4
  <2>8. \A k \in 1 .. Len(s) : k < a \/ k > b => s[k] \in Blank  BY <1>1, <2>6, <2>7
  <2> QED  BY <2>5, <2>6, <2>8
<1> QED  BY <1>3, <1>4

(* Where the path of a file starts in what follows the prefix, and ends.   *)
LEMMA PathBounds ==
  ASSUME NEW r \in Seq(Token), NEW sep
  PROVE  LET f == PathStart(r, sep)
             g == PathEnd(r, sep)
         IN  /\ f \in 1 .. Len(r) + 1 /\ g \in f .. Len(r) + 1
             /\ \A k \in 1 .. f - 1 : r[k] \in sep
             /\ f <= Len(r) => r[f] \notin sep
             /\ \A k \in f + 1 .. g - 1 : r[k] \notin sep
             /\ g <= Len(r) => f < g /\ r[g] \in sep
<1> DEFINE n == Len(r)
           F == {i \in 1 .. n : r[i] \notin sep} \cup {n + 1}
           f == PathStart(r, sep)
           G == {i \in 1 .. n : i > f /\ r[i] \in sep} \cup {n + 1}
           g == PathEnd(r, sep)
<1>1. n \in Nat /\ DOMAIN r = 1 .. n  BY LenProperties
<1>2. f = Min(F)  BY <1>1 DEF PathStart
<1>3. g = Min(G)  BY <1>1 DEF PathEnd
<1> HIDE DEF n, f, g
<1>4. f \in F /\ \A y \in F : f <= y  BY <1>1, <1>2, MinFacts
<1>5. g \in G /\ \A y \in G : g <= y  BY <1>1, <1>3, MinFacts
<1>6. f \in 1 .. n + 1 /\ g \in 1 .. n + 1  BY <1>1, <1>4, <1>5
<1>7. f <= g /\ (g <= n => f < g /\ r[g] \in sep)  BY <1>1, <1>4, <1>5, <1>6
<1>8. f <= n => r[f] \notin sep  BY <1>1, <1>4
<1>9. ASSUME NEW k \in 1 .. f - 1  PROVE r[k] \in sep
  <2>1. k \in 1 .. n /\ ~(f <= k)  BY <1>1, <1>6
  <2> QED  BY <1>4, <2>1
<1>10. ASSUME NEW k \in f + 1 .. g - 1  PROVE r[k] \notin sep
  <2>1. k \in 1 .. n /\ k > f /\ ~(g <= k)  BY <1>1, <1>6
  <2> QED  BY <1>5, <2>1
<1>11. g \in f .. n + 1  BY <1>1, <1>6, <1>7
<1> QED  BY <1>6, <1>7, <1>8, <1>9, <1>10, <1>11 DEF n, f, g

(* A file found in a reply is what FileIsNamedInReply says, and none is    *)
(* missed, for replies of any length.                                      *)
LEMMA FileFound ==
  ASSUME reply \in Seq(Token), file = MediaPath(reply, Separators(app))
  PROVE  FileIsNamedInReply
<1> DEFINE n == Len(reply)
           sep == Separators(app)
           at == SelectInSeq(reply, LAMBDA t : t = "MEDIA:")
           r == AfterPrefix(reply)
           f == PathStart(r, sep)
           g == PathEnd(r, sep)
           p == SubSeq(r, f, g - 1)
           Named ==
             /\ at > 0
             /\ \E i, j \in at + 1 .. n :
                  /\ i <= j /\ file = SubSeq(reply, i, j)
                  /\ {reply[i], reply[j]} \cap Blank = {}
                  /\ \A k \in at + 1 .. i - 1 : reply[k] \in Blank
                  /\ \A k \in i .. j : reply[k] \notin sep
                  /\ \E e \in j + 1 .. n + 1 :
                       /\ \A k \in j + 1 .. e - 1 : reply[k] \in Blank
                       /\ e = n + 1 \/ reply[e] \in sep
           NoneThere ==
             at > 0 => \A i \in at + 1 .. n : reply[i] \in Blank \/
               \E b, e \in at + 1 .. i - 1 : /\ b < e /\ reply[b] \notin sep
                                            /\ reply[e] \in sep
<1>1. FileIsNamedInReply <=> IF file # <<>> THEN Named ELSE NoneThere
  BY DEF FileIsNamedInReply
<1>2. n \in Nat /\ at \in 0 .. n
  <2> DEFINE I == {i \in 1 .. n : reply[i] = "MEDIA:"}
  <2>1. n \in Nat  BY LenProperties
  <2>2. at = IF I # {} THEN Min(I) ELSE 0  BY DEF SelectInSeq
  <2>3. I \subseteq Nat  BY <2>1
  <2>4. I # {} => Min(I) \in I  BY <2>3, MinFacts
  <2> HIDE DEF at
  <2> QED  BY <2>1, <2>2, <2>4
<1>3. r = IF at = 0 THEN <<>> ELSE SubSeq(reply, at + 1, n)  BY DEF AfterPrefix
<1>4. sep \subseteq Blank  BY TokenAssumption DEF Separators
<1>5. file = TrimSpace(p)  BY DEF MediaPath
<1> HIDE DEF n, sep, at, r, Named, NoneThere
<1>6. r \in Seq(Token)
  <2>1. n \in at + 1 - 1 .. n /\ at + 1 \in 1 .. n + 1  BY <1>2
  <2>2. SubSeq(reply, at + 1, n) \in Seq(Token)  BY <2>1, SubSeqFacts DEF n
  <2>3. <<>> \in Seq(Token)  OBVIOUS
  <2> QED  BY <1>3, <2>2, <2>3
<1>7. /\ Len(r) \in Nat /\ f \in 1 .. Len(r) + 1 /\ g \in f .. Len(r) + 1
      /\ \A k \in 1 .. f - 1 : r[k] \in sep
      /\ f <= Len(r) => r[f] \notin sep
      /\ \A k \in f + 1 .. g - 1 : r[k] \notin sep
      /\ g <= Len(r) => f < g /\ r[g] \in sep
  BY <1>6, LenProperties, PathBounds
<1> HIDE DEF f, g
<1>8. p \in Seq(Token) /\ Len(p) = g - f /\ \A i \in 1 .. g - f : p[i] = r[f + i - 1]
  <2>1. f \in 1 .. Len(r) + 1 /\ g - 1 \in f - 1 .. Len(r) /\ g - 1 - f + 1 = g - f  BY <1>7
  <2> QED  BY <1>6, <2>1, SubSeqFacts
<1> HIDE DEF p
<1>9. CASE at = 0
  <2>1. Len(r) = 0  BY <1>3, <1>9
  <2>2. g - f = 0  BY <1>7, <2>1
  <2>3. file = <<>>  BY <1>5, <1>8, <2>2, TrimFacts
  <2> QED  BY <1>1, <1>9, <2>3 DEF NoneThere
<1>10. CASE at > 0
  <2>1. Len(r) = n - at /\ \A i \in 1 .. n - at : r[i] = reply[at + i]
    <3>1. n \in at + 1 - 1 .. n /\ at + 1 \in 1 .. n + 1  BY <1>2
    <3>2. Len(r) = n - (at + 1) + 1 /\ \A i \in 1 .. n - (at + 1) + 1 : r[i] = reply[at + 1 + i - 1]
      BY <1>3, <1>10, <3>1, SubSeqFacts DEF n
    <3> QED  BY <1>2, <3>2
  <2>2. /\ f \in 1 .. n - at + 1 /\ g \in f .. n - at + 1
        /\ Len(p) = g - f /\ Len(p) \in Nat /\ Len(r) = n - at
    BY <1>7, <1>8, <2>1
  <2>3. \A i \in 1 .. g - f : p[i] = reply[at + f + i - 1]
    <3>1. \A i \in 1 .. g - f : f + i - 1 \in 1 .. n - at /\ at + (f + i - 1) = at + f + i - 1
      BY <1>2, <2>2
    <3> QED  BY <1>8, <2>1, <3>1
  <2>4. CASE file = <<>> /\ \A k \in 1 .. Len(p) : p[k] \in Blank
    <3> SUFFICES ASSUME NEW i \in at + 1 .. n
                 PROVE  reply[i] \in Blank \/ \E b, e \in at + 1 .. i - 1 :
                          b < e /\ reply[b] \notin sep /\ reply[e] \in sep
      BY <1>1, <2>4 DEF NoneThere
    <3> DEFINE k == i - at
    <3>1. k \in 1 .. n - at /\ reply[i] = r[k] /\ at + k = i  BY <1>2, <2>1
    <3> HIDE DEF k
    <3>2. CASE k < f  BY <1>4, <1>7, <3>1, <3>2
    <3>3. CASE f <= k /\ k < g
      <4>1. k - f + 1 \in 1 .. g - f /\ f + (k - f + 1) - 1 = k  BY <1>2, <2>2, <3>1, <3>3
      <4> QED  BY <1>8, <2>4, <3>1, <4>1
    <3>4. CASE k = g  BY <1>4, <1>7, <2>1, <3>1, <3>4
    <3>5. CASE g < k
      <4>1. g <= Len(r) /\ f < g /\ r[g] \in sep /\ r[f] \notin sep  BY <1>7, <2>1, <3>1, <3>5
      <4>2. f \in 1 .. n - at /\ g \in 1 .. n - at  BY <1>7, <2>1, <4>1
      <4>3. reply[at + f] \notin sep /\ reply[at + g] \in sep  BY <2>1, <4>1, <4>2
      <4>4. at + f \in at + 1 .. i - 1 /\ at + g \in at + 1 .. i - 1 /\ at + f < at + g
        BY <1>2, <2>2, <3>1, <3>5, <4>1
      <4> QED  BY <4>3, <4>4
    <3> QED  BY <1>7, <3>1, <3>2, <3>3, <3>4, <3>5
  <2>5. ASSUME NEW a \in 1 .. Len(p), NEW b \in 1 .. Len(p), a <= b, file = SubSeq(p, a, b),
               p[a] \notin Blank, p[b] \notin Blank,
               \A k \in 1 .. Len(p) : k < a \/ k > b => p[k] \in Blank
        PROVE  FileIsNamedInReply
    <3> DEFINE i == at + f + a - 1
               j == at + f + b - 1
               e == at + g
    <3>1. i \in at + 1 .. n /\ j \in at + 1 .. n /\ i <= j /\ e \in j + 1 .. n + 1
      <4>1. a <= b  BY <2>5
      <4> QED  BY <1>2, <2>2, <4>1
    <3>2. reply[i] = p[a] /\ reply[j] = p[b]  BY <1>8, <2>3
    <3>3. file = SubSeq(reply, i, j) /\ file # <<>>
      <4>1. b \in a - 1 .. Len(p) /\ a \in 1 .. Len(p) + 1 /\ Len(p) \in Nat
        <5>1. Len(p) \in Nat  BY <2>2
        <5>2. a <= b  BY <2>5
        <5> QED  BY <5>1, <5>2
      <4>2. /\ file \in Seq(Token) /\ Len(file) = b - a + 1
            /\ \A k \in 1 .. b - a + 1 : file[k] = p[a + k - 1]
        <5>1. file = SubSeq(p, a, b)  BY <2>5
        <5>2. p \in Seq(Token)  BY <1>8
        <5> QED  BY <4>1, <5>1, <5>2, SubSeqFacts
      <4>3. j \in i - 1 .. n /\ i \in 1 .. n + 1 /\ j - i + 1 = b - a + 1
        BY <1>2, <2>2, <3>1, <4>1
      <4> DEFINE t == SubSeq(reply, i, j)
      <4>4. /\ t \in Seq(Token) /\ Len(t) = j - i + 1
            /\ \A k \in 1 .. j - i + 1 : t[k] = reply[i + k - 1]
        <5>1. i \in 1 .. Len(reply) + 1 /\ j \in i - 1 .. Len(reply)  BY <4>3 DEF n
        <5> HIDE DEF i, j
        <5> QED  BY <5>1, SubSeqFacts
      <4> HIDE DEF t
      <4>5. ASSUME NEW k \in 1 .. b - a + 1  PROVE file[k] = t[k]
        <5>1. a + k - 1 \in 1 .. Len(p)  BY <4>1
        <5>2. a + k - 1 \in 1 .. g - f /\ at + f + (a + k - 1) - 1 = i + k - 1
          BY <1>2, <2>2, <5>1
        <5>3. file[k] = reply[i + k - 1]  BY <2>3, <4>2, <5>2
        <5>4. t[k] = reply[i + k - 1]  BY <4>3, <4>4
        <5> QED  BY <5>3, <5>4
      <4>6. file = t  BY <4>2, <4>3, <4>4, <4>5, SeqEqual
      <4>7. Len(file) > 0  BY <2>5, <4>1, <4>2
      <4>8. file # <<>>  BY <4>7
      <4> QED  BY <4>6, <4>8 DEF t
    <3>4. ASSUME NEW k \in at + 1 .. i - 1  PROVE reply[k] \in Blank
      <4>1. CASE k < at + f
        <5>1. k - at \in 1 .. f - 1 /\ k - at \in 1 .. n - at /\ at + (k - at) = k
          BY <1>2, <2>2, <4>1
        <5> QED  BY <1>4, <1>7, <2>1, <5>1
      <4>2. CASE k >= at + f
        <5> DEFINE l == k - at - f + 1
        <5>1. l \in 1 .. Len(p) /\ l < a /\ at + f + l - 1 = k  BY <1>2, <2>2, <4>2
        <5> HIDE DEF l
        <5> QED  BY <1>8, <2>3, <2>5, <5>1
      <4> QED  BY <1>2, <2>2, <4>1, <4>2
    <3>5. ASSUME NEW k \in i .. j  PROVE reply[k] \notin sep
      <4> DEFINE l == k - at
      <4>1. l \in f .. g - 1 /\ l \in 1 .. n - at /\ at + l = k /\ f <= Len(r)
        BY <1>2, <2>2, <3>1
      <4> HIDE DEF l
      <4>2. r[l] \notin sep
        <5>1. CASE l = f  BY <1>7, <4>1, <5>1
        <5>2. CASE l # f
          <6>1. l \in f + 1 .. g - 1  BY <1>7, <4>1, <5>2
          <6> QED  BY <1>7, <6>1
        <5> QED  BY <5>1, <5>2
      <4> QED  BY <2>1, <4>1, <4>2
    <3>6. ASSUME NEW k \in j + 1 .. e - 1  PROVE reply[k] \in Blank
      <4> DEFINE l == k - at - f + 1
      <4>1. l \in 1 .. Len(p) /\ l > b /\ at + f + l - 1 = k  BY <1>2, <2>2, <3>1
      <4> HIDE DEF l
      <4> QED  BY <1>8, <2>3, <2>5, <4>1
    <3>7. e = n + 1 \/ reply[e] \in sep
      <4>1. CASE g <= Len(r)
        <5>1. g \in 1 .. n - at  BY <1>2, <2>2, <4>1
        <5> QED  BY <1>7, <2>1, <4>1, <5>1
      <4>2. CASE g > Len(r)
        <5>1. g = n - at + 1  BY <1>2, <2>2, <4>2
        <5> QED  BY <1>2, <5>1
      <4> QED  BY <2>2, <4>1, <4>2
    <3> HIDE DEF i, j, e
    <3>8. Named  BY <1>10, <2>5, <3>1, <3>2, <3>3, <3>4, <3>5, <3>6, <3>7 DEF Named
    <3> QED  BY <1>1, <3>3, <3>8
  <2>6. \/ TrimSpace(p) = <<>> /\ \A k \in 1 .. Len(p) : p[k] \in Blank
        \/ \E a, b \in 1 .. Len(p) :
              /\ a <= b /\ TrimSpace(p) = SubSeq(p, a, b)
              /\ p[a] \notin Blank /\ p[b] \notin Blank
              /\ \A k \in 1 .. Len(p) : k < a \/ k > b => p[k] \in Blank
    BY <1>8, TrimFacts
  <2> QED  BY <1>5, <2>4, <2>5, <2>6
<1> QED  BY <1>2, <1>9, <1>10

(* A text without blanks at its ends is not trimmed.                       *)
LEMMA TrimKeeps ==
  ASSUME NEW s \in Seq(Token), Len(s) > 0, s[1] \notin Blank, s[Len(s)] \notin Blank
  PROVE  TrimSpace(s) = s
<1>1. Len(s) \in Nat /\ 1 \in 1 .. Len(s) /\ Len(s) \in 1 .. Len(s)  BY LenProperties
<1>2. PICK a, b \in 1 .. Len(s) :
        /\ TrimSpace(s) = SubSeq(s, a, b)
        /\ \A k \in 1 .. Len(s) : k < a \/ k > b => s[k] \in Blank
  BY <1>1, TrimFacts
<1>3. a = 1 /\ b = Len(s)  BY <1>1, <1>2
<1> QED  BY <1>2, <1>3, SubSeqFull

-----------------------------------------------------------------------------
(***************************************************************************)
(* Mentions.                                                               *)
(***************************************************************************)
(* Cutting a placeholder out of the JSON around a text takes it out of the *)
(* text, and the trim that follows does nothing.                           *)
LEMMA CutOut ==
  ASSUME NEW json \in Seq(Token), IsQuoted(json), NEW key, key \notin {Open, Close}
  PROVE  /\ IsQuoted(TrimSpace(RemoveFirst(json, key)))
         /\ Unquoted(TrimSpace(RemoveFirst(json, key))) = WithoutFirst(Unquoted(json), key)
<1> DEFINE n == Len(json)
           text == Unquoted(json)
           hits == {i \in 1 .. n - 2 : text[i] = key}
           places == {i \in 1 .. n : json[i] = key}
<1>1. n \in Nat /\ n > 1 /\ json[1] = Open /\ json[n] = Close
  BY LenProperties DEF IsQuoted, Last
<1>2. /\ text \in Seq(Token) /\ Len(text) = n - 2 /\ DOMAIN text = 1 .. n - 2
      /\ \A i \in 1 .. n - 2 : text[i] = json[i + 1]
  <2>1. 2 \in 1 .. n + 1 /\ n - 1 \in 2 - 1 .. n /\ (n - 1) - 2 + 1 = n - 2  BY <1>1
  <2>2. /\ text \in Seq(Token) /\ Len(text) = n - 2 /\ DOMAIN text = 1 .. n - 2
        /\ \A i \in 1 .. n - 2 : text[i] = json[2 + i - 1]
    BY <2>1, SubSeqFacts DEF Unquoted
  <2>3. \A i \in 1 .. n - 2 : 2 + i - 1 = i + 1  BY <1>1
  <2> QED  BY <2>2, <2>3
<1>3. \A i \in Int : i \in hits <=> i + 1 \in places
  <2>1. \A i \in Int : i + 1 \in places => i \in 1 .. n - 2  BY <1>1
  <2>2. \A i \in 1 .. n - 2 : i + 1 \in 1 .. n  BY <1>1
  <2> QED  BY <1>1, <1>2, <2>1, <2>2
<1>4. RemoveFirst(json, key) = (IF places = {} THEN json ELSE RemoveAt(json, Min(places)))
  <2>1. (\E i \in 1 .. n : json[i] = key) <=> places # {}  OBVIOUS
  <2>2. places # {} => SelectInSeq(json, LAMBDA v : v = key) = Min(places)
    BY DEF SelectInSeq
  <2> QED  BY <2>1, <2>2 DEF RemoveFirst
<1>5. Open \notin Blank /\ Close \notin Blank  BY TokenAssumption DEF Open, Close
<1>6. places \subseteq 2 .. n - 1 /\ hits \subseteq 1 .. n - 2
  <2>1. 1 \notin places /\ n \notin places  BY <1>1
  <2> QED  BY <1>1, <2>1
<1> HIDE DEF text, hits, places
<1>7. CASE places = {}
  <2>1. TrimSpace(RemoveFirst(json, key)) = json  BY <1>1, <1>4, <1>5, <1>7, TrimKeeps
  <2>2. hits = {}  BY <1>3, <1>7, <1>6
  <2> QED  BY <1>2, <2>1, <2>2 DEF text, hits, WithoutFirst, Occurrences
<1>8. CASE places # {}
  <2> DEFINE c == RemoveAt(json, Min(places))
             q == Min(places)
             m == Min(hits)
  <2>1. q \in places /\ \A y \in places : q <= y
    <3>1. places \subseteq Nat  BY <1>1, <1>6
    <3> QED  BY <1>8, <3>1, MinFacts
  <2> HIDE DEF q
  <2>2. q \in 2 .. n - 1  BY <1>6, <2>1
  <2>3. q - 1 \in hits /\ \A y \in hits : q - 1 <= y
    <3>1. q - 1 \in Int /\ (q - 1) + 1 = q  BY <1>1, <2>2
    <3>2. ASSUME NEW y \in hits  PROVE q - 1 <= y
      <4>1. y \in Int /\ y + 1 \in places  BY <1>1, <1>3, <1>6
      <4>2. q <= y + 1  BY <2>1, <4>1
      <4> QED  BY <1>1, <2>2, <4>1, <4>2
    <3> QED  BY <1>3, <2>1, <3>1, <3>2
  <2>4. m \in hits /\ \A y \in hits : m <= y
    <3>1. hits \subseteq Nat  BY <1>1, <1>6
    <3> QED  BY <2>3, <3>1, MinFacts
  <2> HIDE DEF m
  <2>5. m = q - 1
    <3>1. m \in Int /\ q \in Int  BY <1>1, <1>6, <2>2, <2>4
    <3>2. q - 1 <= m /\ m <= q - 1  BY <2>3, <2>4
    <3> QED  BY <3>1, <3>2
  <2>6. /\ c \in Seq(Token) /\ Len(c) = n - 1
        /\ \A k \in 1 .. n - 1 : c[k] = json[IF k < q THEN k ELSE k + 1]
    <3>1. q \in 1 .. Len(json) /\ Len(json) = n  BY <1>1, <2>2
    <3> HIDE DEF n
    <3>2. c = RemoveAt(json, q)  BY DEF q
    <3> QED  BY <3>1, <3>2, RemoveAtFacts
  <2> HIDE DEF c
  <2>7. c[1] = Open /\ c[n - 1] = Close  BY <1>1, <2>2, <2>6
  <2>8. TrimSpace(RemoveFirst(json, key)) = c
    <3>1. TrimSpace(c) = c  BY <1>1, <1>5, <2>2, <2>6, <2>7, TrimKeeps
    <3> QED  BY <1>4, <1>8, <3>1 DEF c, q
  <2> DEFINE u == Unquoted(c)
             v == [i \in 1 .. n - 3 |-> text[IF i < m THEN i ELSE i + 1]]
  <2>9. u \in Seq(Token) /\ Len(u) = n - 3 /\ \A i \in 1 .. n - 3 : u[i] = c[i + 1]
    <3>1. /\ 2 \in 1 .. Len(c) + 1 /\ Len(c) - 1 \in 2 - 1 .. Len(c)
          /\ (Len(c) - 1) - 2 + 1 = n - 3
      BY <1>1, <2>2, <2>6
    <3>2. u \in Seq(Token) /\ Len(u) = n - 3 /\ \A i \in 1 .. n - 3 : u[i] = c[2 + i - 1]
      BY <2>6, <3>1, SubSeqFacts DEF Unquoted
    <3>3. \A i \in 1 .. n - 3 : 2 + i - 1 = i + 1  BY <1>1
    <3> QED  BY <3>2, <3>3
  <2>10. ASSUME NEW i \in 1 .. n - 3  PROVE v[i] \in Token /\ u[i] = v[i]
    <3>1. i + 1 \in 1 .. n - 1 /\ i \in 1 .. n - 2 /\ i + 1 \in 1 .. n - 2  BY <1>1
    <3>2. u[i] = json[IF i + 1 < q THEN i + 1 ELSE (i + 1) + 1]  BY <2>6, <2>9, <3>1
    <3>3. text[i] = json[i + 1] /\ text[i + 1] = json[(i + 1) + 1]  BY <1>2, <3>1
    <3>4. i + 1 < q <=> i < m  BY <2>2, <2>5
    <3>5. u[i] = v[i]  BY <3>2, <3>3, <3>4
    <3> QED  BY <2>9, <3>5, ElementOfSeq
  <2>11. v \in Seq(Token) /\ Len(v) = n - 3  BY <1>1, <2>2, <2>10
  <2> HIDE DEF u, v
  <2>12. u = v  BY <2>9, <2>10, <2>11, SeqEqual
  <2>13. hits # {}  BY <2>3
  <2>14. IsQuoted(c)
    <3>1. Len(c) = n - 1 /\ n - 1 > 1  BY <1>1, <2>2, <2>6
    <3> QED  BY <2>7, <3>1 DEF IsQuoted, Last
  <2> QED  BY <1>2, <2>8, <2>12, <2>13, <2>14 DEF u, v, m, hits, text, WithoutFirst, Occurrences
<1> QED  BY <1>7, <1>8

(* The gate and the search for the placeholder agree on which mention is   *)
(* the bot's, and the placeholder is no part of the JSON around the text.  *)
LEMMA SameMention ==
  ASSUME event \in Events, IsBotMentioned(event.mentions, botName)
  PROVE  /\ Bots # {} /\ BotMentionKey(event.mentions, botName) = BotKey
         /\ BotKey # "" /\ BotKey \notin {Open, Close}
<1> DEFINE ms == event.mentions
           bots == {i \in DOMAIN ms : ms[i].type # "user" /\ ms[i].name = botName}
           addressed == {i \in 1 .. Len(ms) : ms[i].type \in {"", "bot"} /\ ms[i].name = botName}
           key == ms[Min(bots)].key
<1>1. ms \in Seq(Mention)  BY ContentAssumption
<1>2. Len(ms) \in Nat /\ DOMAIN ms = 1 .. Len(ms)  BY <1>1, LenProperties
<1>3. \A i \in 1 .. Len(ms) : ms[i] \in Mention  BY <1>1, ElementOfSeq
<1>4. \A n \in Mention : /\ n.type \in {"", "bot", "user"}
                         /\ n.key # "" /\ n.key \notin {Open, Close}
  BY Zenon DEF Mention
<1>5. \A n \in Mention : n.type # "user" <=> n.type \in {"", "bot"}  BY Zenon, <1>4
<1>6. bots = addressed  BY Zenon, <1>2, <1>3, <1>5
<1>7. botName # "" /\ addressed # {}  BY Zenon, <1>2 DEF IsBotMentioned
<1> HIDE DEF bots
<1>8. Min(bots) \in 1 .. Len(ms)
  <2>1. bots \subseteq 1 .. Len(ms)  BY Zenon, <1>6
  <2>2. bots \subseteq Nat  BY <1>2, <2>1
  <2>3. bots # {}  BY Zenon, <1>6, <1>7
  <2> QED  BY <2>1, <2>2, <2>3, MinFacts
<1>9. BotMentionKey(ms, botName) = key
  <2> DEFINE at == SelectInSeq(ms, LAMBDA n : n.type \in {"", "bot"} /\ n.name = botName)
  <2>1. at = IF addressed # {} THEN Min(addressed) ELSE 0  BY Zenon DEF SelectInSeq
  <2>2. at = Min(bots)  BY Zenon, <1>6, <1>7, <2>1
  <2>3. Min(bots) # 0  BY <1>2, <1>8
  <2>4. BotMentionKey(ms, botName) = IF botName = "" \/ at = 0 THEN "" ELSE ms[at].key
    BY Zenon DEF BotMentionKey
  <2> QED  BY Zenon, <1>7, <2>2, <2>3, <2>4
<1>10. key # "" /\ key \notin {Open, Close}  BY Zenon, <1>3, <1>4, <1>8
<1>11. bots # {}  BY Zenon, <1>6, <1>7
<1> QED  BY Zenon, <1>9, <1>10, <1>11 DEF bots, Bots, BotKey

(* A text out of which something is cut is a text, of tokens it had.       *)
LEMMA RemoveFirstFacts ==
  ASSUME NEW s \in Seq(Token), NEW key
  PROVE  /\ RemoveFirst(s, key) \in Seq(Token)
         /\ \A k \in 1 .. Len(RemoveFirst(s, key)) : RemoveFirst(s, key)[k] \in ToSet(s)
<1> DEFINE places == {i \in 1 .. Len(s) : s[i] = key}
           c == RemoveFirst(s, key)
<1>1. Len(s) \in Nat /\ DOMAIN s = 1 .. Len(s)  BY LenProperties
<1>2. c = IF places = {} THEN s ELSE RemoveAt(s, Min(places))
  <2>1. (\E i \in 1 .. Len(s) : s[i] = key) <=> places # {}  OBVIOUS
  <2>2. places # {} => SelectInSeq(s, LAMBDA v : v = key) = Min(places)  BY DEF SelectInSeq
  <2> QED  BY <2>1, <2>2 DEF RemoveFirst
<1> HIDE DEF c
<1>3. CASE places = {}  BY <1>1, <1>2, <1>3 DEF ToSet, c
<1>4. CASE places # {}
  <2>1. places \subseteq Nat  BY <1>1
  <2>2. PICK q : q = Min(places)  OBVIOUS
  <2>3. q \in 1 .. Len(s)  BY <1>4, <2>1, <2>2, MinFacts
  <2>4. c = RemoveAt(s, q)  BY <1>2, <1>4, <2>2
  <2>5. /\ c \in Seq(Token) /\ Len(c) = Len(s) - 1
        /\ \A k \in 1 .. Len(s) - 1 : c[k] = s[IF k < q THEN k ELSE k + 1]
    BY <2>3, <2>4, RemoveAtFacts
  <2>6. ASSUME NEW k \in 1 .. Len(c)  PROVE c[k] \in ToSet(s)
    <3>1. k \in 1 .. Len(s) - 1 /\ k \in DOMAIN s /\ k + 1 \in DOMAIN s  BY <1>1, <2>5
    <3>2. c[k] = s[k] \/ c[k] = s[k + 1]  BY <2>5, <3>1
    <3> QED  BY <3>1, <3>2 DEF ToSet
  <2> QED  BY <2>5, <2>6 DEF c
<1> QED  BY <1>3, <1>4

(* So has what is then trimmed.                                            *)
LEMMA NothingAdded ==
  ASSUME NEW s \in Seq(Token), NEW key, NEW t, t = TrimSpace(RemoveFirst(s, key))
  PROVE  t \in Seq(Token) /\ (Len(t) > 0 => t[1] \in ToSet(s))
<1>1. PICK c : c = RemoveFirst(s, key)  OBVIOUS
<1>2. c \in Seq(Token) /\ t = TrimSpace(c) /\ \A k \in 1 .. Len(c) : c[k] \in ToSet(s)
  BY <1>1, RemoveFirstFacts
<1>3. CASE t = <<>>  BY <1>3, EmptySeq
<1>4. CASE t # <<>>
  <2>1. PICK a, b \in 1 .. Len(c) : a <= b /\ t = SubSeq(c, a, b)  BY <1>2, <1>4, TrimFacts
  <2>2. Len(c) \in Nat  BY <1>2, LenProperties
  <2>3. a \in 1 .. Len(c) + 1 /\ b \in a - 1 .. Len(c) /\ 1 \in 1 .. b - a + 1 /\ a + 1 - 1 = a
    BY <2>1, <2>2
  <2>4. /\ SubSeq(c, a, b) \in Seq(Token)
        /\ \A i \in 1 .. b - a + 1 : SubSeq(c, a, b)[i] = c[a + i - 1]
    BY <1>2, <2>3, SubSeqFacts
  <2> QED  BY <1>2, <2>1, <2>3, <2>4
<1> QED  BY <1>3, <1>4

-----------------------------------------------------------------------------
(***************************************************************************)
(* From the content of a message to the request.                           *)
(***************************************************************************)
(* A block's usable items make its parts, in order.                        *)
LEMMA BlockParts ==
  ASSUME NEW block \in Block, NEW I, I = {i \in DOMAIN block.items : Usable(block.items[i])}
  PROVE  /\ PartsOfBlock(block) \in Seq(MessagePart) /\ I \subseteq Nat
         /\ Collects(PartsOfBlock(block), I, [i \in I |-> PartOf(block.items[i])])
<1> DEFINE items == block.items
           n == Len(items)
           e == [i \in I |-> PartOf(items[i])]
<1>1. /\ items \in Seq([tag : STRING, val : Seq(Token)])
      /\ n \in Nat /\ DOMAIN items = 1 .. n
      /\ \A i \in 1 .. n : items[i] \in [tag : STRING, val : Seq(Token)]
  BY LenProperties, ElementOfSeq DEF Block
<1>2. I \in SUBSET (1 .. n)  BY <1>1
<1>3. e \in [I -> MessagePart]
  BY <1>1, <1>2 DEF Usable, PartOf, Part, MessagePart
<1>4. PartsOfBlock(block) = Filter(n, I, e)
  <2>1. \A i \in 1 .. n : (IF Usable(items[i]) THEN <<PartOf(items[i])>> ELSE <<>>)
                          = (IF i \in I THEN <<e[i]>> ELSE <<>>)
    BY <1>1
  <2>2. [i \in DOMAIN items |-> IF Usable(items[i]) THEN <<PartOf(items[i])>> ELSE <<>>]
        = [i \in 1 .. n |-> IF i \in I THEN <<e[i]>> ELSE <<>>]
    BY <1>1, <2>1
  <2> QED  BY Zenon, <2>2 DEF PartsOfBlock, Filter
<1> HIDE DEF e
<1>5. Filter(n, I, e) \in Seq(MessagePart) /\ Collects(Filter(n, I, e), I, e)
  BY <1>1, <1>2, <1>3, FilterFacts
<1>6. I \subseteq Nat  BY <1>1, <1>2
<1> QED  BY Zenon, <1>4, <1>5, <1>6 DEF e

(* The parts of a post are those of its usable items, in reading order.    *)
LEMMA PostParts ==
  ASSUME NEW blocks \in Seq(Block)
  PROVE  /\ PartsOfPost(blocks) \in Seq(MessagePart) /\ IsFiniteSet(Places(blocks))
         /\ Len(PartsOfPost(blocks)) = Cardinality(Places(blocks))
         /\ \A p \in Places(blocks) :
              /\ Place(blocks, p) \in 1 .. Cardinality(Places(blocks))
              /\ PartsOfPost(blocks)[Place(blocks, p)] = PartOf(blocks[p[1]].items[p[2]])
<1> DEFINE n == Len(blocks)
           U == [b \in 1 .. n |-> UsableItems(blocks[b])]
           ss == [b \in 1 .. n |-> IF blocks[b].isList THEN PartsOfBlock(blocks[b]) ELSE <<>>]
           A == [b \in 0 .. n |-> UNION {{c} \X U[c] : c \in 1 .. b}]
           B == [b \in 1 .. n |-> {b} \X U[b]]
           P == Places(blocks)
<1>1. n \in Nat /\ DOMAIN blocks = 1 .. n /\ \A b \in 1 .. n : blocks[b] \in Block
  BY LenProperties, ElementOfSeq
<1>2. PartsOfPost(blocks) = FlattenSeq(ss)  BY <1>1 DEF PartsOfPost
<1>3. A[n] = P /\ n \in 0 .. n
  <2>1. n \in 0 .. n  BY <1>1
  <2>2. A[n] = UNION {{c} \X U[c] : c \in 1 .. n}  BY <2>1
  <2>3. \A c \in 1 .. n : U[c] = UsableItems(blocks[c])  OBVIOUS
  <2> HIDE DEF U, A
  <2>4. A[n] = P  BY <1>1, <2>2, <2>3 DEF Places
  <2> QED  BY <2>1, <2>4
<1>4. ASSUME NEW b \in 1 .. n
      PROVE  /\ ss[b] \in Seq(MessagePart) /\ U[b] \subseteq Nat /\ IsFiniteSet(U[b])
             /\ Len(ss[b]) = Cardinality(U[b])
             /\ \A i \in U[b] : /\ Rank(U[b], i) \in 1 .. Len(ss[b])
                                 /\ ss[b][Rank(U[b], i)] = PartOf(blocks[b].items[i])
  <2>1. CASE blocks[b].isList
    <3>1. U[b] = {i \in DOMAIN blocks[b].items : Usable(blocks[b].items[i])}
      BY <2>1 DEF UsableItems
    <3>2. ss[b] = PartsOfBlock(blocks[b])  BY <2>1
    <3> HIDE DEF U, ss
    <3>3. PICK block, I : block = blocks[b] /\ I = U[b]  OBVIOUS
    <3>4. /\ PartsOfBlock(block) \in Seq(MessagePart) /\ I \subseteq Nat
          /\ Collects(PartsOfBlock(block), I, [i \in I |-> PartOf(block.items[i])])
      BY <1>1, <3>1, <3>3, BlockParts
    <3> QED  BY <3>2, <3>3, <3>4 DEF Collects
  <2>2. CASE ~blocks[b].isList
    <3>1. U[b] = {} /\ ss[b] = <<>>  BY <2>2 DEF UsableItems
    <3> HIDE DEF U, ss
    <3> QED  BY <3>1, FS_EmptySet
  <2> QED  BY <2>1, <2>2
<1>5. ss \in Seq(Seq(MessagePart)) /\ Len(ss) = n
  <2>1. \A b \in 1 .. n : ss[b] \in Seq(MessagePart)  BY <1>4
  <2>2. ss = [b \in 1 .. n |-> ss[b]]  OBVIOUS
  <2> HIDE DEF ss
  <2> QED  BY <1>1, <2>1, <2>2
<1>6. \A b \in 0 .. n : \A q : q \in A[b] <=> \E c \in 1 .. b : q \in {c} \X U[c]
  BY Zenon
<1>7. \A b \in 1 .. n : B[b] = {b} \X U[b]  OBVIOUS
<1> HIDE DEF n, U, ss, A, B, P
<1>8. A[0] = {}
  <2>1. 0 \in 0 .. n  BY <1>1
  <2> QED  BY <1>6, <2>1
<1>9. ASSUME NEW b \in 1 .. n
      PROVE  A[b] = A[b - 1] \cup B[b] /\ A[b - 1] \cap B[b] = {}
  <2>1. b \in 0 .. n /\ b - 1 \in 0 .. n  BY <1>1
  <2>2. \A c : (c \in 1 .. b <=> c \in 1 .. b - 1 \/ c = b) /\ ~(b \in 1 .. b - 1)  BY <2>1
  <2>3. /\ \A q : q \in A[b] <=> \E c \in 1 .. b : q \in {c} \X U[c]
        /\ \A q : q \in A[b - 1] <=> \E c \in 1 .. b - 1 : q \in {c} \X U[c]
    BY <1>6, <2>1
  <2>4. A[b] = A[b - 1] \cup B[b]  BY Zenon, <1>7, <2>2, <2>3
  <2>5. \A q \in A[b - 1] : q[1] \in 1 .. b - 1  BY <2>3
  <2>6. \A q \in B[b] : q[1] = b  BY <1>7
  <2> QED  BY Zenon, <2>2, <2>4, <2>5, <2>6
<1>10. ASSUME NEW b \in 1 .. n  PROVE IsFiniteSet(B[b]) /\ Cardinality(B[b]) = Len(ss[b])
  <2>1. IsFiniteSet({b}) /\ Cardinality({b}) = 1  BY FS_Singleton
  <2>2. IsFiniteSet(U[b]) /\ Len(ss[b]) = Cardinality(U[b])  BY <1>4
  <2>3. IsFiniteSet({b} \X U[b]) /\ Cardinality({b} \X U[b]) = Cardinality({b}) * Cardinality(U[b])
    BY <2>1, <2>2, FS_Product
  <2>4. Cardinality(U[b]) \in Nat  BY <2>2, FS_CardinalityType
  <2>5. Cardinality({b} \X U[b]) = Len(ss[b])  BY <2>1, <2>2, <2>3, <2>4
  <2> QED  BY Zenon, <1>7, <2>3, <2>5
<1>11. IsFiniteSet(P)
  <2> DEFINE T == {b \in 0 .. n : IsFiniteSet(A[b])}
  <2>1. 0 \in T
    <3>1. IsFiniteSet({})  BY FS_EmptySet
    <3>2. 0 \in 0 .. n  BY <1>1
    <3> QED  BY <1>8, <3>1, <3>2
  <2>2. ASSUME NEW b \in 1 .. n, b - 1 \in T  PROVE b \in T
    <3>1. IsFiniteSet(A[b - 1]) /\ IsFiniteSet(B[b]) /\ b \in 0 .. n  BY <1>1, <1>10, <2>2
    <3>2. IsFiniteSet(A[b - 1] \cup B[b])  BY <3>1, FS_Union
    <3> QED  BY <1>9, <3>1, <3>2
  <2> HIDE DEF T
  <2>3. T \in SUBSET (0 .. n)  BY DEF T
  <2>4. T = 0 .. n  BY <1>1, <2>1, <2>2, <2>3, UpTo
  <2> QED  BY <1>3, <2>4 DEF T
<1>12. PICK off : Offsets(ss, off)  BY <1>5, FlattenFacts
<1>13. \A b \in 0 .. n : off[b] = Cardinality(A[b])
  <2>1. A \in [0 .. n -> SUBSET P] /\ B \in [1 .. n -> SUBSET P]
    <3>1. ASSUME NEW b \in 0 .. n  PROVE A[b] \subseteq P
      <4>1. \A c : c \in 1 .. b => c \in 1 .. n  BY <1>1
      <4>2. \A q : q \in A[b] => q \in A[n]  BY Zenon, <1>3, <1>6, <4>1
      <4> QED  BY <1>3, <4>2
    <3>2. ASSUME NEW b \in 1 .. n  PROVE B[b] \subseteq P
      <4>1. b \in 0 .. n  BY <1>1
      <4> QED  BY <1>9, <3>1, <4>1
    <3> QED  BY <3>1, <3>2 DEF A, B
  <2>2. off \in [0 .. n -> Nat] /\ off[0] = 0  BY <1>5, <1>12 DEF Offsets
  <2>3. \A b \in 1 .. n : off[b] = off[b - 1] + Cardinality(B[b])
    <3>1. \A b \in 1 .. n : off[b] = off[b - 1] + Len(ss[b])  BY <1>5, <1>12 DEF Offsets
    <3> QED  BY <1>10, <3>1
  <2>4. GrowsBy(n, P, A, B, off)  BY Zenon, <1>8, <1>9, <2>1, <2>2, <2>3 DEF GrowsBy
  <2> QED  BY <1>1, <1>11, <2>4, Counts
<1>14. FlattenSeq(ss) \in Seq(MessagePart) /\ Len(FlattenSeq(ss)) = Cardinality(P)
  <2>1. Len(FlattenSeq(ss)) = off[n]  BY <1>5, <1>12 DEF Offsets
  <2> QED  BY <1>3, <1>5, <1>13, <2>1, FlattenFacts
<1>15. ASSUME NEW p \in P
       PROVE  /\ Place(blocks, p) \in 1 .. Cardinality(P)
              /\ FlattenSeq(ss)[Place(blocks, p)] = PartOf(blocks[p[1]].items[p[2]])
  <2>0. PICK b \in 1 .. n : p \in {b} \X U[b]  BY <1>3, <1>6
  <2>1. PICK i \in U[b] : p = <<b, i>>  BY <2>0
  <2>2. b \in 0 .. n /\ b - 1 \in 0 .. n /\ U[b] \subseteq Nat /\ i \in Nat  BY <1>1, <1>4
  <2> DEFINE V == {j \in U[b] : j <= i}
             Before == {q \in P : q[1] < p[1] \/ (q[1] = p[1] /\ q[2] <= p[2])}
  <2>3. Before = A[b - 1] \cup ({b} \X V)
    <3>1. \A q : q \in P <=> \E c \in 1 .. n : q \in {c} \X U[c]  BY <1>3, <1>6
    <3>2. \A q : q \in A[b - 1] <=> \E c \in 1 .. b - 1 : q \in {c} \X U[c]  BY <1>6, <2>2
    <3>3. \A c : c \in 1 .. b - 1 <=> c \in 1 .. n /\ c < b  BY <1>1, <2>2
    <3>4. ASSUME NEW q  PROVE q \in Before <=> q \in A[b - 1] \cup ({b} \X V)
      <4>1. ASSUME q \in P  PROVE q \in Before <=> q \in A[b - 1] \cup ({b} \X V)
        <5>0. PICK c \in 1 .. n : q \in {c} \X U[c]  BY <3>1, <4>1
        <5>1. PICK j \in U[c] : q = <<c, j>>  BY <5>0
        <5>2. q \in Before <=> c < b \/ (c = b /\ j <= i)  BY <2>1, <4>1, <5>1
        <5>3. q \in A[b - 1] <=> c < b  BY <3>2, <3>3, <5>1
        <5>4. q \in {b} \X V <=> c = b /\ j <= i  BY <5>1
        <5> QED  BY Zenon, <5>2, <5>3, <5>4
      <4>2. q \in A[b - 1] \cup ({b} \X V) => q \in P
        <5>1. q \in A[b - 1] => q \in P  BY Zenon, <3>1, <3>2, <3>3
        <5>2. q \in {b} \X V => q \in P  BY <3>1
        <5> QED  BY <5>1, <5>2
      <4>3. q \in Before => q \in P  OBVIOUS
      <4> QED  BY Zenon, <4>1, <4>2, <4>3
    <3> HIDE DEF Before
    <3> QED  BY Zenon, <3>4
  <2>4. A[b - 1] \cap ({b} \X V) = {}
    <3>1. {b} \X V \subseteq B[b]  BY <1>7
    <3> QED  BY <1>9, <3>1
  <2>5. Cardinality({b} \X V) = Rank(U[b], i) /\ IsFiniteSet({b} \X V)
    <3>1. IsFiniteSet(V)  BY <1>4, FS_Subset
    <3>2. IsFiniteSet({b}) /\ Cardinality({b}) = 1  BY FS_Singleton
    <3> HIDE DEF V
    <3>3. IsFiniteSet({b} \X V) /\ Cardinality({b} \X V) = Cardinality({b}) * Cardinality(V)
      BY <3>1, <3>2, FS_Product
    <3>4. Cardinality(V) \in Nat  BY <3>1, FS_CardinalityType
    <3>5. Cardinality(V) = Rank(U[b], i)  BY Zenon DEF V, Rank
    <3> QED  BY <3>2, <3>3, <3>4, <3>5
  <2>6. IsFiniteSet(A[b - 1])
    <3>1. A[b - 1] \subseteq P  BY <2>3
    <3> QED  BY <1>11, <3>1, FS_Subset
  <2> HIDE DEF V, Before
  <2>7. Cardinality(Before) = off[b - 1] + Rank(U[b], i)
    <3>1. Cardinality(A[b - 1] \cup ({b} \X V))
          = Cardinality(A[b - 1]) + Cardinality({b} \X V) - Cardinality(A[b - 1] \cap ({b} \X V))
      BY Zenon, <2>5, <2>6, FS_Union
    <3>2. Cardinality({}) = 0  BY FS_EmptySet
    <3>3. /\ Cardinality(A[b - 1]) \in Nat /\ Cardinality({b} \X V) \in Nat
          /\ Cardinality(A[b - 1]) = off[b - 1]
      BY <1>13, <2>2, <2>5, <2>6, FS_CardinalityType
    <3>4. Cardinality(A[b - 1] \cup ({b} \X V)) = off[b - 1] + Rank(U[b], i)
      <4>1. Cardinality(A[b - 1] \cap ({b} \X V)) = 0  BY Zenon, <2>4, <3>2
      <4> QED  BY <2>5, <3>1, <3>3, <4>1
    <3> QED  BY Zenon, <2>3, <3>4
  <2>8. Place(blocks, p) = off[b - 1] + Rank(U[b], i)  BY <2>7 DEF Place, Before, P
  <2>9. /\ Rank(U[b], i) \in 1 .. Len(ss[b])
        /\ ss[b][Rank(U[b], i)] = PartOf(blocks[b].items[i])
    BY <1>4
  <2>10. /\ off[b - 1] + Rank(U[b], i) \in 1 .. off[n]
         /\ FlattenSeq(ss)[off[b - 1] + Rank(U[b], i)] = PartOf(blocks[b].items[i])
    BY <1>5, <1>12, <2>9 DEF Offsets
  <2> QED  BY <1>3, <1>13, <2>1, <2>8, <2>10
<1> QED  BY <1>2, <1>11, <1>14, <1>15 DEF P

(* What is downloaded of a message is its parts without the lost ones, in  *)
(* their order and with their values.                                      *)
LEMMA DownloadedParts ==
  ASSUME NEW n \in Nat, DOMAIN parts = 1 .. n, NEW lost \in SUBSET (1 .. n), NEW a
  PROVE  /\ IsFiniteSet(lost) /\ Len(Downloaded(a, lost)) = n - Cardinality(lost)
         /\ \A i \in (1 .. n) \ lost :
              Downloaded(a, lost)[i - Cardinality({f \in lost : f < i})] = PartFor(a, parts[i])
<1> DEFINE I == (1 .. n) \ lost
           e == [i \in I |-> PartFor(a, parts[i])]
           S == {e[i] : i \in I}
<1>1. Downloaded(a, lost) = Filter(n, I, e)
  <2>1. \A i \in 1 .. n : (IF i \in lost THEN <<>> ELSE <<PartFor(a, parts[i])>>)
                          = (IF i \in I THEN <<e[i]>> ELSE <<>>)
    OBVIOUS
  <2>2. [i \in DOMAIN parts |-> IF i \in lost THEN <<>> ELSE <<PartFor(a, parts[i])>>]
        = [i \in 1 .. n |-> IF i \in I THEN <<e[i]>> ELSE <<>>]
    BY <2>1
  <2> QED  BY Zenon, <2>2 DEF Downloaded, Filter
<1>2. e \in [I -> S]  OBVIOUS
<1>3. I \in SUBSET (1 .. n)  OBVIOUS
<1> HIDE DEF e, S
<1>4. Collects(Filter(n, I, e), I, e)
  <2> HIDE DEF I
  <2> QED  BY <1>2, <1>3, FilterFacts
<1>5. IsFiniteSet(1 .. n) /\ Cardinality(1 .. n) = n
  BY FS_Interval
<1>6. IsFiniteSet(lost)  BY <1>5, FS_Subset
<1>7. Cardinality(I) = n - Cardinality(lost)
  <2>1. Cardinality(I) = Cardinality(1 .. n) - Cardinality((1 .. n) \cap lost)
    BY <1>5, FS_Difference
  <2>2. (1 .. n) \cap lost = lost  OBVIOUS
  <2> QED  BY <1>5, <2>1, <2>2
<1>8. ASSUME NEW i \in I  PROVE Rank(I, i) = i - Cardinality({f \in lost : f < i})
  <2> DEFINE X == {f \in lost : f < i}
  <2>1. {j \in I : j <= i} = (1 .. i) \ X  OBVIOUS
  <2>2. (1 .. i) \cap X = X /\ i \in Nat
    <3>1. i \in Nat /\ \A f \in lost : f < i => f \in 1 .. i  OBVIOUS
    <3> QED  BY Zenon, <3>1
  <2>3. IsFiniteSet(1 .. i) /\ Cardinality(1 .. i) = i  BY <2>2, FS_Interval
  <2> HIDE DEF X
  <2>4. Cardinality((1 .. i) \ X) = Cardinality(1 .. i) - Cardinality((1 .. i) \cap X)
    BY <2>3, FS_Difference
  <2>5. Rank(I, i) = Cardinality((1 .. i) \ X)  BY Zenon, <2>1 DEF Rank
  <2>6. Rank(I, i) = i - Cardinality(X)  BY Zenon, <2>2, <2>3, <2>4, <2>5
  <2> QED  BY Zenon, <2>6 DEF X
<1>9. \A i \in I : e[i] = PartFor(a, parts[i])  BY DEF e
<1>10. Len(Filter(n, I, e)) = Cardinality(I) /\ \A i \in I : Filter(n, I, e)[Rank(I, i)] = e[i]
  BY Zenon, <1>4 DEF Collects
<1> QED  BY Zenon, <1>1, <1>6, <1>7, <1>8, <1>9, <1>10

(* The last message of a request is the user's, and the others the         *)
(* system's.                                                               *)
LEMMA RequestFacts ==
  ASSUME NEW client0, NEW prompt, NEW ps, NEW r, r = Request(client0, prompt, ps)
  PROVE  /\ Last(r) = [role |-> "user", content |-> ps]
         /\ \A i \in DOMAIN r : r[i].role \in {"system", "user"}
<1> DEFINE u == [role |-> "user", content |-> ps]
           type == IF client0 = "OpenResponses" THEN "input_text" ELSE "text"
           s == [role |-> "system", content |-> <<Part(type, prompt)>>]
<1>1. u.role = "user" /\ s.role = "system"  OBVIOUS
<1>2. r = IF prompt = <<>> THEN <<>> \o <<u>> ELSE <<s>> \o <<u>>
  BY DEF Request, System, User
<1> HIDE DEF u, s
<1>3. r = <<u>> \/ r = <<s, u>>
  <2>1. <<>> \o <<u>> = <<u>>  OBVIOUS
  <2>2. <<s>> \o <<u>> = <<s, u>>
    <3>1. <<s>> \in Seq({s, u}) /\ <<u>> \in Seq({s, u})  OBVIOUS
    <3>2. /\ <<s>> \o <<u>> \in Seq({s, u}) /\ Len(<<s>> \o <<u>>) = 2
          /\ (<<s>> \o <<u>>)[1] = s /\ (<<s>> \o <<u>>)[2] = u
      BY <3>1, ConcatProperties
    <3>3. <<s, u>> \in Seq({s, u}) /\ Len(<<s, u>>) = 2  OBVIOUS
    <3>4. \A i \in 1 .. 2 : (<<s>> \o <<u>>)[i] = <<s, u>>[i]  BY <3>2
    <3> QED  BY <3>2, <3>3, <3>4, SeqEqual
  <2> QED  BY <1>2, <2>1, <2>2
<1>4. Last(r) = u  BY <1>3 DEF Last
<1>5. \A i \in DOMAIN r : r[i] \in {s, u}  BY <1>3
<1> QED  BY <1>1, <1>4, <1>5 DEF u

-----------------------------------------------------------------------------
(***************************************************************************)
(* From the answer to the reply.                                           *)
(***************************************************************************)
(* The text of an item is a text.                                          *)
LEMMA TextIsText ==
  ASSUME NEW item \in AnswerItem
  PROVE  TextOf(item) \in Seq(Token)
<1>0. PICK ps : ps = item.parts  OBVIOUS
<1> DEFINE ss == [i \in DOMAIN ps |-> IF ps[i].type = "output_text" THEN ps[i].text ELSE <<>>]
<1>1. ps \in Seq([type : STRING, text : Seq(Token)])  BY <1>0 DEF AnswerItem
<1>2. /\ Len(ps) \in Nat /\ DOMAIN ps = 1 .. Len(ps)
      /\ \A i \in 1 .. Len(ps) : ps[i] \in [type : STRING, text : Seq(Token)]
  BY <1>1, LenProperties, ElementOfSeq
<1>3. ss \in Seq(Seq(Token))
  <2>1. ASSUME NEW i \in 1 .. Len(ps)
        PROVE  (IF ps[i].type = "output_text" THEN ps[i].text ELSE <<>>) \in Seq(Token)
    <3>1. ps[i].text \in Seq(Token)  BY <1>2
    <3>2. <<>> \in Seq(Token)  BY EmptySeq
    <3> QED  BY Zenon, <3>1, <3>2
  <2>2. ss \in [1 .. Len(ps) -> Seq(Token)]  BY Zenon, <1>2, <2>1
  <2> HIDE DEF ss
  <2> QED  BY <1>2, <2>2, FunctionIsSeq
<1> HIDE DEF ss
<1>4. FlattenSeq(ss) \in Seq(Token)  BY <1>3, FlattenFacts
<1> QED  BY Zenon, <1>0, <1>4 DEF ss, TextOf

(* The text of an answer to responses: empty if all the messages in it are.*)
LEMMA ResponsesText ==
  ASSUME NEW items \in Seq(AnswerItem),
         NEW I, I = {i \in DOMAIN items : IsAssistantOutput(items[i])},
         NEW r, r = ResponsesContent(ParseResponses("OpenResponses", items))
  PROVE  r \in Seq(Token) /\ (r = <<>> <=> \A i \in I : TextOf(items[i]) = <<>>)
<1> DEFINE n == Len(items)
           e == [i \in I |-> items[i]]
<1>1. /\ n \in Nat /\ DOMAIN items = 1 .. n /\ \A i \in 1 .. n : items[i] \in AnswerItem
  BY LenProperties, ElementOfSeq
<1>2. I \in SUBSET (1 .. n) /\ e \in [I -> AnswerItem]  BY <1>1
<1>3. PICK F : F = Filter(n, I, e)  OBVIOUS
<1>4. F \in Seq(AnswerItem) /\ Collects(F, I, e)
  <2> HIDE DEF e
  <2> QED  BY <1>1, <1>2, <1>3, FilterFacts
<1>5. ParseResponses("OpenResponses", items) = F
  <2>1. \A i \in 1 .. n : (IF IsAssistantOutput(items[i]) THEN <<items[i]>> ELSE <<>>)
                          = (IF i \in I THEN <<e[i]>> ELSE <<>>)
    BY <1>1
  <2>2. [i \in DOMAIN items |-> IF IsAssistantOutput(items[i]) THEN <<items[i]>> ELSE <<>>]
        = [i \in 1 .. n |-> IF i \in I THEN <<e[i]>> ELSE <<>>]
    BY <1>1, <2>1
  <2> QED  BY Zenon, <1>3, <2>2 DEF ParseResponses, Filter
<1>6. Len(F) \in Nat /\ DOMAIN F = 1 .. Len(F) /\ \A m \in 1 .. Len(F) : F[m] \in AnswerItem
  BY <1>4, LenProperties, ElementOfSeq
<1> DEFINE tt == [m \in DOMAIN F |-> TextOf(F[m])]
<1>7. tt \in Seq(Seq(Token)) /\ Len(tt) = Len(F) /\ \A m \in 1 .. Len(F) : tt[m] = TextOf(F[m])
  BY <1>6, TextIsText
<1>8. r = FlattenSeq(tt)  BY <1>5 DEF ResponsesContent
<1> HIDE DEF tt
<1>9. r \in Seq(Token) /\ (r = <<>> <=> \A m \in 1 .. Len(tt) : Len(tt[m]) = 0)
  BY <1>7, <1>8, FlattenFacts, FlattenEmpty
<1>10. \A m \in 1 .. Len(F) : Len(tt[m]) = 0 <=> TextOf(F[m]) = <<>>
  BY <1>6, <1>7, TextIsText, EmptySeq
<1>11. \A i \in I : Rank(I, i) \in 1 .. Len(F) /\ F[Rank(I, i)] = items[i]
  BY <1>4 DEF Collects
<1>12. \A m \in 1 .. Len(F) : \E i \in I : F[m] = items[i]
  BY <1>4 DEF Collects
<1>13. ASSUME \A m \in 1 .. Len(F) : TextOf(F[m]) = <<>>, NEW i \in I
       PROVE  TextOf(items[i]) = <<>>
  BY Zenon, <1>11, <1>13
<1>14. ASSUME \A i \in I : TextOf(items[i]) = <<>>, NEW m \in 1 .. Len(F)
       PROVE  TextOf(F[m]) = <<>>
  <2>1. PICK i \in I : F[m] = items[i]  BY Zenon, <1>12
  <2> QED  BY Zenon, <1>14, <2>1
<1> QED  BY Zenon, <1>7, <1>9, <1>10, <1>13, <1>14

(* A loop that puts nl before each message.                                *)
Lines(items, nl) ==
  FlattenSeq([i \in DOMAIN items |->
                IF items[i].role = "assistant" THEN <<nl>> \o TextOf(items[i]) ELSE <<>>])

Silent(items, I) == \A i \in I : TextOf(items[i]) = <<>>
NoLines(I, nl) == [k \in 1 .. Cardinality(I) |-> nl]

(* There is no more than these lines just if all the messages are empty.   *)
LEMMA TextByLines ==
  ASSUME NEW items \in Seq(AnswerItem),
         NEW I, I = {i \in DOMAIN items : items[i].role = "assistant"},
         NEW nl \in Token, NEW r, r = Lines(items, nl)
  PROVE  /\ r \in Seq(Token) /\ (r = <<>> <=> I = {})
         /\ r = NoLines(I, nl) <=> Silent(items, I)
<1> DEFINE n == Len(items)
           e == [i \in I |-> nl]
           tt == [i \in 1 .. n |-> IF i \in I THEN <<e[i]>> ELSE <<>>]
           ss == [i \in 1 .. n |-> IF i \in I THEN <<nl>> \o TextOf(items[i]) ELSE <<>>]
<1>1. /\ n \in Nat /\ DOMAIN items = 1 .. n /\ \A i \in 1 .. n : items[i] \in AnswerItem
  BY LenProperties, ElementOfSeq
<1>2. I \in SUBSET (1 .. n) /\ e \in [I -> Token]  BY <1>1
<1>3. <<nl>> \in Seq(Token) /\ Len(<<nl>>) = 1 /\ <<>> \in Seq(Token) /\ Len(<<>>) = 0
  BY EmptySeq
<1>4. r = FlattenSeq(ss)
  <2>1. \A i \in 1 .. n : (IF items[i].role = "assistant" THEN <<nl>> \o TextOf(items[i])
                                                           ELSE <<>>) = ss[i]
    BY <1>1
  <2>2. [i \in DOMAIN items |->
           IF items[i].role = "assistant" THEN <<nl>> \o TextOf(items[i]) ELSE <<>>] = ss
    BY <1>1, <2>1
  <2> QED  BY Zenon, <2>2 DEF Lines
<1>5. FlattenSeq(tt) \in Seq(Token) /\ Collects(FlattenSeq(tt), I, e)
  <2>1. Filter(n, I, e) = FlattenSeq(tt)  BY Zenon DEF Filter
  <2> HIDE DEF e, tt
  <2>2. Filter(n, I, e) \in Seq(Token) /\ Collects(Filter(n, I, e), I, e)
    BY <1>1, <1>2, FilterFacts
  <2> QED  BY Zenon, <2>1, <2>2
<1>6. FlattenSeq(tt) = [k \in 1 .. Cardinality(I) |-> nl]
  <2>1. PICK F : F = FlattenSeq(tt)  OBVIOUS
  <2>2. /\ F \in Seq(Token) /\ Len(F) = Cardinality(I) /\ Cardinality(I) \in Nat
        /\ \A k \in 1 .. Len(F) : \E i \in I : F[k] = e[i]
    BY <1>5, <2>1 DEF Collects
  <2>3. F \in [1 .. Cardinality(I) -> Token] /\ \A k \in 1 .. Cardinality(I) : F[k] = nl
    BY <2>2, LenProperties
  <2> QED  BY <2>1, <2>3
<1>7. \A i \in I : i \in 1 .. n /\ ss[i] = <<nl>> \o TextOf(items[i]) /\ tt[i] = <<nl>>
  BY Zenon, <1>2
<1>8. \A i \in (1 .. n) \ I : ss[i] = <<>> /\ tt[i] = <<>>  BY Zenon
<1>9. DOMAIN ss = 1 .. n /\ DOMAIN tt = 1 .. n
      /\ ss = [i \in 1 .. n |-> ss[i]] /\ tt = [i \in 1 .. n |-> tt[i]]
  BY Zenon
<1> HIDE DEF ss, tt, e, n
<1>10. ASSUME NEW i \in I
       PROVE  /\ TextOf(items[i]) \in Seq(Token) /\ Len(TextOf(items[i])) \in Nat
              /\ ss[i] \in Seq(Token) /\ Len(ss[i]) = 1 + Len(TextOf(items[i]))
              /\ tt[i] \in Seq(Token) /\ Len(tt[i]) = 1
  <2>1. PICK t : t = TextOf(items[i]) /\ t \in Seq(Token)  BY <1>1, <1>7, TextIsText
  <2>2. Len(t) \in Nat  BY <2>1, LenProperties
  <2>3. <<nl>> \o t \in Seq(Token)  BY <1>3, <2>1, ConcatProperties
  <2>4. Len(<<nl>> \o t) = 1 + Len(t)  BY <1>3, <2>1, ConcatProperties
  <2> QED  BY Zenon, <1>3, <1>7, <2>1, <2>2, <2>3, <2>4
<1>11. ASSUME NEW i \in (1 .. n) \ I
       PROVE  /\ ss[i] \in Seq(Token) /\ Len(ss[i]) = 0
              /\ tt[i] \in Seq(Token) /\ Len(tt[i]) = 0
  BY Zenon, <1>3, <1>8
<1>12. /\ ss \in Seq(Seq(Token)) /\ Len(ss) = n
       /\ tt \in Seq(Seq(Token)) /\ Len(tt) = n
  <2>1. \A i \in 1 .. n : ss[i] \in Seq(Token) /\ tt[i] \in Seq(Token)  BY Zenon, <1>10, <1>11
  <2>2. ss \in [1 .. n -> Seq(Token)] /\ tt \in [1 .. n -> Seq(Token)]  BY Zenon, <1>9, <2>1
  <2> QED  BY <1>1, <2>2, FunctionIsSeq
<1>13. ASSUME \A i \in I : TextOf(items[i]) = <<>>  PROVE ss = tt
  <2>1. <<nl>> \o <<>> = <<nl>>  BY <1>3, ConcatEmptySeq
  <2>2. \A i \in 1 .. n : ss[i] = tt[i]  BY Zenon, <1>7, <1>8, <1>13, <2>1
  <2> QED  BY Zenon, <1>9, <2>2
<1>14. ASSUME NEW l \in I, TextOf(items[l]) # <<>>
       PROVE  Len(FlattenSeq(tt)) < Len(FlattenSeq(ss))
  <2>1. \A i \in 1 .. n : Len(tt[i]) <= Len(ss[i])
    <3>1. ASSUME NEW i \in I  PROVE Len(tt[i]) <= Len(ss[i])
      <4>1. PICK x \in Nat : x = Len(TextOf(items[i]))  BY <1>10
      <4>2. Len(ss[i]) = 1 + x /\ Len(tt[i]) = 1  BY <1>10, <4>1
      <4> QED  BY <4>2
    <3>2. ASSUME NEW i \in (1 .. n) \ I  PROVE Len(tt[i]) <= Len(ss[i])  BY <1>11
    <3> QED  BY <3>1, <3>2
  <2>2. Len(TextOf(items[l])) # 0  BY <1>10, <1>14, EmptySeq
  <2>3. Len(tt[l]) < Len(ss[l])  BY <1>10, <2>2
  <2> QED  BY <1>7, <1>12, <2>1, <2>3, FlattenLonger
<1>15. r \in Seq(Token) /\ (r = <<>> <=> \A i \in 1 .. n : Len(ss[i]) = 0)
  BY <1>4, <1>12, FlattenFacts, FlattenEmpty
<1>16. (\A i \in 1 .. n : Len(ss[i]) = 0) <=> I = {}
  <2>1. \A i \in I : Len(ss[i]) # 0 /\ i \in 1 .. n  BY <1>7, <1>10
  <2>2. I = {} => \A i \in 1 .. n : Len(ss[i]) = 0  BY <1>11
  <2> QED  BY Zenon, <2>1, <2>2
<1>17. r = FlattenSeq(tt) <=> \A i \in I : TextOf(items[i]) = <<>>
  <2>1. Len(FlattenSeq(tt)) \in Nat  BY <1>5, LenProperties
  <2> QED  BY <1>4, <1>13, <1>14, <2>1
<1> QED  BY Zenon, <1>6, <1>15, <1>16, <1>17 DEF NoLines, Silent

(* In a chat it is the newline.                                            *)
LEMMA ChatText ==
  ASSUME NEW items \in Seq(AnswerItem),
         NEW I, I = {i \in DOMAIN items : items[i].role = "assistant"},
         NEW r, r = ChatContent(items)
  PROVE  /\ r \in Seq(Token) /\ (r = <<>> <=> I = {})
         /\ r = [k \in 1 .. Cardinality(I) |-> "\n"] <=> \A i \in I : TextOf(items[i]) = <<>>
<1>1. \E nl : nl = "\n"  BY Zenon
<1>2. PICK nl : nl = "\n"  BY Zenon, <1>1
<1>3. nl \in Token  BY Zenon, <1>2, TokenAssumption
<1>4. r = Lines(items, nl)  BY Zenon, <1>2 DEF ChatContent, Lines
<1>5. r \in Seq(Token)  BY <1>3, <1>4, TextByLines
<1>6. r = <<>> <=> I = {}  BY <1>3, <1>4, TextByLines
<1>7. r = NoLines(I, nl) <=> Silent(items, I)
  BY <1>3, <1>4, TextByLines
<1> QED  BY Zenon, <1>2, <1>5, <1>6, <1>7 DEF NoLines, Silent

-----------------------------------------------------------------------------
(***************************************************************************)
(* The inductive invariant: where each piece of data comes from.           *)
(***************************************************************************)
(* The event that passed the gate; the parts parsed from its content, for  *)
(* a post as long as it has any; what the request carries of them; the     *)
(* answer of the client's API in the app's dialect; the file in its text.  *)
EventKnown ==
  pc \in {"event", "parsed", "refused"} => event \in Events /\ ShouldProcess(event)
PartsKnown ==
  pc \in {"parsed", "refused"} =>
    /\ content \in Contents[event.type]
    /\ parts = ParseMessageContent(WithoutMention(content), event.type)
    /\ pc = "parsed" <=> parts # <<>>
PostKnown ==
  content.blocks # <<>> => content.blocks \in Seq(Block) /\ parts = PartsOfPost(content.blocks)
FailedKnown == pc # "asked" => failed = {}
RequestKnown ==
  pc = "asked" => Last(request) = [role |-> "user", content |-> Downloaded(app, failed)]
ClientKnown ==
  pc \in {"asked", "sent", "empty", "replied"} =>
    app \in Types /\ client \in Types /\ CanBuild(app, client)
AnswerKnown ==
  IF pc \in {"empty", "replied"}
    THEN answer \in Answers[client] /\ reply = GetContent(app, client, answer)
    ELSE reply = <<>>
FileKnown == IF pc \in {"empty", "replied"} THEN file = MediaPath(reply, Separators(app))
                                            ELSE file = <<>>

IInv == /\ TypeOK /\ EventKnown /\ PartsKnown /\ PostKnown /\ FailedKnown
        /\ RequestKnown /\ ClientKnown /\ AnswerKnown /\ FileKnown

(* What a content's parts are, whatever the type of its message.           *)
LEMMA ParsedParts ==
  ASSUME event \in Events, NEW c \in Contents[event.type],
         NEW ps, ps = ParseMessageContent(WithoutMention(c), event.type)
  PROVE  /\ ps \in Seq(MessagePart)
         /\ c.blocks # <<>> => c.blocks \in Seq(Block) /\ ps = PartsOfPost(c.blocks)
         /\ event.type = "post" => c.blocks \in Seq(Block) /\ ps = PartsOfPost(c.blocks)
<1>1. /\ c.imageKey \in Seq(Token)
      /\ IF event.type = "post" THEN c.blocks \in Seq(Block) ELSE c.blocks = <<>>
  BY ContentAssumption
<1>2. CASE event.type = "text"
  <2>1. c \in [json : Seq(Token), imageKey : {<<>>}, blocks : {<<>>}]  BY <1>2, ContentAssumption
  <2>2. PICK json : json = WithoutMention(c).json  OBVIOUS
  <2>3. json \in Seq(Token)
    <3> DEFINE key == BotMentionKey(event.mentions, botName)
    <3> HIDE DEF key
    <3>1. CASE key = ""
      <4>1. WithoutMention(c) = c  BY Zenon, <3>1 DEF WithoutMention, key
      <4> QED  BY <2>1, <2>2, <4>1
    <3>2. CASE key # ""
      <4>1. WithoutMention(c) = [c EXCEPT !.json = StripBotMention(@, key)]
        BY Zenon, <1>2, <3>2 DEF WithoutMention, key
      <4>2. StripBotMention(c.json, key) = TrimSpace(RemoveFirst(c.json, key))
        BY Zenon, <3>2 DEF StripBotMention
      <4>3. c.json \in Seq(Token)  BY <2>1
      <4>4. TrimSpace(RemoveFirst(c.json, key)) \in Seq(Token)  BY <4>3, NothingAdded
      <4>5. json = StripBotMention(c.json, key)  BY <2>1, <2>2, <4>1
      <4> QED  BY Zenon, <4>2, <4>4, <4>5
    <3> QED  BY <3>1, <3>2
  <2>4. ps = IF IsQuoted(json) /\ Unquoted(json) # <<>>
               THEN <<Part("input_text", Unquoted(json))>> ELSE <<>>
    BY <1>2, <2>2 DEF ParseMessageContent
  <2>5. IsQuoted(json) => Unquoted(json) \in Seq(Token)
    <3> SUFFICES ASSUME IsQuoted(json) PROVE Unquoted(json) \in Seq(Token)  OBVIOUS
    <3>1. Len(json) \in Nat /\ Len(json) > 1  BY <2>3, LenProperties DEF IsQuoted
    <3>2. 2 \in 1 .. Len(json) + 1 /\ Len(json) - 1 \in 2 - 1 .. Len(json)  BY <3>1
    <3>3. SubSeq(json, 2, Len(json) - 1) \in Seq(Token)  BY <2>3, <3>2, SubSeqFacts
    <3> QED  BY <3>3 DEF Unquoted
  <2>6. ASSUME IsQuoted(json), Unquoted(json) # <<>>
        PROVE  ps \in Seq(MessagePart)
    <3>1. PICK part : part = Part("input_text", Unquoted(json))  OBVIOUS
    <3>2. part \in MessagePart  BY <2>5, <2>6, <3>1 DEF Part, MessagePart
    <3>3. ps = <<part>>  BY Zenon, <2>4, <2>6, <3>1
    <3> QED  BY <3>2, <3>3
  <2>7. ~(IsQuoted(json) /\ Unquoted(json) # <<>>) => ps = <<>>  BY Zenon, <2>4
  <2>8. ps \in Seq(MessagePart)  BY <2>6, <2>7, EmptySeq
  <2> QED  BY <1>1, <1>2, <2>8
<1>3. CASE event.type = "image"
  <2>1. ps = IF c.imageKey # <<>> THEN <<Part("input_image", c.imageKey)>> ELSE <<>>
    BY <1>3 DEF ParseMessageContent, WithoutMention
  <2>2. ASSUME c.imageKey # <<>>  PROVE ps \in Seq(MessagePart)
    <3>1. PICK part : part = Part("input_image", c.imageKey)  OBVIOUS
    <3>2. part \in MessagePart  BY <1>1, <2>2, <3>1 DEF Part, MessagePart
    <3>3. ps = <<part>>  BY Zenon, <2>1, <2>2, <3>1
    <3> QED  BY <3>2, <3>3
  <2>3. c.imageKey = <<>> => ps = <<>>  BY Zenon, <2>1
  <2>4. ps \in Seq(MessagePart)  BY <2>2, <2>3, EmptySeq
  <2> QED  BY <1>1, <1>3, <2>4
<1>4. CASE event.type = "post"
  <2>1. ps = PartsOfPost(c.blocks)  BY <1>4 DEF ParseMessageContent, WithoutMention
  <2> QED  BY <1>1, <1>4, <2>1, PostParts
<1>5. CASE event.type \notin {"text", "image", "post"}
  <2>1. ps = <<>>  BY <1>5 DEF ParseMessageContent, WithoutMention
  <2> QED  BY <1>1, <1>5, <2>1
<1> QED  BY <1>2, <1>3, <1>4, <1>5

(* A reply is a text, empty where the API is not that of the dialect.      *)
LEMMA ReplyIsText ==
  ASSUME NEW a \in Types, NEW k \in Types, CanBuild(a, k), NEW items \in Seq(AnswerItem),
         NEW r, r = GetContent(a, k, items)
  PROVE  r \in Seq(Token) /\ (a # k => r = <<>>)
<1>1. CASE a = "ChatCompletions"
  <2>1. k = "ChatCompletions"  BY <1>1 DEF CanBuild, Types
  <2>2. r = ChatContent(items)  BY <1>1, <2>1 DEF GetContent, ParseChat
  <2>3. PICK I : I = {i \in DOMAIN items : items[i].role = "assistant"}  OBVIOUS
  <2>4. r \in Seq(Token)  BY <2>2, <2>3, ChatText
  <2> QED  BY <1>1, <2>1, <2>4
<1>2. CASE a = "OpenResponses" /\ k = "OpenResponses"
  <2>1. r = ResponsesContent(ParseResponses("OpenResponses", items))  BY <1>2 DEF GetContent
  <2>2. PICK I : I = {i \in DOMAIN items : IsAssistantOutput(items[i])}  OBVIOUS
  <2>3. r \in Seq(Token)  BY <2>1, <2>2, ResponsesText
  <2> QED  BY <1>2, <2>3
<1>3. CASE a = "OpenResponses" /\ k = "ChatCompletions"
  <2>1. r = FlattenSeq(<<>>)
    BY <1>3 DEF GetContent, ResponsesContent, ParseResponses
  <2>2. PICK ss : ss = <<>>  OBVIOUS
  <2>3. ss \in Seq(Seq(Token)) /\ Len(ss) = 0  BY <2>2, EmptySeq
  <2>4. FlattenSeq(ss) = <<>> <=> \A i \in 1 .. Len(ss) : Len(ss[i]) = 0  BY <2>3, FlattenEmpty
  <2>5. FlattenSeq(ss) = <<>>  BY <2>3, <2>4
  <2>6. r = <<>>  BY Zenon, <2>1, <2>2, <2>5
  <2> QED  BY <2>6, EmptySeq
<1> QED  BY <1>1, <1>2, <1>3 DEF Types

(* Every event starts with a body.                                         *)
LEMMA InitIInv == Init => IInv
<1> SUFFICES ASSUME Init  PROVE IInv  OBVIOUS
<1>1. TypeOK
  <2>1. bytes \in Seq(Nat)  BY ContentAssumption DEF Init
  <2>2. /\ <<>> \in Seq(MessagePart) /\ <<>> \in Seq(Token)
        /\ \A i \in DOMAIN <<>> : <<>>[i].role \in {"system", "user"}
    BY EmptySeq
  <2>3. \A i \in DOMAIN request : request[i].role \in {"system", "user"}
    BY <2>2 DEF Init
  <2>4. parts \in Seq(MessagePart) /\ reply \in Seq(Token)  BY Zenon, <2>2 DEF Init
  <2> QED  BY <2>1, <2>3, <2>4 DEF Init, TypeOK
<1>2. /\ pc = "body" /\ reply = <<>> /\ file = <<>> /\ content.blocks = <<>> /\ failed = {}
  BY DEF Init, NoContent
<1> QED  BY <1>1, <1>2 DEF IInv, EventKnown, PartsKnown, PostKnown, FailedKnown, RequestKnown,
                           ClientKnown, AnswerKnown, FileKnown

(* Every step keeps the invariant.                                         *)
LEMMA NextIInv == IInv /\ [Next]_vars => IInv'
<1> SUFFICES ASSUME IInv, [Next]_vars  PROVE IInv'  OBVIOUS
<1> USE DEF IInv, inbound, outbound
<1>1. CASE DecryptFails
  <2>1. /\ pc = "body" /\ pc' \in {"undecrypted", "panicked"}
        /\ UNCHANGED <<bytes, inbound, outbound>>
    BY <1>1 DEF DecryptFails
  <2>2. TypeOK'  BY <2>1 DEF TypeOK
  <2> QED  BY <2>1, <2>2 DEF EventKnown, PartsKnown, PostKnown, FailedKnown, RequestKnown,
                             ClientKnown, AnswerKnown, FileKnown
<1>2. CASE Decrypt
  <2> DEFINE data == Ciphertext(bytes)
  <2>1. /\ pc = "body" /\ pc' = "plaintext" /\ ~TooShort(bytes) /\ WellPadded(data)
        /\ bytes' = Unpad(data) /\ UNCHANGED <<inbound, outbound>>
    BY <1>2 DEF Decrypt
  <2>2. bytes' \in Seq(Nat)
    <3>1. data \in Seq(Nat) /\ Len(data) > 0  BY <2>1, CiphertextFacts DEF TypeOK
    <3>2. Len(data) \in Nat /\ PadLength(data) \in Nat
      BY <2>1, <3>1, LenProperties, MessageTextAssumption DEF WellPadded
    <3> HIDE DEF data
    <3>3. \A i \in 1 .. Len(data) - PadLength(data) : data[i] \in Nat
      BY <3>1, <3>2, ElementOfSeq
    <3>4. SubSeq(data, 1, Len(data) - PadLength(data)) \in Seq(Nat)
      BY <3>2, <3>3, SubSeqProperties
    <3> QED  BY <2>1, <3>4 DEF Unpad
  <2>3. TypeOK'  BY <2>1, <2>2 DEF TypeOK
  <2> QED  BY <2>1, <2>3 DEF EventKnown, PartsKnown, PostKnown, FailedKnown, RequestKnown,
                             ClientKnown, AnswerKnown, FileKnown
<1>3. ASSUME NEW e \in Events, Ignore(e)  PROVE IInv'
  <2>1. /\ pc = "plaintext" /\ pc' = "ignored" /\ bytes' = <<>> /\ UNCHANGED <<inbound, outbound>>
    BY <1>3 DEF Ignore
  <2>2. TypeOK'  BY <2>1, EmptySeq DEF TypeOK
  <2> QED  BY <2>1, <2>2 DEF EventKnown, PartsKnown, PostKnown, FailedKnown, RequestKnown,
                             ClientKnown, AnswerKnown, FileKnown
<1>4. ASSUME NEW e \in Events, Take(e)  PROVE IInv'
  <2>1. /\ pc = "plaintext" /\ pc' = "event" /\ ShouldProcess(e) /\ bytes' = <<>> /\ event' = e
        /\ UNCHANGED <<botName, content, parts, outbound>>
    BY <1>4 DEF Take
  <2>2. TypeOK'  BY <2>1, EmptySeq DEF TypeOK
  <2>3. EventKnown'  BY <2>1 DEF EventKnown, ShouldProcess
  <2> QED  BY <2>1, <2>2, <2>3 DEF PartsKnown, PostKnown, FailedKnown, RequestKnown,
                                   ClientKnown, AnswerKnown, FileKnown
<1>5. ASSUME pc = "event", NEW c \in Contents[event.type], Parse(c)  PROVE IInv'
  <2>1. /\ content' = c /\ parts' = ParseMessageContent(WithoutMention(c), event.type)
        /\ pc' = (IF parts' = <<>> THEN "refused" ELSE "parsed")
        /\ UNCHANGED <<bytes, botName, event, outbound>>
    BY <1>5 DEF Parse
  <2>2. event \in Events /\ EventKnown'  BY <1>5, <2>1 DEF EventKnown, ShouldProcess
  <2>3. PICK ps : ps = ParseMessageContent(WithoutMention(c), event.type)  OBVIOUS
  <2>4. /\ ps \in Seq(MessagePart)
        /\ c.blocks # <<>> => c.blocks \in Seq(Block) /\ ps = PartsOfPost(c.blocks)
    BY <1>5, <2>2, <2>3, ParsedParts
  <2>5. failed = {}  BY <1>5 DEF FailedKnown
  <2>6. TypeOK'  BY <2>1, <2>3, <2>4, <2>5 DEF TypeOK
  <2>7. PostKnown'  BY <2>1, <2>3, <2>4 DEF PostKnown
  <2>8. PartsKnown'
    <3>1. WithoutMention(c)' = WithoutMention(c)  BY <2>1 DEF WithoutMention
    <3> QED  BY <1>5, <2>1, <3>1 DEF PartsKnown
  <2> QED  BY <1>5, <2>1, <2>2, <2>5, <2>6, <2>7, <2>8 DEF FailedKnown, RequestKnown, ClientKnown,
                                                           AnswerKnown, FileKnown
<1>6. ASSUME NEW a \in Types, NEW k \in Types, BuildFails(a, k)  PROVE IInv'
  <2>1. /\ pc = "parsed" /\ pc' = "noRequest" /\ app' = a /\ client' = k
        /\ event' = NoEvent /\ content' = NoContent /\ parts' = <<>>
        /\ UNCHANGED <<bytes, botName, failed, request, answer, reply, file>>
    BY <1>6 DEF BuildFails
  <2>2. failed = {} /\ content'.blocks = <<>>  BY <2>1 DEF FailedKnown, NoContent
  <2>3. TypeOK'  BY <2>1, <2>2, EmptySeq DEF TypeOK
  <2> QED  BY <2>1, <2>2, <2>3 DEF EventKnown, PartsKnown, PostKnown, FailedKnown, RequestKnown,
                                   ClientKnown, AnswerKnown, FileKnown
<1>7. ASSUME NEW a \in Types, NEW k \in Types, NEW lost \in SUBSET Images, NEW prompt,
             Ask(a, k, lost, prompt)
      PROVE  IInv'
  <2>1. /\ pc = "parsed" /\ CanBuild(a, k) /\ pc' = "asked" /\ app' = a /\ client' = k
        /\ failed' = lost /\ request' = Request(k, prompt, Downloaded(a, lost))
        /\ event' = NoEvent /\ UNCHANGED <<bytes, botName, content, parts, answer, reply, file>>
    BY <1>7 DEF Ask
  <2>2. PICK ps : ps = Downloaded(a, lost)  OBVIOUS
  <2>3. /\ Last(request') = [role |-> "user", content |-> ps]
        /\ \A i \in DOMAIN request' : request'[i].role \in {"system", "user"}
    <3>1. request' = Request(k, prompt, ps)  BY <2>1, <2>2
    <3> QED  BY <3>1, RequestFacts
  <2>4. Downloaded(app, failed)' = ps  BY <2>1, <2>2 DEF Downloaded
  <2>5. TypeOK'
    <3>1. lost \subseteq DOMAIN parts  BY DEF Images
    <3> QED  BY <2>1, <2>3, <3>1 DEF TypeOK
  <2>6. RequestKnown'  BY <2>3, <2>4 DEF RequestKnown
  <2> QED  BY <2>1, <2>5, <2>6 DEF EventKnown, PartsKnown, PostKnown, FailedKnown,
                                   ClientKnown, AnswerKnown, FileKnown
<1>8. CASE Send
  <2>1. /\ pc = "asked" /\ pc' = "sent" /\ botName' = "" /\ content' = NoContent /\ parts' = <<>>
        /\ failed' = {} /\ request' = <<>>
        /\ UNCHANGED <<bytes, event, app, client, answer, reply, file>>
    BY <1>8 DEF Send
  <2>2. content'.blocks = <<>>  BY <2>1 DEF NoContent
  <2>3. TypeOK'
    <3>0. DOMAIN <<>> = {}  OBVIOUS
    <3>1. DOMAIN request' = {}  BY Zenon, <2>1, <3>0
    <3>2. parts' \in Seq(MessagePart)  BY Zenon, <2>1, EmptySeq
    <3> QED  BY <2>1, <3>1, <3>2 DEF TypeOK
  <2> QED  BY <2>1, <2>2, <2>3 DEF EventKnown, PartsKnown, PostKnown, FailedKnown, RequestKnown,
                                   ClientKnown, AnswerKnown, FileKnown
<1>9. CASE Unusable
  <2>1. pc = "sent" /\ pc' = "noAnswer" /\ UNCHANGED <<bytes, inbound, outbound>>
    BY <1>9 DEF Unusable
  <2>2. TypeOK'  BY <2>1 DEF TypeOK
  <2> QED  BY <2>1, <2>2 DEF EventKnown, PartsKnown, PostKnown, FailedKnown, RequestKnown,
                             ClientKnown, AnswerKnown, FileKnown
<1>10. ASSUME pc = "sent", NEW items \in Answers[client], Receive(items)  PROVE IInv'
  <2>1. /\ answer' = items /\ reply' = GetContent(app, client, items)
        /\ file' = MediaPath(reply', Separators(app))
        /\ pc' = (IF reply' = <<>> THEN "empty" ELSE "replied")
        /\ UNCHANGED <<bytes, inbound, app, client, failed, request>>
    BY <1>10 DEF Receive
  <2>2. app \in Types /\ client \in Types /\ CanBuild(app, client)
    BY <1>10 DEF ClientKnown
  <2>3. items \in Seq(AnswerItem)  BY <1>10, <2>2, ContentAssumption DEF Types
  <2>4. reply' \in Seq(Token)  BY <2>1, <2>2, <2>3, ReplyIsText
  <2>5. TypeOK'  BY <2>1, <2>4 DEF TypeOK
  <2> QED  BY <1>10, <2>1, <2>2, <2>5 DEF EventKnown, PartsKnown, PostKnown, FailedKnown,
                                          RequestKnown, ClientKnown, AnswerKnown, FileKnown
<1>11. CASE Over \/ UNCHANGED vars
  <2>1. UNCHANGED vars  BY <1>11 DEF Over
  <2> USE DEF vars
  <2>2. TypeOK'  BY <2>1 DEF TypeOK
  <2>3. EventKnown'  BY <2>1 DEF EventKnown, ShouldProcess
  <2>4. PartsKnown'  BY <2>1 DEF PartsKnown, WithoutMention
  <2>5. RequestKnown'  BY <2>1 DEF RequestKnown, Downloaded
  <2> QED  BY <2>1, <2>2, <2>3, <2>4, <2>5 DEF PostKnown, FailedKnown, ClientKnown, AnswerKnown,
                                               FileKnown
<1> QED  BY <1>1, <1>2, <1>3, <1>4, <1>5, <1>6, <1>7, <1>8, <1>9, <1>10, <1>11 DEF Next

(* What the search for a file says of any state.                           *)
LEMMA FileIsFound == IInv => FileIsNamedInReply
<1> SUFFICES ASSUME IInv  PROVE FileIsNamedInReply  OBVIOUS
<1>0. reply \in Seq(Token)  BY DEF IInv, TypeOK
<1>1. CASE pc \in {"empty", "replied"}
  BY <1>0, <1>1, FileFound DEF IInv, FileKnown
<1>2. CASE pc \notin {"empty", "replied"}
  <2> DEFINE at == SelectInSeq(reply, LAMBDA t : t = "MEDIA:")
             I == {i \in 1 .. Len(reply) : reply[i] = "MEDIA:"}
  <2>1. reply = <<>> /\ file = <<>>  BY <1>2 DEF IInv, AnswerKnown, FileKnown
  <2>2. I = {}  BY <2>1
  <2>3. at = IF I # {} THEN Min(I) ELSE 0  BY Zenon DEF SelectInSeq
  <2>4. ~(at > 0)  BY <2>2, <2>3
  <2> HIDE DEF at
  <2> QED  BY <2>1, <2>4 DEF FileIsNamedInReply, at
<1> QED  BY <1>1, <1>2

(* What the request has of a post.                                         *)
LEMMA PostIsCarried == IInv => RequestCarriesPost
<1> SUFFICES ASSUME IInv  PROVE RequestCarriesPost  OBVIOUS
<1> USE DEF IInv
<1>1. ASSUME pc = "refused", event.type = "post"
      PROVE  Places(content.blocks) = {}
  <2>1. /\ event \in Events /\ content \in Contents[event.type]
        /\ parts = ParseMessageContent(WithoutMention(content), event.type) /\ parts = <<>>
    BY <1>1 DEF EventKnown, PartsKnown
  <2>2. content.blocks \in Seq(Block) /\ parts = PartsOfPost(content.blocks)
    BY <1>1, <2>1, ParsedParts
  <2>3. /\ IsFiniteSet(Places(content.blocks))
        /\ Len(PartsOfPost(content.blocks)) = Cardinality(Places(content.blocks))
    BY <2>2, PostParts
  <2>4. Cardinality(Places(content.blocks)) = 0  BY <2>1, <2>2, <2>3
  <2> QED  BY <2>3, <2>4, FS_EmptySet
<1>2. ASSUME pc = "asked", content.blocks # <<>>
      PROVE  /\ Last(request).role = "user"
             /\ Len(Last(request).content)
                  = Cardinality(Places(content.blocks)) - Cardinality(failed)
             /\ \A p \in Places(content.blocks) :
                  LET i == Place(content.blocks, p)
                  IN  i \notin failed =>
                        Last(request).content[i - Cardinality({f \in failed : f < i})].val
                          = content.blocks[p[1]].items[p[2]].val
  <2>1. PICK blocks, ps : blocks = content.blocks /\ ps = Downloaded(app, failed)  OBVIOUS
  <2>2. blocks \in Seq(Block) /\ parts = PartsOfPost(blocks)  BY <1>2, <2>1 DEF PostKnown
  <2>3. PICK n : n = Cardinality(Places(blocks))  OBVIOUS
  <2>4. /\ IsFiniteSet(Places(blocks)) /\ Len(parts) = n /\ parts \in Seq(MessagePart)
        /\ \A p \in Places(blocks) :
             /\ Place(blocks, p) \in 1 .. n
             /\ parts[Place(blocks, p)] = PartOf(blocks[p[1]].items[p[2]])
    BY <2>2, <2>3, PostParts
  <2>5. n \in Nat /\ DOMAIN parts = 1 .. n /\ failed \in SUBSET (1 .. n)
    BY <2>4, LenProperties DEF TypeOK
  <2>6. /\ Len(ps) = n - Cardinality(failed)
        /\ \A i \in (1 .. n) \ failed :
             ps[i - Cardinality({f \in failed : f < i})] = PartFor(app, parts[i])
    BY <2>1, <2>5, DownloadedParts
  <2>7. Last(request).role = "user" /\ Last(request).content = ps
    <3>1. Last(request) = [role |-> "user", content |-> ps]
      BY <1>2, <2>1 DEF RequestKnown
    <3> QED  BY <3>1
  <2>8. ASSUME NEW p \in Places(blocks), Place(blocks, p) \notin failed
        PROVE  ps[Place(blocks, p) - Cardinality({f \in failed : f < Place(blocks, p)})].val
                 = blocks[p[1]].items[p[2]].val
    <3>1. PICK i, item : i = Place(blocks, p) /\ item = blocks[p[1]].items[p[2]]  OBVIOUS
    <3>2. i \in (1 .. n) \ failed /\ parts[i] = PartOf(item)  BY <2>4, <2>8, <3>1
    <3>3. ps[i - Cardinality({f \in failed : f < i})] = PartFor(app, PartOf(item))
      BY <2>6, <3>2
    <3>4. PartFor(app, PartOf(item)).val = item.val  BY DEF PartFor, PartOf, Part
    <3> QED  BY Zenon, <3>1, <3>3, <3>4
  <2> QED  BY Zenon, <2>1, <2>3, <2>6, <2>7, <2>8
<1> QED  BY Zenon, <1>1, <1>2 DEF RequestCarriesPost

(* What the reply is of an answer.                                         *)
LEMMA AnswerIsKnown == IInv => ReplyKnowsAnswer
<1> SUFFICES ASSUME IInv, pc \in {"empty", "replied"}
             PROVE  ReplyKind = R!ContentOf(AnswerKind)
  BY DEF ReplyKnowsAnswer
<1>1. /\ app \in Types /\ client \in Types /\ CanBuild(app, client)
      /\ answer \in Answers[client] /\ reply = GetContent(app, client, answer)
  BY DEF IInv, ClientKnown, AnswerKnown
<1>2. answer \in Seq(AnswerItem)  BY <1>1, ContentAssumption DEF Types
<1>3. file # <<>> => \E i \in DOMAIN reply : reply[i] = "MEDIA:"
  <2> DEFINE at == SelectInSeq(reply, LAMBDA t : t = "MEDIA:")
             I == {i \in 1 .. Len(reply) : reply[i] = "MEDIA:"}
  <2>1. at = IF I # {} THEN Min(I) ELSE 0  BY Zenon DEF SelectInSeq
  <2>2. file # <<>> => at > 0  BY Zenon, FileIsFound DEF FileIsNamedInReply
  <2>3. ~(0 > 0)  OBVIOUS
  <2>4. file # <<>> => I # {}  BY Zenon, <2>1, <2>2, <2>3
  <2>5. DOMAIN reply = 1 .. Len(reply)  BY LenProperties DEF IInv, TypeOK
  <2> QED  BY Zenon, <2>4, <2>5
<1>4. DOMAIN <<>> = {}  OBVIOUS
<1>5. file # <<>> => reply # <<>>  BY Zenon, <1>3, <1>4
<1>6. CASE app = "OpenResponses" /\ client = "OpenResponses"
  <2>1. Said = {i \in DOMAIN answer : IsAssistantOutput(answer[i])}
    BY <1>6 DEF Said, IsAssistantOutput
  <2>2. reply = ResponsesContent(ParseResponses("OpenResponses", answer))
    BY <1>1, <1>6 DEF GetContent
  <2>3. reply = <<>> <=> \A i \in Said : TextOf(answer[i]) = <<>>
    BY <1>2, <2>1, <2>2, ResponsesText
  <2>4. CASE Said = {}
    BY Zenon, <1>6, <2>3, <2>4 DEF ReplyKind, AnswerKind, R!ContentOf
  <2>5. CASE Said # {} /\ \A i \in Said : TextOf(answer[i]) = <<>>
    BY Zenon, <1>6, <2>3, <2>5 DEF ReplyKind, AnswerKind, R!ContentOf
  <2>6. CASE ~\A i \in Said : TextOf(answer[i]) = <<>>
    <3>1. AnswerKind = IF file # <<>> THEN "media" ELSE "words"
      BY Zenon, <2>6 DEF AnswerKind
    <3>2. ReplyKind = IF file # <<>> THEN "media" ELSE "words"
      BY Zenon, <1>6, <2>3, <2>6 DEF ReplyKind
    <3> QED  BY Zenon, <1>6, <3>1, <3>2 DEF R!ContentOf
  <2> QED  BY Zenon, <2>4, <2>5, <2>6
<1>7. CASE app = "ChatCompletions" /\ client = "ChatCompletions"
  <2> DEFINE lines == [k \in 1 .. Cardinality(Said) |-> "\n"]
  <2>1. Said = {i \in DOMAIN answer : answer[i].role = "assistant"}  BY <1>7 DEF Said
  <2>2. reply = ChatContent(answer)  BY <1>1, <1>7 DEF GetContent, ParseChat
  <2>3. reply = <<>> <=> Said = {}  BY <1>2, <2>1, <2>2, ChatText
  <2>4. reply = lines <=> \A i \in Said : TextOf(answer[i]) = <<>>
    BY Zenon, <1>2, <2>1, <2>2, ChatText
  <2>5. CASE Said = {}
    BY Zenon, <1>7, <2>3, <2>5 DEF ReplyKind, AnswerKind, R!ContentOf
  <2>6. CASE Said # {} /\ \A i \in Said : TextOf(answer[i]) = <<>>
    <3>1. reply = lines  BY Zenon, <2>4, <2>6
    <3>2. \A i \in DOMAIN reply : reply[i] # "MEDIA:"  BY Zenon, <3>1
    <3>3. file = <<>>  BY Zenon, <1>3, <3>2
    <3>4. ReplyKind = "blank"  BY Zenon, <1>7, <2>3, <2>6, <3>1, <3>3 DEF ReplyKind
    <3>5. AnswerKind = ""  BY Zenon, <2>6 DEF AnswerKind
    <3> QED  BY Zenon, <1>7, <3>4, <3>5 DEF R!ContentOf
  <2>7. CASE ~\A i \in Said : TextOf(answer[i]) = <<>>
    <3>1. Said # {} /\ reply # lines  BY Zenon, <2>4, <2>7
    <3>2. AnswerKind = IF file # <<>> THEN "media" ELSE "words"
      BY Zenon, <2>7, <3>1 DEF AnswerKind
    <3>3. ReplyKind = IF file # <<>> THEN "media" ELSE "words"
      BY Zenon, <2>3, <3>1 DEF ReplyKind
    <3> QED  BY Zenon, <1>7, <3>2, <3>3 DEF R!ContentOf
  <2> QED  BY Zenon, <2>5, <2>6, <2>7
<1>8. CASE app = "OpenResponses" /\ client = "ChatCompletions"
  <2>1. reply = <<>>  BY <1>1, <1>2, <1>8, ReplyIsText
  <2> QED  BY Zenon, <1>8, <2>1 DEF ReplyKind, R!ContentOf
<1> QED  BY <1>1, <1>6, <1>7, <1>8 DEF CanBuild, Types

(* The invariant holds in every state a message can reach.                 *)
THEOREM Invariance == Spec => []IInv
BY InitIInv, NextIInv, PTL DEF Spec

(* What decryption returns, padded, is the ciphertext, for every block     *)
(* size and bodies of any length (aes.go:47-68).                           *)
THEOREM DecryptionIsExact == Spec => DecryptionInvertsPadding
<1>1. ASSUME IInv, Next, pc = "body", pc' = "plaintext"
      PROVE  Pad(bytes') = Ciphertext(bytes)
  <2>1. Decrypt
    BY <1>1 DEF Next, DecryptFails, Decrypt, Ignore, Take, BuildFails, Ask, Send,
                Unusable, Receive, Over
  <2>2. /\ ~TooShort(bytes) /\ ~CryptBlocksPanics(bytes) /\ WellPadded(Ciphertext(bytes))
        /\ bytes' = Unpad(Ciphertext(bytes))
    BY <2>1 DEF Decrypt
  <2>3. Ciphertext(bytes) \in Seq(Nat) /\ Len(Ciphertext(bytes)) > 0
    BY <1>1, <2>2, CiphertextFacts DEF IInv, TypeOK
  <2>4. Len(Ciphertext(bytes)) % BlockSize = 0  BY <2>2 DEF CryptBlocksPanics
  <2> QED  BY <2>2, <2>3, <2>4, PadUnpad
<1>2. IInv /\ [Next]_vars
      => [pc = "body" /\ pc' = "plaintext" => Pad(bytes') = Ciphertext(bytes)]_vars
  BY <1>1
<1> QED  BY <1>2, Invariance, PTL DEF Spec, DecryptionInvertsPadding

(* The variables hold data of their types: in particular what the loops    *)
(* of the parsers and of the builders append has no gaps, is of the types  *)
(* the agent's API takes, and is never an empty part.                      *)
THEOREM Typing == Spec => []TypeOK
BY Invariance, PTL DEF IInv

(* The file sent for a reply is named in it, and none that is named is     *)
(* missed, for replies of any length (model/agent.go:97-142).              *)
THEOREM FilesAreNamed == Spec => []FileIsNamedInReply
BY FileIsFound, Invariance, PTL

(* The request carries the usable items of a post, in order and without    *)
(* the images that were lost, and a post is refused only if it has none,   *)
(* for posts of any shape and size (event.go:140-185, callback.go:401-447, *)
(* agent_http.go:233-299, 405-427).                                        *)
THEOREM PostsAreCarried == Spec => []RequestCarriesPost
BY PostIsCarried, Invariance, PTL

(* The text made of an answer is of the kind that module Reply takes for   *)
(* it, for answers of any length, in either dialect and read as the other  *)
(* one's (agent_http.go:326-473, model/agent.go:80-115).                   *)
THEOREM AnswersAreKnown == Spec => []ReplyKnowsAnswer
BY AnswerIsKnown, Invariance, PTL

(* In a group, a text message that passes the gate mentions the bot, and   *)
(* is, blanks at its ends aside, sent without the first occurrence of the  *)
(* placeholder it used, where that is a whole word, or refused when        *)
(* nothing is left, whoever else is mentioned (callback.go:220-231,        *)
(* mentions.go:14-58).                                                     *)
THEOREM MentionsAreStripped == Spec => []MentionIsStripped
<1>1. IInv => MentionIsStripped
  <2> SUFFICES ASSUME IInv, pc \in {"parsed", "refused"}, event.type = "text",
                      ~IsDM(event.chatType)
               PROVE  MentionIsStripped
    BY DEF MentionIsStripped
  <2> DEFINE json == content.json
             cut == TrimSpace(RemoveFirst(json, BotKey))
  <2>1. /\ event \in Events /\ IsBotMentioned(event.mentions, botName)
        /\ content \in Contents["text"] /\ (pc = "parsed" <=> parts # <<>>)
        /\ parts = ParseMessageContent(WithoutMention(content), "text")
    BY DEF IInv, EventKnown, PartsKnown, ShouldProcess
  <2>2. /\ Bots # {} /\ BotMentionKey(event.mentions, botName) = BotKey
        /\ BotKey # "" /\ BotKey \notin {Open, Close}
    BY Zenon, <2>1, SameMention
  <2>3. /\ content \in [json : Seq(Token), imageKey : {<<>>}, blocks : {<<>>}]
        /\ json \in Seq(Token) /\ (IsQuoted(json) \/ Open \notin ToSet(json))
    BY <2>1, ContentAssumption
  <2>4. WithoutMention(content).json = cut
    <3>1. WithoutMention(content) = [content EXCEPT !.json = StripBotMention(@, BotKey)]
      BY Zenon, <2>2 DEF WithoutMention
    <3>2. StripBotMention(json, BotKey) = cut  BY Zenon, <2>2 DEF StripBotMention
    <3> QED  BY <2>3, <3>1, <3>2
  <2>5. parts = IF IsQuoted(cut) /\ Unquoted(cut) # <<>>
                  THEN <<Part("input_text", Unquoted(cut))>> ELSE <<>>
    BY <2>1, <2>4 DEF ParseMessageContent
  <2>6. IsQuoted(json) => IsQuoted(cut) /\ Unquoted(cut) = WithoutFirst(Original, BotKey)
    BY <2>2, <2>3, CutOut DEF Original
  <2>7. ASSUME pc = "parsed"  PROVE parts[1].val = WithoutFirst(Original, BotKey)
    <3>1. IsQuoted(cut) /\ parts[1].val = Unquoted(cut)  BY <2>1, <2>5, <2>7 DEF Part
    <3>2. IsQuoted(json)
      <4>1. Len(cut) > 1 /\ cut[1] = Open  BY <3>1 DEF IsQuoted
      <4>2. cut[1] \in ToSet(json)  BY <2>3, <4>1, NothingAdded
      <4> QED  BY <2>3, <4>1, <4>2
    <3> QED  BY <2>6, <3>1, <3>2
  <2>8. ASSUME pc = "refused", IsQuoted(json)
        PROVE  TrimSpace(WithoutFirst(Original, BotKey)) = <<>>
    <3>1. parts = <<>>  BY <2>1, <2>8
    <3>2. WithoutFirst(Original, BotKey) = <<>>  BY <2>5, <2>6, <2>8, <3>1
    <3>3. TrimSpace(<<>>) = <<>>  BY DEF TrimSpace
    <3> QED  BY <3>2, <3>3
  <2> QED  BY <2>2, <2>7, <2>8 DEF MentionIsStripped
<1> QED  BY <1>1, Invariance, PTL
=============================================================================
