---------------------------- MODULE Routing_proofs ----------------------------
(***************************************************************************)
(* Proofs, for route tables of any length, masks, values and paths, that   *)
(* the right route answers a request.                                      *)
(***************************************************************************)
EXTENDS Routing, Induction, SequenceTheorems

----------------------------------------------------------------------------
(* Sequences *)

\* A sequence of nonempty sequences is flattened to a nonempty one; if each has one
\* element, to the sequence of those.
LEMMA Flattened ==
  ASSUME NEW S, NEW n \in Nat \ {0}, NEW ss \in [1 .. n -> NonEmpty(S)]
  PROVE  /\ FlattenSeq(ss) \in NonEmpty(S)
         /\ (\A i \in 1 .. n : Len(ss[i]) = 1) =>
              /\ Len(FlattenSeq(ss)) = n
              /\ \A i \in 1 .. n : FlattenSeq(ss)[i] = ss[i][1]
<1> DEFINE N == NonEmpty(S)
           Is(f) == f = [i \in 1 .. Len(ss) |-> IF i = 1 THEN ss[i] ELSE f[i - 1] \o ss[i]]
           flat == CHOOSE f : Is(f)
           OneMore(k, x) == IF k + 2 <= n THEN x \o ss[k + 2] ELSE x
           step == [k \in Nat |-> [x \in N |-> OneMore(k, x)]]
<1>1. Len(ss) = n /\ n \in Nat /\ n # 0 /\ ss \in Seq(N) /\ \A i \in 1 .. n : ss[i] \in N
  OBVIOUS
<1>2. FlattenSeq(ss) = flat[n]
  BY <1>1 DEF FlattenSeq
<1>3. \A x, y \in N : x \o y \in N
  <2> SUFFICES ASSUME NEW x \in N, NEW y \in N PROVE x \o y \in N
    OBVIOUS
  <2>1. x \in Seq(S) /\ y \in Seq(S) /\ Len(x) # 0
    BY EmptySeq DEF NonEmpty
  <2>2. x \o y \in Seq(S) /\ Len(x \o y) = Len(x) + Len(y) /\ Len(x) \in Nat /\ Len(y) \in Nat
    BY <2>1, ConcatProperties
  <2>3. x \o y # <<>>
    BY <2>1, <2>2
  <2> QED
    BY <2>2, <2>3 DEF NonEmpty
<1>4. \A k \in Nat : \A x \in N : OneMore(k, x) \in N
  <2> SUFFICES ASSUME NEW k \in Nat, NEW x \in N, k + 2 <= n PROVE x \o ss[k + 2] \in N
    OBVIOUS
  <2>1. k + 2 \in 1 .. n
    BY <1>1
  <2> HIDE DEF N
  <2> QED
    BY <1>1, <1>3, <2>1
<1> HIDE DEF N
<1>5. step \in [Nat -> [N -> N]]
  <2> HIDE DEF OneMore
  <2> QED
    BY <1>4
<1>6. ss[1] \in N /\ n - 1 \in Nat
  BY <1>1
<1>7. PICK r \in [0 .. n - 1 -> N] : r[0] = ss[1] /\ \A k \in 1 .. n - 1 : r[k] = step[k - 1][r[k - 1]]
  <2> DEFINE m == n - 1
             first == ss[1]
  <2> HIDE DEF step, m, first
  <2>1. m \in Nat /\ first \in N
    BY <1>6 DEF m, first
  <2>2. \E f \in [0 .. m -> N] : IsRecursion(f, first, step, m)
    BY <1>5, <2>1, Recursion
  <2> QED
    BY <2>2 DEF IsRecursion, m, first
<1>8. \A k \in 1 .. n - 1 : r[k] = r[k - 1] \o ss[k + 1]
  <2> SUFFICES ASSUME NEW k \in 1 .. n - 1 PROVE r[k] = r[k - 1] \o ss[k + 1]
    OBVIOUS
  <2>1. k - 1 \in Nat /\ k - 1 \in 0 .. n - 1 /\ (k - 1) + 2 <= n /\ (k - 1) + 2 = k + 1
    BY <1>1
  <2>2. r[k] = step[k - 1][r[k - 1]]
    BY <1>7
  <2>3. step[k - 1][r[k - 1]] = OneMore(k - 1, r[k - 1])
    <3> HIDE DEF OneMore
    <3> QED
      BY <1>7, <2>1
  <2> QED
    BY <2>1, <2>2, <2>3
<1> HIDE DEF step
<1>9. Is([i \in 1 .. n |-> r[i - 1]])
  <2> DEFINE g == [i \in 1 .. n |-> r[i - 1]]
  <2>1. ASSUME NEW i \in 1 .. n
        PROVE  g[i] = IF i = 1 THEN ss[i] ELSE g[i - 1] \o ss[i]
    <3>1. CASE i = 1
      BY <1>7, <3>1
    <3>2. CASE i # 1
      <4>1. i - 1 \in 1 .. n - 1 /\ (i - 1) + 1 = i /\ i - 1 \in 1 .. n
        BY <1>1, <3>2
      <4>2. r[i - 1] = r[(i - 1) - 1] \o ss[(i - 1) + 1]
        BY <1>8, <4>1
      <4> QED
        BY <3>2, <4>1, <4>2
    <3> QED
      BY <3>1, <3>2
  <2>2. g = [i \in 1 .. n |-> g[i]]
    OBVIOUS
  <2>3. g = [i \in 1 .. n |-> IF i = 1 THEN ss[i] ELSE g[i - 1] \o ss[i]]
    <3> HIDE DEF g
    <3> QED
      BY <2>1, <2>2
  <2> HIDE DEF g
  <2>4. Is(g)
    BY <1>1, <2>3
  <2> QED
    BY <2>4 DEF g
<1>10. Is(flat)
  <2> HIDE DEF Is
  <2> QED
    BY <1>9
<1>11. \A i \in 1 .. n : flat[i] = IF i = 1 THEN ss[i] ELSE flat[i - 1] \o ss[i]
  <2> HIDE DEF flat
  <2> QED
    BY <1>1, <1>10
<1> HIDE DEF flat, Is
<1> DEFINE Ones(k) == (\A i \in 1 .. n : Len(ss[i]) = 1) =>
                        /\ Len(flat[k]) = k
                        /\ \A i \in 1 .. k : flat[k][i] = ss[i][1]
           P == {k \in Nat : k + 1 <= n => flat[k + 1] \in N /\ Ones(k + 1)}
<1>12. 0 \in P
  <2>1. flat[1] = ss[1]
    BY <1>1, <1>11
  <2> QED
    BY <1>1, <1>6, <2>1
<1>13. ASSUME NEW k \in P PROVE k + 1 \in P
  <2> SUFFICES ASSUME k + 1 + 1 <= n PROVE flat[k + 1 + 1] \in N /\ Ones(k + 1 + 1)
    OBVIOUS
  <2> DEFINE j == k + 1
  <2>1. k \in Nat /\ j \in 1 .. n /\ j + 1 \in 1 .. n /\ j + 1 # 1 /\ (j + 1) - 1 = j /\ j \in Nat
    BY <1>1
  <2>2. flat[j] \in N /\ Ones(j)
    BY <2>1
  <2> HIDE DEF j
  <2>3. flat[j + 1] = flat[j] \o ss[j + 1]
    BY <1>11, <2>1
  <2>4. flat[j + 1] \in N
    BY <1>1, <1>3, <2>1, <2>2, <2>3
  <2>5. Ones(j + 1)
    <3> SUFFICES ASSUME \A i \in 1 .. n : Len(ss[i]) = 1
                 PROVE  Len(flat[j + 1]) = j + 1 /\ \A i \in 1 .. j + 1 : flat[j + 1][i] = ss[i][1]
      OBVIOUS
    <3>1. flat[j] \in Seq(S) /\ ss[j + 1] \in Seq(S) /\ Len(ss[j + 1]) = 1 /\ Len(flat[j]) = j
      BY <1>1, <2>1, <2>2 DEF N, NonEmpty
    <3>2. /\ Len(flat[j + 1]) = j + 1
          /\ \A i \in 1 .. j + 1 : flat[j + 1][i] = IF i <= j THEN flat[j][i] ELSE ss[j + 1][i - j]
      <4> DEFINE f == flat[j]
                 g == ss[j + 1]
      <4>1. f \in Seq(S) /\ g \in Seq(S) /\ Len(f) = j /\ Len(g) = 1 /\ flat[j + 1] = f \o g
        BY <2>3, <3>1
      <4> HIDE DEF f, g
      <4>2. /\ Len(f \o g) = Len(f) + Len(g)
            /\ \A i \in 1 .. Len(f) + Len(g) : (f \o g)[i] = IF i <= Len(f) THEN f[i] ELSE g[i - Len(f)]
        BY <4>1, ConcatProperties
      <4> QED
        BY <4>1, <4>2 DEF f, g
    <3>3. \A i \in 1 .. j + 1 : i <= j => i \in 1 .. j
      BY <2>1
    <3>4. \A i \in 1 .. j + 1 : ~(i <= j) => i = j + 1 /\ i - j = 1
      BY <2>1
    <3> QED
      BY <2>2, <3>2, <3>3, <3>4
  <2> QED
    BY <2>4, <2>5 DEF j
<1>14. n - 1 \in P
  <2> HIDE DEF P
  <2>1. P \in SUBSET Nat
    BY DEF P
  <2> QED
    BY <1>6, <1>12, <1>13, <2>1, UpTo
<1>15. flat[n] \in N /\ Ones(n)
  BY <1>1, <1>6, <1>14
<1> QED
  BY <1>2, <1>15 DEF N

\* What is left of a sequence between its first and its last full position.
LEMMA Trimmed ==
  ASSUME NEW S, NEW s \in Seq(S), NEW full \in SUBSET (1 .. Len(s)), full # {}
  PROVE  LET t == SubSeq(s, Min(full), Max(full))
         IN /\ Min(full) \in full /\ Max(full) \in full
            /\ \A i \in full : Min(full) <= i /\ i <= Max(full)
            /\ t \in Seq(S) /\ Len(t) = Max(full) - Min(full) + 1
            /\ \A i \in 1 .. Len(t) : t[i] = s[Min(full) + i - 1]
<1> DEFINE lo == Min(full)
           hi == Max(full)
<1>1. Len(s) \in Nat
  BY LenProperties
<1>2. lo \in full /\ hi \in full /\ \A i \in full : lo <= i /\ i <= hi
  BY <1>1, FirstAndLast
<1> HIDE DEF lo, hi
<1>3. lo \in 1 .. Len(s) /\ hi \in 1 .. Len(s) /\ lo \in Int /\ hi \in Int /\ lo <= hi
  BY <1>1, <1>2
<1>4. \A i \in lo .. hi : s[i] \in S
  BY <1>1, <1>3, ElementOfSeq
<1>5. /\ SubSeq(s, lo, hi) \in Seq(S)
      /\ Len(SubSeq(s, lo, hi)) = hi - lo + 1
      /\ \A i \in 1 .. hi - lo + 1 : SubSeq(s, lo, hi)[i] = s[lo + i - 1]
  BY <1>3, <1>4, SubSeqProperties
<1> QED
  BY <1>2, <1>5 DEF lo, hi

\* The sequence of one element.
LEMMA OneElement ==
  ASSUME NEW S, NEW x \in S
  PROVE  <<x>> \in NonEmpty(S) /\ Len(<<x>>) = 1 /\ <<x>>[1] = x
BY DEF NonEmpty

\* A sequence of length one is not empty.
LEMMA OneLong ==
  ASSUME NEW S, NEW s \in Seq(S), Len(s) = 1
  PROVE  s \in NonEmpty(S)
BY EmptySeq DEF NonEmpty

\* It is the sequence of its element.
LEMMA OfOneElement ==
  ASSUME NEW S, NEW s \in Seq(S), Len(s) = 1
  PROVE  s = <<s[1]>>
<1>1. s[1] \in S
  BY ElementOfSeq
<1>2. <<s[1]>> \in Seq(S) /\ Len(<<s[1]>>) = 1 /\ <<s[1]>>[1] = s[1]
  BY <1>1
<1>3. \A i \in 1 .. 1 : <<s[1]>>[i] = s[i]
  OBVIOUS
<1> QED
  BY <1>2, <1>3, SeqEqual

\* A function on 1 .. n is a sequence of length n.
LEMMA OfLength ==
  ASSUME NEW S, NEW n \in Nat, NEW f \in [1 .. n -> S]
  PROVE  f \in Seq(S) /\ Len(f) = n /\ (n # 0 => f \in NonEmpty(S))
BY EmptySeq DEF NonEmpty

\* Append adds one element at the end.
LEMMA Appended ==
  ASSUME NEW S, NEW s \in Seq(S), NEW n \in Nat, Len(s) = n, NEW x \in S
  PROVE  /\ Append(s, x) \in NonEmpty(S) /\ Len(Append(s, x)) = n + 1
         /\ Append(s, x)[n + 1] = x /\ \A i \in 1 .. n : Append(s, x)[i] = s[i]
BY AppendProperties, EmptySeq DEF NonEmpty

----------------------------------------------------------------------------
(* Masks *)

\* One part for each parameter.
OnePart(mask, v) == \A k \in findUrlKeys(mask) : v[k] \in Seq(STRING) /\ Len(v[k]) = 1

\* No value starts with an empty part.
NoneEmpty(mask, v) == \A k \in findUrlKeys(mask) : v[k][1] # ""

\* A path is built of one part for each part of the mask, if values have one part each.
LEMMA Built ==
  ASSUME NEW mask \in NonEmpty(Segments), NEW v,
         \A k \in findUrlKeys(mask) : v[k] \in NonEmpty(STRING)
  PROVE  /\ buildUrl(mask, v) \in NonEmpty(STRING)
         /\ OnePart(mask, v) =>
              /\ Len(buildUrl(mask, v)) = Len(mask)
              /\ \A i \in 1 .. Len(mask) :
                   buildUrl(mask, v)[i] = IF mask[i].param THEN v[mask[i].name][1] ELSE mask[i].name
<1> DEFINE n == Len(mask)
           ss == [i \in DOMAIN mask |-> IF mask[i].param THEN v[mask[i].name] ELSE <<mask[i].name>>]
<1>1. mask \in Seq(Segments) /\ n \in Nat \ {0} /\ DOMAIN mask = 1 .. n
  BY EmptySeq, LenProperties DEF NonEmpty
<1>2. \A i \in 1 .. n : mask[i].param \in BOOLEAN /\ mask[i].name \in STRING
  <2>1. \A i \in 1 .. n : mask[i] \in Segments
    BY <1>1, ElementOfSeq
  <2> QED
    BY <2>1 DEF Segments
<1>3. \A i \in 1 .. n : mask[i].param => mask[i].name \in findUrlKeys(mask)
  BY <1>1 DEF findUrlKeys
<1>4. ASSUME NEW x \in STRING PROVE <<x>> \in NonEmpty(STRING) /\ Len(<<x>>) = 1 /\ <<x>>[1] = x
  BY OneElement
<1>5. \A i \in 1 .. n : ss[i] = IF mask[i].param THEN v[mask[i].name] ELSE <<mask[i].name>>
  BY <1>1
<1>6. ss \in [1 .. n -> NonEmpty(STRING)]
  <2>1. \A i \in 1 .. n : (IF mask[i].param THEN v[mask[i].name] ELSE <<mask[i].name>>) \in NonEmpty(STRING)
    BY <1>2, <1>3, <1>4
  <2> QED
    BY <1>1, <2>1
<1>7. buildUrl(mask, v) = FlattenSeq(ss)
  BY DEF buildUrl
<1> HIDE DEF ss, n
<1>8. /\ FlattenSeq(ss) \in NonEmpty(STRING)
      /\ (\A i \in 1 .. n : Len(ss[i]) = 1) =>
           /\ Len(FlattenSeq(ss)) = n
           /\ \A i \in 1 .. n : FlattenSeq(ss)[i] = ss[i][1]
  BY <1>1, <1>6, Flattened
<1>9. ASSUME OnePart(mask, v), NEW i \in 1 .. n
      PROVE  /\ Len(ss[i]) = 1
             /\ ss[i][1] = IF mask[i].param THEN v[mask[i].name][1] ELSE mask[i].name
  <2>1. CASE mask[i].param
    BY <1>3, <1>5, <1>9, <2>1 DEF OnePart
  <2>2. CASE ~mask[i].param
    <3>1. ss[i] = <<mask[i].name>> /\ mask[i].name \in STRING
      BY <1>2, <1>5, <2>2
    <3> QED
      BY <1>4, <2>2, <3>1
  <2> QED
    BY <2>1, <2>2
<1> QED
  BY <1>7, <1>8, <1>9 DEF n

\* t is s from position lo to position hi.
Slice(t, s, lo, hi) ==
  /\ Len(t) = hi - lo + 1
  /\ \A i \in 1 .. hi - lo + 1 : t[i] = s[lo + i - 1]

\* lo and hi are the first and the last full position.
Ends(full, lo, hi) == lo \in full /\ hi \in full /\ \A i \in full : lo <= i /\ i <= hi

\* The positions of what is not empty: splitUrl keeps all from the first to the last.
FullParts(path) == {i \in 1 .. Len(path) : path[i] # ""}
FullSegments(mask) == {i \in 1 .. Len(mask) : mask[i].param \/ mask[i].name # ""}

\* SubSeq from the least to the greatest full position is the slice between the ends.
LEMMA SliceBetweenEnds ==
  ASSUME NEW S, NEW s \in Seq(S), NEW full \in SUBSET (1 .. Len(s)), NEW lo, NEW hi, Ends(full, lo, hi)
  PROVE  /\ SubSeq(s, Min(full), Max(full)) \in Seq(S)
         /\ Slice(SubSeq(s, Min(full), Max(full)), s, lo, hi)
<1> DEFINE t == SubSeq(s, Min(full), Max(full))
<1>1. Len(s) \in Nat /\ full # {}
  BY LenProperties DEF Ends
<1>2. /\ Min(full) \in full /\ Max(full) \in full
      /\ \A i \in full : Min(full) <= i /\ i <= Max(full)
      /\ t \in Seq(S) /\ Len(t) = Max(full) - Min(full) + 1
      /\ \A i \in 1 .. Len(t) : t[i] = s[Min(full) + i - 1]
  BY <1>1, Trimmed
<1> HIDE DEF t
<1> DEFINE a == Min(full)
           b == Max(full)
<1>3. /\ a \in 1 .. Len(s) /\ b \in 1 .. Len(s) /\ lo \in 1 .. Len(s) /\ hi \in 1 .. Len(s)
      /\ a <= lo /\ lo <= a /\ b <= hi /\ hi <= b
  BY <1>2 DEF Ends
<1> HIDE DEF a, b
<1>4. a = lo /\ b = hi
  BY <1>1, <1>3
<1>5. t \in Seq(S) /\ Len(t) = b - a + 1 /\ \A i \in 1 .. Len(t) : t[i] = s[a + i - 1]
  BY <1>2 DEF a, b
<1> QED
  BY <1>4, <1>5 DEF t, Slice

\* Some full position is the first and some the last.
LEMMA EndsExist ==
  ASSUME NEW n \in Nat, NEW full \in SUBSET (1 .. n), full # {}
  PROVE  \E lo, hi \in 1 .. n : Ends(full, lo, hi)
BY FirstAndLast DEF Ends

\* splitUrl: the slice between the ends, or nothing.
LEMMA SplitMeans ==
  ASSUME NEW path \in NonEmpty(STRING)
  PROVE  /\ splitUrl(path) \in Seq(STRING)
         /\ FullParts(path) = {} => splitUrl(path) = <<>>
         /\ \A lo, hi : Ends(FullParts(path), lo, hi) => Slice(splitUrl(path), path, lo, hi)
<1> DEFINE full == {i \in DOMAIN path : path[i] # ""}
<1>1. path \in Seq(STRING) /\ Len(path) \in Nat /\ DOMAIN path = 1 .. Len(path)
  BY LenProperties DEF NonEmpty
<1>2. full = FullParts(path) /\ full \in SUBSET (1 .. Len(path))
  BY <1>1 DEF FullParts
<1>3. splitUrl(path) = IF full = {} THEN <<>> ELSE SubSeq(path, Min(full), Max(full))
  BY DEF splitUrl
<1> HIDE DEF full
<1>4. CASE full = {}
  <2>1. \A lo, hi : ~Ends(full, lo, hi)
    BY <1>4 DEF Ends
  <2> QED
    BY <1>2, <1>3, <1>4, <2>1, EmptySeq
<1>5. CASE full # {}
  <2>1. splitUrl(path) = SubSeq(path, Min(full), Max(full))
    BY <1>3, <1>5
  <2>2. PICK lo, hi \in 1 .. Len(path) : Ends(full, lo, hi)
    BY <1>1, <1>2, <1>5, EndsExist
  <2>3. SubSeq(path, Min(full), Max(full)) \in Seq(STRING)
    BY <1>1, <1>2, <2>2, SliceBetweenEnds
  <2>4. \A a, b : Ends(full, a, b) => Slice(SubSeq(path, Min(full), Max(full)), path, a, b)
    BY <1>1, <1>2, SliceBetweenEnds
  <2> QED
    BY <1>2, <1>5, <2>1, <2>3, <2>4
<1> QED
  BY <1>4, <1>5

\* The same of a mask.
LEMMA MaskPartsMean ==
  ASSUME NEW mask \in NonEmpty(Segments)
  PROVE  /\ MaskParts(mask) \in Seq(Segments)
         /\ FullSegments(mask) = {} => MaskParts(mask) = <<>>
         /\ \A lo, hi : Ends(FullSegments(mask), lo, hi) => Slice(MaskParts(mask), mask, lo, hi)
<1> DEFINE full == {i \in DOMAIN mask : mask[i].param \/ mask[i].name # ""}
<1>1. mask \in Seq(Segments) /\ Len(mask) \in Nat /\ DOMAIN mask = 1 .. Len(mask)
  BY LenProperties DEF NonEmpty
<1>2. full = FullSegments(mask) /\ full \in SUBSET (1 .. Len(mask))
  BY <1>1 DEF FullSegments
<1>3. MaskParts(mask) = IF full = {} THEN <<>> ELSE SubSeq(mask, Min(full), Max(full))
  BY DEF MaskParts
<1> HIDE DEF full
<1>4. CASE full = {}
  <2>1. \A lo, hi : ~Ends(full, lo, hi)
    BY <1>4 DEF Ends
  <2> QED
    BY <1>2, <1>3, <1>4, <2>1, EmptySeq
<1>5. CASE full # {}
  <2>1. MaskParts(mask) = SubSeq(mask, Min(full), Max(full))
    BY <1>3, <1>5
  <2>2. PICK lo, hi \in 1 .. Len(mask) : Ends(full, lo, hi)
    BY <1>1, <1>2, <1>5, EndsExist
  <2>3. SubSeq(mask, Min(full), Max(full)) \in Seq(Segments)
    BY <1>1, <1>2, <2>2, SliceBetweenEnds
  <2>4. \A a, b : Ends(full, a, b) => Slice(SubSeq(mask, Min(full), Max(full)), mask, a, b)
    BY <1>1, <1>2, SliceBetweenEnds
  <2> QED
    BY <1>2, <1>5, <2>1, <2>3, <2>4
<1> QED
  BY <1>4, <1>5

\* match, position by position.
LEMMA MatchesMeans ==
  ASSUME NEW mask \in NonEmpty(Segments), NEW path \in NonEmpty(STRING)
  PROVE  /\ FullSegments(mask) = {} => (Matches(path, mask) <=> splitUrl(path) = <<>>)
         /\ \A lo, hi \in 1 .. Len(mask) : Ends(FullSegments(mask), lo, hi) =>
              (Matches(path, mask) <=>
                 /\ Len(splitUrl(path)) = hi - lo + 1
                 /\ \A i \in 1 .. hi - lo + 1 :
                      mask[lo + i - 1].param \/ mask[lo + i - 1].name = splitUrl(path)[i])
<1> DEFINE parts == splitUrl(path)
           maskParts == MaskParts(mask)
<1>1. parts \in Seq(STRING) /\ Len(parts) \in Nat /\ DOMAIN parts = 1 .. Len(parts)
  BY SplitMeans, LenProperties
<1>2. maskParts \in Seq(Segments) /\ Len(maskParts) \in Nat
  BY MaskPartsMean, LenProperties
<1>3. Matches(path, mask) <=>
        /\ Len(parts) = Len(maskParts)
        /\ \A i \in DOMAIN parts : maskParts[i].param \/ maskParts[i].name = parts[i]
  BY DEF Matches
<1>4. FullSegments(mask) = {} => maskParts = <<>>
  BY MaskPartsMean
<1>5. \A lo, hi : Ends(FullSegments(mask), lo, hi) => Slice(maskParts, mask, lo, hi)
  BY MaskPartsMean
<1> HIDE DEF parts, maskParts
<1>6. ASSUME FullSegments(mask) = {} PROVE Matches(path, mask) <=> parts = <<>>
  <2>1. Len(maskParts) = 0
    BY <1>4, <1>6, EmptySeq
  <2>2. parts = <<>> <=> Len(parts) = 0
    BY <1>1, EmptySeq
  <2>3. Len(parts) = 0 => DOMAIN parts = {}
    BY <1>1
  <2> QED
    BY <1>3, <2>1, <2>2, <2>3
<1>7. ASSUME NEW lo \in 1 .. Len(mask), NEW hi \in 1 .. Len(mask), Ends(FullSegments(mask), lo, hi)
      PROVE  Matches(path, mask) <=>
               /\ Len(parts) = hi - lo + 1
               /\ \A i \in 1 .. hi - lo + 1 :
                    mask[lo + i - 1].param \/ mask[lo + i - 1].name = parts[i]
  <2>1. Len(maskParts) = hi - lo + 1 /\ \A i \in 1 .. hi - lo + 1 : maskParts[i] = mask[lo + i - 1]
    BY <1>5, <1>7 DEF Slice
  <2> QED
    BY <1>1, <1>3, <2>1
<1> QED
  BY <1>6, <1>7 DEF parts

\* What is needed of a mask, for a path that was built of it.
LEMMA MaskFacts ==
  ASSUME NEW mask \in NonEmpty(Segments)
  PROVE  /\ Len(mask) \in Nat /\ Len(mask) # 0 /\ DOMAIN mask = 1 .. Len(mask)
         /\ \A i \in 1 .. Len(mask) : mask[i].param \in BOOLEAN /\ mask[i].name \in STRING
         /\ findUrlKeys(mask) = {mask[i].name : i \in {j \in 1 .. Len(mask) : mask[j].param}}
         /\ FullSegments(mask) # {} =>
              \E lo, hi \in 1 .. Len(mask) : lo <= hi /\ Ends(FullSegments(mask), lo, hi)
<1>1. mask \in Seq(Segments) /\ Len(mask) \in Nat /\ DOMAIN mask = 1 .. Len(mask) /\ Len(mask) # 0
  BY EmptySeq, LenProperties DEF NonEmpty
<1>2. \A i \in 1 .. Len(mask) : mask[i].param \in BOOLEAN /\ mask[i].name \in STRING
  <2>1. \A i \in 1 .. Len(mask) : mask[i] \in Segments
    BY <1>1, ElementOfSeq
  <2> QED
    BY <2>1 DEF Segments
<1>3. FullSegments(mask) \in SUBSET (1 .. Len(mask))
  BY DEF FullSegments
<1>4. FullSegments(mask) # {} =>
        \E lo, hi \in 1 .. Len(mask) : lo <= hi /\ Ends(FullSegments(mask), lo, hi)
  BY <1>1, <1>3, EndsExist DEF Ends
<1> QED
  BY <1>1, <1>2, <1>4 DEF findUrlKeys

\* A path built of full values has the ends of the mask.
LEMMA FullBuilt ==
  ASSUME NEW mask \in NonEmpty(Segments), NEW v, OnePart(mask, v), NoneEmpty(mask, v)
  PROVE  /\ buildUrl(mask, v) \in NonEmpty(STRING)
         /\ Len(buildUrl(mask, v)) = Len(mask)
         /\ \A i \in 1 .. Len(mask) :
              buildUrl(mask, v)[i] = IF mask[i].param THEN v[mask[i].name][1] ELSE mask[i].name
         /\ FullParts(buildUrl(mask, v)) = FullSegments(mask)
<1>1. \A k \in findUrlKeys(mask) : v[k] \in NonEmpty(STRING)
  <2> SUFFICES ASSUME NEW k \in findUrlKeys(mask) PROVE v[k] \in NonEmpty(STRING)
    OBVIOUS
  <2> DEFINE s == v[k]
  <2>1. s \in Seq(STRING)
    BY DEF OnePart
  <2>2. Len(s) = 1
    BY DEF OnePart
  <2> HIDE DEF s
  <2>3. s \in NonEmpty(STRING)
    BY <2>1, <2>2, OneLong, Zenon
  <2> QED
    BY <2>3 DEF s
<1>2. /\ buildUrl(mask, v) \in NonEmpty(STRING)
      /\ Len(buildUrl(mask, v)) = Len(mask)
      /\ \A i \in 1 .. Len(mask) :
           buildUrl(mask, v)[i] = IF mask[i].param THEN v[mask[i].name][1] ELSE mask[i].name
  BY <1>1, Built
<1>3. \A i \in 1 .. Len(mask) : mask[i].param => v[mask[i].name][1] # ""
  BY MaskFacts DEF NoneEmpty
<1> QED
  BY <1>2, <1>3 DEF FullParts, FullSegments

\* Full values have one part each.
LEMMA FullValuesMean ==
  ASSUME NEW mask \in NonEmpty(Segments), NEW path \in NonEmpty(STRING),
         NEW v \in FullValues(path, mask)
  PROVE  OnePart(mask, v) /\ NoneEmpty(mask, v)
<1>1. ASSUME NEW k \in findUrlKeys(mask)
      PROVE  v[k] \in Seq(STRING) /\ Len(v[k]) = 1 /\ v[k][1] # ""
  <2>1. path \in Seq(STRING) /\ DOMAIN path = 1 .. Len(path)
    BY LenProperties DEF NonEmpty
  <2>2. PICK i \in 1 .. Len(path) : path[i] # "" /\ v[k] = <<path[i]>>
    BY <2>1 DEF FullValues
  <2>3. path[i] \in STRING
    BY <2>1, ElementOfSeq
  <2>4. <<path[i]>> \in NonEmpty(STRING) /\ Len(<<path[i]>>) = 1 /\ <<path[i]>>[1] = path[i]
    BY <2>3, OneElement
  <2> QED
    BY <2>2, <2>4 DEF NonEmpty
<1> QED
  BY <1>1 DEF OnePart, NoneEmpty

\* A path that some full values make is matched.
LEMMA CanFitMatches ==
  ASSUME NEW mask \in NonEmpty(Segments), NEW path \in NonEmpty(STRING), CanFit(path, mask)
  PROVE  Matches(path, mask)
<1>1. PICK v \in FullValues(path, mask) : splitUrl(buildUrl(mask, v)) = splitUrl(path)
  BY DEF CanFit, Fits
<1> DEFINE b == buildUrl(mask, v)
<1>2. OnePart(mask, v) /\ NoneEmpty(mask, v)
  BY FullValuesMean
<1>3. /\ b \in NonEmpty(STRING) /\ Len(b) = Len(mask)
      /\ \A i \in 1 .. Len(mask) : b[i] = IF mask[i].param THEN v[mask[i].name][1] ELSE mask[i].name
      /\ FullParts(b) = FullSegments(mask)
  BY <1>2, FullBuilt
<1>4. splitUrl(b) = splitUrl(path)
  BY <1>1
<1> HIDE DEF b
<1>5. CASE FullSegments(mask) = {}
  BY <1>3, <1>4, <1>5, SplitMeans, MatchesMeans
<1>6. CASE FullSegments(mask) # {}
  <2>1. PICK lo, hi \in 1 .. Len(mask) : lo <= hi /\ Ends(FullSegments(mask), lo, hi)
    BY <1>6, MaskFacts
  <2>2. Slice(splitUrl(b), b, lo, hi)
    BY <1>3, <2>1, SplitMeans
  <2>3. \A i \in 1 .. hi - lo + 1 : lo + i - 1 \in 1 .. Len(mask)
    BY <2>1, MaskFacts
  <2>4. ASSUME NEW i \in 1 .. hi - lo + 1
        PROVE  mask[lo + i - 1].param \/ mask[lo + i - 1].name = splitUrl(path)[i]
    <3>1. splitUrl(path)[i] = b[lo + i - 1]
      BY <1>4, <2>2 DEF Slice
    <3> QED
      BY <1>3, <2>3, <3>1
  <2>5. Len(splitUrl(path)) = hi - lo + 1
    BY <1>4, <2>2 DEF Slice
  <2> QED
    BY <2>1, <2>4, <2>5, MatchesMeans
<1> QED
  BY <1>5, <1>6

\* What splitUrl leaves begins and ends with full parts; all are full, if the path is clean.
LEMMA PartsMean ==
  ASSUME NEW path \in NonEmpty(STRING)
  PROVE  LET parts == splitUrl(path)
         IN /\ \A i \in 1 .. Len(parts) : \E j \in 1 .. Len(path) : parts[i] = path[j]
            /\ Len(parts) # 0 => parts[1] # "" /\ parts[Len(parts)] # ""
            /\ IsClean(path) => \A i \in 1 .. Len(parts) : parts[i] # ""
<1> DEFINE parts == splitUrl(path)
<1>1. path \in Seq(STRING) /\ Len(path) \in Nat /\ DOMAIN path = 1 .. Len(path)
  BY LenProperties DEF NonEmpty
<1>2. FullParts(path) \in SUBSET (1 .. Len(path))
  BY DEF FullParts
<1>3. CASE FullParts(path) = {}
  <2>1. Len(parts) = 0
    BY <1>3, SplitMeans, EmptySeq
  <2> HIDE DEF parts
  <2>2. 1 .. Len(parts) = {}
    BY <2>1
  <2> QED
    BY <2>1, <2>2 DEF parts
<1>4. CASE FullParts(path) # {}
  <2>1. PICK lo, hi \in 1 .. Len(path) : Ends(FullParts(path), lo, hi)
    BY <1>1, <1>2, <1>4, EndsExist
  <2>0. lo \in Int /\ hi \in Int /\ Len(path) \in Int /\ hi <= Len(path)
    BY <1>1
  <2>9. lo <= hi
    BY <2>1 DEF Ends
  <2>2. Len(parts) = hi - lo + 1 /\ \A i \in 1 .. hi - lo + 1 : parts[i] = path[lo + i - 1]
    BY <2>1, SplitMeans DEF Slice
  <2>3. path[lo] # "" /\ path[hi] # "" /\ lo <= hi
    BY <2>1 DEF Ends, FullParts
  <2> HIDE DEF parts
  <2>4. \A i \in 1 .. hi - lo + 1 : lo + i - 1 \in 1 .. Len(path) /\ lo + i - 1 <= hi
    BY <1>1
  <2>5. 1 \in 1 .. hi - lo + 1 /\ hi - lo + 1 \in 1 .. hi - lo + 1 /\ lo + 1 - 1 = lo /\ lo + (hi - lo + 1) - 1 = hi
    BY <2>0, <2>9
  <2>6. \A i \in 1 .. Len(parts) : \E j \in 1 .. Len(path) : parts[i] = path[j]
    BY <2>2, <2>4
  <2>7. parts[1] = path[lo] /\ parts[Len(parts)] = path[hi]
    BY <2>2, <2>5
  <2>8. ASSUME IsClean(path), NEW i \in 1 .. Len(parts) PROVE parts[i] # ""
    <3> DEFINE j == lo + i - 1
    <3>1. j \in 1 .. Len(path) /\ j <= hi /\ parts[i] = path[j]
      BY <2>2, <2>4
    <3> HIDE DEF j
    <3>2. path[j] = "" => j = Len(path)
      BY <1>1, <2>8, <3>1 DEF IsClean
    <3>3. j = Len(path) => j = hi
      BY <2>0, <3>1
    <3> QED
      BY <2>3, <3>1, <3>2, <3>3
  <2> QED
    BY <2>3, <2>6, <2>7, <2>8 DEF parts
<1> QED
  BY <1>3, <1>4

\* Without a full segment a mask has no parameter.
LEMMA BlankMask ==
  ASSUME NEW mask \in NonEmpty(Segments), FullSegments(mask) = {}
  PROVE  findUrlKeys(mask) = {} /\ \A i \in 1 .. Len(mask) : ~mask[i].param /\ mask[i].name = ""
<1>1. \A i \in 1 .. Len(mask) : ~mask[i].param /\ mask[i].name = ""
  BY DEF FullSegments
<1> QED
  BY <1>1, MaskFacts

\* The value of a parameter is the part at one of its positions.
LEMMA ParamsMean ==
  ASSUME NEW mask \in NonEmpty(Segments), NEW path \in NonEmpty(STRING), Matches(path, mask),
         NEW lo \in 1 .. Len(mask), NEW hi \in 1 .. Len(mask), Ends(FullSegments(mask), lo, hi),
         NEW key \in findUrlKeys(mask)
  PROVE  \E i \in 1 .. hi - lo + 1 :
           /\ mask[lo + i - 1].param /\ mask[lo + i - 1].name = key
           /\ splitUrl(path)[i] \in STRING
           /\ Params(path, mask)[key] = <<splitUrl(path)[i]>>
<1> DEFINE parts == splitUrl(path)
           maskParts == MaskParts(mask)
           at == {i \in DOMAIN parts : maskParts[i].param /\ maskParts[i].name = key}
<1>1. parts \in Seq(STRING) /\ Len(parts) = hi - lo + 1 /\ DOMAIN parts = 1 .. hi - lo + 1
  BY SplitMeans, MatchesMeans, LenProperties
<1>2. \A i \in 1 .. hi - lo + 1 : maskParts[i] = mask[lo + i - 1]
  BY MaskPartsMean DEF Slice
<1>3. Params(path, mask)[key] = <<parts[Max(at)]>>
  BY DEF Params
<1>4. at \in SUBSET (1 .. hi - lo + 1)
  BY <1>1
<1>5. at # {}
  <2>1. PICK j \in 1 .. Len(mask) : mask[j].param /\ mask[j].name = key
    BY MaskFacts
  <2>2. lo <= j /\ j <= hi
    BY <2>1 DEF Ends, FullSegments
  <2>3. j - lo + 1 \in 1 .. hi - lo + 1 /\ lo + (j - lo + 1) - 1 = j
    BY <2>2, MaskFacts
  <2> HIDE DEF maskParts, parts
  <2>4. maskParts[j - lo + 1] = mask[j]
    BY <1>2, <2>3
  <2> QED
    BY <1>1, <2>1, <2>3, <2>4
<1>6. Max(at) \in at
  <2> HIDE DEF at
  <2>1. hi - lo + 1 \in Nat
    BY <1>1, LenProperties
  <2> QED
    BY <1>4, <1>5, <2>1, FirstAndLast
<1>7. parts[Max(at)] \in STRING
  <2>1. Max(at) \in 1 .. Len(parts)
    BY <1>1, <1>4, <1>6
  <2> QED
    BY <1>1, <2>1, ElementOfSeq
<1> QED
  BY <1>1, <1>2, <1>3, <1>6, <1>7

\* The values that the classifier takes from a path have one part each.
LEMMA ParamsHaveOnePart ==
  ASSUME NEW mask \in NonEmpty(Segments), NEW path \in NonEmpty(STRING), Matches(path, mask)
  PROVE  /\ OnePart(mask, Params(path, mask))
         /\ \A k \in findUrlKeys(mask) : \E i \in 1 .. Len(splitUrl(path)) :
              Params(path, mask)[k] = <<splitUrl(path)[i]>>
<1> DEFINE v == Params(path, mask)
<1>1. ASSUME NEW k \in findUrlKeys(mask)
      PROVE  \E i \in 1 .. Len(splitUrl(path)) :
               splitUrl(path)[i] \in STRING /\ v[k] = <<splitUrl(path)[i]>>
  <2>1. FullSegments(mask) # {}
    BY BlankMask
  <2>2. PICK lo, hi \in 1 .. Len(mask) : lo <= hi /\ Ends(FullSegments(mask), lo, hi)
    BY <2>1, MaskFacts
  <2>3. Len(splitUrl(path)) = hi - lo + 1
    BY <2>2, MatchesMeans
  <2>4. PICK i \in 1 .. hi - lo + 1 : splitUrl(path)[i] \in STRING /\ v[k] = <<splitUrl(path)[i]>>
    BY <2>2, ParamsMean
  <2> HIDE DEF v
  <2> QED
    BY <2>3, <2>4
<1> HIDE DEF v
<1>2. ASSUME NEW k \in findUrlKeys(mask) PROVE v[k] \in Seq(STRING) /\ Len(v[k]) = 1
  <2>1. PICK i \in 1 .. Len(splitUrl(path)) : splitUrl(path)[i] \in STRING /\ v[k] = <<splitUrl(path)[i]>>
    BY <1>1
  <2> DEFINE x == splitUrl(path)[i]
  <2>2. x \in STRING /\ v[k] = <<x>>
    BY <2>1
  <2> HIDE DEF x
  <2>3. <<x>> \in NonEmpty(STRING) /\ Len(<<x>>) = 1
    BY <2>2, OneElement
  <2> QED
    BY <2>2, <2>3 DEF NonEmpty
<1> QED
  BY <1>1, <1>2 DEF v, OnePart

\* A mask that matches a path, and has no key twice, fits it with those values.
LEMMA MatchFits ==
  ASSUME NEW mask \in NonEmpty(Segments), NEW path \in NonEmpty(STRING),
         Matches(path, mask), KeysDiffer(mask)
  PROVE  Fits(path, mask, Params(path, mask))
<1> DEFINE v == Params(path, mask)
           b == buildUrl(mask, v)
           parts == splitUrl(path)
<1>1. OnePart(mask, v) /\ parts \in Seq(STRING)
  BY ParamsHaveOnePart, SplitMeans
<1>2. \A k \in findUrlKeys(mask) : v[k] \in NonEmpty(STRING)
  <2> SUFFICES ASSUME NEW k \in findUrlKeys(mask) PROVE v[k] \in NonEmpty(STRING)
    OBVIOUS
  <2>1. v[k] \in Seq(STRING) /\ Len(v[k]) = 1
    BY <1>1 DEF OnePart
  <2> QED
    BY <2>1, OneLong, Zenon
<1>3. /\ b \in NonEmpty(STRING) /\ Len(b) = Len(mask)
      /\ \A i \in 1 .. Len(mask) : b[i] = IF mask[i].param THEN v[mask[i].name][1] ELSE mask[i].name
  <2> HIDE DEF v
  <2> QED
    BY <1>1, <1>2, Built
<1>4. Fits(path, mask, v) <=> splitUrl(b) = parts
  BY DEF Fits
<1>5. CASE FullSegments(mask) = {}
  <2>1. parts = <<>>
    BY <1>5, MatchesMeans
  <2>2. \A i \in 1 .. Len(mask) : ~mask[i].param /\ mask[i].name = ""
    BY <1>5, BlankMask
  <2> HIDE DEF b, parts
  <2>3. FullParts(b) = {}
    BY <1>3, <2>2 DEF FullParts
  <2>4. splitUrl(b) = <<>>
    BY <1>3, <2>3, SplitMeans
  <2> QED
    BY <1>4, <2>1, <2>4
<1>6. CASE FullSegments(mask) # {}
  <2>1. PICK lo, hi \in 1 .. Len(mask) : lo <= hi /\ Ends(FullSegments(mask), lo, hi)
    BY <1>6, MaskFacts
  <2>2. Len(mask) \in Nat /\ lo \in Int /\ hi \in Int /\ lo <= hi /\ hi <= Len(mask) /\ 1 <= lo
    BY <2>1, MaskFacts
  <2>3. /\ Len(parts) = hi - lo + 1
        /\ \A i \in 1 .. hi - lo + 1 : mask[lo + i - 1].param \/ mask[lo + i - 1].name = parts[i]
    BY <2>1, MatchesMeans
  <2>4. \A k \in findUrlKeys(mask) : \E i \in 1 .. hi - lo + 1 :
           /\ mask[lo + i - 1].param /\ mask[lo + i - 1].name = k
           /\ parts[i] \in STRING /\ v[k] = <<parts[i]>>
    BY <2>1, ParamsMean
  <2>5. Len(parts) # 0 => parts[1] # "" /\ parts[Len(parts)] # ""
    BY PartsMean
  <2> HIDE DEF b, parts, v
  <2>6. \A i \in 1 .. hi - lo + 1 : lo + i - 1 \in 1 .. Len(mask)
    BY <2>2
  <2>7. ASSUME NEW i \in 1 .. hi - lo + 1 PROVE b[lo + i - 1] = parts[i]
    <3> DEFINE j == lo + i - 1
    <3>1. j \in 1 .. Len(mask)
      BY <2>6
    <3>2. CASE mask[j].param
      <4>1. mask[j].name \in findUrlKeys(mask)
        BY <3>1, <3>2, MaskFacts
      <4>2. PICK k \in 1 .. hi - lo + 1 :
              /\ mask[lo + k - 1].param /\ mask[lo + k - 1].name = mask[j].name
              /\ parts[k] \in STRING /\ v[mask[j].name] = <<parts[k]>>
        BY <2>4, <4>1
      <4>3. lo + k - 1 = j
        BY <2>6, <3>1, <3>2, <4>2, MaskFacts DEF KeysDiffer
      <4>4. k = i
        BY <2>2, <4>3
      <4>5. b[j] = v[mask[j].name][1]
        BY <1>3, <3>1, <3>2
      <4> HIDE DEF j
      <4>6. <<parts[i]>>[1] = parts[i]
        OBVIOUS
      <4> QED
        BY <4>2, <4>4, <4>5, <4>6 DEF j
    <3>3. CASE ~mask[j].param
      BY <1>3, <2>3, <3>1, <3>3
    <3> QED
      BY <3>2, <3>3
  <2>8. 1 \in 1 .. hi - lo + 1 /\ hi - lo + 1 \in 1 .. hi - lo + 1 /\ hi - lo + 1 # 0
    BY <2>2
  <2>9. lo + 1 - 1 = lo /\ lo + (hi - lo + 1) - 1 = hi
    BY <2>2
  <2>10. b[lo] # "" /\ b[hi] # ""
    BY <2>3, <2>5, <2>7, <2>8, <2>9
  <2>11. FullParts(b) \subseteq FullSegments(mask)
    BY <1>3, <2>2 DEF FullParts, FullSegments
  <2>12. Ends(FullParts(b), lo, hi)
    BY <1>3, <2>1, <2>10, <2>11 DEF Ends, FullParts
  <2>13. Slice(splitUrl(b), b, lo, hi) /\ splitUrl(b) \in Seq(STRING)
    BY <1>3, <2>12, SplitMeans
  <2>14. Len(splitUrl(b)) = Len(parts) /\ \A i \in 1 .. Len(parts) : splitUrl(b)[i] = parts[i]
    BY <2>3, <2>7, <2>13 DEF Slice
  <2>15. splitUrl(b) = parts
    BY <1>1, <2>13, <2>14, SeqEqual
  <2> QED
    BY <1>4, <2>15 DEF v
<1> QED
  BY <1>5, <1>6

\* A clean path that a mask matches is fitted by full values.
LEMMA MatchCanFit ==
  ASSUME NEW mask \in NonEmpty(Segments), NEW path \in NonEmpty(STRING),
         Matches(path, mask), KeysDiffer(mask), IsClean(path)
  PROVE  CanFit(path, mask)
<1> DEFINE v == Params(path, mask)
<1>1. Fits(path, mask, v)
  BY MatchFits
<1>2. v = [k \in findUrlKeys(mask) |-> v[k]]
  BY DEF Params
<1>3. DOMAIN path = 1 .. Len(path)
  BY LenProperties DEF NonEmpty
<1>4. ASSUME NEW k \in findUrlKeys(mask)
      PROVE  v[k] \in {<<path[j]>> : j \in {i \in DOMAIN path : path[i] # ""}}
  <2>1. PICK i \in 1 .. Len(splitUrl(path)) : v[k] = <<splitUrl(path)[i]>>
    BY ParamsHaveOnePart
  <2>2. PICK j \in 1 .. Len(path) : splitUrl(path)[i] = path[j]
    BY PartsMean
  <2>3. splitUrl(path)[i] # ""
    BY PartsMean
  <2> HIDE DEF v
  <2> QED
    BY <1>3, <2>1, <2>2, <2>3
<1> HIDE DEF v
<1>5. v \in FullValues(path, mask)
  BY <1>2, <1>4 DEF FullValues
<1> QED
  BY <1>1, <1>5 DEF CanFit

\* A path built of values that stay one full part each is matched, and gives them back.
LEMMA CallMatches ==
  ASSUME NEW mask \in NonEmpty(Segments), NEW v, OnePart(mask, v), NoneEmpty(mask, v),
         v = [k \in findUrlKeys(mask) |-> v[k]]
  PROVE  Matches(buildUrl(mask, v), mask) /\ Params(buildUrl(mask, v), mask) = v
<1> DEFINE b == buildUrl(mask, v)
           w == Params(b, mask)
           parts == splitUrl(b)
<1>1. /\ b \in NonEmpty(STRING) /\ Len(b) = Len(mask)
      /\ \A i \in 1 .. Len(mask) : b[i] = IF mask[i].param THEN v[mask[i].name][1] ELSE mask[i].name
      /\ FullParts(b) = FullSegments(mask)
  BY FullBuilt
<1>2. w = [k \in findUrlKeys(mask) |-> w[k]]
  BY DEF Params
<1> HIDE DEF b, parts
<1>3. CASE FullSegments(mask) = {}
  <2>1. parts = <<>>
    BY <1>1, <1>3, SplitMeans DEF parts
  <2>2. Matches(b, mask)
    BY <1>1, <1>3, <2>1, MatchesMeans DEF parts
  <2>3. findUrlKeys(mask) = {}
    BY <1>3, BlankMask
  <2> HIDE DEF w
  <2>4. w = v
    BY <1>2, <2>3
  <2> QED
    BY <2>2, <2>4 DEF w, b
<1>4. CASE FullSegments(mask) # {}
  <2>1. PICK lo, hi \in 1 .. Len(mask) : lo <= hi /\ Ends(FullSegments(mask), lo, hi)
    BY <1>4, MaskFacts
  <2>2. Len(mask) \in Nat /\ lo \in Int /\ hi \in Int /\ lo <= hi /\ hi <= Len(mask) /\ 1 <= lo
    BY <2>1, MaskFacts
  <2>3. Len(parts) = hi - lo + 1 /\ \A i \in 1 .. hi - lo + 1 : parts[i] = b[lo + i - 1]
    BY <1>1, <2>1, SplitMeans DEF Slice, parts
  <2>4. \A i \in 1 .. hi - lo + 1 : lo + i - 1 \in 1 .. Len(mask)
    BY <2>2
  <2>5. \A i \in 1 .. hi - lo + 1 : mask[lo + i - 1].param \/ mask[lo + i - 1].name = parts[i]
    BY <1>1, <2>3, <2>4
  <2>6. Matches(b, mask)
    BY <1>1, <2>1, <2>3, <2>5, MatchesMeans DEF parts
  <2>7. ASSUME NEW k \in findUrlKeys(mask)
        PROVE  \E i \in 1 .. hi - lo + 1 :
                 /\ mask[lo + i - 1].param /\ mask[lo + i - 1].name = k
                 /\ parts[i] \in STRING /\ w[k] = <<parts[i]>>
    <3>1. b \in NonEmpty(STRING) /\ Ends(FullSegments(mask), lo, hi)
      BY <1>1, <2>1
    <3>2. \E i \in 1 .. hi - lo + 1 :
            /\ mask[lo + i - 1].param /\ mask[lo + i - 1].name = k
            /\ splitUrl(b)[i] \in STRING /\ Params(b, mask)[k] = <<splitUrl(b)[i]>>
      BY <3>1, <2>6, ParamsMean
    <3> QED
      BY <3>2 DEF parts
  <2> HIDE DEF w
  <2>8. ASSUME NEW k \in findUrlKeys(mask) PROVE w[k] = v[k]
    <3>1. PICK i \in 1 .. hi - lo + 1 :
            /\ mask[lo + i - 1].param /\ mask[lo + i - 1].name = k
            /\ parts[i] \in STRING /\ w[k] = <<parts[i]>>
      BY <2>7
    <3>2. parts[i] = v[k][1]
      BY <1>1, <2>3, <2>4, <3>1
    <3>3. v[k] \in Seq(STRING) /\ Len(v[k]) = 1
      BY DEF OnePart
    <3>4. v[k] = <<v[k][1]>>
      BY <3>3, OfOneElement, Zenon
    <3> QED
      BY <3>1, <3>2, <3>4
  <2>9. w = v
    BY <1>2, <2>8
  <2> QED
    BY <2>6, <2>9 DEF w, b
<1> QED
  BY <1>3, <1>4

----------------------------------------------------------------------------
(* Patterns *)

\* What being in a subtree means, position by position.
LEMMA InSubtreeMeans ==
  ASSUME NEW S, NEW path \in NonEmpty(S), NEW p \in NonEmpty(S)
  PROVE  InSubtree(path, p) <=>
           /\ p[Len(p)] = "" /\ Len(p) <= Len(path)
           /\ \A i \in 1 .. Len(p) - 1 : path[i] = p[i]
<1> DEFINE n == Len(p) - 1
           front == SubSeq(p, 1, n)
           begin == SubSeq(path, 1, n)
<1>1. path \in Seq(S) /\ p \in Seq(S) /\ Len(path) \in Nat /\ Len(p) \in Nat /\ Len(p) # 0
  BY EmptySeq, LenProperties DEF NonEmpty
<1>2. n \in Nat /\ \A i \in 1 .. n : i \in 1 .. Len(p)
  BY <1>1
<1> HIDE DEF n
<1>3. front \in Seq(S) /\ Len(front) = n /\ \A i \in 1 .. n : front[i] = p[i]
  <2>1. \A i \in 1 .. n : p[i] \in S
    BY <1>1, <1>2, ElementOfSeq
  <2>2. /\ front \in Seq(S) /\ Len(front) = IF 1 <= n THEN n - 1 + 1 ELSE 0
        /\ \A i \in 1 .. n - 1 + 1 : front[i] = p[1 + i - 1]
    BY <1>2, <2>1, SubSeqProperties
  <2> QED
    BY <1>2, <2>2
<1>4. ASSUME n <= Len(path)
      PROVE  begin \in Seq(S) /\ Len(begin) = n /\ \A i \in 1 .. n : begin[i] = path[i]
  <2>1. \A i \in 1 .. n : path[i] \in S
    BY <1>1, <1>2, <1>4, ElementOfSeq
  <2>2. /\ begin \in Seq(S) /\ Len(begin) = IF 1 <= n THEN n - 1 + 1 ELSE 0
        /\ \A i \in 1 .. n - 1 + 1 : begin[i] = path[1 + i - 1]
    BY <1>2, <2>1, SubSeqProperties
  <2> QED
    BY <1>2, <2>2
<1>5. InSubtree(path, p) <=> p[Len(p)] = "" /\ Len(p) <= Len(path) /\ IsPrefix(front, path)
  BY <1>1 DEF InSubtree, IsSubtree, Last, Front, n
<1> HIDE DEF front
<1>6. ASSUME Len(p) <= Len(path)
      PROVE  IsPrefix(front, path) <=> \A i \in 1 .. n : path[i] = p[i]
  <2>1. n <= Len(path)
    BY <1>1, <1>6 DEF n
  <2>2. IsPrefix(front, path) <=> SubSeq(front, 1, n) = begin
    BY <1>3, <2>1 DEF IsPrefix
  <2>3. SubSeq(front, 1, n) = front
    BY <1>3, SubSeqFull
  <2>4. begin \in Seq(S) /\ Len(begin) = n /\ \A i \in 1 .. n : begin[i] = path[i]
    BY <1>4, <2>1
  <2> HIDE DEF begin
  <2>5. front = begin <=> \A i \in 1 .. n : front[i] = begin[i]
    BY <1>3, <2>4, SeqEqual
  <2> QED
    BY <1>3, <2>2, <2>3, <2>4, <2>5
<1> QED
  BY <1>1, <1>5, <1>6 DEF n

\* Of the subtrees that a path is in, no two are equally long.
LEMMA SubtreesDiffer ==
  ASSUME NEW S, NEW path \in NonEmpty(S), NEW p \in NonEmpty(S), NEW q \in NonEmpty(S),
         InSubtree(path, p), InSubtree(path, q), Len(p) = Len(q)
  PROVE  p = q
<1>1. p \in Seq(S) /\ q \in Seq(S) /\ Len(p) \in Nat
  BY LenProperties DEF NonEmpty
<1>2. /\ p[Len(p)] = "" /\ \A i \in 1 .. Len(p) - 1 : path[i] = p[i]
      /\ q[Len(q)] = "" /\ \A i \in 1 .. Len(q) - 1 : path[i] = q[i]
  BY InSubtreeMeans
<1>3. \A i \in 1 .. Len(p) : p[i] = q[i]
  <2>1. \A i \in 1 .. Len(p) : i = Len(p) \/ i \in 1 .. Len(p) - 1
    BY <1>1
  <2> QED
    BY <1>2, <2>1
<1> QED
  BY <1>1, <1>3, SeqEqual

\* The mux finds the path itself or the longest subtree that it is in.
LEMMA Longest ==
  ASSUME NEW S, NEW path \in NonEmpty(S), NEW patterns \in SUBSET NonEmpty(S),
         Candidates(path, patterns) # {}
  PROVE  /\ PatternOf(path, patterns) \in Candidates(path, patterns)
         /\ path \in patterns => PatternOf(path, patterns) = path
         /\ path \notin patterns =>
              \A q \in Candidates(path, patterns) : Len(q) <= Len(PatternOf(path, patterns))
<1> DEFINE C == Candidates(path, patterns)
           lens == {Len(q) : q \in C}
<1>1. C \subseteq patterns
  BY DEF Candidates
<1>2. \A q \in NonEmpty(S) : Len(q) \in Nat /\ Len(q) # 0
  BY EmptySeq, LenProperties DEF NonEmpty
<1>3. \A q \in C : Len(q) \in 1 .. Len(path)
  <2> SUFFICES ASSUME NEW q \in C PROVE Len(q) \in 1 .. Len(path)
    OBVIOUS
  <2>1. q \in NonEmpty(S) /\ (q = path \/ InSubtree(path, q))
    BY DEF Candidates
  <2>2. Len(q) <= Len(path)
    <3>1. InSubtree(path, q) => Len(q) <= Len(path)
      BY <2>1, InSubtreeMeans
    <3>2. Len(path) <= Len(path)
      BY <1>2
    <3> QED
      BY <2>1, <3>1, <3>2
  <2> QED
    BY <1>2, <2>1, <2>2
<1>4. lens \in SUBSET (1 .. Len(path)) /\ lens # {}
  <2> HIDE DEF C
  <2>1. C # {}
    BY DEF C
  <2> QED
    BY <1>3, <2>1
<1>5. \E p \in C : \A q \in C : Len(q) <= Len(p)
  <2>1. Max(lens) \in lens /\ \A n \in lens : n <= Max(lens)
    <3> HIDE DEF lens
    <3> QED
      BY <1>2, <1>4, FirstAndLast
  <2> HIDE DEF C
  <2> QED
    BY <2>1
<1>6. path \in patterns => path \in C
  BY DEF Candidates
<1> QED
  BY <1>5, <1>6 DEF PatternOf

\* What stands between slashes: a string, or nothing.  (The provers do not know that
\* a literal is in STRING.)
Texts == STRING \cup {""}

\* Paths of strings are paths of texts.
LEMMA StringsAreTexts == NonEmpty(STRING) \subseteq NonEmpty(Texts)
<1>1. STRING \subseteq Texts
  BY DEF Texts
<1>2. Seq(STRING) \subseteq Seq(Texts)
  BY <1>1, SeqMonotonic
<1> QED
  BY <1>2 DEF NonEmpty

\* cutUrlParams: the mask itself, or what stands before its first parameter and a slash.
LEMMA CutMeans ==
  ASSUME NEW mask \in NonEmpty(Segments)
  PROVE  LET cut == cutUrlParams(mask)
         IN /\ cut \in NonEmpty(Texts) /\ Len(cut) <= Len(mask)
            /\ findUrlKeys(mask) = {} => cut = Names(mask)
            /\ findUrlKeys(mask) # {} =>
                 /\ cut[Len(cut)] = ""
                 /\ \A i \in 1 .. Len(cut) - 1 : ~mask[i].param /\ cut[i] = mask[i].name
<1> DEFINE params == {i \in DOMAIN mask : mask[i].param}
           n == Min(params) - 1
           start == SubSeq(mask, 1, n)
           before == Names(start)
<1>1. mask \in Seq(Segments) /\ Len(mask) \in Nat /\ Len(mask) # 0 /\ DOMAIN mask = 1 .. Len(mask)
  BY MaskFacts DEF NonEmpty
<1>2. \A i \in 1 .. Len(mask) : mask[i].param \in BOOLEAN /\ mask[i].name \in Texts
  BY MaskFacts DEF Texts
<1>3. params = {} <=> findUrlKeys(mask) = {}
  BY DEF findUrlKeys
<1>4. CASE params = {}
  <2>1. cutUrlParams(mask) = Names(mask)
    BY <1>4 DEF cutUrlParams
  <2>2. Names(mask) \in [1 .. Len(mask) -> Texts]
    BY <1>1, <1>2 DEF Names
  <2>3. Names(mask) \in NonEmpty(Texts) /\ Len(Names(mask)) = Len(mask)
    BY <1>1, <2>2, OfLength
  <2> HIDE DEF params
  <2>4. Len(Names(mask)) <= Len(mask)
    BY <1>1, <2>3
  <2> QED
    BY <1>3, <1>4, <2>1, <2>3, <2>4
<1>5. CASE params # {}
  <2>1. /\ n \in Nat /\ n < Len(mask)
        /\ \A i \in 1 .. n : i \in 1 .. Len(mask) /\ ~mask[i].param
    <3> DEFINE first == Min(params)
    <3>1. params \in SUBSET (1 .. Len(mask))
      BY <1>1
    <3>2. first \in params /\ \A i \in params : first <= i
      <4> HIDE DEF params
      <4> QED
        BY <1>1, <1>5, <3>1, FirstAndLast
    <3>3. \A i \in 1 .. Len(mask) : mask[i].param => first <= i
      BY <1>1, <3>2
    <3>4. first \in 1 .. Len(mask)
      BY <3>1, <3>2
    <3> HIDE DEF first
    <3>5. first - 1 \in Nat /\ first - 1 < Len(mask)
      BY <1>1, <3>4
    <3>6. \A i \in 1 .. first - 1 : i \in 1 .. Len(mask) /\ ~(first <= i)
      BY <1>1, <3>4
    <3>7. \A i \in 1 .. first - 1 : i \in 1 .. Len(mask) /\ ~mask[i].param
      BY <3>3, <3>6
    <3> QED
      BY <3>5, <3>7 DEF first
  <2> HIDE DEF n
  <2>2. start \in Seq(Segments) /\ Len(start) = n /\ \A i \in 1 .. n : start[i] = mask[i]
    <3>1. \A i \in 1 .. n : mask[i] \in Segments
      BY <1>1, <2>1, ElementOfSeq
    <3>2. /\ start \in Seq(Segments) /\ Len(start) = IF 1 <= n THEN n - 1 + 1 ELSE 0
          /\ \A i \in 1 .. n - 1 + 1 : start[i] = mask[1 + i - 1]
      BY <2>1, <3>1, SubSeqProperties
    <3> QED
      BY <2>1, <3>2
  <2> HIDE DEF start
  <2>3. before = [i \in 1 .. n |-> start[i].name]
    BY <2>2, LenProperties DEF Names
  <2>4. before \in [1 .. n -> Texts] /\ \A i \in 1 .. n : before[i] = mask[i].name
    BY <1>2, <2>1, <2>2, <2>3
  <2> HIDE DEF before
  <2>5. before \in Seq(Texts) /\ Len(before) = n
    BY <2>1, <2>4, OfLength
  <2>6. cutUrlParams(mask) = IF before # <<>> /\ Last(before) = "" THEN before ELSE Append(before, "")
    BY <1>5 DEF cutUrlParams, before, start, n
  <2>7. CASE before # <<>> /\ before[n] = ""
    <3>1. cutUrlParams(mask) = before
      BY <2>5, <2>6, <2>7 DEF Last
    <3>2. before \in NonEmpty(Texts)
      BY <2>5, <2>7 DEF NonEmpty
    <3>3. n <= Len(mask) /\ \A i \in 1 .. n - 1 : i \in 1 .. n
      BY <1>1, <2>1
    <3>4. \A i \in 1 .. n - 1 : ~mask[i].param /\ before[i] = mask[i].name
      BY <2>1, <2>4, <3>3
    <3> QED
      BY <1>3, <1>5, <2>5, <2>7, <3>1, <3>2, <3>3, <3>4
  <2>8. CASE ~(before # <<>> /\ before[n] = "")
    <3> DEFINE cut == Append(before, "")
    <3>1. cutUrlParams(mask) = cut
      BY <2>5, <2>6, <2>8 DEF Last
    <3>2. /\ cut \in NonEmpty(Texts) /\ Len(cut) = n + 1
          /\ cut[n + 1] = "" /\ \A i \in 1 .. n : cut[i] = before[i]
      <4> DEFINE slash == ""
      <4>1. slash \in Texts
        BY DEF Texts
      <4> HIDE DEF slash
      <4>2. /\ Append(before, slash) \in NonEmpty(Texts) /\ Len(Append(before, slash)) = n + 1
            /\ Append(before, slash)[n + 1] = slash
            /\ \A i \in 1 .. n : Append(before, slash)[i] = before[i]
        BY <2>1, <2>5, <4>1, Appended
      <4> QED
        BY <4>2 DEF slash
    <3> HIDE DEF cut
    <3>3. n + 1 <= Len(mask) /\ (n + 1) - 1 = n
      BY <1>1, <2>1
    <3>4. \A i \in 1 .. n : ~mask[i].param /\ cut[i] = mask[i].name
      BY <2>1, <2>4, <3>2
    <3> QED
      BY <1>3, <1>5, <3>1, <3>2, <3>3, <3>4
  <2> QED
    BY <2>7, <2>8
<1> QED
  BY <1>4, <1>5

\* The path of a call is in the pattern of its mask.
LEMMA BuiltIsCandidate ==
  ASSUME NEW mask \in NonEmpty(Segments), NEW v, OnePart(mask, v)
  PROVE  /\ buildUrl(mask, v) \in NonEmpty(STRING)
         /\ Len(buildUrl(mask, v)) = Len(mask)
         /\ findUrlKeys(mask) = {} => buildUrl(mask, v) = cutUrlParams(mask)
         /\ findUrlKeys(mask) # {} => InSubtree(buildUrl(mask, v), cutUrlParams(mask))
<1> DEFINE b == buildUrl(mask, v)
           cut == cutUrlParams(mask)
<1>1. /\ b \in NonEmpty(STRING) /\ Len(b) = Len(mask)
      /\ \A i \in 1 .. Len(mask) : b[i] = IF mask[i].param THEN v[mask[i].name][1] ELSE mask[i].name
  <2>1. ASSUME NEW k \in findUrlKeys(mask) PROVE v[k] \in NonEmpty(STRING)
    <3>1. v[k] \in Seq(STRING) /\ Len(v[k]) = 1
      BY DEF OnePart
    <3> QED
      BY <3>1, OneLong, Zenon
  <2> QED
    BY <2>1, Built
<1>2. /\ cut \in NonEmpty(Texts) /\ Len(cut) <= Len(mask)
      /\ findUrlKeys(mask) = {} => cut = Names(mask)
      /\ findUrlKeys(mask) # {} =>
           /\ cut[Len(cut)] = ""
           /\ \A i \in 1 .. Len(cut) - 1 : ~mask[i].param /\ cut[i] = mask[i].name
  BY CutMeans
<1>3. Len(mask) \in Nat /\ DOMAIN mask = 1 .. Len(mask) /\ b \in NonEmpty(Texts)
  BY <1>1, MaskFacts, StringsAreTexts
<1> HIDE DEF b, cut
<1>4. ASSUME findUrlKeys(mask) = {} PROVE b = cut
  <2>1. \A i \in 1 .. Len(mask) : ~mask[i].param
    <3>1. \A i \in 1 .. Len(mask) : mask[i].param => mask[i].name \in findUrlKeys(mask)
      BY <1>3 DEF findUrlKeys
    <3> QED
      BY <1>4, <3>1
  <2>2. b = [i \in 1 .. Len(mask) |-> b[i]]
    <3>1. b \in Seq(Texts)
      BY <1>3 DEF NonEmpty
    <3>2. b \in [1 .. Len(b) -> Texts]
      BY <3>1, LenProperties
    <3> QED
      BY <1>1, <3>2
  <2>3. Names(mask) = [i \in 1 .. Len(mask) |-> mask[i].name]
    BY <1>3 DEF Names
  <2>4. \A i \in 1 .. Len(mask) : b[i] = mask[i].name
    BY <1>1, <2>1
  <2> QED
    BY <1>2, <1>4, <2>2, <2>3, <2>4
<1>5. ASSUME findUrlKeys(mask) # {} PROVE InSubtree(b, cut)
  <2>1. Len(cut) \in Nat
    BY <1>2, LenProperties DEF NonEmpty
  <2>2. \A i \in 1 .. Len(cut) - 1 : i \in 1 .. Len(mask)
    <3>1. Len(cut) <= Len(mask) /\ Len(mask) \in Nat
      BY <1>2, <1>3
    <3> QED
      BY <2>1, <3>1
  <2>3. \A i \in 1 .. Len(cut) - 1 : b[i] = cut[i]
    BY <1>1, <1>2, <1>5, <2>2
  <2>4. cut[Len(cut)] = "" /\ Len(cut) <= Len(b)
    BY <1>1, <1>2, <1>5
  <2> QED
    BY <1>2, <1>3, <2>3, <2>4, InSubtreeMeans
<1> QED
  BY <1>1, <1>4, <1>5 DEF b, cut

----------------------------------------------------------------------------
(* The inductive invariant *)

\* What is registered are the routes of the pattern, by method.
BoundInv == \A p \in DOMAIN bound : bound[p] = MethodRoutes(p)

\* A request comes after the binding; one of Call is the mask with the values in it.
CallInv ==
  /\ req # NoRequest => todo = {} /\ req.method \in Methods /\ req.path \in NonEmpty(STRING)
  /\ call # NoRoute =>
       /\ req # NoRequest
       /\ values \in [findUrlKeys(Mask(call)) -> Values]
       /\ req = [method |-> table[call].method, path |-> buildUrl(Mask(call), values)]

\* An answer is the one to the request, and GetMatcher is asked about its pattern.
AnswerInv ==
  /\ answer # Pending => req # NoRequest /\ answer = Reply(req.method, req.path)
  /\ matched # {} =>
       /\ answer.kind = "route"
       /\ matched = {RouteByPath(PatternOf(req.path, DOMAIN bound), req.method)}

\* The invariant that a request and its answer agree with the table and the patterns.
IInv == TypeOK /\ BoundInv /\ CallInv /\ AnswerInv

----------------------------------------------------------------------------
(* What the server answers *)

\* The routes of a table.
LEMMA RoutesOfTable ==
  ASSUME table \in Tables
  PROVE  /\ Len(table) \in Nat /\ DOMAIN table = 1 .. Len(table)
         /\ \A i \in DOMAIN table : Mask(i) \in NonEmpty(Segments) /\ table[i].method \in Methods
<1>1. table \in Seq(Routes)
  BY TablesAssumption
<1>2. Len(table) \in Nat /\ DOMAIN table = 1 .. Len(table)
  BY <1>1, LenProperties
<1>3. \A i \in DOMAIN table : table[i] \in Routes
  BY <1>1, <1>2, ElementOfSeq
<1> QED
  BY <1>2, <1>3 DEF Routes, Mask

\* The routes that the handler for this path and method was made of.
Handlers(method, path) ==
  {i \in DOMAIN table : CutPath(i) = PatternOf(path, DOMAIN bound) /\ table[i].method = method}

\* BindRoutes has registered every path.
AllBound == DOMAIN bound = {CutPath(i) : i \in DOMAIN table} /\ BoundInv

\* The answer of the handler of route r.
Found(r, params) == [kind |-> "route", route |-> r, params |-> params]

\* a is the answer of a handler made of these routes.
IsHandlersAnswer(a, routes, path) ==
  \/ a = Refusal("methodNotAllowed") /\ routes = {}
  \/ a = Refusal("notFound") /\ \A i \in routes : ~Matches(path, Mask(i))
  \/ \E r \in routes : a = Found(r, <<>>) /\ routes = {r} /\ findUrlKeys(Mask(r)) = {}
  \/ \E r \in routes : /\ a = Found(r, Params(path, Mask(r)))
                       /\ Matches(path, Mask(r))
                       /\ \A j \in routes : j < r => ~Matches(path, Mask(j))

\* A set of routes has a first one and a last one.
LEMMA FirstRoute ==
  ASSUME table \in Tables, NEW routes \in SUBSET DOMAIN table, routes # {}
  PROVE  /\ Min(routes) \in routes /\ Max(routes) \in routes
         /\ \A i \in routes : Min(routes) <= i /\ i <= Max(routes)
BY RoutesOfTable, FirstAndLast

\* newHTTPMethodHandler: the only route if it has no parameters, else the first that matches.
LEMMA HandlerMeans ==
  ASSUME table \in Tables, NEW routes \in SUBSET DOMAIN table, routes # {}, NEW path
  PROVE  IsHandlersAnswer(MethodHandler(routes, path), routes, path)
<1> DEFINE first == Min(routes)
           matching == {i \in routes : Matches(path, Mask(i))}
           index == Classify(path, routes)
<1>1. first \in routes
  BY FirstRoute
<1>2. index = IF matching = {} THEN NoRoute ELSE Min(matching)
  BY DEF Classify
<1>3. MethodHandler(routes, path) =
        IF routes = {first} /\ findUrlKeys(Mask(first)) = {} THEN Found(first, <<>>)
        ELSE IF index = NoRoute THEN Refusal("notFound")
        ELSE Found(index, Params(path, Mask(index)))
  BY DEF MethodHandler, Found
<1>4. matching # {} => Min(matching) \in matching /\ \A i \in matching : Min(matching) <= i
  <2>1. matching \in SUBSET DOMAIN table
    OBVIOUS
  <2> HIDE DEF matching
  <2> QED
    BY <2>1, FirstRoute
<1>5. \A i \in DOMAIN table : i \in Nat /\ i # NoRoute
  BY RoutesOfTable DEF NoRoute
<1> HIDE DEF first, index
<1>6. CASE routes = {first} /\ findUrlKeys(Mask(first)) = {}
  BY <1>1, <1>3, <1>6 DEF IsHandlersAnswer
<1>7. CASE ~(routes = {first} /\ findUrlKeys(Mask(first)) = {}) /\ matching = {}
  <2>1. MethodHandler(routes, path) = Refusal("notFound")
    BY <1>2, <1>3, <1>7
  <2> QED
    BY <1>7, <2>1 DEF IsHandlersAnswer
<1>8. CASE ~(routes = {first} /\ findUrlKeys(Mask(first)) = {}) /\ matching # {}
  <2>1. index \in matching /\ \A i \in matching : index <= i
    BY <1>2, <1>4, <1>8
  <2>2. index \in routes /\ Matches(path, Mask(index))
    BY <2>1
  <2>3. index \in Nat /\ index # NoRoute
    BY <1>5, <2>2
  <2>4. MethodHandler(routes, path) = Found(index, Params(path, Mask(index)))
    BY <1>3, <1>8, <2>3
  <2>5. \A j \in routes : j < index => ~Matches(path, Mask(j))
    <3>1. \A j \in routes : j < index => ~(index <= j)
      BY <1>5, <2>3
    <3> QED
      BY <2>1, <3>1
  <2> QED
    BY <2>2, <2>4, <2>5 DEF IsHandlersAnswer
<1> QED
  BY <1>6, <1>7, <1>8

\* a is the answer of the server.
IsAnswer(a, method, path) ==
  \/ a = Refusal("redirect") /\ (NeedsSlash(path, DOMAIN bound) \/ ~IsClean(path))
  \/ /\ ~NeedsSlash(path, DOMAIN bound) /\ IsClean(path)
     /\ \/ Candidates(path, DOMAIN bound) = {} /\ a = Refusal("noPattern")
        \/ /\ Candidates(path, DOMAIN bound) # {}
           /\ IsHandlersAnswer(a, Handlers(method, path), path)

\* Patterns are paths.
LEMMA PatternsArePaths ==
  ASSUME table \in Tables, AllBound
  PROVE  DOMAIN bound \in SUBSET NonEmpty(Texts)
<1>1. \A i \in DOMAIN table : CutPath(i) \in NonEmpty(Texts)
  BY RoutesOfTable, CutMeans DEF CutPath
<1> QED
  BY <1>1 DEF AllBound

\* The mux and the handler under it.
LEMMA ReplyMeans ==
  ASSUME table \in Tables, AllBound, NEW method, NEW path \in NonEmpty(Texts)
  PROVE  IsAnswer(Reply(method, path), method, path)
<1> DEFINE p == PatternOf(path, DOMAIN bound)
           routes == Handlers(method, path)
           candidates == Candidates(path, DOMAIN bound)
           slash == NeedsSlash(path, DOMAIN bound)
<1>1. Reply(method, path) =
        IF slash \/ ~IsClean(path) THEN Refusal("redirect")
        ELSE IF candidates = {} THEN Refusal("noPattern")
        ELSE PatternHandler(p, method, path)
  BY DEF Reply
<1>2. candidates # {} => IsHandlersAnswer(PatternHandler(p, method, path), routes, path)
  <2> SUFFICES ASSUME candidates # {}
               PROVE  IsHandlersAnswer(PatternHandler(p, method, path), routes, path)
    OBVIOUS
  <2>1. p \in DOMAIN bound
    <3>1. p \in candidates
      BY PatternsArePaths, Longest
    <3> QED
      BY <3>1 DEF Candidates
  <2>2. bound[p] = MethodRoutes(p)
    BY <2>1 DEF AllBound, BoundInv
  <2>3. routes = {i \in DOMAIN table : CutPath(i) = p /\ table[i].method = method}
    BY DEF Handlers
  <2>4. PatternHandler(p, method, path) =
          IF method \notin DOMAIN bound[p] THEN Refusal("methodNotAllowed")
          ELSE MethodHandler(bound[p][method], path)
    BY DEF PatternHandler
  <2> HIDE DEF p, routes
  <2> DEFINE here == {i \in DOMAIN table : CutPath(i) = p}
             methods == {table[i].method : i \in here}
             of(m) == {i \in here : table[i].method = m}
  <2>5. MethodRoutes(p) = [m \in methods |-> of(m)]
    BY DEF MethodRoutes
  <2>6. of(method) = routes
    BY <2>3
  <2>7. method \in methods <=> of(method) # {}
    OBVIOUS
  <2> HIDE DEF methods, of
  <2>8. DOMAIN bound[p] = methods /\ (method \in methods => bound[p][method] = of(method))
    BY <2>2, <2>5
  <2>9. CASE routes = {}
    BY <2>4, <2>6, <2>7, <2>8, <2>9 DEF IsHandlersAnswer
  <2>10. CASE routes # {}
    <3>1. PatternHandler(p, method, path) = MethodHandler(routes, path)
      BY <2>4, <2>6, <2>7, <2>8, <2>10
    <3>2. routes \in SUBSET DOMAIN table
      BY <2>3
    <3> QED
      BY <2>10, <3>1, <3>2, HandlerMeans
  <2> QED
    BY <2>9, <2>10
<1> HIDE DEF p, routes, candidates, slash
<1>3. CASE slash \/ ~IsClean(path)
  BY <1>1, <1>3 DEF IsAnswer, slash
<1>4. CASE ~slash /\ IsClean(path) /\ candidates = {}
  BY <1>1, <1>4 DEF IsAnswer, slash, candidates
<1>5. CASE ~slash /\ IsClean(path) /\ candidates # {}
  <2>1. Reply(method, path) = PatternHandler(p, method, path)
    BY <1>1, <1>5
  <2> QED
    BY <1>2, <1>5, <2>1 DEF IsAnswer, slash, candidates, routes
<1> QED
  BY <1>3, <1>4, <1>5

\* An answer names a route, or none.
LEMMA AnswersHaveTypes ==
  ASSUME table \in Tables, NEW a, NEW method, NEW path, IsAnswer(a, method, path)
  PROVE  /\ a.kind \in {"route", "redirect", "noPattern", "notFound", "methodNotAllowed"}
         /\ a.route \in {NoRoute} \cup DOMAIN table
         /\ a # Pending
<1>1. \A r \in Handlers(method, path) : r \in DOMAIN table
  BY DEF Handlers
<1>2. CASE \E r \in DOMAIN table : \E params : a = Found(r, params)
  BY <1>2 DEF Found, Pending
<1>3. CASE \E k \in {"redirect", "noPattern", "notFound", "methodNotAllowed"} : a = Refusal(k)
  BY <1>3 DEF Refusal, Pending
<1> QED
  BY <1>1, <1>2, <1>3 DEF IsAnswer, IsHandlersAnswer

----------------------------------------------------------------------------
(* The steps *)

\* What is computed from the table and the patterns stays as they stay.
LEMMA SameTable ==
  ASSUME table' = table
  PROVE  /\ \A i : Mask(i)' = Mask(i) /\ CutPath(i)' = CutPath(i)
         /\ \A p : MethodRoutes(p)' = MethodRoutes(p)
         /\ \A p, m : RouteByPath(p, m)' = RouteByPath(p, m)
<1>1. \A i : Mask(i)' = Mask(i) /\ CutPath(i)' = CutPath(i)
  BY DEF Mask, CutPath
<1>2. ASSUME NEW p PROVE MethodRoutes(p)' = MethodRoutes(p)
  BY DEF MethodRoutes, CutPath, Mask
<1>3. ASSUME NEW p, NEW m PROVE RouteByPath(p, m)' = RouteByPath(p, m)
  BY DEF RouteByPath, Mask
<1> QED
  BY <1>1, <1>2, <1>3

\* So does the answer to a request.
LEMMA SameReply ==
  ASSUME table' = table, bound' = bound, NEW m, NEW p
  PROVE  Reply(m, p)' = Reply(m, p)
<1>1. ASSUME NEW routes PROVE Classify(p, routes)' = Classify(p, routes)
  BY DEF Classify, Mask
<1>2. ASSUME NEW routes PROVE MethodHandler(routes, p)' = MethodHandler(routes, p)
  BY <1>1 DEF MethodHandler, Mask
<1>3. ASSUME NEW pattern PROVE PatternHandler(pattern, m, p)' = PatternHandler(pattern, m, p)
  BY <1>2 DEF PatternHandler
<1> QED
  BY <1>3 DEF Reply

\* Before a request there is no answer.
LEMMA NothingBefore ==
  ASSUME IInv, req = NoRequest
  PROVE  answer = Pending /\ matched = {} /\ call = NoRoute
<1>1. answer = Pending
  BY DEF IInv, AnswerInv
<1>2. answer.kind # "route"
  BY <1>1 DEF Pending
<1> QED
  BY <1>1, <1>2 DEF IInv, AnswerInv, CallInv

\* At first nothing is registered or asked.
LEMMA InitInv == ASSUME Init PROVE IInv
<1>1. table \in Tables /\ todo = {CutPath(i) : i \in DOMAIN table} /\ DOMAIN bound = {}
      /\ call = NoRoute /\ req = NoRequest /\ answer = Pending /\ matched = {}
  BY DEF Init
<1>2. TypeOK
  BY <1>1 DEF TypeOK, Pending, NoRoute
<1> QED
  BY <1>1, <1>2 DEF IInv, BoundInv, CallInv, AnswerInv

\* A pattern is registered.
LEMMA BindStep ==
  ASSUME IInv, NEW path \in todo, BindRoutes(path)
  PROVE  IInv'
<1>1. /\ todo' = todo \ {path} /\ todo # {}
      /\ table' = table /\ call' = call /\ values' = values /\ req' = req
      /\ answer' = answer /\ matched' = matched
      /\ bound' = [p \in DOMAIN bound \cup {path} |->
                     IF p = path THEN MethodRoutes(path) ELSE bound[p]]
  BY DEF BindRoutes
<1>2. req = NoRequest
  BY <1>1 DEF IInv, CallInv
<1>3. answer = Pending /\ matched = {} /\ call = NoRoute
  BY <1>2, NothingBefore
<1>4. DOMAIN bound' = DOMAIN bound \cup {path}
  BY <1>1
<1>5. BoundInv'
  <2>1. ASSUME NEW p \in DOMAIN bound \cup {path} PROVE bound'[p] = MethodRoutes(p)
    BY <1>1 DEF IInv, BoundInv
  <2>2. \A p : MethodRoutes(p)' = MethodRoutes(p)
    BY <1>1, SameTable
  <2> QED
    BY <1>4, <2>1, <2>2 DEF BoundInv
<1>6. TypeOK'
  <2>1. \A i : CutPath(i)' = CutPath(i)
    BY <1>1, SameTable
  <2> QED
    BY <1>1, <1>2, <1>3, <1>4, <2>1 DEF IInv, TypeOK, NoRequest
<1>7. CallInv' /\ AnswerInv'
  BY <1>1, <1>2, <1>3 DEF CallInv, AnswerInv, NoRequest, Pending
<1> QED
  BY <1>5, <1>6, <1>7 DEF IInv

\* Neither the table nor what is registered changes after that.
LEMMA KeptInv ==
  ASSUME IInv, table' = table, bound' = bound, todo' = todo
  PROVE  /\ BoundInv'
         /\ table' \in Tables
         /\ todo' \subseteq {CutPath(i)' : i \in DOMAIN table'}
         /\ DOMAIN bound' = {CutPath(i)' : i \in DOMAIN table'} \ todo'
<1>1. \A i : CutPath(i)' = CutPath(i)
  BY SameTable
<1>2. \A p : MethodRoutes(p)' = MethodRoutes(p)
  BY SameTable
<1> QED
  BY <1>1, <1>2 DEF IInv, TypeOK, BoundInv

\* A call makes its request.
LEMMA CallStep ==
  ASSUME IInv, NEW i \in DOMAIN table, Call(i)
  PROVE  IInv'
<1>1. /\ todo = {} /\ req = NoRequest /\ call' = i
      /\ table' = table /\ todo' = todo /\ bound' = bound /\ answer' = answer /\ matched' = matched
  BY DEF Call
<1>2. PICK v \in [findUrlKeys(Mask(i)) -> Values] :
        values' = v /\ req' = [method |-> table[i].method, path |-> buildUrl(Mask(i), v)]
  BY DEF Call
<1>3. answer = Pending /\ matched = {}
  BY <1>1, NothingBefore
<1>4. Mask(i) \in NonEmpty(Segments) /\ table[i].method \in Methods
  BY RoutesOfTable DEF IInv, TypeOK
<1>5. \A k \in findUrlKeys(Mask(i)) : v[k] \in NonEmpty(STRING)
  BY PathsAssumption
<1>6. buildUrl(Mask(i), v) \in NonEmpty(STRING)
  BY <1>4, <1>5, Built
<1>7. req'.method \in Methods /\ req'.path \in NonEmpty(STRING) /\ req' # NoRequest
  <2>1. req'.method = table[i].method /\ req'.path = buildUrl(Mask(i), v)
    BY <1>2
  <2>2. NoRequest.path = <<>>
    BY DEF NoRequest
  <2> QED
    BY <1>4, <1>6, <2>1, <2>2 DEF NonEmpty
<1>8. CallInv'
  <2>1. Mask(i)' = Mask(i)
    BY <1>1, SameTable
  <2>2. values' \in [findUrlKeys(Mask(i)) -> Values]
    BY <1>2
  <2>3. req' = [method |-> table[i].method, path |-> buildUrl(Mask(i), values')]
    BY <1>2
  <2> QED
    BY <1>1, <1>7, <2>1, <2>2, <2>3 DEF CallInv, NoRequest, Mask
<1>9. AnswerInv'
  BY <1>1, <1>3 DEF AnswerInv, Pending
<1>10. TypeOK'
  BY <1>1, <1>3, <1>7, KeptInv DEF TypeOK, IInv, NoRequest, Pending
<1> QED
  BY <1>1, <1>8, <1>9, <1>10, KeptInv DEF IInv

\* Another client makes a request.
LEMMA ForeignStep ==
  ASSUME IInv, ForeignRequest
  PROVE  IInv'
<1>1. /\ todo = {} /\ req = NoRequest
      /\ table' = table /\ todo' = todo /\ bound' = bound /\ call' = call /\ values' = values
      /\ answer' = answer /\ matched' = matched
  BY DEF ForeignRequest
<1>2. PICK m \in Methods, p \in Paths : req' = [method |-> m, path |-> p]
  BY DEF ForeignRequest
<1>3. answer = Pending /\ matched = {} /\ call = NoRoute
  BY <1>1, NothingBefore
<1>4. p \in NonEmpty(STRING)
  BY PathsAssumption
<1>5. req'.method \in Methods /\ req'.path \in NonEmpty(STRING)
  BY <1>2, <1>4
<1>6. CallInv'
  BY <1>1, <1>3, <1>5 DEF CallInv
<1>7. AnswerInv'
  BY <1>1, <1>3 DEF AnswerInv, Pending
<1>8. TypeOK'
  BY <1>1, <1>3, <1>5, KeptInv DEF TypeOK, IInv, NoRequest, Pending
<1> QED
  BY <1>1, <1>6, <1>7, <1>8, KeptInv DEF IInv

\* Once there is a request, every pattern is registered.
LEMMA Ready ==
  ASSUME IInv, req # NoRequest
  PROVE  /\ table \in Tables /\ AllBound
         /\ req.method \in Methods /\ req.path \in NonEmpty(STRING) /\ req.path \in NonEmpty(Texts)
BY StringsAreTexts DEF IInv, TypeOK, CallInv, AllBound

\* The server answers.
LEMMA ServeStep ==
  ASSUME IInv, Serve
  PROVE  IInv'
<1>1. /\ req # NoRequest /\ answer = Pending /\ answer' = Reply(req.method, req.path)
      /\ table' = table /\ todo' = todo /\ bound' = bound /\ call' = call /\ values' = values
      /\ req' = req /\ matched' = matched
  BY DEF Serve
<1>2. matched = {}
  <2>1. answer.kind # "route"
    BY <1>1 DEF Pending
  <2> QED
    BY <2>1 DEF IInv, AnswerInv
<1>3. IsAnswer(answer', req.method, req.path)
  BY <1>1, Ready, ReplyMeans
<1>4. /\ answer'.kind \in {"route", "redirect", "noPattern", "notFound", "methodNotAllowed"}
      /\ answer'.route \in {NoRoute} \cup DOMAIN table
  BY <1>1, <1>3, Ready, AnswersHaveTypes
<1>5. AnswerInv'
  <2>1. \A m, p : Reply(m, p)' = Reply(m, p)
    BY <1>1, SameReply
  <2>2. answer' = Reply(req.method, req.path)' /\ req' # NoRequest' /\ matched' = {}
    BY <1>1, <1>2, <2>1 DEF NoRequest
  <2> QED
    BY <2>2 DEF AnswerInv
<1>6. CallInv'
  <2>1. \A i : Mask(i)' = Mask(i)
    BY <1>1, SameTable
  <2> QED
    BY <1>1, <2>1 DEF IInv, CallInv, NoRequest
<1>7. TypeOK'
  BY <1>1, <1>2, <1>4, KeptInv DEF TypeOK, IInv, NoRequest
<1> QED
  BY <1>1, <1>5, <1>6, <1>7, KeptInv DEF IInv

\* GetMatcher's function is asked.
LEMMA MatcherStep ==
  ASSUME IInv, Matcher
  PROVE  IInv'
<1> DEFINE r == RouteByPath(PatternOf(req.path, DOMAIN bound), req.method)
<1>1. /\ answer.kind = "route" /\ matched' = {r}
      /\ table' = table /\ todo' = todo /\ bound' = bound /\ call' = call /\ values' = values
      /\ req' = req /\ answer' = answer
  BY DEF Matcher
<1>2. r \in {NoRoute} \cup DOMAIN table
  <2> DEFINE pattern == PatternOf(req.path, DOMAIN bound)
             found == {i \in DOMAIN table : /\ findUrlKeys(Mask(i)) = {}
                                            /\ Names(Mask(i)) = pattern
                                            /\ table[i].method = req.method}
  <2>1. r = IF found = {} THEN NoRoute ELSE Max(found)
    BY DEF RouteByPath
  <2>2. found # {} => Max(found) \in found
    <3>1. found \in SUBSET DOMAIN table
      OBVIOUS
    <3> HIDE DEF found
    <3> QED
      BY <3>1, FirstRoute DEF IInv, TypeOK
  <2> HIDE DEF r
  <2> QED
    BY <2>1, <2>2
<1>3. AnswerInv'
  <2>1. \A m, p : Reply(m, p)' = Reply(m, p)
    BY <1>1, SameReply
  <2>2. \A p, m : RouteByPath(p, m)' = RouteByPath(p, m)
    BY <1>1, SameTable
  <2>3. answer' # Pending' => req' # NoRequest' /\ answer' = Reply(req.method, req.path)'
    BY <1>1, <2>1 DEF IInv, AnswerInv, Pending, NoRequest
  <2> QED
    BY <1>1, <2>2, <2>3 DEF AnswerInv
<1>4. CallInv'
  <2>1. \A i : Mask(i)' = Mask(i)
    BY <1>1, SameTable
  <2> QED
    BY <1>1, <2>1 DEF IInv, CallInv, NoRequest
<1>5. TypeOK'
  <2> HIDE DEF r
  <2> QED
    BY <1>1, <1>2, KeptInv DEF TypeOK, IInv, NoRequest
<1> QED
  BY <1>1, <1>3, <1>4, <1>5, KeptInv DEF IInv

\* Nothing happens.
LEMMA StutterStep ==
  ASSUME IInv, UNCHANGED vars
  PROVE  IInv'
<1>1. /\ table' = table /\ todo' = todo /\ bound' = bound /\ call' = call /\ values' = values
      /\ req' = req /\ answer' = answer /\ matched' = matched
  BY DEF vars
<1>2. AnswerInv'
  <2>1. \A m, p : Reply(m, p)' = Reply(m, p)
    BY <1>1, SameReply
  <2>2. \A p, m : RouteByPath(p, m)' = RouteByPath(p, m)
    BY <1>1, SameTable
  <2> QED
    BY <1>1, <2>1, <2>2 DEF IInv, AnswerInv, Pending, NoRequest
<1>3. CallInv'
  <2>1. \A i : Mask(i)' = Mask(i)
    BY <1>1, SameTable
  <2> QED
    BY <1>1, <2>1 DEF IInv, CallInv, NoRequest
<1>4. TypeOK'
  BY <1>1, KeptInv DEF TypeOK, IInv, NoRequest
<1> QED
  BY <1>1, <1>2, <1>3, <1>4, KeptInv DEF IInv

----------------------------------------------------------------------------
(* Theorems *)

\* Whatever is bound, called, asked and answered, in any order, IInv holds.
THEOREM Invariance == Spec => []IInv
<1>1. Init => IInv
  BY InitInv
<1>2. IInv /\ [Next]_vars => IInv'
  BY BindStep, CallStep, ForeignStep, ServeStep, MatcherStep, StutterStep DEF Next
<1> QED
  BY <1>1, <1>2, PTL DEF Spec

\* TypeOK: what is left to bind and what is bound are the patterns of the table.
THEOREM TypeCorrect == Spec => []TypeOK
<1>1. IInv => TypeOK
  BY DEF IInv
<1> QED
  BY <1>1, Invariance, PTL

\* An answer is one of those above.
LEMMA Answered ==
  ASSUME IInv, answer # Pending
  PROVE  /\ IsAnswer(answer, req.method, req.path)
         /\ table \in Tables /\ AllBound
         /\ req.path \in NonEmpty(STRING) /\ req.path \in NonEmpty(Texts)
<1>1. req # NoRequest /\ answer = Reply(req.method, req.path)
  BY DEF IInv, AnswerInv
<1> QED
  BY <1>1, Ready, ReplyMeans

\* Which of them name a route.
LEMMA RouteAnswered ==
  ASSUME IInv, answer.kind = "route"
  PROVE  LET r == answer.route
             routes == Handlers(req.method, req.path)
         IN /\ r \in routes
            /\ \/ answer.params = <<>> /\ routes = {r} /\ findUrlKeys(Mask(r)) = {}
               \/ /\ answer.params = Params(req.path, Mask(r))
                  /\ Matches(req.path, Mask(r))
                  /\ \A j \in routes : j < r => ~Matches(req.path, Mask(j))
<1>1. answer # Pending
  BY DEF Pending
<1>2. \A k : answer = Refusal(k) => k = "route"
  BY DEF Refusal
<1>3. IsHandlersAnswer(answer, Handlers(req.method, req.path), req.path)
  BY <1>1, <1>2, Answered DEF IsAnswer
<1>4. \A r, params : answer = Found(r, params) => answer.route = r /\ answer.params = params
  BY DEF Found
<1> QED
  BY <1>2, <1>3, <1>4 DEF IsHandlersAnswer

\* newHTTPMethodHandler and the classifier answer a request by the first route of its
\* pattern and method that it fits, with the values that make the path.
THEOREM FirstFit == Spec => []DispatchIsFirstFit
<1>1. ASSUME IInv, answer.kind = "route"
      PROVE  LET r == answer.route
             IN /\ table[r].method = req.method
                /\ Alone(r) \/ /\ KeysDiffer(Mask(r)) => Fits(req.path, Mask(r), answer.params)
                               /\ \A j \in 1 .. r - 1 :
                                    SameHandler(j, r) => ~CanFit(req.path, Mask(j))
  <2> DEFINE r == answer.route
             routes == Handlers(req.method, req.path)
  <2>1. answer # Pending
    BY <1>1 DEF Pending
  <2>2. /\ table \in Tables /\ req.path \in NonEmpty(STRING)
        /\ Len(table) \in Nat /\ DOMAIN table = 1 .. Len(table)
        /\ \A i \in DOMAIN table : Mask(i) \in NonEmpty(Segments)
    BY <1>1, <2>1, Answered, RoutesOfTable
  <2>3. r \in routes
    BY <1>1, RouteAnswered
  <2>4. r \in DOMAIN table /\ table[r].method = req.method
    BY <2>3 DEF Handlers
  <2>5. \A j \in DOMAIN table : SameHandler(j, r) => j \in routes
    BY <2>3 DEF SameHandler, Handlers
  <2>6. \/ routes = {r} /\ findUrlKeys(Mask(r)) = {}
        \/ /\ answer.params = Params(req.path, Mask(r))
           /\ Matches(req.path, Mask(r))
           /\ \A j \in routes : j < r => ~Matches(req.path, Mask(j))
    BY <1>1, RouteAnswered
  <2> HIDE DEF r, routes
  <2>7. CASE routes = {r} /\ findUrlKeys(Mask(r)) = {}
    <3>1. \A j \in DOMAIN table \ {r} : ~SameHandler(r, j)
      BY <2>5, <2>7 DEF SameHandler
    <3>2. Alone(r)
      BY <2>7, <3>1 DEF Alone
    <3> QED
      BY <2>4, <3>2 DEF r
  <2>8. CASE /\ answer.params = Params(req.path, Mask(r))
             /\ Matches(req.path, Mask(r))
             /\ \A j \in routes : j < r => ~Matches(req.path, Mask(j))
    <3>1. KeysDiffer(Mask(r)) => Fits(req.path, Mask(r), answer.params)
      BY <2>2, <2>4, <2>8, MatchFits
    <3>2. ASSUME NEW j \in 1 .. r - 1, SameHandler(j, r) PROVE ~CanFit(req.path, Mask(j))
      <4>1. j \in DOMAIN table /\ j < r
        BY <2>2, <2>4
      <4>2. ~Matches(req.path, Mask(j))
        BY <2>5, <2>8, <3>2, <4>1
      <4> QED
        BY <2>2, <4>1, <4>2, CanFitMatches
    <3> QED
      BY <2>4, <3>1, <3>2 DEF r
  <2> QED
    BY <2>6, <2>7, <2>8
<1>2. IInv => DispatchIsFirstFit
  BY <1>1 DEF DispatchIsFirstFit
<1> QED
  BY <1>2, Invariance, PTL

\* What the classifier refuses fits no route of its pattern and method, and what the mux
\* does not know is no path of a call with full values.
THEOREM RightlyRefused == Spec => []RefusalIsRight
<1>1. ASSUME IInv, answer.kind = "notFound", NEW i \in DOMAIN table,
             CutPath(i) = PatternOf(req.path, DOMAIN bound), table[i].method = req.method
      PROVE  ~CanFit(req.path, Mask(i))
  <2>1. answer # Pending
    BY <1>1 DEF Pending
  <2>2. \A k : answer = Refusal(k) => k = "notFound"
    BY <1>1 DEF Refusal
  <2>3. \A r, params : answer # Found(r, params)
    BY <1>1 DEF Found
  <2>4. \A j \in Handlers(req.method, req.path) : ~Matches(req.path, Mask(j))
    BY <1>1, <2>1, <2>2, <2>3, Answered DEF IsAnswer, IsHandlersAnswer
  <2>5. i \in Handlers(req.method, req.path)
    BY <1>1 DEF Handlers
  <2>6. Mask(i) \in NonEmpty(Segments) /\ req.path \in NonEmpty(STRING)
    BY <1>1, <2>1, Answered, RoutesOfTable
  <2> QED
    BY <2>4, <2>5, <2>6, CanFitMatches
<1>2. ASSUME IInv, answer.kind = "noPattern", NEW i \in DOMAIN table,
             NEW v \in FullValues(req.path, Mask(i))
      PROVE  buildUrl(Mask(i), v) # req.path
  <2>1. answer # Pending
    BY <1>2 DEF Pending
  <2>2. \A k : answer = Refusal(k) => k = "noPattern"
    BY <1>2 DEF Refusal
  <2>3. \A r, params : answer # Found(r, params)
    BY <1>2 DEF Found
  <2>4. Candidates(req.path, DOMAIN bound) = {}
    BY <1>2, <2>1, <2>2, <2>3, Answered DEF IsAnswer, IsHandlersAnswer
  <2>5. Mask(i) \in NonEmpty(Segments) /\ req.path \in NonEmpty(STRING) /\ AllBound
    BY <1>2, <2>1, Answered, RoutesOfTable
  <2>6. OnePart(Mask(i), v)
    BY <2>5, FullValuesMean
  <2>7. CutPath(i) \in DOMAIN bound
    BY <2>5 DEF AllBound
  <2>8. buildUrl(Mask(i), v) = CutPath(i) \/ InSubtree(buildUrl(Mask(i), v), CutPath(i))
    BY <2>5, <2>6, BuiltIsCandidate DEF CutPath
  <2> QED
    BY <2>4, <2>7, <2>8 DEF Candidates
<1>3. IInv => RefusalIsRight
  BY <1>1, <1>2 DEF RefusalIsRight
<1> QED
  BY <1>3, Invariance, PTL

\* Without parameters and duplicates, the function of GetMatcher names the route whose
\* handler answered.
THEOREM MatcherRight == Spec => []MatcherAgreesWithoutParams
<1>1. ASSUME IInv, \A i \in DOMAIN table : findUrlKeys(Mask(i)) = {},
             \A i, j \in DOMAIN table : SameHandler(i, j) => i = j, matched # {}
      PROVE  matched = {answer.route}
  <2> DEFINE r == answer.route
             pattern == PatternOf(req.path, DOMAIN bound)
             found == {i \in DOMAIN table : /\ findUrlKeys(Mask(i)) = {}
                                            /\ Names(Mask(i)) = pattern
                                            /\ table[i].method = req.method}
  <2>1. answer.kind = "route" /\ matched = {RouteByPath(pattern, req.method)}
    BY <1>1 DEF IInv, AnswerInv
  <2>2. table \in Tables /\ \A i \in DOMAIN table : Mask(i) \in NonEmpty(Segments)
    BY <1>1, RoutesOfTable DEF IInv, TypeOK
  <2>3. r \in DOMAIN table /\ CutPath(r) = pattern /\ table[r].method = req.method
    BY <1>1, <2>1, RouteAnswered DEF Handlers
  <2>4. \A i \in DOMAIN table : CutPath(i) = Names(Mask(i))
    BY <1>1, <2>2, CutMeans DEF CutPath
  <2>5. RouteByPath(pattern, req.method) = IF found = {} THEN NoRoute ELSE Max(found)
    BY DEF RouteByPath
  <2> HIDE DEF r, pattern
  <2>6. r \in found
    BY <1>1, <2>3, <2>4
  <2>7. \A i \in found : i = r
    BY <1>1, <2>3, <2>4 DEF SameHandler
  <2>8. found \in SUBSET DOMAIN table
    OBVIOUS
  <2> HIDE DEF found
  <2>9. Max(found) \in found
    BY <2>2, <2>6, <2>8, FirstRoute
  <2> QED
    BY <2>1, <2>5, <2>6, <2>7, <2>9 DEF r
<1>2. IInv => MatcherAgreesWithoutParams
  BY <1>1 DEF MatcherAgreesWithoutParams
<1> QED
  BY <1>2, Invariance, PTL

----------------------------------------------------------------------------
(* The round trip of a call *)

\* A call without parameters has the empty function of values.
LEMMA EmptyFunction ==
  ASSUME NEW S, NEW f \in [{} -> S]
  PROVE  f = <<>>
<1>1. 1 .. 0 = {}
  OBVIOUS
<1>2. f \in [1 .. 0 -> S]
  BY <1>1
<1>3. f \in Seq(S) /\ Len(f) = 0
  BY <1>2, OfLength
<1> QED
  BY <1>3, EmptySeq

\* The values of a call each stay one part, no mux redirects its path, and no route rivals it.
Undisturbed ==
  /\ IsClean(Names(Mask(call)))
  /\ \A k \in DOMAIN values : IsPlain(values[k])
  /\ \A j \in DOMAIN table \ {call} : ~Rival(j)

\* Values that are plain have one part, and not an empty one.
LEMMA PlainValues ==
  ASSUME IInv, call # NoRoute, Undisturbed
  PROVE  /\ OnePart(Mask(call), values) /\ NoneEmpty(Mask(call), values)
         /\ \A k \in findUrlKeys(Mask(call)) : values[k][1] \notin {".", ".."}
<1>1. values \in [findUrlKeys(Mask(call)) -> Values]
  BY DEF IInv, CallInv
<1>2. ASSUME NEW k \in findUrlKeys(Mask(call))
      PROVE  values[k] \in Seq(STRING) /\ Len(values[k]) = 1 /\ values[k][1] \notin {"", ".", ".."}
  <2>1. values[k] \in Seq(STRING)
    BY <1>1, PathsAssumption DEF NonEmpty
  <2>2. Len(values[k]) = 1 /\ values[k][1] \notin {"", ".", ".."}
    BY <1>1 DEF Undisturbed, IsPlain
  <2> QED
    BY <2>1, <2>2
<1> QED
  BY <1>2 DEF OnePart, NoneEmpty

\* The path of a call is its mask with those values.
LEMMA PathOfCall ==
  ASSUME IInv, call # NoRoute, Undisturbed
  PROVE  /\ call \in DOMAIN table /\ Mask(call) \in NonEmpty(Segments)
         /\ req # NoRequest /\ req.method = table[call].method
         /\ req.path = buildUrl(Mask(call), values)
         /\ Len(req.path) = Len(Mask(call)) /\ Len(req.path) \in Nat
         /\ IsClean(req.path)
<1> DEFINE mask == Mask(call)
           b == req.path
<1>1. /\ call \in DOMAIN table /\ mask \in NonEmpty(Segments)
      /\ req # NoRequest /\ req.method = table[call].method
      /\ b = buildUrl(mask, values)
  BY RoutesOfTable DEF IInv, TypeOK, CallInv
<1>2. /\ b \in NonEmpty(STRING) /\ Len(b) = Len(mask)
      /\ \A i \in 1 .. Len(mask) : b[i] = IF mask[i].param THEN values[mask[i].name][1] ELSE mask[i].name
      /\ FullParts(b) = FullSegments(mask)
  BY <1>1, PlainValues, FullBuilt
<1>3. Len(b) \in Nat /\ DOMAIN b = 1 .. Len(b) /\ DOMAIN mask = 1 .. Len(mask)
  BY <1>1, <1>2, MaskFacts, LenProperties DEF NonEmpty
<1>4. ASSUME NEW i \in 1 .. Len(mask)
      PROVE  b[i] \notin {".", ".."} /\ (b[i] = "" => i = Len(b))
  <2>1. CASE mask[i].param
    <3>1. mask[i].name \in findUrlKeys(mask)
      BY <1>3, <2>1 DEF findUrlKeys
    <3>2. b[i] = values[mask[i].name][1]
      BY <1>2, <2>1
    <3>3. i \in FullParts(b)
      BY <1>2, <2>1 DEF FullSegments
    <3> HIDE DEF b
    <3>4. b[i] # ""
      BY <3>3 DEF FullParts
    <3>5. values[mask[i].name][1] \notin {".", ".."}
      BY <3>1, PlainValues
    <3> QED
      BY <3>2, <3>4, <3>5
  <2>2. CASE ~mask[i].param
    <3>1. b[i] = mask[i].name
      BY <1>2, <2>2
    <3>2. Len(Names(mask)) = Len(mask) /\ DOMAIN Names(mask) = 1 .. Len(mask) /\ Names(mask)[i] = mask[i].name
      <4>1. Names(mask) = [j \in 1 .. Len(mask) |-> mask[j].name]
        BY <1>3 DEF Names
      <4>2. Names(mask) \in [1 .. Len(mask) -> STRING]
        BY <1>1, <4>1, MaskFacts
      <4>3. Len(Names(mask)) = Len(mask)
        BY <1>2, <1>3, <4>2, OfLength
      <4> QED
        BY <4>1, <4>3
    <3>3. mask[i].name \notin {".", ".."} /\ (mask[i].name = "" => i = Len(mask))
      <4>1. IsClean(Names(mask))
        BY DEF Undisturbed
      <4> HIDE DEF mask
      <4> QED
        BY <3>2, <4>1 DEF IsClean
    <3> QED
      BY <1>2, <3>1, <3>3
  <2> QED
    BY <2>1, <2>2
<1> HIDE DEF b, mask
<1>5. IsClean(b)
  BY <1>2, <1>3, <1>4 DEF IsClean
<1> QED
  BY <1>1, <1>2, <1>3, <1>5 DEF b, mask

\* The mux gives it to the pattern of its route, at once.
LEMMA PatternOfCall ==
  ASSUME IInv, call # NoRoute, Undisturbed
  PROVE  /\ ~NeedsSlash(req.path, DOMAIN bound)
         /\ Candidates(req.path, DOMAIN bound) # {}
         /\ PatternOf(req.path, DOMAIN bound) = CutPath(call)
<1> DEFINE b == req.path
           cut == CutPath(call)
           p == PatternOf(b, DOMAIN bound)
<1>1. /\ call \in DOMAIN table /\ Mask(call) \in NonEmpty(Segments)
      /\ b = buildUrl(Mask(call), values) /\ Len(b) = Len(Mask(call)) /\ Len(b) \in Nat
      /\ req # NoRequest
  BY PathOfCall
<1>2. /\ AllBound /\ b \in NonEmpty(Texts) /\ DOMAIN bound \in SUBSET NonEmpty(Texts)
      /\ \A q \in NonEmpty(Texts) : Len(q) \in Nat
  BY <1>1, Ready, PatternsArePaths, LenProperties DEF NonEmpty
<1>3. \A q \in DOMAIN bound : q = cut \/ \E j \in DOMAIN table : q = CutPath(j) /\ ~Rival(j)
  BY <1>2 DEF AllBound, Undisturbed
<1>4. /\ cut \in DOMAIN bound /\ cut \in NonEmpty(Texts) /\ Len(cut) <= Len(b)
      /\ b = cut \/ InSubtree(b, cut)
  <2>1. cut \in DOMAIN bound
    BY <1>1, <1>2 DEF AllBound
  <2>2. Len(cut) <= Len(b)
    BY <1>1, CutMeans DEF CutPath
  <2>3. b = cut \/ InSubtree(b, cut)
    BY <1>1, PlainValues, BuiltIsCandidate DEF CutPath
  <2> QED
    BY <1>2, <2>1, <2>2, <2>3
<1>5. ASSUME NEW q \in DOMAIN bound, q # cut
      PROVE  /\ q \notin {b, Append(b, "")}
             /\ ~(Len(q) > Len(cut) /\ InSubtree(b, q))
  BY <1>3, <1>5 DEF Rival
<1> HIDE DEF b, cut, p
<1>6. Append(b, "") # cut
  <2> DEFINE slash == ""
  <2>1. slash \in Texts
    BY DEF Texts
  <2> HIDE DEF slash
  <2>2. Len(Append(b, slash)) = Len(b) + 1
    <3>1. b \in Seq(Texts)
      BY <1>2 DEF NonEmpty
    <3> QED
      BY <2>1, <3>1, AppendProperties
  <2>3. Len(cut) \in Nat /\ Len(b) \in Nat
    BY <1>2, <1>4
  <2>4. Append(b, slash) # cut
    BY <1>4, <2>2, <2>3
  <2> QED
    BY <2>4 DEF slash
<1>7. ~NeedsSlash(b, DOMAIN bound)
  BY <1>5, <1>6 DEF NeedsSlash
<1>8. cut \in Candidates(b, DOMAIN bound)
  BY <1>4 DEF Candidates
<1>9. /\ p \in Candidates(b, DOMAIN bound)
      /\ b \in DOMAIN bound => p = b
      /\ b \notin DOMAIN bound => Len(cut) <= Len(p)
  BY <1>2, <1>8, Longest DEF p
<1>10. p = cut
  <2>1. CASE b \in DOMAIN bound
    BY <1>5, <1>9, <2>1
  <2>2. CASE b \notin DOMAIN bound
    <3> SUFFICES ASSUME p # cut PROVE FALSE
      OBVIOUS
    <3>1. p \in DOMAIN bound /\ InSubtree(b, p) /\ InSubtree(b, cut)
      BY <1>4, <1>9, <2>2 DEF Candidates
    <3>2. p \in NonEmpty(Texts) /\ Len(p) \in Nat /\ Len(cut) \in Nat
      BY <1>2, <1>4, <3>1
    <3>3. ~(Len(p) > Len(cut))
      BY <1>5, <3>1
    <3>4. Len(p) = Len(cut)
      BY <1>9, <2>2, <3>2, <3>3
    <3> QED
      BY <1>2, <1>4, <3>1, <3>2, <3>4, SubtreesDiffer
  <2> QED
    BY <2>1, <2>2
<1> QED
  BY <1>7, <1>8, <1>10 DEF b, cut, p

\* What Call asks for, encoded by buildUrl, is answered by the handler of its own route
\* with its own values, if they stay one part each and no route is a rival.
THEOREM CallsArrive == Spec => []RoundTrip
<1>1. ASSUME IInv, call # NoRoute, answer # Pending, Undisturbed
      PROVE  answer = Found(call, values)
  <2> DEFINE b == req.path
             routes == Handlers(req.method, req.path)
  <2>1. /\ call \in DOMAIN table /\ Mask(call) \in NonEmpty(Segments)
        /\ req.method = table[call].method /\ b = buildUrl(Mask(call), values) /\ IsClean(b)
    BY <1>1, PathOfCall
  <2>2. /\ ~NeedsSlash(b, DOMAIN bound) /\ Candidates(b, DOMAIN bound) # {}
        /\ PatternOf(b, DOMAIN bound) = CutPath(call)
    BY <1>1, PatternOfCall
  <2>3. /\ IsAnswer(answer, req.method, b)
        /\ b \in NonEmpty(STRING) /\ DOMAIN table \subseteq Nat
        /\ \A j \in DOMAIN table : Mask(j) \in NonEmpty(Segments)
    BY <1>1, Answered, RoutesOfTable
  <2>4. values \in [findUrlKeys(Mask(call)) -> Values]
    BY <1>1 DEF IInv, CallInv
  <2>5. Matches(b, Mask(call)) /\ Params(b, Mask(call)) = values
    <3>1. values = [k \in findUrlKeys(Mask(call)) |-> values[k]]
      BY <2>4
    <3> QED
      BY <1>1, <2>1, <3>1, PlainValues, CallMatches
  <2> HIDE DEF b
  <2>6. call \in routes /\ \A j \in routes : j \in DOMAIN table /\ SameHandler(j, call)
    BY <2>1, <2>2 DEF Handlers, SameHandler, b
  <2> HIDE DEF routes
  <2>7. ASSUME NEW j \in routes, j < call PROVE ~Matches(b, Mask(j))
    <3>1. j \in DOMAIN table \ {call}
      BY <2>1, <2>3, <2>6, <2>7
    <3>2. ~(KeysDiffer(Mask(j)) => CanFit(b, Mask(j)))
      BY <1>1, <2>6, <2>7, <3>1 DEF Undisturbed, Rival, b
    <3> QED
      BY <2>1, <2>3, <3>1, <3>2, MatchCanFit
  <2>8. IsHandlersAnswer(answer, routes, b)
    BY <2>1, <2>2, <2>3 DEF IsAnswer, routes, b
  <2>9. routes # {} /\ ~(\A i \in routes : ~Matches(b, Mask(i)))
    BY <2>5, <2>6
  <2>10. CASE \E r \in routes : answer = Found(r, <<>>) /\ routes = {r} /\ findUrlKeys(Mask(r)) = {}
    <3>1. answer = Found(call, <<>>) /\ findUrlKeys(Mask(call)) = {}
      BY <2>6, <2>10
    <3>2. values = <<>>
      BY <2>4, <3>1, EmptyFunction
    <3> QED
      BY <3>1, <3>2
  <2>11. CASE \E r \in routes : /\ answer = Found(r, Params(b, Mask(r)))
                                /\ Matches(b, Mask(r))
                                /\ \A j \in routes : j < r => ~Matches(b, Mask(j))
    <3>1. PICK r \in routes : /\ answer = Found(r, Params(b, Mask(r)))
                              /\ Matches(b, Mask(r))
                              /\ \A j \in routes : j < r => ~Matches(b, Mask(j))
      BY <2>11
    <3>2. ~(r < call) /\ ~(call < r)
      BY <2>5, <2>6, <2>7, <3>1
    <3>3. r \in Nat /\ call \in Nat
      BY <2>1, <2>3, <2>6
    <3>4. r = call
      BY <3>2, <3>3
    <3> QED
      BY <2>5, <3>1, <3>4
  <2> QED
    BY <2>8, <2>9, <2>10, <2>11 DEF IsHandlersAnswer
<1>2. IInv => RoundTrip
  BY <1>1 DEF RoundTrip, Undisturbed, Found
<1> QED
  BY <1>2, Invariance, PTL
==============================================================================
