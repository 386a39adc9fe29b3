---------------------------- MODULE OsdDataProofs ----------------------------
(***************************************************************************)
(* Theorems about the contents of data files: they are typed and bounded,     *)
(* and the handlers with their loops over pieces implement ByteStore.         *)
(***************************************************************************)
EXTENDS OsdData, OsdFaultFreeProofs, Iteration, SequenceTheorems

(* Behind the first a of b bytes.                                             *)
LEMMA Within ==
    ASSUME NEW a \in Nat, NEW b \in Nat, NEW l \in Nat, NEW i \in 1 .. l, a + l <= b
    PROVE  a + i \in 1 .. b /\ a + i > a /\ a + i - a = i
OBVIOUS

-----------------------------------------------------------------------------
(* Pieces of a transfer                                                       *)

Pairs == Seq([off : Nat, len : Nat])

\* How many bytes of the buffer the pieces before piece k, and it, take.
IsEnds(pairs, e) ==
    /\ e \in [0 .. Len(pairs) -> Nat]
    /\ e[0] = 0
    /\ \A k \in 1 .. Len(pairs) : e[k] = e[k - 1] + pairs[k].len

Ends(pairs) == CHOOSE e : IsEnds(pairs, e)

LEMMA PairTypes ==
    ASSUME NEW pairs \in Pairs
    PROVE  /\ Len(pairs) \in Nat
           /\ \A k \in 1 .. Len(pairs) : pairs[k].off \in Nat /\ pairs[k].len \in Nat
<1>1. Len(pairs) \in Nat /\ \A k \in 1 .. Len(pairs) : pairs[k] \in [off : Nat, len : Nat]
  BY ElementOfSeq, LenProperties DEF Pairs
<1> QED
  BY <1>1

LEMMA EndsDefined == ASSUME NEW pairs \in Pairs PROVE IsEnds(pairs, Ends(pairs))
<1> DEFINE n == Len(pairs)
           step == [x \in Nat \X (1 .. n) |-> x[1] + pairs[x[2]].len]
<1>1. n \in Nat /\ \A k \in 1 .. n : pairs[k].len \in Nat
  BY PairTypes
<1>2. step \in [Nat \X (1 .. n) -> Nat]
  <2>1. ASSUME NEW x \in Nat \X (1 .. n) PROVE x[1] + pairs[x[2]].len \in Nat
    <3>1. x[1] \in Nat /\ x[2] \in 1 .. n
      OBVIOUS
    <3> QED
      BY <1>1, <3>1
  <2> QED
    BY <2>1
<1> HIDE DEF step
<1> HIDE DEF n
<1>3. PICK e \in [0 .. n -> Nat] : Iterates(e, n, 0, step)
  BY <1>1, <1>2, IterationExists
<1>4. ASSUME NEW k \in 1 .. n PROVE e[k] = e[k - 1] + pairs[k].len
  <2>1. e[k - 1] \in Nat /\ e[k] = step[<<e[k - 1], k>>]
    BY <1>1, <1>3 DEF Iterates
  <2>2. step[<<e[k - 1], k>>] = e[k - 1] + pairs[k].len
    BY <2>1 DEF step
  <2> QED
    BY <2>1, <2>2
<1>5. IsEnds(pairs, e)
  BY <1>3, <1>4 DEF IsEnds, n, Iterates
<1> QED
  BY <1>5 DEF Ends

(* Pieces come one after the other.                                           *)
LEMMA EndsGrow ==
    ASSUME NEW pairs \in Pairs, NEW j \in 0 .. Len(pairs), NEW k \in 0 .. Len(pairs), j <= k
    PROVE  Ends(pairs)[j] <= Ends(pairs)[k]
<1> DEFINE n == Len(pairs)
           e == Ends(pairs)
           S == {i \in 0 .. n : i >= j => e[j] <= e[i]}
<1>1. n \in Nat /\ \A i \in 1 .. n : pairs[i].len \in Nat
  BY PairTypes
<1>2. e \in [0 .. n -> Nat] /\ \A i \in 1 .. n : e[i] = e[i - 1] + pairs[i].len
  BY EndsDefined DEF IsEnds
<1> HIDE DEF e
<1>3. 0 \in S
  BY <1>1, <1>2
<1>4. ASSUME NEW i \in 1 .. n, i - 1 \in S PROVE i \in S
  <2>0. i \in 0 .. n /\ i - 1 \in 0 .. n /\ j \in 0 .. n
    BY <1>1
  <2>1. e[i - 1] \in Nat /\ e[i] \in Nat /\ e[j] \in Nat
    BY <1>2, <2>0
  <2>4. e[i - 1] <= e[i]
    BY <1>1, <1>2, <2>1, SMTT(30)
  <2>2. CASE i > j
    BY <1>4, <2>1, <2>2, <2>4
  <2>3. CASE i = j
    BY <2>1, <2>3
  <2> QED
    BY <2>2, <2>3
<1> HIDE DEF S
<1>5. k \in S
  BY <1>1, <1>3, <1>4, BoundedInduction
<1> QED
  BY <1>5 DEF S, e

(* Every byte belongs to a piece.                                             *)
LEMMA PieceOf ==
    ASSUME NEW pairs \in Pairs, NEW m \in 1 .. Ends(pairs)[Len(pairs)]
    PROVE  \E k \in 1 .. Len(pairs) : m \in Ends(pairs)[k - 1] + 1 .. Ends(pairs)[k]
<1> DEFINE n == Len(pairs)
           e == Ends(pairs)
           S == {i \in 0 .. n : m <= e[i] => \E k \in 1 .. n : m \in e[k - 1] + 1 .. e[k]}
<1>1. n \in Nat /\ e \in [0 .. n -> Nat] /\ e[0] = 0
  BY PairTypes, EndsDefined DEF IsEnds
<1> HIDE DEF e
<1>2. 0 \in S
  BY <1>1
<1>3. ASSUME NEW i \in 1 .. n, i - 1 \in S PROVE i \in S
  <2>1. e[i - 1] \in Nat /\ e[i] \in Nat
    BY <1>1
  <2>2. CASE m <= e[i - 1]
    BY <1>3, <2>2
  <2>3. CASE m > e[i - 1]
    BY <2>1, <2>3
  <2> QED
    BY <1>1, <2>1, <2>2, <2>3 DEF e
<1> HIDE DEF S
<1>4. 0 .. n \subseteq S
  BY <1>1, <1>2, <1>3, BoundedInduction
<1> QED
  BY <1>1, <1>4 DEF S, e


(* A piece of the buffer.                                                     *)
LEMMA PieceIs ==
    ASSUME NEW pairs \in Pairs, NEW buf, NEW k \in 1 .. Len(pairs)
    PROVE  piece(pairs, buf, k) = SubSeq(buf, Ends(pairs)[k - 1] + 1, Ends(pairs)[k])
<1> DEFINE n == Len(pairs)
           e == Ends(pairs)
           g == [j \in 1 .. n |-> e[j - 1]]
<1>1. n \in Nat /\ e \in [0 .. n -> Nat] /\ e[0] = 0
  BY PairTypes, EndsDefined DEF IsEnds
<1>2. \A j \in 1 .. n : e[j] = e[j - 1] + pairs[j].len
  BY EndsDefined DEF IsEnds
<1> HIDE DEF e
<1>3. g = [j \in 1 .. n |-> IF j = 1 THEN 0 ELSE g[j - 1] + pairs[j - 1].len]
  <2>1. ASSUME NEW j \in 1 .. n PROVE e[j - 1] = IF j = 1 THEN 0 ELSE g[j - 1] + pairs[j - 1].len
    <3>1. CASE j = 1
      BY <1>1, <3>1
    <3>2. CASE j # 1
      <4>1. j - 1 \in 1 .. n
        BY <1>1, <3>2
      <4>2. g[j - 1] = e[(j - 1) - 1]
        BY <4>1
      <4> QED
        BY <1>2, <3>2, <4>1, <4>2
    <3> QED
      BY <3>1, <3>2
  <2> QED
    BY <2>1
<1> HIDE DEF g
<1>4. PICK h : /\ h = [j \in 1 .. n |-> IF j = 1 THEN 0 ELSE h[j - 1] + pairs[j - 1].len]
               /\ piece(pairs, buf, k) = SubSeq(buf, h[k] + 1, h[k] + pairs[k].len)
  BY <1>3, Zenon DEF piece
<1> DEFINE f == [j \in 0 .. n |-> IF j < n THEN h[j + 1] ELSE e[n]]
<1>5. f[0] = e[0]
  BY <1>1, <1>4
<1>6. ASSUME NEW j \in 1 .. n, f[j - 1] = e[j - 1] PROVE f[j] = e[j]
  <2>1. CASE j = n
    BY <1>1, <2>1
  <2>2. CASE j # n
    <3>1. j + 1 \in 1 .. n /\ j + 1 # 1 /\ (j + 1) - 1 = j
      BY <1>1, <2>2
    <3>2. h[j + 1] = h[j] + pairs[j].len
      BY <1>4, <3>1
    <3>3. f[j] = h[j + 1] /\ f[j - 1] = h[j]
      BY <1>1, <2>2
    <3> QED
      BY <1>2, <1>6, <3>2, <3>3
  <2> QED
    BY <2>1, <2>2
<1>7. k - 1 \in 0 .. n /\ k - 1 < n /\ (k - 1) + 1 = k
  BY <1>1
<1>8. f[k - 1] = h[k]
  BY <1>7
<1> HIDE DEF f, n
<1>9. SameSteps(f, e, n)
  BY <1>5, <1>6 DEF SameSteps
<1>10. f[k - 1] = e[k - 1]
  BY <1>1, <1>7, <1>9, IterationUnique
<1> QED
  BY <1>2, <1>4, <1>8, <1>10 DEF e, n


(* Where the bytes of a transfer go, or come from.                            *)
LEMMA PositionsAre ==
    ASSUME NEW pairs \in Pairs, NEW base \in Nat
    PROVE  /\ positions(base, pairs) \in Seq(Nat)
           /\ Len(positions(base, pairs)) = Ends(pairs)[Len(pairs)]
           /\ \A k \in 1 .. Len(pairs) : \A i \in 1 .. pairs[k].len :
                positions(base, pairs)[Ends(pairs)[k - 1] + i] = base + pairs[k].off + i - 1
<1> DEFINE n == Len(pairs)
           e == Ends(pairs)
           run(k) == [i \in 1 .. pairs[k].len |-> base + pairs[k].off + i - 1]
           step == [x \in Seq(Nat) \X (1 .. n) |-> x[1] \o run(x[2])]
<1>1. n \in Nat /\ \A k \in 1 .. n : pairs[k].off \in Nat /\ pairs[k].len \in Nat
  BY PairTypes
<1>2. e \in [0 .. n -> Nat] /\ e[0] = 0
  BY EndsDefined DEF IsEnds
<1>3. \A k \in 1 .. n : e[k] = e[k - 1] + pairs[k].len
  BY EndsDefined DEF IsEnds
<1>4. ASSUME NEW k \in 1 .. n
      PROVE  /\ run(k) \in Seq(Nat) /\ Len(run(k)) = pairs[k].len
             /\ \A i \in 1 .. pairs[k].len : run(k)[i] = base + pairs[k].off + i - 1
  <2>1. pairs[k].off \in Nat /\ pairs[k].len \in Nat
    BY <1>1
  <2>2. \A i \in 1 .. pairs[k].len : base + pairs[k].off + i - 1 \in Nat
    BY <2>1
  <2>3. run(k) \in [1 .. pairs[k].len -> Nat]
    BY <2>2
  <2>4. \A i \in 1 .. pairs[k].len : run(k)[i] = base + pairs[k].off + i - 1
    OBVIOUS
  <2>5. ASSUME NEW l \in Nat, NEW r \in [1 .. l -> Nat] PROVE r \in Seq(Nat) /\ Len(r) = l
    OBVIOUS
  <2> HIDE DEF run
  <2> QED
    BY <2>1, <2>3, <2>4, <2>5
<1> HIDE DEF e, run, n
<1>5. step \in [Seq(Nat) \X (1 .. n) -> Seq(Nat)]
  <2>1. ASSUME NEW x \in Seq(Nat) \X (1 .. n) PROVE x[1] \o run(x[2]) \in Seq(Nat)
    <3>1. x[1] \in Seq(Nat) /\ x[2] \in 1 .. n
      OBVIOUS
    <3> QED
      BY <1>4, <3>1, ConcatProperties
  <2> QED
    BY <2>1
<1>6. \A x \in Seq(Nat), k \in 1 .. n : step[<<x, k>>] = x \o run(k)
  OBVIOUS
<1> HIDE DEF step
<1>7. PICK g \in [0 .. n -> Seq(Nat)] : Iterates(g, n, <<>>, step)
  <2>1. <<>> \in Seq(Nat)
    OBVIOUS
  <2> QED
    BY <1>1, <1>5, <2>1, IterationExists
<1>8. g[0] = <<>> /\ \A k \in 1 .. n : g[k] = g[k - 1] \o run(k)
  <2>1. ASSUME NEW k \in 1 .. n PROVE g[k - 1] \in Seq(Nat) /\ g[k] = step[<<g[k - 1], k>>]
    BY <1>1, <1>7 DEF Iterates
  <2> QED
    BY <1>6, <1>7, <2>1 DEF Iterates
<1>9. g = [k \in 0 .. n |-> IF k = 0 THEN <<>> ELSE g[k - 1] \o run(k)]
  <2>1. ASSUME NEW k \in 0 .. n PROVE g[k] = IF k = 0 THEN <<>> ELSE g[k - 1] \o run(k)
    <3>1. CASE k = 0
      BY <1>8, <3>1
    <3>2. CASE k # 0
      <4>1. k \in 1 .. n
        BY <1>1, <3>2
      <4> QED
        BY <1>8, <3>2, <4>1
    <3> QED
      BY <3>1, <3>2
  <2> QED
    BY <1>7, <2>1, Zenon
<1>10. PICK h : /\ h = [k \in 0 .. n |-> IF k = 0 THEN <<>> ELSE h[k - 1] \o run(k)]
                /\ positions(base, pairs) = h[n]
  BY <1>9, Zenon DEF positions, n, run
<1>11. \A k \in 0 .. n : h[k] = g[k]
  <2>1. h[0] = g[0]
    BY <1>1, <1>8, <1>10
  <2>2. ASSUME NEW k \in 1 .. n, h[k - 1] = g[k - 1] PROVE h[k] = g[k]
    <3>1. k \in 0 .. n /\ k # 0
      BY <1>1
    <3>2. h[k] = h[k - 1] \o run(k)
      BY <1>10, <3>1, Zenon
    <3> QED
      BY <1>8, <2>2, <3>2
  <2>3. SameSteps(h, g, n)
    BY <2>1, <2>2 DEF SameSteps
  <2> QED
    BY <1>1, <2>3, IterationUnique
<1> DEFINE At(k) == /\ Len(g[k]) = e[k]
                    /\ \A j \in 1 .. k : \A i \in 1 .. pairs[j].len :
                         g[k][e[j - 1] + i] = base + pairs[j].off + i - 1
           S == {k \in 0 .. n : At(k)}
<1>12. 0 \in S
  BY <1>1, <1>2, <1>8
<1>13. ASSUME NEW k \in 1 .. n, k - 1 \in S PROVE k \in S
  <2>1. g[k - 1] \in Seq(Nat) /\ Len(g[k - 1]) = e[k - 1] /\ e[k - 1] \in Nat
    BY <1>1, <1>2, <1>7, <1>13
  <2>2. g[k] = g[k - 1] \o run(k) /\ run(k) \in Seq(Nat) /\ Len(run(k)) = pairs[k].len
    BY <1>4, <1>8
  <2>3. Len(g[k]) = e[k]
    BY <1>3, <2>1, <2>2, ConcatProperties
  <2>4. \A i \in 1 .. e[k - 1] : g[k][i] = g[k - 1][i]
    BY <2>1, <2>2, ConcatProperties
  <2>5. \A i \in 1 .. pairs[k].len : g[k][e[k - 1] + i] = run(k)[i]
    <3>1. pairs[k].len \in Nat
      BY <1>1
    <3>2. ASSUME NEW i \in 1 .. pairs[k].len PROVE g[k][e[k - 1] + i] = run(k)[i]
      <4> DEFINE a == e[k - 1]
                 l == pairs[k].len
                 s == g[k - 1]
                 t == run(k)
      <4>1. a \in Nat /\ l \in Nat /\ i \in 1 .. l /\ Len(s) = a /\ Len(t) = l /\ s \in Seq(Nat) /\ t \in Seq(Nat)
        BY <2>1, <2>2, <3>1
      <4> HIDE DEF a, l, s, t
      <4>2. a + i \in 1 .. Len(s) + Len(t) /\ ~(a + i <= Len(s)) /\ a + i - Len(s) = i
        BY <4>1
      <4>3. (s \o t)[a + i] = t[a + i - Len(s)]
        BY <4>1, <4>2, ConcatProperties
      <4>4. (s \o t)[a + i] = t[i]
        BY <4>2, <4>3
      <4> QED
        BY <2>2, <4>4 DEF a, s, t
    <3> QED
      BY <3>2
  <2>6. ASSUME NEW j \in 1 .. k, NEW i \in 1 .. pairs[j].len
        PROVE  g[k][e[j - 1] + i] = base + pairs[j].off + i - 1
    <3>1. CASE j = k
      BY <1>4, <2>5, <2>6, <3>1
    <3>2. CASE j # k
      <4>1. j \in 1 .. k - 1 /\ j \in 1 .. n /\ j - 1 \in 0 .. n /\ j \in 0 .. n /\ k - 1 \in 0 .. n /\ j <= k - 1
        BY <1>1, <3>2
      <4>2. e[j] <= e[k - 1]
        BY <4>1, EndsGrow DEF e, n
      <4>3. e[j] = e[j - 1] + pairs[j].len /\ e[j - 1] \in Nat /\ pairs[j].len \in Nat
        BY <1>1, <1>2, <1>3, <4>1
      <4>4. e[j - 1] + i \in 1 .. e[k - 1]
        <5>1. e[j - 1] + pairs[j].len <= e[k - 1]
          BY <4>2, <4>3
        <5> QED
          BY <2>1, <4>3, <5>1, Within
      <4> QED
        BY <1>13, <2>4, <4>1, <4>4
    <3> QED
      BY <3>1, <3>2
  <2> QED
    BY <2>3, <2>6
<1> HIDE DEF S
<1>14. 0 .. n \subseteq S
  BY <1>1, <1>12, <1>13, BoundedInduction
<1>15. n \in 0 .. n
  BY <1>1
<1>16. g[n] \in Seq(Nat) /\ positions(base, pairs) = g[n]
  BY <1>7, <1>10, <1>11, <1>15
<1>17. At(n)
  BY <1>14, <1>15 DEF S
<1> QED
  BY <1>16, <1>17 DEF n, e


-----------------------------------------------------------------------------
(* Files and writes                                                           *)

Bytes    == Byte \cup {Zero}
Contents == {s \in Seq(Bytes) : Len(s) <= MaxLen}

\* What a read at position i, counted from 0, finds.
ByteAt(s, i) == IF i < Len(s) THEN s[i + 1] ELSE Zero

LEMMA ContentsLen ==
    ASSUME NEW s \in Contents
    PROVE  s \in Seq(Bytes) /\ Len(s) \in Nat /\ Len(s) <= MaxLen /\ MaxLen \in Nat
BY DataAssumption DEF Contents

LEMMA PwrittenBounds ==
    ASSUME NEW off \in Nat, NEW p \in Seq(Bytes)
    PROVE  /\ pwritten(off, p) \in 0 .. Len(p)
           /\ pwritten(off, p) # 0 => off + pwritten(off, p) <= MaxLen
<1>1. Len(p) \in Nat /\ MaxLen \in Nat
  BY DataAssumption
<1> QED
  BY <1>1 DEF pwritten, Least

(* A function on an interval from 1 on is a sequence.                         *)
LEMMA IntervalSeq ==
    ASSUME NEW S, NEW n \in Nat, NEW f \in [1 .. n -> S]
    PROVE  f \in Seq(S) /\ Len(f) = n
OBVIOUS

(* pwrite puts the bytes that fit in their places and leaves all others.      *)
LEMMA PwriteBytes ==
    ASSUME NEW s \in Contents, NEW off \in Nat, NEW p \in Seq(Bytes)
    PROVE  /\ pwrite(s, off, p) \in Contents
           /\ Len(pwrite(s, off, p)) = IF pwritten(off, p) = 0 THEN Len(s)
                                       ELSE Greatest(Len(s), off + pwritten(off, p))
           /\ \A i \in Nat : ByteAt(pwrite(s, off, p), i) =
                IF i \in off .. off + pwritten(off, p) - 1 THEN p[i - off + 1] ELSE ByteAt(s, i)
<1> DEFINE n == pwritten(off, p)
           t == pwrite(s, off, p)
<1>1. s \in Seq(Bytes) /\ Len(s) \in Nat /\ Len(s) <= MaxLen /\ MaxLen \in Nat
  BY ContentsLen
<1>2. n \in 0 .. Len(p) /\ (n # 0 => off + n <= MaxLen) /\ Len(p) \in Nat
  BY PwrittenBounds
<1> HIDE DEF n
<1>3. CASE n = 0
  <2>1. t = s
    BY <1>3 DEF pwrite, n
  <2>2. \A i \in Nat : ~(i \in off .. off + n - 1)
    BY <1>3
  <2> QED
    BY <1>3, <2>1, <2>2 DEF n
<1>4. CASE n # 0
  <2> DEFINE len == Greatest(Len(s), off + n)
             v(i) == IF i \in off + 1 .. off + n THEN p[i - off]
                     ELSE IF i <= Len(s) THEN s[i] ELSE Zero
  <2>1. t = [i \in 1 .. len |-> v(i)]
    BY <1>4 DEF pwrite, n
  <2>2. len \in Nat /\ len <= MaxLen /\ len >= Len(s) /\ len >= off + n
    BY <1>1, <1>2, <1>4 DEF Greatest
  <2>3. ASSUME NEW i \in 1 .. len PROVE v(i) \in Bytes
    <3>1. CASE i \in off + 1 .. off + n
      <4>1. i - off \in 1 .. Len(p)
        BY <1>2, <3>1
      <4> QED
        BY <3>1, <4>1, ElementOfSeq
    <3>2. CASE ~(i \in off + 1 .. off + n) /\ i <= Len(s)
      <4>1. i \in 1 .. Len(s)
        BY <1>1, <2>2, <3>2
      <4> QED
        BY <1>1, <3>2, <4>1, ElementOfSeq
    <3>3. CASE ~(i \in off + 1 .. off + n) /\ ~(i <= Len(s))
      BY <3>3 DEF Bytes
    <3> QED
      BY <3>1, <3>2, <3>3
  <2> HIDE DEF v, len
  <2>4. t \in Seq(Bytes) /\ Len(t) = len
    <3>1. t \in [1 .. len -> Bytes]
      BY <2>1, <2>3
    <3> QED
      BY <2>2, <3>1, IntervalSeq
  <2>5. t \in Contents
    BY <2>2, <2>4 DEF Contents
  <2>6. ASSUME NEW i \in Nat
        PROVE  ByteAt(t, i) = IF i \in off .. off + n - 1 THEN p[i - off + 1] ELSE ByteAt(s, i)
    <3>1. CASE i < len
      <4>1. i + 1 \in 1 .. len
        BY <2>2, <3>1
      <4>2. ByteAt(t, i) = v(i + 1)
        BY <2>1, <2>4, <3>1, <4>1 DEF ByteAt
      <4>3. CASE i \in off .. off + n - 1
        <5>1. i + 1 \in off + 1 .. off + n /\ (i + 1) - off = i - off + 1
          BY <1>2, <4>3
        <5> QED
          BY <4>2, <4>3, <5>1 DEF v
      <4>4. CASE ~(i \in off .. off + n - 1)
        <5>1. ~(i + 1 \in off + 1 .. off + n) /\ (i + 1 <= Len(s) <=> i < Len(s))
          BY <1>1, <1>2, <4>4
        <5> QED
          BY <4>2, <4>4, <5>1 DEF v, ByteAt
      <4> QED
        BY <4>3, <4>4
    <3>2. CASE ~(i < len)
      <4>1. ~(i < Len(s)) /\ ~(i \in off .. off + n - 1)
        BY <1>1, <1>2, <2>2, <3>2
      <4> QED
        BY <2>4, <3>2, <4>1 DEF ByteAt
    <3> QED
      BY <3>1, <3>2
  <2> HIDE DEF t
  <2> QED
    BY <1>4, <2>4, <2>5, <2>6 DEF len, t, n
<1> QED
  BY <1>3, <1>4


\* t is file s after the first m bytes of buf went to positions at[1], at[2],
\* ...: where positions repeat, the last one counts.
Wrote(s, t, at, buf, m) ==
    /\ t \in Contents
    /\ \A j \in 1 .. m : at[j] \in Nat /\ at[j] < MaxLen
    /\ \A i \in Nat : (\A j \in 1 .. m : at[j] # i) => ByteAt(t, i) = ByteAt(s, i)
    /\ \A j \in 1 .. m : (\A l \in j + 1 .. m : at[l] # at[j]) => ByteAt(t, at[j]) = buf[j]
    /\ Len(s) <= Len(t) /\ \A j \in 1 .. m : at[j] < Len(t)
    /\ Len(t) = Len(s) \/ \E j \in 1 .. m : Len(t) = at[j] + 1

LEMMA WroteNothing ==
    ASSUME NEW s \in Contents, NEW at, NEW buf
    PROVE  Wrote(s, s, at, buf, 0)
<1>1. Len(s) \in Nat
  BY ContentsLen
<1> QED
  BY <1>1 DEF Wrote

(* One more piece, as far as it fits.                                         *)
LEMMA WroteMore ==
    ASSUME NEW s \in Contents, NEW t, NEW at, NEW buf \in Seq(Bytes), NEW m \in Nat, NEW len \in Nat,
           m + len <= Len(buf), NEW off \in Nat,
           \A i \in 1 .. len : at[m + i] = off + i - 1,
           Wrote(s, t, at, buf, m)
    PROVE  LET p == SubSeq(buf, m + 1, m + len)
           IN  /\ p \in Seq(Bytes) /\ Len(p) = len
               /\ pwritten(off, p) \in 0 .. len
               /\ Wrote(s, pwrite(t, off, p), at, buf, m + pwritten(off, p))
<1> DEFINE p == SubSeq(buf, m + 1, m + len)
           n == pwritten(off, p)
           u == pwrite(t, off, p)
<1>1. Len(buf) \in Nat /\ MaxLen \in Nat
  BY DataAssumption
<1>2. p \in Seq(Bytes) /\ Len(p) = len /\ \A i \in 1 .. len : p[i] = buf[m + i]
  <2>1. \A i \in m + 1 .. m + len : i \in 1 .. Len(buf) /\ buf[i] \in Bytes
    BY <1>1, ElementOfSeq
  <2>2. (m + len) - (m + 1) + 1 = len /\ \A i \in 1 .. len : (m + 1) + i - 1 = m + i
    OBVIOUS
  <2>3. p \in Seq(Bytes)
    BY <2>1
  <2>4. Len(p) = len
    BY <1>1
  <2>5. \A i \in 1 .. len : p[i] = buf[m + i]
    BY <1>1
  <2> QED
    BY <2>3, <2>4, <2>5
<1> HIDE DEF p
<1>3. n \in 0 .. len /\ (n # 0 => off + n <= MaxLen)
  BY <1>2, PwrittenBounds
<1>4. t \in Contents /\ Len(t) \in Nat /\ Len(s) \in Nat
  BY ContentsLen DEF Wrote
<1>5. u \in Contents /\ Len(u) \in Nat
  BY <1>2, <1>4, PwriteBytes, ContentsLen
<1>6. Len(u) = IF n = 0 THEN Len(t) ELSE Greatest(Len(t), off + n)
  BY <1>2, <1>4, PwriteBytes
<1>7. \A i \in Nat : ByteAt(u, i) = IF i \in off .. off + n - 1 THEN p[i - off + 1] ELSE ByteAt(t, i)
  <2>1. t \in Contents /\ off \in Nat /\ p \in Seq(Bytes)
    BY <1>2, <1>4
  <2> QED
    BY <2>1, PwriteBytes, Zenon
<1> HIDE DEF n, u
<1>8. Len(t) <= Len(u) /\ (n # 0 => off + n <= Len(u)) /\ (Len(u) = Len(t) \/ (n # 0 /\ Len(u) = off + n))
  BY <1>3, <1>4, <1>6 DEF Greatest
<1>9. ASSUME NEW j \in 1 .. m + n, j > m
      PROVE  /\ j - m \in 1 .. n /\ j - m \in 1 .. len
             /\ at[j] = off + (j - m) - 1 /\ at[j] \in off .. off + n - 1
  <2>1. j - m \in 1 .. n /\ j - m \in 1 .. len /\ m + (j - m) = j
    BY <1>3, <1>9
  <2>2. at[m + (j - m)] = off + (j - m) - 1
    BY <2>1
  <2>3. at[j] = off + (j - m) - 1
    BY <2>1, <2>2
  <2> QED
    BY <1>3, <2>1, <2>3
<1>10. ASSUME NEW i \in off .. off + n - 1
       PROVE  m + (i - off + 1) \in m + 1 .. m + n /\ at[m + (i - off + 1)] = i
  <2>1. i - off + 1 \in 1 .. n /\ i - off + 1 \in 1 .. len
    BY <1>3
  <2>2. at[m + (i - off + 1)] = off + (i - off + 1) - 1
    BY <2>1
  <2> QED
    BY <1>3, <2>1, <2>2
<1>11. ASSUME NEW j \in 1 .. m + n PROVE at[j] \in Nat /\ at[j] < MaxLen /\ at[j] < Len(u)
  <2>1. CASE j > m
    BY <1>1, <1>3, <1>5, <1>8, <1>9, <2>1
  <2>2. CASE j <= m
    <3>1. j \in 1 .. m
      BY <1>3, <2>2
    <3> QED
      BY <1>4, <1>5, <1>8, <3>1 DEF Wrote
  <2> QED
    BY <1>3, <2>1, <2>2
<1>12. ASSUME NEW i \in Nat, \A j \in 1 .. m + n : at[j] # i PROVE ByteAt(u, i) = ByteAt(s, i)
  <2>1. \A j \in 1 .. m : at[j] # i
    BY <1>3, <1>12
  <2>2. ~(i \in off .. off + n - 1)
    <3>1. SUFFICES ASSUME i \in off .. off + n - 1 PROVE FALSE
      OBVIOUS
    <3>2. m + (i - off + 1) \in 1 .. m + n /\ at[m + (i - off + 1)] = i
      BY <1>3, <1>10, <3>1
    <3> QED
      BY <1>12, <3>2
  <2> QED
    BY <1>7, <2>1, <2>2 DEF Wrote
<1>13. ASSUME NEW j \in 1 .. m + n, \A l \in j + 1 .. m + n : at[l] # at[j]
       PROVE  ByteAt(u, at[j]) = buf[j]
  <2>1. CASE j > m
    <3>1. at[j] - off + 1 = j - m /\ j - m \in 1 .. len /\ at[j] \in Nat /\ m + (j - m) = j
      BY <1>3, <1>9, <2>1
    <3>2. ByteAt(u, at[j]) = p[j - m]
      BY <1>7, <1>9, <2>1, <3>1
    <3> QED
      BY <1>2, <3>1, <3>2
  <2>2. CASE j <= m
    <3>1. j \in 1 .. m /\ at[j] \in Nat
      BY <1>3, <1>11, <2>2
    <3>2. \A l \in j + 1 .. m : at[l] # at[j]
      BY <1>3, <1>13
    <3>3. ~(at[j] \in off .. off + n - 1)
      <4>1. SUFFICES ASSUME at[j] \in off .. off + n - 1 PROVE FALSE
        OBVIOUS
      <4>2. PICK i \in off .. off + n - 1 : i = at[j]
        BY <4>1
      <4>3. m + (i - off + 1) \in j + 1 .. m + n
        BY <1>3, <2>2, <3>1
      <4>4. at[m + (i - off + 1)] = at[j]
        BY <1>10, <4>2
      <4> QED
        BY <1>13, <4>3, <4>4
    <3> QED
      BY <1>7, <3>1, <3>2, <3>3 DEF Wrote
  <2> QED
    BY <1>3, <2>1, <2>2
<1>14. Len(s) <= Len(u)
  BY <1>4, <1>5, <1>8 DEF Wrote
<1>15. Len(u) = Len(s) \/ \E j \in 1 .. m + n : Len(u) = at[j] + 1
  <2>1. CASE Len(u) = Len(t)
    BY <1>3, <2>1 DEF Wrote
  <2>2. CASE n # 0 /\ Len(u) = off + n
    <3>1. m + n \in 1 .. m + n /\ m + n > m
      BY <1>3, <2>2
    <3>2. at[m + n] = off + n - 1
      BY <1>3, <1>9, <3>1
    <3>3. Len(u) = at[m + n] + 1
      BY <1>3, <2>2, <3>2
    <3> QED
      BY <3>1, <3>3
  <2> QED
    BY <1>8, <2>1, <2>2
<1>16. Wrote(s, u, at, buf, m + n)
  BY <1>5, <1>11, <1>12, <1>13, <1>14, <1>15 DEF Wrote
<1> QED
  BY <1>2, <1>3, <1>16 DEF n, u, p


\* A first part of buf has been written after n pieces, and all they hold when
\* every one of them fits.
FirstPart(s, base, pairs, buf, n) ==
    \E m \in 0 .. Ends(pairs)[n] :
        /\ Wrote(s, scattered(s, base, pairs, buf, n), positions(base, pairs), buf, m)
        /\ (\A k \in 1 .. n : fits(base, pairs, buf, k)) => m = Ends(pairs)[n]

(* The loops of sgl_write, vec_write and their like put a first part of the   *)
(* buffer in its places, and all of it when every piece fits.                 *)
LEMMA ScatteredWrites ==
    ASSUME NEW s \in Contents, NEW base \in Nat, NEW pairs \in Pairs, NEW buf \in Seq(Bytes),
           Len(buf) = Ends(pairs)[Len(pairs)], NEW n \in 0 .. Len(pairs)
    PROVE  FirstPart(s, base, pairs, buf, n)
<1> DEFINE e == Ends(pairs)
           at == positions(base, pairs)
           stop(k) == \E j \in 1 .. k - 1 : ~fits(base, pairs, buf, j)
           o(k) == base + pairs[k].off
           q(k) == piece(pairs, buf, k)
           step == [x \in Contents \X (1 .. n) |-> IF stop(x[2]) THEN x[1] ELSE pwrite(x[1], o(x[2]), q(x[2]))]
<1>1. Len(pairs) \in Nat /\ n \in Nat /\ \A k \in 1 .. n : k \in 1 .. Len(pairs) /\ k - 1 \in 0 .. Len(pairs)
                                              /\ k \in 0 .. Len(pairs) /\ k - 1 \in 0 .. n
  BY PairTypes
<1>2. \A k \in 1 .. n : pairs[k].off \in Nat /\ pairs[k].len \in Nat
  BY <1>1, PairTypes
<1>3. e \in [0 .. Len(pairs) -> Nat] /\ e[0] = 0
  BY EndsDefined DEF IsEnds
<1>4. \A k \in 1 .. n : e[k] = e[k - 1] + pairs[k].len /\ e[k - 1] \in Nat /\ e[k] \in Nat /\ e[k] <= Len(buf)
  <2>1. ASSUME NEW k \in 1 .. n PROVE e[k] = e[k - 1] + pairs[k].len
    BY <1>1, EndsDefined DEF IsEnds
  <2>2. ASSUME NEW k \in 1 .. n PROVE e[k] <= e[Len(pairs)]
    <3>1. Len(pairs) \in 0 .. Len(pairs) /\ k \in 0 .. Len(pairs) /\ k <= Len(pairs)
      BY <1>1
    <3> QED
      BY <3>1, EndsGrow
  <2> QED
    BY <1>1, <1>3, <2>1, <2>2
<1>5. \A k \in 1 .. n : \A i \in 1 .. pairs[k].len : at[e[k - 1] + i] = base + pairs[k].off + i - 1
  BY <1>1, PositionsAre
<1>6. ASSUME NEW k \in 1 .. n PROVE q(k) = SubSeq(buf, e[k - 1] + 1, e[k])
  BY <1>1, PieceIs
<1>7. ASSUME NEW k \in 1 .. n PROVE q(k) \in Seq(Bytes) /\ o(k) \in Nat
  <2> DEFINE a == e[k - 1]
             b == e[k]
  <2>1. a \in Nat /\ b \in Nat /\ a <= b /\ b <= Len(buf) /\ Len(buf) \in Nat
    BY <1>2, <1>4
  <2>2. q(k) = SubSeq(buf, a + 1, b)
    BY <1>6
  <2> HIDE DEF a, b, q
  <2>3. \A i \in a + 1 .. b : i \in 1 .. Len(buf)
    BY <2>1
  <2>4. SubSeq(buf, a + 1, b) \in Seq(Bytes)
    BY <2>1, <2>3, SubSeqProperties
  <2> QED
    BY <1>2, <2>2, <2>4
<1> HIDE DEF e, at, o, q, stop
<1>8. step \in [Contents \X (1 .. n) -> Contents]
  <2>1. ASSUME NEW x \in Contents \X (1 .. n)
        PROVE  (IF stop(x[2]) THEN x[1] ELSE pwrite(x[1], o(x[2]), q(x[2]))) \in Contents
    <3>1. x[1] \in Contents /\ x[2] \in 1 .. n
      OBVIOUS
    <3> QED
      BY <1>7, <3>1, PwriteBytes
  <2> QED
    BY <2>1
<1>9. \A x \in Contents, k \in 1 .. n : step[<<x, k>>] = IF stop(k) THEN x ELSE pwrite(x, o(k), q(k))
  OBVIOUS
<1> HIDE DEF step
<1>10. PICK g \in [0 .. n -> Contents] : Iterates(g, n, s, step)
  BY <1>1, <1>8, IterationExists
<1>11. g[0] = s /\ \A k \in 1 .. n : g[k] = IF stop(k) THEN g[k - 1] ELSE pwrite(g[k - 1], o(k), q(k))
  <2>1. ASSUME NEW k \in 1 .. n PROVE g[k - 1] \in Contents /\ g[k] = step[<<g[k - 1], k>>]
    BY <1>1, <1>10 DEF Iterates
  <2> QED
    BY <1>9, <1>10, <2>1 DEF Iterates
<1>12. g = [k \in 0 .. n |-> IF k = 0 THEN s ELSE IF stop(k) THEN g[k - 1] ELSE pwrite(g[k - 1], o(k), q(k))]
  <2>1. ASSUME NEW k \in 0 .. n
        PROVE  g[k] = IF k = 0 THEN s ELSE IF stop(k) THEN g[k - 1] ELSE pwrite(g[k - 1], o(k), q(k))
    <3>1. CASE k = 0
      BY <1>11, <3>1
    <3>2. CASE k # 0
      <4>1. k \in 1 .. n
        BY <1>1, <3>2
      <4> QED
        BY <1>11, <3>2, <4>1
    <3> QED
      BY <3>1, <3>2
  <2> QED
    BY <1>10, <2>1, Zenon
<1>13. PICK h : /\ h = [k \in 0 .. n |-> IF k = 0 THEN s ELSE IF stop(k) THEN h[k - 1]
                                         ELSE pwrite(h[k - 1], o(k), q(k))]
                /\ scattered(s, base, pairs, buf, n) = h[n]
  BY <1>12, Zenon DEF scattered, stop, o, q
<1>14. h[n] = g[n]
  <2>1. h[0] = g[0]
    BY <1>1, <1>11, <1>13
  <2>2. ASSUME NEW k \in 1 .. n, h[k - 1] = g[k - 1] PROVE h[k] = g[k]
    <3>1. k \in 0 .. n /\ k # 0
      BY <1>1
    <3>2. h[k] = IF stop(k) THEN h[k - 1] ELSE pwrite(h[k - 1], o(k), q(k))
      BY <1>13, <3>1, Zenon
    <3> QED
      BY <1>11, <2>2, <3>2
  <2>3. SameSteps(h, g, n)
    BY <2>1, <2>2 DEF SameSteps
  <2>4. n \in 0 .. n
    BY <1>1
  <2> QED
    BY <1>1, <2>3, <2>4, IterationUnique
<1> DEFINE Part(k) == \E m \in 0 .. e[k] : Wrote(s, g[k], at, buf, m) /\ (~stop(k + 1) => m = e[k])
           S == {k \in 0 .. n : Part(k)}
<1>15. 0 \in S
  <2>1. 0 \in 0 .. n /\ 0 \in 0 .. e[0] /\ Wrote(s, g[0], at, buf, 0)
    BY <1>1, <1>3, <1>11, WroteNothing
  <2> QED
    BY <1>3, <2>1
<1>16. ASSUME NEW k \in 1 .. n, k - 1 \in S PROVE k \in S
  <2>1. PICK m \in 0 .. e[k - 1] : Wrote(s, g[k - 1], at, buf, m) /\ (~stop(k) => m = e[k - 1])
    <3>1. (k - 1) + 1 = k
      BY <1>1
    <3> QED
      BY <1>16, <3>1
  <2>2. pairs[k].len \in Nat /\ e[k] = e[k - 1] + pairs[k].len /\ e[k - 1] \in Nat /\ e[k] \in Nat /\ e[k] <= Len(buf)
    BY <1>2, <1>4
  <2>3. CASE stop(k)
    <3>1. stop(k + 1)
      <4>1. \A j \in 1 .. k - 1 : j \in 1 .. (k + 1) - 1
        OBVIOUS
      <4> QED
        BY <2>3, <4>1 DEF stop
    <3>2. g[k] = g[k - 1] /\ m \in 0 .. e[k]
      BY <1>11, <2>2, <2>3, SMTT(30)
    <3> QED
      BY <2>1, <3>1, <3>2
  <2>4. CASE ~stop(k)
    <3> DEFINE w == pwritten(o(k), q(k))
               l == pairs[k].len
    <3>1. m = e[k - 1] /\ m \in Nat /\ l \in Nat /\ o(k) \in Nat /\ m + l = e[k] /\ m + l <= Len(buf)
      BY <1>7, <2>1, <2>2, <2>4
    <3>2. \A i \in 1 .. l : at[m + i] = o(k) + i - 1
      BY <1>5, <3>1 DEF o
    <3>3. q(k) = SubSeq(buf, m + 1, m + l)
      BY <1>6, <3>1
    <3> HIDE DEF l
    <3>4. w \in 0 .. l /\ Wrote(s, pwrite(g[k - 1], o(k), q(k)), at, buf, m + w)
      <4> DEFINE x == g[k - 1]
                 f == o(k)
      <4>1. f \in Nat /\ Wrote(s, x, at, buf, m) /\ \A i \in 1 .. l : at[m + i] = f + i - 1
        BY <2>1, <3>1, <3>2
      <4> HIDE DEF x, f
      <4>2. m \in Nat /\ l \in Nat /\ m + l <= Len(buf)
        BY <3>1
      <4>3. LET p == SubSeq(buf, m + 1, m + l)
            IN  pwritten(f, p) \in 0 .. l /\ Wrote(s, pwrite(x, f, p), at, buf, m + pwritten(f, p))
        BY <4>1, <4>2, WroteMore
      <4> QED
        BY <3>3, <4>3 DEF x, f
    <3>5. g[k] = pwrite(g[k - 1], o(k), q(k))
      BY <1>11, <2>4
    <3>6. ~stop(k + 1) => w = l
      <4>1. k \in 1 .. (k + 1) - 1
        OBVIOUS
      <4>2. ~stop(k + 1) => fits(base, pairs, buf, k)
        BY <4>1 DEF stop
      <4> QED
        BY <4>2 DEF fits, o, q, l
    <3> HIDE DEF w
    <3>7. m + w \in 0 .. e[k] /\ (w = l => m + w = e[k])
      BY <2>2, <3>1, <3>4, SMTT(30)
    <3> QED
      BY <3>4, <3>5, <3>6, <3>7
  <2> QED
    BY <2>3, <2>4
<1> HIDE DEF S
<1>17. n \in S
  <2>1. 0 .. n \subseteq S
    BY <1>1, <1>15, <1>16, BoundedInduction
  <2> QED
    BY <1>1, <2>1
<1>18. PICK m \in 0 .. e[n] : Wrote(s, g[n], at, buf, m) /\ (~stop(n + 1) => m = e[n])
  BY <1>17 DEF S
<1>19. (\A k \in 1 .. n : fits(base, pairs, buf, k)) => ~stop(n + 1)
  <2>1. (n + 1) - 1 = n
    BY <1>1
  <2> QED
    BY <2>1 DEF stop
<1>20. \E j \in 0 .. Ends(pairs)[n] :
         /\ Wrote(s, scattered(s, base, pairs, buf, n), positions(base, pairs), buf, j)
         /\ (\A k \in 1 .. n : fits(base, pairs, buf, k)) => j = Ends(pairs)[n]
  BY <1>13, <1>14, <1>18, <1>19 DEF e, at
<1> QED
  BY <1>20, Zenon DEF FirstPart


(* A part of a part of a sequence.                                            *)
LEMMA FirstOfPart ==
    ASSUME NEW S, NEW buf \in Seq(S), NEW a \in Nat, NEW b \in Nat, a <= b, b <= Len(buf),
           NEW n \in Nat, a + n <= b
    PROVE  SubSeq(SubSeq(buf, a + 1, b), 1, n) = SubSeq(buf, a + 1, a + n)
<1> DEFINE p == SubSeq(buf, a + 1, b)
           u == SubSeq(p, 1, n)
           v == SubSeq(buf, a + 1, a + n)
<1>1. Len(buf) \in Nat /\ \A i \in 1 .. Len(buf) : buf[i] \in S
  BY ElementOfSeq
<1>2. \A i \in 1 .. b - a : a + i \in 1 .. Len(buf)
  BY <1>1
<1>3. p \in Seq(S) /\ Len(p) = b - a /\ \A i \in 1 .. b - a : p[i] = buf[a + i]
  <2>1. \A i \in a + 1 .. b : i \in 1 .. Len(buf)
    BY <1>1
  <2>2. p \in Seq(S)
    BY <1>1, <2>1, SubSeqProperties
  <2>3. Len(p) = b - a
    BY <1>1
  <2>4. \A i \in 1 .. b - a : p[i] = buf[a + i]
    BY <1>1, <1>2
  <2> QED
    BY <2>2, <2>3, <2>4
<1> HIDE DEF p
<1>4. u \in Seq(S) /\ Len(u) = n /\ \A i \in 1 .. n : u[i] = p[i]
  BY <1>3
<1>5. v \in Seq(S) /\ Len(v) = n /\ \A i \in 1 .. n : v[i] = buf[a + i]
  <2>1. \A i \in a + 1 .. a + n : i \in 1 .. Len(buf)
    BY <1>1
  <2>2. v \in Seq(S)
    BY <1>1, <2>1, SubSeqProperties
  <2>3. Len(v) = n
    BY <1>1
  <2>4. \A i \in 1 .. n : v[i] = buf[a + i]
    BY <1>1, <1>2
  <2> QED
    BY <2>2, <2>3, <2>4
<1> HIDE DEF u, v
<1>6. \A i \in 1 .. n : u[i] = v[i]
  <2>1. \A i \in 1 .. n : i \in 1 .. b - a
    BY <1>1
  <2> QED
    BY <1>3, <1>4, <1>5, <2>1
<1>7. u = v
  BY <1>4, <1>5, <1>6, SeqEqual
<1> QED
  BY <1>7 DEF u, v, p

(* As long as they fit, the pieces are written as a whole.                    *)
LEMMA FullPieces ==
    ASSUME NEW s \in Contents, NEW base \in Nat, NEW pairs \in Pairs, NEW buf \in Seq(Bytes),
           Len(buf) = Ends(pairs)[Len(pairs)], NEW n \in 0 .. Len(pairs),
           \A k \in 1 .. n : fits(base, pairs, buf, k)
    PROVE  Wrote(s, scattered(s, base, pairs, buf, n), positions(base, pairs), buf, Ends(pairs)[n])
<1>1. PICK m \in 0 .. Ends(pairs)[n] :
        /\ Wrote(s, scattered(s, base, pairs, buf, n), positions(base, pairs), buf, m)
        /\ (\A k \in 1 .. n : fits(base, pairs, buf, k)) => m = Ends(pairs)[n]
  <2>1. FirstPart(s, base, pairs, buf, n)
    BY ScatteredWrites
  <2> QED
    BY <2>1, Zenon DEF FirstPart
<1> QED
  BY <1>1

(* A transfer that breaks off has put a first part of the buffer in its       *)
(* places.                                                                    *)
LEMMA BegunWrites ==
    ASSUME NEW s \in Contents, NEW base \in Nat, NEW pairs \in Pairs, NEW buf \in Seq(Bytes),
           Len(buf) = Ends(pairs)[Len(pairs)], NEW t \in begun(s, base, pairs, buf)
    PROVE  \E m \in 0 .. Len(buf) : Wrote(s, t, positions(base, pairs), buf, m)
<1> DEFINE at == positions(base, pairs)
           e == Ends(pairs)
           part(j, i) == SubSeq(piece(pairs, buf, j), 1, i)
           u(j) == scattered(s, base, pairs, buf, j - 1)
<1>a. PICK k \in 1 .. Len(pairs) :
        /\ \A i \in 1 .. k - 1 : fits(base, pairs, buf, i)
        /\ \E n \in 0 .. pairs[k].len : t = pwrite(u(k), base + pairs[k].off, part(k, n))
  BY Zenon DEF begun
<1>1. PICK n \in 0 .. pairs[k].len : t = pwrite(u(k), base + pairs[k].off, part(k, n))
  BY <1>a
<1>2. Len(pairs) \in Nat /\ pairs[k].off \in Nat /\ pairs[k].len \in Nat
  BY PairTypes
<1>3. k - 1 \in 0 .. Len(pairs) /\ k \in 0 .. Len(pairs) /\ Len(pairs) \in 0 .. Len(pairs) /\ k <= Len(pairs)
  BY <1>2
<1>4. e[k] = e[k - 1] + pairs[k].len /\ e[k - 1] \in Nat /\ e[k] \in Nat
  BY <1>3, EndsDefined DEF IsEnds
<1>5. e[k] <= Len(buf) /\ Len(buf) \in Nat
  BY <1>3, EndsGrow
<1>6. PICK m \in 0 .. e[k - 1] : Wrote(s, u(k), at, buf, m) /\ m = e[k - 1]
  <2>1. PICK j \in 0 .. Len(pairs) : j = k - 1
    BY <1>3
  <2>2. \A i \in 1 .. j : fits(base, pairs, buf, i)
    BY <1>a, <2>1
  <2>3. Ends(pairs)[j] \in Nat /\ Wrote(s, scattered(s, base, pairs, buf, j), positions(base, pairs), buf, Ends(pairs)[j])
    BY <1>4, <2>1, <2>2, FullPieces
  <2> QED
    BY <1>4, <2>1, <2>3
<1>7. \A i \in 1 .. pairs[k].len : at[e[k - 1] + i] = base + pairs[k].off + i - 1
  BY PositionsAre
<1>8. piece(pairs, buf, k) = SubSeq(buf, e[k - 1] + 1, e[k])
  BY PieceIs
<1> DEFINE x == u(k)
           off == base + pairs[k].off
           q == part(k, n)
           l == pairs[k].len
<1>9. off \in Nat /\ n \in Nat /\ n <= l /\ m \in Nat /\ m + n <= e[k]
  <2>1. off \in Nat /\ n \in Nat /\ n <= l /\ l \in Nat
    <3>1. \A a, b \in Nat : a + b \in Nat /\ \A i \in 0 .. b : i \in Nat /\ i <= b
      OBVIOUS
    <3> QED
      BY <1>2, <3>1, Zenon
  <2>2. m = e[k - 1] /\ m \in Nat /\ e[k] = e[k - 1] + l
    BY <1>2, <1>4, <1>6
  <2> HIDE DEF e, l, off
  <2> QED
    BY <2>1, <2>2
<1>10. \A i \in 1 .. n : at[m + i] = off + i - 1
  BY <1>2, <1>6, <1>7, <1>9, SMTT(30)
<1>11. q = SubSeq(buf, m + 1, m + n)
  <2> DEFINE b == e[k]
  <2>1. b \in Nat /\ m <= b /\ b <= Len(buf) /\ m + n <= b
    BY <1>4, <1>5, <1>6, <1>9, SMTT(30)
  <2>2. q = SubSeq(SubSeq(buf, m + 1, b), 1, n)
    BY <1>6, <1>8
  <2> HIDE DEF b, q
  <2>3. SubSeq(SubSeq(buf, m + 1, b), 1, n) = SubSeq(buf, m + 1, m + n)
    BY <1>9, <2>1, FirstOfPart
  <2> QED
    BY <2>2, <2>3
<1>12. Wrote(s, x, at, buf, m) /\ t = pwrite(x, off, q) /\ m + n <= Len(buf)
  BY <1>1, <1>4, <1>5, <1>6, <1>9, SMTT(30)
<1> HIDE DEF x, off, q, at, e
<1>13. LET p == SubSeq(buf, m + 1, m + n)
       IN  pwritten(off, p) \in 0 .. n /\ Wrote(s, pwrite(x, off, p), at, buf, m + pwritten(off, p))
  BY <1>9, <1>10, <1>12, WroteMore
<1> DEFINE w == pwritten(off, q)
<1>14. w \in 0 .. n /\ Wrote(s, t, at, buf, m + w)
  BY <1>11, <1>12, <1>13
<1> HIDE DEF w
<1>15. m + w \in 0 .. Len(buf)
  BY <1>5, <1>9, <1>12, <1>14
<1> QED
  BY <1>14, <1>15 DEF at

-----------------------------------------------------------------------------
(* Requests                                                                   *)

LEMMA DivBounds ==
    ASSUME NEW a \in Nat, NEW l \in Nat, l > 0
    PROVE  a \div l \in Nat /\ (a \div l) * l <= a /\ a < (a \div l) * l + l
OBVIOUS

LEMMA TimesNext ==
    ASSUME NEW k \in Nat, NEW b \in Nat, k <= b, NEW l \in Nat
    PROVE  k * l \in Nat /\ b * l \in Nat /\ k * l <= b * l /\ (k + 1) * l = k * l + l
OBVIOUS

LEMMA ContigIsPairs ==
    ASSUME NEW n \in Nat
    PROVE  /\ contig_pairs(n) \in Pairs /\ Len(contig_pairs(n)) = 1
           /\ contig_pairs(n)[1].off = 0 /\ contig_pairs(n)[1].len = n
           /\ Ends(contig_pairs(n))[0] = 0 /\ Ends(contig_pairs(n))[1] = n
<1> DEFINE c == contig_pairs(n)
<1>1. c \in Pairs /\ Len(c) = 1 /\ c[1].off = 0 /\ c[1].len = n
  BY DEF contig_pairs, Pairs
<1> HIDE DEF c
<1> DEFINE e == Ends(c)
<1>2. IsEnds(c, e)
  BY <1>1, EndsDefined
<1> HIDE DEF e
<1>3. e[0] = 0 /\ e[1] = e[0] + c[1].len
  <2>1. 1 \in 1 .. Len(c) /\ 1 - 1 = 0
    BY <1>1
  <2>2. e[1] = e[1 - 1] + c[1].len
    BY <1>2, <2>1 DEF IsEnds
  <2> QED
    BY <1>2, <2>1, <2>2 DEF IsEnds
<1> QED
  BY <1>1, <1>3 DEF c, e

(* The number of pieces of a transfer, and the bytes before the last of them. *)
LEMMA PieceCount ==
    ASSUME NEW l \in Nat, l > 0, NEW b \in Nat
    PROVE  LET n == (b + l - 1) \div l
           IN  n \in Nat /\ b <= n * l /\ \A k \in 1 .. n : (k - 1) * l \in Nat /\ (k - 1) * l < b
<1> DEFINE n == (b + l - 1) \div l
<1>1. b + l - 1 \in Nat
  OBVIOUS
<1>2. n \in Nat /\ n * l <= b + l - 1 /\ b + l - 1 < n * l + l
  BY <1>1, DivBounds
<1> HIDE DEF n
<1>3. n * l \in Nat
  BY <1>2, TimesNext
<1>4. ASSUME NEW k \in 1 .. n PROVE (k - 1) * l \in Nat /\ (k - 1) * l < b
  <2>1. n - 1 \in Nat /\ k - 1 \in Nat /\ k - 1 <= n - 1 /\ (n - 1) + 1 = n
    BY <1>2
  <2>2. (k - 1) * l \in Nat /\ (n - 1) * l \in Nat /\ (k - 1) * l <= (n - 1) * l
    BY <2>1, TimesNext
  <2>3. ((n - 1) + 1) * l = (n - 1) * l + l
    BY <2>1, TimesNext
  <2>4. n * l = (n - 1) * l + l
    BY <2>1, <2>3
  <2> QED
    BY <1>2, <1>3, <2>2, <2>4
<1> QED
  BY <1>2, <1>3, <1>4 DEF n

(* The pieces of a strided transfer take its bytes, the last one the rest.    *)
LEMMA VecIsPairs ==
    ASSUME NEW stride \in Nat, NEW length \in Nat, NEW bytes \in Nat, length > 0
    PROVE  /\ vec_pairs(stride, length, bytes) \in Pairs
           /\ Ends(vec_pairs(stride, length, bytes))[Len(vec_pairs(stride, length, bytes))] = bytes
<1> DEFINE n == (bytes + length - 1) \div length
           v == vec_pairs(stride, length, bytes)
           e == Ends(v)
           S == {k \in 0 .. n : e[k] = Least(k * length, bytes)}
<1>1. n \in Nat /\ bytes <= n * length
  BY PieceCount
<1>2. \A k \in 1 .. n : (k - 1) * length \in Nat /\ (k - 1) * length < bytes
  BY PieceCount
<1>3. v = [k \in 1 .. n |-> [off |-> (k - 1) * stride, len |-> Least(length, bytes - (k - 1) * length)]]
  BY DEF vec_pairs
<1> HIDE DEF n, v
<1>4. ASSUME NEW k \in 1 .. n
      PROVE  (k - 1) * stride \in Nat /\ Least(length, bytes - (k - 1) * length) \in Nat
  <2>1. k - 1 \in Nat
    BY <1>1
  <2>2. (k - 1) * stride \in Nat
    BY <2>1, TimesNext
  <2>3. bytes - (k - 1) * length \in Nat
    BY <1>2
  <2> QED
    BY <2>2, <2>3 DEF Least
<1>5. v \in [1 .. n -> [off : Nat, len : Nat]]
  BY <1>3, <1>4
<1>6. v \in Pairs /\ Len(v) = n
  BY <1>1, <1>5, IntervalSeq DEF Pairs
<1>7. e \in [0 .. n -> Nat] /\ e[0] = 0 /\ \A k \in 1 .. n : e[k] = e[k - 1] + v[k].len
  BY <1>6, EndsDefined DEF IsEnds
<1> HIDE DEF e
<1>8. 0 \in S
  <2>1. 0 * length = 0
    OBVIOUS
  <2> QED
    BY <1>1, <1>7, <2>1 DEF Least
<1>9. ASSUME NEW k \in 1 .. n, k - 1 \in S PROVE k \in S
  <2> DEFINE a == (k - 1) * length
  <2>1. a \in Nat /\ a < bytes
    BY <1>2
  <2>2. k * length = a + length
    <3>1. k - 1 \in Nat /\ k - 1 <= k - 1 /\ (k - 1) + 1 = k
      BY <1>1
    <3> QED
      BY <3>1, TimesNext
  <2>3. e[k - 1] = a
    BY <1>9, <2>1 DEF Least
  <2>4. v[k].len = Least(length, bytes - a)
    BY <1>3
  <2>5. e[k] = e[k - 1] + v[k].len
    BY <1>7
  <2>6. k \in 0 .. n
    BY <1>1
  <2> HIDE DEF a
  <2>7. e[k] = a + Least(length, bytes - a)
    BY <2>3, <2>4, <2>5
  <2>8. a + Least(length, bytes - a) = Least(a + length, bytes)
    BY <2>1 DEF Least
  <2> QED
    BY <2>2, <2>6, <2>7, <2>8
<1> HIDE DEF S
<1>10. 0 .. n \subseteq S
  BY <1>1, <1>8, <1>9, BoundedInduction
<1>11. e[n] = Least(n * length, bytes)
  BY <1>1, <1>10 DEF S
<1>12. e[n] = bytes
  <2>1. n * length \in Nat
    BY <1>1, TimesNext
  <2> QED
    BY <1>1, <1>11, <2>1 DEF Least
<1> QED
  BY <1>6, <1>12 DEF e, v

(* What a WRITE carries: pieces that take exactly its buffer.                 *)
LEMMA TransferTypes ==
    ASSUME NEW buf \in Buffers, NEW g \in Transfers(buf)
    PROVE  buf \in Seq(Bytes) /\ g \in Pairs /\ Len(buf) = Ends(g)[Len(g)]
<1>1. buf \in Seq(Bytes) /\ Len(buf) \in Nat
  <2>1. PICK n \in 0 .. MaxBuf : buf \in [1 .. n -> Byte]
    BY DEF Buffers
  <2>2. n \in Nat
    BY DataAssumption
  <2>3. buf \in [1 .. n -> Bytes]
    BY <2>1 DEF Bytes
  <2> QED
    BY <2>2, <2>3, IntervalSeq
<1>2. CASE g = contig_pairs(Len(buf))
  BY <1>1, <1>2, ContigIsPairs
<1>3. CASE g \in Sgls \cup VecPairs /\ total(g) = Len(buf)
  <2>1. g \in Pairs
    <3>1. CASE g \in Sgls
      BY <3>1, DataAssumption DEF Pairs
    <3>2. CASE g \in VecPairs
      <4>1. PICK v \in Strides : g = vec_pairs(v.stride, v.length, v.bytes)
        BY <3>2 DEF VecPairs
      <4>2. v.stride \in Nat /\ v.length \in Nat /\ v.bytes \in Nat /\ v.length > 0
        BY DataAssumption DEF Strides
      <4> QED
        BY <4>1, <4>2, VecIsPairs
    <3> QED
      BY <1>3, <3>1, <3>2
  <2>2. 0 \in Nat
    OBVIOUS
  <2> QED
    BY <1>1, <1>3, <2>1, <2>2, PositionsAre DEF total
<1> QED
  BY <1>2, <1>3 DEF Transfers


-----------------------------------------------------------------------------
(* The abstract store                                                         *)

\* A file as ByteStore sees it.
Image(s) == [i \in 0 .. MaxLen - 1 |-> ByteAt(s, i)]

LEMMA MaximumIs ==
    ASSUME NEW T \in SUBSET Nat, NEW x \in T, \A k \in T : k <= x
    PROVE  Abstract!Maximum(T) = x
<1>1. \A y \in T : (\A k \in T : k <= y) => y = x
  <2>1. \A y \in T : y \in Nat
    OBVIOUS
  <2> QED
    BY <2>1
<1> QED
  BY <1>1 DEF Abstract!Maximum

(* A partial write is a Put.                                                  *)
LEMMA WroteIsPut ==
    ASSUME NEW s \in Contents, NEW t, NEW at, NEW buf, NEW m \in Nat, Wrote(s, t, at, buf, m)
    PROVE  /\ Image(t) = Abstract!PutBytes(Image(s), at, buf, m)
           /\ Len(t) = Abstract!PutSize(Len(s), at, m)
           /\ \A k \in 1 .. m : at[k] \in Abstract!Position
<1>1. Len(s) \in Nat /\ t \in Contents /\ Len(t) \in Nat /\ MaxLen \in Nat
  BY ContentsLen DEF Wrote
<1>2. ASSUME NEW i \in 0 .. MaxLen - 1
      PROVE  ByteAt(t, i) = LET hits == {k \in 1 .. m : at[k] = i}
                            IN  IF hits = {} THEN Image(s)[i] ELSE buf[Abstract!Maximum(hits)]
  <2> DEFINE hits == {k \in 1 .. m : at[k] = i}
  <2>1. i \in Nat /\ Image(s)[i] = ByteAt(s, i)
    BY <1>1 DEF Image
  <2>2. CASE hits = {}
    <3>1. \A k \in 1 .. m : at[k] # i
      BY <2>2
    <3> QED
      BY <2>1, <2>2, <3>1 DEF Wrote
  <2>3. CASE hits # {}
    <3>1. hits \in SUBSET Nat /\ \A k \in hits : k <= m
      OBVIOUS
    <3>2. PICK x \in hits : \A k \in hits : k <= x
      BY <2>3, <3>1, GreatestMember
    <3>3. Abstract!Maximum(hits) = x
      BY <3>1, <3>2, MaximumIs
    <3>4. x \in 1 .. m /\ at[x] = i /\ \A l \in x + 1 .. m : at[l] # at[x]
      BY <3>2
    <3>5. ByteAt(t, i) = buf[x]
      BY <3>4 DEF Wrote
    <3> QED
      BY <2>3, <3>3, <3>5
  <2> QED
    BY <2>2, <2>3
<1>3. Image(t) = Abstract!PutBytes(Image(s), at, buf, m)
  BY <1>2, Zenon DEF Image, Abstract!PutBytes, Abstract!Position
<1>4. Len(t) = Abstract!PutSize(Len(s), at, m)
  <2> DEFINE T == {Len(s)} \cup {at[k] + 1 : k \in 1 .. m}
  <2>1. \A k \in 1 .. m : at[k] \in Nat /\ at[k] < Len(t)
    BY DEF Wrote
  <2>2. T \in SUBSET Nat
    BY <1>1, <2>1
  <2>3. Len(t) \in T
    BY DEF Wrote
  <2>4. \A x \in T : x <= Len(t)
    <3>1. Len(s) <= Len(t)
      BY DEF Wrote
    <3>2. \A k \in 1 .. m : at[k] + 1 <= Len(t)
      BY <1>1, <2>1
    <3> QED
      BY <3>1, <3>2
  <2>5. Abstract!Maximum(T) = Len(t)
    BY <2>2, <2>3, <2>4, MaximumIs
  <2> QED
    BY <2>5 DEF Abstract!PutSize
<1>5. \A k \in 1 .. m : at[k] \in Abstract!Position
  BY <1>1 DEF Wrote, Abstract!Position
<1> QED
  BY <1>3, <1>4, <1>5


\* What ByteStore's variables stand for.
Sizes  == [f \in File |-> Len(data[f])]
Images == [f \in File |-> Image(data[f])]
Seen   == [call EXCEPT !.ret = Status(@)]

\* The invariant the refinement rests on.
DataInv ==
    /\ data \in [File -> Contents]
    /\ \A f \in File : f \notin dfile => data[f] = <<>>

LEMMA StatusOf ==
    /\ Status("OSD_OK") = "done" /\ Status("READ_PAST_END") = "short" /\ Status("DIED") = "lost"
    /\ \A ret : ret # "OSD_OK" /\ ret # "READ_PAST_END" /\ ret # "DIED" => Status(ret) = "failed"
BY DEF Status

LEMMA SeenReply ==
    ASSUME NEW req, NEW ret, NEW out, call' = [req |-> req, ret |-> ret, out |-> out]
    PROVE  Seen'.req = req /\ Seen'.ret = Status(ret) /\ Seen'.out = out
BY DEF Seen

(* One of ByteStore's commands has served the request.                       *)
LEMMA Served == ASSUME NEW req, Seen'.req = req, Abstract!Serve(req) PROVE Abstract!Next
BY DEF Abstract!Next, Seen

LEMMA TargetIsFile == ASSUME NEW t \in Targets PROVE <<t[1], t[2]>> \in File
BY IdAssumption DEF Targets, File, Pid, Oid

LEMMA EmptyFile == <<>> \in Contents /\ Len(<<>>) = 0 /\ Image(<<>>) = Abstract!Blank
<1>1. <<>> \in Contents /\ Len(<<>>) = 0
  BY DataAssumption DEF Contents
<1>2. \A i \in 0 .. MaxLen - 1 : ByteAt(<<>>, i) = 0
  BY <1>1, DataAssumption DEF ByteAt, Zero
<1> QED
  BY <1>1, <1>2 DEF Image, Abstract!Blank, Abstract!Position

LEMMA WritePut ==
    ASSUME DataInv, NEW f \in File, f \in dfile', dfile \subseteq dfile',
           NEW t, NEW at, NEW buf, NEW m \in Nat,
           Wrote(data[f], t, at, buf, m), data' = [data EXCEPT ![f] = t]
    PROVE  DataInv' /\ Abstract!Put(f, at, buf, m)
<1>1. data \in [File -> Contents] /\ data[f] \in Contents /\ t \in Contents
  BY DEF DataInv, Wrote
<1>2. data' \in [File -> Contents] /\ data'[f] = t /\ \A h \in File : h # f => data'[h] = data[h]
  BY <1>1
<1>3. DataInv'
  <2>1. \A h \in File : h \notin dfile' => data'[h] = <<>>
    BY <1>2 DEF DataInv
  <2> QED
    BY <1>2, <2>1 DEF DataInv
<1>4. /\ Image(t) = Abstract!PutBytes(Image(data[f]), at, buf, m)
      /\ Len(t) = Abstract!PutSize(Len(data[f]), at, m)
      /\ \A k \in 1 .. m : at[k] \in Abstract!Position
  BY <1>1, WroteIsPut
<1>5. Images' = [Images EXCEPT ![f] = Abstract!PutBytes(@, at, buf, m)]
  <2>1. \A h \in File : Image(data'[h]) = IF h = f THEN Abstract!PutBytes(Images[f], at, buf, m) ELSE Images[h]
    BY <1>2, <1>4 DEF Images
  <2> QED
    BY <2>1 DEF Images
<1>6. Sizes' = [Sizes EXCEPT ![f] = Abstract!PutSize(@, at, m)]
  <2>1. \A h \in File : Len(data'[h]) = IF h = f THEN Abstract!PutSize(Sizes[f], at, m) ELSE Sizes[h]
    BY <1>2, <1>4 DEF Sizes
  <2> QED
    BY <2>1 DEF Sizes
<1>7. Abstract!Put(f, at, buf, m)
  BY <1>4, <1>5, <1>6, Zenon DEF Abstract!Put, Images, Sizes, Image, ByteAt
<1> QED
  BY <1>3, <1>7


LEMMA Unmoved ==
    ASSUME DataInv, data' = data, dfile' = dfile
    PROVE  /\ DataInv' /\ Sizes' = Sizes /\ Images' = Images /\ Abstract!Untouched
           /\ \A f \in File : \A at, buf : Abstract!Put(f, at, buf, 0)
<1>1. DataInv'
  BY DEF DataInv
<1>2. Sizes' = Sizes /\ Images' = Images
  BY DEF Sizes, Images
<1>3. Abstract!Untouched
  BY <1>2, Zenon DEF Abstract!Untouched, Sizes, Images, Image, ByteAt
<1>4. ASSUME NEW f \in File, NEW at, NEW buf PROVE Abstract!Put(f, at, buf, 0)
  <2>1. data[f] \in Contents /\ data' = [data EXCEPT ![f] = data[f]]
    BY DEF DataInv
  <2>2. Image(data[f]) = Abstract!PutBytes(Image(data[f]), at, buf, 0)
        /\ Len(data[f]) = Abstract!PutSize(Len(data[f]), at, 0)
    <3> DEFINE s == data[f]
               n == 0
    <3>1. s \in Contents /\ Wrote(s, s, at, buf, n) /\ n \in Nat
      BY <2>1, WroteNothing
    <3> HIDE DEF s, n
    <3>2. Image(s) = Abstract!PutBytes(Image(s), at, buf, n) /\ Len(s) = Abstract!PutSize(Len(s), at, n)
      BY <3>1, WroteIsPut
    <3> QED
      BY <3>2 DEF s, n
  <2>4. Images' = [Images EXCEPT ![f] = Abstract!PutBytes(@, at, buf, 0)]
    BY <1>2, <2>2 DEF Images
  <2>5. Sizes' = [Sizes EXCEPT ![f] = Abstract!PutSize(@, at, 0)]
    BY <1>2, <2>2 DEF Sizes
  <2>6. \A k \in 1 .. 0 : at[k] \in Abstract!Position
    OBVIOUS
  <2> QED
    BY <2>4, <2>5, <2>6, Zenon DEF Abstract!Put, Images, Sizes, Image, ByteAt
<1> QED
  BY <1>1, <1>2, <1>3, <1>4

(* A refused command.                                                         *)
LEMMA RefusedReply ==
    ASSUME DataInv, NEW req, NEW ret, refused(req, ret)
    PROVE  /\ data' = data /\ dfile' = dfile
           /\ Seen'.req = req /\ Seen'.ret = Status(ret)
BY SeenReply DEF refused, replied, tables, disk

\* A first part of buf went to the object that req names, all of it when the
\* reply says so.
PutReply(req, f, at, buf, out) ==
    /\ dfile' = dfile /\ Seen'.req = req
    /\ \/ Seen'.ret = "done" /\ f \in dfile /\ Abstract!Put(f, at, buf, Len(buf)) /\ Seen'.out = out
       \/ /\ Seen'.ret \in {"failed", "lost"} /\ f \in dfile
          /\ \E n \in 0 .. Len(buf) : Abstract!Put(f, at, buf, n)
       \/ Seen'.ret \in {"failed", "lost"} /\ Abstract!Untouched

(* A transfer that broke off, whatever is reported of it.                     *)
LEMMA PairsBegun ==
    ASSUME DataInv, NEW t \in Targets, NEW base \in Nat, NEW buf \in Seq(Bytes), NEW g \in Pairs,
           Len(buf) = Ends(g)[Len(g)], NEW req, NEW out, opens(t[1], t[2]), dfile' = dfile,
           \E s \in begun(data[<<t[1], t[2]>>], base, g, buf) :
                data' = [data EXCEPT ![<<t[1], t[2]>>] = s],
           Seen'.req = req, Seen'.ret \in {"failed", "lost"}
    PROVE  DataInv' /\ PutReply(req, <<t[1], t[2]>>, positions(base, g), buf, out)
<1> DEFINE f == <<t[1], t[2]>>
           at == positions(base, g)
<1>1. f \in File /\ Len(buf) \in Nat /\ f \in dfile
  BY TargetIsFile DEF opens
<1>2. PICK s \in begun(data[f], base, g, buf) : data' = [data EXCEPT ![f] = s]
  OBVIOUS
<1>3. data[f] \in Contents
  BY <1>1 DEF DataInv
<1>4. PICK m \in 0 .. Len(buf) : Wrote(data[f], s, at, buf, m)
  <2> DEFINE r == data[f]
  <2>1. r \in Contents /\ s \in begun(r, base, g, buf)
    BY <1>3
  <2> HIDE DEF r
  <2>2. \E m \in 0 .. Len(buf) : Wrote(r, s, positions(base, g), buf, m)
    BY <2>1, BegunWrites
  <2> QED
    BY <2>2 DEF r
<1>5. m \in Nat
  BY <1>1
<1>6. DataInv' /\ Abstract!Put(f, at, buf, m)
  BY <1>1, <1>2, <1>4, <1>5, WritePut
<1> QED
  BY <1>1, <1>6, Zenon DEF PutReply

(* What every command that writes pieces does.                                *)
LEMMA PairsWritten ==
    ASSUME DataInv, NEW t \in Targets, NEW base \in Nat, NEW buf \in Seq(Bytes), NEW g \in Pairs,
           Len(buf) = Ends(g)[Len(g)], NEW req, NEW out,
           write_pairs(req, t[1], t[2], base, g, buf, out)
    PROVE  DataInv' /\ PutReply(req, <<t[1], t[2]>>, positions(base, g), buf, out)
<1> DEFINE f == <<t[1], t[2]>>
           at == positions(base, g)
<1>1. f \in File /\ Len(buf) \in Nat
  BY TargetIsFile
<1>2. CASE refused(req, "ILLEGAL_REQUEST")
  <2>1. data' = data /\ dfile' = dfile /\ Seen'.req = req /\ Seen'.ret = "failed"
    BY <1>2, RefusedReply, StatusOf
  <2>2. DataInv' /\ Abstract!Untouched
    BY <2>1, Unmoved
  <2> QED
    BY <2>1, <2>2, Zenon DEF PutReply
<1>3. CASE /\ opens(t[1], t[2]) /\ all_fit(base, g, buf)
           /\ data' = [data EXCEPT ![f] = scattered(@, base, g, buf, Len(g))]
           /\ replied(req, "OSD_OK", out)
           /\ data_only
  <2>1. f \in dfile /\ dfile' = dfile
    BY <1>3 DEF opens, data_only, disk
  <2>2. data[f] \in Contents /\ Len(g) \in 0 .. Len(g)
    BY <1>1, PairTypes DEF DataInv
  <2>3. Wrote(data[f], scattered(data[f], base, g, buf, Len(g)), at, buf, Len(buf))
    <3> DEFINE s == data[f]
               n == Len(g)
    <3>1. s \in Contents /\ n \in 0 .. Len(g) /\ \A k \in 1 .. n : fits(base, g, buf, k)
      BY <1>3, <2>2 DEF all_fit
    <3> HIDE DEF s, n
    <3>2. \E m \in 0 .. Ends(g)[n] : Wrote(s, scattered(s, base, g, buf, n), positions(base, g), buf, m)
                                     /\ m = Ends(g)[n]
      <4>1. FirstPart(s, base, g, buf, n)
        BY <3>1, ScatteredWrites
      <4> QED
        BY <3>1, <4>1, Zenon DEF FirstPart
    <3> QED
      BY <3>2 DEF s, n
  <2>4. data' = [data EXCEPT ![f] = scattered(data[f], base, g, buf, Len(g))]
    BY <1>3
  <2>5. DataInv' /\ Abstract!Put(f, at, buf, Len(buf))
    BY <1>1, <2>1, <2>3, <2>4, WritePut
  <2>6. Seen'.req = req /\ Seen'.ret = "done" /\ Seen'.out = out
    BY <1>3, SeenReply, StatusOf DEF replied
  <2> QED
    BY <2>1, <2>5, <2>6, Zenon DEF PutReply
<1>4. CASE /\ opens(t[1], t[2])
           /\ \E s \in begun(data[f], base, g, buf) : data' = [data EXCEPT ![f] = s]
           /\ replied(req, "HARDWARE_ERROR", <<>>)
           /\ data_only
  <2>1. Seen'.req = req /\ Seen'.ret \in {"failed", "lost"} /\ dfile' = dfile
    BY <1>4, SeenReply, StatusOf DEF replied, data_only, disk
  <2> QED
    BY <1>4, <2>1, PairsBegun
<1> QED
  BY <1>2, <1>3, <1>4, Zenon DEF write_pairs


LEMMA WriteSeen ==
    ASSUME NEW f, NEW at, NEW buf, NEW out, NEW req, PutReply(req, f, at, buf, out),
           req.op = "WRITE", req.obj = f, req.at = at, req.buf = buf
    PROVE  Abstract!Next
<1>1. /\ dfile' = dfile /\ Seen'.req = req
      /\ \/ Seen'.ret = "done" /\ req.obj \in dfile /\ Abstract!Put(req.obj, req.at, req.buf, Len(req.buf))
         \/ Seen'.ret \in {"failed", "lost"} /\ req.obj \in dfile
                /\ \E n \in 0 .. Len(req.buf) : Abstract!Put(req.obj, req.at, req.buf, n)
         \/ Seen'.ret \in {"failed", "lost"} /\ Abstract!Untouched
  BY DEF PutReply
<1>2. Abstract!Write(req)
  BY <1>1, Zenon DEF Abstract!Write, Abstract!Done, Abstract!Broken, Abstract!Untouched, Seen
<1>3. Abstract!Serve(req)
  BY <1>2, Zenon DEF Abstract!Serve
<1> QED
  BY <1>1, <1>3, Served

LEMMA WriteRefines ==
    ASSUME DataInv, NEW t \in Targets, NEW base \in Nat, NEW buf \in Seq(Bytes), NEW g \in Pairs,
           Len(buf) = Ends(g)[Len(g)], osd_write(t[1], t[2], base, g, buf)
    PROVE  DataInv' /\ Abstract!Next
<1> DEFINE req == write_req(t[1], t[2], base, g, buf)
           out == <<>>
<1>1. write_pairs(req, t[1], t[2], base, g, buf, out)
  BY DEF osd_write
<1>2. req.op = "WRITE" /\ req.obj = <<t[1], t[2]>> /\ req.at = positions(base, g) /\ req.buf = buf
  BY DEF write_req
<1> HIDE DEF req, out
<1>3. DataInv' /\ PutReply(req, <<t[1], t[2]>>, positions(base, g), buf, out)
  BY <1>1, PairsWritten
<1>4. Abstract!Next
  BY <1>2, <1>3, WriteSeen, Zenon
<1> QED
  BY <1>3, <1>4

LEMMA WriteStep == ASSUME DataInv, Write \/ Clear PROVE DataInv' /\ Abstract!Next
<1>1. Offset \subseteq Nat
  BY DataAssumption DEF Offset
<1>2. CASE Write
  <2>1. PICK t \in Targets, off \in Offset, buf \in Buffers : \E g \in Transfers(buf) :
          osd_write(t[1], t[2], off, g, buf)
    BY <1>2 DEF Write
  <2>2. PICK g \in Transfers(buf) : osd_write(t[1], t[2], off, g, buf)
    BY <2>1
  <2>3. buf \in Seq(Bytes) /\ g \in Pairs /\ Len(buf) = Ends(g)[Len(g)] /\ off \in Nat
    BY <1>1, TransferTypes
  <2> QED
    BY <2>2, <2>3, WriteRefines
<1>3. CASE Clear
  <2>1. PICK t \in Targets, off \in Offset, len \in 0 .. MaxBuf : osd_clear(t[1], t[2], off, len)
    BY <1>3 DEF Clear
  <2> DEFINE buf == [i \in 1 .. len |-> Zero]
             g == contig_pairs(len)
  <2>2. len \in Nat /\ off \in Nat
    BY <1>1, DataAssumption
  <2>3. buf \in Seq(Bytes) /\ Len(buf) = len
    <3>1. buf \in [1 .. len -> Bytes]
      BY DEF Bytes
    <3> QED
      BY <2>2, <3>1, IntervalSeq
  <2>4. g \in Pairs /\ Len(buf) = Ends(g)[Len(g)]
    BY <2>2, <2>3, ContigIsPairs
  <2>5. osd_write(t[1], t[2], off, g, buf)
    BY <2>1 DEF osd_clear
  <2> HIDE DEF buf, g
  <2> QED
    BY <2>2, <2>3, <2>4, <2>5, WriteRefines
<1> QED
  BY <1>2, <1>3

(* The places of appended bytes.                                              *)
LEMMA PositionsShift ==
    ASSUME NEW g \in Pairs, NEW base \in Nat
    PROVE  positions(base, g) = [k \in 1 .. Len(positions(0, g)) |-> base + positions(0, g)[k]]
<1> DEFINE a == positions(base, g)
           z == positions(0, g)
           e == Ends(g)
           n == Len(g)
<1>1. a \in Seq(Nat) /\ z \in Seq(Nat) /\ Len(a) = e[n] /\ Len(z) = e[n] /\ n \in Nat
  BY PositionsAre, PairTypes
<1>2. \A k \in 1 .. n : \A i \in 1 .. g[k].len : a[e[k - 1] + i] = base + g[k].off + i - 1
  BY PositionsAre
<1>3. \A k \in 1 .. n : \A i \in 1 .. g[k].len : z[e[k - 1] + i] = 0 + g[k].off + i - 1
  <2>1. 0 \in Nat
    OBVIOUS
  <2> QED
    BY <2>1, PositionsAre
<1>4. e \in [0 .. n -> Nat] /\ \A k \in 1 .. n : e[k] = e[k - 1] + g[k].len
  BY EndsDefined DEF IsEnds
<1>5. \A k \in 1 .. n : g[k].off \in Nat /\ g[k].len \in Nat
  BY PairTypes
<1>6. \A m \in 1 .. e[n] : \E k \in 1 .. n : m \in e[k - 1] + 1 .. e[k]
  BY PieceOf
<1> HIDE DEF a, z, e, n
<1>7. ASSUME NEW m \in 1 .. e[n] PROVE a[m] = base + z[m]
  <2>1. PICK k \in 1 .. n : m \in e[k - 1] + 1 .. e[k]
    BY <1>6
  <2>2. e[k - 1] \in Nat /\ e[k] \in Nat /\ e[k] = e[k - 1] + g[k].len /\ g[k].len \in Nat /\ g[k].off \in Nat
    BY <1>1, <1>4, <1>5, SMTT(30)
  <2> DEFINE b == e[k - 1]
             l == g[k].len
             o == g[k].off
  <2>3. \A i \in 1 .. l : a[b + i] = base + o + i - 1 /\ z[b + i] = 0 + o + i - 1
    BY <1>2, <1>3
  <2>4. b \in Nat /\ l \in Nat /\ o \in Nat /\ m \in b + 1 .. b + l
    BY <2>1, <2>2
  <2> HIDE DEF b, l, o
  <2>5. m - b \in 1 .. l /\ b + (m - b) = m
    BY <2>4
  <2>6. a[b + (m - b)] = base + o + (m - b) - 1 /\ z[b + (m - b)] = 0 + o + (m - b) - 1
    BY <2>3, <2>5
  <2> QED
    BY <2>4, <2>5, <2>6
<1>8. a \in [1 .. e[n] -> Nat]
  BY <1>1
<1>9. a = [m \in 1 .. e[n] |-> base + z[m]]
  BY <1>7, <1>8
<1> QED
  BY <1>1, <1>9 DEF a, z

LEMMA AppendSeen ==
    ASSUME NEW f, NEW at, NEW buf, NEW base, NEW req, NEW out, out = <<base>>, PutReply(req, f, at, buf, out),
           req.op = "APPEND", req.obj = f, req.buf = buf, base = Sizes[f],
           at = [k \in 1 .. Len(req.at) |-> base + req.at[k]]
    PROVE  Abstract!Next
<1>1. PICK u : u = [k \in 1 .. Len(req.at) |-> Sizes[req.obj] + req.at[k]]
  OBVIOUS
<1>2. at = u
  BY <1>1
<1>3. /\ dfile' = dfile /\ Seen'.req = req
      /\ \/ /\ Seen'.ret = "done" /\ req.obj \in dfile
            /\ Abstract!Put(req.obj, u, req.buf, Len(req.buf)) /\ Seen'.out = <<Sizes[req.obj]>>
         \/ /\ Seen'.ret \in {"failed", "lost"} /\ req.obj \in dfile
            /\ \E n \in 0 .. Len(req.buf) : Abstract!Put(req.obj, u, req.buf, n)
         \/ Seen'.ret \in {"failed", "lost"} /\ Abstract!Untouched
  BY <1>2 DEF PutReply
<1>4. Abstract!AppendBytes(req)
  BY <1>1, <1>3, Zenon
     DEF Abstract!AppendBytes, Abstract!Done, Abstract!Broken, Abstract!Untouched, Seen, Sizes
<1>5. Abstract!Serve(req)
  BY <1>4, Zenon DEF Abstract!Serve
<1> QED
  BY <1>3, <1>5, Served

LEMMA AppendReplied ==
    ASSUME DataInv, NEW t \in Targets, NEW buf \in Seq(Bytes), NEW g \in Pairs,
           NEW base, base = append_off(t[1], t[2]), NEW out, out = <<base>>,
           NEW req, req = append_req(t[1], t[2], g, buf),
           PutReply(req, <<t[1], t[2]>>, positions(base, g), buf, out)
    PROVE  Abstract!Next
<1>1. base \in Nat /\ base = Sizes[<<t[1], t[2]>>]
  BY TargetIsFile, ContentsLen DEF append_off, DataInv, Sizes
<1>2. PICK f, at : f = <<t[1], t[2]>> /\ at = positions(base, g)
  OBVIOUS
<1>3. req.op = "APPEND" /\ req.obj = f /\ req.buf = buf /\ req.at = positions(0, g)
  BY <1>2 DEF append_req
<1>4. at = [k \in 1 .. Len(req.at) |-> base + req.at[k]]
  BY <1>1, <1>2, <1>3, PositionsShift
<1>5. PutReply(req, f, at, buf, out) /\ base = Sizes[f]
  BY <1>1, <1>2
<1> QED
  BY <1>3, <1>4, <1>5, AppendSeen, Zenon

LEMMA AppendStep == ASSUME DataInv, AppendData PROVE DataInv' /\ Abstract!Next
<1>1. PICK t \in Targets, buf \in Buffers : \E g \in Transfers(buf) : osd_append(t[1], t[2], g, buf)
  BY DEF AppendData
<1>2. PICK g \in Transfers(buf) : osd_append(t[1], t[2], g, buf)
  BY <1>1
<1>3. buf \in Seq(Bytes) /\ g \in Pairs /\ Len(buf) = Ends(g)[Len(g)]
  BY TransferTypes
<1>4. append_off(t[1], t[2]) \in Nat
  BY TargetIsFile, ContentsLen DEF append_off, DataInv
<1>5. PICK base, out, req : /\ base \in Nat /\ base = append_off(t[1], t[2]) /\ out = <<base>>
                             /\ req = append_req(t[1], t[2], g, buf)
  BY <1>4
<1>6. write_pairs(req, t[1], t[2], base, g, buf, out)
  BY <1>2, <1>5 DEF osd_append
<1>7. DataInv' /\ PutReply(req, <<t[1], t[2]>>, positions(base, g), buf, out)
  BY <1>3, <1>5, <1>6, PairsWritten
<1> QED
  BY <1>3, <1>5, <1>7, AppendReplied


-----------------------------------------------------------------------------
(* The other commands on one file                                             *)

LEMMA OneChanged ==
    ASSUME DataInv, NEW f \in File, f \in dfile, NEW t \in Contents,
           data' = [data EXCEPT ![f] = t], dfile' = dfile
    PROVE  /\ DataInv' /\ Sizes[f] = Len(data[f]) /\ Sizes'[f] = Len(t)
           /\ Sizes' = [Sizes EXCEPT ![f] = Len(t)]
           /\ Images' = [Images EXCEPT ![f] = Image(t)]
<1>1. data' \in [File -> Contents] /\ data'[f] = t /\ \A h \in File : h # f => data'[h] = data[h]
  BY DEF DataInv
<1>2. DataInv'
  <2>1. \A h \in File : h \notin dfile' => data'[h] = <<>>
    BY <1>1 DEF DataInv
  <2> QED
    BY <1>1, <2>1 DEF DataInv
<1>3. Sizes' = [Sizes EXCEPT ![f] = Len(t)]
  <2>1. \A h \in File : Len(data'[h]) = IF h = f THEN Len(t) ELSE Sizes[h]
    BY <1>1 DEF Sizes
  <2> QED
    BY <2>1 DEF Sizes
<1>4. Images' = [Images EXCEPT ![f] = Image(t)]
  <2>1. \A h \in File : Image(data'[h]) = IF h = f THEN Image(t) ELSE Images[h]
    BY <1>1 DEF Images
  <2> QED
    BY <2>1 DEF Images
<1>5. Sizes[f] = Len(data[f]) /\ Sizes'[f] = Len(t)
  BY <1>1 DEF Sizes
<1> QED
  BY <1>2, <1>3, <1>4, <1>5

LEMMA TruncateBytes ==
    ASSUME NEW s \in Contents, NEW len \in Nat, len <= MaxLen
    PROVE  /\ truncate(s, len) \in Contents /\ Len(truncate(s, len)) = len
           /\ \A i \in Nat : ByteAt(truncate(s, len), i) = IF i < len THEN ByteAt(s, i) ELSE Zero
<1> DEFINE v(i) == IF i <= Len(s) THEN s[i] ELSE Zero
           t == truncate(s, len)
<1>1. s \in Seq(Bytes) /\ Len(s) \in Nat
  BY ContentsLen
<1>2. ASSUME NEW i \in 1 .. len PROVE v(i) \in Bytes
  BY <1>1, ElementOfSeq DEF Bytes
<1>3. t = [i \in 1 .. len |-> v(i)]
  BY DEF truncate
<1> HIDE DEF v, t
<1>4. t \in [1 .. len -> Bytes]
  BY <1>2, <1>3
<1>5. t \in Seq(Bytes) /\ Len(t) = len
  BY <1>4, IntervalSeq
<1>6. ASSUME NEW i \in Nat PROVE ByteAt(t, i) = IF i < len THEN ByteAt(s, i) ELSE Zero
  <2>1. CASE i < len
    <3>1. i + 1 \in 1 .. len /\ (i + 1 <= Len(s) <=> i < Len(s))
      BY <1>1, <2>1
    <3> QED
      BY <1>3, <1>5, <2>1, <3>1 DEF ByteAt, v
  <2>2. CASE ~(i < len)
    BY <1>5, <2>2 DEF ByteAt
  <2> QED
    BY <2>1, <2>2
<1> QED
  BY <1>5, <1>6 DEF Contents, t

LEMMA AtIs ==
    ASSUME DataInv, NEW f \in File, NEW j \in Nat
    PROVE  Abstract!At(f, j) = ByteAt(data[f], j)
<1>1. Len(data[f]) \in Nat /\ Len(data[f]) <= MaxLen /\ MaxLen \in Nat
  BY ContentsLen DEF DataInv
<1>2. Abstract!At(f, j) = IF j \in 0 .. MaxLen - 1 THEN Images[f][j] ELSE 0
  BY Zenon DEF Abstract!At, Abstract!Position, Images, Image, ByteAt
<1>3. j \in 0 .. MaxLen - 1 => Images[f][j] = ByteAt(data[f], j)
  BY DEF Images, Image
<1>4. ~(j \in 0 .. MaxLen - 1) => ByteAt(data[f], j) = 0
  BY <1>1 DEF ByteAt, Zero
<1> QED
  BY <1>2, <1>3, <1>4

(* Truncation through the logical length, whether it is reported or not.      *)
LEMMA TruncatedSeen ==
    ASSUME DataInv, NEW f \in File, f \in dfile, NEW v \in Nat, v % ULen <= MaxLen,
           data' = [data EXCEPT ![f] = uiap_truncated(@, v)], dfile' = dfile,
           NEW req, req.op = "SET_LENGTH", req.obj = f, req.len = v,
           Seen'.req = req, Seen'.ret \in {"done", "lost"}
    PROVE  DataInv' /\ Abstract!Next
<1>1. PICK s, n : s = data[f] /\ n = v % ULen
  OBVIOUS
<1>2. s \in Contents /\ n \in Nat /\ n <= MaxLen /\ (v < ULen => n = v)
  BY <1>1, DataAssumption DEF DataInv
<1>3. PICK u : u = truncate(s, n)
  OBVIOUS
<1>4. u \in Contents /\ Len(u) = n /\ \A i \in Nat : ByteAt(u, i) = IF i < n THEN ByteAt(s, i) ELSE Zero
  BY <1>2, <1>3, TruncateBytes
<1>5. data' = [data EXCEPT ![f] = u]
  BY <1>1, <1>3 DEF uiap_truncated
<1>6. DataInv' /\ Sizes'[f] = n /\ Sizes' = [Sizes EXCEPT ![f] = n] /\ Images' = [Images EXCEPT ![f] = Image(u)]
  BY <1>4, <1>5, OneChanged
<1>7. Image(u) = [i \in 0 .. MaxLen - 1 |-> IF i < Sizes'[f] THEN Images[f][i] ELSE 0]
  <2>1. \A i \in 0 .. MaxLen - 1 : ByteAt(u, i) = IF i < Sizes'[f] THEN Images[f][i] ELSE 0
    BY <1>1, <1>4, <1>6, DataAssumption DEF Images, Image, Zero
  <2> QED
    BY <2>1 DEF Image
<1>8. /\ req.obj \in dfile /\ dfile' = dfile
      /\ req.len < ULen => Sizes'[req.obj] = req.len
      /\ Sizes' = [Sizes EXCEPT ![req.obj] = Sizes'[req.obj]]
      /\ Images' = [Images EXCEPT ![req.obj] = [i \in 0 .. MaxLen - 1 |-> IF i < Sizes'[req.obj] THEN @[i] ELSE 0]]
  BY <1>2, <1>6, <1>7
<1>9. Seen'.ret = "done" \/ Seen'.ret = "lost"
  OBVIOUS
<1>10. Abstract!SetLength(req)
  BY <1>8, <1>9, Zenon
     DEF Abstract!SetLength, Abstract!Done, Abstract!Position, Seen, Sizes, Images, Image, ByteAt
<1>11. Abstract!Serve(req)
  BY <1>10, Zenon DEF Abstract!Serve
<1> QED
  BY <1>6, <1>11, Served

LEMMA SetLengthStep == ASSUME DataInv, SetLength PROVE DataInv' /\ Abstract!Next
<1>1. PICK t \in Targets, v \in 0 .. ULen + 1, e \in BOOLEAN : set_uiap(t[1], t[2], v, e)
  BY DEF SetLength
<1>2. PICK f, req : f = <<t[1], t[2]>> /\ req = set_length_req(t[1], t[2], v)
  OBVIOUS
<1>3. f \in File /\ req.op = "SET_LENGTH" /\ req.obj = f /\ req.len = v /\ v \in Nat
  BY <1>2, TargetIsFile, DataAssumption DEF set_length_req
<1>4. ASSUME NEW ret, refused(req, ret), ret \in {"ILLEGAL_REQUEST", "PARAM_LIST"}
      PROVE  DataInv' /\ Abstract!Next
  <2>1. data' = data /\ dfile' = dfile /\ Seen'.req = req /\ Seen'.ret = "failed"
    BY <1>4, RefusedReply, StatusOf
  <2>2. DataInv' /\ Abstract!Untouched
    BY <2>1, Unmoved
  <2>3. Abstract!SetLength(req)
    BY <1>3, <2>1, <2>2, Zenon DEF Abstract!SetLength, Abstract!Broken, Abstract!Untouched, Seen
  <2>4. Abstract!Serve(req)
    BY <2>3, Zenon DEF Abstract!Serve
  <2> QED
    BY <2>1, <2>2, <2>4, Served
<1>5. ASSUME f \in dfile, v % ULen <= MaxLen, data' = [data EXCEPT ![f] = uiap_truncated(@, v)],
             replied(req, "OSD_OK", <<>>), data_only
      PROVE  DataInv' /\ Abstract!Next
  <2>1. Seen'.req = req /\ Seen'.ret = "done" /\ dfile' = dfile
    BY <1>5, SeenReply, StatusOf DEF replied, data_only, disk
  <2> QED
    BY <1>3, <1>5, <2>1, TruncatedSeen
<1> QED
  BY <1>1, <1>2, <1>4, <1>5 DEF set_uiap


LEMMA GetLengthStep == ASSUME DataInv, GetLength PROVE DataInv' /\ Abstract!Next
<1>1. PICK t \in Targets, e \in BOOLEAN : get_logical_len(t[1], t[2], e)
  BY DEF GetLength
<1>2. PICK f, req : f = <<t[1], t[2]>> /\ req = [op |-> "GET_LENGTH", obj |-> f]
  OBVIOUS
<1>3. f \in File /\ req.op = "GET_LENGTH" /\ req.obj = f
  BY <1>2, TargetIsFile
<1>4. ASSUME data' = data, dfile' = dfile, Seen'.req = req,
             Seen'.ret = "done" => req.obj \in dfile /\ Seen'.out = <<Sizes[req.obj]>>
      PROVE  DataInv' /\ Abstract!Next
  <2>1. DataInv' /\ Abstract!Untouched
    BY <1>4, Unmoved
  <2>2. Abstract!GetLength(req)
    BY <1>3, <1>4, <2>1, Zenon DEF Abstract!GetLength, Abstract!Done, Seen, Sizes
  <2>3. Abstract!Serve(req)
    BY <2>2, Zenon DEF Abstract!Serve
  <2> QED
    BY <1>4, <2>1, <2>3, Served
<1>5. ASSUME NEW ret, refused(req, ret), ret \in {"ILLEGAL_REQUEST", "PARAM_LIST"}
      PROVE  DataInv' /\ Abstract!Next
  <2>1. data' = data /\ dfile' = dfile /\ Seen'.req = req /\ Seen'.ret = "failed"
    BY <1>5, RefusedReply, StatusOf
  <2> QED
    BY <1>4, <2>1
<1>6. ASSUME f \in dfile, replied(req, "OSD_OK", <<Len(data[f])>>), data_only, UNCHANGED data
      PROVE  DataInv' /\ Abstract!Next
  <2>1. Seen'.req = req /\ Seen'.out = <<Len(data[f])>>
    BY <1>6, SeenReply DEF replied
  <2>2. Sizes[req.obj] = Len(data[f]) /\ req.obj \in dfile /\ dfile' = dfile
    BY <1>3, <1>6 DEF Sizes, data_only, disk
  <2> QED
    BY <1>4, <1>6, <2>1, <2>2
<1> QED
  BY <1>1, <1>2, <1>5, <1>6 DEF get_logical_len

LEMMA FlushStep == ASSUME DataInv, Flush PROVE DataInv' /\ Abstract!Next
<1>1. PICK t \in Targets, off \in {0, MaxLen}, len \in {0, MaxLen}, scope \in 0 .. 2 :
        osd_flush(t[1], t[2], off, len, scope)
  BY DEF Flush
<1>2. PICK req : req = [op |-> "FLUSH", obj |-> <<t[1], t[2]>>]
  OBVIOUS
<1>3. data' = data /\ dfile' = dfile /\ Seen'.req = req
  <2>1. ASSUME NEW ret, refused(req, ret) PROVE data' = data /\ dfile' = dfile /\ Seen'.req = req
    BY <2>1, RefusedReply
  <2>2. CASE replied(req, "OSD_OK", <<>>) /\ data_only /\ UNCHANGED data
    BY <2>2, SeenReply DEF replied, data_only, disk
  <2> QED
    BY <1>1, <1>2, <2>1, <2>2 DEF osd_flush
<1>4. DataInv' /\ Abstract!Untouched
  BY <1>3, Unmoved
<1>5. Abstract!Flush(req)
  BY <1>2, <1>4 DEF Abstract!Flush
<1>6. Abstract!Serve(req)
  BY <1>5, Zenon DEF Abstract!Serve
<1> QED
  BY <1>3, <1>4, <1>6, Served

(* n bytes of a file, moved down by len to off.                               *)
MovedPart(u, s, off, len, n) ==
    /\ u \in Contents /\ Len(u) = Len(s)
    /\ \A i \in Nat : ByteAt(u, i) = IF i \in off .. off + n - 1 THEN ByteAt(s, i + len) ELSE ByteAt(s, i)

LEMMA PartMoved ==
    ASSUME NEW s \in Contents, NEW off \in Nat, NEW len \in Nat, NEW l \in Nat, off + len + l <= Len(s),
           NEW w, w = pwrite(s, off, SubSeq(s, off + len + 1, off + len + l))
    PROVE  MovedPart(w, s, off, len, l)
<1> DEFINE q == SubSeq(s, off + len + 1, off + len + l)
           u == pwrite(s, off, q)
           b == off + len
<1>1. s \in Seq(Bytes) /\ Len(s) \in Nat /\ Len(s) <= MaxLen /\ MaxLen \in Nat
  BY ContentsLen
<1>2. b \in Nat /\ b + l <= Len(s)
  BY <1>1
<1>3. q = SubSeq(s, b + 1, b + l)
  OBVIOUS
<1> HIDE DEF q
<1>4. q \in Seq(Bytes) /\ Len(q) = l /\ \A i \in 1 .. l : q[i] = s[b + i]
  <2> HIDE DEF b
  <2>1. \A i \in b + 1 .. b + l : i \in 1 .. Len(s) /\ s[i] \in Bytes
    BY <1>1, <1>2, ElementOfSeq
  <2>2. q \in Seq(Bytes)
    BY <1>1, <1>2, <1>3, <2>1
  <2>3. Len(q) = l
    BY <1>1, <1>2, <1>3
  <2>4. \A i \in 1 .. l : q[i] = s[b + i]
    BY <1>1, <1>2, <1>3
  <2> QED
    BY <2>2, <2>3, <2>4
<1>5. pwritten(off, q) = l
  <2>1. off + l <= MaxLen /\ Len(q) = l
    BY <1>1, <1>4
  <2>2. pwritten(off, q) = IF off >= MaxLen THEN 0 ELSE IF l < MaxLen - off THEN l ELSE MaxLen - off
    BY <2>1 DEF pwritten, Least
  <2> QED
    BY <1>1, <2>1, <2>2
<1>6. u \in Contents /\ Len(u) = IF l = 0 THEN Len(s) ELSE Greatest(Len(s), off + l)
  <2>1. u \in Contents
    BY <1>4, PwriteBytes, Zenon
  <2>2. Len(u) = IF pwritten(off, q) = 0 THEN Len(s) ELSE Greatest(Len(s), off + pwritten(off, q))
    BY <1>4, PwriteBytes, Zenon
  <2> HIDE DEF u
  <2> QED
    BY <1>5, <2>1, <2>2
<1>7. \A i \in Nat : ByteAt(u, i) = IF i \in off .. off + l - 1 THEN q[i - off + 1] ELSE ByteAt(s, i)
  <2>1. \A i \in Nat : ByteAt(u, i) = IF i \in off .. off + pwritten(off, q) - 1 THEN q[i - off + 1] ELSE ByteAt(s, i)
    BY <1>4, PwriteBytes, Zenon
  <2> QED
    BY <1>5, <2>1
<1> HIDE DEF u
<1>8. Len(u) = Len(s)
  BY <1>1, <1>6 DEF Greatest
<1>9. ASSUME NEW i \in Nat
      PROVE  ByteAt(u, i) = IF i \in off .. off + l - 1 THEN ByteAt(s, i + len) ELSE ByteAt(s, i)
  <2>1. CASE i \in off .. off + l - 1
    <3>1. i - off + 1 \in 1 .. l /\ b + (i - off + 1) = (i + len) + 1 /\ i + len < Len(s)
      BY <1>1, <2>1
    <3>2. ByteAt(u, i) = q[i - off + 1]
      BY <1>7, <2>1
    <3>3. q[i - off + 1] = s[b + (i - off + 1)]
      BY <1>4, <3>1
    <3>4. q[i - off + 1] = s[(i + len) + 1]
      BY <3>1, <3>3
    <3> QED
      BY <2>1, <3>1, <3>2, <3>4 DEF ByteAt
  <2>2. CASE ~(i \in off .. off + l - 1)
    BY <1>7, <2>2
  <2> QED
    BY <2>1, <2>2
<1> QED
  BY <1>6, <1>8, <1>9 DEF u, q, MovedPart

\* u is s without the len bytes from off on.
Without(u, s, off, len) ==
    /\ u \in Contents
    /\ Len(u) = IF off + len > Len(s) THEN off ELSE Len(s) - len
    /\ \A i \in Nat : ByteAt(u, i) = IF i < off THEN ByteAt(s, i) ELSE ByteAt(s, i + len)

LEMMA PunchedBytes ==
    ASSUME NEW s \in Contents, NEW off \in Nat, NEW len \in Nat, off <= Len(s),
           NEW u, u = punched(s, off, len + off)
    PROVE  Without(u, s, off, len)
<1>1. Len(s) \in Nat /\ Len(s) <= MaxLen /\ MaxLen \in Nat
  BY ContentsLen
<1>2. CASE off + len > Len(s)
  <2>1. u = truncate(s, off) /\ off <= MaxLen
    BY <1>1, <1>2 DEF punched
  <2>2. u \in Contents /\ Len(u) = off /\ \A i \in Nat : ByteAt(u, i) = IF i < off THEN ByteAt(s, i) ELSE Zero
    BY <2>1, TruncateBytes
  <2>3. \A i \in Nat : i >= off => ByteAt(s, i + len) = Zero
    BY <1>1, <1>2 DEF ByteAt
  <2> QED
    BY <1>2, <2>2, <2>3 DEF Without
<1>3. CASE off + len <= Len(s)
  <2>1. PICK w, l : w = pwrite(s, off, SubSeq(s, off + len + 1, Len(s))) /\ l = Len(s) - (off + len)
    OBVIOUS
  <2>2. l \in Nat /\ off + len + l = Len(s)
    BY <1>1, <1>3, <2>1
  <2>3. MovedPart(w, s, off, len, l)
    BY <2>1, <2>2, <1>1, PartMoved
  <2>4. w \in Contents /\ Len(w) = Len(s)
    BY <2>3 DEF MovedPart
  <2>5. \A i \in Nat : ByteAt(w, i) = IF i \in off .. off + l - 1 THEN ByteAt(s, i + len) ELSE ByteAt(s, i)
    BY <2>3 DEF MovedPart
  <2>6. off + Len(s) - (len + off) = Len(s) - len /\ len + off = off + len /\ ~(len + off > Len(s))
    BY <1>1, <1>3
  <2>7. u = truncate(w, Len(s) - len)
    BY <2>1, <2>6 DEF punched, tail
  <2>8. Len(s) - len \in Nat /\ Len(s) - len <= MaxLen /\ off <= Len(s) - len
    BY <1>1, <1>3
  <2>9. u \in Contents /\ Len(u) = Len(s) - len
    BY <2>4, <2>7, <2>8, TruncateBytes
  <2>10. \A i \in Nat : ByteAt(u, i) = IF i < Len(s) - len THEN ByteAt(w, i) ELSE Zero
    BY <2>4, <2>7, <2>8, TruncateBytes
  <2>11. ASSUME NEW i \in Nat PROVE ByteAt(u, i) = IF i < off THEN ByteAt(s, i) ELSE ByteAt(s, i + len)
    <3>1. CASE i < off
      BY <1>1, <2>5, <2>8, <2>10, <3>1
    <3>2. CASE i >= off /\ i < Len(s) - len
      <4>1. i \in off .. off + l - 1
        BY <1>1, <2>1, <3>2
      <4> QED
        BY <2>5, <2>10, <3>2, <4>1
    <3>3. CASE i >= off /\ ~(i < Len(s) - len)
      <4>1. ByteAt(s, i + len) = Zero
        BY <1>1, <3>3 DEF ByteAt
      <4> QED
        BY <2>10, <3>3, <4>1
    <3> QED
      BY <1>1, <3>1, <3>2, <3>3
  <2> QED
    BY <1>3, <2>9, <2>11, <2>6 DEF Without
<1> QED
  BY <1>1, <1>2, <1>3

\* u holds what s holds before off.
SameBefore(u, s, off) ==
    /\ u \in Contents /\ Len(u) >= off
    /\ \A i \in Nat : i < off => ByteAt(u, i) = ByteAt(s, i)

(* Whatever the sum of offset and length has become, nothing before the       *)
(* offset changes.                                                            *)
LEMMA LeavesKeep ==
    ASSUME NEW s \in Contents, NEW off \in Nat, off <= Len(s), NEW new_offset \in Nat,
           NEW u \in punch_leaves(s, off, new_offset)
    PROVE  SameBefore(u, s, off)
<1>1. s \in Seq(Bytes) /\ Len(s) \in Nat /\ Len(s) <= MaxLen /\ MaxLen \in Nat
  BY ContentsLen
<1>2. CASE u = s
  BY <1>1, <1>2 DEF SameBefore
<1>3. ASSUME NEW n \in Nat, n <= Len(s), NEW w, w = pwrite(s, off, SubSeq(s, new_offset + 1, n))
      PROVE  /\ SubSeq(s, new_offset + 1, n) \in Seq(Bytes) /\ SameBefore(w, s, off)
             /\ w \in Contents
  <2> DEFINE p == SubSeq(s, new_offset + 1, n)
             k == pwritten(off, p)
  <2>1. p \in Seq(Bytes)
    <3>1. \A i \in new_offset + 1 .. n : i \in 1 .. Len(s) /\ s[i] \in Bytes
      BY <1>1, <1>3, ElementOfSeq
    <3> QED
      BY <1>1, <1>3, <3>1
  <2> HIDE DEF p
  <2>2. k \in 0 .. Len(p) /\ Len(p) \in Nat
    BY <2>1, PwrittenBounds
  <2>3. w = pwrite(s, off, p)
    BY <1>3 DEF p
  <2>4. w \in Contents /\ Len(w) = IF k = 0 THEN Len(s) ELSE Greatest(Len(s), off + k)
    BY <2>1, <2>3, PwriteBytes
  <2>5. \A i \in Nat : ByteAt(w, i) = IF i \in off .. off + k - 1 THEN p[i - off + 1] ELSE ByteAt(s, i)
    BY <2>1, <2>3, PwriteBytes
  <2> HIDE DEF k
  <2>6. Len(w) >= off
    BY <1>1, <2>2, <2>4 DEF Greatest
  <2>7. \A i \in Nat : i < off => ByteAt(w, i) = ByteAt(s, i)
    BY <2>2, <2>5
  <2> QED
    BY <2>1, <2>4, <2>6, <2>7 DEF SameBefore, p
<1>4. ASSUME NEW n \in new_offset + 1 .. Len(s), u = pwrite(s, off, SubSeq(s, new_offset + 1, n))
      PROVE  SameBefore(u, s, off)
  <2>1. n \in Nat /\ n <= Len(s)
    BY <1>1
  <2> QED
    BY <1>3, <1>4, <2>1
<1>5. ASSUME u = punched(s, off, new_offset), tail_fits(s, off, new_offset)
      PROVE  SameBefore(u, s, off)
  <2>1. CASE new_offset > Len(s)
    <3>1. u = truncate(s, off) /\ off <= MaxLen
      BY <1>1, <1>5, <2>1 DEF punched
    <3> QED
      BY <3>1, TruncateBytes DEF SameBefore
  <2>2. CASE ~(new_offset > Len(s))
    <3> DEFINE w == pwrite(s, off, tail(s, new_offset))
               l == off + Len(s) - new_offset
    <3>1. tail(s, new_offset) \in Seq(Bytes) /\ SameBefore(w, s, off) /\ w \in Contents
      BY <1>1, <1>3 DEF tail
    <3>2. pwritten(off, tail(s, new_offset)) = Len(s) - new_offset
      BY <1>1, <1>5, <2>2 DEF tail_fits
    <3>3. Len(s) - new_offset # 0 => off + (Len(s) - new_offset) <= MaxLen
      BY <3>1, <3>2, PwrittenBounds
    <3>4. l \in Nat /\ l <= MaxLen /\ l >= off
      BY <1>1, <2>2, <3>3
    <3>5. u = truncate(w, l)
      BY <1>5, <2>2 DEF punched
    <3> HIDE DEF w, l
    <3>6. u \in Contents /\ Len(u) = l
      BY <3>1, <3>4, <3>5, TruncateBytes
    <3>7. \A i \in Nat : ByteAt(u, i) = IF i < l THEN ByteAt(w, i) ELSE Zero
      BY <3>1, <3>4, <3>5, TruncateBytes
    <3>8. \A i \in Nat : i < off => ByteAt(u, i) = ByteAt(s, i)
      BY <3>1, <3>4, <3>7 DEF SameBefore
    <3> QED
      BY <3>4, <3>6, <3>8 DEF SameBefore
  <2> QED
    BY <2>1, <2>2
<1> QED
  BY <1>2, <1>4, <1>5 DEF punch_leaves

\* A PUNCH of len bytes at off of file f has been served.
PunchServed(req, f, off, len) ==
    /\ f \in File /\ off \in Nat /\ len \in Nat /\ dfile' = dfile
    /\ req.op = "PUNCH" /\ req.obj = f /\ req.off = off /\ req.len = len
    /\ Seen'.req = req

LEMMA PunchFailed ==
    ASSUME DataInv, NEW f, NEW off, NEW len, NEW req, PunchServed(req, f, off, len),
           Seen'.ret \in {"failed", "lost"}, data' = data
    PROVE  DataInv' /\ Abstract!Next
<1>1. DataInv' /\ Abstract!Untouched
  BY Unmoved DEF PunchServed
<1>2. Abstract!Punch(req)
  BY <1>1, Zenon DEF PunchServed, Abstract!Punch, Abstract!Broken, Abstract!Untouched, Seen
<1> QED
  BY <1>1, <1>2, Served, Zenon DEF Abstract!Serve, PunchServed

LEMMA PunchDone ==
    ASSUME DataInv, NEW f, NEW off, NEW len, NEW req, PunchServed(req, f, off, len),
           f \in dfile, off <= Len(data[f]), off + len < ULong,
           NEW u, u = punched(data[f], off, len + off), data' = [data EXCEPT ![f] = u],
           Seen'.ret \in {"done", "failed", "lost"}
    PROVE  DataInv' /\ Abstract!Next
<1> USE DEF PunchServed
<1>1. data[f] \in Contents
  BY DEF DataInv
<1>2. PICK s : s = data[f]
  OBVIOUS
<1>3. /\ u \in Contents
      /\ Len(u) = IF off + len > Len(s) THEN off ELSE Len(s) - len
      /\ \A i \in Nat : ByteAt(u, i) = IF i < off THEN ByteAt(s, i) ELSE ByteAt(s, i + len)
  <2>1. s \in Contents /\ off <= Len(s)
    BY <1>1, <1>2
  <2>2. u = punched(s, off, len + off)
    BY <1>2
  <2>3. Without(u, s, off, len)
    BY <2>1, <2>2, PunchedBytes
  <2> QED
    BY <2>3, Zenon DEF Without
<1>4. DataInv' /\ Sizes[f] = Len(s) /\ Sizes' = [Sizes EXCEPT ![f] = Len(u)] /\ Images' = [Images EXCEPT ![f] = Image(u)]
  <2>1. f \in File /\ dfile' = dfile /\ u \in Contents
    BY <1>3
  <2> QED
    BY <1>2, <2>1, OneChanged, Zenon
<1>5. \A i \in 0 .. MaxLen - 1 : ByteAt(u, i) = IF i < off THEN Images[f][i] ELSE Abstract!At(f, i + len)
  <2>1. ASSUME NEW i \in 0 .. MaxLen - 1
        PROVE  ByteAt(u, i) = IF i < off THEN Images[f][i] ELSE Abstract!At(f, i + len)
    <3>1. i \in Nat /\ i + len \in Nat
      BY DataAssumption
    <3>2. Images[f][i] = ByteAt(s, i)
      BY <1>2 DEF Images, Image
    <3>3. Abstract!At(f, i + len) = ByteAt(s, i + len)
      BY <1>2, <3>1, AtIs
    <3> QED
      BY <1>3, <3>1, <3>2, <3>3
  <2> QED
    BY <2>1
<1>6. Images' = [Images EXCEPT ![f] = [i \in 0 .. MaxLen - 1 |-> IF i < off THEN @[i] ELSE Abstract!At(f, i + len)]]
  <2>1. Image(u) = [i \in 0 .. MaxLen - 1 |-> IF i < off THEN Images[f][i] ELSE Abstract!At(f, i + len)]
    BY <1>5 DEF Image
  <2> QED
    BY <1>4, <2>1
<1>7. /\ Images' = [Images EXCEPT ![req.obj] =
            [i \in 0 .. MaxLen - 1 |-> IF i < req.off THEN @[i] ELSE Abstract!At(req.obj, i + req.len)]]
      /\ Sizes' = [Sizes EXCEPT ![req.obj] = IF req.off + req.len > @ THEN req.off ELSE @ - req.len]
      /\ req.obj \in dfile /\ req.off <= Sizes[req.obj] /\ req.off + req.len < ULong /\ dfile' = dfile
      /\ req.op = "PUNCH"
  <2>1. [i \in 0 .. MaxLen - 1 |-> IF i < off THEN Images[f][i] ELSE Abstract!At(f, i + len)]
        = [i \in 0 .. MaxLen - 1 |-> IF i < req.off THEN Images[req.obj][i] ELSE Abstract!At(req.obj, i + req.len)]
    OBVIOUS
  <2>2. Images' = [Images EXCEPT ![req.obj] =
            [i \in 0 .. MaxLen - 1 |-> IF i < req.off THEN @[i] ELSE Abstract!At(req.obj, i + req.len)]]
    BY <1>6, <2>1
  <2>3. Sizes' = [Sizes EXCEPT ![req.obj] = IF req.off + req.len > @ THEN req.off ELSE @ - req.len]
    BY <1>3, <1>4
  <2>4. req.obj \in dfile /\ req.off <= Sizes[req.obj] /\ req.off + req.len < ULong /\ dfile' = dfile
    BY <1>2, <1>4
  <2>5. req.op = "PUNCH"
    OBVIOUS
  <2> QED
    BY <2>2, <2>3, <2>4, <2>5, Zenon
<1>8. Seen'.ret = "done" \/ Seen'.ret \in {"failed", "lost"}
  OBVIOUS
<1> USE DEF Abstract!Removed, Abstract!Done, Abstract!Broken
<1>9. Abstract!Punch(req)
  BY <1>7, <1>8, Zenon DEF Abstract!Punch, Abstract!Position, Seen, Sizes, Images, Image, ByteAt
<1> QED
  BY <1>4, <1>9, Served, Zenon DEF Abstract!Serve

LEMMA PunchMoved ==
    ASSUME DataInv, NEW f, NEW off, NEW len, NEW req, PunchServed(req, f, off, len),
           f \in dfile, off + len < ULong, NEW n \in Nat, off + len + n <= Len(data[f]),
           NEW u, u = pwrite(data[f], off, SubSeq(data[f], off + len + 1, off + len + n)),
           data' = [data EXCEPT ![f] = u], Seen'.ret \in {"failed", "lost"}
    PROVE  DataInv' /\ Abstract!Next
<1> USE DEF PunchServed
<1>1. PICK s : s = data[f]
  OBVIOUS
<1>2. s \in Contents /\ Len(s) \in Nat /\ Len(s) <= MaxLen /\ MaxLen \in Nat
  BY <1>1, ContentsLen DEF DataInv
<1>3. MovedPart(u, s, off, len, n)
  BY <1>1, <1>2, PartMoved
<1>4. u \in Contents /\ Len(u) = Len(s)
  BY <1>3 DEF MovedPart
<1>5. \A i \in Nat : ByteAt(u, i) = IF i \in off .. off + n - 1 THEN ByteAt(s, i + len) ELSE ByteAt(s, i)
  BY <1>3 DEF MovedPart
<1>6. /\ DataInv' /\ Sizes[f] = Len(s) /\ Sizes' = [Sizes EXCEPT ![f] = Len(u)]
      /\ Images' = [Images EXCEPT ![f] = Image(u)]
  <2>1. f \in File /\ dfile' = dfile /\ u \in Contents
    BY <1>4
  <2> HIDE DEF PunchServed
  <2> QED
    BY <1>1, <2>1, OneChanged
<1>7. Sizes' = Sizes
  BY <1>4, <1>6 DEF Sizes
<1>8. Image(u) = [i \in 0 .. MaxLen - 1 |->
                    IF i \in off .. off + n - 1 THEN Abstract!At(f, i + len) ELSE Images[f][i]]
  <2>1. ASSUME NEW i \in 0 .. MaxLen - 1
        PROVE  ByteAt(u, i) = IF i \in off .. off + n - 1 THEN Abstract!At(f, i + len) ELSE Images[f][i]
    <3>1. i \in Nat /\ i + len \in Nat
      BY <1>2
    <3>2. Images[f][i] = ByteAt(s, i)
      BY <1>1 DEF Images, Image
    <3>3. Abstract!At(f, i + len) = ByteAt(s, i + len)
      BY <1>1, <3>1, AtIs
    <3> QED
      BY <1>5, <3>1, <3>2, <3>3
  <2> QED
    BY <2>1 DEF Image
<1>9. Images' = [Images EXCEPT ![req.obj] =
          [i \in 0 .. MaxLen - 1 |->
              IF i \in req.off .. req.off + n - 1 THEN Abstract!At(req.obj, i + req.len) ELSE @[i]]]
  <2>1. Images' = [Images EXCEPT ![f] = [i \in 0 .. MaxLen - 1 |->
                    IF i \in off .. off + n - 1 THEN Abstract!At(f, i + len) ELSE @[i]]]
    BY <1>6, <1>8
  <2>2. req.obj = f /\ req.off = off /\ req.len = len
    OBVIOUS
  <2> QED
    BY <2>1, <2>2, Zenon
<1>10. /\ req.obj \in dfile /\ req.off <= Sizes[req.obj] /\ req.off + req.len < ULong /\ dfile' = dfile
       /\ req.op = "PUNCH" /\ n \in 0 .. MaxLen /\ req.off + req.len + n <= Sizes[req.obj]
       /\ Seen'.ret \in {"failed", "lost"}
  BY <1>1, <1>2, <1>6
<1> USE DEF Abstract!Moved, Abstract!Broken
<1>11. Abstract!Punch(req)
  BY <1>7, <1>9, <1>10, Zenon DEF Abstract!Punch, Abstract!Position, Seen, Sizes, Images, Image, ByteAt
<1> QED
  BY <1>6, <1>11, Served, Zenon DEF Abstract!Serve

LEMMA PunchWrapped ==
    ASSUME DataInv, NEW f, NEW off, NEW len, NEW req, PunchServed(req, f, off, len),
           f \in dfile, off <= Len(data[f]), ~(off + len < ULong),
           NEW u, SameBefore(u, data[f], off), data' = [data EXCEPT ![f] = u],
           Seen'.ret \in {"done", "failed", "lost"}
    PROVE  DataInv' /\ Abstract!Next
<1> USE DEF PunchServed
<1>1. u \in Contents /\ Len(u) >= off /\ \A i \in Nat : i < off => ByteAt(u, i) = ByteAt(data[f], i)
  BY DEF SameBefore
<1>2. /\ DataInv' /\ Sizes[f] = Len(data[f]) /\ Sizes' = [Sizes EXCEPT ![f] = Len(u)]
      /\ Images' = [Images EXCEPT ![f] = Image(u)] /\ Sizes'[f] = Len(u)
  BY <1>1, OneChanged
<1>3. \A o \in File : o # f => Sizes'[o] = Sizes[o] /\ Images'[o] = Images[o]
  <2>1. DOMAIN Sizes = File /\ DOMAIN Images = File
    BY DEF Sizes, Images
  <2>2. \A o \in File : o # f => /\ [Sizes EXCEPT ![f] = Len(u)][o] = Sizes[o]
                                 /\ [Images EXCEPT ![f] = Image(u)][o] = Images[o]
    BY <2>1
  <2> QED
    BY <1>2, <2>2
<1>4. \A i \in 0 .. MaxLen - 1 : i < off => Images'[f][i] = Images[f][i]
  <2>1. Images'[f] = Image(u)
    BY <1>2 DEF Images
  <2>2. \A i \in 0 .. MaxLen - 1 : i \in Nat /\ Image(u)[i] = ByteAt(u, i) /\ Images[f][i] = ByteAt(data[f], i)
    BY DataAssumption DEF Image, Images
  <2> QED
    BY <1>1, <2>1, <2>2
<1>5. /\ \A o \in File : o # req.obj => Sizes'[o] = Sizes[o] /\ Images'[o] = Images[o]
      /\ \A i \in 0 .. MaxLen - 1 : i < req.off => Images'[req.obj][i] = Images[req.obj][i]
      /\ Sizes'[req.obj] >= req.off
      /\ req.obj \in dfile /\ req.off <= Sizes[req.obj] /\ ~(req.off + req.len < ULong) /\ dfile' = dfile
      /\ req.op = "PUNCH"
      /\ Seen'.ret = "done" \/ Seen'.ret \in {"failed", "lost"}
  BY <1>1, <1>2, <1>3, <1>4
<1> USE DEF Abstract!BeforeKept, Abstract!Done, Abstract!Broken
<1>6. Abstract!Punch(req)
  BY <1>5, Zenon DEF Abstract!Punch, Abstract!Position, Seen, Sizes, Images, Image, ByteAt
<1> QED
  BY <1>2, <1>6, Served, Zenon DEF Abstract!Serve

(* The possible ends of a PUNCH that has begun.                               *)
LEMMA PunchBegun ==
    ASSUME DataInv, NEW f, NEW off, NEW len, NEW req, PunchServed(req, f, off, len),
           f \in dfile, off <= Len(data[f]),
           NEW u \in punch_leaves(data[f], off, (len + off) % ULong),
           data' = [data EXCEPT ![f] = u],
           \/ Seen'.ret \in {"failed", "lost"}
           \/ Seen'.ret = "done" /\ u = punched(data[f], off, (len + off) % ULong)
    PROVE  DataInv' /\ Abstract!Next
<1>1. f \in File /\ off \in Nat /\ len \in Nat
  BY DEF PunchServed
<1>2. PICK s, new_offset : s = data[f] /\ new_offset = (len + off) % ULong
  OBVIOUS
<1>3. s \in Contents /\ Len(s) \in Nat
  BY <1>1, <1>2, ContentsLen DEF DataInv
<1>4. new_offset \in Nat /\ (off + len < ULong => new_offset = off + len)
  BY <1>1, <1>2, DataAssumption
<1>5. CASE ~(off + len < ULong)
  <2>1. off <= Len(s) /\ u \in punch_leaves(s, off, new_offset)
    BY <1>2
  <2>2. SameBefore(u, s, off)
    BY <1>1, <1>3, <1>4, <2>1, LeavesKeep
  <2>3. SameBefore(u, data[f], off) /\ Seen'.ret \in {"done", "failed", "lost"}
    BY <1>2, <2>2
  <2> QED
    BY <1>5, <2>3, PunchWrapped
<1>6. CASE off + len < ULong
  <2>1. new_offset = off + len /\ new_offset = len + off
    BY <1>1, <1>4, <1>6
  <2>2. CASE u = punched(data[f], off, new_offset)
    <3>1. u = punched(data[f], off, len + off) /\ Seen'.ret \in {"done", "failed", "lost"}
      BY <2>1, <2>2
    <3> QED
      BY <1>6, <3>1, PunchDone
  <2>3. CASE u = s /\ Seen'.ret \in {"failed", "lost"}
    <3>1. data' = data
      BY <1>1, <1>2, <2>3 DEF DataInv
    <3> QED
      BY <2>3, <3>1, PunchFailed
  <2>4. ASSUME NEW k \in new_offset + 1 .. Len(s), u = pwrite(s, off, SubSeq(s, new_offset + 1, k)),
               Seen'.ret \in {"failed", "lost"}
        PROVE  DataInv' /\ Abstract!Next
    <3>1. PICK n : n = k - new_offset
      OBVIOUS
    <3>2. n \in Nat /\ off + len + n = k /\ k <= Len(s)
      BY <1>1, <1>3, <2>1, <3>1
    <3>3. u = pwrite(data[f], off, SubSeq(data[f], off + len + 1, off + len + n))
      BY <1>2, <2>1, <2>4, <3>2
    <3>4. off + len + n <= Len(data[f])
      BY <1>2, <3>2
    <3> QED
      BY <1>6, <2>4, <3>2, <3>3, <3>4, PunchMoved
  <2>5. \/ u = s \/ u = punched(s, off, new_offset)
        \/ \E k \in new_offset + 1 .. Len(s) : u = pwrite(s, off, SubSeq(s, new_offset + 1, k))
    BY <1>2 DEF punch_leaves
  <2> QED
    BY <1>2, <2>2, <2>3, <2>4, <2>5
<1> QED
  BY <1>5, <1>6

LEMMA PunchInputs ==
    ASSUME NEW off \in Offset, NEW len \in Lengths
    PROVE  off \in Nat /\ len \in Nat
BY DataAssumption DEF Offset, Lengths

LEMMA PunchStep == ASSUME DataInv, Punch PROVE DataInv' /\ Abstract!Next
<1>1. PICK t \in Targets, off \in Offset, len \in Lengths : osd_punch(t[1], t[2], off, len)
  BY DEF Punch
<1>2. PICK f, req : f = <<t[1], t[2]>> /\ req = punch_req(t[1], t[2], off, len)
  OBVIOUS
<1>3. ASSUME dfile' = dfile, Seen'.req = req PROVE PunchServed(req, f, off, len)
  BY <1>2, <1>3, TargetIsFile, PunchInputs DEF punch_req, PunchServed
<1>4. ASSUME NEW ret, refused(req, ret), ret \in {"ILLEGAL_REQUEST", "OSD_ERROR"}
      PROVE  DataInv' /\ Abstract!Next
  <2>1. data' = data /\ dfile' = dfile /\ Seen'.req = req /\ Seen'.ret = "failed"
    BY <1>4, RefusedReply, StatusOf
  <2> QED
    BY <1>3, <2>1, PunchFailed
<1>5. CASE /\ f \in dfile /\ off <= Len(data[f]) /\ tail_fits(data[f], off, (len + off) % ULong)
           /\ data' = [data EXCEPT ![f] = punched(@, off, (len + off) % ULong)]
           /\ replied(req, "OSD_OK", <<>>) /\ data_only
  <2>1. PICK u : u = punched(data[f], off, (len + off) % ULong)
    OBVIOUS
  <2>2. Seen'.req = req /\ Seen'.ret = "done" /\ dfile' = dfile /\ data' = [data EXCEPT ![f] = u]
    BY <1>5, <2>1, SeenReply, StatusOf DEF replied, data_only, disk
  <2>3. u \in punch_leaves(data[f], off, (len + off) % ULong)
    BY <1>5, <2>1 DEF punch_leaves
  <2> QED
    BY <1>3, <1>5, <2>1, <2>2, <2>3, PunchBegun
<1>6. CASE /\ f \in dfile /\ off <= Len(data[f])
           /\ \E u \in punch_leaves(data[f], off, (len + off) % ULong) : data' = [data EXCEPT ![f] = u]
           /\ replied(req, "HARDWARE_ERROR", <<>>) /\ data_only
  <2>1. PICK u \in punch_leaves(data[f], off, (len + off) % ULong) : data' = [data EXCEPT ![f] = u]
    BY <1>6
  <2>2. Seen'.req = req /\ Seen'.ret = "failed" /\ dfile' = dfile
    BY <1>6, SeenReply, StatusOf DEF replied, data_only, disk
  <2> QED
    BY <1>3, <1>6, <2>1, <2>2, PunchBegun
<1> QED
  BY <1>1, <1>2, <1>4, <1>5, <1>6 DEF osd_punch, opens

(* The process dies, and comes back, in the middle of a transfer, of a PUNCH  *)
(* or of a change of the length.                                              *)
LEMMA DiedSeen ==
    ASSUME NEW req, died(req)
    PROVE  dfile' = dfile /\ Seen'.req = req /\ Seen'.ret = "lost"
BY SeenReply, StatusOf DEF died, osd_open, restarted

LEMMA DieInTransferStep ==
    ASSUME DataInv, NEW t \in Targets, NEW base \in Nat, NEW buf \in Buffers, NEW g \in Transfers(buf),
           NEW req, die_in_transfer(req, t[1], t[2], base, g, buf), NEW out
    PROVE  DataInv' /\ PutReply(req, <<t[1], t[2]>>, positions(base, g), buf, out)
<1>1. buf \in Seq(Bytes) /\ g \in Pairs /\ Len(buf) = Ends(g)[Len(g)]
  BY TransferTypes
<1>2. /\ opens(t[1], t[2]) /\ died(req)
      /\ \E s \in begun(data[<<t[1], t[2]>>], base, g, buf) : data' = [data EXCEPT ![<<t[1], t[2]>>] = s]
  BY DEF die_in_transfer
<1>3. dfile' = dfile /\ Seen'.req = req /\ Seen'.ret \in {"failed", "lost"}
  BY <1>2, DiedSeen
<1> QED
  BY <1>1, <1>2, <1>3, PairsBegun

LEMMA DieInWrite ==
    ASSUME DataInv, NEW t \in Targets, NEW off \in Offset, NEW buf \in Buffers, NEW g \in Transfers(buf),
           die_in_transfer(write_req(t[1], t[2], off, g, buf), t[1], t[2], off, g, buf)
    PROVE  DataInv' /\ Abstract!Next
<1>1. PICK req, out : req = write_req(t[1], t[2], off, g, buf) /\ out = <<>>
  OBVIOUS
<1>2. off \in Nat
  BY DataAssumption DEF Offset
<1>3. DataInv' /\ PutReply(req, <<t[1], t[2]>>, positions(off, g), buf, out)
  BY <1>1, <1>2, DieInTransferStep
<1>4. req.op = "WRITE" /\ req.obj = <<t[1], t[2]>> /\ req.at = positions(off, g) /\ req.buf = buf
  BY <1>1 DEF write_req
<1> QED
  BY <1>3, <1>4, WriteSeen, Zenon

LEMMA DieInAppend ==
    ASSUME DataInv, NEW t \in Targets, NEW buf \in Buffers, NEW g \in Transfers(buf),
           die_in_transfer(append_req(t[1], t[2], g, buf), t[1], t[2], append_off(t[1], t[2]), g, buf)
    PROVE  DataInv' /\ Abstract!Next
<1>1. append_off(t[1], t[2]) \in Nat
  BY TargetIsFile, ContentsLen DEF append_off, DataInv
<1>2. PICK base, out, req : /\ base \in Nat /\ base = append_off(t[1], t[2]) /\ out = <<base>>
                             /\ req = append_req(t[1], t[2], g, buf)
  BY <1>1
<1>3. DataInv' /\ PutReply(req, <<t[1], t[2]>>, positions(base, g), buf, out)
  BY <1>2, DieInTransferStep
<1>4. buf \in Seq(Bytes) /\ g \in Pairs
  BY TransferTypes
<1> QED
  BY <1>2, <1>3, <1>4, AppendReplied

LEMMA DieInPunch ==
    ASSUME DataInv, NEW t \in Targets, NEW off \in Offset, NEW len \in Lengths,
           die_in_punch(t[1], t[2], off, len)
    PROVE  DataInv' /\ Abstract!Next
<1>1. PICK f, req : f = <<t[1], t[2]>> /\ req = punch_req(t[1], t[2], off, len)
  OBVIOUS
<1>2. dfile' = dfile /\ Seen'.req = req /\ Seen'.ret = "lost"
  BY <1>1, DiedSeen DEF die_in_punch
<1>3. PunchServed(req, f, off, len)
  BY <1>1, <1>2, TargetIsFile, PunchInputs DEF punch_req, PunchServed
<1>4. /\ f \in dfile /\ off <= Len(data[f])
      /\ \E u \in punch_leaves(data[f], off, (len + off) % ULong) : data' = [data EXCEPT ![f] = u]
  BY <1>1 DEF die_in_punch, opens
<1> QED
  BY <1>2, <1>3, <1>4, PunchBegun

LEMMA DieInSetLength ==
    ASSUME DataInv, NEW t \in Targets, NEW v \in 0 .. ULen + 1, die_in_set_length(t[1], t[2], v)
    PROVE  DataInv' /\ Abstract!Next
<1>1. PICK f, req : f = <<t[1], t[2]>> /\ req = set_length_req(t[1], t[2], v)
  OBVIOUS
<1>2. dfile' = dfile /\ Seen'.req = req /\ Seen'.ret \in {"done", "lost"}
  BY <1>1, DiedSeen DEF die_in_set_length
<1>3. f \in File /\ req.op = "SET_LENGTH" /\ req.obj = f /\ req.len = v /\ v \in Nat
  BY <1>1, TargetIsFile, DataAssumption DEF set_length_req
<1>4. f \in dfile /\ v % ULen <= MaxLen /\ data' = [data EXCEPT ![f] = uiap_truncated(@, v)]
  BY <1>1 DEF die_in_set_length, opens
<1> QED
  BY <1>2, <1>3, <1>4, TruncatedSeen


-----------------------------------------------------------------------------
(* Commands that make and remove files                                        *)

LEMMA NamespaceStep == ASSUME DataInv, Namespace PROVE DataInv' /\ Abstract!Next
<1>1. PICK req : req = Unasked
  OBVIOUS
<1>2. Seen'.req = req /\ data' = kept
  BY <1>1, SeenReply DEF Namespace
<1>3. req.op = "NAMESPACE"
  BY <1>1 DEF Unasked
<1>4. \A f \in File : data'[f] = IF f \in dfile \cap dfile' THEN data[f] ELSE <<>>
  BY <1>2 DEF kept
<1>5. DataInv'
  <2>1. data' \in [File -> Contents]
    <3>1. \A f \in File : (IF f \in dfile \cap dfile' THEN data[f] ELSE <<>>) \in Contents
      BY EmptyFile DEF DataInv
    <3> QED
      BY <1>2, <3>1 DEF kept
  <2>2. \A f \in File : f \notin dfile' => data'[f] = <<>>
    BY <1>4
  <2> QED
    BY <2>1, <2>2 DEF DataInv
<1>6. Sizes' = [o \in File |-> IF o \in dfile \cap dfile' THEN Sizes[o] ELSE 0]
  <2>1. \A o \in File : Len(data'[o]) = IF o \in dfile \cap dfile' THEN Sizes[o] ELSE 0
    BY <1>4, EmptyFile DEF Sizes
  <2> QED
    BY <2>1 DEF Sizes
<1>7. Images' = [o \in File |-> IF o \in dfile \cap dfile' THEN Images[o] ELSE Abstract!Blank]
  <2>1. \A o \in File : Image(data'[o]) = IF o \in dfile \cap dfile' THEN Images[o] ELSE Abstract!Blank
    BY <1>4, EmptyFile DEF Images
  <2> QED
    BY <2>1 DEF Images
<1>8. Abstract!Namespace(req)
  BY <1>3, <1>6, <1>7, Zenon DEF Abstract!Namespace, Sizes, Images, Image, ByteAt
<1> QED
  BY <1>2, <1>5, <1>8, Served, Zenon DEF Abstract!Serve

LEMMA NothingLost == ASSUME DataInv, dfile \subseteq dfile' PROVE kept = data
<1>1. \A f \in File : (IF f \in dfile \cap dfile' THEN data[f] ELSE <<>>) = data[f]
  BY DEF DataInv
<1> QED
  BY <1>1 DEF kept, DataInv

\* A CREATE AND WRITE of the object f has been served; no file is gone.
CreationServed(req, f, at, buf) ==
    /\ f \in File /\ buf \in Seq(Bytes) /\ dfile \subseteq dfile'
    /\ req.op = "CREATE_AND_WRITE" /\ req.obj = f /\ req.at = at /\ req.buf = buf
    /\ Seen'.req = req

LEMMA CreateAndWriteFailed ==
    ASSUME DataInv, NEW req, NEW f, NEW at, NEW buf, CreationServed(req, f, at, buf),
           Seen'.ret \in {"failed", "lost"}, data' = data
    PROVE  DataInv' /\ Abstract!Next
<1> USE DEF CreationServed
<1>1. DataInv' /\ Sizes' = Sizes /\ Images' = Images
  BY DEF DataInv, Sizes, Images
<1>2. Abstract!CreateAndWrite(req)
  BY <1>1, Zenon DEF Abstract!CreateAndWrite, Abstract!Broken, Seen, Sizes, Images, Image, ByteAt
<1> QED
  BY <1>1, <1>2, Served, Zenon DEF Abstract!Serve

(* The new object has a first part of what was to be written.                 *)
LEMMA CreateAndWriteBegun ==
    ASSUME DataInv, NEW req, NEW f, NEW off \in Nat, NEW g \in Pairs, NEW buf,
           CreationServed(req, f, positions(off, g), buf), Len(buf) = Ends(g)[Len(g)],
           Seen'.ret \in {"failed", "lost"}, f \notin dfile, f \in dfile',
           NEW s \in begun(<<>>, off, g, buf), data' = [data EXCEPT ![f] = s]
    PROVE  DataInv' /\ Abstract!Next
<1>1. f \in File /\ buf \in Seq(Bytes) /\ dfile \subseteq dfile' /\ Len(buf) \in Nat
  BY DEF CreationServed
<1>2. PICK r : r = data[f]
  OBVIOUS
<1>3. r \in Contents /\ s \in begun(r, off, g, buf)
  BY <1>1, <1>2 DEF DataInv
<1>4. PICK m \in 0 .. Len(buf) : Wrote(r, s, positions(off, g), buf, m)
  BY <1>1, <1>3, BegunWrites
<1>5. Wrote(data[f], s, positions(off, g), buf, m) /\ m \in Nat
  BY <1>1, <1>2, <1>4
<1>6. DataInv' /\ Abstract!Put(f, positions(off, g), buf, m)
  BY <1>1, <1>5, WritePut
<1>7. /\ req.op = "CREATE_AND_WRITE" /\ Seen'.ret \in {"failed", "lost"} /\ dfile \subseteq dfile'
      /\ req.obj \in dfile' \ dfile /\ \E n \in 0 .. Len(req.buf) : Abstract!Put(req.obj, req.at, req.buf, n)
  <2>1. req.obj = f /\ req.at = positions(off, g) /\ req.buf = buf /\ req.op = "CREATE_AND_WRITE"
    BY DEF CreationServed
  <2>2. \E n \in 0 .. Len(req.buf) : Abstract!Put(req.obj, req.at, req.buf, n)
    BY <1>6, <2>1, Zenon
  <2>3. req.obj \in dfile' \ dfile
    BY <2>1
  <2> QED
    BY <1>1, <2>1, <2>2, <2>3
<1>8. Abstract!CreateAndWrite(req)
  BY <1>7, Zenon DEF Abstract!CreateAndWrite, Abstract!Broken, Seen
<1> QED
  BY <1>6, <1>8, Served, Zenon DEF Abstract!Serve, CreationServed

LEMMA CreateAndWriteDone ==
    ASSUME DataInv, NEW req, NEW f, NEW at, NEW buf, CreationServed(req, f, at, buf),
           f \notin dfile, dfile' = dfile \cup {f},
           NEW t, Wrote(<<>>, t, at, buf, Len(buf)), data' = [data EXCEPT ![f] = t],
           Seen'.ret = "done"
    PROVE  DataInv' /\ Abstract!Next
<1>1. f \in File /\ buf \in Seq(Bytes) /\ dfile \subseteq dfile' /\ Len(buf) \in Nat /\ f \in dfile'
  BY DEF CreationServed
<1>2. Wrote(data[f], t, at, buf, Len(buf))
  BY <1>1 DEF DataInv
<1>3. DataInv' /\ Abstract!Put(f, at, buf, Len(buf))
  BY <1>1, <1>2, WritePut
<1>4. /\ req.op = "CREATE_AND_WRITE" /\ req.obj \notin dfile /\ dfile' = dfile \cup {req.obj}
      /\ Abstract!Put(req.obj, req.at, req.buf, Len(req.buf))
  <2>1. req.obj = f /\ req.at = at /\ req.buf = buf /\ req.op = "CREATE_AND_WRITE"
    BY DEF CreationServed
  <2> QED
    BY <1>3, <2>1, Zenon
<1>5. Abstract!CreateAndWrite(req)
  BY <1>4, Zenon DEF Abstract!CreateAndWrite, Abstract!Done, Seen
<1> QED
  BY <1>3, <1>5, Served, Zenon DEF Abstract!Serve, CreationServed

(* A CREATE that fails takes no file away.                                    *)
LEMMA FailedCreateFiles ==
    ASSUME NEW p, NEW requested, NEW n, osd_create(p, requested, n), sense' # "OSD_OK"
    PROVE  dfile \subseteq dfile' /\ sense' \in {"ILLEGAL_REQUEST", "HARDWARE_ERROR"}
<1>1. CASE \E s \in {"ILLEGAL_REQUEST"} : Rejected(s)
  BY <1>1 DEF Rejected, disk
<1>2. CASE nextoid_failed(p, requested)
  BY <1>2 DEF nextoid_failed, disk
<1>3. ASSUME NEW oid, NEW k, NEW bad, create_undone(p, oid, k, bad)
      PROVE  dfile \subseteq dfile' /\ sense' = "HARDWARE_ERROR"
  BY <1>3 DEF create_undone, osd_remove_tmp_objects
<1>4. ASSUME NEW oid, NEW k, create_objects(p, requested, oid, k) PROVE FALSE
  BY <1>4 DEF create_objects
<1> QED
  BY <1>1, <1>2, <1>3, <1>4 DEF osd_create

(* The file of one object that is created, and others that are kept.          *)
LEMMA OneFile ==
    ASSUME NEW t \in Targets
    PROVE  osd_create_datafile(t[1], t[2], 1) = dfile \cup {<<t[1], t[2]>>}
<1>1. t[2] \in Nat
  BY IdAssumption DEF Targets
<1>2. {t[1]} \X (t[2] .. t[2] + 1 - 1) = {<<t[1], t[2]>>}
  BY <1>1
<1> QED
  BY <1>2 DEF osd_create_datafile

LEMMA CreateAndWriteStep == ASSUME DataInv, CreateAndWrite PROVE DataInv' /\ Abstract!Next
<1>1. PICK t \in Targets, off \in Offset, buf \in Buffers : \E g \in Transfers(buf) :
        osd_create_and_write(t[1], t[2], off, g, buf)
  BY DEF CreateAndWrite
<1>2. PICK g \in Transfers(buf) : osd_create_and_write(t[1], t[2], off, g, buf)
  BY <1>1
<1>3. buf \in Seq(Bytes) /\ g \in Pairs /\ Len(buf) = Ends(g)[Len(g)] /\ Len(buf) \in Nat /\ off \in Nat
  BY DataAssumption, TransferTypes DEF Offset
<1>4. PICK f, at, req : /\ f = <<t[1], t[2]>> /\ at = positions(off, g)
                        /\ req = create_and_write_req(t[1], t[2], off, g, buf)
  OBVIOUS
<1>5. ASSUME dfile \subseteq dfile', Seen'.req = req PROVE CreationServed(req, f, at, buf)
  BY <1>3, <1>4, <1>5, TargetIsFile DEF create_and_write_req, CreationServed
<1>6. ASSUME NEW ret, replied(req, ret, <<>>), ret \in {"ILLEGAL_REQUEST", "HARDWARE_ERROR"},
             dfile \subseteq dfile', data' = kept
      PROVE  DataInv' /\ Abstract!Next
  <2>1. Seen'.req = req /\ Seen'.ret = "failed"
    BY <1>6, SeenReply, StatusOf DEF replied
  <2>2. data' = data
    BY <1>6, NothingLost
  <2> QED
    BY <1>5, <1>6, <2>1, <2>2, CreateAndWriteFailed
<1>7. CASE osd_create(t[1], t[2], 1) /\ sense' # "OSD_OK" /\ replied(req, sense', <<>>) /\ data' = kept
  <2>1. PICK ret : ret = sense'
    OBVIOUS
  <2>2. replied(req, ret, <<>>)
    BY <1>7, <2>1 DEF replied
  <2>3. dfile \subseteq dfile' /\ ret \in {"ILLEGAL_REQUEST", "HARDWARE_ERROR"}
    BY <1>7, <2>1, FailedCreateFiles
  <2> QED
    BY <1>6, <1>7, <2>2, <2>3
<1>8. CASE /\ all_fit(off, g, buf)
           /\ one_created(t[1], t[2], t[2])
           /\ data' = [kept EXCEPT ![f] = scattered(<<>>, off, g, buf, Len(g))]
           /\ replied(req, "OSD_OK", <<>>)
  <2>1. f \notin dfile /\ dfile' = dfile \cup {f}
    BY <1>4, <1>8, OneFile DEF one_created, creatable
  <2>2. PICK s, u : s = <<>> /\ u = scattered(s, off, g, buf, Len(g))
    OBVIOUS
  <2>3. data' = [data EXCEPT ![f] = u]
    BY <1>8, <2>1, <2>2, NothingLost
  <2>4. s \in Contents /\ Len(g) \in 0 .. Len(g)
    BY <1>3, <2>2, EmptyFile, PairTypes
  <2>5. PICK n \in 0 .. Len(g) : n = Len(g)
    BY <2>4
  <2>6. PICK m \in 0 .. Ends(g)[n] :
          /\ Wrote(s, scattered(s, off, g, buf, n), positions(off, g), buf, m)
          /\ (\A k \in 1 .. n : fits(off, g, buf, k)) => m = Ends(g)[n]
    <3>1. FirstPart(s, off, g, buf, n)
      BY <1>3, <2>4, ScatteredWrites
    <3> QED
      BY <3>1, Zenon DEF FirstPart
  <2>7. m = Len(buf)
    BY <1>3, <1>8, <2>5, <2>6 DEF all_fit
  <2>8. Wrote(<<>>, u, at, buf, Len(buf))
    BY <1>4, <2>2, <2>5, <2>6, <2>7
  <2>9. Seen'.req = req /\ Seen'.ret = "done"
    BY <1>8, SeenReply, StatusOf DEF replied
  <2>10. CreationServed(req, f, at, buf)
    BY <1>5, <2>1, <2>9
  <2> QED
    BY <2>1, <2>3, <2>8, <2>9, <2>10, CreateAndWriteDone
<1>9. ASSUME NEW ret \in {"ILLEGAL_REQUEST", "HARDWARE_ERROR"}, replied(req, ret, <<>>),
             NEW s, created_removed(t[1], t[2], s), s \in begun(<<>>, off, g, buf) \/ s = <<>>
      PROVE  DataInv' /\ Abstract!Next
  <2>1. CASE UNCHANGED dfile /\ data' = kept
    BY <1>6, <1>9, <2>1
  <2>2. CASE /\ dfile' = osd_create_datafile(t[1], t[2], 1)
             /\ data' = [kept EXCEPT ![<<t[1], t[2]>>] = s]
    <3>1. f \notin dfile /\ dfile' = dfile \cup {f} /\ dfile \subseteq dfile'
      BY <1>4, <1>9, <2>2, OneFile DEF created_removed, creatable
    <3>2. Seen'.req = req /\ Seen'.ret = "failed"
      BY <1>9, SeenReply, StatusOf DEF replied
    <3>3. data' = [data EXCEPT ![f] = s]
      BY <1>4, <2>2, <3>1, NothingLost
    <3>4. CreationServed(req, f, positions(off, g), buf)
      BY <1>4, <1>5, <3>1, <3>2
    <3>5. CASE s = <<>>
      <4>1. data' = data
        BY <1>4, <3>1, <3>3, <3>5, TargetIsFile DEF DataInv
      <4> QED
        BY <3>2, <3>4, <4>1, CreateAndWriteFailed
    <3>6. CASE s \in begun(<<>>, off, g, buf)
      BY <1>3, <3>1, <3>2, <3>3, <3>4, <3>6, CreateAndWriteBegun
    <3> QED
      BY <1>9, <3>5, <3>6
  <2> QED
    BY <1>9, <2>1, <2>2 DEF created_removed
<1>10. CASE /\ \E oid \in Oid : one_created(t[1], 0, oid)
            /\ data' = kept /\ replied(req, "ILLEGAL_REQUEST", <<>>)
  <2>1. dfile \subseteq dfile'
    BY <1>10 DEF one_created, osd_create_datafile
  <2> QED
    BY <1>6, <1>10, <2>1
<1> QED
  BY <1>2, <1>4, <1>7, <1>8, <1>9, <1>10 DEF osd_create_and_write

(* The process dies in a CREATE AND WRITE.                                    *)
LEMMA DieInCreateAndWrite ==
    ASSUME DataInv, NEW t \in Targets, NEW oid \in Oid, NEW off \in Offset, NEW buf \in Buffers,
           NEW g \in Transfers(buf), die_in_create_and_write(t[1], t[2], oid, off, g, buf)
    PROVE  DataInv' /\ Abstract!Next
<1>1. buf \in Seq(Bytes) /\ g \in Pairs /\ Len(buf) = Ends(g)[Len(g)] /\ off \in Nat
  BY DataAssumption, TransferTypes DEF Offset
<1>2. PICK f, req : f = <<t[1], t[2]>> /\ req = create_and_write_req(t[1], t[2], off, g, buf)
  OBVIOUS
<1>3. Seen'.req = req /\ Seen'.ret = "lost"
  BY <1>2, SeenReply, StatusOf DEF die_in_create_and_write
<1>4. dfile \subseteq dfile'
  BY DEF die_in_create_and_write, osd_create_datafile
<1>5. CreationServed(req, f, positions(off, g), buf)
  BY <1>1, <1>2, <1>3, <1>4, TargetIsFile DEF create_and_write_req, CreationServed
<1>6. CASE data' = data
  BY <1>3, <1>5, <1>6, CreateAndWriteFailed
<1>7. CASE /\ t[2] # 0 /\ f \notin dfile /\ dfile' = osd_create_datafile(t[1], t[2], 1)
           /\ \E s \in begun(<<>>, off, g, buf) : data' = [data EXCEPT ![f] = s]
  <2>1. f \in dfile'
    BY <1>2, <1>7, OneFile
  <2>2. PICK s \in begun(<<>>, off, g, buf) : data' = [data EXCEPT ![f] = s]
    BY <1>7
  <2>3. Seen'.ret \in {"failed", "lost"} /\ f \notin dfile
    BY <1>3, <1>7
  <2> QED
    BY <1>1, <1>5, <2>1, <2>2, <2>3, CreateAndWriteBegun
<1>8. t[2] # 0 => oid = t[2]
  BY DEF die_in_create_and_write, chosen_id
<1> QED
  BY <1>2, <1>6, <1>7, <1>8 DEF die_in_create_and_write

LEMMA DieStep == ASSUME DataInv, Die PROVE DataInv' /\ Abstract!Next
BY DieInWrite, DieInAppend, DieInPunch, DieInSetLength, DieInCreateAndWrite DEF Die


-----------------------------------------------------------------------------
(* Reads                                                                      *)

LEMMA PreadBytes ==
    ASSUME NEW s \in Contents, NEW o \in Nat, NEW l \in Nat
    PROVE  /\ pread(s, o, l) \in Seq(Bytes)
           /\ Len(pread(s, o, l)) = IF o >= Len(s) THEN 0 ELSE Least(l, Len(s) - o)
           /\ \A i \in 1 .. Len(pread(s, o, l)) : pread(s, o, l)[i] = ByteAt(s, o + i - 1)
<1> DEFINE n == Least(o + l, Len(s))
           q == SubSeq(s, o + 1, n)
<1>1. s \in Seq(Bytes) /\ Len(s) \in Nat
  BY ContentsLen
<1>2. n \in Nat /\ n <= Len(s) /\ n <= o + l /\ n = IF o + l < Len(s) THEN o + l ELSE Len(s)
  BY <1>1 DEF Least
<1> HIDE DEF n
<1>3. o + 1 \in Int /\ n \in Int /\ \A i \in o + 1 .. n : s[i] \in Bytes
  <2>1. ASSUME NEW i \in o + 1 .. n PROVE s[i] \in Bytes
    <3>1. i \in 1 .. Len(s)
      BY <1>1, <1>2
    <3> QED
      BY <1>1, <3>1, ElementOfSeq
  <2> QED
    BY <1>2, <2>1
<1>4. PICK m \in Int : m = o + 1
  OBVIOUS
<1>5. /\ q \in Seq(Bytes)
      /\ Len(q) = IF m <= n THEN n - m + 1 ELSE 0
      /\ \A i \in 1 .. n - m + 1 : q[i] = s[m + i - 1]
  <2>1. q = SubSeq(s, m, n) /\ \A i \in m .. n : s[i] \in Bytes
    BY <1>3, <1>4
  <2>2. SubSeq(s, m, n) \in Seq(Bytes) /\ Len(SubSeq(s, m, n)) = IF m <= n THEN n - m + 1 ELSE 0
    BY <1>3, <2>1, SubSeqProperties
  <2>3. \A i \in 1 .. n - m + 1 : SubSeq(s, m, n)[i] = s[m + i - 1]
    BY <1>3, <2>1, SubSeqProperties
  <2> QED
    BY <2>1, <2>2, <2>3
<1> HIDE DEF q
<1>6. Len(q) = IF o >= Len(s) THEN 0 ELSE Least(l, Len(s) - o)
  BY <1>1, <1>2, <1>4, <1>5 DEF Least
<1>7. ASSUME NEW i \in 1 .. Len(q) PROVE q[i] = ByteAt(s, o + i - 1)
  <2>1. i \in 1 .. n - m + 1 /\ o + i - 1 < Len(s) /\ m + i - 1 = (o + i - 1) + 1
    BY <1>1, <1>2, <1>4, <1>5
  <2> QED
    BY <1>5, <2>1 DEF ByteAt
<1>8. pread(s, o, l) = q
  BY DEF pread, q, n
<1> QED
  BY <1>5, <1>6, <1>7, <1>8

(* One more byte.                                                             *)
LEMMA PreadStep ==
    ASSUME NEW s \in Contents, NEW o \in Nat
    PROVE  /\ pread(s, o, 0) = <<>>
           /\ \A i \in Nat : i > 0 => pread(s, o, i) = IF o + i - 1 < Len(s)
                                                       THEN Append(pread(s, o, i - 1), ByteAt(s, o + i - 1))
                                                       ELSE pread(s, o, i - 1)
<1>1. s \in Seq(Bytes) /\ Len(s) \in Nat
  BY ContentsLen
<1>2. pread(s, o, 0) = <<>>
  <2>1. PICK q : q = pread(s, o, 0)
    OBVIOUS
  <2>2. q \in Seq(Bytes) /\ Len(q) = 0
    BY <1>1, <2>1, PreadBytes DEF Least
  <2> QED
    BY <2>1, <2>2
<1>3. ASSUME NEW i \in Nat, i > 0
      PROVE  pread(s, o, i) = IF o + i - 1 < Len(s) THEN Append(pread(s, o, i - 1), ByteAt(s, o + i - 1))
                              ELSE pread(s, o, i - 1)
  <2>1. PICK j \in Nat : j = i - 1
    BY <1>3
  <2>2. PICK x, y, b : x = pread(s, o, i) /\ y = pread(s, o, j) /\ b = ByteAt(s, o + j)
    OBVIOUS
  <2>3. x \in Seq(Bytes) /\ y \in Seq(Bytes)
    BY <2>2, PreadBytes
  <2>4. Len(x) = IF o >= Len(s) THEN 0 ELSE Least(i, Len(s) - o)
    BY <2>2, PreadBytes
  <2>5. Len(y) = IF o >= Len(s) THEN 0 ELSE Least(j, Len(s) - o)
    BY <2>2, PreadBytes
  <2>6. \A k \in 1 .. Len(x) : x[k] = ByteAt(s, o + k - 1)
    BY <2>2, PreadBytes
  <2>7. \A k \in 1 .. Len(y) : y[k] = ByteAt(s, o + k - 1)
    BY <2>2, PreadBytes
  <2>8. o + i - 1 = o + j
    BY <2>1
  <2>9. CASE o + j < Len(s)
    <3>1. Len(y) = j /\ Len(x) = j + 1
      BY <1>1, <2>1, <2>4, <2>5, <2>9 DEF Least
    <3>2. b \in Bytes
      <4>1. o + j + 1 \in 1 .. Len(s)
        BY <1>1, <2>9
      <4> QED
        BY <1>1, <2>2, <2>9, <4>1, ElementOfSeq DEF ByteAt
    <3>3. PICK z : z = Append(y, b)
      OBVIOUS
    <3>4. z \in Seq(Bytes) /\ Len(z) = j + 1 /\ z[j + 1] = b /\ \A k \in 1 .. j : z[k] = y[k]
      BY <2>3, <3>1, <3>2, <3>3, AppendProperties
    <3>5. ASSUME NEW k \in 1 .. Len(x) PROVE x[k] = z[k]
      <4>1. CASE k = j + 1
        BY <2>2, <2>6, <3>1, <3>4, <4>1
      <4>2. CASE k # j + 1
        <5>1. k \in 1 .. j
          BY <3>1, <4>2
        <5> QED
          BY <2>6, <2>7, <3>1, <3>4, <5>1
      <4> QED
        BY <4>1, <4>2
    <3>6. x = z
      BY <2>3, <3>1, <3>4, <3>5, SeqEqual
    <3> QED
      BY <2>1, <2>2, <2>8, <2>9, <3>3, <3>6
  <2>10. CASE ~(o + j < Len(s))
    <3>1. Len(x) = Len(y)
      BY <1>1, <2>1, <2>4, <2>5, <2>10 DEF Least
    <3>2. \A k \in 1 .. Len(x) : x[k] = y[k]
      BY <2>6, <2>7, <3>1
    <3>3. x = y
      BY <2>3, <3>1, <3>2, SeqEqual
    <3> QED
      BY <2>1, <2>2, <2>8, <2>10, <3>3
  <2> QED
    BY <2>9, <2>10
<1> QED
  BY <1>2, <1>3


\* h[j]: those of the first j positions that lie within file s, read in order.
Present(s, at, h) ==
    /\ h \in [0 .. Len(at) -> Seq(Bytes)]
    /\ h[0] = <<>>
    /\ \A j \in 1 .. Len(at) :
         h[j] = IF at[j] < Len(s) THEN Append(h[j - 1], ByteAt(s, at[j])) ELSE h[j - 1]

LEMMA ByteAtType == ASSUME NEW s \in Contents, NEW i \in Nat PROVE ByteAt(s, i) \in Bytes
<1>1. s \in Seq(Bytes) /\ Len(s) \in Nat
  BY ContentsLen
<1>2. CASE i < Len(s)
  <2>1. i + 1 \in 1 .. Len(s)
    BY <1>1, <1>2
  <2> QED
    BY <1>1, <1>2, <2>1, ElementOfSeq DEF ByteAt
<1>3. CASE ~(i < Len(s))
  BY <1>3 DEF ByteAt, Bytes
<1> QED
  BY <1>2, <1>3

LEMMA PresentExists ==
    ASSUME NEW s \in Contents, NEW at \in Seq(Nat)
    PROVE  \E h : Present(s, at, h)
<1> DEFINE n == Len(at)
           step == [x \in Seq(Bytes) \X (1 .. n) |->
                      IF at[x[2]] < Len(s) THEN Append(x[1], ByteAt(s, at[x[2]])) ELSE x[1]]
<1>1. n \in Nat /\ \A j \in 1 .. n : at[j] \in Nat /\ ByteAt(s, at[j]) \in Bytes
  BY ElementOfSeq, LenProperties, ByteAtType
<1> HIDE DEF n
<1>2. step \in [Seq(Bytes) \X (1 .. n) -> Seq(Bytes)]
  <2>1. ASSUME NEW x \in Seq(Bytes) \X (1 .. n)
        PROVE  (IF at[x[2]] < Len(s) THEN Append(x[1], ByteAt(s, at[x[2]])) ELSE x[1]) \in Seq(Bytes)
    <3>1. PICK y \in Seq(Bytes), j \in 1 .. n : x[1] = y /\ x[2] = j
      OBVIOUS
    <3>2. Append(y, ByteAt(s, at[j])) \in Seq(Bytes)
      BY <1>1, AppendProperties
    <3> QED
      BY <3>1, <3>2
  <2> QED
    BY <2>1
<1>3. \A y \in Seq(Bytes), j \in 1 .. n :
        step[<<y, j>>] = IF at[j] < Len(s) THEN Append(y, ByteAt(s, at[j])) ELSE y
  OBVIOUS
<1> HIDE DEF step
<1>4. PICK h \in [0 .. n -> Seq(Bytes)] : Iterates(h, n, <<>>, step)
  <2>1. <<>> \in Seq(Bytes)
    OBVIOUS
  <2> QED
    BY <1>1, <1>2, <2>1, IterationExists
<1>5. ASSUME NEW j \in 1 .. n
      PROVE  h[j] = IF at[j] < Len(s) THEN Append(h[j - 1], ByteAt(s, at[j])) ELSE h[j - 1]
  <2>1. h[j - 1] \in Seq(Bytes) /\ h[j] = step[<<h[j - 1], j>>]
    BY <1>1, <1>4 DEF Iterates
  <2> QED
    BY <1>3, <2>1
<1>6. Present(s, at, h)
  BY <1>4, <1>5 DEF Present, Iterates, n
<1> QED
  BY <1>6

(* ByteStore's There is what is present.                                      *)
LEMMA ThereIs ==
    ASSUME DataInv, NEW f \in File, NEW at \in Seq(Nat), NEW h, Present(data[f], at, h)
    PROVE  Abstract!There(f, at) = h[Len(at)]
<1> DEFINE n == Len(at)
           in(k) == at[k] < [x \in File |-> Len(data[x])][f]
           v(k) == Abstract!At(f, at[k])
<1>1. n \in Nat /\ \A j \in 1 .. n : at[j] \in Nat
  BY ElementOfSeq, LenProperties
<1>2. \A j \in 1 .. n : (in(j) <=> at[j] < Len(data[f])) /\ v(j) = ByteAt(data[f], at[j])
  BY <1>1, AtIs
<1> HIDE DEF n, in, v
<1>3. h[0] = <<>> /\ \A j \in 1 .. n : h[j] = IF in(j) THEN Append(h[j - 1], v(j)) ELSE h[j - 1]
  BY <1>2 DEF Present, n
<1>4. h = [k \in 0 .. n |-> IF k = 0 THEN <<>> ELSE IF in(k) THEN Append(h[k - 1], v(k)) ELSE h[k - 1]]
  <2>1. ASSUME NEW k \in 0 .. n
        PROVE  h[k] = IF k = 0 THEN <<>> ELSE IF in(k) THEN Append(h[k - 1], v(k)) ELSE h[k - 1]
    <3>1. CASE k = 0
      BY <1>3, <3>1
    <3>2. CASE k # 0
      <4>1. k \in 1 .. n
        BY <1>1, <3>2
      <4> QED
        BY <1>3, <3>2, <4>1
    <3> QED
      BY <3>1, <3>2
  <2>2. h \in [0 .. n -> Seq(Bytes)]
    BY DEF Present, n
  <2> QED
    BY <2>1, <2>2, Zenon
<1>5. PICK w : /\ w = [k \in 0 .. n |-> IF k = 0 THEN <<>> ELSE IF in(k) THEN Append(w[k - 1], v(k)) ELSE w[k - 1]]
               /\ Abstract!There(f, at) = w[n]
  BY <1>4, Zenon DEF Abstract!There, n, in, v
<1>6. w[0] = h[0]
  BY <1>1, <1>3, <1>5
<1>7. ASSUME NEW k \in 1 .. n, w[k - 1] = h[k - 1] PROVE w[k] = h[k]
  <2>1. k \in 0 .. n /\ k # 0
    BY <1>1
  <2>2. w[k] = IF in(k) THEN Append(w[k - 1], v(k)) ELSE w[k - 1]
    BY <1>5, <2>1, Zenon
  <2> QED
    BY <1>3, <1>7, <2>2
<1>8. SameSteps(w, h, n)
  BY <1>6, <1>7 DEF SameSteps
<1>9. w[n] = h[n]
  <2>1. n \in 0 .. n
    BY <1>1
  <2> QED
    BY <1>1, <1>8, <2>1, IterationUnique
<1> QED
  BY <1>5, <1>9 DEF n

(* As many as there are positions only when every position is within.         *)
LEMMA PresentCount ==
    ASSUME NEW s \in Contents, NEW at \in Seq(Nat), NEW h, Present(s, at, h)
    PROVE  LET n == Len(at) IN
           /\ h[n] \in Seq(Bytes) /\ Len(h[n]) <= n
           /\ Len(h[n]) < n => \E k \in 1 .. n : at[k] >= Len(s)
           /\ Len(h[n]) = n => /\ \A k \in 1 .. n : at[k] < Len(s)
                               /\ h[n] = [k \in 1 .. n |-> ByteAt(s, at[k])]
<1> DEFINE n == Len(at)
           Full(j) == Len(h[j]) = j /\ \A k \in 1 .. j : at[k] < Len(s) /\ h[j][k] = ByteAt(s, at[k])
           Short(j) == Len(h[j]) < j /\ \E k \in 1 .. j : at[k] >= Len(s)
           S == {j \in 0 .. n : Full(j) \/ Short(j)}
<1>1. n \in Nat /\ Len(s) \in Nat /\ \A j \in 1 .. n : at[j] \in Nat /\ ByteAt(s, at[j]) \in Bytes
  BY ElementOfSeq, LenProperties, ByteAtType, ContentsLen
<1>2. /\ h \in [0 .. n -> Seq(Bytes)] /\ h[0] = <<>>
      /\ \A j \in 1 .. n : h[j] = IF at[j] < Len(s) THEN Append(h[j - 1], ByteAt(s, at[j])) ELSE h[j - 1]
  BY DEF Present
<1> HIDE DEF n
<1>3. 0 \in S
  BY <1>1, <1>2
<1>4. ASSUME NEW j \in 1 .. n, j - 1 \in S PROVE j \in S
  <2>1. PICK x, y, i : x = h[j - 1] /\ y = h[j] /\ i = j - 1
    OBVIOUS
  <2>2. x \in Seq(Bytes) /\ Len(x) \in Nat /\ i \in Nat /\ j = i + 1 /\ j \in 0 .. n /\ at[j] \in Nat
    BY <1>1, <1>2, <2>1
  <2>3. CASE at[j] < Len(s)
    <3>1. PICK b \in Bytes : b = ByteAt(s, at[j])
      BY <1>1
    <3>2. y = Append(x, b)
      BY <1>2, <2>1, <2>3, <3>1
    <3>3. Len(y) = Len(x) + 1 /\ y[Len(x) + 1] = b /\ \A k \in 1 .. Len(x) : y[k] = x[k]
      BY <2>2, <3>2, AppendProperties
    <3>4. CASE Full(j - 1)
      <4>1. Len(x) = i /\ \A k \in 1 .. i : at[k] < Len(s) /\ x[k] = ByteAt(s, at[k])
        BY <2>1, <3>4
      <4>2. ASSUME NEW k \in 1 .. j PROVE at[k] < Len(s) /\ y[k] = ByteAt(s, at[k])
        <5>1. CASE k = j
          BY <2>2, <2>3, <3>1, <3>3, <4>1, <5>1
        <5>2. CASE k # j
          <6>1. k \in 1 .. i
            BY <2>2, <5>2
          <6> QED
            BY <3>3, <4>1, <6>1
        <5> QED
          BY <5>1, <5>2
      <4>3. Len(y) = j
        BY <2>2, <3>3, <4>1
      <4> QED
        BY <2>1, <2>2, <4>2, <4>3
    <3>5. CASE Short(j - 1)
      <4>1. Len(x) < i /\ \E k \in 1 .. i : at[k] >= Len(s)
        BY <2>1, <3>5
      <4>2. Len(y) < j /\ \E k \in 1 .. j : at[k] >= Len(s)
        BY <2>2, <3>3, <4>1
      <4> QED
        BY <2>1, <2>2, <4>2
    <3> QED
      BY <1>4, <3>4, <3>5
  <2>4. CASE ~(at[j] < Len(s))
    <3>1. y = x /\ at[j] >= Len(s)
      BY <1>1, <1>2, <2>1, <2>2, <2>4
    <3>2. Len(x) <= i
      BY <1>4, <2>1, <2>2
    <3>3. Short(j)
      BY <2>1, <2>2, <3>1, <3>2
    <3> QED
      BY <2>2, <3>3
  <2> QED
    BY <2>3, <2>4
<1> HIDE DEF S
<1>5. 0 .. n \subseteq S
  BY <1>1, <1>3, <1>4, BoundedInduction
<1>6. n \in S /\ h[n] \in Seq(Bytes)
  BY <1>1, <1>2, <1>5
<1>7. Full(n) \/ Short(n)
  BY <1>6 DEF S
<1>8. PICK y \in Seq(Bytes) : y = h[n]
  BY <1>6
<1>9. Len(y) \in Nat /\ Len(y) <= n /\ (Len(y) < n => \E k \in 1 .. n : at[k] >= Len(s))
  BY <1>1, <1>7, <1>8
<1>10. ASSUME Len(y) = n PROVE (\A k \in 1 .. n : at[k] < Len(s)) /\ y = [k \in 1 .. n |-> ByteAt(s, at[k])]
  <2>1. \A k \in 1 .. n : at[k] < Len(s) /\ y[k] = ByteAt(s, at[k])
    BY <1>1, <1>7, <1>8, <1>10
  <2>2. y \in [1 .. n -> Bytes]
    BY <1>10
  <2> QED
    BY <2>1, <2>2
<1> QED
  BY <1>6, <1>8, <1>9, <1>10 DEF n


\* The l positions behind the first a are those from o on.
Run(at, a, l, o) == \A i \in 1 .. l : at[a + i] = o + i - 1

\* A read of l bytes from o on is what h adds between a and a + l.
Adds(s, h, a, l, o) == h[a + l] = h[a] \o pread(s, o, l)

LEMMA PieceRead ==
    ASSUME NEW s \in Contents, NEW at \in Seq(Nat), NEW h, Present(s, at, h),
           NEW a \in Nat, NEW l \in Nat, a + l <= Len(at), NEW o \in Nat, Run(at, a, l, o)
    PROVE  Adds(s, h, a, l, o)
<1> DEFINE S == {i \in 0 .. l : h[a + i] = h[a] \o pread(s, o, i)}
<1>1. Len(at) \in Nat /\ Len(s) \in Nat
  BY ContentsLen
<1>2. PICK x \in Seq(Bytes) : x = h[a]
  <2>1. a \in 0 .. Len(at)
    BY <1>1
  <2>2. h[a] \in Seq(Bytes)
    BY <2>1 DEF Present
  <2> QED
    BY <2>2
<1>3. 0 \in S
  <2>1. a + 0 = a /\ x \o <<>> = x /\ 0 \in 0 .. l
    BY <1>2, ConcatEmptySeq
  <2>2. pread(s, o, 0) = <<>>
    BY PreadStep
  <2> QED
    BY <1>2, <2>1, <2>2
<1>4. ASSUME NEW i \in 1 .. l, i - 1 \in S PROVE i \in S
  <2>1. PICK j \in Nat : j = i - 1
    OBVIOUS
  <2>2. i = j + 1 /\ i \in Nat /\ i > 0 /\ a + i \in 1 .. Len(at) /\ (a + i) - 1 = a + j /\ i \in 0 .. l
    BY <1>1, <2>1
  <2>3. at[a + i] = o + j /\ o + i - 1 = o + j
    BY <2>1, <2>2 DEF Run
  <2>4. h[a + j] = x \o pread(s, o, j)
    BY <1>2, <1>4, <2>1
  <2>5. h[a + i] = IF at[a + i] < Len(s) THEN Append(h[(a + i) - 1], ByteAt(s, at[a + i])) ELSE h[(a + i) - 1]
    BY <2>2 DEF Present
  <2>6. h[a + i] = IF o + j < Len(s) THEN Append(h[a + j], ByteAt(s, o + j)) ELSE h[a + j]
    BY <2>2, <2>3, <2>5
  <2>7. pread(s, o, i) = IF o + i - 1 < Len(s) THEN Append(pread(s, o, i - 1), ByteAt(s, o + i - 1))
                         ELSE pread(s, o, i - 1)
    BY <2>2, PreadStep
  <2>8. PICK y, b : y = pread(s, o, j) /\ b = ByteAt(s, o + j)
    OBVIOUS
  <2>9. y \in Seq(Bytes) /\ b \in Bytes
    BY <2>8, PreadBytes, ByteAtType
  <2>10. pread(s, o, i) = IF o + j < Len(s) THEN Append(y, b) ELSE y
    BY <2>1, <2>3, <2>7, <2>8
  <2>11. Append(x \o y, b) = x \o Append(y, b)
    <3>1. x \o y \in Seq(Bytes) /\ <<b>> \in Seq(Bytes)
      BY <2>9, ConcatProperties
    <3>2. Append(x \o y, b) = (x \o y) \o <<b>> /\ Append(y, b) = y \o <<b>>
      BY <2>9, <3>1, AppendIsConcat
    <3>3. (x \o y) \o <<b>> = x \o (y \o <<b>>)
      BY <2>9, <3>1, ConcatAssociative, SMTT(30)
    <3> QED
      BY <3>2, <3>3
  <2>12. h[a + i] = x \o pread(s, o, i)
    BY <2>4, <2>6, <2>8, <2>10, <2>11
  <2> QED
    BY <1>2, <2>2, <2>12
<1> HIDE DEF S
<1>5. 0 .. l \subseteq S
  BY <1>3, <1>4, BoundedInduction, Zenon
<1>6. l \in S
  BY <1>5
<1> QED
  BY <1>6 DEF S, Adds

(* The loops of sgl_read and vec_read deliver what is present.                *)
LEMMA GatheredIsPresent ==
    ASSUME NEW s \in Contents, NEW base \in Nat, NEW pairs \in Pairs, NEW h,
           Present(s, positions(base, pairs), h)
    PROVE  gathered(s, base, pairs) = h[Len(positions(base, pairs))]
<1> DEFINE n == Len(pairs)
           e == Ends(pairs)
           at == positions(base, pairs)
           q(k) == pread(s, base + pairs[k].off, pairs[k].len)
           g == [k \in 0 .. n |-> h[e[k]]]
<1>1. n \in Nat /\ \A k \in 1 .. n : pairs[k].off \in Nat /\ pairs[k].len \in Nat
  BY PairTypes
<1>2. e \in [0 .. n -> Nat] /\ e[0] = 0
  BY EndsDefined DEF IsEnds
<1>3. \A k \in 1 .. n : e[k] = e[k - 1] + pairs[k].len
  BY EndsDefined DEF IsEnds
<1>4. at \in Seq(Nat) /\ Len(at) = e[n]
  BY PositionsAre
<1>5. \A k \in 1 .. n : \A i \in 1 .. pairs[k].len : at[e[k - 1] + i] = base + pairs[k].off + i - 1
  BY PositionsAre
<1>6. \A k \in 0 .. n : e[k] <= e[n]
  <2>1. ASSUME NEW k \in 0 .. n PROVE e[k] <= e[n]
    <3>1. n \in 0 .. n /\ k <= n
      BY <1>1
    <3> QED
      BY <3>1, EndsGrow
  <2> QED
    BY <2>1
<1>7. Present(s, at, h)
  OBVIOUS
<1> HIDE DEF e, at, q, n
<1>8. g[0] = <<>> /\ g \in [0 .. n -> {h[i] : i \in 0 .. e[n]}]
  <2>1. \A k \in 0 .. n : e[k] \in 0 .. e[n]
    BY <1>1, <1>2, <1>6
  <2> QED
    BY <1>1, <1>2, <1>7, <2>1 DEF Present
<1>9. ASSUME NEW k \in 1 .. n PROVE g[k] = g[k - 1] \o q(k)
  <2>1. PICK a, l, o : a = e[k - 1] /\ l = pairs[k].len /\ o = base + pairs[k].off
    OBVIOUS
  <2>2. a \in Nat /\ l \in Nat /\ o \in Nat /\ a + l = e[k] /\ a + l <= Len(at) /\ k - 1 \in 0 .. n /\ k \in 0 .. n
    <3>1. k - 1 \in 0 .. n /\ k \in 0 .. n
      BY <1>1
    <3>2. l \in Nat /\ o \in Nat
      BY <1>1, <2>1
    <3>3. a \in Nat
      BY <1>2, <2>1, <3>1
    <3>4. a + l = e[k]
      BY <1>3, <2>1
    <3>5. a + l <= Len(at)
      BY <1>4, <1>6, <3>1, <3>4
    <3> QED
      BY <3>1, <3>2, <3>3, <3>4, <3>5
  <2>3. Run(at, a, l, o)
    BY <1>5, <2>1 DEF Run
  <2>4. h[a + l] = h[a] \o pread(s, o, l)
    <3>1. at \in Seq(Nat) /\ a \in Nat /\ l \in Nat /\ o \in Nat /\ a + l <= Len(at)
      BY <1>4, <2>2
    <3>2. Adds(s, h, a, l, o)
      BY <1>7, <2>3, <3>1, PieceRead
    <3> QED
      BY <3>2 DEF Adds
  <2> QED
    BY <2>1, <2>2, <2>4 DEF q
<1>10. g = [k \in 0 .. n |-> IF k = 0 THEN <<>> ELSE g[k - 1] \o q(k)]
  <2>1. ASSUME NEW k \in 0 .. n PROVE g[k] = IF k = 0 THEN <<>> ELSE g[k - 1] \o q(k)
    <3>1. CASE k = 0
      BY <1>8, <3>1
    <3>2. CASE k # 0
      <4>1. k \in 1 .. n
        BY <1>1, <3>2
      <4> QED
        BY <1>9, <3>2, <4>1
    <3> QED
      BY <3>1, <3>2
  <2> HIDE DEF g
  <2> QED
    BY <1>8, <2>1, Zenon
<1>11. g[n] = h[Len(at)]
  BY <1>1, <1>4
<1> HIDE DEF g
<1>12. PICK w : /\ w = [k \in 0 .. n |-> IF k = 0 THEN <<>> ELSE w[k - 1] \o q(k)]
                /\ gathered(s, base, pairs) = w[n]
  BY <1>10, Zenon DEF gathered, n, q
<1>13. w[0] = g[0]
  BY <1>1, <1>8, <1>12
<1>14. ASSUME NEW k \in 1 .. n, w[k - 1] = g[k - 1] PROVE w[k] = g[k]
  <2>1. k \in 0 .. n /\ k # 0
    BY <1>1
  <2>2. w[k] = w[k - 1] \o q(k)
    BY <1>12, <2>1, Zenon
  <2> QED
    BY <1>9, <1>14, <2>2
<1>15. SameSteps(w, g, n)
  BY <1>13, <1>14 DEF SameSteps
<1>16. w[n] = g[n]
  <2>1. n \in 0 .. n
    BY <1>1
  <2> QED
    BY <1>1, <1>15, <2>1, IterationUnique
<1> QED
  BY <1>11, <1>12, <1>16 DEF at


\* The reply to a READ of positions at of file s, for a length of len.
ReadReply(f, at, len, s) ==
    \/ /\ Seen'.ret = "done" /\ f \in dfile /\ \A k \in 1 .. Len(at) : at[k] < Len(s)
       /\ len = Len(at)
       /\ Seen'.out = [k \in 1 .. Len(at) |-> ByteAt(s, at[k])]
    \/ /\ Seen'.ret = "short" /\ f \in dfile
       /\ len > Len(at) \/ \E k \in 1 .. Len(at) : at[k] >= Len(s)
       /\ \/ Seen'.out = [k \in 1 .. Len(at) |-> ByteAt(s, at[k])]
          \/ Seen'.out = Abstract!There(f, at)
    \/ Seen'.ret \in {"failed", "lost"}

LEMMA ReadRequest ==
    ASSUME NEW p, NEW o, NEW at, NEW len
    PROVE  LET req == read_req(p, o, at, len)
           IN  req.op = "READ" /\ req.obj = <<p, o>> /\ req.at = at /\ req.len = len
BY DEF read_req

LEMMA ReadSeen ==
    ASSUME DataInv, NEW f \in File, NEW at \in Seq(Nat), NEW len, ReadReply(f, at, len, data[f]),
           data' = data, dfile' = dfile,
           NEW req, req.op = "READ", req.obj = f, req.at = at, req.len = len, Seen'.req = req
    PROVE  DataInv' /\ Abstract!Next
<1>1. DataInv' /\ Abstract!Untouched
  BY Unmoved
<1>2. PICK all : all = [k \in 1 .. Len(req.at) |-> Abstract!At(req.obj, req.at[k])]
  OBVIOUS
<1>3. all = [k \in 1 .. Len(at) |-> ByteAt(data[f], at[k])]
  <2>1. ASSUME NEW k \in 1 .. Len(at) PROVE Abstract!At(req.obj, req.at[k]) = ByteAt(data[f], at[k])
    <3>1. at[k] \in Nat
      BY ElementOfSeq
    <3>2. Abstract!At(f, at[k]) = ByteAt(data[f], at[k])
      BY <3>1, AtIs
    <3> QED
      BY <3>2
  <2> QED
    BY <1>2, <2>1
<1>4. Sizes[req.obj] = Len(data[f])
  BY DEF Sizes
<1>5. \/ /\ Seen'.ret = "done" /\ req.obj \in dfile /\ Seen'.out = all
         /\ req.len = Len(req.at)
         /\ \A k \in 1 .. Len(req.at) : req.at[k] < Sizes[req.obj]
      \/ /\ Seen'.ret = "short" /\ req.obj \in dfile
         /\ req.len > Len(req.at) \/ \E k \in 1 .. Len(req.at) : req.at[k] >= Sizes[req.obj]
         /\ Seen'.out = all \/ Seen'.out = Abstract!There(req.obj, req.at)
      \/ Seen'.ret \in {"failed", "lost"}
  BY <1>3, <1>4 DEF ReadReply
<1>6. Abstract!Read(req)
  BY <1>1, <1>2, <1>5, Zenon DEF Abstract!Read, Abstract!Done, Abstract!Broken, Seen, Sizes
<1> QED
  BY <1>1, <1>6, Served, Zenon DEF Abstract!Serve

(* A READ that returns nothing: refused, failed, or not survived.             *)
LEMMA ReadRefused ==
    ASSUME DataInv, NEW f \in File, NEW at \in Seq(Nat), NEW len,
           NEW req, req.op = "READ", req.obj = f, req.at = at, req.len = len,
           refused(req, "ILLEGAL_REQUEST") \/ read_failed(req)
    PROVE  DataInv' /\ Abstract!Next
<1>1. data' = data /\ dfile' = dfile /\ Seen'.req = req /\ Seen'.ret \in {"failed", "lost"}
  <2>1. CASE refused(req, "ILLEGAL_REQUEST")
    BY <2>1, RefusedReply, StatusOf
  <2>2. CASE refused(req, "HARDWARE_ERROR")
    BY <2>2, RefusedReply, StatusOf
  <2>3. CASE died(req) /\ UNCHANGED data
    BY <2>3, DiedSeen
  <2> QED
    BY <2>1, <2>2, <2>3 DEF read_failed
<1>2. ReadReply(f, at, len, data[f])
  BY <1>1 DEF ReadReply
<1> QED
  BY <1>1, <1>2, ReadSeen

LEMMA ContigPositions ==
    ASSUME NEW off \in Nat, NEW len \in Nat
    PROVE  LET at == positions(off, contig_pairs(len))
           IN  at \in Seq(Nat) /\ Len(at) = len /\ \A i \in 1 .. len : at[i] = off + i - 1
<1>1. PICK c, at : c = contig_pairs(len) /\ at = positions(off, c)
  OBVIOUS
<1>2. c \in Pairs /\ Len(c) = 1 /\ c[1].off = 0 /\ c[1].len = len /\ Ends(c)[0] = 0 /\ Ends(c)[1] = len
  BY <1>1, ContigIsPairs
<1>3. at \in Seq(Nat) /\ Len(at) = Ends(c)[Len(c)]
  BY <1>1, <1>2, PositionsAre
<1>4. \A k \in 1 .. Len(c) : \A i \in 1 .. c[k].len : at[Ends(c)[k - 1] + i] = off + c[k].off + i - 1
  BY <1>1, <1>2, PositionsAre
<1>5. 1 \in 1 .. Len(c) /\ 1 - 1 = 0
  BY <1>2
<1>6. \A i \in 1 .. len : at[0 + i] = off + 0 + i - 1
  BY <1>2, <1>4, <1>5
<1> QED
  BY <1>1, <1>2, <1>3, <1>6

LEMMA ContigReadRefines ==
    ASSUME DataInv, NEW t \in Targets, NEW off \in Nat, NEW len \in Nat, contig_read(t[1], t[2], off, len)
    PROVE  DataInv' /\ Abstract!Next
<1>1. PICK f, at, req : /\ f = <<t[1], t[2]>> /\ at = positions(off, contig_pairs(len))
                        /\ req = read_req(t[1], t[2], at, len)
  OBVIOUS
<1>2. f \in File /\ req.op = "READ" /\ req.obj = f /\ req.at = at /\ req.len = len
  BY <1>1, TargetIsFile, ReadRequest
<1>3. at \in Seq(Nat) /\ Len(at) = len /\ \A i \in 1 .. len : at[i] = off + i - 1
  BY <1>1, ContigPositions
<1>4. CASE refused(req, "ILLEGAL_REQUEST") \/ read_failed(req)
  BY <1>2, <1>3, <1>4, ReadRefused
<1>5. PICK s, got, out : /\ s = data[f] /\ got = pread(s, off, len)
                         /\ out = [i \in 1 .. len |-> IF i <= Len(got) THEN got[i] ELSE Zero]
  OBVIOUS
<1>6. CASE /\ f \in dfile
           /\ replied(req, IF Len(got) < len THEN "READ_PAST_END" ELSE "OSD_OK", out)
           /\ data_only /\ UNCHANGED data
  <2>1. s \in Contents /\ Len(s) \in Nat
    BY <1>2, <1>5, ContentsLen DEF DataInv
  <2>2. Len(got) = IF off >= Len(s) THEN 0 ELSE Least(len, Len(s) - off)
    BY <1>5, <2>1, PreadBytes
  <2>3. Len(got) \in Nat /\ \A i \in 1 .. Len(got) : got[i] = ByteAt(s, off + i - 1)
    <3>1. got \in Seq(Bytes)
      BY <1>5, <2>1, PreadBytes
    <3>2. \A i \in 1 .. Len(got) : got[i] = ByteAt(s, off + i - 1)
      BY <1>5, <2>1, PreadBytes
    <3> QED
      BY <3>1, <3>2
  <2>4. PICK m \in Nat : m = Len(got)
    BY <2>3
  <2>5. m = IF off >= Len(s) THEN 0 ELSE IF len < Len(s) - off THEN len ELSE Len(s) - off
    BY <2>2, <2>4 DEF Least
  <2>6. out = [k \in 1 .. Len(at) |-> ByteAt(s, at[k])]
    <3>1. ASSUME NEW i \in 1 .. len PROVE (IF i <= Len(got) THEN got[i] ELSE Zero) = ByteAt(s, at[i])
      <4>1. CASE i <= m
        BY <1>3, <2>3, <2>4, <4>1
      <4>2. CASE ~(i <= m)
        <5>1. ~(off + i - 1 < Len(s))
          BY <2>1, <2>5, <4>2
        <5> QED
          BY <1>3, <2>4, <4>2, <5>1 DEF ByteAt
      <4> QED
        BY <4>1, <4>2
    <3> QED
      BY <1>3, <1>5, <3>1
  <2>7. dfile' = dfile
    BY <1>6 DEF data_only, disk
  <2>8. CASE m < len
    <3>1. Seen'.req = req /\ Seen'.ret = "short" /\ Seen'.out = out
      <4>1. replied(req, "READ_PAST_END", out)
        BY <1>6, <2>4, <2>8
      <4> QED
        BY <4>1, SeenReply, StatusOf DEF replied
    <3>2. m + 1 \in 1 .. Len(at) /\ at[m + 1] >= Len(s)
      <4>1. m + 1 \in 1 .. len /\ off + (m + 1) - 1 >= Len(s)
        BY <2>1, <2>5, <2>8
      <4> QED
        BY <1>3, <4>1
    <3>3. ReadReply(f, at, len, s)
      BY <1>3, <1>6, <2>6, <3>1, <3>2 DEF ReadReply
    <3>4. ReadReply(f, at, len, data[f])
      BY <1>5, <3>3 DEF ReadReply
    <3> QED
      BY <1>2, <1>3, <1>6, <2>7, <3>1, <3>4, ReadSeen
  <2>9. CASE ~(m < len)
    <3>1. Seen'.req = req /\ Seen'.ret = "done" /\ Seen'.out = out
      <4>1. replied(req, "OSD_OK", out)
        BY <1>6, <2>4, <2>9
      <4> QED
        BY <4>1, SeenReply, StatusOf DEF replied
    <3>2. ASSUME NEW k \in 1 .. Len(at) PROVE at[k] < Len(s)
      <4>1. k \in 1 .. len /\ off + k - 1 < Len(s)
        BY <1>3, <2>1, <2>5, <2>9
      <4> QED
        BY <1>3, <4>1
    <3>3. ReadReply(f, at, len, s)
      BY <1>3, <1>6, <2>6, <3>1, <3>2 DEF ReadReply
    <3>4. ReadReply(f, at, len, data[f])
      BY <1>5, <3>3 DEF ReadReply
    <3> QED
      BY <1>2, <1>3, <1>6, <2>7, <3>1, <3>4, ReadSeen
  <2> QED
    BY <2>8, <2>9
<1> QED
  BY <1>1, <1>4, <1>5, <1>6 DEF contig_read, opens


(* What sgl_read and vec_read have in their buffer after the last piece.      *)
Buffered(f, at, s, got, end) ==
    /\ at \in Seq(Nat) /\ Len(at) \in Nat /\ Len(at) = end
    /\ Len(got) \in Nat /\ Len(got) <= Len(at) /\ got = Abstract!There(f, at)
    /\ Len(got) < Len(at) => \E k \in 1 .. Len(at) : at[k] >= Len(s)
    /\ Len(got) = Len(at) => /\ \A k \in 1 .. Len(at) : at[k] < Len(s)
                             /\ got = [k \in 1 .. Len(at) |-> ByteAt(s, at[k])]

LEMMA GatheredReply ==
    ASSUME DataInv, NEW f \in File, NEW base \in Nat, NEW pairs \in Pairs, NEW at, at = positions(base, pairs),
           NEW s, s = data[f], NEW got, got = gathered(s, base, pairs),
           NEW end, end = Ends(pairs)[Len(pairs)]
    PROVE  Buffered(f, at, s, got, end)
<1>1. at \in Seq(Nat) /\ Len(at) = Ends(pairs)[Len(pairs)] /\ Len(at) \in Nat
  BY PositionsAre
<1>2. s \in Contents
  BY DEF DataInv
<1>3. PICK h : Present(s, at, h)
  BY <1>1, <1>2, PresentExists
<1>4. Present(data[f], at, h) /\ Present(s, positions(base, pairs), h)
  BY <1>3
<1>5. got = h[Len(at)]
  BY <1>2, <1>4, GatheredIsPresent
<1>6. got = Abstract!There(f, at)
  BY <1>1, <1>4, <1>5, ThereIs
<1>7. /\ h[Len(at)] \in Seq(Bytes) /\ Len(h[Len(at)]) <= Len(at)
      /\ Len(h[Len(at)]) < Len(at) => \E k \in 1 .. Len(at) : at[k] >= Len(s)
  BY <1>1, <1>2, <1>3, PresentCount
<1>8. Len(h[Len(at)]) = Len(at) => /\ \A k \in 1 .. Len(at) : at[k] < Len(s)
                                   /\ h[Len(at)] = [k \in 1 .. Len(at) |-> ByteAt(s, at[k])]
  BY <1>1, <1>2, <1>3, PresentCount
<1>9. Len(got) \in Nat
  BY <1>5, <1>7
<1> QED
  BY <1>1, <1>5, <1>6, <1>7, <1>8, <1>9 DEF Buffered

LEMMA SglReadRefines ==
    ASSUME DataInv, NEW t \in Targets, NEW base \in Nat, NEW pairs \in Pairs,
           NEW len \in Nat, total(pairs) <= len, sgl_read(t[1], t[2], base, pairs, len)
    PROVE  DataInv' /\ Abstract!Next
<1>1. PICK f, at, req : /\ f = <<t[1], t[2]>> /\ at = positions(base, pairs)
                        /\ req = read_req(t[1], t[2], at, len)
  OBVIOUS
<1>2. f \in File /\ req.op = "READ" /\ req.obj = f /\ req.at = at /\ req.len = len
  BY <1>1, TargetIsFile, ReadRequest
<1>3. PICK s, got, end : /\ s = data[f] /\ got = gathered(s, base, pairs)
                          /\ end = Ends(pairs)[Len(pairs)]
  OBVIOUS
<1>4. /\ at \in Seq(Nat) /\ Len(at) \in Nat /\ Len(at) = Ends(pairs)[Len(pairs)]
      /\ Len(got) \in Nat /\ Len(got) <= Len(at) /\ got = Abstract!There(f, at)
      /\ Len(got) < Len(at) => \E k \in 1 .. Len(at) : at[k] >= Len(s)
      /\ Len(got) = Len(at) => /\ \A k \in 1 .. Len(at) : at[k] < Len(s)
                               /\ got = [k \in 1 .. Len(at) |-> ByteAt(s, at[k])]
  <2>1. Buffered(f, at, s, got, end)
    BY <1>1, <1>2, <1>3, GatheredReply
  <2> QED
    BY <1>3, <2>1, Zenon DEF Buffered
<1>5. total(pairs) = Len(at)
  BY <1>1, <1>4, PositionsAre DEF total
<1>6. CASE refused(req, "ILLEGAL_REQUEST") \/ read_failed(req)
  BY <1>2, <1>4, <1>6, ReadRefused
<1>7. CASE /\ f \in dfile
           /\ replied(req, IF Len(got) < len THEN "READ_PAST_END" ELSE "OSD_OK", got)
           /\ data_only /\ UNCHANGED data
  <2>1. dfile' = dfile
    BY <1>7 DEF data_only, disk
  <2>2. CASE Len(got) < len
    <3>1. replied(req, "READ_PAST_END", got)
      BY <1>7, <2>2
    <3>2. Seen'.req = req /\ Seen'.ret = "short" /\ Seen'.out = got
      BY <3>1, SeenReply, StatusOf DEF replied
    <3>3. len > Len(at) \/ \E k \in 1 .. Len(at) : at[k] >= Len(s)
      <4>1. CASE Len(got) < Len(at)
        BY <1>4, <4>1
      <4>2. CASE Len(got) = Len(at)
        BY <2>2, <4>2
      <4> QED
        BY <1>4, <4>1, <4>2
    <3>4. ReadReply(f, at, len, data[f])
      BY <1>3, <1>4, <1>7, <3>2, <3>3 DEF ReadReply
    <3> QED
      BY <1>2, <1>4, <1>7, <2>1, <3>2, <3>4, ReadSeen
  <2>3. CASE ~(Len(got) < len)
    <3>1. Len(got) = Len(at) /\ len = Len(at)
      BY <1>4, <1>5, <2>3
    <3>2. replied(req, "OSD_OK", got)
      BY <1>7, <2>3
    <3>3. Seen'.req = req /\ Seen'.ret = "done" /\ Seen'.out = got
      BY <3>2, SeenReply, StatusOf DEF replied
    <3>4. ReadReply(f, at, len, data[f])
      BY <1>3, <1>4, <1>7, <3>1, <3>3 DEF ReadReply
    <3> QED
      BY <1>2, <1>4, <1>7, <2>1, <3>3, <3>4, ReadSeen
  <2> QED
    BY <2>2, <2>3
<1> QED
  BY <1>1, <1>3, <1>6, <1>7 DEF sgl_read, opens

LEMMA VecReadRefines ==
    ASSUME DataInv, NEW t \in Targets, NEW base \in Nat,
           NEW stride \in Nat, NEW length \in Nat, length > 0, NEW bytes \in Nat,
           vec_read(t[1], t[2], base, stride, length, bytes)
    PROVE  DataInv' /\ Abstract!Next
<1>0. PICK pairs : pairs = vec_pairs(stride, length, bytes)
  OBVIOUS
<1>1. PICK f, at, req : /\ f = <<t[1], t[2]>> /\ at = positions(base, pairs)
                        /\ req = read_req(t[1], t[2], at, bytes)
  OBVIOUS
<1>2. f \in File /\ req.op = "READ" /\ req.obj = f /\ req.at = at /\ req.len = bytes
  BY <1>1, TargetIsFile, ReadRequest
<1>3. PICK s, got, end : /\ s = data[f] /\ got = gathered(s, base, pairs)
                          /\ end = Ends(pairs)[Len(pairs)]
  OBVIOUS
<1>4. pairs \in Pairs /\ Ends(pairs)[Len(pairs)] = bytes
  BY <1>0, VecIsPairs
<1>5. /\ at \in Seq(Nat) /\ Len(at) = bytes
      /\ Len(got) = Len(at) => /\ \A k \in 1 .. Len(at) : at[k] < Len(s)
                               /\ got = [k \in 1 .. Len(at) |-> ByteAt(s, at[k])]
  <2>1. Buffered(f, at, s, got, end)
    BY <1>1, <1>2, <1>3, <1>4, GatheredReply
  <2> QED
    BY <1>3, <1>4, <2>1, Zenon DEF Buffered
<1>6. CASE refused(req, "ILLEGAL_REQUEST") \/ read_failed(req)
  BY <1>2, <1>5, <1>6, ReadRefused
<1>7. CASE f \in dfile /\ Len(got) = bytes /\ replied(req, "OSD_OK", got) /\ data_only /\ UNCHANGED data
  <2>1. dfile' = dfile
    BY <1>7 DEF data_only, disk
  <2>2. Seen'.req = req /\ Seen'.ret = "done" /\ Seen'.out = got
    BY <1>7, SeenReply, StatusOf DEF replied
  <2>3. ReadReply(f, at, bytes, data[f])
    BY <1>3, <1>5, <1>7, <2>2 DEF ReadReply
  <2> QED
    BY <1>2, <1>5, <1>7, <2>1, <2>2, <2>3, ReadSeen
<1> QED
  BY <1>0, <1>1, <1>3, <1>6, <1>7 DEF vec_read, opens

LEMMA ReadStep == ASSUME DataInv, Read PROVE DataInv' /\ Abstract!Next
<1>1. PICK t \in Targets, off \in Offset :
        \/ \E len \in 0 .. MaxBuf : contig_read(t[1], t[2], off, len)
        \/ \E g \in Sgls : \E len \in total(g) .. MaxBuf : sgl_read(t[1], t[2], off, g, len)
        \/ \E v \in Strides : vec_read(t[1], t[2], off, v.stride, v.length, v.bytes)
  BY DEF Read
<1>2. off \in Nat
  BY DataAssumption DEF Offset
<1>3. ASSUME NEW len \in 0 .. MaxBuf, contig_read(t[1], t[2], off, len) PROVE DataInv' /\ Abstract!Next
  <2>1. len \in Nat
    BY DataAssumption
  <2> QED
    BY <1>2, <1>3, <2>1, ContigReadRefines
<1>4. ASSUME NEW g \in Sgls, NEW len \in total(g) .. MaxBuf, sgl_read(t[1], t[2], off, g, len)
      PROVE  DataInv' /\ Abstract!Next
  <2>1. g \in Pairs
    BY DataAssumption DEF Pairs
  <2>2. total(g) \in Nat
    BY <2>1, PositionsAre DEF total
  <2>3. len \in Nat /\ total(g) <= len
    BY <2>2
  <2> QED
    BY <1>2, <1>4, <2>1, <2>3, SglReadRefines
<1>5. ASSUME NEW v \in Strides, vec_read(t[1], t[2], off, v.stride, v.length, v.bytes) PROVE DataInv' /\ Abstract!Next
  <2>1. v.stride \in Nat /\ v.length \in Nat /\ v.length > 0 /\ v.bytes \in Nat
    BY DataAssumption DEF Strides
  <2> QED
    BY <1>2, <1>5, <2>1, VecReadRefines
<1> QED
  BY <1>1, <1>3, <1>4, <1>5

-----------------------------------------------------------------------------
(* READ MAP                                                                   *)

(* A sum is where its partial sums end.                                       *)
LEMMA TotalIs ==
    ASSUME NEW lens, NEW n \in Nat, Len(lens) = n, NEW e \in [0 .. n -> Nat],
           e[0] = 0, \A k \in 1 .. n : e[k] = e[k - 1] + lens[k]
    PROVE  Abstract!Total(lens) = e[n]
<1>1. e = [k \in 0 .. n |-> IF k = 0 THEN 0 ELSE e[k - 1] + lens[k]]
  <2>1. ASSUME NEW k \in 0 .. n PROVE e[k] = IF k = 0 THEN 0 ELSE e[k - 1] + lens[k]
    <3>1. CASE k = 0
      BY <3>1
    <3>2. CASE k # 0
      <4>1. k \in 1 .. n
        BY <3>2
      <4> QED
        BY <3>2, <4>1
    <3> QED
      BY <3>1, <3>2
  <2> QED
    BY <2>1, Zenon
<1>2. PICK w : /\ w = [k \in 0 .. n |-> IF k = 0 THEN 0 ELSE w[k - 1] + lens[k]]
               /\ Abstract!Total(lens) = w[n]
  BY <1>1, Zenon DEF Abstract!Total
<1>3. w[0] = e[0]
  BY <1>2
<1>4. ASSUME NEW k \in 1 .. n, w[k - 1] = e[k - 1] PROVE w[k] = e[k]
  <2>1. k \in 0 .. n /\ k # 0
    OBVIOUS
  <2>2. w[k] = w[k - 1] + lens[k]
    BY <1>2, <2>1, Zenon
  <2> QED
    BY <1>4, <2>2
<1>5. SameSteps(w, e, n)
  BY <1>3, <1>4 DEF SameSteps
<1>6. n \in 0 .. n
  OBVIOUS
<1> QED
  BY <1>2, <1>5, <1>6, IterationUnique

(* The descriptors are the pieces of a strided transfer of the bytes left.    *)
LEMMA DscptrsCover ==
    ASSUME NEW size \in Nat, NEW off \in Nat, off <= size
    PROVE  /\ \A k \in 1 .. Len(dscptrs(size, off)) : dscptrs(size, off)[k] > 0
           /\ Abstract!Total(dscptrs(size, off)) = size - off
<1> DEFINE l == DscptrSize
           b == size - off
           n == (b + l - 1) \div l
           v == vec_pairs(1, l, b)
           d == dscptrs(size, off)
<1>1. l \in Nat /\ l > 0 /\ b \in Nat /\ 1 \in Nat
  BY DataAssumption
<1>2. n \in Nat /\ \A k \in 1 .. n : (k - 1) * l \in Nat /\ (k - 1) * l < b
  BY <1>1, PieceCount
<1>3. d = [k \in 1 .. n |-> Least(l, b - (k - 1) * l)]
  BY DEF dscptrs
<1>4. v = [k \in 1 .. n |-> [off |-> (k - 1) * 1, len |-> Least(l, b - (k - 1) * l)]]
  BY DEF vec_pairs
<1>5. v \in Pairs /\ Ends(v)[Len(v)] = b
  BY <1>1, VecIsPairs
<1> HIDE DEF l, b, n, v, d
<1>6. Len(v) = n
  <2>1. v \in Seq([off : Nat, len : Nat]) /\ DOMAIN v = 1 .. n
    BY <1>4, <1>5 DEF Pairs
  <2>2. DOMAIN v = 1 .. Len(v) /\ Len(v) \in Nat
    BY <2>1, LenProperties
  <2> QED
    BY <1>2, <2>1, <2>2
<1>7. ASSUME NEW k \in 1 .. n PROVE d[k] \in Nat /\ d[k] > 0 /\ d[k] = v[k].len
  <2>1. (k - 1) * l \in Nat /\ (k - 1) * l < b
    BY <1>2
  <2>2. PICK a \in Nat : a = (k - 1) * l
    BY <2>1
  <2>3. d[k] = Least(l, b - a)
    BY <1>3, <2>2
  <2>4. v[k].len = Least(l, b - a)
    BY <1>4, <2>2
  <2> QED
    BY <1>1, <2>1, <2>2, <2>3, <2>4 DEF Least
<1>8. Len(d) = n
  <2>1. \A k \in 1 .. n : Least(l, b - (k - 1) * l) \in Nat
    BY <1>3, <1>7
  <2>2. d \in [1 .. n -> Nat]
    BY <1>3, <2>1
  <2> QED
    BY <1>2, <2>2, IntervalSeq
<1>9. PICK e : e = Ends(v)
  OBVIOUS
<1>10. e \in [0 .. n -> Nat] /\ e[0] = 0 /\ \A k \in 1 .. n : e[k] = e[k - 1] + v[k].len
  BY <1>5, <1>6, <1>9, EndsDefined DEF IsEnds
<1>11. \A k \in 1 .. n : e[k] = e[k - 1] + d[k]
  BY <1>7, <1>10
<1>12. Abstract!Total(d) = e[n]
  BY <1>2, <1>8, <1>10, <1>11, TotalIs
<1>13. Abstract!Total(d) = b
  BY <1>5, <1>6, <1>9, <1>12
<1> QED
  BY <1>7, <1>8, <1>13 DEF b, d

LEMMA ReadMapStep == ASSUME DataInv, ReadMap PROVE DataInv' /\ Abstract!Next
<1>1. PICK t \in Targets, off \in Offset, alloc \in {0, 8, 24}, map_type \in {"WRITTEN_DATA", "DATA_HOLE"} :
        osd_read_map(t[1], t[2], alloc, off, map_type)
  BY DEF ReadMap
<1>2. PICK f, req : /\ f = <<t[1], t[2]>>
                    /\ req = [op |-> "READ_MAP", obj |-> f, off |-> off, alloc |-> alloc]
  OBVIOUS
<1>3. /\ f \in File /\ off \in Nat
      /\ req.op = "READ_MAP" /\ req.obj = f /\ req.off = off /\ req.alloc = alloc
  BY <1>2, TargetIsFile, DataAssumption DEF Offset
<1>4. ASSUME NEW out, data' = data, dfile' = dfile, Seen'.req = req, Seen'.out = out,
             Seen'.ret = "done" /\ req.alloc # 0 =>
               /\ req.obj \in dfile /\ req.off <= Sizes[req.obj]
               /\ \A k \in 1 .. Len(out) : out[k] > 0
               /\ Abstract!Total(out) = Sizes[req.obj] - req.off
      PROVE  DataInv' /\ Abstract!Next
  <2>1. DataInv' /\ Abstract!Untouched
    BY <1>4, Unmoved
  <2>2. Abstract!ReadMap(req)
    BY <1>3, <1>4, <2>1, Zenon DEF Abstract!ReadMap, Abstract!Done, Seen, Sizes
  <2>3. Abstract!Serve(req)
    BY <2>2, Zenon DEF Abstract!Serve
  <2> QED
    BY <1>4, <2>1, <2>3, Served
<1>5. CASE alloc = 0 /\ refused(req, "OSD_OK")
  <2>1. data' = data /\ dfile' = dfile /\ Seen'.req = req
    BY <1>5, RefusedReply
  <2> QED
    BY <1>3, <1>4, <1>5, <2>1
<1>6. CASE \/ \E ret \in {"ILLEGAL_REQUEST", "OSD_ERROR", "HARDWARE_ERROR"} : refused(req, ret)
           \/ died(req) /\ UNCHANGED data
  <2>1. data' = data /\ dfile' = dfile /\ Seen'.req = req /\ Seen'.ret \in {"failed", "lost"}
    <3>1. CASE died(req) /\ UNCHANGED data
      BY <3>1, DiedSeen
    <3>2. ASSUME NEW ret \in {"ILLEGAL_REQUEST", "OSD_ERROR", "HARDWARE_ERROR"}, refused(req, ret)
          PROVE  data' = data /\ dfile' = dfile /\ Seen'.req = req /\ Seen'.ret = "failed"
      BY <3>2, RefusedReply, StatusOf
    <3> QED
      BY <1>6, <3>1, <3>2
  <2>2. PICK out : Seen'.out = out
    OBVIOUS
  <2> QED
    BY <1>4, <2>1, <2>2
<1>7. CASE /\ f \in dfile /\ off <= Len(data[f])
           /\ replied(req, "OSD_OK", dscptrs(Len(data[f]), off)) /\ data_only /\ UNCHANGED <<ccap, data>>
  <2>1. PICK size, out : size = Len(data[f]) /\ out = dscptrs(size, off)
    OBVIOUS
  <2>2. Seen'.req = req /\ Seen'.out = out
    BY <1>7, <2>1, SeenReply DEF replied
  <2>3. size \in Nat /\ off <= size /\ Sizes[req.obj] = size
    BY <1>3, <1>7, <2>1, ContentsLen DEF Sizes, DataInv
  <2>4. /\ \A k \in 1 .. Len(out) : out[k] > 0
        /\ Abstract!Total(out) = size - off
    BY <1>3, <2>1, <2>3, DscptrsCover
  <2>5. dfile' = dfile /\ data' = data
    BY <1>7 DEF data_only, disk
  <2> QED
    BY <1>3, <1>4, <1>7, <2>2, <2>3, <2>4, <2>5
<1> QED
  BY <1>1, <1>2, <1>5, <1>6, <1>7 DEF osd_read_map, opens

-----------------------------------------------------------------------------
(* The theorems                                                               *)

LEMMA StartsAsBytes == DInit => DataInv /\ Abstract!Init
<1> SUFFICES ASSUME DInit PROVE DataInv /\ Abstract!Init
  OBVIOUS
<1>1. dfile = {} /\ data = [f \in File |-> <<>>]
  BY DEF DInit, Init
<1>2. DataInv
  BY <1>1, EmptyFile DEF DataInv
<1>3. Sizes = [f \in File |-> 0]
  BY <1>1, EmptyFile DEF Sizes
<1>4. Images = [f \in File |-> Abstract!Blank]
  BY <1>1, EmptyFile DEF Images
<1>5. Seen = Abstract!Idle
  BY StatusOf DEF DInit, Seen, Abstract!Idle, Unasked
<1>6. Abstract!Init
  BY <1>1, <1>3, <1>4, <1>5, Zenon DEF Abstract!Init, Sizes, Images, Image, ByteAt, Seen
<1> QED
  BY <1>2, <1>6

LEMMA StepsAsBytes == ASSUME DataInv, DNext PROVE DataInv' /\ Abstract!Next
BY WriteStep, AppendStep, SetLengthStep, GetLengthStep, FlushStep, PunchStep, DieStep,
   NamespaceStep, CreateAndWriteStep, ReadStep, ReadMapStep DEF DNext

LEMMA StuttersAsBytes == ASSUME DataInv, UNCHANGED dvars PROVE DataInv' /\ UNCHANGED Abstract!bvars
<1>1. data' = data /\ dfile' = dfile /\ call' = call
  BY DEF dvars, vars
<1>2. DataInv'
  BY <1>1 DEF DataInv
<1>3. Sizes' = Sizes /\ Images' = Images /\ Seen' = Seen
  BY <1>1 DEF Sizes, Images, Seen
<1>4. UNCHANGED Abstract!bvars
  BY <1>1, <1>3, Zenon DEF Abstract!bvars, Sizes, Images, Image, ByteAt, Seen
<1> QED
  BY <1>2, <1>4

LEMMA DataInvTypes == DataInv => DataTypeOK
BY DEF DataInv, DataTypeOK, Contents, Bytes

(* Whatever the calls, whatever fails, and wherever the process dies: files   *)
(* hold bytes, no file is larger than the file system allows, and an object   *)
(* without a file has no bytes (osd_create_datafile, io.c, osd.c).            *)
THEOREM DataTyped == DSpec => []DataTypeOK
<1>1. DInit => DataInv
  BY StartsAsBytes
<1>2. DataInv /\ [DNext]_dvars => DataInv'
  BY StepsAsBytes, StuttersAsBytes
<1>3. DataInv => DataTypeOK
  BY DataInvTypes
<1> QED
  BY <1>1, <1>2, <1>3, PTL DEF DSpec

(* The loops over pieces, the short transfers, the moved tail of a punch, the *)
(* narrowed length and the deaths in the middle (io.c:32-446, osd.c:842-1168, *)
(* 2253-2340) implement an array of bytes with a size per object, for every   *)
(* scatter/gather list, stride, buffer and file size.                         *)
THEOREM BytesImplemented == DSpec => ImplementsByteStore
<1>1. DInit => DataInv /\ Abstract!Init
  BY StartsAsBytes
<1>2. DataInv /\ [DNext]_dvars => DataInv'
  BY StepsAsBytes, StuttersAsBytes
<1>3. DataInv /\ [DNext]_dvars => [Abstract!Next]_Abstract!bvars
  BY StepsAsBytes, StuttersAsBytes
<1> QED
  BY <1>1, <1>2, <1>3, PTL DEF DSpec, ImplementsByteStore, Abstract!Spec

-----------------------------------------------------------------------------
(* The object store under the data commands                                   *)
(*                                                                            *)
(* OsdData adds commands to those of OsdStore: of these only CREATE AND WRITE *)
(* changes tables, files or the id cache, and a death in any other of them is *)
(* a restart.                                                                 *)

\* What the other data commands do to the store: nothing but their reply.
OnlyReplied ==
    /\ UNCHANGED <<tables, disk, root, ic>>
    /\ sense' \in Sense
    /\ \/ UNCHANGED ccap
       \/ \E f \in File : ccap' = [obj_type |-> "USEROBJECT", pid |-> f[1], oid |-> f[2]]

LEMMA RefusedReplied ==
    ASSUME NEW req, NEW ret \in Sense, refused(req, ret) PROVE OnlyReplied
BY DEF refused, replied, OnlyReplied

LEMMA DataReplied ==
    ASSUME NEW req, NEW ret \in Sense, NEW out, NEW t \in Targets,
           replied(req, ret, out), data_only, UNCHANGED ccap \/ fill_ccap("USEROBJECT", t[1], t[2])
    PROVE  OnlyReplied
<1>1. PICK f : f = <<t[1], t[2]>>
  OBVIOUS
<1>2. f \in File /\ f[1] = t[1] /\ f[2] = t[2]
  BY <1>1, TargetIsFile
<1>3. CASE UNCHANGED ccap
  BY <1>3 DEF replied, data_only, OnlyReplied
<1>4. CASE fill_ccap("USEROBJECT", t[1], t[2])
  <2>1. ccap' = [obj_type |-> "USEROBJECT", pid |-> f[1], oid |-> f[2]]
    BY <1>2, <1>4 DEF fill_ccap
  <2> QED
    BY <1>2, <2>1 DEF replied, data_only, OnlyReplied
<1> QED
  BY <1>3, <1>4

LEMMA SenseCodes ==
    /\ "OSD_OK" \in Sense /\ "ILLEGAL_REQUEST" \in Sense /\ "PARAM_LIST" \in Sense
    /\ "HARDWARE_ERROR" \in Sense /\ "READ_PAST_END" \in Sense /\ "OSD_ERROR" \in Sense
BY DEF Sense

LEMMA ReadReplied == ASSUME Read PROVE (OnlyReplied \/ osd_open) /\ call'.req.op = "READ"
<1>1. PICK t \in Targets, off \in Offset :
        \/ \E len \in 0 .. MaxBuf : contig_read(t[1], t[2], off, len)
        \/ \E g \in Sgls : \E len \in total(g) .. MaxBuf : sgl_read(t[1], t[2], off, g, len)
        \/ \E v \in Strides : vec_read(t[1], t[2], off, v.stride, v.length, v.bytes)
  BY DEF Read
<1>2. ASSUME NEW req, req.op = "READ", NEW out,
             \/ refused(req, "ILLEGAL_REQUEST") \/ read_failed(req)
             \/ /\ replied(req, "READ_PAST_END", out) \/ replied(req, "OSD_OK", out)
                /\ fill_ccap("USEROBJECT", t[1], t[2]) /\ data_only
      PROVE  (OnlyReplied \/ osd_open) /\ call'.req.op = "READ"
  <2>1. CASE refused(req, "ILLEGAL_REQUEST") \/ refused(req, "HARDWARE_ERROR")
    <3>1. call'.req = req
      BY <2>1 DEF refused, replied
    <3> QED
      BY <1>2, <2>1, <3>1, RefusedReplied, SenseCodes
  <2>2. CASE died(req)
    BY <1>2, <2>2 DEF died
  <2>3. CASE /\ replied(req, "READ_PAST_END", out) \/ replied(req, "OSD_OK", out)
             /\ fill_ccap("USEROBJECT", t[1], t[2]) /\ data_only
    <3>1. call'.req = req
      BY <2>3 DEF replied
    <3> QED
      BY <1>2, <2>3, <3>1, DataReplied, SenseCodes
  <2> QED
    BY <1>2, <2>1, <2>2, <2>3 DEF read_failed
<1>3. ASSUME NEW len \in 0 .. MaxBuf, contig_read(t[1], t[2], off, len)
      PROVE  (OnlyReplied \/ osd_open) /\ call'.req.op = "READ"
  <2>1. PICK req, out :
          /\ req = read_req(t[1], t[2], positions(off, contig_pairs(len)), len)
          /\ out = [i \in 1 .. len |-> IF i <= Len(pread(data[<<t[1], t[2]>>], off, len))
                                       THEN pread(data[<<t[1], t[2]>>], off, len)[i] ELSE Zero]
    OBVIOUS
  <2>2. req.op = "READ"
    BY <2>1 DEF read_req
  <2>3. \/ refused(req, "ILLEGAL_REQUEST") \/ read_failed(req)
        \/ /\ replied(req, "READ_PAST_END", out) \/ replied(req, "OSD_OK", out)
           /\ fill_ccap("USEROBJECT", t[1], t[2]) /\ data_only
    BY <1>3, <2>1 DEF contig_read
  <2> QED
    BY <1>2, <2>2, <2>3
<1>4. ASSUME NEW g \in Sgls, NEW len \in total(g) .. MaxBuf, sgl_read(t[1], t[2], off, g, len)
      PROVE  (OnlyReplied \/ osd_open) /\ call'.req.op = "READ"
  <2>1. PICK req, out : /\ req = read_req(t[1], t[2], positions(off, g), len)
                        /\ out = gathered(data[<<t[1], t[2]>>], off, g)
    OBVIOUS
  <2>2. req.op = "READ"
    BY <2>1 DEF read_req
  <2>3. \/ refused(req, "ILLEGAL_REQUEST") \/ read_failed(req)
        \/ /\ replied(req, "READ_PAST_END", out) \/ replied(req, "OSD_OK", out)
           /\ fill_ccap("USEROBJECT", t[1], t[2]) /\ data_only
    BY <1>4, <2>1 DEF sgl_read
  <2> QED
    BY <1>2, <2>2, <2>3
<1>5. ASSUME NEW v \in Strides, vec_read(t[1], t[2], off, v.stride, v.length, v.bytes)
      PROVE  (OnlyReplied \/ osd_open) /\ call'.req.op = "READ"
  <2>1. PICK pairs, bytes : pairs = vec_pairs(v.stride, v.length, v.bytes) /\ bytes = v.bytes
    OBVIOUS
  <2>2. PICK req, out : /\ req = read_req(t[1], t[2], positions(off, pairs), bytes)
                        /\ out = gathered(data[<<t[1], t[2]>>], off, pairs)
    OBVIOUS
  <2>3. req.op = "READ"
    BY <2>2 DEF read_req
  <2>4. \/ refused(req, "ILLEGAL_REQUEST") \/ read_failed(req)
        \/ /\ replied(req, "OSD_OK", out)
           /\ fill_ccap("USEROBJECT", t[1], t[2]) /\ data_only
    BY <1>5, <2>1, <2>2 DEF vec_read
  <2> QED
    BY <1>2, <2>3, <2>4
<1> QED
  BY <1>1, <1>3, <1>4, <1>5

LEMMA PairsReplied ==
    ASSUME NEW req, NEW t \in Targets, NEW base, NEW pairs, NEW buf, NEW out,
           write_pairs(req, t[1], t[2], base, pairs, buf, out)
    PROVE  OnlyReplied /\ call'.req = req
<1>1. CASE refused(req, "ILLEGAL_REQUEST")
  BY <1>1, RefusedReplied, SenseCodes DEF refused, replied
<1>2. CASE replied(req, "OSD_OK", out) /\ fill_ccap("USEROBJECT", t[1], t[2]) /\ data_only
  BY <1>2, DataReplied, SenseCodes DEF replied
<1>3. CASE replied(req, "HARDWARE_ERROR", <<>>) /\ UNCHANGED ccap /\ data_only
  BY <1>3, DataReplied, SenseCodes DEF replied
<1> QED
  BY <1>1, <1>2, <1>3 DEF write_pairs

LEMMA WritingReplied ==
    ASSUME Write \/ AppendData \/ Clear PROVE OnlyReplied /\ call'.req.op \in {"WRITE", "APPEND"}
<1>1. ASSUME NEW t \in Targets, NEW off, NEW g, NEW buf, osd_write(t[1], t[2], off, g, buf)
      PROVE  OnlyReplied /\ call'.req.op \in {"WRITE", "APPEND"}
  <2>1. PICK req : req = write_req(t[1], t[2], off, g, buf)
    OBVIOUS
  <2>2. write_pairs(req, t[1], t[2], off, g, buf, <<>>) /\ req.op = "WRITE"
    BY <1>1, <2>1 DEF osd_write, write_req
  <2> QED
    BY <2>2, PairsReplied
<1>2. ASSUME NEW t \in Targets, NEW g, NEW buf, osd_append(t[1], t[2], g, buf)
      PROVE  OnlyReplied /\ call'.req.op \in {"WRITE", "APPEND"}
  <2>1. PICK req, base, out : /\ req = append_req(t[1], t[2], g, buf)
                              /\ base = append_off(t[1], t[2]) /\ out = <<base>>
    OBVIOUS
  <2>2. write_pairs(req, t[1], t[2], base, g, buf, out)
    BY <1>2, <2>1 DEF osd_append
  <2>3. req.op = "APPEND"
    BY <2>1 DEF append_req
  <2> QED
    BY <2>2, <2>3, PairsReplied
<1> QED
  BY <1>1, <1>2 DEF Write, AppendData, Clear, osd_clear

\* A reply with no effect on the store, or a death.
Answered(req, t) ==
    \/ \E ret \in Sense : refused(req, ret)
    \/ died(req)
    \/ /\ \E ret \in Sense : \E out : replied(req, ret, out)
       /\ data_only
       /\ UNCHANGED ccap \/ fill_ccap("USEROBJECT", t[1], t[2])

LEMMA OthersReplied ==
    ASSUME Punch \/ Flush \/ ReadMap \/ SetLength \/ GetLength
    PROVE  /\ OnlyReplied \/ osd_open
           /\ call'.req.op \in {"PUNCH", "FLUSH", "READ_MAP", "SET_LENGTH", "GET_LENGTH"}
<1> DEFINE Ops == {"PUNCH", "FLUSH", "READ_MAP", "SET_LENGTH", "GET_LENGTH"}
<1>1. ASSUME NEW t \in Targets, NEW req, req.op \in Ops, Answered(req, t)
      PROVE  (OnlyReplied \/ osd_open) /\ call'.req.op \in Ops
  <2>1. call'.req = req
    BY <1>1 DEF Answered, refused, replied, died
  <2>2. OnlyReplied \/ osd_open
    BY <1>1, RefusedReplied, DataReplied DEF Answered, died
  <2> QED
    BY <1>1, <2>1, <2>2
<1>2. CASE Punch
  <2>1. PICK t \in Targets, off \in Offset, len \in Lengths : osd_punch(t[1], t[2], off, len)
    BY <1>2 DEF Punch
  <2>2. PICK req : req = punch_req(t[1], t[2], off, len)
    OBVIOUS
  <2>3. \/ refused(req, "ILLEGAL_REQUEST") \/ refused(req, "OSD_ERROR")
        \/ /\ replied(req, "OSD_OK", <<>>) \/ replied(req, "HARDWARE_ERROR", <<>>)
           /\ data_only /\ UNCHANGED ccap
    BY <2>1, <2>2 DEF osd_punch
  <2>4. req.op = "PUNCH"
    BY <2>2 DEF punch_req
  <2>5. Answered(req, t)
    BY <2>3, SenseCodes, Zenon DEF Answered
  <2> QED
    BY <1>1, <2>4, <2>5
<1>3. CASE Flush
  <2>1. PICK t \in Targets, off \in {0, MaxLen}, len \in {0, MaxLen}, scope \in 0 .. 2 :
          osd_flush(t[1], t[2], off, len, scope)
    BY <1>3 DEF Flush
  <2>2. PICK req : req = [op |-> "FLUSH", obj |-> <<t[1], t[2]>>]
    OBVIOUS
  <2>3. \/ \E ret \in {"ILLEGAL_REQUEST", "OSD_ERROR", "HARDWARE_ERROR"} : refused(req, ret)
        \/ /\ replied(req, "OSD_OK", <<>>) /\ data_only
           /\ UNCHANGED ccap \/ fill_ccap("USEROBJECT", t[1], t[2])
    BY <2>1, <2>2 DEF osd_flush
  <2>5. Answered(req, t)
    BY <2>3, SenseCodes, Zenon DEF Answered
  <2> QED
    BY <1>1, <2>2, <2>5
<1>4. CASE ReadMap
  <2>1. PICK t \in Targets, off \in Offset, alloc \in {0, 8, 24}, map_type \in {"WRITTEN_DATA", "DATA_HOLE"} :
          osd_read_map(t[1], t[2], alloc, off, map_type)
    BY <1>4 DEF ReadMap
  <2>2. PICK req : req = [op |-> "READ_MAP", obj |-> <<t[1], t[2]>>, off |-> off, alloc |-> alloc]
    OBVIOUS
  <2>3. \/ \E ret \in {"OSD_OK", "ILLEGAL_REQUEST", "OSD_ERROR", "HARDWARE_ERROR"} : refused(req, ret)
        \/ died(req)
        \/ /\ replied(req, "OSD_OK", dscptrs(Len(data[<<t[1], t[2]>>]), off)) /\ data_only
           /\ UNCHANGED ccap
    BY <2>1, <2>2 DEF osd_read_map
  <2>5. Answered(req, t)
    BY <2>3, SenseCodes, Zenon DEF Answered
  <2> QED
    BY <1>1, <2>2, <2>5
<1>5. CASE SetLength
  <2>1. PICK t \in Targets, v \in 0 .. ULen + 1, e \in BOOLEAN : set_uiap(t[1], t[2], v, e)
    BY <1>5 DEF SetLength
  <2>2. PICK req : req = set_length_req(t[1], t[2], v)
    OBVIOUS
  <2>3. \/ refused(req, "ILLEGAL_REQUEST") \/ refused(req, "PARAM_LIST")
        \/ /\ replied(req, "OSD_OK", <<>>) /\ data_only
           /\ UNCHANGED ccap \/ fill_ccap("USEROBJECT", t[1], t[2])
    BY <2>1, <2>2 DEF set_uiap
  <2>4. req.op = "SET_LENGTH"
    BY <2>2 DEF set_length_req
  <2>5. Answered(req, t)
    BY <2>3, SenseCodes, Zenon DEF Answered
  <2> QED
    BY <1>1, <2>4, <2>5
<1>6. CASE GetLength
  <2>1. PICK t \in Targets, e \in BOOLEAN : get_logical_len(t[1], t[2], e)
    BY <1>6 DEF GetLength
  <2>2. PICK req : req = [op |-> "GET_LENGTH", obj |-> <<t[1], t[2]>>]
    OBVIOUS
  <2>3. \/ refused(req, "ILLEGAL_REQUEST") \/ refused(req, "PARAM_LIST")
        \/ /\ replied(req, "OSD_OK", <<Len(data[<<t[1], t[2]>>])>>) /\ data_only
           /\ UNCHANGED ccap \/ fill_ccap("USEROBJECT", t[1], t[2])
    BY <2>1, <2>2 DEF get_logical_len
  <2>5. Answered(req, t)
    BY <2>3, SenseCodes, Zenon DEF Answered
  <2> QED
    BY <1>1, <2>2, <2>5
<1> QED
  BY <1>2, <1>3, <1>4, <1>5, <1>6

LEMMA DiesAndOpens ==
    ASSUME Die
    PROVE  \/ osd_open /\ call'.req.op # "CREATE_AND_WRITE"
           \/ \E t \in Targets, oid \in Oid : \E off, g, buf :
                die_in_create_and_write(t[1], t[2], oid, off, g, buf)
<1>1. ASSUME NEW req, req.op # "CREATE_AND_WRITE", NEW t, NEW off, NEW g, NEW buf,
             die_in_transfer(req, t[1], t[2], off, g, buf)
      PROVE  osd_open /\ call'.req.op # "CREATE_AND_WRITE"
  BY <1>1 DEF die_in_transfer, died
<1>2. ASSUME NEW t, NEW off, NEW g, NEW buf
      PROVE  /\ write_req(t[1], t[2], off, g, buf).op # "CREATE_AND_WRITE"
             /\ append_req(t[1], t[2], g, buf).op # "CREATE_AND_WRITE"
  BY DEF write_req, append_req
<1>3. ASSUME NEW t, NEW off, NEW len, die_in_punch(t[1], t[2], off, len)
      PROVE  osd_open /\ call'.req.op # "CREATE_AND_WRITE"
  BY <1>3 DEF die_in_punch, died, punch_req
<1>4. ASSUME NEW t, NEW v, die_in_set_length(t[1], t[2], v)
      PROVE  osd_open /\ call'.req.op # "CREATE_AND_WRITE"
  BY <1>4 DEF die_in_set_length, died, set_length_req
<1>5. PICK t \in Targets :
        \/ \E off \in Offset, buf \in Buffers : \E g \in Transfers(buf) :
             \/ die_in_transfer(write_req(t[1], t[2], off, g, buf), t[1], t[2], off, g, buf)
             \/ \E oid \in Oid : die_in_create_and_write(t[1], t[2], oid, off, g, buf)
        \/ \E buf \in Buffers : \E g \in Transfers(buf) :
             die_in_transfer(append_req(t[1], t[2], g, buf), t[1], t[2], append_off(t[1], t[2]), g, buf)
        \/ \E off \in Offset, len \in Lengths : die_in_punch(t[1], t[2], off, len)
        \/ \E v \in 0 .. ULen + 1 : die_in_set_length(t[1], t[2], v)
  BY DEF Die
<1>6. CASE \E off \in Offset, buf \in Buffers : \E g \in Transfers(buf) :
             \/ die_in_transfer(write_req(t[1], t[2], off, g, buf), t[1], t[2], off, g, buf)
             \/ \E oid \in Oid : die_in_create_and_write(t[1], t[2], oid, off, g, buf)
  <2>1. PICK off \in Offset, buf \in Buffers : \E g \in Transfers(buf) :
             \/ die_in_transfer(write_req(t[1], t[2], off, g, buf), t[1], t[2], off, g, buf)
             \/ \E oid \in Oid : die_in_create_and_write(t[1], t[2], oid, off, g, buf)
    BY <1>6
  <2>2. PICK g \in Transfers(buf) :
             \/ die_in_transfer(write_req(t[1], t[2], off, g, buf), t[1], t[2], off, g, buf)
             \/ \E oid \in Oid : die_in_create_and_write(t[1], t[2], oid, off, g, buf)
    BY <2>1
  <2> QED
    BY <1>1, <1>2, <2>2
<1>7. CASE \E buf \in Buffers : \E g \in Transfers(buf) :
             die_in_transfer(append_req(t[1], t[2], g, buf), t[1], t[2], append_off(t[1], t[2]), g, buf)
  BY <1>1, <1>2, <1>7
<1> QED
  BY <1>3, <1>4, <1>5, <1>6, <1>7

\* A CREATE AND WRITE that the process did not survive: tables, if they are
\* there, have a row more at most, and it may have undone the creation.
HalfCreated(p, oid) ==
    /\ obj_ispresent(p, PARTITION_OID)
    /\ dfile' \in {dfile, osd_create_datafile(p, oid, 1)}
    /\ IF dbfile THEN /\ attr' \subseteq attr /\ coll' \subseteq coll
                      /\ obj' \in {obj, obj_insert(p, oid, 1, "USEROBJECT")}
                 ELSE fresh_tables
    /\ restarted
    /\ call'.ret = "DIED"

LEMMA DiesHalfCreated ==
    ASSUME NEW p, NEW r, NEW oid \in Oid, NEW off, NEW g, NEW buf,
           die_in_create_and_write(p, r, oid, off, g, buf)
    PROVE  HalfCreated(p, oid) /\ call'.req.op = "CREATE_AND_WRITE"
<1>1. /\ ~bad_target(p, r) /\ restarted
      /\ call' = [req |-> create_and_write_req(p, r, off, g, buf), ret |-> "DIED", out |-> <<>>]
      /\ dfile' \in {dfile, osd_create_datafile(p, oid, 1)}
  BY DEF die_in_create_and_write
<1>2. IF dbfile
      THEN \E undone \in 0 .. 3 :
             /\ attr' = IF undone >= 1 THEN attr_delete_all(p, oid) ELSE attr
             /\ coll' = IF undone >= 2 THEN coll_delete_oid(p, oid) ELSE coll
             /\ obj'  = IF undone = 3 THEN obj ELSE obj_insert(p, oid, 1, "USEROBJECT")
      ELSE fresh_tables
  BY Zenon DEF die_in_create_and_write
<1>3. attr_delete_all(p, oid) \subseteq attr /\ coll_delete_oid(p, oid) \subseteq coll
  BY DEF attr_delete_all, coll_delete_oid
<1>4. IF dbfile THEN /\ attr' \subseteq attr /\ coll' \subseteq coll
                     /\ obj' \in {obj, obj_insert(p, oid, 1, "USEROBJECT")}
                ELSE fresh_tables
  BY <1>2, <1>3
<1>5. obj_ispresent(p, PARTITION_OID)
  BY <1>1 DEF bad_target
<1>6. call'.ret = "DIED" /\ call'.req.op = "CREATE_AND_WRITE"
  BY <1>1 DEF create_and_write_req
<1> QED
  BY <1>1, <1>4, <1>5, <1>6 DEF HalfCreated

(* The shapes a step of OsdData has for the store.                            *)
LEMMA StepShapes ==
    ASSUME DNext
    PROVE  \/ Next /\ call'.req.op # "CREATE_AND_WRITE"
           \/ OnlyReplied /\ call'.req.op # "CREATE_AND_WRITE"
           \/ CreateAndWrite
           \/ \E p \in Pid, oid \in Oid : HalfCreated(p, oid)
<1>1. CASE Namespace
  BY <1>1 DEF Namespace, Unasked
<1>2. CASE Die
  <2>1. CASE osd_open /\ call'.req.op # "CREATE_AND_WRITE"
    BY <2>1 DEF Next
  <2>2. ASSUME NEW t \in Targets, NEW oid \in Oid, NEW off, NEW g, NEW buf,
               die_in_create_and_write(t[1], t[2], oid, off, g, buf)
        PROVE  \E p \in Pid, o \in Oid : HalfCreated(p, o)
    <3>1. HalfCreated(t[1], oid)
      BY <2>2, DiesHalfCreated
    <3>2. t[1] \in Pid
      BY TargetIsFile DEF File
    <3> QED
      BY <3>1, <3>2
  <2> QED
    BY <1>2, <2>1, <2>2, DiesAndOpens
<1>3. CASE Read
  BY <1>3, ReadReplied DEF Next
<1>4. CASE Write \/ AppendData \/ Clear
  BY <1>4, WritingReplied
<1>5. CASE Punch \/ Flush \/ ReadMap \/ SetLength \/ GetLength
  BY <1>5, OthersReplied DEF Next
<1> QED
  BY <1>1, <1>2, <1>3, <1>4, <1>5 DEF DNext

\* How CREATE AND WRITE, short of being a CREATE, changes the store: an object
\* whose write failed has been removed, or has not when its id was not asked for.
NotRemoved(p) ==
    /\ sense' \in Sense
    /\ \E oid \in Oid :
         /\ one_created(p, 0, oid)
         /\ ic' = ic_after(p, 0, oid, 1)
         /\ fill_ccap("USEROBJECT", p, oid)

LEMMA CreateAndWriteShapes ==
    ASSUME CreateAndWrite
    PROVE  \E p \in Pid, r \in Oid :
             /\ call'.req.op = "CREATE_AND_WRITE" /\ call'.req.obj = <<p, r>>
             /\ \/ osd_create(p, r, 1) /\ sense' # "OSD_OK" /\ data' = kept
                \/ osd_create(p, r, 1) /\ call'.ret = "OSD_OK"
                \/ r # 0 /\ sense' \in Sense /\ \E s : created_removed(p, r, s)
                \/ r = 0 /\ NotRemoved(p)
<1>1. PICK t \in Targets, off \in Offset, buf \in Buffers : \E g \in Transfers(buf) :
        osd_create_and_write(t[1], t[2], off, g, buf)
  BY DEF CreateAndWrite
<1>2. PICK g \in Transfers(buf) : osd_create_and_write(t[1], t[2], off, g, buf)
  BY <1>1
<1>3. PICK p, r : p = t[1] /\ r = t[2]
  OBVIOUS
<1>4. p \in Pid /\ r \in Oid
  BY <1>3, TargetIsFile DEF File
<1>5. PICK req : req = create_and_write_req(p, r, off, g, buf)
  OBVIOUS
<1>6. \/ osd_create(p, r, 1) /\ sense' # "OSD_OK" /\ replied(req, sense', <<>>) /\ data' = kept
      \/ /\ r # 0 /\ one_created(p, r, r) /\ ic' = ic_after(p, r, r, 1) /\ fill_ccap("USEROBJECT", p, r)
         /\ replied(req, "OSD_OK", <<>>)
      \/ r # 0 /\ (\E s : created_removed(p, r, s)) /\ replied(req, "HARDWARE_ERROR", <<>>)
      \/ r # 0 /\ (\E s : created_removed(p, r, s)) /\ replied(req, "ILLEGAL_REQUEST", <<>>)
      \/ /\ r = 0 /\ replied(req, "ILLEGAL_REQUEST", <<>>)
         /\ \E oid \in Oid : /\ one_created(p, 0, oid) /\ ic' = ic_after(p, 0, oid, 1)
                             /\ fill_ccap("USEROBJECT", p, oid)
  BY <1>2, <1>3, <1>5 DEF osd_create_and_write
<1> DEFINE Shape ==
      \/ osd_create(p, r, 1) /\ sense' # "OSD_OK" /\ data' = kept
      \/ osd_create(p, r, 1) /\ call'.ret = "OSD_OK"
      \/ r # 0 /\ sense' \in Sense /\ \E s : created_removed(p, r, s)
      \/ r = 0 /\ NotRemoved(p)
<1>7. call'.req = req
  BY <1>6 DEF replied
<1>8. ASSUME r # 0, one_created(p, r, r), ic' = ic_after(p, r, r, 1), fill_ccap("USEROBJECT", p, r),
             replied(req, "OSD_OK", <<>>)
      PROVE  osd_create(p, r, 1) /\ call'.ret = "OSD_OK"
  <2>1. r + 1 - 1 = r /\ r .. r + 1 - 1 = {r}
    BY <1>4, Inputs
  <2>2. create_objects(p, r, r, 1)
    BY <1>8, <2>1 DEF one_created, create_objects, replied
  <2>3. ~bad_target(p, r) /\ chosen_id(p, r, r) /\ r + 1 - 1 \in Oid
    BY <1>4, <1>8, <2>1 DEF one_created
  <2>4. osd_create(p, r, 1)
    BY <1>4, <2>2, <2>3 DEF osd_create
  <2> QED
    BY <1>8, <2>4 DEF replied
<1>9. ASSUME NEW ret \in Sense, replied(req, ret, <<>>)
      PROVE  sense' \in Sense
  BY <1>9 DEF replied
<1>10. ASSUME r = 0, replied(req, "ILLEGAL_REQUEST", <<>>),
              \E oid \in Oid : /\ one_created(p, 0, oid) /\ ic' = ic_after(p, 0, oid, 1)
                               /\ fill_ccap("USEROBJECT", p, oid)
       PROVE  NotRemoved(p)
  BY <1>10, SenseCodes DEF NotRemoved, replied
<1>11. Shape
  BY <1>6, <1>8, <1>9, <1>10, SenseCodes
<1> HIDE DEF Shape
<1>12. call'.req.op = "CREATE_AND_WRITE" /\ call'.req.obj = <<p, r>>
  BY <1>5, <1>7 DEF create_and_write_req
<1> QED
  BY <1>4, <1>11, <1>12 DEF Shape

(* A row more at most, in a partition that is there, and the cache emptied.   *)
LEMMA OneRowKeeps ==
    ASSUME TypeOK, StoreInv, NEW p \in Pid, NEW r \in Oid, obj_ispresent(p, PARTITION_OID),
           obj' \in {obj, obj_insert(p, r, 1, "USEROBJECT")}, attr' \subseteq attr, ic' = NoCache
    PROVE  StoreInv' /\ obj' \in [Pid -> [Oid -> RowType]]
<1>1. CASE obj' = obj
  BY <1>1, ObjectsKept DEF TypeOK
<1>2. CASE obj' = obj_insert(p, r, 1, "USEROBJECT")
  <2>1. obj' \in [Pid -> [Oid -> RowType]]
    BY <1>2, InsertRows DEF TypeOK, RowType, ObjType
  <2>2. \A q \in Pid, o \in Oid : obj'[q][o] = IF q = p /\ o \in r .. r + 1 - 1 THEN "USEROBJECT" ELSE obj[q][o]
    BY <1>2, InsertRows DEF TypeOK, RowType, ObjType
  <2>3. \A q \in Pid, o \in Oid : obj_ispresent(q, o) => obj_ispresent(q, o)'
    BY <2>2 DEF obj_ispresent
  <2>4. Contained'
    <3>1. ASSUME NEW q \in Pid, NEW o \in Oid, obj_ispresent(q, o)' PROVE obj_ispresent(q, PARTITION_OID)
      BY <2>2, <3>1 DEF obj_ispresent, Contained, StoreInv
    <3> QED
      BY <2>3, <3>1, Inputs DEF Contained, PARTITION_OID
  <2>5. AttrsOwned'
    <3>1. \A x \in attr : x[1] \in Pid /\ x[2] \in Oid
      BY DEF TypeOK
    <3> QED
      BY <2>3, <3>1 DEF StoreInv, AttrsOwned
  <2>6. IdCacheSound'
    BY DEF IdCacheSound, NoCache
  <2> QED
    BY <2>1, <2>4, <2>5, <2>6 DEF StoreInv
<1> QED
  BY <1>1, <1>2

LEMMA OneFileType ==
    ASSUME TypeOK, NEW p \in Pid, NEW r \in Oid, dfile' \in {dfile, osd_create_datafile(p, r, 1)}
    PROVE  dfile' \subseteq Pid \X Oid
<1>1. r + 1 - 1 = r /\ r .. r + 1 - 1 = {r}
  BY Inputs
<1>2. dfile' = dfile \/ dfile' = dfile \cup ({p} \X (r .. r + 1 - 1))
  BY DEF osd_create_datafile
<1> QED
  BY <1>1, <1>2 DEF TypeOK

(* A removed object leaves types and invariants as they were.                 *)
LEMMA RemovedKeeps ==
    ASSUME TypeOK, StoreInv, NEW p \in Pid, NEW r \in Oid, NEW s, created_removed(p, r, s), sense' \in Sense
    PROVE  TypeOK' /\ StoreInv'
<1>1. /\ attr' \subseteq attr /\ coll' \subseteq coll /\ ic' = NoCache
      /\ dbfile' = dbfile /\ root' = root /\ obj_ispresent(p, PARTITION_OID)
      /\ dfile' \in {dfile, osd_create_datafile(p, r, 1)}
      /\ obj' \in {obj, obj_insert(p, r, 1, "USEROBJECT")}
  BY DEF created_removed, attr_delete_all, coll_delete_oid, bad_target
<1>2. dfile' \subseteq Pid \X Oid
  BY <1>1, OneFileType
<1>3. ccap' \in [obj_type : RowType, pid : Pid, oid : Oid]
  BY DEF created_removed, fill_ccap, TypeOK, RowType, ObjType
<1>4. ic' \in [cur_pid : Pid, next_id : 0 .. MaxOid + 1]
  BY <1>1, Inputs DEF NoCache
<1>5. StoreInv' /\ obj' \in [Pid -> [Oid -> RowType]]
  BY <1>1, OneRowKeeps
<1> QED
  BY <1>1, <1>2, <1>3, <1>4, <1>5 DEF TypeOK

LEMMA HalfCreatedKeeps ==
    ASSUME TypeOK, StoreInv, NEW p \in Pid, NEW oid \in Oid, HalfCreated(p, oid)
    PROVE  TypeOK' /\ StoreInv'
<1>1. /\ obj_ispresent(p, PARTITION_OID) /\ restarted
      /\ dfile' \in {dfile, osd_create_datafile(p, oid, 1)}
  BY DEF HalfCreated
<1>2. /\ ic' = NoCache /\ dbfile' \in BOOLEAN /\ root' = "set" /\ sense' \in Sense
      /\ ccap' \in [obj_type : RowType, pid : Pid, oid : Oid]
      /\ ic' \in [cur_pid : Pid, next_id : 0 .. MaxOid + 1]
  BY <1>1, Inputs DEF restarted, NoCache, NoCcap, RowType, Sense
<1>3. dfile' \subseteq Pid \X Oid
  BY <1>1, OneFileType
<1>4. StoreInv' /\ obj' \in [Pid -> [Oid -> RowType]] /\ attr' \subseteq attr /\ coll' \subseteq coll
  <2>1. CASE dbfile
    BY <1>1, <1>2, <2>1, OneRowKeeps DEF HalfCreated
  <2>2. CASE ~dbfile
    BY <1>2, <2>2, FreshSafe, FreshRows DEF HalfCreated, fresh_tables
  <2> QED
    BY <2>1, <2>2
<1> QED
  BY <1>2, <1>3, <1>4 DEF TypeOK

LEMMA NotRemovedKeeps ==
    ASSUME TypeOK, StoreInv, NEW p \in Pid, NotRemoved(p)
    PROVE  TypeOK' /\ StoreInv'
<1>1. PICK oid \in Oid : /\ one_created(p, 0, oid) /\ ic' = ic_after(p, 0, oid, 1)
                         /\ fill_ccap("USEROBJECT", p, oid)
  BY DEF NotRemoved
<1>2. /\ ~bad_target(p, 0) /\ chosen_id(p, 0, oid)
      /\ obj' = obj_insert(p, oid, 1, "USEROBJECT") /\ dfile' = osd_create_datafile(p, oid, 1)
      /\ UNCHANGED <<attr, coll, dbfile, root>>
  BY <1>1 DEF one_created
<1>3. oid + 1 - 1 = oid /\ oid .. oid + 1 - 1 = {oid} /\ 0 \in Oid /\ oid + 1 - 1 \in Oid
  BY Inputs
<1>4. /\ Contained' /\ AttrsOwned'
      /\ \A q \in Pid, o \in Oid :
           obj_ispresent(q, o)' <=> obj_ispresent(q, o) \/ (q = p /\ o \in oid .. oid + 1 - 1)
  BY <1>2, <1>3, TargetPresent, Grown DEF StoreInv, ObjType
<1>5. IdCacheSound'
  BY <1>1, <1>2, <1>3, <1>4, CacheAfter
<1>6. obj' \in [Pid -> [Oid -> RowType]]
  BY <1>2, InsertRows DEF TypeOK, RowType, ObjType
<1>7. ic' \in [cur_pid : Pid, next_id : 0 .. MaxOid + 1]
  BY <1>1, <1>3, CacheType
<1>8. dfile' \subseteq Pid \X Oid
  BY <1>2, <1>3 DEF osd_create_datafile, TypeOK
<1>9. ccap' \in [obj_type : RowType, pid : Pid, oid : Oid]
  BY <1>1 DEF fill_ccap, RowType, ObjType
<1> QED
  BY <1>2, <1>4, <1>5, <1>6, <1>7, <1>8, <1>9 DEF TypeOK, StoreInv, NotRemoved

LEMMA DataKeepsStore == ASSUME TypeOK, StoreInv, [DNext]_dvars PROVE TypeOK' /\ StoreInv'
<1>1. CASE [Next]_vars
  BY <1>1, NextType, NextKeeps
<1>2. CASE OnlyReplied
  <2>1. StoreInv'
    BY <1>2, ObjectsKept DEF OnlyReplied, tables
  <2>2. ccap' \in [obj_type : RowType, pid : Pid, oid : Oid]
    BY <1>2 DEF OnlyReplied, TypeOK, File, RowType, ObjType
  <2> QED
    BY <1>2, <2>1, <2>2 DEF OnlyReplied, TypeOK, tables, disk
<1>3. CASE CreateAndWrite
  <2>1. PICK p \in Pid, r \in Oid :
          \/ osd_create(p, r, 1)
          \/ sense' \in Sense /\ \E s : created_removed(p, r, s)
          \/ NotRemoved(p)
    BY <1>3, CreateAndWriteShapes
  <2>2. CASE osd_create(p, r, 1)
    BY <2>2, CreateType, CreateKeeps
  <2>3. CASE sense' \in Sense /\ \E s : created_removed(p, r, s)
    BY <2>3, RemovedKeeps
  <2>4. CASE NotRemoved(p)
    BY <2>4, NotRemovedKeeps
  <2> QED
    BY <2>1, <2>2, <2>3, <2>4
<1>4. CASE UNCHANGED dvars
  <2>1. UNCHANGED vars
    BY <1>4 DEF dvars
  <2> QED
    BY <1>1, <2>1
<1>5. CASE \E p \in Pid, oid \in Oid : HalfCreated(p, oid)
  BY <1>5, HalfCreatedKeeps
<1> QED
  BY <1>1, <1>2, <1>3, <1>4, <1>5, StepShapes

(* CREATE AND WRITE, with its own use of the id cache and its own undoing, and *)
(* the deaths in the middle of transfers, keep what the other commands rely    *)
(* on: ids are fresh, objects lie in partitions, and attributes have owners    *)
(* (osd.c:1371-1389).                                                          *)
THEOREM StoreSafeUnderData == DSpec => [](TypeOK /\ StoreInv)
<1>1. DInit => TypeOK /\ StoreInv
  BY InitType, InitSafe DEF DInit
<1>2. TypeOK /\ StoreInv /\ [DNext]_dvars => TypeOK' /\ StoreInv'
  BY DataKeepsStore
<1> QED
  BY <1>1, <1>2, PTL DEF DSpec

-----------------------------------------------------------------------------
(* A failed CREATE AND WRITE, as long as no statement fails by itself         *)
(*                                                                            *)
(* Its undoing also deletes attributes and memberships of the id.  There were *)
(* no attributes, because attributes have owners; memberships of the id there *)
(* may have been, where an earlier object of it was removed half way.         *)

LEMMA CreationsKeepDatabase ==
    ASSUME dbfile, NEW p, NEW r, NEW n, NEW q, NEW o,
           \/ osd_create(p, r, n) \/ osd_create_collection(p, r)
           \/ osd_create_user_tracking_collection(p, r, q, o)
           \/ osd_copy_user_objects(p, r, q, o) \/ osd_create_partition(r)
    PROVE  dbfile'
<1>1. ASSUME NEW s, Rejected(s) PROVE dbfile'
  BY <1>1 DEF Rejected, disk
<1>2. ASSUME nextoid_failed(p, r) PROVE dbfile'
  BY <1>2 DEF nextoid_failed, disk
<1>3. ASSUME NEW c, insert_collection(p, r, c) PROVE dbfile'
  BY <1>3 DEF insert_collection, disk
<1>4. ASSUME NEW oid, NEW m, create_objects(p, r, oid, m) PROVE dbfile'
  BY <1>4 DEF create_objects
<1>5. ASSUME NEW oid, NEW m, NEW bad, create_undone(p, oid, m, bad) PROVE dbfile'
  BY <1>5 DEF create_undone
<1>6. CASE osd_create(p, r, n)
  BY <1>1, <1>2, <1>4, <1>5, <1>6 DEF osd_create
<1>7. CASE osd_create_collection(p, r)
  BY <1>1, <1>2, <1>3, <1>7 DEF osd_create_collection
<1>8. CASE osd_create_user_tracking_collection(p, r, q, o)
  BY <1>1, <1>2, <1>3, <1>8 DEF osd_create_user_tracking_collection, disk
<1>9. CASE osd_copy_user_objects(p, r, q, o)
  BY <1>1, <1>2, <1>9 DEF osd_copy_user_objects, disk
<1>10. CASE osd_create_partition(r)
  BY <1>1, <1>10 DEF osd_create_partition, disk
<1> QED
  BY <1>6, <1>7, <1>8, <1>9, <1>10

LEMMA NextKeepsDatabase == ASSUME ~Faults, dbfile, [Next]_vars PROVE dbfile'
<1>1. CASE Create
  BY <1>1, CreationsKeepDatabase DEF Create
<1>2. CASE CreateCollection \/ CreateTracking \/ Copy \/ CreatePartition
  BY <1>2, CreationsKeepDatabase DEF CreateCollection, CreateTracking, Copy, CreatePartition
<1>3. CASE Remove
  BY <1>3 DEF Remove, osd_remove, Rejected, tables, disk
<1>4. CASE RemoveCollection \/ RemovePartition
  BY <1>4 DEF RemoveCollection, osd_remove_collection, RemovePartition, osd_remove_partition,
              Rejected, tables, disk
<1>5. CASE SetAttr \/ SetPointer \/ GetAttr
  BY <1>5, AttributesKeepDisk DEF SetAttr, SetPointer, GetAttr
<1>6. CASE osd_format_osd
  BY <1>6 DEF osd_format_osd
<1>7. CASE osd_open
  BY <1>7 DEF osd_open, restarted
<1>8. CASE UNCHANGED vars
  BY <1>8 DEF vars
<1> QED
  BY <1>1, <1>2, <1>3, <1>4, <1>5, <1>6, <1>7, <1>8 DEF Next

LEMMA DataKeepsDatabase == ASSUME ~Faults, dbfile, [DNext]_dvars PROVE dbfile'
<1>1. CASE [Next]_vars
  BY <1>1, NextKeepsDatabase
<1>2. CASE OnlyReplied
  BY <1>2 DEF OnlyReplied, disk
<1>3. CASE CreateAndWrite
  <2>1. PICK p \in Pid, r \in Oid :
          osd_create(p, r, 1) \/ (\E s : created_removed(p, r, s)) \/ NotRemoved(p)
    BY <1>3, CreateAndWriteShapes
  <2> QED
    BY <2>1, CreationsKeepDatabase DEF created_removed, NotRemoved, one_created
<1>4. CASE \E p \in Pid, oid \in Oid : HalfCreated(p, oid)
  BY <1>4 DEF HalfCreated, restarted
<1>5. CASE UNCHANGED dvars
  BY <1>5 DEF dvars, vars
<1> QED
  BY <1>1, <1>2, <1>3, <1>4, <1>5, StepShapes

(* No statement fails: the object that could not be written is gone again.    *)
LEMMA RemovedWhole ==
    ASSUME dbfile, ~Faults, root = "set", NEW p \in Pid, NEW r \in Oid, NEW s, created_removed(p, r, s)
    PROVE  /\ obj' = obj /\ attr' = attr_delete_all(p, r) /\ coll' = coll_delete_oid(p, r)
           /\ dfile' = dfile /\ data' = kept
<1>1. Completed(3) = {3}
  BY Completes
<1>2. obj' = obj /\ attr' = attr_delete_all(p, r) /\ coll' = coll_delete_oid(p, r)
  BY <1>1 DEF created_removed
<1>3. dfile' = dfile /\ data' = kept
  BY DEF created_removed, IoMayFail
<1> QED
  BY <1>2, <1>3

Undone ==
    root = "set" /\ call'.req.op = "CREATE_AND_WRITE" /\ call'.req.obj[2] # 0
                 /\ call'.ret \notin {"OSD_OK", "DIED"}
        => CleanedUp

LEMMA StepUndoes ==
    ASSUME TypeOK, StoreInv, dbfile, DataInv, ~Faults, DNext PROVE Undone
<1> SUFFICES ASSUME root = "set", call'.req.op = "CREATE_AND_WRITE", call'.req.obj[2] # 0,
                    call'.ret # "OSD_OK", call'.ret # "DIED"
             PROVE  CleanedUp
  BY DEF Undone
<1>1. PICK p \in Pid, r \in Oid :
        /\ call'.req.obj = <<p, r>>
        /\ \/ osd_create(p, r, 1) /\ sense' # "OSD_OK" /\ data' = kept
           \/ osd_create(p, r, 1) /\ call'.ret = "OSD_OK"
           \/ r # 0 /\ sense' \in Sense /\ \E s : created_removed(p, r, s)
           \/ r = 0 /\ NotRemoved(p)
  <2>1. CreateAndWrite
    BY StepShapes DEF HalfCreated
  <2> QED
    BY <2>1, CreateAndWriteShapes
<1>2. r # 0
  BY <1>1
<1>3. ASSUME dfile' = dfile, data' = kept PROVE data' = data
  BY <1>3, NothingLost
<1>4. CASE osd_create(p, r, 1) /\ sense' # "OSD_OK" /\ data' = kept
  <2>1. ~DbMayFail
    BY Completes
  <2>2. CASE Rejected("ILLEGAL_REQUEST")
    BY <1>3, <1>4, <2>2 DEF Rejected, tables, disk, CleanedUp
  <2>3. ASSUME NEW oid \in Oid, NEW bad \in oid .. oid + 1 - 1, create_undone(p, oid, 1, bad)
        PROVE  CleanedUp
    <3>1. bad = oid /\ oid .. bad - 1 = {}
      BY Inputs
    <3>2. obj' = obj
      BY <2>3, UndoneClean
    <3> DEFINE made == oid .. bad - 1
    <3>3. PICK done \in [made -> Completed(3)], stuck \in SUBSET made, kept_row \in BOOLEAN :
            osd_remove_tmp_objects(p, made, done, stuck)
      BY <2>3 DEF create_undone
    <3>4. attr' = attr /\ coll' = coll
      BY <3>1, <3>3, Zenon DEF osd_remove_tmp_objects
    <3>5. dfile' = dfile
      BY <3>1, <3>3 DEF osd_remove_tmp_objects
    <3> QED
      BY <1>3, <1>4, <3>2, <3>4, <3>5 DEF CleanedUp
  <2>4. \A oid : ~create_objects(p, r, oid, 1)
    BY <1>4 DEF create_objects
  <2>5. ~nextoid_failed(p, r)
    BY <1>2 DEF nextoid_failed
  <2> QED
    BY <1>4, <2>2, <2>3, <2>4, <2>5 DEF osd_create
<1>5. ASSUME NEW s, created_removed(p, r, s) PROVE CleanedUp
  <2>1. /\ obj' = obj /\ attr' = attr_delete_all(p, r) /\ coll' = coll_delete_oid(p, r)
        /\ dfile' = dfile /\ data' = kept
    BY <1>5, RemovedWhole
  <2>2. ~obj_ispresent(p, r)
    BY <1>5 DEF created_removed, creatable
  <2>3. \A x \in attr : <<x[1], x[2]>> # <<p, r>>
    <3>1. ASSUME NEW x \in attr, x[1] = p, x[2] = r PROVE FALSE
      BY <1>2, <2>2, <3>1 DEF StoreInv, AttrsOwned, PARTITION_OID
    <3> QED
      BY <3>1
  <2>4. attr' = attr
    BY <2>1, <2>3, Zenon DEF attr_delete_all
  <2>5. coll' \subseteq coll /\ \A x \in coll \ coll' : <<x[1], x[3]>> = <<p, r>>
    BY <2>1, Zenon DEF coll_delete_oid
  <2> QED
    BY <1>1, <1>3, <2>1, <2>4, <2>5 DEF CleanedUp
<1> QED
  BY <1>1, <1>2, <1>4, <1>5

(* While no system call and no statement fails by itself, whatever commands,   *)
(* wrongly typed removals, stranded files, deaths and restarts came before: a  *)
(* CREATE AND WRITE of a requested id that reports a failure, also half way    *)
(* through its write, has left no object, no file, no byte and no attribute,   *)
(* and has at most removed memberships of that id (osd.c:1384-1388).           *)
THEOREM FailedWritesUndone == ASSUME ~Faults PROVE DSpec => FailedCreateAndWriteUndone
<1>1. DInit => TypeOK /\ StoreInv /\ dbfile /\ DataInv
  BY InitType, InitSafe, StartsAsBytes DEF DInit, Init
<1>2. TypeOK /\ StoreInv /\ dbfile /\ DataInv /\ [DNext]_dvars => TypeOK' /\ StoreInv' /\ dbfile' /\ DataInv'
  BY DataKeepsStore, DataKeepsDatabase, StepsAsBytes, StuttersAsBytes
<1>3. TypeOK /\ StoreInv /\ dbfile /\ DataInv /\ [DNext]_dvars => [Undone]_dvars
  BY StepUndoes
<1>4. [][Undone]_dvars => FailedCreateAndWriteUndone
  BY PTL DEF Undone, FailedCreateAndWriteUndone
<1> QED
  BY <1>1, <1>2, <1>3, <1>4, PTL DEF DSpec
==============================================================================
