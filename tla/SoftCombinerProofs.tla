------------------------- MODULE SoftCombinerProofs -------------------------
(***************************************************************************)
(* Proofs about SoftCombiner, for any bins, signatures, times to live and  *)
(* receptions: the entries of a bin stay far apart, and no sum bridges a   *)
(* silence.                                                                *)
(***************************************************************************)
EXTENDS SoftCombiner, ArithmeticLemmas

-----------------------------------------------------------------------------
(* What is retained of a bucket.                                           *)

(* f tells where the elements of t come from in s.                         *)
Selects(f, t, s, some) ==
  /\ f \in [1..Len(t) -> 1..Len(s)]
  /\ \A i \in 1..Len(t) : t[i] = s[f[i]] /\ t[i] \in some
  /\ \A i, j \in 1..Len(t) : i < j => f[i] < f[j]

(* The function that Retained is made of exists.                           *)
LEMMA RetainedRuns ==
  ASSUME NEW bucket, Len(bucket) \in Nat, NEW some
  PROVE  \E g : /\ \A i \in 0..Len(bucket) :
                    g[i] = IF i = 0 THEN <<>>
                           ELSE IF bucket[i] \in some THEN Append(g[i - 1], bucket[i])
                           ELSE g[i - 1]
                /\ Retained(bucket, some) = g[Len(bucket)]
<1> DEFINE n == Len(bucket)
           Step(t, i) == IF bucket[i] \in some THEN Append(t, bucket[i]) ELSE t
           IsRun(g, k) == g = [i \in 0..k |-> IF i = 0 THEN <<>> ELSE Step(g[i - 1], i)]
           none == {k \in 0..n : ~(\E g : IsRun(g, k))}
<1>1. n \in Nat /\ none \in SUBSET Nat
  OBVIOUS
<1>2. none = {}
  <2> SUFFICES ASSUME none # {} PROVE FALSE
    OBVIOUS
  <2>1. PICK k \in none : \A i \in none : k <= i
    <3> HIDE DEF none
    <3> QED BY <1>1, NaturalMinimum
  <2>2. k \in 0..n /\ ~(\E g : IsRun(g, k))
    <3> HIDE DEF IsRun
    <3> QED OBVIOUS
  <2>3. k # 0
    <3> DEFINE g == [i \in 0..0 |-> <<>>]
    <3>1. IsRun(g, 0)
      OBVIOUS
    <3> HIDE DEF IsRun
    <3> QED BY <2>2, <3>1
  <2>4. k \in Nat /\ k - 1 \in 0..n /\ k - 1 \notin none
    <3>1. k \in Nat /\ k - 1 \in 0..n
      BY <1>1, <2>2, <2>3
    <3> HIDE DEF none
    <3> QED BY <2>1, <3>1
  <2>5. PICK g : IsRun(g, k - 1)
    <3> HIDE DEF IsRun
    <3> QED BY <2>4
  <2> DEFINE h == [i \in 0..k |-> IF i = k THEN Step(g[k - 1], k) ELSE g[i]]
  <2>6. IsRun(h, k)
    <3>1. ASSUME NEW i \in 0..k PROVE h[i] = IF i = 0 THEN <<>> ELSE Step(h[i - 1], i)
      <4>1. CASE i = k
        <5>1. h[k - 1] = g[k - 1]
          BY <2>4
        <5> HIDE DEF Step
        <5> QED BY <2>3, <4>1, <5>1
      <4>2. CASE i # k
        <5>1. i \in 0..(k - 1) /\ h[i] = g[i] /\ (i # 0 => i - 1 \in 0..k /\ i - 1 # k)
          BY <2>4, <4>2
        <5> HIDE DEF Step
        <5> QED BY <2>5, <5>1
      <4> QED BY <4>1, <4>2
    <3> HIDE DEF Step
    <3> QED BY <3>1
  <2> HIDE DEF IsRun, h
  <2> QED BY <2>2, <2>6
<1> DEFINE r == CHOOSE g : IsRun(g, n)
<1>3. IsRun(r, n)
  <2>1. n \in 0..n
    BY <1>1
  <2> HIDE DEF IsRun
  <2> QED BY <1>2, <2>1
<1>4. Retained(bucket, some) = r[n]
  BY DEF Retained
<1> HIDE DEF r
<1> QED BY <1>3, <1>4

LEMMA RetainedSelects ==
  ASSUME NEW T, NEW bucket \in Seq(T), NEW some
  PROVE  /\ Retained(bucket, some) \in Seq(T)
         /\ \E f : Selects(f, Retained(bucket, some), bucket, some)
<1> DEFINE n == Len(bucket)
           Step(t, i) == IF bucket[i] \in some THEN Append(t, bucket[i]) ELSE t
           Part1(t, k) == /\ t \in Seq(T)
                          /\ \E f : /\ f \in [1..Len(t) -> 1..k]
                                    /\ \A i \in 1..Len(t) : t[i] = bucket[f[i]] /\ t[i] \in some
                                    /\ \A i, j \in 1..Len(t) : i < j => f[i] < f[j]
<1>1. n \in Nat
  OBVIOUS
<1>2. PICK g : /\ \A i \in 0..n : g[i] = IF i = 0 THEN <<>> ELSE Step(g[i - 1], i)
               /\ Retained(bucket, some) = g[n]
  BY <1>1, RetainedRuns
<1> DEFINE wrong == {k \in 0..n : ~Part1(g[k], k)}
<1>3. wrong = {}
  <2> SUFFICES ASSUME wrong # {} PROVE FALSE
    OBVIOUS
  <2>1. PICK k \in wrong : \A i \in wrong : k <= i
    <3>1. wrong \in SUBSET Nat
      OBVIOUS
    <3> HIDE DEF wrong
    <3> QED BY <3>1, NaturalMinimum
  <2>2. k \in 0..n /\ ~Part1(g[k], k)
    <3> HIDE DEF Part1
    <3> QED OBVIOUS
  <2>3. k # 0
    <3> SUFFICES ASSUME k = 0 PROVE FALSE
      OBVIOUS
    <3>1. g[0] = <<>>
      BY <1>1, <1>2
    <3>2. Part1(<<>>, 0)
      <4> DEFINE f == [i \in 1..0 |-> 0]
      <4>1. Len(<<>>) = 0 /\ <<>> \in Seq(T)
        OBVIOUS
      <4>2. /\ f \in [1..0 -> 1..0]
            /\ \A i \in 1..0 : FALSE
        OBVIOUS
      <4> QED BY <4>1, <4>2
    <3> HIDE DEF Part1
    <3> QED BY <2>2, <3>1, <3>2
  <2>4. k \in Nat /\ k - 1 \in 0..n /\ k - 1 \notin wrong
    <3>1. k \in Nat /\ k - 1 \in 0..n
      BY <1>1, <2>2, <2>3
    <3> HIDE DEF wrong
    <3> QED BY <2>1, <3>1
  <2> DEFINE t == g[k - 1]
  <2>5. Part1(t, k - 1)
    <3> HIDE DEF Part1
    <3> QED BY <2>4
  <2>7. g[k] = Step(t, k)
    <3> HIDE DEF Step
    <3> QED BY <1>2, <2>2, <2>3
  <2>8. PICK f : /\ f \in [1..Len(t) -> 1..(k - 1)]
                 /\ \A i \in 1..Len(t) : t[i] = bucket[f[i]] /\ t[i] \in some
                 /\ \A i, j \in 1..Len(t) : i < j => f[i] < f[j]
    BY <2>5
  <2>9. t \in Seq(T) /\ bucket[k] \in T
    BY <2>2, <2>3, <2>5
  <2> HIDE DEF t
  <2>10. Part1(Step(t, k), k)
    <3>1. CASE bucket[k] \notin some
      <4>1. Step(t, k) = t
        BY <3>1
      <4>2. f \in [1..Len(t) -> 1..k]
        BY <2>4, <2>8
      <4> HIDE DEF Step
      <4> QED BY <2>8, <2>9, <4>1, <4>2
    <3>2. CASE bucket[k] \in some
      <4> DEFINE u == Append(t, bucket[k])
                 e == [i \in 1..(Len(t) + 1) |-> IF i = Len(t) + 1 THEN k ELSE f[i]]
      <4>1. Step(t, k) = u
        BY <3>2
      <4>2. u \in Seq(T) /\ Len(u) = Len(t) + 1 /\ Len(t) \in Nat
        BY <2>9
      <4>3. /\ \A i \in 1..Len(t) : u[i] = t[i]
            /\ u[Len(t) + 1] = bucket[k]
        BY <2>9
      <4>4. e \in [1..(Len(t) + 1) -> 1..k]
        BY <2>4, <2>3, <2>8, <4>2
      <4>5. ASSUME NEW i \in 1..Len(u) PROVE u[i] = bucket[e[i]] /\ u[i] \in some
        <5>1. CASE i = Len(t) + 1
          BY <3>2, <4>2, <4>3, <5>1
        <5>2. CASE i # Len(t) + 1
          <6>1. i \in 1..Len(t) /\ e[i] = f[i]
            BY <4>2, <5>2
          <6> QED BY <2>8, <4>3, <6>1
        <5> QED BY <5>1, <5>2
      <4>6. ASSUME NEW i \in 1..Len(u), NEW j \in 1..Len(u), i < j PROVE e[i] < e[j]
        <5>1. i \in 1..Len(t) /\ e[i] = f[i] /\ f[i] \in 1..(k - 1)
          BY <2>8, <4>2, <4>6
        <5>2. CASE j = Len(t) + 1
          BY <2>4, <4>2, <5>1, <5>2
        <5>3. CASE j # Len(t) + 1
          <6>1. j \in 1..Len(t) /\ e[j] = f[j]
            BY <4>2, <5>3
          <6> QED BY <2>8, <4>6, <5>1, <6>1
        <5> QED BY <5>2, <5>3
      <4>7. e \in [1..Len(u) -> 1..k]
        BY <4>2, <4>4
      <4> HIDE DEF u, e, Step
      <4>8. Part1(u, k)
        BY <4>2, <4>5, <4>6, <4>7
      <4> QED BY <4>1, <4>8
    <3> QED BY <3>1, <3>2
  <2> HIDE DEF Part1, Step
  <2> QED BY <2>2, <2>7, <2>10
<1>4. Part1(g[n], n)
  <2>1. n \in 0..n
    BY <1>1
  <2> HIDE DEF Part1
  <2> QED BY <1>3, <2>1
<1> QED BY <1>2, <1>4 DEF Selects
-----------------------------------------------------------------------------
(* Buckets.                                                                *)
Entry == [signature : Signature, parts : SUBSET Part, lastSeen : Nat]
Buckets == [Bin -> Seq(Entry)]

(* The buckets of e are those of d, less some entries.                     *)
Thinned(e, d) == \A bin \in Bin : \E f : Selects(f, e[bin], d[bin], Entry)

LEMMA RetainedThins ==
  ASSUME NEW bucket \in Seq(Entry), NEW some
  PROVE  /\ Retained(bucket, some) \in Seq(Entry)
         /\ \E f : Selects(f, Retained(bucket, some), bucket, Entry)
         /\ \A i \in 1..Len(Retained(bucket, some)) : Retained(bucket, some)[i] \in some
<1>1. /\ Retained(bucket, some) \in Seq(Entry)
      /\ \E f : Selects(f, Retained(bucket, some), bucket, some)
  BY RetainedSelects
<1> DEFINE t == Retained(bucket, some)
<1> HIDE DEF t
<1>2. PICK f : Selects(f, t, bucket, some)
  BY <1>1 DEF t
<1>3. \A i \in 1..Len(t) : t[i] \in Entry
  BY <1>1 DEF t
<1>4. Selects(f, t, bucket, Entry)
  BY <1>2, <1>3 DEF Selects
<1>5. \A i \in 1..Len(t) : t[i] \in some
  BY <1>2 DEF Selects
<1> QED BY <1>1, <1>4, <1>5 DEF t

LEMMA FlushedThins ==
  ASSUME NEW e \in Buckets
  PROVE  /\ Flushed(e) \in Buckets
         /\ Thinned(Flushed(e), e)
         /\ \A bin \in Bin : \A i \in 1..Len(Flushed(e)[bin]) :
              now - Flushed(e)[bin][i].lastSeen <= Ttl
<1> DEFINE fresh(b) == {x \in Range(e[b]) : now - x.lastSeen <= Ttl}
<1>1. Flushed(e) = [b \in Bin |-> Retained(e[b], fresh(b))]
  BY DEF Flushed
<1>2. ASSUME NEW b \in Bin
      PROVE  /\ Retained(e[b], fresh(b)) \in Seq(Entry)
             /\ \E f : Selects(f, Retained(e[b], fresh(b)), e[b], Entry)
             /\ \A i \in 1..Len(Retained(e[b], fresh(b))) : Retained(e[b], fresh(b))[i] \in fresh(b)
  <2>1. e[b] \in Seq(Entry)
    BY DEF Buckets
  <2> HIDE DEF fresh
  <2> QED BY <2>1, RetainedThins
<1>3. ASSUME NEW b \in Bin, NEW i \in 1..Len(Flushed(e)[b])
      PROVE  now - Flushed(e)[b][i].lastSeen <= Ttl
  <2>1. Flushed(e)[b][i] \in fresh(b)
    <3> HIDE DEF fresh
    <3> QED BY <1>1, <1>2, <1>3
  <2> QED BY <2>1
<1> HIDE DEF fresh
<1> QED BY <1>1, <1>2, <1>3 DEF Thinned, Buckets

LEMMA MarkedThins ==
  ASSUME NEW e \in Buckets, NEW bin \in Bin, NEW sig
  PROVE  /\ MarkedDecoded(e, bin, sig) \in Buckets
         /\ Thinned(MarkedDecoded(e, bin, sig), e)
<1> DEFINE others == {x \in Range(e[bin]) : x.signature # sig}
           t == Retained(e[bin], others)
           g == MarkedDecoded(e, bin, sig)
<1>1. g = [e EXCEPT ![bin] = t]
  BY DEF MarkedDecoded
<1>2. \A b \in Bin : e[b] \in Seq(Entry)
  BY DEF Buckets
<1>3. t \in Seq(Entry) /\ \E f : Selects(f, t, e[bin], Entry)
  <2> HIDE DEF others
  <2> QED BY <1>2, RetainedThins
<1> HIDE DEF t, g
<1>4. \A b \in Bin : g[b] = IF b = bin THEN t ELSE e[b]
  BY <1>1 DEF Buckets
<1>5. g \in Buckets
  BY <1>1, <1>3 DEF Buckets
<1>6. ASSUME NEW b \in Bin, b # bin PROVE \E f : Selects(f, g[b], e[b], Entry)
  <2> DEFINE f == [i \in 1..Len(e[b]) |-> i]
  <2>1. Selects(f, e[b], e[b], Entry)
    BY <1>2 DEF Selects
  <2> QED BY <1>4, <1>6, <2>1
<1>7. Thinned(g, e)
  <2> SUFFICES ASSUME NEW b \in Bin PROVE \E f : Selects(f, g[b], e[b], Entry)
    BY DEF Thinned
  <2> QED BY <1>3, <1>4, <1>6
<1> QED BY <1>5, <1>7 DEF g

(* combine gives a flushed bucket a new entry, or an entry of it a part.   *)
LEMMA CombinedCases ==
  ASSUME NEW e \in Buckets, NEW bin \in Bin, NEW sig \in Signature, NEW part \in Part, now \in Nat
  PROVE  LET f == Flushed(e)
             c == Combined(e, bin, sig, part)
         IN  /\ c \in Buckets
             /\ \A b \in Bin \ {bin} : c[b] = f[b]
             /\ \/ /\ \A i \in 1..Len(f[bin]) : ~Near(sig, f[bin][i].signature)
                   /\ c[bin] = Append(f[bin], NewEntry(sig, part))
                \/ \E i \in 1..Len(f[bin]) :
                     /\ Len(c[bin]) = Len(f[bin])
                     /\ \A j \in 1..Len(f[bin]) \ {i} : c[bin][j] = f[bin][j]
                     /\ c[bin][i] = [signature |-> f[bin][i].signature,
                                     parts |-> f[bin][i].parts \cup {part}, lastSeen |-> now]
<1> DEFINE f == Flushed(e)
           c == Combined(e, bin, sig, part)
           I == {i \in 1..Len(f[bin]) : Near(sig, f[bin][i].signature)}
           at == FindEntry(f[bin], sig)
<1>1. f \in Buckets
  BY FlushedThins
<1>2. at = IF I # {} THEN Min(I) ELSE 0
  BY DEF FindEntry, SelectInSeq
<1>3. c = IF at = 0
          THEN [f EXCEPT ![bin] = Append(@, NewEntry(sig, part))]
          ELSE [f EXCEPT ![bin][at].parts = @ \cup {part}, ![bin][at].lastSeen = now]
  BY DEF Combined
<1> HIDE DEF f, c, at
<1>4. f[bin] \in Seq(Entry) /\ Len(f[bin]) \in Nat
  BY <1>1 DEF Buckets
<1>5. CASE I = {}
  <2>1. at = 0
    BY <1>2, <1>5
  <2>2. NewEntry(sig, part) \in Entry
    BY DEF NewEntry, Entry
  <2>3. c = [f EXCEPT ![bin] = Append(f[bin], NewEntry(sig, part))]
    BY <1>3, <2>1
  <2>4. Append(f[bin], NewEntry(sig, part)) \in Seq(Entry)
    BY <1>4, <2>2
  <2>5. c \in Buckets
    BY <1>1, <2>3, <2>4 DEF Buckets
  <2>6. c[bin] = Append(f[bin], NewEntry(sig, part)) /\ \A b \in Bin \ {bin} : c[b] = f[b]
    BY <1>1, <2>3 DEF Buckets
  <2>7. \A i \in 1..Len(f[bin]) : ~Near(sig, f[bin][i].signature)
    BY <1>5
  <2> QED BY <2>5, <2>6, <2>7 DEF f, c
<1>6. CASE I # {}
  <2>1. at \in I
    <3>1. I \in SUBSET Nat
      BY <1>4
    <3>2. \E i \in I : \A j \in I : i <= j
      BY <1>6, <3>1, NaturalMinimum
    <3> QED BY <1>2, <1>6, <3>2 DEF Min
  <2>2. at \in 1..Len(f[bin]) /\ at # 0
    BY <1>4, <2>1
  <2> DEFINE x == f[bin][at]
             y == [signature |-> x.signature, parts |-> x.parts \cup {part}, lastSeen |-> now]
  <2>3. x \in Entry
    BY <1>4, <2>2
  <2>4. y \in Entry
    BY <2>3 DEF Entry
  <2>5. c = [f EXCEPT ![bin] = [f[bin] EXCEPT ![at] = y]]
    <3>1. c = [f EXCEPT ![bin][at].parts = @ \cup {part}, ![bin][at].lastSeen = now]
      BY <1>3, <2>2
    <3> DEFINE z == [x EXCEPT !.parts = @ \cup {part}]
    <3>2. z = [signature |-> x.signature, parts |-> x.parts \cup {part}, lastSeen |-> x.lastSeen]
      BY <2>3 DEF Entry
    <3>3. [z EXCEPT !.lastSeen = now] = y
      <4> HIDE DEF z, x
      <4> QED BY <3>2
    <3> DEFINE one == [f EXCEPT ![bin][at].parts = @ \cup {part}]
    <3>4. one = [f EXCEPT ![bin] = [f[bin] EXCEPT ![at] = z]]
      OBVIOUS
    <3>5. c = [one EXCEPT ![bin][at].lastSeen = now]
      BY <3>1
    <3> HIDE DEF one, z, y
    <3>6. one[bin] = [f[bin] EXCEPT ![at] = z] /\ one[bin][at] = z
      BY <1>1, <1>4, <2>2, <3>4 DEF Buckets
    <3>7. c = [one EXCEPT ![bin] = [one[bin] EXCEPT ![at] = y]]
      BY <3>3, <3>5, <3>6
    <3>8. [one[bin] EXCEPT ![at] = y] = [f[bin] EXCEPT ![at] = y]
      BY <1>4, <3>6
    <3>9. one \in [Bin -> {one[b] : b \in Bin}] /\ f \in [Bin -> Seq(Entry)]
      BY <1>1, <3>4 DEF Buckets
    <3> QED BY <3>4, <3>7, <3>8, <3>9
  <2> HIDE DEF y
  <2> DEFINE new == [f[bin] EXCEPT ![at] = y]
  <2>6. new \in Seq(Entry) /\ Len(new) = Len(f[bin])
    BY <1>4, <2>2, <2>4
  <2>7. new[at] = y /\ \A j \in 1..Len(f[bin]) \ {at} : new[j] = f[bin][j]
    BY <1>4, <2>2
  <2> HIDE DEF new
  <2>8. c[bin] = new /\ \A b \in Bin \ {bin} : c[b] = f[b]
    BY <1>1, <2>5 DEF Buckets, new
  <2>9. c \in Buckets
    BY <1>1, <2>5, <2>6 DEF Buckets, new
  <2>10. \E i \in 1..Len(f[bin]) :
            /\ Len(c[bin]) = Len(f[bin])
            /\ \A j \in 1..Len(f[bin]) \ {i} : c[bin][j] = f[bin][j]
            /\ c[bin][i] = [signature |-> f[bin][i].signature,
                            parts |-> f[bin][i].parts \cup {part}, lastSeen |-> now]
    BY <2>2, <2>6, <2>7, <2>8 DEF y
  <2> QED BY <2>8, <2>9, <2>10 DEF f, c
<1> QED BY <1>5, <1>6
-----------------------------------------------------------------------------
(* The invariant: the entries of a bin are far apart, and a sum has no     *)
(* gap in it: its last part is the one its age is measured from, and each  *)
(* but the first has another within Ttl before it.                         *)
FarApart(e) ==
  \A bin \in Bin : \A i, j \in 1..Len(e[bin]) :
    i # j => ~Near(e[bin][i].signature, e[bin][j].signature)

Times(x) == {TimeOf(p) : p \in x.parts}

(* By the time t.                                                          *)
NoGap(x, t) ==
  /\ x.lastSeen \in Times(x) /\ x.lastSeen <= t
  /\ \A u \in Times(x) : u <= x.lastSeen
  /\ \A u \in Times(x) : \/ \A v \in Times(x) : u <= v
                        \/ \E v \in Times(x) : v \in (u - Ttl)..(u - 1)

NoGaps(e, t) == \A bin \in Bin : \A i \in 1..Len(e[bin]) : NoGap(e[bin][i], t)

Sound(e, t) == e \in Buckets /\ FarApart(e) /\ NoGaps(e, t)

CombinerInv == now \in Nat /\ Sound(entries, now)

LEMMA NearIsMutual == ASSUME NEW a, NEW b PROVE Near(a, b) <=> Near(b, a)
<1>1. (a \ b) \cup (b \ a) = (b \ a) \cup (a \ b)
  OBVIOUS
<1> QED BY <1>1 DEF Near, Hamming

LEMMA TimesAreNatural ==
  ASSUME NEW x \in Entry
  PROVE  Times(x) \in SUBSET Nat
<1> SUFFICES ASSUME NEW p \in x.parts PROVE TimeOf(p) \in Nat
  BY DEF Times
<1>1. p \in Part
  BY DEF Entry
<1> QED BY <1>1, CombinerAssumption

(* The clock only makes the sums older.                                    *)
LEMMA LaterIsSound ==
  ASSUME NEW e, NEW t \in Nat, NEW u \in Nat, t <= u, Sound(e, t)
  PROVE  Sound(e, u)
<1> SUFFICES ASSUME NEW bin \in Bin, NEW i \in 1..Len(e[bin]) PROVE NoGap(e[bin][i], u)
  BY DEF Sound, NoGaps
<1>1. e[bin] \in Seq(Entry) /\ NoGap(e[bin][i], t)
  BY DEF Sound, NoGaps, Buckets
<1>2. e[bin][i] \in Entry
  BY <1>1
<1>3. e[bin][i].lastSeen \in Nat
  BY <1>2 DEF Entry
<1> QED BY <1>1, <1>3 DEF NoGap

LEMMA ThinnedKeeps ==
  ASSUME NEW d \in Buckets, NEW e \in Buckets, Thinned(e, d)
  PROVE  /\ FarApart(d) => FarApart(e)
         /\ NoGaps(d, now) => NoGaps(e, now)
<1>1. ASSUME NEW bin \in Bin
      PROVE  /\ FarApart(d) => \A i, j \in 1..Len(e[bin]) :
                                 i # j => ~Near(e[bin][i].signature, e[bin][j].signature)
             /\ NoGaps(d, now) => \A i \in 1..Len(e[bin]) : NoGap(e[bin][i], now)
  <2>1. PICK f : Selects(f, e[bin], d[bin], Entry)
    BY DEF Thinned
  <2>2. /\ f \in [1..Len(e[bin]) -> 1..Len(d[bin])]
        /\ \A i \in 1..Len(e[bin]) : e[bin][i] = d[bin][f[i]]
        /\ \A i, j \in 1..Len(e[bin]) : i < j => f[i] < f[j]
    BY <2>1 DEF Selects
  <2>3. Len(e[bin]) \in Nat /\ Len(d[bin]) \in Nat
    BY DEF Buckets
  <2>4. ASSUME FarApart(d), NEW i \in 1..Len(e[bin]), NEW j \in 1..Len(e[bin]), i # j
        PROVE  ~Near(e[bin][i].signature, e[bin][j].signature)
    <3>1. f[i] # f[j]
      <4>1. i < j \/ j < i
        BY <2>3, <2>4
      <4>2. f[i] \in Int /\ f[j] \in Int
        BY <2>2, <2>3
      <4> QED BY <2>2, <4>1, <4>2
    <3>2. f[i] \in 1..Len(d[bin]) /\ f[j] \in 1..Len(d[bin])
      BY <2>2
    <3> QED BY <2>2, <2>4, <3>1, <3>2 DEF FarApart
  <2>5. ASSUME NoGaps(d, now), NEW i \in 1..Len(e[bin]) PROVE NoGap(e[bin][i], now)
    <3>1. f[i] \in 1..Len(d[bin]) /\ e[bin][i] = d[bin][f[i]]
      BY <2>2
    <3> QED BY <2>5, <3>1 DEF NoGaps
  <2> QED BY <2>4, <2>5
<1> QED BY <1>1 DEF FarApart, NoGaps

LEMMA CombinedFarApart ==
  ASSUME NEW e \in Buckets, FarApart(e), now \in Nat,
         NEW bin \in Bin, NEW sig \in Signature, NEW part \in Part
  PROVE  FarApart(Combined(e, bin, sig, part))
<1> DEFINE f == Flushed(e)
           c == Combined(e, bin, sig, part)
<1>1. f \in Buckets /\ FarApart(f)
  BY FlushedThins, ThinnedKeeps
<1>2. /\ c \in Buckets
      /\ \A b \in Bin \ {bin} : c[b] = f[b]
      /\ \/ /\ \A i \in 1..Len(f[bin]) : ~Near(sig, f[bin][i].signature)
            /\ c[bin] = Append(f[bin], NewEntry(sig, part))
         \/ \E i \in 1..Len(f[bin]) :
              /\ Len(c[bin]) = Len(f[bin])
              /\ \A j \in 1..Len(f[bin]) \ {i} : c[bin][j] = f[bin][j]
              /\ c[bin][i] = [signature |-> f[bin][i].signature,
                              parts |-> f[bin][i].parts \cup {part}, lastSeen |-> now]
  BY CombinedCases
<1> HIDE DEF f, c
<1>3. f[bin] \in Seq(Entry) /\ Len(f[bin]) \in Nat
  BY <1>1 DEF Buckets
<1> SUFFICES ASSUME NEW i \in 1..Len(c[bin]), NEW j \in 1..Len(c[bin]), i # j
             PROVE  ~Near(c[bin][i].signature, c[bin][j].signature)
  BY <1>1, <1>2 DEF FarApart, c
<1>4. CASE /\ \A k \in 1..Len(f[bin]) : ~Near(sig, f[bin][k].signature)
           /\ c[bin] = Append(f[bin], NewEntry(sig, part))
  <2> DEFINE n == Len(f[bin])
  <2>1. /\ Len(c[bin]) = n + 1 /\ c[bin][n + 1].signature = sig
        /\ \A k \in 1..n : c[bin][k] = f[bin][k]
    BY <1>3, <1>4 DEF NewEntry
  <2>2. CASE i = n + 1
    <3>1. j \in 1..n
      BY <1>3, <2>1, <2>2
    <3> QED BY <1>4, <2>1, <2>2, <3>1
  <2>3. CASE j = n + 1
    <3>1. i \in 1..n
      BY <1>3, <2>1, <2>3
    <3>2. ~Near(sig, c[bin][i].signature)
      BY <1>4, <2>1, <3>1
    <3> QED BY <2>1, <2>3, <3>2, NearIsMutual
  <2>4. CASE i # n + 1 /\ j # n + 1
    <3>1. i \in 1..n /\ j \in 1..n
      BY <1>3, <2>1, <2>4
    <3> QED BY <1>1, <2>1, <3>1 DEF FarApart
  <2> QED BY <2>2, <2>3, <2>4
<1>5. CASE \E k \in 1..Len(f[bin]) :
             /\ Len(c[bin]) = Len(f[bin])
             /\ \A l \in 1..Len(f[bin]) \ {k} : c[bin][l] = f[bin][l]
             /\ c[bin][k] = [signature |-> f[bin][k].signature,
                             parts |-> f[bin][k].parts \cup {part}, lastSeen |-> now]
  <2>1. /\ Len(c[bin]) = Len(f[bin])
        /\ \A l \in 1..Len(f[bin]) : c[bin][l].signature = f[bin][l].signature
    BY <1>5
  <2> QED BY <1>1, <2>1 DEF FarApart
<1> QED BY <1>2, <1>4, <1>5

(* A part that is heard now leaves no gap in the sum it is added to.       *)
LEMMA PartLeavesNoGap ==
  ASSUME NEW x \in Entry, NoGap(x, now), now - x.lastSeen <= Ttl, now \in Nat,
         NEW part \in Part, TimeOf(part) = now
  PROVE  NoGap([signature |-> x.signature, parts |-> x.parts \cup {part}, lastSeen |-> now], now)
<1> DEFINE y == [signature |-> x.signature, parts |-> x.parts \cup {part}, lastSeen |-> now]
<1>1. /\ Times(x) \in SUBSET Nat /\ x.lastSeen \in Nat /\ Ttl \in Nat
      /\ x.lastSeen \in Times(x) /\ x.lastSeen <= now /\ \A t \in Times(x) : t <= x.lastSeen
      /\ \A t \in Times(x) : \/ \A u \in Times(x) : t <= u
                            \/ \E u \in Times(x) : u \in (t - Ttl)..(t - 1)
  BY TimesAreNatural, CombinerAssumption DEF NoGap, Entry
<1>2. y.parts = x.parts \cup {part} /\ y.lastSeen = now
  OBVIOUS
<1> HIDE DEF y
<1>3. Times(y) = Times(x) \cup {now}
  BY <1>2 DEF Times
<1>4. \A t \in Times(y) : t <= now /\ t \in Nat
  BY <1>1, <1>3
<1>5. ASSUME NEW t \in Times(y)
      PROVE  \/ \A u \in Times(y) : t <= u
             \/ \E u \in Times(y) : u \in (t - Ttl)..(t - 1)
  <2>1. CASE t \in Times(x)
    <3>1. CASE \A u \in Times(x) : t <= u
      <4>1. \A u \in Times(y) : t <= u
        BY <1>3, <1>4, <3>1
      <4> QED BY <4>1
    <3>2. CASE \E u \in Times(x) : u \in (t - Ttl)..(t - 1)
      BY <1>3, <3>2
    <3> QED BY <1>1, <2>1, <3>1, <3>2
  <2>2. CASE t \notin Times(x)
    <3>1. t = now
      BY <1>3, <2>2
    <3>2. x.lastSeen # now
      BY <1>1, <2>2, <3>1
    <3>3. x.lastSeen \in (t - Ttl)..(t - 1)
      BY <1>1, <3>1, <3>2
    <3> QED BY <1>1, <1>3, <3>3
  <2> QED BY <2>1, <2>2
<1> QED BY <1>2, <1>3, <1>4, <1>5 DEF NoGap, y

LEMMA CombinedNoGaps ==
  ASSUME NEW e \in Buckets, NoGaps(e, now), now \in Nat,
         NEW bin \in Bin, NEW sig \in Signature, NEW part \in Part, TimeOf(part) = now
  PROVE  NoGaps(Combined(e, bin, sig, part), now)
<1> DEFINE f == Flushed(e)
           c == Combined(e, bin, sig, part)
<1>1. /\ f \in Buckets /\ NoGaps(f, now)
      /\ \A i \in 1..Len(f[bin]) : now - f[bin][i].lastSeen <= Ttl
  BY FlushedThins, ThinnedKeeps
<1>2. /\ c \in Buckets
      /\ \A b \in Bin \ {bin} : c[b] = f[b]
      /\ \/ c[bin] = Append(f[bin], NewEntry(sig, part))
         \/ \E i \in 1..Len(f[bin]) :
              /\ Len(c[bin]) = Len(f[bin])
              /\ \A j \in 1..Len(f[bin]) \ {i} : c[bin][j] = f[bin][j]
              /\ c[bin][i] = [signature |-> f[bin][i].signature,
                              parts |-> f[bin][i].parts \cup {part}, lastSeen |-> now]
  BY CombinedCases
<1> HIDE DEF f, c
<1>3. f[bin] \in Seq(Entry) /\ Len(f[bin]) \in Nat
  BY <1>1 DEF Buckets
<1> SUFFICES ASSUME NEW i \in 1..Len(c[bin]) PROVE NoGap(c[bin][i], now)
  BY <1>1, <1>2 DEF NoGaps, c
<1>4. CASE c[bin] = Append(f[bin], NewEntry(sig, part))
  <2> DEFINE n == Len(f[bin])
  <2>1. CASE i = n + 1
    <3>1. c[bin][i] = NewEntry(sig, part)
      BY <1>3, <1>4, <2>1
    <3>2. Times(NewEntry(sig, part)) = {now} /\ NewEntry(sig, part).lastSeen = now
      BY DEF Times, NewEntry
    <3> QED BY <3>1, <3>2 DEF NoGap
  <2>2. CASE i # n + 1
    <3>1. i \in 1..n /\ c[bin][i] = f[bin][i]
      BY <1>3, <1>4, <2>2
    <3> QED BY <1>1, <3>1 DEF NoGaps
  <2> QED BY <2>1, <2>2
<1>5. CASE \E k \in 1..Len(f[bin]) :
             /\ Len(c[bin]) = Len(f[bin])
             /\ \A l \in 1..Len(f[bin]) \ {k} : c[bin][l] = f[bin][l]
             /\ c[bin][k] = [signature |-> f[bin][k].signature,
                             parts |-> f[bin][k].parts \cup {part}, lastSeen |-> now]
  <2>1. PICK k \in 1..Len(f[bin]) :
             /\ Len(c[bin]) = Len(f[bin])
             /\ \A l \in 1..Len(f[bin]) \ {k} : c[bin][l] = f[bin][l]
             /\ c[bin][k] = [signature |-> f[bin][k].signature,
                             parts |-> f[bin][k].parts \cup {part}, lastSeen |-> now]
    BY <1>5
  <2>2. CASE i = k
    <3> DEFINE x == f[bin][k]
    <3>1. x \in Entry /\ NoGap(x, now) /\ now - x.lastSeen <= Ttl
      BY <1>1, <1>3 DEF NoGaps
    <3> HIDE DEF x
    <3>2. NoGap([signature |-> x.signature, parts |-> x.parts \cup {part}, lastSeen |-> now], now)
      BY <3>1, PartLeavesNoGap
    <3> QED BY <2>1, <2>2, <3>2 DEF x
  <2>3. CASE i # k
    BY <1>1, <2>1, <2>3 DEF NoGaps
  <2> QED BY <2>2, <2>3
<1> QED BY <1>2, <1>4, <1>5
-----------------------------------------------------------------------------
(* What a flush, a combine and a mark_decoded leave is sound.              *)
LEMMA FlushedSound ==
  ASSUME NEW e, Sound(e, now)
  PROVE  Sound(Flushed(e), now)
BY FlushedThins, ThinnedKeeps DEF Sound

LEMMA MarkedSound ==
  ASSUME NEW e, Sound(e, now), NEW bin \in Bin, NEW sig
  PROVE  Sound(MarkedDecoded(e, bin, sig), now)
BY MarkedThins, ThinnedKeeps DEF Sound

LEMMA CombinedSound ==
  ASSUME NEW e, Sound(e, now), now \in Nat,
         NEW bin \in Bin, NEW sig \in Signature, NEW part \in Part, TimeOf(part) = now
  PROVE  Sound(Combined(e, bin, sig, part), now)
<1>1. e \in Buckets /\ FarApart(e) /\ NoGaps(e, now)
  BY DEF Sound
<1>2. Combined(e, bin, sig, part) \in Buckets
  BY <1>1, CombinedCases
<1>3. FarApart(Combined(e, bin, sig, part)) /\ NoGaps(Combined(e, bin, sig, part), now)
  BY <1>1, CombinedFarApart, CombinedNoGaps
<1> QED BY <1>2, <1>3 DEF Sound

(* What the two promises of the combiner say of sound buckets.             *)
LEMMA SoundIsFarApart ==
  ASSUME NEW e, NEW t, Sound(e, t)
  PROVE  \A bin \in Bin : \A i, j \in DOMAIN e[bin] :
           i # j => ~Near(e[bin][i].signature, e[bin][j].signature)
<1> SUFFICES ASSUME NEW bin \in Bin
             PROVE  \A i, j \in DOMAIN e[bin] :
                      i # j => ~Near(e[bin][i].signature, e[bin][j].signature)
  OBVIOUS
<1>1. DOMAIN e[bin] = 1..Len(e[bin])
  BY DEF Sound, Buckets
<1> QED BY <1>1 DEF Sound, FarApart

LEMMA SoundHasNoGaps ==
  ASSUME NEW e, NEW t0, Sound(e, t0), NEW bin \in Bin, NEW i \in DOMAIN e[bin]
  PROVE  LET x == e[bin][i]
             times == {TimeOf(p) : p \in x.parts}
         IN  /\ \A t \in times : t # Min(times) => \E u \in times : u \in (t - Ttl)..(t - 1)
             /\ x.lastSeen = Max(times)
<1> DEFINE x == e[bin][i]
           times == Times(x)
<1>1. e[bin] \in Seq(Entry) /\ i \in 1..Len(e[bin])
  BY DEF Sound, Buckets
<1>2. x \in Entry /\ NoGap(x, t0)
  BY <1>1 DEF Sound, NoGaps
<1>3. /\ times \in SUBSET Nat /\ x.lastSeen \in times /\ \A t \in times : t <= x.lastSeen
      /\ \A t \in times : \/ \A u \in times : t <= u
                         \/ \E u \in times : u \in (t - Ttl)..(t - 1)
  BY <1>2, TimesAreNatural DEF NoGap
<1> HIDE DEF times
<1>4. Max(times) = x.lastSeen
  <2>1. ASSUME NEW m \in times, \A t \in times : m >= t PROVE m = x.lastSeen
    <3>1. m \in Nat /\ x.lastSeen \in Nat
      BY <1>3
    <3>2. m >= x.lastSeen /\ m <= x.lastSeen
      BY <1>3, <2>1
    <3> QED BY <3>1, <3>2
  <2>2. \A t \in times : x.lastSeen >= t
    BY <1>3
  <2> QED BY <1>3, <2>1, <2>2 DEF Max
<1>5. \A t \in times : (\A u \in times : t <= u) => t = Min(times)
  <2> SUFFICES ASSUME NEW t \in times, \A u \in times : t <= u PROVE t = Min(times)
    OBVIOUS
  <2>1. \A m \in times : (\A u \in times : m <= u) => m = t
    BY <1>3
  <2> QED BY <2>1 DEF Min
<1>6. \A t \in times : t # Min(times) => \E u \in times : u \in (t - Ttl)..(t - 1)
  BY <1>3, <1>5
<1> QED BY <1>4, <1>6 DEF times, Times
-----------------------------------------------------------------------------
LEMMA CombinerInit == Init => CombinerInv
<1> SUFFICES ASSUME Init PROVE CombinerInv
  OBVIOUS
<1>1. now = 0 /\ entries \in Buckets /\ \A b \in Bin : entries[b] = <<>>
  BY DEF Init, NoEntries, Buckets
<1>2. \A b \in Bin : 1..Len(entries[b]) = {}
  BY <1>1
<1> QED BY <1>1, <1>2 DEF CombinerInv, Sound, FarApart, NoGaps

LEMMA CombinerStep == CombinerInv /\ [Next]_combinerVars => CombinerInv'
<1> SUFFICES ASSUME CombinerInv, [Next]_combinerVars PROVE CombinerInv'
  OBVIOUS
<1>1. now \in Nat /\ Sound(entries, now)
  BY DEF CombinerInv
<1>2. ASSUME Sound(entries', now), now' = now \/ now' = now + 1
      PROVE  CombinerInv'
  <2>1. now' \in Nat /\ now <= now'
    BY <1>1, <1>2
  <2>2. Sound(entries', now')
    BY <1>1, <1>2, <2>1, LaterIsSound
  <2> QED BY <2>1, <2>2 DEF CombinerInv
<1>3. CASE Tick
  BY <1>1, <1>2, <1>3 DEF Tick
<1>4. CASE Flush
  BY <1>1, <1>2, <1>4, FlushedSound DEF Flush
<1>5. ASSUME NEW bin \in Bin, NEW sig \in Signature, Combine(bin, sig) PROVE CombinerInv'
  <2>1. PICK p \in Part : TimeOf(p) = now /\ entries' = Combined(entries, bin, sig, p)
    BY <1>5 DEF Combine
  <2> QED BY <1>1, <1>2, <1>5, <2>1, CombinedSound DEF Combine
<1>6. ASSUME NEW bin \in Bin, NEW sig \in Signature, MarkDecoded(bin, sig) PROVE CombinerInv'
  BY <1>1, <1>2, <1>6, MarkedSound DEF MarkDecoded
<1>7. CASE UNCHANGED combinerVars
  BY <1>1, <1>2, <1>7 DEF combinerVars
<1> QED BY <1>3, <1>4, <1>5, <1>6, <1>7 DEF Next

LEMMA CombinerInvariance == Spec => []CombinerInv
BY CombinerInit, CombinerStep, PTL DEF Spec

(* EntriesFarApart: whatever is combined, flushed and marked decoded, and  *)
(* when, no two entries of a bin are near each other, so that find_entry   *)
(* never chooses between two sums of one signal.                           *)
THEOREM NoSignalIsSplit == Spec => []EntriesFarApart
<1>1. CombinerInv => EntriesFarApart
  BY SoundIsFarApart DEF CombinerInv, EntriesFarApart
<1> QED BY <1>1, CombinerInvariance, PTL

(* SumsHaveNoGaps: an entry that outlived a silence longer than its time   *)
(* to live would add a new signal to an old one; every part but the first  *)
(* was heard within Ttl of an earlier one.                                 *)
THEOREM NoSumBridgesASilence == Spec => []SumsHaveNoGaps
<1>1. CombinerInv => SumsHaveNoGaps
  BY SoundHasNoGaps DEF CombinerInv, SumsHaveNoGaps
<1> QED BY <1>1, CombinerInvariance, PTL
=============================================================================
