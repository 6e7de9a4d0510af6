--------------------------- MODULE ExplorerProofs ---------------------------
(***************************************************************************)
(* Theorems about the explorer and the heaviest screens, for every tree of *)
(* directories, every number of workers, every capacity and every limit.   *)
(* First come the lemmas: what the operators of the explorer, of its       *)
(* listings and of its searches make of the state they are given.          *)
(***************************************************************************)
EXTENDS Explorer, DataLemmas

-----------------------------------------------------------------------------
(* The collection of the largest files (HeaviestFiles). *)

(* A set of positions without a gap is an initial segment. *)
LEMMA Prefix ==
  ASSUME NEW n \in Nat, NEW K \in SUBSET (1 .. n), \A k \in K : \A j \in 1 .. k : j \in K
  PROVE  Cardinality(K) \in 0 .. n /\ K = 1 .. Cardinality(K)
<1> DEFINE G == {m \in Nat : \A k \in K : k <= m}
<1>1. n \in G /\ G \in SUBSET Nat
  OBVIOUS
<1>2. PICK m \in G : \A l \in G : m <= l
  <2> HIDE DEF G
  <2> QED BY <1>1, LeastOf
<1>3. m <= n /\ m \in Nat
  BY <1>1, <1>2
<1>4. m = 0 \/ m \in K
  <2> SUFFICES ASSUME m # 0, m \notin K PROVE FALSE
    OBVIOUS
  <2>1. m - 1 \in Nat
    BY <1>3
  <2>2. \A k \in K : k <= m - 1
    <3> TAKE k \in K
    <3>1. k \in Nat /\ k <= m /\ k # m
      BY <1>2
    <3> QED BY <3>1, <1>3
  <2>3. m - 1 \in G
    BY <2>1, <2>2
  <2>4. m <= m - 1
    BY <2>3, <1>2
  <2> QED BY <2>4, <1>3
<1>5. K = 1 .. m
  <2>1. ASSUME NEW k \in K PROVE k \in 1 .. m
    <3>1. k \in 1 .. n /\ k <= m
      BY <1>2
    <3> QED BY <3>1, <1>3
  <2>2. ASSUME NEW k \in 1 .. m PROVE k \in K
    <3>1. m # 0
      BY <1>3
    <3> QED BY <1>4, <3>1
  <2> QED BY <2>1, <2>2
<1>6. Cardinality(1 .. m) = m
  <2>1. Cardinality(1 .. m) = IF 1 > m THEN 0 ELSE m - 1 + 1
    BY <1>3, FS_Interval
  <2> QED BY <2>1, <1>3
<1> QED BY <1>3, <1>5, <1>6

(* r is s with e after its first k members. *)
Inserted(r, s, k, e, S) ==
  /\ r \in Seq(S) /\ Len(r) = Len(s) + 1 /\ r[k + 1] = e
  /\ \A i \in 1 .. k : r[i] = s[i]
  /\ \A i \in k + 2 .. Len(s) + 1 : r[i] = s[i - 1]

LEMMA InsertAtFacts ==
  ASSUME NEW S, NEW s \in Seq(S), NEW e \in S, NEW k \in 0 .. Len(s)
  PROVE  Inserted(InsertAt(s, k + 1, e), s, k, e, S)
<1> DEFINE a == SubSeq(s, 1, k)
           z == SubSeq(s, k + 1, Len(s))
           n == Len(s)
<1>1. n \in Nat /\ k \in Nat /\ k <= n /\ \A i \in 1 .. n : s[i] \in S
  BY LenProperties, ElementOfSeq
<1>2. InsertAt(s, k + 1, e) = a \o <<e>> \o z
  <2>1. InsertAt(s, k + 1, e) = SubSeq(s, 1, (k + 1) - 1) \o <<e>> \o z
    BY DEF InsertAt
  <2>2. (k + 1) - 1 = k
    BY <1>1
  <2> HIDE DEF z
  <2> QED BY <2>1, <2>2
<1>3. a \in Seq(S) /\ Len(a) = k /\ \A i \in 1 .. k : a[i] = s[i]
  <2>1. \A i \in 1 .. k : s[i] \in S
    BY <1>1
  <2>2. /\ a \in Seq(S) /\ Len(a) = IF 1 <= k THEN k - 1 + 1 ELSE 0
        /\ \A i \in 1 .. k - 1 + 1 : a[i] = s[1 + i - 1]
    BY <1>1, <2>1, SubSeqProperties
  <2>3. Len(a) = k
    BY <1>1, <2>2
  <2>4. \A i \in 1 .. k : a[i] = s[i]
    BY <1>1, <2>2
  <2> QED BY <2>2, <2>3, <2>4
<1>4. z \in Seq(S) /\ Len(z) = n - k /\ \A i \in 1 .. n - k : z[i] = s[k + i]
  <2>1. \A i \in k + 1 .. n : s[i] \in S
    BY <1>1
  <2>2. /\ z \in Seq(S) /\ Len(z) = IF k + 1 <= n THEN n - (k + 1) + 1 ELSE 0
        /\ \A i \in 1 .. n - (k + 1) + 1 : z[i] = s[(k + 1) + i - 1]
    BY <1>1, <2>1, SubSeqProperties
  <2>3. Len(z) = n - k
    BY <1>1, <2>2
  <2>4. \A i \in 1 .. n - k : z[i] = s[k + i]
    BY <1>1, <2>2
  <2> QED BY <2>2, <2>3, <2>4
<1> HIDE DEF a, z, n
<1>5. <<e>> \in Seq(S) /\ Len(<<e>>) = 1 /\ <<e>>[1] = e
  OBVIOUS
<1>6. /\ a \o <<e>> \in Seq(S) /\ Len(a \o <<e>>) = k + 1
      /\ \A i \in 1 .. k + 1 : (a \o <<e>>)[i] = IF i <= k THEN a[i] ELSE <<e>>[i - k]
  BY <1>3, <1>5, ConcatProperties
<1> DEFINE b == a \o <<e>>
<1> HIDE DEF b
<1>7. b \in Seq(S) /\ Len(b) = k + 1 /\ (\A i \in 1 .. k : b[i] = s[i]) /\ b[k + 1] = e
  <2>1. \A i \in 1 .. k : i \in 1 .. k + 1 /\ i <= k
    BY <1>1
  <2>2. k + 1 \in 1 .. k + 1 /\ ~(k + 1 <= k) /\ (k + 1) - k = 1
    BY <1>1
  <2>3. \A i \in 1 .. k : b[i] = s[i]
    BY <2>1, <1>3, <1>6 DEF b
  <2>4. b[k + 1] = e
    BY <2>2, <1>5, <1>6 DEF b
  <2> QED BY <1>6, <2>3, <2>4 DEF b
<1>8. /\ b \o z \in Seq(S) /\ Len(b \o z) = Len(b) + Len(z)
      /\ \A i \in 1 .. Len(b) + Len(z) : (b \o z)[i] = IF i <= Len(b) THEN b[i] ELSE z[i - Len(b)]
  BY <1>4, <1>7, ConcatProperties
<1> DEFINE r == InsertAt(s, k + 1, e)
<1> HIDE DEF r
<1>9. r = b \o z
  BY <1>2 DEF b, r
<1>10. Len(b) = k + 1 /\ Len(b) + Len(z) = n + 1
  BY <1>1, <1>4, <1>7
<1>11. r \in Seq(S) /\ Len(r) = n + 1
       /\ \A i \in 1 .. n + 1 : r[i] = IF i <= k + 1 THEN b[i] ELSE z[i - (k + 1)]
  BY <1>8, <1>9, <1>10
<1>12. \A i \in 1 .. k : r[i] = s[i]
  <2>1. \A i \in 1 .. k : i \in 1 .. n + 1 /\ i <= k + 1
    BY <1>1
  <2> QED BY <2>1, <1>7, <1>11
<1>13. r[k + 1] = e
  <2>1. k + 1 \in 1 .. n + 1 /\ k + 1 <= k + 1
    BY <1>1
  <2> QED BY <2>1, <1>7, <1>11
<1>14. \A i \in k + 2 .. n + 1 : r[i] = s[i - 1]
  <2> TAKE i \in k + 2 .. n + 1
  <2>1. i \in 1 .. n + 1 /\ ~(i <= k + 1) /\ i - (k + 1) \in 1 .. n - k
        /\ k + (i - (k + 1)) = i - 1
    BY <1>1
  <2> QED BY <2>1, <1>4, <1>11
<1> QED BY <1>11, <1>12, <1>13, <1>14 DEF r, n, Inserted

(* h holds the largest of the files in F, each once and sorted by size. *)
HoldsLargest(h, F) ==
  /\ h = [limit |-> h.limit, kept |-> h.kept] /\ h.limit \in Nat \ {0}
  /\ h.kept \in Seq(F) /\ Distinct(h.kept) /\ Len(h.kept) <= h.limit
  /\ \A i, j \in DOMAIN h.kept : i <= j => h.kept[i].size >= h.kept[j].size
  /\ \A f \in F \ Elements(h.kept) :
       Len(h.kept) = h.limit /\ \A i \in DOMAIN h.kept : f.size <= h.kept[i].size

LEMMA EmptyHolds ==
  ASSUME NEW limit \in Nat
  PROVE  HoldsLargest(NewHeap(limit), {}) /\ NewHeap(limit).kept = <<>>
<1> DEFINE h == NewHeap(limit)
<1>1. h.kept = <<>> /\ h.limit \in Nat \ {0} /\ h = [limit |-> h.limit, kept |-> h.kept]
  BY DEF NewHeap
<1>2. h.kept \in Seq({}) /\ Len(h.kept) = 0 /\ DOMAIN h.kept = {}
  BY <1>1, EmptySeq
<1> HIDE DEF h
<1>3. HoldsLargest(h, {})
  BY <1>1, <1>2 DEF HoldsLargest, Distinct
<1> QED BY <1>1, <1>3 DEF h

(* What is offered to a collection that holds the largest of F: it holds   *)
(* the largest of F and the new file.                                      *)
LEMMA OfferHolds ==
  ASSUME NEW F, NEW h, HoldsLargest(h, F), NEW f, f \notin F, f.size \in Nat,
         \A g \in F : g.size \in Nat
  PROVE  HoldsLargest(Offer(h, f), F \cup {f}) /\ Offer(h, f).limit = h.limit
<1> DEFINE s == h.kept
           n == Len(s)
           G == F \cup {f}
<1>1. /\ h = [limit |-> h.limit, kept |-> s] /\ h.limit \in Nat \ {0}
      /\ s \in Seq(F) /\ Distinct(s) /\ n <= h.limit /\ n \in Nat /\ DOMAIN s = 1 .. n
      /\ \A i, j \in 1 .. n : i <= j => s[i].size >= s[j].size
      /\ \A g \in F \ Elements(s) :
           n = h.limit /\ \A i \in 1 .. n : g.size <= s[i].size
      /\ \A i \in 1 .. n : s[i] \in F /\ s[i].size \in Nat
  <2>1. s \in Seq(F)
    BY DEF HoldsLargest
  <2>2. n \in Nat /\ DOMAIN s = 1 .. n /\ \A i \in 1 .. n : s[i] \in F
    BY <2>1, LenProperties, ElementOfSeq
  <2> QED BY <2>1, <2>2 DEF HoldsLargest
<1>2. CASE IsFull(h) /\ f.size <= SmallestKept(h)
  <2>1. Offer(h, f) = h
    BY <1>2 DEF Offer
  <2>2. n = h.limit /\ f.size <= s[n].size /\ n \in 1 .. n
    BY <1>1, <1>2 DEF IsFull, SmallestKept
  <2>3. \A i \in 1 .. n : f.size <= s[i].size
    <3> TAKE i \in 1 .. n
    <3>1. i <= n /\ s[i].size >= s[n].size
      BY <1>1, <2>2
    <3> QED BY <1>1, <2>2, <3>1
  <2>4. s \in Seq(G)
    BY <1>1, SeqMonotonic
  <2>5. \A g \in G \ Elements(s) : n = h.limit /\ \A i \in 1 .. n : g.size <= s[i].size
    BY <1>1, <2>2, <2>3
  <2> HIDE DEF s, n, G
  <2>6. HoldsLargest(h, G)
    BY <1>1, <2>4, <2>5 DEF HoldsLargest, s, n
  <2> QED BY <2>1, <2>6 DEF G
<1>3. CASE ~(IsFull(h) /\ f.size <= SmallestKept(h))
  <2> DEFINE t == IF IsFull(h) THEN Front(s) ELSE s
             m == Len(t)
             K == {i \in DOMAIN t : t[i].size >= f.size}
             a == Cardinality(K)
             r == InsertAt(t, a + 1, f)
  <2>1. Offer(h, f) = [h EXCEPT !.kept = r]
    BY <1>3 DEF Offer
  <2>2. /\ t \in Seq(F) /\ DOMAIN t = 1 .. m /\ m \in Nat /\ m < h.limit
        /\ m = (IF n = h.limit THEN n - 1 ELSE n) /\ \A i \in 1 .. m : t[i] = s[i]
    <3>1. CASE IsFull(h)
      <4>1. n = h.limit /\ t = SubSeq(s, 1, n - 1)
        BY <1>1, <3>1 DEF IsFull, Front
      <4>2. \A i \in 1 .. n - 1 : s[i] \in F
        BY <1>1
      <4>3. n - 1 \in Int /\ 1 \in Int
        BY <1>1
      <4>4. /\ t \in Seq(F) /\ Len(t) = (IF 1 <= n - 1 THEN n - 1 - 1 + 1 ELSE 0)
            /\ \A i \in 1 .. n - 1 - 1 + 1 : t[i] = s[1 + i - 1]
        <5> HIDE DEF t, n, s
        <5> QED BY <4>1, <4>2, <4>3, SubSeqProperties
      <4> HIDE DEF t
      <4>5. m = n - 1 /\ DOMAIN t = 1 .. m
        BY <1>1, <4>1, <4>4, LenProperties
      <4>6. \A i \in 1 .. m : t[i] = s[i]
        BY <1>1, <4>4, <4>5
      <4> QED BY <1>1, <4>1, <4>4, <4>5, <4>6
    <3>2. CASE ~IsFull(h)
      <4>1. t = s /\ n < h.limit
        BY <1>1, <3>2 DEF IsFull
      <4> QED BY <1>1, <4>1
    <3> QED BY <3>1, <3>2
  <2>3. m <= n /\ (m < n => n = h.limit /\ m = n - 1 /\ s[n].size < f.size)
    <3>1. CASE m < n
      <4>1. n = h.limit /\ m = n - 1
        BY <1>1, <2>2, <3>1
      <4>2. IsFull(h) /\ n \in 1 .. n
        BY <1>1, <4>1 DEF IsFull
      <4>3. s[n].size < f.size
        BY <1>1, <1>3, <4>2 DEF SmallestKept
      <4> QED BY <4>1, <4>3, <3>1
    <3>2. CASE ~(m < n)
      BY <1>1, <2>2, <3>2
    <3> QED BY <3>1, <3>2
  <2> HIDE DEF t
  <2>4. a \in 0 .. m /\ K = 1 .. a
    <3>1. K \in SUBSET (1 .. m)
      BY <2>2
    <3>2. ASSUME NEW k \in K, NEW j \in 1 .. k PROVE j \in K
      <4>1. k \in 1 .. m /\ j \in 1 .. m /\ j <= k
        BY <3>1, <3>2
      <4>2. k \in 1 .. n /\ j \in 1 .. n /\ t[k] = s[k] /\ t[j] = s[j]
        BY <1>1, <2>2, <2>3, <4>1
      <4>3. s[j].size >= s[k].size /\ s[k].size >= f.size
        BY <1>1, <4>1, <4>2
      <4>4. t[j].size >= f.size
        BY <1>1, <4>2, <4>3
      <4> QED BY <2>2, <4>1, <4>4
    <3> HIDE DEF K
    <3> QED BY <2>2, <3>1, <3>2, Prefix
  <2>5. \A i \in 1 .. m : t[i].size >= f.size <=> i <= a
    <3>1. \A i \in 1 .. m : i \in K <=> t[i].size >= f.size
      BY <2>2
    <3> HIDE DEF K, a
    <3> QED BY <2>4, <3>1
  <2> HIDE DEF K, a
  <2>6. /\ r \in Seq(G) /\ Len(r) = m + 1 /\ r[a + 1] = f
        /\ \A i \in 1 .. a : r[i] = t[i]
        /\ \A i \in a + 2 .. m + 1 : r[i] = t[i - 1]
    <3>1. t \in Seq(G) /\ f \in G
      BY <2>2, SeqMonotonic
    <3>2. a \in 0 .. Len(t)
      BY <2>4
    <3> HIDE DEF G, s, n, r
    <3>3. Inserted(InsertAt(t, a + 1, f), t, a, f, G)
      BY <3>1, <3>2, InsertAtFacts
    <3> QED BY <3>3 DEF r, Inserted
  <2> HIDE DEF r
  <2>7. /\ DOMAIN r = 1 .. m + 1 /\ a \in Nat /\ a <= m
        /\ \A i \in 1 .. m + 1 :
             \/ i \in 1 .. a /\ i \in 1 .. m /\ i \in 1 .. n /\ r[i] = s[i]
             \/ i = a + 1 /\ r[i] = f
             \/ i \in a + 2 .. m + 1 /\ i - 1 \in 1 .. m /\ i - 1 \in 1 .. n /\ r[i] = s[i - 1]
    <3>1. DOMAIN r = 1 .. m + 1
      BY <2>6, LenProperties
    <3>2. a \in Nat /\ a <= m
      BY <2>2, <2>4
    <3>3. ASSUME NEW i \in 1 .. m + 1
          PROVE  \/ i \in 1 .. a /\ i \in 1 .. m /\ i \in 1 .. n /\ r[i] = s[i]
                 \/ i = a + 1 /\ r[i] = f
                 \/ i \in a + 2 .. m + 1 /\ i - 1 \in 1 .. m /\ i - 1 \in 1 .. n /\ r[i] = s[i - 1]
      <4>1. CASE i <= a
        BY <1>1, <2>2, <2>3, <2>6, <3>2, <4>1
      <4>2. CASE i = a + 1
        BY <2>6, <4>2
      <4>3. CASE i > a + 1
        <5>1. i \in a + 2 .. m + 1 /\ i - 1 \in 1 .. m /\ i - 1 \in 1 .. n
          BY <1>1, <2>2, <2>3, <3>2, <4>3
        <5>2. r[i] = t[i - 1] /\ t[i - 1] = s[i - 1]
          BY <2>2, <2>6, <5>1
        <5> QED BY <5>1, <5>2
      <4> QED BY <2>2, <3>2, <4>1, <4>2, <4>3
    <3> QED BY <3>1, <3>2, <3>3
  <2>8. Distinct(r)
    <3>1. ASSUME NEW i \in 1 .. m + 1, NEW j \in 1 .. m + 1, r[i] = r[j] PROVE i = j
      <4>1. \A k \in 1 .. n : s[k] # f
        BY <1>1
      <4>2. \A k, l \in 1 .. n : s[k] = s[l] => k = l
        BY <1>1 DEF Distinct
      <4> HIDE DEF s, n, m
      <4> QED BY <2>2, <2>7, <3>1, <4>1, <4>2
    <3> QED BY <2>7, <3>1 DEF Distinct
  <2>9. ASSUME NEW i \in 1 .. m + 1, NEW j \in 1 .. m + 1, i <= j PROVE r[i].size >= r[j].size
    <3>1. \A k \in 1 .. n : s[k].size \in Nat
      BY <1>1
    <3>2. \A k \in 1 .. a : k \in 1 .. n => s[k].size >= f.size
      BY <2>2, <2>5, <2>7
    <3>3. \A k \in a + 1 .. m : k \in 1 .. n => s[k].size <= f.size
      <4> TAKE k \in a + 1 .. m
      <4>1. k \in 1 .. m /\ ~(k <= a)
        BY <2>2, <2>7
      <4>2. ~(s[k].size >= f.size)
        BY <2>2, <2>5, <4>1
      <4> QED BY <3>1, <4>2
    <3>4. \A k, l \in 1 .. n : k <= l => s[k].size >= s[l].size
      BY <1>1
    <3> HIDE DEF s, n, m
    <3>5. CASE i <= a
      <4>1. r[i] = s[i] /\ i \in 1 .. a /\ i \in 1 .. n
        BY <2>2, <2>7, <3>5
      <4>2. s[i].size \in Nat /\ s[i].size >= f.size /\ f.size \in Nat
        BY <3>1, <3>2, <4>1
      <4>3. CASE j <= a
        <5>1. r[j] = s[j] /\ j \in 1 .. n
          BY <2>2, <2>7, <4>3
        <5> QED BY <2>9, <3>4, <4>1, <5>1
      <4>4. CASE j = a + 1
        BY <2>6, <4>1, <4>2, <4>4
      <4>5. CASE j > a + 1
        <5>1. r[j] = s[j - 1] /\ j - 1 \in 1 .. n /\ j - 1 \in a + 1 .. m
          BY <2>2, <2>7, <4>5
        <5> QED BY <3>1, <3>3, <4>1, <4>2, <5>1
      <4> QED BY <2>2, <2>7, <4>3, <4>4, <4>5
    <3>6. CASE i = a + 1
      <4>1. r[i] = f
        BY <2>6, <3>6
      <4>2. CASE j = a + 1
        BY <4>1, <4>2, <2>6
      <4>3. CASE j > a + 1
        <5>1. r[j] = s[j - 1] /\ j - 1 \in 1 .. n /\ j - 1 \in a + 1 .. m
          BY <2>2, <2>7, <4>3
        <5> QED BY <4>1, <5>1, <3>1, <3>3
      <4> QED BY <2>2, <2>7, <2>9, <3>6, <4>2, <4>3
    <3>7. CASE i > a + 1
      <4>1. r[i] = s[i - 1] /\ i - 1 \in 1 .. n /\ r[j] = s[j - 1] /\ j - 1 \in 1 .. n /\ i - 1 <= j - 1
        BY <2>2, <2>7, <2>9, <3>7
      <4> QED BY <4>1, <3>4
    <3> QED BY <2>2, <2>7, <3>5, <3>6, <3>7
  <2>10. m + 1 <= h.limit /\ (m < n => m + 1 = h.limit)
    BY <1>1, <2>2, <2>3
  <2>11. ASSUME NEW g \in G \ Elements(r)
         PROVE  m + 1 = h.limit /\ \A i \in 1 .. m + 1 : g.size <= r[i].size
    <3>1. a + 1 \in DOMAIN r
      BY <2>2, <2>7
    <3>2. g # f /\ g \in F
      BY <2>6, <3>1 DEF Elements
    <3>3. \A i \in 1 .. m : g # s[i]
      <4> TAKE i \in 1 .. m
      <4>1. CASE i <= a
        <5>1. r[i] = s[i] /\ i \in 1 .. m + 1
          BY <2>2, <2>6, <2>7, <4>1
        <5> QED BY <2>7, <5>1 DEF Elements
      <4>2. CASE i > a
        <5>1. i + 1 \in a + 2 .. m + 1 /\ (i + 1) - 1 = i /\ i + 1 \in 1 .. m + 1
          BY <2>2, <2>7, <4>2
        <5>2. r[i + 1] = s[i]
          BY <2>2, <2>6, <5>1
        <5> QED BY <2>7, <5>1, <5>2 DEF Elements
      <4> QED BY <2>2, <2>7, <4>1, <4>2
    <3>4. m < n
      <4> SUFFICES ASSUME ~(m < n) PROVE FALSE
        OBVIOUS
      <4>1. m = n /\ n # h.limit
        BY <1>1, <2>2, <2>3
      <4>2. g \notin Elements(s)
        BY <1>1, <3>3, <4>1 DEF Elements
      <4> QED BY <1>1, <3>2, <4>1, <4>2
    <3>5. \A i \in 1 .. n : g.size <= s[i].size
      <4>1. CASE g = s[n]
        BY <1>1, <4>1
      <4>2. CASE g # s[n]
        <5>1. \A i \in 1 .. n : g # s[i]
          BY <1>1, <2>2, <2>3, <3>3, <3>4, <4>2
        <5>2. g \notin Elements(s)
          BY <1>1, <5>1 DEF Elements
        <5> QED BY <1>1, <3>2, <5>2
      <4> QED BY <4>1, <4>2
    <3>6. g.size <= f.size
      <4>1. n \in 1 .. n /\ g.size <= s[n].size /\ s[n].size < f.size
        BY <1>1, <2>2, <2>3, <3>4, <3>5
      <4> QED BY <1>1, <3>2, <4>1
    <3>7. \A i \in 1 .. m + 1 : g.size <= r[i].size
      <4> HIDE DEF s, n, m
      <4> QED BY <2>7, <3>5, <3>6
    <3> QED BY <2>10, <3>4, <3>7
  <2>12. PICK o : o = [h EXCEPT !.kept = r]
    OBVIOUS
  <2>13. o.kept = r /\ o.limit = h.limit /\ o = [limit |-> o.limit, kept |-> o.kept]
    <3>1. PICK x, y : h = [limit |-> x, kept |-> y]
      BY <1>1
    <3> QED BY <2>12, <3>1
  <2>14. HoldsLargest(o, G)
    <3> HIDE DEF s, n, m
    <3> QED BY <1>1, <2>2, <2>6, <2>7, <2>8, <2>9, <2>10, <2>11, <2>13 DEF HoldsLargest
  <2> QED BY <2>1, <2>12, <2>13, <2>14
<1> QED BY <1>2, <1>3

(* A collection of members of S, whatever else is known of it. *)
IsHeap(h, S) ==
  h = [limit |-> h.limit, kept |-> h.kept] /\ h.limit \in Nat \ {0} /\ h.kept \in Seq(S)

LEMMA OfferMembers ==
  ASSUME NEW S, NEW h, IsHeap(h, S), NEW f \in S
  PROVE  IsHeap(Offer(h, f), S) /\ Offer(h, f).limit = h.limit
<1> DEFINE s == h.kept
           t == IF IsFull(h) THEN Front(s) ELSE s
           K == {i \in DOMAIN t : t[i].size >= f.size}
           r == InsertAt(t, Cardinality(K) + 1, f)
<1>1. s \in Seq(S) /\ Len(s) \in Nat /\ \A i \in 1 .. Len(s) : s[i] \in S
  <2>1. s \in Seq(S)
    BY DEF IsHeap
  <2> QED BY <2>1, LenProperties, ElementOfSeq
<1>2. t \in Seq(S) /\ Len(t) \in Nat /\ DOMAIN t = 1 .. Len(t)
  <2>1. SubSeq(s, 1, Len(s) - 1) \in Seq(S)
    <3>1. \A i \in 1 .. Len(s) - 1 : s[i] \in S
      BY <1>1
    <3>2. 1 \in Int /\ Len(s) - 1 \in Int
      BY <1>1
    <3> HIDE DEF s
    <3> QED BY <3>1, <3>2, SubSeqProperties
  <2>2. t \in Seq(S)
    BY <1>1, <2>1 DEF Front
  <2> QED BY <2>2, LenProperties
<1> HIDE DEF t
<1>3. K \in SUBSET (1 .. Len(t))
  BY <1>2
<1>4. Cardinality(K) \in 0 .. Len(t)
  <2>1. IsFiniteSet(1 .. Len(t)) /\ Cardinality(1 .. Len(t)) = Len(t)
    <3>1. PICK n \in Nat : n = Len(t)
      BY <1>2
    <3>2. Cardinality(1 .. n) = IF 1 > n THEN 0 ELSE n - 1 + 1
      BY FS_Interval
    <3>3. IsFiniteSet(1 .. n)
      BY FS_Interval
    <3>4. Cardinality(1 .. n) = n
      BY <3>2
    <3> QED BY <3>1, <3>3, <3>4
  <2> HIDE DEF K
  <2>2. IsFiniteSet(K) /\ Cardinality(K) <= Len(t)
    BY <1>3, <2>1, FS_Subset
  <2> QED BY <1>2, <2>2, FS_CardinalityType
<1> HIDE DEF K
<1>5. Inserted(r, t, Cardinality(K), f, S)
  BY <1>2, <1>4, InsertAtFacts
<1>6. r \in Seq(S)
  BY <1>5 DEF Inserted
<1>7. Offer(h, f) = h \/ Offer(h, f) = [h EXCEPT !.kept = r]
  BY DEF Offer, t, K
<1> HIDE DEF r
<1>8. PICK o : o = [h EXCEPT !.kept = r]
  OBVIOUS
<1>9. o.kept = r /\ o.limit = h.limit /\ o = [limit |-> o.limit, kept |-> o.kept]
  <2>1. PICK x, y : h = [limit |-> x, kept |-> y]
    BY DEF IsHeap
  <2> QED BY <1>8, <2>1
<1>10. IsHeap(o, S)
  BY <1>6, <1>9 DEF IsHeap
<1> QED BY <1>7, <1>8, <1>9, <1>10

At(files, s) == {files[i] : i \in s}

(* Merge and the count of a worker, as instances of a fold. *)
OfferOp(p, h, i) == Offer(h, p.files[i])
OfferGood(p, s, h) ==
  h.limit = p.limit /\ (p.strict => HoldsLargest(h, p.held \cup At(p.files, s)))
                    /\ (~p.strict => IsHeap(h, p.held))
CountOp(p, h, i) == IF p.files[i].size > p.floor THEN Offer(h, p.files[i]) ELSE h
CountGood(p, s, h) ==
  h.limit = p.limit /\ HoldsLargest(h, {f \in At(p.files, s) : f.size > p.floor})

OfferFold == INSTANCE FoldLemmas WITH Op <- OfferOp, Pick <- PickLast, Good <- OfferGood
CountFold == INSTANCE FoldLemmas WITH Op <- CountOp, Pick <- PickLast, Good <- CountGood

LEMMA FilesAt ==
  ASSUME NEW files, NEW s, NEW i \in s
  PROVE  At(files, s) = At(files, s \ {i}) \cup {files[i]}
BY DEF At

(* What is merged into a collection that holds the largest of F: it holds  *)
(* the largest of F and the new files.                                     *)
LEMMA MergeHolds ==
  ASSUME NEW S, NEW F, NEW h, HoldsLargest(h, F), NEW files \in Seq(S), Distinct(files),
         Elements(files) \cap F = {}, \A g \in F \cup Elements(files) : g.size \in Nat
  PROVE  HoldsLargest(Merge(h, files), F \cup Elements(files)) /\ Merge(h, files).limit = h.limit
<1> DEFINE p == [files |-> files, held |-> F, limit |-> h.limit, strict |-> TRUE]
           D == DOMAIN files
<1>1. Merge(h, files) = OfferFold!Fold(p, h, D)
  BY Zenon DEF Merge, FoldLeft, MapThenFoldSet, OfferFold!Fold, OfferFold!Step, OfferOp,
               PickLast, Max
<1>2. D = 1 .. Len(files) /\ Len(files) \in Nat
  BY LenProperties
<1>3. IsFiniteSet(D)
  BY <1>2, FS_Interval
<1>4. \A s \in SUBSET D : s # {} => PickLast(s) \in s
  BY <1>2, PickLastPicks
<1> HIDE DEF D
<1>5. OfferGood(p, {}, h)
  <2>1. F \cup At(files, {}) = F
    BY DEF At
  <2> QED BY <2>1 DEF OfferGood
<1>6. ASSUME NEW s \in SUBSET D, s # {}, NEW a, OfferGood(p, s \ {PickLast(s)}, a)
      PROVE  OfferGood(p, s, OfferOp(p, a, PickLast(s)))
  <2> DEFINE i == PickLast(s)
             G == F \cup At(files, s \ {i})
             f == files[i]
  <2>1. i \in s
    BY <1>4, <1>6
  <2>2. HoldsLargest(a, G) /\ a.limit = h.limit
    BY <1>6 DEF OfferGood
  <2>3. f \in Elements(files) /\ f \notin G
    BY <2>1 DEF Elements, At, Distinct, D
  <2>4. \A g \in G : g.size \in Nat
    BY <2>1 DEF Elements, At, D
  <2>5. G \cup {f} = F \cup At(files, s)
    <3>1. At(files, s) = At(files, s \ {i}) \cup {files[i]}
      <4> HIDE DEF i
      <4> QED BY <2>1, FilesAt
    <3> HIDE DEF i
    <3> QED BY <3>1
  <2> HIDE DEF i, G, f
  <2>6. HoldsLargest(Offer(a, f), G \cup {f}) /\ Offer(a, f).limit = a.limit
    BY <2>2, <2>3, <2>4, OfferHolds
  <2>7. OfferOp(p, a, i) = Offer(a, f)
    BY DEF OfferOp, f
  <2>8. OfferGood(p, s, OfferOp(p, a, i))
    BY <2>2, <2>5, <2>6, <2>7 DEF OfferGood
  <2> QED BY <2>8 DEF i
<1> HIDE DEF p
<1>7. OfferGood(p, D, OfferFold!Fold(p, h, D))
  <2>1. \A s \in SUBSET D : s # {} =>
          \A a : OfferGood(p, s \ {PickLast(s)}, a) => OfferGood(p, s, OfferOp(p, a, PickLast(s)))
    BY <1>6
  <2>2. OfferFold!Inductive(D)
    BY <1>3, FiniteInductive DEF OfferFold!Inductive
  <2> QED BY <1>4, <1>5, <2>1, <2>2, OfferFold!FoldKeeps
<1>8. At(files, D) = Elements(files)
  BY DEF At, Elements, D
<1> QED BY <1>1, <1>7, <1>8 DEF OfferGood, p

LEMMA MergeMembers ==
  ASSUME NEW S, NEW h, IsHeap(h, S), NEW files \in Seq(S)
  PROVE  IsHeap(Merge(h, files), S) /\ Merge(h, files).limit = h.limit
<1> DEFINE p == [files |-> files, held |-> S, limit |-> h.limit, strict |-> FALSE]
           D == DOMAIN files
<1>1. Merge(h, files) = OfferFold!Fold(p, h, D)
  BY Zenon DEF Merge, FoldLeft, MapThenFoldSet, OfferFold!Fold, OfferFold!Step, OfferOp,
               PickLast, Max
<1>2. D = 1 .. Len(files) /\ Len(files) \in Nat /\ \A i \in D : files[i] \in S
  BY LenProperties, ElementOfSeq
<1>3. IsFiniteSet(D)
  BY <1>2, FS_Interval
<1>4. \A s \in SUBSET D : s # {} => PickLast(s) \in s
  BY <1>2, PickLastPicks
<1> HIDE DEF D
<1>5. OfferGood(p, {}, h)
  BY DEF OfferGood
<1>6. ASSUME NEW s \in SUBSET D, s # {}, NEW a, OfferGood(p, s \ {PickLast(s)}, a)
      PROVE  OfferGood(p, s, OfferOp(p, a, PickLast(s)))
  <2> DEFINE i == PickLast(s)
  <2>1. i \in s /\ files[i] \in S
    BY <1>2, <1>4, <1>6
  <2>2. IsHeap(a, S) /\ a.limit = h.limit
    BY <1>6 DEF OfferGood
  <2>3. IsHeap(Offer(a, files[i]), S) /\ Offer(a, files[i]).limit = a.limit
    BY <2>1, <2>2, OfferMembers
  <2> QED BY <2>2, <2>3 DEF OfferGood, OfferOp
<1> HIDE DEF p
<1>7. OfferGood(p, D, OfferFold!Fold(p, h, D))
  <2>1. \A s \in SUBSET D : s # {} =>
          \A a : OfferGood(p, s \ {PickLast(s)}, a) => OfferGood(p, s, OfferOp(p, a, PickLast(s)))
    BY <1>6
  <2>2. OfferFold!Inductive(D)
    BY <1>3, FiniteInductive DEF OfferFold!Inductive
  <2> QED BY <1>4, <1>5, <2>1, <2>2, OfferFold!FoldKeeps
<1> QED BY <1>1, <1>7 DEF OfferGood, p

LEMMA CountIsFold ==
  ASSUME NEW t, NEW p
  PROVE  Counted(t, p.floor, p.files)
           = CountFold!Fold(p, NewHeap(t.limit), DOMAIN p.files).kept
BY Zenon DEF Counted, FoldLeft, MapThenFoldSet, CountFold!Fold, CountFold!Step, CountOp, PickLast, Max

(* A worker reports the largest of the files above the floor. *)
LEMMA CountedHolds ==
  ASSUME NEW S, NEW t, t.limit \in Nat, NEW floor, NEW files \in Seq(S), Distinct(files),
         \A g \in Elements(files) : g.size \in Nat
  PROVE  \E h : /\ Counted(t, floor, files) = h.kept
                /\ h.limit = NewHeap(t.limit).limit
                /\ HoldsLargest(h, {f \in Elements(files) : f.size > floor})
<1> DEFINE p == [files |-> files, floor |-> floor, limit |-> NewHeap(t.limit).limit]
           D == DOMAIN files
           h == CountFold!Fold(p, NewHeap(t.limit), D)
<1>1. Counted(t, floor, files) = h.kept
  <2>1. p.files = files /\ p.floor = floor
    OBVIOUS
  <2> HIDE DEF p
  <2> QED BY <2>1, CountIsFold
<1>2. D = 1 .. Len(files) /\ Len(files) \in Nat
  BY LenProperties
<1>3. IsFiniteSet(D)
  BY <1>2, FS_Interval
<1>4. \A s \in SUBSET D : s # {} => PickLast(s) \in s
  BY <1>2, PickLastPicks
<1> HIDE DEF D
<1>5. CountGood(p, {}, NewHeap(t.limit))
  <2>1. {f \in At(files, {}) : f.size > floor} = {}
    BY DEF At
  <2> QED BY <2>1, EmptyHolds DEF CountGood
<1>6. ASSUME NEW s \in SUBSET D, s # {}, NEW a, CountGood(p, s \ {PickLast(s)}, a)
      PROVE  CountGood(p, s, CountOp(p, a, PickLast(s)))
  <2> DEFINE i == PickLast(s)
             G == {f \in At(files, s \ {i}) : f.size > floor}
             g == files[i]
             H == {f \in At(files, s) : f.size > floor}
  <2>1. i \in s
    BY <1>4, <1>6
  <2>2. HoldsLargest(a, G) /\ a.limit = p.limit
    BY <1>6 DEF CountGood
  <2>3. g \in Elements(files) /\ g \notin G /\ g.size \in Nat
    BY <2>1 DEF Elements, At, Distinct, D
  <2>4. \A f \in G : f.size \in Nat
    BY <2>1 DEF Elements, At, D
  <2>5. H = IF g.size > floor THEN G \cup {g} ELSE G
    <3> HIDE DEF i
    <3>1. At(files, s) = At(files, s \ {i}) \cup {files[i]}
      BY <2>1, FilesAt
    <3> QED BY <3>1
  <2>6. CountOp(p, a, i) = IF g.size > floor THEN Offer(a, g) ELSE a
    BY DEF CountOp
  <2>7. CountGood(p, s, CountOp(p, a, i)) <=>
          CountOp(p, a, i).limit = p.limit /\ HoldsLargest(CountOp(p, a, i), H)
    BY DEF CountGood
  <2> HIDE DEF i, G, g, H, p
  <2>8. CASE g.size > floor
    <3>1. HoldsLargest(Offer(a, g), G \cup {g}) /\ Offer(a, g).limit = a.limit
      BY <2>2, <2>3, <2>4, OfferHolds
    <3>2. CountGood(p, s, CountOp(p, a, i))
      BY <2>2, <2>5, <2>6, <2>7, <2>8, <3>1
    <3> QED BY <3>2 DEF i
  <2>9. CASE ~(g.size > floor)
    <3>1. CountGood(p, s, CountOp(p, a, i))
      BY <2>2, <2>5, <2>6, <2>7, <2>9
    <3> QED BY <3>1 DEF i
  <2> QED BY <2>8, <2>9
<1>7. CountGood(p, D, h)
  <2> HIDE DEF p
  <2>1. \A s \in SUBSET D : s # {} =>
          \A a : CountGood(p, s \ {PickLast(s)}, a) => CountGood(p, s, CountOp(p, a, PickLast(s)))
    BY <1>6
  <2>2. CountFold!Inductive(D)
    BY <1>3, FiniteInductive DEF CountFold!Inductive
  <2> QED BY <1>4, <1>5, <2>1, <2>2, CountFold!FoldKeeps
<1>8. At(files, D) = Elements(files)
  BY DEF At, Elements, D
<1> HIDE DEF h
<1> QED BY <1>1, <1>7, <1>8 DEF CountGood

-----------------------------------------------------------------------------
(* The cache of listings. *)

Result == [at : {"read"}, node : Node, gen : Nat, request : Nat, listing : Seq(FileSet)]

(* What the coordinator keeps of listings, whatever the tree is. *)
CacheShape(c) ==
  /\ c = [entries |-> c.entries, order |-> c.order, next |-> c.next, queue |-> c.queue]
  /\ c.order \in Seq(Node) /\ Distinct(c.order) /\ Len(c.order) <= Capacity
  /\ DOMAIN c.entries = Elements(c.order)
  /\ c.next \in Nat \ {0}
  /\ c.queue \subseteq [node : Node, gen : Nat, request : Nat \ {NoRequest}]
  /\ \A t \in c.queue : t.request < c.next
  /\ \A n \in DOMAIN c.entries :
       /\ c.entries[n] = [listing |-> c.entries[n].listing, pending |-> c.entries[n].pending]
       /\ c.entries[n].pending \in Nat /\ c.entries[n].pending < c.next

(* What an entry waits for is queued or among the results A. *)
Expected(c, T, A) ==
  \A n \in DOMAIN c.entries :
    /\ n \in DOMAIN T
    /\ c.entries[n].pending # NoRequest =>
         \E t \in c.queue \cup A :
           t.node = n /\ t.gen = T[n].gen /\ t.request = c.entries[n].pending

(* No listing in the cache holds a file of another directory, or one of G; *)
(* neither does a result of A that an entry waits for.                     *)
Clean(c, A, G) ==
  /\ \A n \in DOMAIN c.entries : c.entries[n].listing # NoListing =>
       Elements(c.entries[n].listing) \subseteq Elements(FilesIn[n.dir]) \ G
  /\ \A e \in A :
       /\ e.request \in Nat \ {NoRequest} /\ e.request < c.next
       /\ Elements(e.listing) \subseteq Elements(FilesIn[e.node.dir])
       /\ (e.node \in DOMAIN c.entries /\ c.entries[e.node].pending = e.request) =>
            Elements(e.listing) \cap G = {}

CacheInv(c, T, A, G) == CacheShape(c) /\ Expected(c, T, A) /\ Clean(c, A, G)

LEMMA RetainShorter ==
  ASSUME NEW S, NEW s \in Seq(S), NEW X
  PROVE  Len(Retain(s, X)) <= Len(s) /\ Len(Retain(s, X)) \in Nat
<1> DEFINE K == {i \in DOMAIN s : s[i] \in X}
<1>1. DOMAIN s = 1 .. Len(s) /\ Len(s) \in Nat
  BY LenProperties
<1>2. PICK n \in Nat : n = Len(s)
  BY <1>1
<1>3. K \in SUBSET (1 .. n)
  BY <1>1, <1>2
<1>4. IsFiniteSet(1 .. n) /\ Cardinality(1 .. n) = n
  <2>1. Cardinality(1 .. n) = IF 1 > n THEN 0 ELSE n - 1 + 1
    BY FS_Interval
  <2>2. Cardinality(1 .. n) = n
    BY <2>1
  <2> QED BY <2>2, FS_Interval
<1>5. Cardinality(K) <= n /\ Cardinality(K) \in Nat
  <2> HIDE DEF K
  <2>1. Cardinality(K) <= Cardinality(1 .. n) /\ IsFiniteSet(K)
    BY <1>3, <1>4, FS_Subset
  <2> QED BY <1>4, <2>1, FS_CardinalityType
<1>6. Retain(s, X) \in Seq(S \cap X)
  BY RetainMembers
<1>7. DOMAIN Retain(s, X) = 1 .. Cardinality(K)
  BY DEF Retain
<1>8. DOMAIN Retain(s, X) = 1 .. Len(Retain(s, X)) /\ Len(Retain(s, X)) \in Nat
  BY <1>6, LenProperties
<1> HIDE DEF K
<1>9. Len(Retain(s, X)) = Cardinality(K)
  BY <1>5, <1>7, <1>8
<1> QED BY <1>2, <1>5, <1>9

(* A cache that keeps some of its entries, while their nodes stay as they  *)
(* were.                                                                   *)
Restricted(d, c, X) ==
  /\ d = [entries |-> d.entries, order |-> d.order, next |-> d.next, queue |-> d.queue]
  /\ d.next = c.next /\ d.queue = c.queue
  /\ X \subseteq DOMAIN c.entries /\ d.entries = [m \in X |-> c.entries[m]]
  /\ d.order \in Seq(Node) /\ Distinct(d.order) /\ Len(d.order) <= Len(c.order)
  /\ Elements(d.order) = X

LEMMA RestrictKeeps ==
  ASSUME NEW c, NEW T, NEW A, NEW G, CacheInv(c, T, A, G), NEW d, NEW X, Restricted(d, c, X),
         NEW R, \A m \in X : m \in DOMAIN R /\ R[m].gen = T[m].gen
  PROVE  CacheInv(d, R, A, G)
<1>1. DOMAIN d.entries = X /\ \A m \in X : m \in DOMAIN c.entries /\ d.entries[m] = c.entries[m]
  BY DEF Restricted
<1>2. CacheShape(d)
  <2>1. c.order \in Seq(Node) /\ Len(c.order) <= Capacity
    BY DEF CacheInv, CacheShape
  <2>2. Len(c.order) \in Nat /\ Len(d.order) \in Nat
    BY <2>1, LenProperties DEF Restricted
  <2>3. Len(d.order) <= Capacity
    BY <2>1, <2>2, ListingAssumption DEF Restricted
  <2>4. \A n \in DOMAIN d.entries :
          /\ d.entries[n] = [listing |-> d.entries[n].listing, pending |-> d.entries[n].pending]
          /\ d.entries[n].pending \in Nat /\ d.entries[n].pending < d.next
    BY <1>1 DEF Restricted, CacheInv, CacheShape
  <2>5. d.next \in Nat \ {0} /\ d.queue \subseteq [node : Node, gen : Nat, request : Nat \ {NoRequest}]
        /\ \A t \in d.queue : t.request < d.next
    BY DEF Restricted, CacheInv, CacheShape
  <2> QED BY <1>1, <2>3, <2>4, <2>5 DEF Restricted, CacheShape
<1>3. Expected(d, R, A)
  BY <1>1 DEF Restricted, CacheInv, Expected
<1>4. Clean(d, A, G)
  BY <1>1 DEF Restricted, CacheInv, Clean
<1> QED BY <1>2, <1>3, <1>4 DEF CacheInv

LEMMA InvalidateRestricts ==
  ASSUME NEW c, CacheShape(c), NEW n
  PROVE  Restricted(InvalidateListing(c, n), c, DOMAIN c.entries \ {n})
<1> DEFINE X == DOMAIN c.entries \ {n}
           o == Retain(c.order, Elements(c.order) \ {n})
<1>1. PICK d : d = InvalidateListing(c, n)
  OBVIOUS
<1>2. /\ d.entries = [m \in X |-> c.entries[m]] /\ d.order = o
      /\ d.next = c.next /\ d.queue = c.queue
      /\ d = [entries |-> d.entries, order |-> d.order, next |-> d.next, queue |-> d.queue]
  <2>1. PICK e, p, k, q : c = [entries |-> e, order |-> p, next |-> k, queue |-> q]
    BY DEF CacheShape
  <2>2. d = [c EXCEPT !.entries = [m \in X |-> c.entries[m]], !.order = o]
    BY <1>1 DEF InvalidateListing
  <2> HIDE DEF X, o
  <2> QED BY <2>1, <2>2
<1>3. c.order \in Seq(Node) /\ Distinct(c.order) /\ DOMAIN c.entries = Elements(c.order)
  BY DEF CacheShape
<1>4. Elements(o) = X /\ o \in Seq(Node) /\ Distinct(o) /\ Len(o) <= Len(c.order)
  <2>1. o \in Seq(Node \cap (Elements(c.order) \ {n}))
        /\ Elements(o) = Elements(c.order) \cap (Elements(c.order) \ {n})
    BY <1>3, RetainMembers
  <2>2. o \in Seq(Node)
    BY <2>1, SeqMonotonic
  <2>3. Distinct(o) /\ Len(o) <= Len(c.order)
    BY <1>3, RetainDistinct, RetainShorter
  <2>4. Elements(o) = X
    <3> HIDE DEF o
    <3> QED BY <1>3, <2>1
  <2> QED BY <2>2, <2>3, <2>4
<1> HIDE DEF X, o
<1>5. X \subseteq DOMAIN c.entries
  BY DEF X
<1>6. Restricted(d, c, X)
  BY <1>2, <1>4, <1>5 DEF Restricted
<1> QED BY <1>1, <1>6 DEF X

LEMMA ForgetRestricts ==
  ASSUME NEW c, CacheShape(c), NEW R
  PROVE  /\ Restricted(ForgetListingsOfMissingNodes(c, R), c, DOMAIN c.entries \cap DOMAIN R)
         /\ CacheShape(ForgetListingsOfMissingNodes(c, R))
<1> DEFINE X == DOMAIN c.entries \cap DOMAIN R
           o == Retain(c.order, DOMAIN R)
<1>1. PICK d : d = ForgetListingsOfMissingNodes(c, R)
  OBVIOUS
<1>2. /\ d.entries = [m \in X |-> c.entries[m]] /\ d.order = o
      /\ d.next = c.next /\ d.queue = c.queue
      /\ d = [entries |-> d.entries, order |-> d.order, next |-> d.next, queue |-> d.queue]
  <2>1. PICK e, p, k, q : c = [entries |-> e, order |-> p, next |-> k, queue |-> q]
    BY DEF CacheShape
  <2>2. d = [c EXCEPT !.entries = [m \in X |-> c.entries[m]], !.order = o]
    BY <1>1 DEF ForgetListingsOfMissingNodes
  <2> HIDE DEF X, o
  <2> QED BY <2>1, <2>2
<1>3. c.order \in Seq(Node) /\ Distinct(c.order) /\ DOMAIN c.entries = Elements(c.order)
  BY DEF CacheShape
<1>4. Elements(o) = X /\ o \in Seq(Node) /\ Distinct(o) /\ Len(o) <= Len(c.order)
  <2>1. o \in Seq(Node \cap DOMAIN R) /\ Elements(o) = Elements(c.order) \cap DOMAIN R
    BY <1>3, RetainMembers
  <2>2. o \in Seq(Node)
    BY <2>1, SeqMonotonic
  <2>3. Distinct(o) /\ Len(o) <= Len(c.order)
    BY <1>3, RetainDistinct, RetainShorter
  <2> QED BY <1>3, <2>1, <2>2, <2>3
<1> HIDE DEF X, o
<1>5. X \subseteq DOMAIN c.entries
  BY DEF X
<1>6. Restricted(d, c, X)
  BY <1>2, <1>4, <1>5 DEF Restricted
<1>7. CacheShape(d)
  <2>2. Len(c.order) \in Nat /\ Len(d.order) \in Nat /\ Len(c.order) <= Capacity
    BY <1>2, <1>4, LenProperties DEF CacheShape
  <2>3. Len(d.order) <= Capacity
    BY <1>2, <1>4, <2>2, ListingAssumption
  <2>4. \A n \in DOMAIN d.entries : n \in DOMAIN c.entries /\ d.entries[n] = c.entries[n]
    BY <1>2, <1>5
  <2>5. \A n \in DOMAIN d.entries :
          /\ d.entries[n] = [listing |-> d.entries[n].listing, pending |-> d.entries[n].pending]
          /\ d.entries[n].pending \in Nat /\ d.entries[n].pending < d.next
    BY <1>2, <2>4 DEF CacheShape
  <2> QED BY <1>2, <1>4, <2>3, <2>5 DEF CacheShape
<1> QED BY <1>1, <1>6, <1>7 DEF X

(* A cache that asks for the listing of n, as request c.next. *)
Requested(d, c, T, n) ==
  /\ d = [entries |-> d.entries, order |-> d.order, next |-> d.next, queue |-> d.queue]
  /\ d.next = c.next + 1
  /\ d.queue = c.queue \cup {[node |-> n, gen |-> T[n].gen, request |-> c.next]}
  /\ d.order \in Seq(Node) /\ Distinct(d.order) /\ Len(d.order) <= Capacity
  /\ DOMAIN d.entries = Elements(d.order) /\ n \in DOMAIN d.entries
  /\ \A m \in DOMAIN d.entries \ {n} : m \in DOMAIN c.entries /\ d.entries[m] = c.entries[m]
  /\ d.entries[n] = [listing |-> d.entries[n].listing, pending |-> c.next]
  /\ d.entries[n].listing =
       IF n \in DOMAIN c.entries THEN c.entries[n].listing ELSE NoListing

LEMMA RequestedKeeps ==
  ASSUME NEW c, NEW T, NEW A, NEW G, CacheInv(c, T, A, G), NEW d, NEW n \in Node,
         n \in DOMAIN T, T[n].gen \in Nat, Requested(d, c, T, n)
  PROVE  CacheInv(d, T, A, G)
<1> DEFINE q == [node |-> n, gen |-> T[n].gen, request |-> c.next]
<1>1. c.next \in Nat \ {0} /\ d.next = c.next + 1 /\ d.queue = c.queue \cup {q}
      /\ d.entries[n].pending = c.next
  BY DEF CacheInv, CacheShape, Requested
<1>2. CacheShape(d)
  <2>1. d.queue \subseteq [node : Node, gen : Nat, request : Nat \ {NoRequest}]
    BY <1>1 DEF CacheInv, CacheShape, NoRequest
  <2>2. \A t \in d.queue : t.request < d.next
    <3> TAKE t \in d.queue
    <3>1. CASE t = q
      BY <1>1, <3>1
    <3>2. CASE t \in c.queue
      <4>1. t.request \in Nat /\ t.request < c.next
        BY <3>2 DEF CacheInv, CacheShape
      <4> QED BY <1>1, <4>1
    <3> QED BY <1>1, <3>1, <3>2
  <2>3. ASSUME NEW m \in DOMAIN d.entries
        PROVE /\ d.entries[m] = [listing |-> d.entries[m].listing, pending |-> d.entries[m].pending]
              /\ d.entries[m].pending \in Nat /\ d.entries[m].pending < d.next
    <3>1. CASE m = n
      BY <1>1, <3>1 DEF Requested
    <3>2. CASE m # n
      <4>1. m \in DOMAIN c.entries /\ d.entries[m] = c.entries[m]
        BY <3>2 DEF Requested
      <4>2. c.entries[m] = [listing |-> c.entries[m].listing, pending |-> c.entries[m].pending]
            /\ c.entries[m].pending \in Nat /\ c.entries[m].pending < c.next
        BY <4>1 DEF CacheInv, CacheShape
      <4> QED BY <1>1, <4>1, <4>2
    <3> QED BY <3>1, <3>2
  <2> QED BY <1>1, <2>1, <2>2, <2>3 DEF CacheShape, Requested
<1>3. Expected(d, T, A)
  <2> SUFFICES ASSUME NEW m \in DOMAIN d.entries
               PROVE  /\ m \in DOMAIN T
                      /\ d.entries[m].pending # NoRequest =>
                           \E t \in d.queue \cup A :
                             t.node = m /\ t.gen = T[m].gen /\ t.request = d.entries[m].pending
    BY DEF Expected
  <2>1. CASE m = n
    <3>1. q.node = n /\ q.gen = T[n].gen /\ q.request = c.next /\ q \in d.queue
      BY <1>1
    <3> HIDE DEF q
    <3> QED BY <1>1, <2>1, <3>1
  <2>2. CASE m # n
    <3>1. m \in DOMAIN c.entries /\ d.entries[m] = c.entries[m]
      BY <2>2 DEF Requested
    <3> QED BY <1>1, <3>1 DEF CacheInv, Expected
  <2> QED BY <2>1, <2>2
<1>4. Clean(d, A, G)
  <2>1. ASSUME NEW m \in DOMAIN d.entries, d.entries[m].listing # NoListing
        PROVE  Elements(d.entries[m].listing) \subseteq Elements(FilesIn[m.dir]) \ G
    <3>1. m \in DOMAIN c.entries /\ d.entries[m].listing = c.entries[m].listing
      BY <2>1 DEF Requested
    <3> QED BY <2>1, <3>1 DEF CacheInv, Clean
  <2>2. ASSUME NEW e \in A
        PROVE  /\ e.request \in Nat \ {NoRequest} /\ e.request < d.next
               /\ Elements(e.listing) \subseteq Elements(FilesIn[e.node.dir])
               /\ (e.node \in DOMAIN d.entries /\ d.entries[e.node].pending = e.request) =>
                    Elements(e.listing) \cap G = {}
    <3>1. e.request \in Nat \ {NoRequest} /\ e.request < c.next
      BY DEF CacheInv, Clean
    <3>2. e.request < d.next /\ e.request # c.next
      BY <1>1, <3>1
    <3>3. (e.node \in DOMAIN d.entries /\ d.entries[e.node].pending = e.request) =>
            e.node \in DOMAIN c.entries /\ c.entries[e.node].pending = e.request
      BY <1>1, <3>2 DEF Requested
    <3> QED BY <3>1, <3>2, <3>3 DEF CacheInv, Clean
  <2> QED BY <2>1, <2>2 DEF Clean
<1> QED BY <1>2, <1>3, <1>4 DEF CacheInv

LEMMA AppendMembers ==
  ASSUME NEW S, NEW s \in Seq(S), NEW e \in S
  PROVE  /\ Append(s, e) \in Seq(S) /\ Elements(Append(s, e)) = Elements(s) \cup {e}
         /\ (Distinct(s) /\ e \notin Elements(s)) => Distinct(Append(s, e))
<1>1. Append(s, e) = s \o <<e>>
  BY AppendIsConcat
<1>2. <<e>> \in Seq(S) /\ Elements(<<e>>) = {e} /\ Distinct(<<e>>)
  BY SingletonMembers
<1>3. s \o <<e>> \in Seq(S) /\ Elements(s \o <<e>>) = Elements(s) \cup Elements(<<e>>)
  BY <1>2, ConcatMembers
<1>4. ASSUME Distinct(s), e \notin Elements(s) PROVE Distinct(s \o <<e>>)
  <2>1. Elements(s) \cap Elements(<<e>>) = {}
    BY <1>2, <1>4
  <2> QED BY <1>2, <1>4, <2>1, ConcatDistinct
<1> QED BY <1>1, <1>2, <1>3, <1>4

LEMMA TailMembers ==
  ASSUME NEW S, NEW s \in Seq(S), s # <<>>, Distinct(s)
  PROVE  /\ Tail(s) \in Seq(S) /\ Distinct(Tail(s)) /\ Len(Tail(s)) = Len(s) - 1
         /\ Elements(Tail(s)) = Elements(s) \ {s[1]} /\ s[1] \in Elements(s)
<1>1. /\ Tail(s) \in Seq(S) /\ Len(Tail(s)) = Len(s) - 1
      /\ \A i \in 1 .. Len(Tail(s)) : Tail(s)[i] = s[i + 1]
  BY HeadTailProperties
<1>2. Len(s) \in Nat /\ DOMAIN s = 1 .. Len(s) /\ DOMAIN Tail(s) = 1 .. Len(s) - 1
  BY <1>1, LenProperties
<1>3. Len(s) >= 1
  BY <1>2, EmptySeq
<1> DEFINE n == Len(s)
           t == Tail(s)
<1> HIDE DEF t, n
<1>4. n \in Nat /\ n >= 1 /\ DOMAIN s = 1 .. n /\ DOMAIN t = 1 .. n - 1
      /\ \A i \in 1 .. n - 1 : t[i] = s[i + 1] /\ i + 1 \in 1 .. n
  BY <1>1, <1>2, <1>3 DEF t, n
<1>5. Distinct(t)
  <2> SUFFICES ASSUME NEW i \in 1 .. n - 1, NEW j \in 1 .. n - 1, t[i] = t[j] PROVE i = j
    BY <1>4 DEF Distinct
  <2>1. i + 1 = j + 1
    BY <1>4 DEF Distinct
  <2> QED BY <1>4, <2>1
<1>6. Elements(t) = Elements(s) \ {s[1]}
  <2>1. ASSUME NEW x \in Elements(t) PROVE x \in Elements(s) /\ x # s[1]
    <3>1. PICK i \in 1 .. n - 1 : x = t[i]
      BY <1>4 DEF Elements
    <3>2. x = s[i + 1] /\ i + 1 \in 1 .. n /\ i + 1 # 1 /\ 1 \in 1 .. n
      BY <1>4, <3>1
    <3> QED BY <1>4, <3>2 DEF Elements, Distinct
  <2>2. ASSUME NEW x \in Elements(s), x # s[1] PROVE x \in Elements(t)
    <3>1. PICK i \in 1 .. n : x = s[i]
      BY <1>4 DEF Elements
    <3>2. i - 1 \in 1 .. n - 1 /\ (i - 1) + 1 = i
      BY <1>4, <2>2, <3>1
    <3>3. t[i - 1] = x
      BY <1>4, <3>1, <3>2
    <3> QED BY <1>4, <3>2, <3>3 DEF Elements
  <2> QED BY <2>1, <2>2
<1>7. s[1] \in Elements(s)
  BY <1>4 DEF Elements
<1> QED BY <1>1, <1>5, <1>6, <1>7 DEF t

LEMMA RequestAsks ==
  ASSUME NEW c, CacheShape(c), NEW T, NEW n \in Node, NEW force
  PROVE  \/ RequestFileListing(c, T, n, force) = c
         \/ n \in DOMAIN T /\ Requested(RequestFileListing(c, T, n, force), c, T, n)
<1> DEFINE r == RememberListing(c, n)
           entry == IF n \in DOMAIN r.entries THEN r.entries[n] ELSE NewEntry
           q == [node |-> n, gen |-> T[n].gen, request |-> c.next]
           en == [m \in DOMAIN r.entries \cup {n} |->
                    IF m = n THEN [entry EXCEPT !.pending = c.next] ELSE r.entries[m]]
<1> SUFFICES ASSUME RequestFileListing(c, T, n, force) # c
             PROVE  n \in DOMAIN T /\ Requested(RequestFileListing(c, T, n, force), c, T, n)
  OBVIOUS
<1>1. n \in DOMAIN T
  BY DEF RequestFileListing
<1>2. PICK d : d = [r EXCEPT !.entries = en, !.next = c.next + 1, !.queue = r.queue \cup {q}]
  OBVIOUS
<1>3. RequestFileListing(c, T, n, force) = d
  BY <1>2 DEF RequestFileListing
<1>4. PICK e, p, k, z : c = [entries |-> e, order |-> p, next |-> k, queue |-> z]
  BY DEF CacheShape
<1>5. c.order \in Seq(Node) /\ Distinct(c.order) /\ DOMAIN c.entries = Elements(c.order)
      /\ Len(c.order) <= Capacity /\ Len(c.order) \in Nat
  BY LenProperties DEF CacheShape
<1>6. /\ r = [entries |-> r.entries, order |-> r.order, next |-> c.next, queue |-> c.queue]
      /\ r.order \in Seq(Node) /\ Distinct(r.order) /\ Len(r.order) <= Capacity
      /\ Elements(r.order) = DOMAIN r.entries \cup {n}
      /\ \A m \in DOMAIN r.entries : m \in DOMAIN c.entries /\ r.entries[m] = c.entries[m]
      /\ n \in DOMAIN c.entries <=> n \in DOMAIN r.entries
  <2>1. CASE n \in DOMAIN c.entries
    <3>1. r = c
      BY <2>1 DEF RememberListing
    <3> HIDE DEF r
    <3> QED BY <1>4, <1>5, <2>1, <3>1
  <2>2. CASE n \notin DOMAIN c.entries
    <3> DEFINE order == Append(c.order, n)
               full == Len(order) > Capacity
               X == DOMAIN c.entries \ (IF full THEN {order[1]} ELSE {})
               o == IF full THEN Tail(order) ELSE order
    <3>1. PICK g : g = [c EXCEPT !.order = o, !.entries = [m \in X |-> c.entries[m]]]
      OBVIOUS
    <3>2. r = g
      BY <2>2, <3>1 DEF RememberListing
    <3>3. /\ order \in Seq(Node) /\ Elements(order) = Elements(c.order) \cup {n}
          /\ Distinct(order)
      BY <1>5, <2>2, AppendMembers
    <3>4. Len(order) = Len(c.order) + 1 /\ order # <<>> /\ \A i \in 1 .. Len(c.order) : order[i] = c.order[i]
      BY <1>5, AppendProperties
    <3>5. full => order[1] # n
      <4> SUFFICES ASSUME full PROVE order[1] # n
        OBVIOUS
      <4>1. Len(c.order) >= 1
        BY <1>5, <3>4, ListingAssumption
      <4>2. order[1] = c.order[1] /\ 1 \in DOMAIN c.order
        BY <1>5, <3>4, <4>1, LenProperties
      <4> QED BY <1>5, <2>2, <4>2 DEF Elements
    <3>6. o \in Seq(Node) /\ Distinct(o) /\ Elements(o) = X \cup {n} /\ Len(o) <= Capacity
      <4>1. CASE full
        <5>1. /\ Tail(order) \in Seq(Node) /\ Distinct(Tail(order))
              /\ Len(Tail(order)) = Len(order) - 1
              /\ Elements(Tail(order)) = Elements(order) \ {order[1]}
          <6> HIDE DEF order
          <6> QED BY <3>3, <3>4, TailMembers
        <5>2. Len(Tail(order)) <= Capacity
          <6> HIDE DEF order
          <6> QED BY <1>5, <3>4, <5>1
        <5> HIDE DEF order
        <5> QED BY <1>5, <3>3, <3>5, <4>1, <5>1, <5>2
      <4>2. CASE ~full
        <5>1. Len(order) <= Capacity
          BY <1>5, <3>4, <4>2, ListingAssumption
        <5> HIDE DEF order
        <5> QED BY <1>5, <3>3, <4>2, <5>1
      <4> QED BY <4>1, <4>2
    <3> HIDE DEF X, o, r
    <3>7. /\ g.entries = [m \in X |-> c.entries[m]] /\ g.order = o
          /\ g = [entries |-> g.entries, order |-> g.order, next |-> c.next, queue |-> c.queue]
      BY <1>4, <3>1
    <3>8. X \subseteq DOMAIN c.entries /\ n \notin X
      BY <2>2 DEF X
    <3> QED BY <2>2, <3>2, <3>6, <3>7, <3>8
  <2> QED BY <2>1, <2>2
<1> HIDE DEF r
<1>7. /\ d.entries = en /\ d.next = c.next + 1 /\ d.queue = c.queue \cup {q} /\ d.order = r.order
      /\ d = [entries |-> d.entries, order |-> d.order, next |-> d.next, queue |-> d.queue]
  <2>1. PICK e2, p2 : r = [entries |-> e2, order |-> p2, next |-> c.next, queue |-> c.queue]
    BY <1>6
  <2> HIDE DEF en, q
  <2> QED BY <1>2, <2>1
<1>8. /\ DOMAIN d.entries = DOMAIN r.entries \cup {n}
      /\ \A m \in DOMAIN d.entries \ {n} : m \in DOMAIN r.entries /\ d.entries[m] = r.entries[m]
      /\ d.entries[n] = [entry EXCEPT !.pending = c.next]
  <2> HIDE DEF entry
  <2> QED BY <1>7
<1>9. entry = [listing |-> entry.listing, pending |-> entry.pending]
      /\ entry.listing = IF n \in DOMAIN c.entries THEN c.entries[n].listing ELSE NoListing
  <2>1. CASE n \in DOMAIN c.entries
    <3>1. entry = c.entries[n]
      BY <1>6, <2>1
    <3> HIDE DEF entry
    <3> QED BY <2>1, <3>1 DEF CacheShape
  <2>2. CASE n \notin DOMAIN c.entries
    <3>1. entry = NewEntry
      BY <1>6, <2>2
    <3> HIDE DEF entry
    <3> QED BY <2>2, <3>1 DEF NewEntry
  <2> QED BY <2>1, <2>2
<1> HIDE DEF entry
<1>10. d.entries[n].listing = entry.listing
       /\ d.entries[n] = [listing |-> d.entries[n].listing, pending |-> c.next]
  <2>1. PICK l, b : entry = [listing |-> l, pending |-> b]
    BY <1>9
  <2> QED BY <1>8, <2>1
<1>11. Requested(d, c, T, n)
  <2> HIDE DEF en
  <2> QED BY <1>6, <1>7, <1>8, <1>9, <1>10 DEF Requested
<1> QED BY <1>1, <1>3, <1>11

LEMMA RequestKeeps ==
  ASSUME NEW c, NEW T, NEW A, NEW G, CacheInv(c, T, A, G), NEW n \in Node, NEW force,
         n \in DOMAIN T => T[n].gen \in Nat
  PROVE  /\ CacheInv(RequestFileListing(c, T, n, force), T, A, G)
         /\ DOMAIN RequestFileListing(c, T, n, force).entries \subseteq DOMAIN c.entries \cup {n}
<1>1. CASE RequestFileListing(c, T, n, force) = c
  BY <1>1
<1>2. CASE n \in DOMAIN T /\ Requested(RequestFileListing(c, T, n, force), c, T, n)
  <2>1. CacheInv(RequestFileListing(c, T, n, force), T, A, G)
    BY <1>2, RequestedKeeps
  <2> QED BY <1>2, <2>1 DEF Requested
<1>3. CacheShape(c)
  BY DEF CacheInv
<1> QED BY <1>1, <1>2, <1>3, RequestAsks

(* An answer is taken by the entry that waits for it, or is not waited for *)
(* by any.                                                                 *)
LEMMA ApplyKeeps ==
  ASSUME NEW c, NEW T, NEW e, NEW A, NEW G, CacheInv(c, T, A \cup {e}, G)
  PROVE  /\ CacheInv(ApplyFileListing(c, T, e), T, A, G)
         /\ DOMAIN ApplyFileListing(c, T, e).entries = DOMAIN c.entries
<1> DEFINE taken == /\ e.node \in DOMAIN T /\ T[e.node].gen = e.gen
                    /\ e.node \in DOMAIN c.entries /\ c.entries[e.node].pending = e.request
           x == [listing |-> e.listing, pending |-> NoRequest]
<1>1. CASE ~taken
  <2>1. ApplyFileListing(c, T, e) = c
    BY <1>1 DEF ApplyFileListing
  <2>2. Expected(c, T, A)
    <3> SUFFICES ASSUME NEW n \in DOMAIN c.entries, c.entries[n].pending # NoRequest
                 PROVE  \E t \in c.queue \cup A :
                          t.node = n /\ t.gen = T[n].gen /\ t.request = c.entries[n].pending
      BY DEF CacheInv, Expected
    <3>1. PICK t \in c.queue \cup (A \cup {e}) :
             t.node = n /\ t.gen = T[n].gen /\ t.request = c.entries[n].pending
      BY DEF CacheInv, Expected
    <3>2. n \in DOMAIN T
      BY DEF CacheInv, Expected
    <3>3. t # e
      BY <1>1, <3>1, <3>2
    <3> QED BY <3>1, <3>3
  <2>3. Clean(c, A, G)
    BY DEF CacheInv, Clean
  <2> QED BY <2>1, <2>2, <2>3 DEF CacheInv
<1>2. CASE taken
  <2>1. PICK d : d = [c EXCEPT !.entries[e.node] = x]
    OBVIOUS
  <2>2. ApplyFileListing(c, T, e) = d
    BY <1>2, <2>1 DEF ApplyFileListing
  <2>3. /\ d.next = c.next /\ d.queue = c.queue /\ d.order = c.order
        /\ d = [entries |-> d.entries, order |-> d.order, next |-> d.next, queue |-> d.queue]
        /\ d.entries = [c.entries EXCEPT ![e.node] = x]
    <3>1. PICK g, p, k, z : c = [entries |-> g, order |-> p, next |-> k, queue |-> z]
      BY DEF CacheInv, CacheShape
    <3> HIDE DEF x
    <3> QED BY <2>1, <3>1
  <2>4. DOMAIN d.entries = DOMAIN c.entries /\ d.entries[e.node] = x
        /\ \A n \in DOMAIN c.entries \ {e.node} : d.entries[n] = c.entries[n]
    <3> HIDE DEF x
    <3> QED BY <1>2, <2>3
  <2>5. CacheShape(d)
    <3>1. ASSUME NEW n \in DOMAIN d.entries
          PROVE /\ d.entries[n] = [listing |-> d.entries[n].listing, pending |-> d.entries[n].pending]
                /\ d.entries[n].pending \in Nat /\ d.entries[n].pending < d.next
      <4>1. CASE n = e.node
        BY <2>3, <2>4, <4>1 DEF CacheInv, CacheShape, NoRequest
      <4>2. CASE n # e.node
        <5>1. n \in DOMAIN c.entries /\ d.entries[n] = c.entries[n]
          BY <2>4, <4>2
        <5> HIDE DEF x
        <5> QED BY <2>3, <5>1 DEF CacheInv, CacheShape
      <4> QED BY <4>1, <4>2
    <3> QED BY <2>3, <2>4, <3>1 DEF CacheInv, CacheShape
  <2>6. Expected(d, T, A)
    <3> SUFFICES ASSUME NEW n \in DOMAIN d.entries
                 PROVE  /\ n \in DOMAIN T
                        /\ d.entries[n].pending # NoRequest =>
                             \E t \in d.queue \cup A :
                               t.node = n /\ t.gen = T[n].gen /\ t.request = d.entries[n].pending
      BY DEF Expected
    <3>1. CASE n = e.node
      BY <1>2, <2>4, <3>1
    <3>2. CASE n # e.node
      <4>1. n \in DOMAIN c.entries /\ d.entries[n] = c.entries[n]
        BY <2>4, <3>2
      <4>2. n \in DOMAIN T
        BY <4>1 DEF CacheInv, Expected
      <4>3. ASSUME c.entries[n].pending # NoRequest
            PROVE \E t \in c.queue \cup A :
                    t.node = n /\ t.gen = T[n].gen /\ t.request = c.entries[n].pending
        <5>1. PICK t \in c.queue \cup (A \cup {e}) :
                 t.node = n /\ t.gen = T[n].gen /\ t.request = c.entries[n].pending
          BY <4>1, <4>3 DEF CacheInv, Expected
        <5> QED BY <3>2, <5>1
      <4> QED BY <2>3, <4>1, <4>2, <4>3
    <3> QED BY <3>1, <3>2
  <2>7. Clean(d, A, G)
    <3>1. ASSUME NEW n \in DOMAIN d.entries, d.entries[n].listing # NoListing
          PROVE  Elements(d.entries[n].listing) \subseteq Elements(FilesIn[n.dir]) \ G
      <4>1. CASE n = e.node
        <5>1. d.entries[n].listing = e.listing
          BY <2>4, <4>1
        <5>2. Elements(e.listing) \subseteq Elements(FilesIn[n.dir]) /\ Elements(e.listing) \cap G = {}
          BY <1>2, <4>1 DEF CacheInv, Clean
        <5> QED BY <5>1, <5>2
      <4>2. CASE n # e.node
        BY <2>4, <3>1, <4>2 DEF CacheInv, Clean
      <4> QED BY <4>1, <4>2
    <3>2. ASSUME NEW f \in A
          PROVE  /\ f.request \in Nat \ {NoRequest} /\ f.request < d.next
                 /\ Elements(f.listing) \subseteq Elements(FilesIn[f.node.dir])
                 /\ (f.node \in DOMAIN d.entries /\ d.entries[f.node].pending = f.request) =>
                      Elements(f.listing) \cap G = {}
      <4>1. /\ f.request \in Nat \ {NoRequest} /\ f.request < c.next
            /\ Elements(f.listing) \subseteq Elements(FilesIn[f.node.dir])
            /\ (f.node \in DOMAIN c.entries /\ c.entries[f.node].pending = f.request) =>
                 Elements(f.listing) \cap G = {}
        BY DEF CacheInv, Clean
      <4> QED BY <2>3, <2>4, <4>1
    <3> QED BY <3>1, <3>2 DEF Clean
  <2> QED BY <2>2, <2>4, <2>5, <2>6, <2>7 DEF CacheInv
<1> QED BY <1>1, <1>2

ApplyOp(p, c, i) == ApplyFileListing(c, p.tree, p.files[i])
ApplyGood(p, s, c) ==
  /\ CacheInv(c, p.tree, p.others \cup At(p.files, DOMAIN p.files \ s), p.gone)
  /\ DOMAIN c.entries = p.known
ApplyFold == INSTANCE FoldLemmas WITH Op <- ApplyOp, Pick <- PickLast, Good <- ApplyGood

(* The cache d after the answers s. *)
Answered(d, T, s) == FoldLeft(LAMBDA c, e : ApplyFileListing(c, T, e), d, s)

LEMMA ApplyAllKeeps ==
  ASSUME NEW c, NEW T, NEW s, NEW S, s \in Seq(S), NEW A, NEW G,
         CacheInv(c, T, A \cup Elements(s), G)
  PROVE  LET d == Answered(c, T, s)
         IN  CacheInv(d, T, A, G) /\ DOMAIN d.entries = DOMAIN c.entries
<1> DEFINE p == [tree |-> T, files |-> s, others |-> A, gone |-> G, known |-> DOMAIN c.entries]
           D == DOMAIN s
           d == Answered(c, T, s)
<1>1. d = ApplyFold!Fold(p, c, D)
  BY Zenon DEF Answered, FoldLeft, MapThenFoldSet, ApplyFold!Fold, ApplyFold!Step, ApplyOp, PickLast, Max
<1>2. D = 1 .. Len(s) /\ Len(s) \in Nat
  BY LenProperties
<1>3. IsFiniteSet(D)
  BY <1>2, FS_Interval
<1>4. \A u \in SUBSET D : u # {} => PickLast(u) \in u
  BY <1>2, PickLastPicks
<1> HIDE DEF d, D
<1>5. p.tree = T /\ p.files = s /\ p.others = A /\ p.gone = G /\ p.known = DOMAIN c.entries
  OBVIOUS
<1> HIDE DEF p
<1>6. ApplyGood(p, {}, c)
  <2>1. At(s, DOMAIN s \ {}) = Elements(s)
    BY DEF At, Elements
  <2> QED BY <1>5, <2>1 DEF ApplyGood
<1>7. ASSUME NEW u \in SUBSET D, u # {}, NEW a, ApplyGood(p, u \ {PickLast(u)}, a)
      PROVE  ApplyGood(p, u, ApplyOp(p, a, PickLast(u)))
  <2> DEFINE i == PickLast(u)
             B == A \cup At(s, D \ u)
  <2>1. i \in u /\ i \in D
    BY <1>4, <1>7
  <2> HIDE DEF i
  <2>2. A \cup At(s, D \ (u \ {i})) = B \cup {s[i]}
    BY <2>1 DEF At
  <2>3. CacheInv(a, T, B \cup {s[i]}, G) /\ DOMAIN a.entries = DOMAIN c.entries
    BY <1>5, <1>7, <2>2 DEF ApplyGood, i, D
  <2>4. /\ CacheInv(ApplyFileListing(a, T, s[i]), T, B, G)
        /\ DOMAIN ApplyFileListing(a, T, s[i]).entries = DOMAIN a.entries
    <3> HIDE DEF B
    <3> QED BY <2>3, ApplyKeeps
  <2>5. ApplyGood(p, u, ApplyOp(p, a, i))
    BY <1>5, <2>3, <2>4 DEF ApplyGood, ApplyOp, D
  <2> QED BY <2>5 DEF i
<1>8. ApplyGood(p, D, ApplyFold!Fold(p, c, D))
  <2>1. \A u \in SUBSET D : u # {} =>
          \A a : ApplyGood(p, u \ {PickLast(u)}, a) => ApplyGood(p, u, ApplyOp(p, a, PickLast(u)))
    BY <1>7
  <2>2. ApplyFold!Inductive(D)
    BY <1>3, FiniteInductive DEF ApplyFold!Inductive
  <2> QED BY <1>4, <1>6, <2>1, <2>2, ApplyFold!FoldKeeps
<1>9. A \cup At(s, D \ D) = A
  BY DEF At
<1>10. CacheInv(d, T, A, G) /\ DOMAIN d.entries = DOMAIN c.entries
  BY <1>1, <1>5, <1>8, <1>9 DEF ApplyGood, D
<1> QED BY <1>10 DEF d

-----------------------------------------------------------------------------
(* The tree. *)

TreeShape(T, M) ==
  /\ IsFiniteSet(DOMAIN T) /\ DOMAIN T \subseteq Node /\ M \in [Dir -> Nat]
  /\ \A n \in DOMAIN T :
       /\ T[n] = [gen |-> T[n].gen, parent |-> T[n].parent, size |-> T[n].size, lazy |-> T[n].lazy]
       /\ T[n].gen \in Nat /\ T[n].size \in Nat /\ n.nr < M[n.dir]
       /\ T[n].parent \in DOMAIN T \cup {NoNode}
       /\ T[n].parent \in DOMAIN T => n.dir \in Subdirs[T[n].parent.dir]
  /\ \A m, n \in DOMAIN T : m.dir = n.dir => m = n

(* A measurement that will be accepted finds its node without children,    *)
(* and is the only one.                                                    *)
ScanShape(T, S, M) ==
  /\ S \subseteq [node : Node, gen : Nat, origin : BOOLEAN]
  /\ \A t \in S :
       /\ t.node.nr < M[t.node.dir]
       /\ t.node \in DOMAIN T =>
            t.gen <= T[t.node].gen /\ (t.gen = T[t.node].gen => Children(T, t.node) = {})
  /\ \A t, u \in S : t.node = u.node /\ t.gen = u.gen => t = u

(* The two structures of directories. *)
LEMMA Directories ==
  /\ IsFiniteSet(Dir)
  /\ \A d \in Dir : Subdirs[d] \subseteq Dir /\ Below[d] \subseteq Dir /\ d \in Below[d] /\ d \notin Subdirs[d]
  /\ \A d \in Dir : \A e \in Subdirs[d] : Below[e] \subseteq Below[d] /\ d \notin Below[e] /\ e \in Below[d]
  /\ \A c, d \in Dir : Subdirs[c] \cap Subdirs[d] # {} => c = d
  /\ \A n \in Node : n = [dir |-> n.dir, nr |-> n.nr] /\ n.dir \in Dir /\ n.nr \in Nat
<1>1. \A d \in Dir : Subdirs[d] \subseteq Dir /\ Below[d] \subseteq Dir /\ d \in Below[d]
  BY ExplorerAssumption
<1>2. \A d \in Dir : \A e \in Subdirs[d] : Below[e] \subseteq Below[d] \ {d}
  BY ExplorerAssumption
<1>3. \A c, d \in Dir : Subdirs[c] \cap Subdirs[d] # {} => c = d
  BY ExplorerAssumption
<1>4. IsFiniteSet(Dir)
  BY ExplorerAssumption
<1>5. \A n \in Node : n = [dir |-> n.dir, nr |-> n.nr] /\ n.dir \in Dir /\ n.nr \in Nat
  BY DEF Node
<1> QED BY <1>1, <1>2, <1>3, <1>4, <1>5

(* The nodes on the way up lie above. *)
LEMMA LineBelow ==
  ASSUME NEW T, NEW M, TreeShape(T, M), NEW m \in DOMAIN T
  PROVE  /\ m \in Line(T, m)
         /\ \A x \in Line(T, m) : x \in DOMAIN T /\ Below[m.dir] \subseteq Below[x.dir]
<1> DEFINE rank(k) == Cardinality(Dir \ Below[k.dir])
           Right(k) == \A x \in Line(T, k) : x \in DOMAIN T /\ Below[k.dir] \subseteq Below[x.dir]
           W == {k \in DOMAIN T : ~Right(k)}
           R == {rank(k) : k \in W}
<1>1. m \in Line(T, m)
  BY LineEq
<1>2. \A k \in DOMAIN T : rank(k) \in Nat
  <2> TAKE k \in DOMAIN T
  <2>1. IsFiniteSet(Dir \ Below[k.dir])
    BY Directories, FS_Subset
  <2> QED BY <2>1, FS_CardinalityType
<1>3. W = {}
  <2> SUFFICES ASSUME W # {} PROVE FALSE
    OBVIOUS
  <2>1. R \in SUBSET Nat /\ R # {}
    BY <1>2
  <2>2. PICK r \in R : \A q \in R : r <= q
    <3> HIDE DEF R
    <3> QED BY <2>1, LeastOf
  <2>3. PICK k \in W : rank(k) = r
    OBVIOUS
  <2>4. k \in DOMAIN T /\ ~Right(k)
    BY <2>3
  <2>5. CASE T[k].parent \notin DOMAIN T
    <3>1. Line(T, k) = {k}
      BY <2>4, <2>5, LineEq
    <3> QED BY <2>4, <3>1
  <2>6. CASE T[k].parent \in DOMAIN T
    <3> DEFINE p == T[k].parent
    <3>1. Line(T, k) = {k} \cup Line(T, p)
      BY <2>4, <2>6, LineEq
    <3>2. k.dir \in Subdirs[p.dir] /\ p \in DOMAIN T /\ p.dir \in Dir /\ k.dir \in Dir
      BY <2>4, <2>6, Directories DEF TreeShape
    <3>3. Below[k.dir] \subseteq Below[p.dir] /\ p.dir \notin Below[k.dir] /\ p.dir \in Below[p.dir]
      BY <3>2, Directories
    <3>4. Right(p)
      <4> SUFFICES ASSUME ~Right(p) PROVE FALSE
        OBVIOUS
      <4>1. p \in W
        BY <3>2
      <4>2. r <= rank(p)
        BY <2>2, <4>1
      <4>3. rank(p) < rank(k)
        <5> DEFINE X == Dir \ Below[p.dir]
                   Y == Dir \ Below[k.dir]
        <5>1. IsFiniteSet(Y) /\ X \in SUBSET Y /\ X # Y
          BY <3>2, <3>3, Directories, FS_Subset
        <5> HIDE DEF X, Y
        <5>2. IsFiniteSet(X) /\ Cardinality(X) <= Cardinality(Y) /\ Cardinality(X) # Cardinality(Y)
          BY <5>1, FS_Subset
        <5>3. Cardinality(X) < Cardinality(Y)
          BY <5>1, <5>2, FS_CardinalityType
        <5> QED BY <5>3 DEF X, Y
      <4>4. rank(p) \in Nat /\ rank(k) \in Nat
        BY <1>2, <2>4, <3>2
      <4> HIDE DEF rank
      <4> QED BY <2>3, <4>2, <4>3, <4>4
    <3> HIDE DEF p
    <3>5. Right(k)
      BY <2>4, <3>1, <3>3, <3>4
    <3> QED BY <2>4, <3>5
  <2> QED BY <2>5, <2>6
<1> QED BY <1>1, <1>3

(* What a rescan of n leaves is closed under parents, and n has no         *)
(* children left.                                                          *)
LEMMA RescanCloses ==
  ASSUME NEW T, NEW M, TreeShape(T, M), NEW n \in DOMAIN T
  PROVE  LET K == DOMAIN T \ Descendants(T, n)
         IN  /\ n \in K
             /\ \A m \in K : /\ T[m].parent \in DOMAIN T => T[m].parent \in K
                             /\ T[m].parent # n
<1> DEFINE K == DOMAIN T \ Descendants(T, n)
<1>1. n \in K
  BY DEF Descendants
<1>2. ASSUME NEW m \in K, T[m].parent \in DOMAIN T
      PROVE  T[m].parent \in K /\ T[m].parent # n
  <2> DEFINE q == T[m].parent
  <2>1. m \in DOMAIN T /\ q \in DOMAIN T /\ m.dir \in Subdirs[q.dir] /\ q.dir \in Dir
    BY <1>2, Directories DEF TreeShape
  <2>2. Line(T, m) = {m} \cup Line(T, q) /\ q \in Line(T, q)
    BY <2>1, LineEq, LineBelow
  <2>3. Below[m.dir] \subseteq Below[q.dir] /\ q.dir \notin Below[m.dir] /\ q.dir \in Below[q.dir]
    BY <2>1, Directories
  <2>4. n \notin Line(T, q)
    <3> SUFFICES ASSUME n \in Line(T, q) PROVE FALSE
      OBVIOUS
    <3>1. m \in Subtree(T, n)
      BY <2>1, <2>2 DEF Subtree
    <3>2. m = n
      BY <3>1 DEF Descendants
    <3>3. Below[q.dir] \subseteq Below[n.dir]
      BY <2>1, LineBelow
    <3> QED BY <2>3, <3>2, <3>3
  <2>5. q \notin Subtree(T, n) /\ q # n
    BY <2>2, <2>4 DEF Subtree
  <2> HIDE DEF q
  <2>6. q \in K /\ q # n
    BY <2>1, <2>5 DEF Descendants
  <2> QED BY <2>6 DEF q
<1>3. ASSUME NEW m \in K, T[m].parent \notin DOMAIN T PROVE T[m].parent # n
  BY <1>3
<1> QED BY <1>1, <1>2, <1>3

(* The tree with a new root n for d. *)
Rooted(R, L, Q, T, M, S, d, n) ==
  /\ n = [dir |-> d, nr |-> M[d]]
  /\ R = With(T, n, Leaf(NoNode)) /\ L = [M EXCEPT ![d] = @ + 1]
  /\ Q = S \cup {ScanOf(R, n, TRUE)}

Includes(R, T) == \A m \in DOMAIN T : m \in DOMAIN R /\ R[m] = T[m]

LEMMA NewRootTree ==
  ASSUME NEW T, NEW S, NEW M, TreeShape(T, M), ScanShape(T, S, M),
         NEW d \in Dir, NodesAt(T, d) = {},
         NEW n, NEW R, NEW L, NEW Q, Rooted(R, L, Q, T, M, S, d, n)
  PROVE  /\ TreeShape(R, L) /\ ScanShape(R, Q, L)
         /\ n \in DOMAIN R /\ Includes(R, T)
<1>1. n \in Node /\ n.dir = d /\ n.nr = M[d] /\ M[d] \in Nat /\ M \in [Dir -> Nat]
  BY DEF Rooted, Node, TreeShape
<1>2. n \notin DOMAIN T
  BY <1>1 DEF NodesAt
<1>3. DOMAIN R = DOMAIN T \cup {n} /\ R[n] = Leaf(NoNode) /\ \A m \in DOMAIN T : R[m] = T[m]
  BY <1>2 DEF Rooted, With
<1>4. /\ L \in [Dir -> Nat] /\ L[d] = M[d] + 1 /\ \A e \in Dir : M[e] <= L[e]
  BY <1>1 DEF Rooted
<1>5. /\ R[n].gen = 0 /\ R[n].parent = NoNode /\ R[n].size = 0 /\ NoNode \notin DOMAIN R
      /\ R[n] = [gen |-> R[n].gen, parent |-> R[n].parent, size |-> R[n].size, lazy |-> R[n].lazy]
  <2>1. NoNode \notin DOMAIN R
    BY <1>1, <1>3, ExplorerAssumption DEF TreeShape, Node
  <2>2. R[n] = [gen |-> 0, parent |-> NoNode, size |-> 0, lazy |-> FALSE]
    BY <1>3 DEF Leaf
  <2> QED BY <2>1, <2>2
<1>6. TreeShape(R, L)
  <2>1. IsFiniteSet(DOMAIN R) /\ DOMAIN R \subseteq Node
    BY <1>1, <1>3, FS_AddElement DEF TreeShape
  <2>2. ASSUME NEW m \in DOMAIN R
        PROVE  /\ R[m] = [gen |-> R[m].gen, parent |-> R[m].parent, size |-> R[m].size, lazy |-> R[m].lazy]
               /\ R[m].gen \in Nat /\ R[m].size \in Nat /\ m.nr < L[m.dir]
               /\ R[m].parent \in DOMAIN R \cup {NoNode}
               /\ R[m].parent \in DOMAIN R => m.dir \in Subdirs[R[m].parent.dir]
    <3>1. CASE m = n
      BY <1>1, <1>4, <1>5, <3>1
    <3>2. CASE m \in DOMAIN T
      <4>1. R[m] = T[m] /\ m \in Node
        BY <1>3, <3>2 DEF TreeShape
      <4>2. /\ T[m] = [gen |-> T[m].gen, parent |-> T[m].parent, size |-> T[m].size, lazy |-> T[m].lazy]
            /\ T[m].gen \in Nat /\ T[m].size \in Nat /\ m.nr < M[m.dir]
            /\ T[m].parent \in DOMAIN T \cup {NoNode}
            /\ T[m].parent \in DOMAIN T => m.dir \in Subdirs[T[m].parent.dir]
        BY <3>2 DEF TreeShape
      <4>3. m.nr < L[m.dir]
        <5>1. m.dir \in Dir /\ m.nr \in Nat
          BY <4>1, Directories
        <5> QED BY <1>1, <1>4, <4>2, <5>1
      <4>4. T[m].parent \in DOMAIN R => T[m].parent \in DOMAIN T
        BY <1>5, <4>2
      <4> QED BY <1>3, <4>1, <4>2, <4>3, <4>4
    <3> QED BY <1>3, <3>1, <3>2
  <2>3. \A m, k \in DOMAIN R : m.dir = k.dir => m = k
    BY <1>1, <1>3 DEF TreeShape, NodesAt
  <2> QED BY <1>4, <2>1, <2>2, <2>3 DEF TreeShape
<1>7. ASSUME NEW m \in DOMAIN R PROVE Children(R, m) = IF m = n THEN {} ELSE Children(T, m)
  <2>1. R[n].parent # m
    BY <1>5, <1>7
  <2>2. \A k \in DOMAIN T : T[k].parent # n
    BY <1>2, <1>3, <1>5 DEF TreeShape
  <2> QED BY <1>2, <1>3, <2>1, <2>2 DEF Children
<1>8. PICK t : t = ScanOf(R, n, TRUE)
  BY Zenon
<1>9. t \in [node : Node, gen : Nat, origin : BOOLEAN] /\ t.node = n /\ t.gen = R[n].gen
  BY <1>1, <1>5, <1>8 DEF ScanOf
<1>10. ScanShape(R, S \cup {t}, L)
  <2>1. \A u \in S : /\ u \in [node : Node, gen : Nat, origin : BOOLEAN]
                     /\ u.node.nr < M[u.node.dir] /\ u.node \in Node /\ u.node # n
    BY <1>1 DEF ScanShape
  <2>2. \A u \in S : u.node.nr < L[u.node.dir]
    <3> TAKE u \in S
    <3>1. u.node.dir \in Dir /\ u.node.nr \in Nat
      BY <2>1, Directories
    <3> QED BY <1>1, <1>4, <2>1, <3>1
  <2>3. t.node.nr < L[t.node.dir]
    BY <1>1, <1>4, <1>9
  <2>4. \A u \in S : u.node \in DOMAIN R =>
          u.gen <= R[u.node].gen /\ (u.gen = R[u.node].gen => Children(R, u.node) = {})
    <3> TAKE u \in S
    <3> HAVE u.node \in DOMAIN R
    <3>1. u.node \in DOMAIN T /\ R[u.node] = T[u.node]
      BY <1>3, <2>1
    <3> QED BY <1>7, <2>1, <3>1 DEF ScanShape
  <2>5. t.gen <= R[n].gen /\ Children(R, n) = {}
    BY <1>3, <1>5, <1>7, <1>9
  <2>6. \A u, v \in S \cup {t} : u.node = v.node /\ u.gen = v.gen => u = v
    BY <1>9, <2>1 DEF ScanShape
  <2> QED BY <1>9, <2>1, <2>2, <2>3, <2>4, <2>5, <2>6 DEF ScanShape
<1>11. Q = S \cup {t}
  BY <1>8, Zenon DEF Rooted
<1> QED BY <1>3, <1>6, <1>10, <1>11 DEF Includes

(* The tree after a rescan of n. *)
Rescanned(R, T, n) ==
  /\ DOMAIN R = DOMAIN T \ Descendants(T, n)
  /\ \A m \in DOMAIN R :
       /\ R[m] = [gen |-> R[m].gen, parent |-> R[m].parent, size |-> R[m].size, lazy |-> R[m].lazy]
       /\ R[m].parent = T[m].parent /\ R[m].size \in Nat
       /\ R[m].gen = IF m = n THEN T[n].gen + 1 ELSE T[m].gen

(* The measurements S after a rescan of n: none goes on below. *)
OnlyAt(Q, S, R, n) ==
  Q = {u \in S : u.node.dir \notin Below[n.dir]} \cup {ScanOf(R, n, TRUE)}

LEMMA RescanTree ==
  ASSUME NEW T, NEW S, NEW M, TreeShape(T, M), ScanShape(T, S, M), NEW n \in DOMAIN T,
         NEW R, Rescanned(R, T, n), NEW Q, OnlyAt(Q, S, R, n)
  PROVE  /\ TreeShape(R, M)
         /\ ScanShape(R, Q, M)
         /\ n \in DOMAIN R /\ DOMAIN R \subseteq DOMAIN T
<1>1. /\ n \in DOMAIN R
      /\ \A m \in DOMAIN R : /\ m \in DOMAIN T
                             /\ R[m].parent \in DOMAIN T => R[m].parent \in DOMAIN R
                             /\ R[m].parent # n
  BY RescanCloses DEF Rescanned
<1>2. \A m \in DOMAIN R : T[m].gen \in Nat /\ R[m].gen \in Nat /\ T[m].gen <= R[m].gen
                          /\ R[m].parent = T[m].parent
  BY <1>1 DEF Rescanned, TreeShape
<1>3. TreeShape(R, M)
  <2>1. IsFiniteSet(DOMAIN R) /\ DOMAIN R \subseteq Node /\ M \in [Dir -> Nat]
    BY <1>1, FS_Subset DEF TreeShape
  <2>2. \A m, k \in DOMAIN R : m.dir = k.dir => m = k
    BY <1>1 DEF TreeShape
  <2>3. ASSUME NEW m \in DOMAIN R
        PROVE  /\ R[m] = [gen |-> R[m].gen, parent |-> R[m].parent, size |-> R[m].size, lazy |-> R[m].lazy]
               /\ R[m].gen \in Nat /\ R[m].size \in Nat /\ m.nr < M[m.dir]
               /\ R[m].parent \in DOMAIN R \cup {NoNode}
               /\ R[m].parent \in DOMAIN R => m.dir \in Subdirs[R[m].parent.dir]
    <3>1. m.nr < M[m.dir] /\ T[m].parent \in DOMAIN T \cup {NoNode}
          /\ (T[m].parent \in DOMAIN T => m.dir \in Subdirs[T[m].parent.dir])
      BY <1>1 DEF TreeShape
    <3> QED BY <1>1, <1>2, <3>1 DEF Rescanned
  <2> QED BY <2>1, <2>2, <2>3 DEF TreeShape
<1>4. \A m \in DOMAIN R : Children(R, m) \subseteq Children(T, m)
  BY <1>1, <1>2 DEF Children
<1>5. Children(R, n) = {}
  BY <1>1 DEF Children
<1>6. PICK t : t = ScanOf(R, n, TRUE)
  BY Zenon
<1>7. t \in [node : Node, gen : Nat, origin : BOOLEAN] /\ t.node = n /\ t.gen = R[n].gen
  BY <1>1, <1>2, <1>6 DEF ScanOf, TreeShape
<1>8. ScanShape(R, Q, M)
  <2> DEFINE K == {u \in S : u.node.dir \notin Below[n.dir]}
  <2>1. \A u \in K : u \in S /\ u.node # n
    BY <1>1, Directories DEF TreeShape
  <2>2. \A u \in K : u.node \in DOMAIN R =>
          u.gen <= R[u.node].gen /\ (u.gen = R[u.node].gen => Children(R, u.node) = {})
    <3> TAKE u \in K
    <3> HAVE u.node \in DOMAIN R
    <3>1. R[u.node].gen = T[u.node].gen /\ u.node \in DOMAIN T /\ u \in S
      BY <1>1, <2>1 DEF Rescanned
    <3> QED BY <1>4, <3>1 DEF ScanShape
  <2>3. \A u \in K : u \in [node : Node, gen : Nat, origin : BOOLEAN] /\ u.node.nr < M[u.node.dir]
    BY <2>1 DEF ScanShape
  <2>4. t.node.nr < M[t.node.dir]
    BY <1>1, <1>7 DEF TreeShape
  <2>5. t.gen <= R[n].gen
    <3>1. PICK g \in Nat : g = R[n].gen
      BY <1>1, <1>2
    <3>2. g <= g
      OBVIOUS
    <3> QED BY <1>7, <3>1, <3>2
  <2>6. \A u, v \in K \cup {t} : u.node = v.node /\ u.gen = v.gen => u = v
    BY <1>7, <2>1 DEF ScanShape
  <2>8. Q = K \cup {t}
    BY <1>6, Zenon DEF OnlyAt
  <2> HIDE DEF K
  <2>7. ScanShape(R, K \cup {t}, M)
    BY <1>5, <1>7, <2>2, <2>3, <2>4, <2>5, <2>6 DEF ScanShape
  <2> QED BY <2>7, <2>8
<1> QED BY <1>1, <1>3, <1>8

-----------------------------------------------------------------------------
(* The handlers of the interface thread, from state to state. *)

IsState(s) ==
  s = [tree |-> s.tree, scans |-> s.scans, made |-> s.made, cache |-> s.cache,
       heavy |-> s.heavy, ui |-> s.ui]

World(s, A, G) ==
  /\ IsState(s) /\ TreeShape(s.tree, s.made) /\ ScanShape(s.tree, s.scans, s.made)
  /\ CacheInv(s.cache, s.tree, A, G)

(* What a step leaves alone. *)
Keeps(s, r) == r.heavy = s.heavy /\ r.ui = s.ui

(* The cache is right for any tree in which its nodes are the same. *)
LEMMA OtherTree ==
  ASSUME NEW c, NEW T, NEW A, NEW G, CacheInv(c, T, A, G), NEW R,
         \A m \in DOMAIN T : m \in DOMAIN R /\ R[m].gen = T[m].gen
  PROVE  CacheInv(c, R, A, G)
<1>1. \A m \in DOMAIN c.entries : m \in DOMAIN T
  BY DEF CacheInv, Expected
<1>2. Expected(c, R, A)
  BY <1>1 DEF CacheInv, Expected
<1> QED BY <1>2 DEF CacheInv

(* The tree after sizes shrank. *)
LEMMA ShrinkTree ==
  ASSUME NEW T, NEW N, NEW bytes, bytes \in Nat, NEW R, R = Shrink(T, N, bytes),
         \A m \in DOMAIN T :
           /\ T[m] = [gen |-> T[m].gen, parent |-> T[m].parent, size |-> T[m].size, lazy |-> T[m].lazy]
           /\ T[m].size \in Nat
  PROVE  /\ DOMAIN R = DOMAIN T
         /\ \A m \in DOMAIN T :
              /\ R[m] = [gen |-> R[m].gen, parent |-> R[m].parent, size |-> R[m].size, lazy |-> R[m].lazy]
              /\ R[m].gen = T[m].gen /\ R[m].parent = T[m].parent /\ R[m].lazy = T[m].lazy
              /\ R[m].size \in Nat
<1>1. DOMAIN R = DOMAIN T
  BY DEF Shrink
<1>2. ASSUME NEW m \in DOMAIN T
      PROVE  /\ R[m] = [gen |-> R[m].gen, parent |-> R[m].parent, size |-> R[m].size, lazy |-> R[m].lazy]
             /\ R[m].gen = T[m].gen /\ R[m].parent = T[m].parent /\ R[m].lazy = T[m].lazy
             /\ R[m].size \in Nat
  <2> DEFINE z == IF T[m].size > bytes THEN T[m].size - bytes ELSE 0
  <2>1. z \in Nat
    OBVIOUS
  <2>2. R[m] = IF m \in N THEN [T[m] EXCEPT !.size = z] ELSE T[m]
    BY DEF Shrink
  <2> HIDE DEF z
  <2>3. PICK g, p, y, l : T[m] = [gen |-> g, parent |-> p, size |-> y, lazy |-> l]
    OBVIOUS
  <2>4. T[m].gen = g /\ T[m].parent = p /\ T[m].size = y /\ T[m].lazy = l /\ y \in Nat
    BY <2>3
  <2>5. CASE m \in N
    <3>1. R[m] = [gen |-> g, parent |-> p, size |-> z, lazy |-> l]
      BY <2>2, <2>3, <2>5
    <3> QED BY <2>1, <2>4, <3>1
  <2>6. CASE m \notin N
    BY <2>2, <2>3, <2>4, <2>6
  <2> QED BY <2>5, <2>6
<1> QED BY <1>1, <1>2

LEMMA RescanWorld ==
  ASSUME NEW s, NEW A, NEW G, World(s, A, G), NEW n
  PROVE  /\ World(Rescan(s, n), A, G) /\ Keeps(s, Rescan(s, n))
         /\ n \in DOMAIN s.tree => n \in DOMAIN Rescan(s, n).tree
<1>1. CASE n \notin DOMAIN s.tree
  <2>1. Rescan(s, n) = s
    BY <1>1 DEF Rescan
  <2> QED BY <1>1, <2>1 DEF Keeps
<1>2. CASE n \in DOMAIN s.tree
  <2>1. PICK B, k, N : B = Without(s.tree, Descendants(s.tree, n)) /\ k = s.tree[n].size
                         /\ N = Ancestors(s.tree, n)
    OBVIOUS
  <2>2. PICK T : T = Shrink(B, N, k)
    OBVIOUS
  <2>3. PICK f : f = FALSE
    BY Zenon
  <2>4. PICK R, t : R = [T EXCEPT ![n].gen = @ + 1, ![n].size = 0, ![n].lazy = f]
                    /\ t = ScanOf(R, n, TRUE)
    BY Zenon
  <2> DEFINE S == {u \in s.scans : u.node.dir \notin Below[n.dir]} \cup {t}
             C == InvalidateListing(ForgetListingsOfMissingNodes(s.cache, R), n)
  <2>5. PICK r : r = [s EXCEPT !.tree = R, !.scans = S, !.cache = C]
    BY Zenon
  <2>6. Rescan(s, n) = r
    BY <1>2, <2>1, <2>2, <2>3, <2>4, <2>5, Zenon DEF Rescan
  <2>7. /\ r.tree = R /\ r.scans = S /\ r.cache = C /\ r.made = s.made
        /\ r.heavy = s.heavy /\ r.ui = s.ui /\ IsState(r)
    <3>1. PICK a, b, c, d, e, u : s = [tree |-> a, scans |-> b, made |-> c, cache |-> d,
                                       heavy |-> e, ui |-> u]
      BY DEF World, IsState
    <3> HIDE DEF S, C
    <3>2. r = [tree |-> R, scans |-> S, made |-> c, cache |-> C, heavy |-> e, ui |-> u]
      BY <2>5, <3>1
    <3> QED BY <3>1, <3>2 DEF IsState
  <2>8. /\ DOMAIN B = DOMAIN s.tree \ Descendants(s.tree, n)
        /\ \A m \in DOMAIN B :
             /\ B[m] = s.tree[m] /\ B[m].size \in Nat
             /\ B[m] = [gen |-> B[m].gen, parent |-> B[m].parent, size |-> B[m].size, lazy |-> B[m].lazy]
    BY <2>1 DEF Without, World, TreeShape
  <2>9. /\ DOMAIN T = DOMAIN B
        /\ \A m \in DOMAIN B :
             /\ T[m] = [gen |-> T[m].gen, parent |-> T[m].parent, size |-> T[m].size, lazy |-> T[m].lazy]
             /\ T[m].gen = s.tree[m].gen /\ T[m].parent = s.tree[m].parent /\ T[m].size \in Nat
    <3>1. k \in Nat
      BY <1>2, <2>1 DEF World, TreeShape
    <3>2. \A m \in DOMAIN B :
             /\ B[m] = [gen |-> B[m].gen, parent |-> B[m].parent, size |-> B[m].size, lazy |-> B[m].lazy]
             /\ B[m].size \in Nat
      BY <2>8
    <3>3. /\ DOMAIN T = DOMAIN B
          /\ \A m \in DOMAIN B :
               /\ T[m] = [gen |-> T[m].gen, parent |-> T[m].parent, size |-> T[m].size, lazy |-> T[m].lazy]
               /\ T[m].gen = B[m].gen /\ T[m].parent = B[m].parent /\ T[m].lazy = B[m].lazy
               /\ T[m].size \in Nat
      BY <2>2, <3>1, <3>2, ShrinkTree
    <3> QED BY <2>8, <3>3
  <2>10. n \in DOMAIN B /\ n \in DOMAIN T
    BY <1>2, <2>8, <2>9 DEF Descendants
  <2>11. Rescanned(R, s.tree, n)
    <3>1. PICK g, p, y, l : T[n] = [gen |-> g, parent |-> p, size |-> y, lazy |-> l]
      BY <2>9, <2>10
    <3>2. PICK T1 : T1 = [T EXCEPT ![n].gen = @ + 1]
      OBVIOUS
    <3>3. PICK T2 : T2 = [T1 EXCEPT ![n].size = 0]
      OBVIOUS
    <3>4. R = [T2 EXCEPT ![n].lazy = f]
      BY <2>4, <3>2, <3>3
    <3>5. DOMAIN T1 = DOMAIN T /\ (\A m \in DOMAIN T \ {n} : T1[m] = T[m])
          /\ T1[n] = [gen |-> g + 1, parent |-> p, size |-> y, lazy |-> l]
      BY <2>10, <3>1, <3>2
    <3>6. DOMAIN T2 = DOMAIN T /\ (\A m \in DOMAIN T \ {n} : T2[m] = T[m])
          /\ T2[n] = [gen |-> g + 1, parent |-> p, size |-> 0, lazy |-> l]
      BY <2>10, <3>3, <3>5
    <3>7. DOMAIN R = DOMAIN T /\ (\A m \in DOMAIN T \ {n} : R[m] = T[m])
          /\ R[n] = [gen |-> g + 1, parent |-> p, size |-> 0, lazy |-> f]
      BY <2>10, <3>4, <3>6
    <3>8. g = s.tree[n].gen /\ p = s.tree[n].parent
      BY <2>9, <2>10, <3>1
    <3>9. ASSUME NEW m \in DOMAIN R
          PROVE  /\ R[m] = [gen |-> R[m].gen, parent |-> R[m].parent, size |-> R[m].size, lazy |-> R[m].lazy]
                 /\ R[m].parent = s.tree[m].parent /\ R[m].size \in Nat
                 /\ R[m].gen = IF m = n THEN s.tree[n].gen + 1 ELSE s.tree[m].gen
      <4>1. CASE m = n
        BY <3>7, <3>8, <4>1
      <4>2. CASE m # n
        <5>1. R[m] = T[m] /\ m \in DOMAIN B
          BY <2>9, <3>7, <4>2
        <5> QED BY <2>9, <4>2, <5>1
      <4> QED BY <4>1, <4>2
    <3> QED BY <2>8, <2>9, <3>7, <3>9 DEF Rescanned
  <2>12. TreeShape(R, s.made) /\ ScanShape(R, S, s.made) /\ n \in DOMAIN R /\ DOMAIN R \subseteq DOMAIN s.tree
    <3>1. TreeShape(s.tree, s.made) /\ ScanShape(s.tree, s.scans, s.made)
      BY DEF World
    <3>2. OnlyAt(S, s.scans, R, n)
      BY <2>4, Zenon DEF OnlyAt
    <3> HIDE DEF S
    <3> QED BY <1>2, <2>11, <3>1, <3>2, RescanTree
  <2> DEFINE F == ForgetListingsOfMissingNodes(s.cache, R)
             X == DOMAIN s.cache.entries \cap DOMAIN R
             Y == X \ {n}
  <2> HIDE DEF F, X, C, S
  <2>13. Restricted(F, s.cache, X) /\ CacheShape(F)
    BY ForgetRestricts DEF F, X, World, CacheInv
  <2>14. DOMAIN F.entries = X
    BY <2>13 DEF Restricted
  <2>15. Restricted(C, F, Y)
    BY <2>13, <2>14, InvalidateRestricts DEF C, F, Y
  <2>16. Restricted(C, s.cache, Y)
    <3>1. Y \subseteq X /\ \A m \in X : F.entries[m] = s.cache.entries[m]
      BY <2>13 DEF Restricted
    <3>2. C.entries = [m \in Y |-> s.cache.entries[m]]
      BY <2>15, <3>1 DEF Restricted
    <3>3. Len(C.order) <= Len(F.order) /\ Len(F.order) <= Len(s.cache.order)
      BY <2>13, <2>15 DEF Restricted
    <3>4. Len(C.order) \in Nat /\ Len(F.order) \in Nat /\ Len(s.cache.order) \in Nat
      BY <2>13, <2>15, LenProperties DEF Restricted, World, CacheInv, CacheShape
    <3>5. Len(C.order) <= Len(s.cache.order)
      BY <3>3, <3>4
    <3> HIDE DEF Y
    <3> QED BY <2>13, <2>15, <3>1, <3>2, <3>5 DEF Restricted
  <2>17. CacheInv(C, R, A, G)
    <3>1. \A m \in Y : m \in DOMAIN R /\ R[m].gen = s.tree[m].gen
      BY <2>11 DEF Rescanned, X
    <3>2. CacheInv(s.cache, s.tree, A, G)
      BY DEF World
    <3> HIDE DEF Y
    <3> QED BY <2>16, <3>1, <3>2, RestrictKeeps
  <2>18. DOMAIN C.entries \subseteq DOMAIN s.cache.entries \cap DOMAIN R
    BY <2>16 DEF Restricted, X
  <2>20. World(r, A, G) /\ Keeps(s, r)
    BY <2>7, <2>12, <2>17 DEF World, Keeps
  <2> QED BY <2>6, <2>7, <2>12, <2>20
<1> QED BY <1>1, <1>2

LEMMA NewRootWorld ==
  ASSUME NEW s, NEW A, NEW G, World(s, A, G), NEW d \in Dir, NodesAt(s.tree, d) = {}
  PROVE  /\ World(NewRoot(s, d), A, G) /\ Keeps(s, NewRoot(s, d))
         /\ \E n \in DOMAIN NewRoot(s, d).tree : n.dir = d
<1>1. PICK n, R : n = [dir |-> d, nr |-> s.made[d]] /\ R = With(s.tree, n, Leaf(NoNode))
  OBVIOUS
<1>2. PICK t, L : t = ScanOf(R, n, TRUE) /\ L = [s.made EXCEPT ![d] = @ + 1]
  BY Zenon
<1>3. PICK a, b, c, e, h, u : s = [tree |-> a, scans |-> b, made |-> c, cache |-> e,
                                   heavy |-> h, ui |-> u]
  BY DEF World, IsState
<1>4. PICK r : r = [s EXCEPT !.tree = R, !.made[d] = @ + 1, !.scans = @ \cup {t}]
  BY Zenon
<1>5. NewRoot(s, d) = r
  BY <1>1, <1>2, <1>4, Zenon DEF NewRoot
<1>6. r = [tree |-> R, scans |-> b \cup {t}, made |-> L, cache |-> e, heavy |-> h, ui |-> u]
  <2>1. L = [c EXCEPT ![d] = @ + 1]
    BY <1>2, <1>3
  <2>2. r = [s EXCEPT !.tree = R, !.made = L, !.scans = b \cup {t}]
    BY <1>3, <1>4, <2>1
  <2> QED BY <1>3, <2>2
<1>7. /\ r.tree = R /\ r.scans = s.scans \cup {t} /\ r.made = L /\ r.cache = s.cache
      /\ r.heavy = s.heavy /\ r.ui = s.ui /\ IsState(r)
  BY <1>3, <1>6 DEF IsState
<1>8. /\ TreeShape(R, L) /\ ScanShape(R, s.scans \cup {t}, L)
      /\ n \in DOMAIN R /\ Includes(R, s.tree)
  <2>1. TreeShape(s.tree, s.made) /\ ScanShape(s.tree, s.scans, s.made)
    BY DEF World
  <2>2. Rooted(R, L, s.scans \cup {t}, s.tree, s.made, s.scans, d, n)
    BY <1>1, <1>2, Zenon DEF Rooted
  <2> QED BY <2>1, <2>2, NewRootTree
<1>9. CacheInv(s.cache, R, A, G)
  BY <1>8, OtherTree DEF World, Includes
<1>10. World(r, A, G)
  BY <1>2, <1>7, <1>8, <1>9 DEF World
<1>11. Keeps(s, r)
  BY <1>7 DEF Keeps
<1> QED BY <1>1, <1>5, <1>7, <1>8, <1>10, <1>11

(* The tree after the measurement of n: the new nodes F and the roots X    *)
(* are children of n.                                                      *)
Joined(R, T, n, F, X) ==
  /\ DOMAIN R = DOMAIN T \cup F
  /\ \A m \in DOMAIN R :
       /\ R[m] = [gen |-> R[m].gen, parent |-> R[m].parent, size |-> R[m].size, lazy |-> R[m].lazy]
       /\ R[m].gen = (IF m \in F THEN 0 ELSE T[m].gen) /\ R[m].size \in Nat
       /\ R[m].parent = IF m \in F \cup X THEN n ELSE T[m].parent

(* F are nodes that were not there, of the directories D that have none. *)
NewNodes(F, T, M, D) ==
  /\ F = {[dir |-> d, nr |-> M[d]] : d \in D}
  /\ \A m \in DOMAIN T : m.dir \notin D

LEMMA NewNodesAre ==
  ASSUME NEW T, NEW M, TreeShape(T, M), NEW D \in SUBSET Dir, NEW F, NewNodes(F, T, M, D)
  PROVE  /\ IsFiniteSet(F) /\ F \subseteq Node /\ F \cap DOMAIN T = {}
         /\ \A m \in F : m.dir \in D /\ m.nr = M[m.dir]
         /\ \A m, k \in F : m.dir = k.dir => m = k
<1>1. \A m \in F : m \in Node /\ m.dir \in D /\ m.nr = M[m.dir]
  BY DEF NewNodes, TreeShape, Node
<1>2. \A m, k \in F : m.dir = k.dir => m = k
  BY DEF NewNodes
<1>3. IsFiniteSet(F)
  <2> DEFINE f == [m \in F |-> m.dir]
  <2>1. f \in [F -> Dir]
    BY <1>1
  <2>2. \A m, k \in F : f[m] = f[k] => m = k
    BY <1>2
  <2>3. f \in Injection(F, Dir)
    BY <2>1, <2>2 DEF Injection, IsInjective
  <2> QED BY <2>3, Directories, FS_Injection
<1>4. F \cap DOMAIN T = {}
  BY <1>1 DEF NewNodes
<1> QED BY <1>1, <1>2, <1>3, <1>4

NextNumbers(L, M, D) ==
  L \in [Dir -> Nat] /\ \A d \in Dir : L[d] = IF d \in D THEN M[d] + 1 ELSE M[d]

(* The measurement t is replaced by those of the new nodes. *)
Replaced(Q, S, t, F) ==
  \A u \in Q : \/ u \in S \ {t}
               \/ \E m \in F : u = [node |-> m, gen |-> 0, origin |-> FALSE]

LEMMA JoinedTree ==
  ASSUME NEW T, NEW M, TreeShape(T, M), NEW n \in DOMAIN T, Children(T, n) = {},
         NEW D \in SUBSET Subdirs[n.dir], NEW F, NewNodes(F, T, M, D),
         NEW X \in SUBSET DOMAIN T, \A m \in X : m.dir \in Subdirs[n.dir],
         NEW R, Joined(R, T, n, F, X),
         NEW L, NextNumbers(L, M, D)
  PROVE  TreeShape(R, L)
<1>1. /\ n.dir \in Dir /\ D \in SUBSET Dir /\ n \in Node
      /\ M \in [Dir -> Nat] /\ L \in [Dir -> Nat]
      /\ \A d \in Dir : L[d] = IF d \in D THEN M[d] + 1 ELSE M[d]
  BY Directories DEF TreeShape, NextNumbers
<1>2. /\ IsFiniteSet(F) /\ F \subseteq Node /\ F \cap DOMAIN T = {}
      /\ \A m \in F : m.dir \in D /\ m.nr = M[m.dir]
      /\ \A m, k \in F : m.dir = k.dir => m = k
  BY <1>1, NewNodesAre
<1>3. DOMAIN R = DOMAIN T \cup F
  BY DEF Joined
<1>4. IsFiniteSet(DOMAIN R) /\ DOMAIN R \subseteq Node
  <2>1. IsFiniteSet(DOMAIN T) /\ DOMAIN T \subseteq Node
    BY DEF TreeShape
  <2>2. IsFiniteSet(DOMAIN T \cup F)
    BY <1>2, <2>1, FS_Union
  <2> QED BY <1>2, <1>3, <2>1, <2>2
<1>5. \A m, k \in DOMAIN R : m.dir = k.dir => m = k
  BY <1>2, <1>3 DEF TreeShape, NewNodes
<1>6. ASSUME NEW m \in DOMAIN R
      PROVE  /\ R[m] = [gen |-> R[m].gen, parent |-> R[m].parent, size |-> R[m].size, lazy |-> R[m].lazy]
             /\ R[m].gen \in Nat /\ R[m].size \in Nat /\ m.nr < L[m.dir]
             /\ R[m].parent \in DOMAIN R \cup {NoNode}
             /\ R[m].parent \in DOMAIN R => m.dir \in Subdirs[R[m].parent.dir]
  <2>1. /\ R[m] = [gen |-> R[m].gen, parent |-> R[m].parent, size |-> R[m].size, lazy |-> R[m].lazy]
        /\ R[m].gen \in Nat /\ R[m].size \in Nat
    BY <1>3 DEF Joined, TreeShape
  <2>2. m.dir \in Dir /\ m.nr \in Nat
    BY <1>4, Directories
  <2>3. m.nr < L[m.dir]
    <3>1. CASE m \in F
      BY <1>1, <1>2, <2>2, <3>1
    <3>2. CASE m \in DOMAIN T
      <4>1. m.nr < M[m.dir]
        BY <3>2 DEF TreeShape
      <4> QED BY <1>1, <2>2, <4>1
    <3> QED BY <1>3, <3>1, <3>2
  <2>4. CASE m \in F \cup X
    <3>1. R[m].parent = n /\ m.dir \in Subdirs[n.dir]
      BY <1>2, <2>4 DEF Joined
    <3> QED BY <1>3, <2>1, <2>3, <3>1
  <2>5. CASE m \notin F \cup X
    <3>1. m \in DOMAIN T /\ R[m].parent = T[m].parent
      BY <1>3, <2>5 DEF Joined
    <3>2. T[m].parent \in DOMAIN T \cup {NoNode}
          /\ (T[m].parent \in DOMAIN T => m.dir \in Subdirs[T[m].parent.dir])
      BY <3>1 DEF TreeShape
    <3>3. NoNode \notin DOMAIN R
      BY <1>4, ExplorerAssumption DEF Node
    <3> QED BY <1>3, <2>1, <2>3, <3>1, <3>2, <3>3
  <2> QED BY <2>4, <2>5
<1> QED BY <1>1, <1>4, <1>5, <1>6 DEF TreeShape

LEMMA JoinedScans ==
  ASSUME NEW T, NEW M, NEW S, TreeShape(T, M), ScanShape(T, S, M), NEW t \in S,
         NEW n \in DOMAIN T, n = t.node, T[n].gen = t.gen,
         NEW D \in SUBSET Subdirs[n.dir], NEW F, NewNodes(F, T, M, D),
         NEW X \in SUBSET DOMAIN T, NEW R, Joined(R, T, n, F, X),
         NEW L, NextNumbers(L, M, D), NEW Q, Replaced(Q, S, t, F)
  PROVE  ScanShape(R, Q, L)
<1>1. /\ n.dir \in Dir /\ D \in SUBSET Dir /\ n \in Node
      /\ M \in [Dir -> Nat] /\ L \in [Dir -> Nat]
      /\ \A d \in Dir : L[d] = IF d \in D THEN M[d] + 1 ELSE M[d]
  BY Directories DEF TreeShape, NextNumbers
<1>2. /\ F \subseteq Node /\ F \cap DOMAIN T = {} /\ \A m \in F : m.dir \in D /\ m.nr = M[m.dir]
  BY <1>1, NewNodesAre
<1>3. DOMAIN R = DOMAIN T \cup F /\ n \notin F /\ NoNode \notin F
      /\ (\A m \in F : R[m].parent = n) /\ (\A m \in X : R[m].parent = n)
      /\ (\A m \in DOMAIN T \ X : R[m].parent = T[m].parent)
      /\ (\A m \in DOMAIN T : R[m].gen = T[m].gen /\ T[m].gen \in Nat)
      /\ (\A m \in F : R[m].gen = 0)
  <2>1. DOMAIN R = DOMAIN T \cup F /\ n \notin F /\ NoNode \notin F
    BY <1>2, ExplorerAssumption DEF Joined, Node
  <2>2. \A m \in DOMAIN R : /\ R[m].gen = (IF m \in F THEN 0 ELSE T[m].gen)
                            /\ R[m].parent = IF m \in F \cup X THEN n ELSE T[m].parent
    BY DEF Joined
  <2>3. \A m \in DOMAIN T : T[m].gen \in Nat
    BY DEF TreeShape
  <2> QED BY <1>2, <2>1, <2>2, <2>3
<1>4. \A x \in DOMAIN R \ {n} : Children(R, x) \subseteq Children(T, x)
  BY <1>2, <1>3 DEF Children
<1>5. \A x \in F : Children(R, x) = {}
  <2> TAKE x \in F
  <2>1. x \notin DOMAIN T /\ x # n /\ x # NoNode
    BY <1>2, <1>3
  <2>2. \A m \in DOMAIN T : T[m].parent # x
    BY <2>1 DEF TreeShape
  <2> QED BY <1>3, <2>1, <2>2 DEF Children
<1>6. \A u \in S : /\ u \in [node : Node, gen : Nat, origin : BOOLEAN]
                   /\ u.node.nr < M[u.node.dir] /\ u.node.dir \in Dir /\ u.node.nr \in Nat
                   /\ u.gen \in Nat
  BY Directories DEF ScanShape
<1>7. \A u \in S : u.node \notin F
  <2> SUFFICES ASSUME NEW u \in S, u.node \in F PROVE FALSE
    OBVIOUS
  <2>1. u.node.nr = M[u.node.dir] /\ u.node.nr < M[u.node.dir] /\ M[u.node.dir] \in Nat
    BY <1>1, <1>2, <1>6
  <2> QED BY <2>1
<1>8. ASSUME NEW u \in S \ {t}
      PROVE  /\ u \in [node : Node, gen : Nat, origin : BOOLEAN]
             /\ u.node.nr < L[u.node.dir]
             /\ u.node \in DOMAIN R =>
                  u.gen <= R[u.node].gen /\ (u.gen = R[u.node].gen => Children(R, u.node) = {})
  <2>1. u.node.nr < L[u.node.dir]
    <3>1. u.node.dir \in Dir /\ u.node.nr \in Nat /\ u.node.nr < M[u.node.dir]
      BY <1>6
    <3> QED BY <1>1, <3>1
  <2>2. ASSUME u.node \in DOMAIN R
        PROVE  u.gen <= R[u.node].gen /\ (u.gen = R[u.node].gen => Children(R, u.node) = {})
    <3>1. u.node \in DOMAIN T /\ R[u.node].gen = T[u.node].gen
      BY <1>3, <1>7, <2>2
    <3>2. u.gen <= T[u.node].gen /\ (u.gen = T[u.node].gen => Children(T, u.node) = {})
      BY <3>1 DEF ScanShape
    <3>3. u.gen = T[u.node].gen => u.node # n
      BY DEF ScanShape
    <3> QED BY <1>4, <2>2, <3>1, <3>2, <3>3
  <2> QED BY <1>6, <2>1, <2>2
<1>9. ASSUME NEW u, NEW m \in F, u = [node |-> m, gen |-> 0, origin |-> FALSE]
      PROVE  /\ u \in [node : Node, gen : Nat, origin : BOOLEAN]
             /\ u.node.nr < L[u.node.dir]
             /\ u.node \in DOMAIN R =>
                  u.gen <= R[u.node].gen /\ (u.gen = R[u.node].gen => Children(R, u.node) = {})
             /\ u.node = m /\ u.gen = 0
  <2>1. u.node = m /\ u.gen = 0 /\ u \in [node : Node, gen : Nat, origin : BOOLEAN]
    BY <1>2, <1>9
  <2>2. m.nr = M[m.dir] /\ m.dir \in D /\ m.dir \in Dir
    BY <1>1, <1>2
  <2>3. m.nr < L[m.dir]
    BY <1>1, <2>2
  <2>4. R[m].gen = 0 /\ Children(R, m) = {}
    BY <1>3, <1>5
  <2> QED BY <2>1, <2>3, <2>4
<1>10. ASSUME NEW u \in Q
       PROVE  /\ u \in [node : Node, gen : Nat, origin : BOOLEAN]
              /\ u.node.nr < L[u.node.dir]
              /\ u.node \in DOMAIN R =>
                   u.gen <= R[u.node].gen /\ (u.gen = R[u.node].gen => Children(R, u.node) = {})
  <2>1. CASE u \in S \ {t}
    BY <1>8, <2>1
  <2>2. CASE \E m \in F : u = [node |-> m, gen |-> 0, origin |-> FALSE]
    <3>1. PICK m \in F : u = [node |-> m, gen |-> 0, origin |-> FALSE]
      BY <2>2
    <3> QED BY <1>9, <3>1
  <2> QED BY <2>1, <2>2 DEF Replaced
<1>11. ASSUME NEW u \in Q, NEW v \in Q, u.node = v.node, u.gen = v.gen
       PROVE  u = v
  <2>1. CASE u \in S \ {t} /\ v \in S \ {t}
    BY <1>11, <2>1 DEF ScanShape
  <2>2. CASE u \notin S \ {t} /\ v \notin S \ {t}
    <3>1. PICK m \in F : u = [node |-> m, gen |-> 0, origin |-> FALSE]
      BY <2>2 DEF Replaced
    <3>2. PICK k \in F : v = [node |-> k, gen |-> 0, origin |-> FALSE]
      BY <2>2 DEF Replaced
    <3>3. m = k
      BY <1>11, <3>1, <3>2
    <3> QED BY <3>1, <3>2, <3>3, Zenon
  <2>3. CASE u \in S \ {t} /\ v \notin S \ {t}
    <3>2. PICK k \in F : v = [node |-> k, gen |-> 0, origin |-> FALSE]
      BY <2>3 DEF Replaced
    <3> QED BY <1>7, <1>11, <2>3, <3>2
  <2>4. CASE u \notin S \ {t} /\ v \in S \ {t}
    <3>2. PICK k \in F : u = [node |-> k, gen |-> 0, origin |-> FALSE]
      BY <2>4 DEF Replaced
    <3> QED BY <1>7, <1>11, <2>4, <3>2
  <2> QED BY <2>1, <2>2, <2>3, <2>4
<1> QED BY <1>10, <1>11 DEF ScanShape

AddSize(p, a, m) == a + p[m].size
IsSum(p, s, a) == a \in Nat
SizeFold == INSTANCE FoldLemmas WITH Op <- AddSize, Pick <- PickAny, Good <- IsSum

TotalOf(T, X) == FoldSet(LAMBDA m, sum : sum + T[m].size, 0, X)

LEMMA SizesSum ==
  ASSUME NEW T, NEW X, IsFiniteSet(X), \A m \in X : T[m].size \in Nat
  PROVE  TotalOf(T, X) \in Nat
<1> DEFINE a == TotalOf(T, X)
<1>1. a = SizeFold!Fold(T, 0, X)
  BY Zenon DEF TotalOf, FoldSet, MapThenFoldSet, SizeFold!Fold, SizeFold!Step, AddSize, PickAny
<1> HIDE DEF a
<1>2. \A s \in SUBSET X : s # {} => PickAny(s) \in s
  BY Zenon DEF PickAny
<1>3. IsSum(T, {}, 0)
  BY DEF IsSum
<1>4. \A s \in SUBSET X : s # {} =>
        \A b : IsSum(T, s \ {PickAny(s)}, b) => IsSum(T, s, AddSize(T, b, PickAny(s)))
  BY <1>2 DEF IsSum, AddSize
<1>5. SizeFold!Inductive(X)
  BY FiniteInductive DEF SizeFold!Inductive
<1>6. IsSum(T, X, SizeFold!Fold(T, 0, X))
  BY <1>2, <1>3, <1>4, <1>5, SizeFold!FoldKeeps
<1>7. a \in Nat
  BY <1>1, <1>6 DEF IsSum
<1> QED BY <1>7 DEF a

(* The tree after sizes grew. *)
LEMMA GrowTree ==
  ASSUME NEW T, NEW N, NEW bytes, bytes \in Nat, NEW R, R = Grow(T, N, bytes),
         \A m \in DOMAIN T :
           /\ T[m] = [gen |-> T[m].gen, parent |-> T[m].parent, size |-> T[m].size, lazy |-> T[m].lazy]
           /\ T[m].size \in Nat
  PROVE  /\ DOMAIN R = DOMAIN T
         /\ \A m \in DOMAIN T :
              /\ R[m] = [gen |-> R[m].gen, parent |-> R[m].parent, size |-> R[m].size, lazy |-> R[m].lazy]
              /\ R[m].gen = T[m].gen /\ R[m].parent = T[m].parent /\ R[m].lazy = T[m].lazy
              /\ R[m].size \in Nat
<1>1. DOMAIN R = DOMAIN T
  BY DEF Grow
<1>2. ASSUME NEW m \in DOMAIN T
      PROVE  /\ R[m] = [gen |-> R[m].gen, parent |-> R[m].parent, size |-> R[m].size, lazy |-> R[m].lazy]
             /\ R[m].gen = T[m].gen /\ R[m].parent = T[m].parent /\ R[m].lazy = T[m].lazy
             /\ R[m].size \in Nat
  <2>1. R[m] = IF m \in N THEN [T[m] EXCEPT !.size = @ + bytes] ELSE T[m]
    BY DEF Grow
  <2>2. PICK g, p, y, l : T[m] = [gen |-> g, parent |-> p, size |-> y, lazy |-> l]
    OBVIOUS
  <2>3. T[m].gen = g /\ T[m].parent = p /\ T[m].size = y /\ T[m].lazy = l /\ y \in Nat
    BY <2>2
  <2>4. CASE m \in N
    <3>1. R[m] = [gen |-> g, parent |-> p, size |-> y + bytes, lazy |-> l]
      BY <2>1, <2>2, <2>4
    <3>2. y + bytes \in Nat
      BY <2>3
    <3> QED BY <2>3, <3>1, <3>2
  <2>5. CASE m \notin N
    BY <2>1, <2>2, <2>3, <2>5
  <2> QED BY <2>4, <2>5
<1> QED BY <1>1, <1>2

LEMMA MeasuredWorld ==
  ASSUME NEW s, NEW A, NEW G, World(s, A, G), NEW t \in s.scans,
         t.node \in DOMAIN s.tree, s.tree[t.node].gen = t.gen
  PROVE  /\ World(Measured(s, t), A, G) /\ Keeps(s, Measured(s, t))
         /\ DOMAIN s.tree \subseteq DOMAIN Measured(s, t).tree
<1> DEFINE n == t.node
           D == IF t.origin \/ n.dir \notin Shallow THEN Subdirs[n.dir] \ Barred ELSE {}
           X == {m \in DOMAIN s.tree : m.dir \in D /\ s.tree[m].parent = NoNode}
           E == D \ {m.dir : m \in X}
           F == {[dir |-> d, nr |-> s.made[d]] : d \in E}
           z == D = {} /\ Subdirs[n.dir] \ Barred # {}
           T == [m \in DOMAIN s.tree \cup F |->
                   IF m \in F THEN Leaf(n)
                   ELSE IF m \in X THEN [s.tree[m] EXCEPT !.parent = n]
                   ELSE IF m = n THEN [s.tree[n] EXCEPT !.lazy = z]
                   ELSE s.tree[m]]
           a == FoldSet(LAMBDA m, sum : sum + s.tree[m].size, 0, X)
           R == Grow(T, Line(T, n), Bytes[n.dir] + a)
           L == [d \in Dir |-> IF d \in {m.dir : m \in F} THEN s.made[d] + 1 ELSE s.made[d]]
           Q == (s.scans \ {t}) \cup {ScanOf(T, m, FALSE) : m \in F}
           r == [s EXCEPT !.tree = R, !.made = L, !.scans = Q]
<1>1. Measured(s, t) = r
  BY Zenon DEF Measured
<1>2. TreeShape(s.tree, s.made) /\ ScanShape(s.tree, s.scans, s.made) /\ n \in DOMAIN s.tree
      /\ s.tree[n].gen = t.gen /\ CacheInv(s.cache, s.tree, A, G)
  BY DEF World
<1>3. Children(s.tree, n) = {} /\ n.dir \in Dir
  BY <1>2, Directories DEF ScanShape, TreeShape
<1>4. D \subseteq Subdirs[n.dir] /\ D \subseteq Dir
  BY <1>3, Directories
<1>5. E \subseteq D /\ X \subseteq DOMAIN s.tree /\ \A m \in X : m.dir \in D /\ s.tree[m].parent = NoNode
  OBVIOUS
<1>6. ASSUME NEW m \in DOMAIN s.tree PROVE m.dir \notin E
  <2> SUFFICES ASSUME m.dir \in D, m \notin X PROVE FALSE
    OBVIOUS
  <2> DEFINE p == s.tree[m].parent
  <2>1. p # NoNode
    OBVIOUS
  <2> HIDE DEF X
  <2>2. p \in DOMAIN s.tree /\ m.dir \in Subdirs[p.dir] /\ p.dir \in Dir
    BY <1>2, <2>1, Directories DEF TreeShape
  <2>3. p.dir = n.dir
    BY <1>3, <1>4, <2>2, Directories
  <2>4. p = n
    BY <1>2, <2>2, <2>3 DEF TreeShape
  <2> QED BY <1>3, <2>4 DEF Children
<1>7. NewNodes(F, s.tree, s.made, E)
  <2> HIDE DEF E
  <2> QED BY <1>6 DEF NewNodes
<1> HIDE DEF n, D, X, E, r
<1>8. /\ IsFiniteSet(F) /\ F \subseteq Node /\ F \cap DOMAIN s.tree = {}
      /\ \A m \in F : m.dir \in E
  <2>1. E \in SUBSET Dir
    BY <1>4, <1>5
  <2> HIDE DEF F
  <2> QED BY <1>2, <1>7, <2>1, NewNodesAre
<1>9. {m.dir : m \in F} = E
  <2>1. \A d \in E : \E m \in F : m.dir = d
    <3> TAKE d \in E
    <3> DEFINE m == [dir |-> d, nr |-> s.made[d]]
    <3>1. m \in F /\ m.dir = d
      OBVIOUS
    <3> QED BY <3>1
  <2> HIDE DEF F
  <2> QED BY <1>8, <2>1
<1> HIDE DEF F, z
<1>10. /\ DOMAIN T = DOMAIN s.tree \cup F
       /\ \A m \in DOMAIN T :
            /\ T[m] = [gen |-> T[m].gen, parent |-> T[m].parent, size |-> T[m].size, lazy |-> T[m].lazy]
            /\ T[m].gen = (IF m \in F THEN 0 ELSE s.tree[m].gen) /\ T[m].size \in Nat
            /\ T[m].parent = IF m \in F \cup X THEN n ELSE s.tree[m].parent
  <2>1. DOMAIN T = DOMAIN s.tree \cup F
    OBVIOUS
  <2>2. ASSUME NEW m \in DOMAIN T
        PROVE  /\ T[m] = [gen |-> T[m].gen, parent |-> T[m].parent, size |-> T[m].size, lazy |-> T[m].lazy]
               /\ T[m].gen = (IF m \in F THEN 0 ELSE s.tree[m].gen) /\ T[m].size \in Nat
               /\ T[m].parent = IF m \in F \cup X THEN n ELSE s.tree[m].parent
    <3>1. CASE m \in F
      <4>1. T[m] = Leaf(n)
        BY <3>1
      <4>2. T[m] = [gen |-> 0, parent |-> n, size |-> 0, lazy |-> FALSE]
        BY <4>1, Zenon DEF Leaf
      <4> HIDE DEF T
      <4> QED BY <3>1, <4>2
    <3>2. CASE m \notin F
      <4>1. m \in DOMAIN s.tree
        BY <3>2
      <4>8. s.tree[m] = [gen |-> s.tree[m].gen, parent |-> s.tree[m].parent,
                         size |-> s.tree[m].size, lazy |-> s.tree[m].lazy]
        BY <1>2, <4>1 DEF TreeShape
      <4>2. PICK g, p, y, l : s.tree[m] = [gen |-> g, parent |-> p, size |-> y, lazy |-> l]
        BY <4>8, Zenon
      <4>3. s.tree[m].gen = g /\ s.tree[m].parent = p /\ y \in Nat
        BY <1>2, <4>1, <4>2 DEF TreeShape
      <4>4. T[m] = IF m \in X THEN [s.tree[m] EXCEPT !.parent = n]
                   ELSE IF m = n THEN [s.tree[n] EXCEPT !.lazy = z]
                   ELSE s.tree[m]
        BY <3>2
      <4> HIDE DEF T
      <4>5. CASE m \in X
        <5>1. T[m] = [gen |-> g, parent |-> n, size |-> y, lazy |-> l]
          BY <4>2, <4>4, <4>5
        <5> QED BY <3>2, <4>3, <4>5, <5>1
      <4>6. CASE m \notin X /\ m = n
        <5>1. PICK w : w = z
          BY Zenon
        <5>2. T[m] = [s.tree[m] EXCEPT !.lazy = w]
          BY <4>4, <4>6, <5>1, Zenon
        <5>3. T[m] = [gen |-> g, parent |-> p, size |-> y, lazy |-> w]
          BY <4>2, <5>2
        <5> QED BY <3>2, <4>3, <4>6, <5>3
      <4>7. CASE m \notin X /\ m # n
        <5>1. T[m] = [gen |-> g, parent |-> p, size |-> y, lazy |-> l]
          BY <4>2, <4>4, <4>7
        <5> QED BY <3>2, <4>3, <4>7, <5>1
      <4> QED BY <4>5, <4>6, <4>7
    <3> QED BY <3>1, <3>2
  <2> QED BY <2>1, <2>2
<1>11. Bytes[n.dir] + a \in Nat
  <2>1. IsFiniteSet(X) /\ \A m \in X : s.tree[m].size \in Nat
    <3>1. IsFiniteSet(DOMAIN s.tree) /\ \A m \in DOMAIN s.tree : s.tree[m].size \in Nat
      BY <1>2 DEF TreeShape
    <3>2. IsFiniteSet(X)
      BY <1>5, <3>1, FS_Subset
    <3> QED BY <1>5, <3>1, <3>2
  <2>2. a \in Nat
    <3>1. a = TotalOf(s.tree, X)
      BY Zenon DEF TotalOf
    <3> HIDE DEF a
    <3> QED BY <2>1, <3>1, SizesSum
  <2>3. Bytes[n.dir] \in Nat
    BY <1>3, ExplorerAssumption
  <2> HIDE DEF a
  <2> QED BY <2>2, <2>3
<1>12. Joined(R, s.tree, n, F, X)
  <2>1. PICK k \in Nat : k = Bytes[n.dir] + a
    BY <1>11, Zenon
  <2>2. PICK N : N = Line(T, n)
    BY Zenon
  <2>3. R = Grow(T, N, k)
    BY <2>1, <2>2, Zenon
  <2> HIDE DEF R, T
  <2>4. /\ DOMAIN R = DOMAIN T
        /\ \A m \in DOMAIN T :
              /\ R[m] = [gen |-> R[m].gen, parent |-> R[m].parent, size |-> R[m].size, lazy |-> R[m].lazy]
              /\ R[m].gen = T[m].gen /\ R[m].parent = T[m].parent /\ R[m].lazy = T[m].lazy
              /\ R[m].size \in Nat
    <3>1. \A m \in DOMAIN T :
            /\ T[m] = [gen |-> T[m].gen, parent |-> T[m].parent, size |-> T[m].size, lazy |-> T[m].lazy]
            /\ T[m].size \in Nat
      BY <1>10
    <3> QED BY <2>3, <3>1, GrowTree
  <2> QED BY <1>10, <2>4 DEF Joined
<1>13. NextNumbers(L, s.made, E)
  <2>1. s.made \in [Dir -> Nat]
    BY <1>2 DEF TreeShape
  <2> QED BY <1>9, <2>1 DEF NextNumbers
<1>14. Replaced(Q, s.scans, t, F)
  <2>1. \A m \in F : T[m].gen = 0
    BY <1>10
  <2> HIDE DEF T
  <2>2. \A m \in F : ScanOf(T, m, FALSE) = [node |-> m, gen |-> 0, origin |-> FALSE]
    BY <2>1, Zenon DEF ScanOf
  <2> QED BY <2>2, Zenon DEF Replaced
<1> HIDE DEF T, R, L, Q, a
<1>15. TreeShape(R, L)
  <2>1. E \in SUBSET Subdirs[n.dir] /\ X \in SUBSET DOMAIN s.tree /\ \A m \in X : m.dir \in Subdirs[n.dir]
    BY <1>4, <1>5
  <2> QED BY <1>2, <1>3, <1>7, <1>12, <1>13, <2>1, JoinedTree
<1>16. ScanShape(R, Q, L)
  <2>1. E \in SUBSET Subdirs[n.dir] /\ X \in SUBSET DOMAIN s.tree
    BY <1>4, <1>5
  <2>2. n = t.node
    BY DEF n
  <2> QED BY <1>2, <1>7, <1>12, <1>13, <1>14, <2>1, <2>2, JoinedScans
<1>17. \A m \in DOMAIN s.tree : m \in DOMAIN R /\ R[m].gen = s.tree[m].gen
  BY <1>8, <1>12 DEF Joined
<1>18. CacheInv(s.cache, R, A, G)
  BY <1>2, <1>17, OtherTree
<1>19. /\ r.tree = R /\ r.scans = Q /\ r.made = L /\ r.cache = s.cache
       /\ r.heavy = s.heavy /\ r.ui = s.ui /\ IsState(r)
  <2>1. PICK b, c, d, e, h, u : s = [tree |-> b, scans |-> c, made |-> d, cache |-> e,
                                    heavy |-> h, ui |-> u]
    BY DEF World, IsState
  <2>3. PICK x, y, z1 : x = R /\ y = L /\ z1 = Q
    BY Zenon
  <2>4. r = [s EXCEPT !.tree = x, !.made = y, !.scans = z1]
    BY <2>3, Zenon DEF r
  <2>2. r = [tree |-> x, scans |-> z1, made |-> y, cache |-> e, heavy |-> h, ui |-> u]
    BY <2>1, <2>4
  <2> QED BY <2>1, <2>2, <2>3 DEF IsState
<1>20. World(r, A, G)
  BY <1>15, <1>16, <1>18, <1>19 DEF World
<1>21. Keeps(s, r)
  BY <1>19 DEF Keeps
<1> QED BY <1>1, <1>17, <1>19, <1>20, <1>21

-----------------------------------------------------------------------------
(* The rows. *)

(* RowBefore orders the rows of S, any two of them. *)
Ordered(S) ==
  /\ \A r \in S : ~RowBefore(r, r)
  /\ \A r, o \in S : r # o => RowBefore(r, o) \/ RowBefore(o, r)
  /\ \A p, r, o \in S : RowBefore(p, r) /\ RowBefore(r, o) => RowBefore(p, o)

RowsBefore(S, r) == {o \in S : RowBefore(o, r)}

LEMMA RowRank ==
  ASSUME NEW S, IsFiniteSet(S), Ordered(S), NEW r \in S
  PROVE  /\ Cardinality(RowsBefore(S, r)) \in 0 .. Cardinality(S) - 1
         /\ \A o \in S : RowBefore(o, r) =>
              Cardinality(RowsBefore(S, o)) < Cardinality(RowsBefore(S, r))
<1>1. \A A, B : IsFiniteSet(B) /\ A \subseteq B /\ A # B =>
        /\ Cardinality(A) \in Nat /\ Cardinality(B) \in Nat /\ Cardinality(A) < Cardinality(B)
  <2> TAKE A, B
  <2> HAVE IsFiniteSet(B) /\ A \subseteq B /\ A # B
  <2>1. IsFiniteSet(A) /\ Cardinality(A) <= Cardinality(B) /\ Cardinality(A) # Cardinality(B)
    BY FS_Subset
  <2>2. Cardinality(A) \in Nat /\ Cardinality(B) \in Nat
    BY <2>1, FS_CardinalityType
  <2> QED BY <2>1, <2>2
<1>2. \A o \in S : IsFiniteSet(RowsBefore(S, o)) /\ RowsBefore(S, o) \subseteq S
                   /\ o \notin RowsBefore(S, o)
  <2> TAKE o \in S
  <2>1. RowsBefore(S, o) \subseteq S /\ o \notin RowsBefore(S, o)
    BY DEF RowsBefore, Ordered
  <2> QED BY <2>1, FS_Subset
<1>3. Cardinality(RowsBefore(S, r)) \in 0 .. Cardinality(S) - 1
  <2>1. RowsBefore(S, r) \subseteq S /\ RowsBefore(S, r) # S
    BY <1>2
  <2>2. Cardinality(RowsBefore(S, r)) \in Nat /\ Cardinality(S) \in Nat
        /\ Cardinality(RowsBefore(S, r)) < Cardinality(S)
    BY <1>1, <2>1
  <2> QED BY <2>2
<1>4. ASSUME NEW o \in S, RowBefore(o, r)
      PROVE  Cardinality(RowsBefore(S, o)) < Cardinality(RowsBefore(S, r))
  <2>1. RowsBefore(S, o) \subseteq RowsBefore(S, r)
    BY <1>4 DEF RowsBefore, Ordered
  <2>2. o \in RowsBefore(S, r) /\ o \notin RowsBefore(S, o)
    BY <1>2, <1>4 DEF RowsBefore
  <2> QED BY <1>1, <1>2, <2>1, <2>2
<1> QED BY <1>3, <1>4

(* The rows in order are exactly the rows of the set, each once, and none  *)
(* comes before a row that is ahead of it.                                 *)
LEMMA InOrderRows ==
  ASSUME NEW S, IsFiniteSet(S), Ordered(S)
  PROVE  LET s == InOrder(S)
         IN  /\ s \in Seq(S) /\ Elements(s) = S /\ Len(s) = Cardinality(S)
             /\ \A i, j \in DOMAIN s : i < j <=> RowBefore(s[i], s[j])
<1> DEFINE n == Cardinality(S)
           R == 0 .. n - 1
           rank == [r \in S |-> Cardinality(RowsBefore(S, r))]
           at(i) == CHOOSE r \in S : Cardinality(RowsBefore(S, r)) = i - 1
           s == InOrder(S)
<1>1. n \in Nat
  BY FS_CardinalityType
<1>2. \A r \in S : rank[r] \in R /\ rank[r] = Cardinality(RowsBefore(S, r))
  BY RowRank
<1>3. \A r, o \in S : RowBefore(o, r) => rank[o] < rank[r]
  BY RowRank
<1> HIDE DEF rank
<1>4. \A r, o \in S : rank[r] = rank[o] => r = o
  <2> SUFFICES ASSUME NEW r \in S, NEW o \in S, rank[r] = rank[o], r # o PROVE FALSE
    OBVIOUS
  <2>1. rank[r] < rank[o] \/ rank[o] < rank[r]
    BY <1>3 DEF Ordered
  <2> QED BY <1>2, <2>1
<1>5. \A i \in 1 .. n : \E r \in S : rank[r] = i - 1
  <2>1. rank \in Injection(S, R)
    <3>1. rank \in [S -> R]
      BY <1>2 DEF rank
    <3> QED BY <1>4, <3>1, Fun_IsInj
  <2>2. IsFiniteSet(R) /\ Cardinality(R) = n
    <3>1. PICK k \in Nat : k = n
      BY <1>1
    <3>2. PICK j \in Int : j = k - 1
      OBVIOUS
    <3>3. IsFiniteSet(0 .. j) /\ Cardinality(0 .. j) = IF 0 > j THEN 0 ELSE j - 0 + 1
      BY FS_Interval
    <3>4. Cardinality(0 .. j) = k
      BY <3>2, <3>3
    <3> QED BY <3>1, <3>2, <3>3, <3>4
  <2>3. rank \in Surjection(S, R)
    BY <2>1, <2>2, FS_Injection
  <2>4. \A k \in R : \E r \in S : rank[r] = k
    <3> HIDE DEF R
    <3> QED BY <2>3, Fun_SurjectionProperties
  <2>5. \A i \in 1 .. n : i - 1 \in R
    BY <1>1
  <2> QED BY <2>4, <2>5
<1>6. \A i \in 1 .. n : at(i) \in S /\ rank[at(i)] = i - 1
  BY <1>2, <1>5
<1>7. s = [i \in 1 .. n |-> at(i)]
  BY DEF InOrder, RowsBefore
<1> HIDE DEF at, s, R
<1>8. s \in [1 .. n -> S]
  BY <1>6, <1>7
<1>9. s \in Seq(S) /\ Len(s) = n /\ DOMAIN s = 1 .. n
  <2>1. s \in Seq(S)
    BY <1>1, <1>8, SeqDef
  <2>2. Len(s) \in Nat /\ DOMAIN s = 1 .. Len(s) /\ DOMAIN s = 1 .. n
    BY <1>8, <2>1, LenProperties
  <2> HIDE DEF n
  <2>3. PICK k, l : k \in Nat /\ l \in Nat /\ k = n /\ l = Len(s)
    BY <1>1, <2>2, Zenon
  <2>4. 1 .. k = 1 .. l
    BY <2>2, <2>3, Zenon
  <2>5. k = l
    BY <2>3, <2>4
  <2> QED BY <2>1, <2>2, <2>3, <2>5
<1>10. Elements(s) = S
  <2>1. Elements(s) \subseteq S
    BY <1>8, <1>9 DEF Elements
  <2>2. ASSUME NEW r \in S PROVE r \in Elements(s)
    <3> DEFINE i == rank[r] + 1
    <3>1. i \in 1 .. n /\ i - 1 = rank[r]
      BY <1>1, <1>2 DEF R
    <3> HIDE DEF i
    <3>2. at(i) = r
      BY <1>4, <1>6, <3>1
    <3>3. s[i] = r
      BY <1>7, <3>1, <3>2
    <3> QED BY <1>9, <3>1, <3>3 DEF Elements
  <2> QED BY <2>1, <2>2
<1>11. ASSUME NEW i \in 1 .. n, NEW j \in 1 .. n PROVE i < j <=> RowBefore(s[i], s[j])
  <2>1. s[i] \in S /\ s[j] \in S /\ rank[s[i]] = i - 1 /\ rank[s[j]] = j - 1
    BY <1>6, <1>7
  <2>2. RowBefore(s[i], s[j]) => i < j
    <3>1. RowBefore(s[i], s[j]) => i - 1 < j - 1
      BY <1>3, <2>1
    <3> QED BY <1>1, <3>1
  <2>3. RowBefore(s[j], s[i]) => j < i
    <3>1. RowBefore(s[j], s[i]) => j - 1 < i - 1
      BY <1>3, <2>1
    <3> QED BY <1>1, <3>1
  <2>4. i < j => s[i] # s[j]
    <3>1. i < j => i - 1 # j - 1
      BY <1>1
    <3> QED BY <2>1, <3>1
  <2>5. i < j => ~(j < i)
    BY <1>1
  <2> QED BY <2>1, <2>2, <2>3, <2>4, <2>5 DEF Ordered
<1> QED BY <1>9, <1>10, <1>11 DEF s

LEMMA OrderedRows ==
  ASSUME NEW S, \A r \in S : r.size \in Nat /\ r.name \in Nat /\ r.dir \in BOOLEAN,
         \A r, o \in S : r # o /\ r.dir = o.dir => r.name # o.name
  PROVE  Ordered(S)
<1>1. \A r \in S : ~RowBefore(r, r)
  BY DEF RowBefore
<1>2. ASSUME NEW r \in S, NEW o \in S, r # o PROVE RowBefore(r, o) \/ RowBefore(o, r)
  <2>1. PICK x \in Nat, y \in Nat, a \in Nat, b \in Nat :
           r.size = x /\ o.size = y /\ r.name = a /\ o.name = b
    OBVIOUS
  <2>2. CASE x # y
    BY <2>1, <2>2 DEF RowBefore
  <2>3. CASE x = y /\ r.dir = o.dir
    <3>1. a # b
      BY <1>2, <2>1, <2>3
    <3>2. a < b \/ b < a
      BY <3>1
    <3> QED BY <2>1, <2>3, <3>2 DEF RowBefore
  <2>4. CASE x = y /\ r.dir # o.dir
    <3>1. (r.dir = TRUE /\ o.dir = FALSE) \/ (r.dir = FALSE /\ o.dir = TRUE)
      BY <2>4
    <3> QED BY <2>1, <2>4, <3>1 DEF RowBefore
  <2> QED BY <2>2, <2>3, <2>4
<1>3. ASSUME NEW p \in S, NEW r \in S, NEW o \in S, RowBefore(p, r), RowBefore(r, o)
      PROVE  RowBefore(p, o)
  BY <1>3 DEF RowBefore
<1> QED BY <1>1, <1>2, <1>3 DEF Ordered

ChildRows(T, n) == {DirRow(T, m) : m \in Children(T, n)}
FileRows(files) == {FileRow(f) : f \in files}

LEMMA RowsOrdered ==
  ASSUME NEW T, NEW M, TreeShape(T, M), NEW n \in DOMAIN T,
         NEW files \in SUBSET Elements(FilesIn[n.dir])
  PROVE  /\ IsFiniteSet(ChildRows(T, n) \cup FileRows(files))
         /\ Ordered(ChildRows(T, n) \cup FileRows(files))
<1> DEFINE C == Children(T, n)
<1>1. n.dir \in Dir /\ C \subseteq DOMAIN T /\ IsFiniteSet(DOMAIN T) /\ NoNode \notin DOMAIN T
  BY Directories, ExplorerAssumption DEF TreeShape, Children, Node
<1>2. \A m \in C : m.dir \in Subdirs[n.dir] /\ T[m].size \in Nat /\ m.dir \in Dir
  BY <1>1, Directories DEF TreeShape, Children
<1>3. \A m, k \in C : m # k => NameRank[m.dir] # NameRank[k.dir]
  <2> TAKE m, k \in C
  <2> HAVE m # k
  <2>1. m.dir # k.dir
    BY <1>1 DEF TreeShape
  <2> QED BY <1>1, <1>2, <2>1, ExplorerAssumption
<1>4. \A f \in files : f.size \in Nat /\ NameRank[f.name] \in Nat
  BY <1>1, ExplorerAssumption
<1>5. \A f, g \in files : f # g => NameRank[f.name] # NameRank[g.name]
  BY <1>1, ExplorerAssumption
<1>6. ASSUME NEW m \in C
      PROVE  /\ DirRow(T, m).size \in Nat /\ DirRow(T, m).name \in Nat /\ DirRow(T, m).dir = TRUE
             /\ DirRow(T, m).name = NameRank[m.dir]
  <2>1. NameRank[m.dir] \in Nat
    BY <1>2, ExplorerAssumption
  <2>2. T[m].size \in Nat
    BY <1>2
  <2> HIDE DEF C
  <2> QED BY <2>1, <2>2 DEF DirRow
<1>7. ASSUME NEW f \in files
      PROVE  /\ FileRow(f).size \in Nat /\ FileRow(f).name \in Nat /\ FileRow(f).dir = FALSE
             /\ FileRow(f).name = NameRank[f.name]
  BY <1>4, <1>7 DEF FileRow
<1> DEFINE S == ChildRows(T, n) \cup FileRows(files)
<1>8. \A r \in S : (\E m \in C : r = DirRow(T, m)) \/ (\E f \in files : r = FileRow(f))
  BY DEF ChildRows, FileRows
<1>9. \A r \in S : r.size \in Nat /\ r.name \in Nat /\ r.dir \in BOOLEAN
  <2> TAKE r \in S
  <2>1. CASE \E m \in C : r = DirRow(T, m)
    BY <1>6, <2>1
  <2>2. CASE \E f \in files : r = FileRow(f)
    BY <1>7, <2>2
  <2> QED BY <1>8, <2>1, <2>2
<1>10. \A r, o \in S : r # o /\ r.dir = o.dir => r.name # o.name
  <2> TAKE r, o \in S
  <2> HAVE r # o /\ r.dir = o.dir
  <2>1. CASE \E m \in C : r = DirRow(T, m)
    <3>1. PICK m \in C : r = DirRow(T, m)
      BY <2>1
    <3>2. r.dir = TRUE
      BY <1>6, <3>1
    <3>3. PICK k \in C : o = DirRow(T, k)
      BY <1>7, <1>8, <3>2
    <3>4. r.name = NameRank[m.dir] /\ o.name = NameRank[k.dir]
      BY <1>6, <3>1, <3>3
    <3>5. m # k
      BY <3>1, <3>3
    <3> QED BY <1>3, <3>4, <3>5
  <2>2. CASE \E f \in files : r = FileRow(f)
    <3>1. PICK f \in files : r = FileRow(f)
      BY <2>2
    <3>2. r.dir = FALSE
      BY <1>7, <3>1
    <3>3. PICK g \in files : o = FileRow(g)
      BY <1>6, <1>8, <3>2
    <3> QED BY <1>5, <1>7, <3>1, <3>3
  <2> QED BY <1>8, <2>1, <2>2
<1>11. Ordered(S)
  <2> HIDE DEF S
  <2> QED BY <1>9, <1>10, OrderedRows
<1>12. IsFiniteSet(ChildRows(T, n))
  <2> DEFINE f == [m \in C |-> DirRow(T, m)]
  <2>1. IsFiniteSet(C)
    BY <1>1, FS_Subset
  <2>2. f \in [C -> ChildRows(T, n)] /\ \A r \in ChildRows(T, n) : \E m \in C : f[m] = r
    BY DEF ChildRows
  <2>3. f \in Surjection(C, ChildRows(T, n))
    BY <2>2, Zenon DEF Surjection
  <2> QED BY <2>1, <2>3, FS_Surjection
<1>13. IsFiniteSet(files)
  <2> DEFINE s == FilesIn[n.dir]
             f == [i \in DOMAIN s |-> s[i]]
  <2>1. s \in Seq(Elements(s))
    BY <1>1, ExplorerAssumption
  <2>2. DOMAIN s = 1 .. Len(s) /\ Len(s) \in Nat
    BY <2>1, LenProperties
  <2>3. IsFiniteSet(DOMAIN s)
    BY <2>2, FS_Interval
  <2>4. f \in [DOMAIN s -> Elements(s)] /\ \A x \in Elements(s) : \E i \in DOMAIN s : f[i] = x
    BY DEF Elements
  <2>5. f \in Surjection(DOMAIN s, Elements(s))
    BY <2>4, Zenon DEF Surjection
  <2>6. IsFiniteSet(Elements(s))
    BY <2>3, <2>5, FS_Surjection
  <2> QED BY <2>6, FS_Subset
<1>14. IsFiniteSet(FileRows(files))
  <2> DEFINE f == [x \in files |-> FileRow(x)]
  <2>2. f \in [files -> FileRows(files)] /\ \A r \in FileRows(files) : \E x \in files : f[x] = r
    BY DEF FileRows
  <2>3. f \in Surjection(files, FileRows(files))
    BY <2>2, Zenon DEF Surjection
  <2> QED BY <1>13, <2>3, FS_Surjection
<1> QED BY <1>11, <1>12, <1>14, FS_Union

(* The part of the state that the keys and the rows change. *)
IsUi(u) ==
  /\ u = [current |-> u.current, rows |-> u.rows, selected |-> u.selected, key |-> u.key,
          showFiles |-> u.showFiles, screen |-> u.screen, query |-> u.query, found |-> u.found]
  /\ u.current \in Node \cup {NoNode} /\ u.selected \in Nat \ {0}

(* What is shown: files of the directory on screen, and the cursor is on   *)
(* the item it remembers.                                                  *)
UiShape(u) ==
  /\ IsUi(u) /\ u.rows \in Seq(Elements(u.rows))
  /\ \A r \in Elements(u.rows) : ~r.dir =>
       u.current \in Node /\ r.key \in Elements(FilesIn[u.current.dir])
  /\ u.rows # <<>> => u.selected \in DOMAIN u.rows /\ u.key = u.rows[u.selected].key

(* Apart from the rows and the cursor v is u, or no directory is shown. *)
SameScreen(v, u) ==
  /\ v.showFiles = u.showFiles /\ v.screen = u.screen /\ v.query = u.query /\ v.found = u.found
  /\ v.current \in {u.current, NoNode}

LEMMA ResyncShape ==
  ASSUME NEW u, IsUi(u), u.rows \in Seq(Elements(u.rows)),
         \A r \in Elements(u.rows) : ~r.dir =>
           u.current \in Node /\ r.key \in Elements(FilesIn[u.current.dir])
  PROVE  UiShape(ResyncSelection(u)) /\ SameScreen(ResyncSelection(u), u)
         /\ ResyncSelection(u).current = u.current
<1> DEFINE at == {i \in DOMAIN u.rows : u.rows[i].key = u.key}
           i == IF u.selected < Len(u.rows) THEN u.selected ELSE Len(u.rows)
<1>1. PICK a, b, c, d, e, f, g, h : u = [current |-> a, rows |-> b, selected |-> c, key |-> d,
                                         showFiles |-> e, screen |-> f, query |-> g, found |-> h]
  BY Zenon DEF IsUi
<1>2. /\ u.current = a /\ u.rows = b /\ u.selected = c /\ u.key = d
      /\ u.showFiles = e /\ u.screen = f /\ u.query = g /\ u.found = h
  BY <1>1
<1>3. c \in Nat \ {0} /\ a \in Node \cup {NoNode}
  BY <1>2 DEF IsUi
<1>4. DOMAIN b = 1 .. Len(b) /\ Len(b) \in Nat
  BY <1>2, LenProperties
<1> DEFINE Made(v, k, x) == v = [current |-> a, rows |-> b, selected |-> k, key |-> x,
                                 showFiles |-> e, screen |-> f, query |-> g, found |-> h]
<1>5. ASSUME NEW v, NEW k, NEW x, Made(v, k, x), k \in Nat \ {0},
             b # <<>> => k \in DOMAIN b /\ x = b[k].key
      PROVE  UiShape(v) /\ SameScreen(v, u) /\ v.current = u.current
  <2>1. /\ v.current = a /\ v.rows = b /\ v.selected = k /\ v.key = x
        /\ v.showFiles = e /\ v.screen = f /\ v.query = g /\ v.found = h
    BY <1>5
  <2>2. IsUi(v)
    BY <1>3, <1>5, <2>1 DEF IsUi
  <2>3. UiShape(v)
    BY <1>2, <1>5, <2>1, <2>2 DEF UiShape
  <2> QED BY <1>2, <2>1, <2>3 DEF SameScreen
<1>6. CASE at # {}
  <2>1. PICK k : k = CHOOSE y \in at : TRUE
    BY Zenon
  <2>2. k \in at
    BY <1>6, <2>1, Zenon
  <2>3. PICK v : v = [u EXCEPT !.selected = k]
    BY Zenon
  <2>4. ResyncSelection(u) = v
    BY <1>6, <2>1, <2>3, Zenon DEF ResyncSelection
  <2>5. Made(v, k, d)
    BY <1>1, <2>3
  <2>6. k \in DOMAIN b /\ b[k].key = d
    BY <1>2, <2>2
  <2>7. k \in Nat \ {0}
    BY <1>4, <2>6
  <2> HIDE DEF Made
  <2> QED BY <1>5, <2>4, <2>5, <2>6, <2>7
<1>7. CASE at = {} /\ u.rows = <<>>
  <2>1. PICK v : v = [u EXCEPT !.selected = 1]
    BY Zenon
  <2>2. ResyncSelection(u) = v
    BY <1>7, <2>1, Zenon DEF ResyncSelection
  <2>3. Made(v, 1, d)
    BY <1>1, <2>1
  <2> HIDE DEF Made
  <2> QED BY <1>2, <1>5, <1>7, <2>2, <2>3
<1>8. CASE at = {} /\ u.rows # <<>>
  <2>1. PICK k : k = i
    BY Zenon
  <2>2. PICK x : x = u.rows[k].key
    BY Zenon
  <2>3. PICK v : v = [u EXCEPT !.selected = k, !.key = x]
    BY Zenon
  <2>4. ResyncSelection(u) = v
    BY <1>8, <2>1, <2>2, <2>3, Zenon DEF ResyncSelection
  <2>5. Made(v, k, x)
    BY <1>1, <2>3
  <2>6. Len(b) # 0
    BY <1>2, <1>8, EmptySeq
  <2>7. k \in 1 .. Len(b)
    <3>1. PICK m \in Nat : m = Len(b)
      BY <1>4
    <3>2. k = IF c < m THEN c ELSE m
      BY <1>2, <2>1, <3>1
    <3> QED BY <1>3, <2>6, <3>1, <3>2
  <2>8. k \in Nat \ {0} /\ k \in DOMAIN b /\ x = b[k].key
    BY <1>2, <1>4, <2>2, <2>7
  <2> HIDE DEF Made
  <2> QED BY <1>5, <2>4, <2>5, <2>8
<1> QED BY <1>6, <1>7, <1>8

LEMMA OwnElements ==
  ASSUME NEW S, NEW s \in Seq(S)
  PROVE  s \in Seq(Elements(s)) /\ Elements(s) \subseteq S
<1>1. DOMAIN s = 1 .. Len(s) /\ Len(s) \in Nat /\ s \in [1 .. Len(s) -> S]
  BY LenProperties
<1>2. s \in [1 .. Len(s) -> Elements(s)]
  BY <1>1 DEF Elements
<1>3. s \in Seq(Elements(s))
  BY <1>1, <1>2, SeqDef
<1>4. Elements(s) \subseteq S
  BY <1>1 DEF Elements
<1> QED BY <1>3, <1>4

(* Every row stands for a child or a file of the directory on screen. *)
LEMMA RowsAre ==
  ASSUME NEW s, NEW A, NEW G, World(s, A, G), s.ui.current \in DOMAIN s.tree
  PROVE  /\ RowsOf(s) \in Seq(Elements(RowsOf(s)))
         /\ \A r \in Elements(RowsOf(s)) : ~r.dir =>
              s.ui.current \in Node /\ r.key \in Elements(FilesIn[s.ui.current.dir])
<1> DEFINE n == s.ui.current
           listing == IF n \in DOMAIN s.cache.entries THEN s.cache.entries[n].listing ELSE NoListing
           files == IF s.ui.showFiles /\ listing # NoListing THEN Elements(listing) ELSE {}
           S == ChildRows(s.tree, n) \cup FileRows(files)
           all == InOrder(S)
           k == IF Len(all) < RowLimit THEN Len(all) ELSE RowLimit
<1>1. RowsOf(s) = SubSeq(all, 1, k)
  BY Zenon DEF RowsOf, ChildRows, FileRows
<1>2. files \subseteq Elements(FilesIn[n.dir])
  <2>1. CASE n \in DOMAIN s.cache.entries /\ listing # NoListing
    <3>1. listing = s.cache.entries[n].listing
      BY <2>1
    <3>2. Elements(listing) \subseteq Elements(FilesIn[n.dir])
      BY <2>1, <3>1 DEF World, CacheInv, Clean
    <3> HIDE DEF listing
    <3> QED BY <3>2
  <2>2. CASE n \notin DOMAIN s.cache.entries
    BY <2>2
  <2>3. CASE listing = NoListing
    <3> HIDE DEF listing
    <3> QED BY <2>3
  <2> QED BY <2>1, <2>2, <2>3
<1> HIDE DEF files
<1>3. TreeShape(s.tree, s.made) /\ n \in DOMAIN s.tree /\ n \in Node
  BY DEF World, TreeShape
<1>4. IsFiniteSet(S) /\ Ordered(S)
  BY <1>2, <1>3, RowsOrdered
<1>5. all \in Seq(S)
  <2> HIDE DEF S
  <2> QED BY <1>4, InOrderRows
<1> HIDE DEF all, S
<1>6. PICK m \in Nat : m = Len(all)
  BY <1>5, LenProperties
<1>7. k \in Nat /\ k <= m
  BY <1>6, ExplorerAssumption
<1> HIDE DEF k
<1>8. SubSeq(all, 1, k) \in Seq(S)
  <2>1. 1 \in 1 .. m + 1 /\ k \in 1 - 1 .. m
    BY <1>6, <1>7
  <2> QED BY <1>5, <1>6, <2>1, SubSeqProperties
<1>9. PICK q : q = SubSeq(all, 1, k)
  BY Zenon
<1>10. q \in Seq(Elements(q)) /\ Elements(q) \subseteq S
  BY <1>8, <1>9, OwnElements
<1>11. ASSUME NEW r \in S, ~r.dir PROVE r.key \in Elements(FilesIn[n.dir])
  <2>1. CASE r \in ChildRows(s.tree, n)
    <3>1. PICK x : r = DirRow(s.tree, x)
      BY <2>1 DEF ChildRows
    <3>2. r.dir = TRUE
      BY <3>1 DEF DirRow
    <3> QED BY <1>11, <3>2
  <2>2. CASE r \in FileRows(files)
    <3>1. PICK x \in files : r = FileRow(x)
      BY <2>2 DEF FileRows
    <3>2. r.key = x
      BY <3>1 DEF FileRow
    <3> QED BY <1>2, <3>1, <3>2
  <2> QED BY <2>1, <2>2 DEF S
<1> QED BY <1>1, <1>3, <1>9, <1>10, <1>11

(* The state with another ui. *)
WithUi(r, s, u) ==
  /\ IsState(r) /\ r.tree = s.tree /\ r.scans = s.scans /\ r.made = s.made
  /\ r.cache = s.cache /\ r.heavy = s.heavy /\ r.ui = u

LEMMA UiChanges ==
  ASSUME NEW s, IsState(s), NEW u, NEW r, r = [s EXCEPT !.ui = u]
  PROVE  /\ WithUi(r, s, u)
         /\ \A A, G : World(s, A, G) => World(r, A, G)
<1>1. PICK a, b, c, d, e, f : s = [tree |-> a, scans |-> b, made |-> c, cache |-> d,
                                   heavy |-> e, ui |-> f]
  BY Zenon DEF IsState
<1>2. r = [tree |-> a, scans |-> b, made |-> c, cache |-> d, heavy |-> e, ui |-> u]
  BY <1>1
<1>3. WithUi(r, s, u)
  BY <1>1, <1>2 DEF WithUi, IsState
<1> QED BY <1>3 DEF WithUi, World

LEMMA RebuildShape ==
  ASSUME NEW s, NEW A, NEW G, World(s, A, G), IsUi(s.ui)
  PROVE  LET r == Rebuild(s)
         IN  WithUi(r, s, r.ui) /\ UiShape(r.ui) /\ SameScreen(r.ui, s.ui) /\ World(r, A, G)
<1>1. PICK a, b, c, d, e, f, g, h : s.ui = [current |-> a, rows |-> b, selected |-> c, key |-> d,
                                         showFiles |-> e, screen |-> f, query |-> g, found |-> h]
  BY Zenon DEF IsUi
<1>2. /\ s.ui.current = a /\ s.ui.rows = b /\ s.ui.selected = c /\ s.ui.key = d
      /\ s.ui.showFiles = e /\ s.ui.screen = f /\ s.ui.query = g /\ s.ui.found = h
  BY <1>1
<1>3. c \in Nat \ {0} /\ a \in Node \cup {NoNode} /\ IsState(s)
  BY <1>2 DEF IsUi, World
<1>4. <<>> \in Seq({}) /\ Elements(<<>>) = {}
  BY DEF Elements
<1>5. ASSUME NEW u, NEW n \in {a, NoNode},
             u = [current |-> n, rows |-> <<>>, selected |-> c, key |-> d,
                  showFiles |-> e, screen |-> f, query |-> g, found |-> h]
      PROVE  UiShape(u) /\ SameScreen(u, s.ui)
  <2>1. /\ u.current = n /\ u.rows = <<>> /\ u.selected = c /\ u.key = d
        /\ u.showFiles = e /\ u.screen = f /\ u.query = g /\ u.found = h
    BY <1>5
  <2>2. IsUi(u)
    BY <1>3, <1>5, <2>1 DEF IsUi
  <2> QED BY <1>2, <1>4, <2>1, <2>2 DEF UiShape, SameScreen
<1>6. ASSUME NEW u, NEW r, r = [s EXCEPT !.ui = u], Rebuild(s) = r, UiShape(u), SameScreen(u, s.ui)
      PROVE  WithUi(r, s, r.ui) /\ UiShape(r.ui) /\ SameScreen(r.ui, s.ui) /\ World(r, A, G)
  <2>1. WithUi(r, s, u) /\ World(r, A, G)
    BY <1>3, <1>6, UiChanges
  <2> QED BY <1>6, <2>1 DEF WithUi
<1>7. CASE s.ui.current = NoNode
  <2>1. PICK u : u = [s.ui EXCEPT !.rows = <<>>]
    BY Zenon
  <2>2. PICK r : r = [s EXCEPT !.ui = u]
    BY Zenon
  <2>3. Rebuild(s) = r
    <3>1. r = [s EXCEPT !.ui.rows = <<>>]
      BY <2>1, <2>2, Zenon
    <3> QED BY <1>7, <3>1 DEF Rebuild
  <2>4. u = [current |-> a, rows |-> <<>>, selected |-> c, key |-> d,
             showFiles |-> e, screen |-> f, query |-> g, found |-> h]
    BY <1>1, <2>1
  <2>5. UiShape(u) /\ SameScreen(u, s.ui)
    BY <1>5, <2>4
  <2>6. WithUi(r, s, r.ui) /\ UiShape(r.ui) /\ SameScreen(r.ui, s.ui) /\ World(r, A, G)
    BY <1>6, <2>2, <2>3, <2>5
  <2> QED BY <2>3, <2>6
<1>8. CASE s.ui.current # NoNode /\ s.ui.current \notin DOMAIN s.tree
  <2>1. PICK u : u = [s.ui EXCEPT !.rows = <<>>, !.current = NoNode]
    BY Zenon
  <2>2. PICK r : r = [s EXCEPT !.ui = u]
    BY Zenon
  <2>3. Rebuild(s) = r
    <3>1. PICK v : v = [s EXCEPT !.ui.rows = <<>>, !.ui.current = NoNode]
      BY Zenon
    <3>2. Rebuild(s) = v
      BY <1>8, <3>1 DEF Rebuild
    <3>3. v = r
      <4>1. PICK i, j, k, l, m, o : s = [tree |-> i, scans |-> j, made |-> k, cache |-> l,
                                   heavy |-> m, ui |-> o]
        BY <1>3, Zenon DEF IsState
      <4>2. r = [tree |-> i, scans |-> j, made |-> k, cache |-> l, heavy |-> m, ui |-> u]
        BY <2>2, <4>1
      <4>3. PICK w : w = [s EXCEPT !.ui.rows = <<>>]
        BY Zenon
      <4>4. w = [tree |-> i, scans |-> j, made |-> k, cache |-> l, heavy |-> m,
                 ui |-> [o EXCEPT !.rows = <<>>]]
        BY <4>1, <4>3
      <4>5. v = [w EXCEPT !.ui.current = NoNode]
        BY <3>1, <4>3
      <4>6. v = [tree |-> i, scans |-> j, made |-> k, cache |-> l, heavy |-> m,
                 ui |-> [[o EXCEPT !.rows = <<>>] EXCEPT !.current = NoNode]]
        BY <4>4, <4>5
      <4>7. u = [[o EXCEPT !.rows = <<>>] EXCEPT !.current = NoNode]
        BY <2>1, <4>1
      <4> QED BY <4>2, <4>6, <4>7
    <3> QED BY <3>2, <3>3
  <2>4. u = [current |-> NoNode, rows |-> <<>>, selected |-> c, key |-> d,
             showFiles |-> e, screen |-> f, query |-> g, found |-> h]
    <3>1. PICK w : w = [s.ui EXCEPT !.rows = <<>>]
      BY Zenon
    <3>2. w = [current |-> a, rows |-> <<>>, selected |-> c, key |-> d,
               showFiles |-> e, screen |-> f, query |-> g, found |-> h]
      BY <1>1, <3>1
    <3>3. u = [w EXCEPT !.current = NoNode]
      BY <2>1, <3>1
    <3> QED BY <3>2, <3>3
  <2>5. UiShape(u) /\ SameScreen(u, s.ui)
    BY <1>5, <2>4
  <2>6. WithUi(r, s, r.ui) /\ UiShape(r.ui) /\ SameScreen(r.ui, s.ui) /\ World(r, A, G)
    BY <1>6, <2>2, <2>3, <2>5
  <2> QED BY <2>3, <2>6
<1>9. CASE s.ui.current # NoNode /\ s.ui.current \in DOMAIN s.tree
  <2>1. PICK q : q = RowsOf(s)
    BY Zenon
  <2>2. PICK w : w = [s.ui EXCEPT !.rows = q]
    BY Zenon
  <2>3. PICK u : u = ResyncSelection(w)
    BY Zenon
  <2>4. PICK r : r = [s EXCEPT !.ui = u]
    BY Zenon
  <2>5. Rebuild(s) = r
    BY <1>9, <2>1, <2>2, <2>3, <2>4 DEF Rebuild
  <2>6. w = [current |-> a, rows |-> q, selected |-> c, key |-> d,
             showFiles |-> e, screen |-> f, query |-> g, found |-> h]
    BY <1>1, <2>2
  <2>7. /\ w.current = a /\ w.rows = q /\ w.selected = c /\ w.key = d
        /\ w.showFiles = e /\ w.screen = f /\ w.query = g /\ w.found = h
    BY <2>6
  <2>8. IsUi(w)
    BY <1>3, <2>6, <2>7 DEF IsUi
  <2>9. w.rows \in Seq(Elements(w.rows))
        /\ \A x \in Elements(w.rows) : ~x.dir =>
             w.current \in Node /\ x.key \in Elements(FilesIn[w.current.dir])
    BY <1>2, <1>9, <2>1, <2>7, RowsAre
  <2>10. UiShape(u) /\ SameScreen(u, w)
    BY <2>3, <2>8, <2>9, ResyncShape
  <2>11. SameScreen(u, s.ui)
    BY <1>2, <2>7, <2>10 DEF SameScreen
  <2>12. WithUi(r, s, r.ui) /\ UiShape(r.ui) /\ SameScreen(r.ui, s.ui) /\ World(r, A, G)
    BY <1>6, <2>4, <2>5, <2>10, <2>11
  <2> QED BY <2>5, <2>12
<1> QED BY <1>7, <1>8, <1>9

LEMMA ExpandedWorld ==
  ASSUME NEW s, NEW A, NEW G, World(s, A, G), NEW n \in DOMAIN s.tree
  PROVE  LET r == EnsureExpanded(s, n)
         IN  World(r, A, G) /\ Keeps(s, r) /\ n \in DOMAIN r.tree
<1>1. EnsureExpanded(s, n) = s \/ EnsureExpanded(s, n) = Rescan(s, n)
  BY DEF EnsureExpanded
<1>2. Keeps(s, s)
  BY DEF Keeps
<1> QED BY <1>1, <1>2, RescanWorld

LEMMA FocusWorld ==
  ASSUME NEW s, NEW A, NEW G, World(s, A, G), NEW n \in DOMAIN s.tree
  PROVE  LET r == Focus(s, n)
         IN  World(r, A, G) /\ r.tree = s.tree /\ r.ui = s.ui /\ r.heavy = s.heavy
<1>1. PICK c : c = RequestFileListing(s.cache, s.tree, n, FALSE)
  BY Zenon
<1>2. PICK r : r = [s EXCEPT !.cache = c]
  BY Zenon
<1>3. Focus(s, n) = r
  BY <1>1, <1>2, Zenon DEF Focus
<1>4. PICK i, j, k, l, m, o : s = [tree |-> i, scans |-> j, made |-> k, cache |-> l,
                                   heavy |-> m, ui |-> o]
  BY Zenon DEF World, IsState
<1>5. r = [tree |-> i, scans |-> j, made |-> k, cache |-> c, heavy |-> m, ui |-> o]
  BY <1>2, <1>4
<1>6. /\ IsState(r) /\ r.tree = s.tree /\ r.scans = s.scans /\ r.made = s.made
      /\ r.cache = c /\ r.heavy = s.heavy /\ r.ui = s.ui
  BY <1>4, <1>5 DEF IsState
<1>7. n \in Node /\ s.tree[n].gen \in Nat /\ CacheInv(s.cache, s.tree, A, G)
  BY DEF World, TreeShape
<1>8. CacheInv(c, s.tree, A, G)
  BY <1>1, <1>7, RequestKeeps
<1>9. World(r, A, G)
  BY <1>6, <1>8 DEF World
<1> QED BY <1>3, <1>6, <1>9

SameSearch(r, s) ==
  r.heavy = s.heavy /\ r.ui.query = s.ui.query /\ r.ui.found = s.ui.found

(* Between two steps. *)
Settled(s, A, G) == World(s, A, G) /\ UiShape(s.ui)

(* Rows built anew. *)
LEMMA RebuildSettles ==
  ASSUME NEW s, NEW A, NEW G, World(s, A, G), IsUi(s.ui)
  PROVE  LET r == Rebuild(s)
         IN  Settled(r, A, G) /\ SameSearch(r, s) /\ r.tree = s.tree
             /\ r.cache = s.cache /\ r.ui.current \in {s.ui.current, NoNode}
<1>1. PICK r : r = Rebuild(s)
  BY Zenon
<1>2. WithUi(r, s, r.ui) /\ UiShape(r.ui) /\ SameScreen(r.ui, s.ui) /\ World(r, A, G)
  BY <1>1, RebuildShape
<1>3. r.tree = s.tree /\ r.cache = s.cache /\ r.heavy = s.heavy
      /\ r.ui.current \in {s.ui.current, NoNode}
      /\ r.ui.query = s.ui.query /\ r.ui.found = s.ui.found
  BY <1>2 DEF WithUi, SameScreen
<1>4. Settled(r, A, G)
  BY <1>2, <1>3 DEF Settled
<1> QED BY <1>1, <1>3, <1>4 DEF SameSearch

LEMMA EnterSettles ==
  ASSUME NEW s, NEW A, NEW G, World(s, A, G), IsUi(s.ui), NEW n \in DOMAIN s.tree
  PROVE  LET r == EnterDirectory(s, n)
         IN  Settled(r, A, G) /\ SameSearch(r, s)
<1>1. PICK a, b, c, d, e, f, g, h : s.ui = [current |-> a, rows |-> b, selected |-> c, key |-> d,
                                         showFiles |-> e, screen |-> f, query |-> g, found |-> h]
  BY Zenon DEF IsUi
<1>2. PICK u : u = [s.ui EXCEPT !.current = n, !.selected = 1, !.key = NoKey]
  BY Zenon
<1>3. u = [current |-> n, rows |-> b, selected |-> 1, key |-> NoKey,
           showFiles |-> e, screen |-> f, query |-> g, found |-> h]
  <2>1. PICK v : v = [s.ui EXCEPT !.current = n]
    BY Zenon
  <2>2. PICK w : w = [v EXCEPT !.selected = 1]
    BY Zenon
  <2>3. u = [w EXCEPT !.key = NoKey]
    BY <1>2, <2>1, <2>2
  <2>4. v = [current |-> n, rows |-> b, selected |-> c, key |-> d,
             showFiles |-> e, screen |-> f, query |-> g, found |-> h]
    BY <1>1, <2>1
  <2>5. w = [current |-> n, rows |-> b, selected |-> 1, key |-> d,
             showFiles |-> e, screen |-> f, query |-> g, found |-> h]
    BY <2>2, <2>4
  <2> QED BY <2>3, <2>5
<1>4. n \in Node /\ IsState(s)
  BY DEF World, TreeShape
<1>5. IsUi(u) /\ u.current = n /\ u.query = s.ui.query /\ u.found = s.ui.found
  BY <1>1, <1>3, <1>4 DEF IsUi
<1>6. PICK t : t = [s EXCEPT !.ui = u]
  BY Zenon
<1>7. WithUi(t, s, u) /\ World(t, A, G)
  BY <1>4, <1>6, UiChanges
<1>8. t.tree = s.tree /\ t.ui = u /\ t.heavy = s.heavy
  BY <1>7 DEF WithUi
<1>9. PICK x : x = EnsureExpanded(t, n)
  BY Zenon
<1>10. World(x, A, G) /\ Keeps(t, x) /\ n \in DOMAIN x.tree
  BY <1>7, <1>8, <1>9, ExpandedWorld
<1>11. x.ui = u /\ x.heavy = s.heavy
  BY <1>8, <1>10 DEF Keeps
<1>12. PICK y : y = Focus(x, n)
  BY Zenon
<1>13. World(y, A, G) /\ y.tree = x.tree /\ y.ui = u /\ y.heavy = s.heavy
  BY <1>10, <1>11, <1>12, FocusWorld
<1>14. EnterDirectory(s, n) = Rebuild(y)
  BY <1>2, <1>6, <1>9, <1>12, Zenon DEF EnterDirectory
<1>15. IsUi(y.ui)
  BY <1>5, <1>13
<1>16. PICK r : r = Rebuild(y)
  BY Zenon
<1>17. Settled(r, A, G) /\ SameSearch(r, y)
  BY <1>13, <1>15, <1>16, RebuildSettles
<1>18. SameSearch(r, s)
  BY <1>5, <1>13, <1>17 DEF SameSearch
<1> QED BY <1>14, <1>16, <1>17, <1>18

LEMMA OpenSettles ==
  ASSUME NEW s, NEW A, NEW G, World(s, A, G), IsUi(s.ui), NEW d \in Dir
  PROVE  LET r == OpenDirectory(s, d)
         IN  Settled(r, A, G) /\ SameSearch(r, s)
<1>1. PICK t : t = IF NodesAt(s.tree, d) # {} THEN s ELSE NewRoot(s, d)
  BY Zenon
<1>2. World(t, A, G) /\ t.ui = s.ui /\ t.heavy = s.heavy /\ NodesAt(t.tree, d) # {}
  <2>1. CASE NodesAt(s.tree, d) # {}
    BY <1>1, <2>1
  <2>2. CASE NodesAt(s.tree, d) = {}
    <3>1. t = NewRoot(s, d)
      BY <1>1, <2>2
    <3>2. World(t, A, G) /\ Keeps(s, t) /\ \E n \in DOMAIN t.tree : n.dir = d
      BY <2>2, <3>1, NewRootWorld
    <3> QED BY <3>2 DEF Keeps, NodesAt
  <2> QED BY <2>1, <2>2
<1>3. PICK n : n = Place(t.tree, d)
  BY Zenon
<1>4. n \in DOMAIN t.tree
  <2>1. n \in NodesAt(t.tree, d)
    BY <1>2, <1>3, Zenon DEF Place
  <2> QED BY <2>1 DEF NodesAt
<1>5. OpenDirectory(s, d) = EnterDirectory(t, n)
  BY <1>1, <1>3, Zenon DEF OpenDirectory
<1>6. PICK r : r = EnterDirectory(t, n)
  BY Zenon
<1>7. Settled(r, A, G) /\ SameSearch(r, t)
  BY <1>2, <1>4, <1>6, EnterSettles
<1> QED BY <1>2, <1>5, <1>6, <1>7 DEF SameSearch

-----------------------------------------------------------------------------
(* The end of a deletion. *)

(* A mark remembers a node of the file's directory, if any. *)
MarkFits(f, n) == n = NoNode \/ (n \in Node /\ f \in Elements(FilesIn[n.dir]))
MarksFit(M) ==
  /\ IsFiniteSet(DOMAIN M) /\ DOMAIN M \subseteq FileSet
  /\ \A f \in DOMAIN M : MarkFits(f, M[f])

(* A mark whose node is not among the live nodes N. *)
Stale(N, mark) == mark # NoNode /\ mark \notin N

(* The directory of a file. *)
LEMMA OwnDirectory ==
  ASSUME NEW f \in FileSet
  PROVE  DirOf(f) \in Dir /\ f \in Elements(FilesIn[DirOf(f)]) /\ f.size \in Nat
<1>1. \E d \in Dir : f \in Elements(FilesIn[d])
  BY DEF FileSet
<1>2. PICK x : x = DirOf(f)
  BY Zenon
<1>3. x \in Dir /\ f \in Elements(FilesIn[x])
  BY <1>1, <1>2, Zenon DEF DirOf
<1>4. f.size \in Nat
  BY <1>3, ExplorerAssumption
<1> QED BY <1>2, <1>3, <1>4

(* Without an entry for its directory, f is in no listing. *)
LEMMA NoEntry ==
  ASSUME NEW c, NEW T, NEW A, NEW G, CacheInv(c, T, A, G),
         NEW x \in Dir, NEW f \in Elements(FilesIn[x]),
         \A m \in DOMAIN c.entries : m.dir # x
  PROVE  CacheInv(c, T, A, G \cup {f})
<1>1. CacheShape(c) /\ Clean(c, A, G)
  BY DEF CacheInv
<1>2. DOMAIN c.entries \subseteq Node
  BY <1>1 DEF CacheShape, Elements
<1>3. ASSUME NEW m \in DOMAIN c.entries PROVE f \notin Elements(FilesIn[m.dir])
  <2>1. m.dir # x /\ m.dir \in Dir
    BY <1>2, Directories
  <2>2. Elements(FilesIn[m.dir]) \cap Elements(FilesIn[x]) = {}
    BY <2>1, ExplorerAssumption
  <2> QED BY <2>2
<1>4. Clean(c, A, G \cup {f})
  <2>1. ASSUME NEW m \in DOMAIN c.entries, c.entries[m].listing # NoListing
        PROVE  Elements(c.entries[m].listing) \subseteq Elements(FilesIn[m.dir]) \ (G \cup {f})
    <3>1. Elements(c.entries[m].listing) \subseteq Elements(FilesIn[m.dir]) \ G
      BY <1>1, <2>1 DEF Clean
    <3> QED BY <1>3, <3>1
  <2>2. ASSUME NEW e \in A, e.node \in DOMAIN c.entries, c.entries[e.node].pending = e.request
        PROVE  Elements(e.listing) \cap (G \cup {f}) = {}
    <3>1. Elements(e.listing) \cap G = {} /\ Elements(e.listing) \subseteq Elements(FilesIn[e.node.dir])
      BY <1>1, <2>2 DEF Clean
    <3> QED BY <1>3, <2>2, <3>1
  <2> QED BY <1>1, <2>1, <2>2 DEF Clean
<1> QED BY <1>4 DEF CacheInv

(* When p is the only node of its directory, a file of p is in no listing  *)
(* after that of p is invalidated.                                         *)
LEMMA DropFile ==
  ASSUME NEW c, NEW T, NEW A, NEW G, CacheInv(c, T, A, G),
         NEW p \in Node, NEW f \in Elements(FilesIn[p.dir]),
         \A m \in DOMAIN c.entries : m.dir = p.dir => m = p
  PROVE  CacheInv(InvalidateListing(c, p), T, A, G \cup {f})
<1>1. CacheShape(c)
  BY DEF CacheInv
<1>2. PICK d : d = InvalidateListing(c, p)
  BY Zenon
<1>3. Restricted(d, c, DOMAIN c.entries \ {p})
  BY <1>1, <1>2, InvalidateRestricts
<1>4. PICK X : X = DOMAIN c.entries \ {p}
  OBVIOUS
<1>5. \A m \in X : m \in DOMAIN T /\ T[m].gen = T[m].gen
  BY <1>4 DEF CacheInv, Expected
<1>6. CacheInv(d, T, A, G)
  BY <1>3, <1>4, <1>5, RestrictKeeps
<1>7. \A m \in DOMAIN d.entries : m.dir # p.dir
  BY <1>3, <1>4 DEF Restricted
<1>8. PICK x \in Dir : x = p.dir
  BY Directories
<1> QED BY <1>2, <1>6, <1>7, <1>8, NoEntry

LEMMA AbsorbWorld ==
  ASSUME NEW s, NEW A, NEW G, World(s, A, G), NEW f \in FileSet, NEW mark, MarkFits(f, mark)
  PROVE  LET r == Absorb(s, f, mark)
         IN  /\ World(r, A, G \cup (IF Stale(DOMAIN s.tree, mark) THEN {} ELSE {f}))
             /\ DOMAIN r.tree = DOMAIN s.tree /\ r.heavy = s.heavy /\ r.ui = s.ui
<1>1. PICK p : p = ParentOf(s.tree, f, mark)
  BY Zenon
<1>2. TreeShape(s.tree, s.made) /\ ScanShape(s.tree, s.scans, s.made) /\ IsState(s)
      /\ CacheInv(s.cache, s.tree, A, G)
  BY DEF World
<1>3. PICK x : x = DirOf(f)
  BY Zenon
<1>4. x \in Dir /\ f \in Elements(FilesIn[x]) /\ f.size \in Nat
  BY <1>3, OwnDirectory
<1>5. CASE p \notin DOMAIN s.tree
  <2>1. Absorb(s, f, mark) = s
    BY <1>1, <1>5, Zenon DEF Absorb
  <2>2. CASE Stale(DOMAIN s.tree, mark)
    <3>1. G \cup {} = G
      OBVIOUS
    <3> QED BY <2>1, <2>2, <3>1
  <2>3. CASE ~Stale(DOMAIN s.tree, mark)
    <3>1. mark = NoNode
      BY <1>1, <1>5, <2>3, Zenon DEF ParentOf, Stale
    <3>2. p = Place(s.tree, x)
      BY <1>1, <1>3, <3>1, Zenon DEF ParentOf
    <3>3. NodesAt(s.tree, x) = {}
      <4>1. ASSUME NodesAt(s.tree, x) # {} PROVE FALSE
        <5>1. p \in NodesAt(s.tree, x)
          BY <3>2, <4>1, Zenon DEF Place
        <5> QED BY <1>5, <5>1 DEF NodesAt
      <4> QED BY <4>1
    <3>4. \A m \in DOMAIN s.cache.entries : m.dir # x
      BY <1>2, <3>3 DEF NodesAt, CacheInv, Expected
    <3>5. CacheInv(s.cache, s.tree, A, G \cup {f})
      BY <1>2, <1>4, <3>4, NoEntry
    <3>6. World(s, A, G \cup {f})
      BY <3>5 DEF World
    <3> QED BY <2>1, <2>3, <3>6
  <2> QED BY <2>2, <2>3
<1>6. CASE p \in DOMAIN s.tree
  <2>1. p \in Node /\ f \in Elements(FilesIn[p.dir])
    <3>1. CASE mark = NoNode
      <4>1. p = Place(s.tree, x)
        BY <1>1, <1>3, <3>1, Zenon DEF ParentOf
      <4>2. NodesAt(s.tree, x) # {}
        <5>1. p \in Node /\ NoNode \notin Node
          BY <1>2, <1>6, ExplorerAssumption DEF TreeShape, Node
        <5> QED BY <4>1, <5>1, Zenon DEF Place
      <4>3. p \in NodesAt(s.tree, x)
        BY <4>1, <4>2, Zenon DEF Place
      <4> QED BY <1>2, <1>4, <1>6, <4>3 DEF NodesAt, TreeShape
    <3>2. CASE mark # NoNode
      <4>1. p = mark
        BY <1>1, <3>2, Zenon DEF ParentOf
      <4> QED BY <3>2, <4>1 DEF MarkFits
    <3> QED BY <3>1, <3>2
  <2>2. ~Stale(DOMAIN s.tree, mark)
    <3>1. mark # NoNode => p = mark
      BY <1>1, Zenon DEF ParentOf
    <3> QED BY <1>6, <3>1 DEF Stale
  <2>3. PICK B, N, k : B = s.tree /\ N = Line(s.tree, p) /\ k = f.size
    OBVIOUS
  <2>4. PICK T : T = Shrink(B, N, k)
    OBVIOUS
  <2>5. \A m \in DOMAIN B :
          /\ B[m] = [gen |-> B[m].gen, parent |-> B[m].parent,
                     size |-> B[m].size, lazy |-> B[m].lazy]
          /\ B[m].size \in Nat
    BY <1>2, <2>3 DEF TreeShape
  <2>6. k \in Nat
    BY <1>4, <2>3
  <2>7. /\ DOMAIN T = DOMAIN B
        /\ \A m \in DOMAIN B :
             /\ T[m] = [gen |-> T[m].gen, parent |-> T[m].parent, size |-> T[m].size, lazy |-> T[m].lazy]
             /\ T[m].gen = B[m].gen /\ T[m].parent = B[m].parent /\ T[m].lazy = B[m].lazy
             /\ T[m].size \in Nat
    BY <2>4, <2>5, <2>6, ShrinkTree
  <2>8. TreeShape(T, s.made)
    BY <1>2, <2>3, <2>7 DEF TreeShape
  <2>9. ScanShape(T, s.scans, s.made)
    <3>1. \A m \in DOMAIN s.tree : Children(T, m) = Children(s.tree, m)
      BY <2>3, <2>7 DEF Children
    <3> QED BY <1>2, <2>3, <2>7, <3>1 DEF ScanShape
  <2>10. CacheInv(s.cache, T, A, G)
    BY <1>2, <2>3, <2>7, OtherTree
  <2>11. ASSUME NEW m \in DOMAIN s.cache.entries, m.dir = p.dir PROVE m = p
    <3>1. m \in DOMAIN s.tree
      BY <1>2 DEF CacheInv, Expected
    <3> QED BY <1>2, <1>6, <2>11, <3>1 DEF TreeShape
  <2>12. PICK c : c = InvalidateListing(s.cache, p)
    BY Zenon
  <2>13. CacheInv(c, T, A, G \cup {f})
    BY <2>1, <2>10, <2>11, <2>12, DropFile
  <2>14. PICK force : force = TRUE
    BY Zenon
  <2>15. PICK d : d = RequestFileListing(c, T, p, force)
    BY Zenon
  <2>16. p \in DOMAIN T => T[p].gen \in Nat
    BY <2>8 DEF TreeShape
  <2>17. CacheInv(d, T, A, G \cup {f})
    BY <2>1, <2>13, <2>15, <2>16, RequestKeeps
  <2>18. PICK r : r = Absorb(s, f, mark)
    BY Zenon
  <2>19. /\ IsState(r) /\ r.tree = T /\ r.scans = s.scans /\ r.made = s.made
         /\ r.cache = d /\ r.heavy = s.heavy /\ r.ui = s.ui
    <3>1. r = [s EXCEPT !.tree = T, !.cache = d]
      <4>1. T = Shrink(s.tree, Line(s.tree, p), f.size)
        BY <2>3, <2>4
      <4>2. d = RequestFileListing(InvalidateListing(s.cache, p), T, p, TRUE)
        BY <2>12, <2>14, <2>15
      <4> QED BY <1>1, <1>6, <2>18, <4>1, <4>2, Zenon DEF Absorb
    <3>2. PICK i, j, n, l, m, o : s = [tree |-> i, scans |-> j, made |-> n, cache |-> l,
                                     heavy |-> m, ui |-> o]
      BY <1>2, Zenon DEF IsState
    <3>3. PICK w : w = [s EXCEPT !.tree = T]
      BY Zenon
    <3>4. w = [tree |-> T, scans |-> j, made |-> n, cache |-> l, heavy |-> m, ui |-> o]
      BY <3>2, <3>3
    <3>5. r = [w EXCEPT !.cache = d]
      BY <3>1, <3>3
    <3>6. r = [tree |-> T, scans |-> j, made |-> n, cache |-> d, heavy |-> m, ui |-> o]
      BY <3>4, <3>5
    <3> QED BY <3>2, <3>6 DEF IsState
  <2>20. World(r, A, G \cup {f})
    BY <2>8, <2>9, <2>17, <2>19 DEF World
  <2> QED BY <2>2, <2>3, <2>7, <2>18, <2>19, <2>20
<1> QED BY <1>5, <1>6

AbsorbOp(p, s, f) == Absorb(s, f, p.marks[f])
AbsorbGood(p, done, s) ==
  /\ World(s, p.others, p.gone \cup {f \in done : ~Stale(p.nodes, p.marks[f])})
  /\ DOMAIN s.tree = p.nodes /\ s.heavy = p.heavy /\ s.ui = p.ui
AbsorbFold == INSTANCE FoldLemmas WITH Op <- AbsorbOp, Pick <- PickAny, Good <- AbsorbGood

(* The removal of the files in ended, which M marks: those whose mark is   *)
(* stale are missed.                                                       *)
LEMMA AbsorbAllWorld ==
  ASSUME NEW s, NEW A, NEW G, World(s, A, G), NEW M, MarksFit(M), NEW ended \in SUBSET DOMAIN M
  PROVE  LET r == AbsorbAll(s, ended, M)
         IN  /\ World(r, A, G \cup {f \in ended : ~Stale(DOMAIN s.tree, M[f])})
             /\ DOMAIN r.tree = DOMAIN s.tree /\ r.heavy = s.heavy /\ r.ui = s.ui
<1> DEFINE r == AbsorbAll(s, ended, M)
           z == [others |-> A, gone |-> G, nodes |-> DOMAIN s.tree, marks |-> M,
                 heavy |-> s.heavy, ui |-> s.ui]
<1>2. z.others = A /\ z.gone = G /\ z.nodes = DOMAIN s.tree /\ z.marks = M
      /\ z.heavy = s.heavy /\ z.ui = s.ui
  OBVIOUS
<1> HIDE DEF z
<1>1. r = AbsorbFold!Fold(z, s, ended)
  <2>1. PICK g : g = AbsorbAll(s, ended, M)
    BY Zenon
  <2>2. PICK h : h = AbsorbFold!Fold(z, s, ended)
    BY Zenon
  <2>3. z.marks = M
    BY <1>2
  <2>4. g = h
    BY <2>1, <2>2, <2>3, Zenon DEF AbsorbAll, FoldSet, MapThenFoldSet, AbsorbFold!Fold,
       AbsorbFold!Step, AbsorbOp, PickAny
  <2> QED BY <2>1, <2>2, <2>4
<1> HIDE DEF r
<1>3. /\ IsFiniteSet(ended) /\ \A f \in ended : f \in FileSet /\ MarkFits(f, M[f])
      /\ \A u \in SUBSET ended : u # {} => PickAny(u) \in u
  <2>1. IsFiniteSet(ended) /\ \A f \in ended : f \in FileSet /\ MarkFits(f, M[f])
    BY FS_Subset DEF MarksFit
  <2>2. \A u \in SUBSET ended : u # {} => PickAny(u) \in u
    BY Zenon DEF PickAny
  <2> QED BY <2>1, <2>2
<1>4. AbsorbGood(z, {}, s)
  <2>1. G \cup {f \in {} : ~Stale(DOMAIN s.tree, M[f])} = G
    OBVIOUS
  <2> QED BY <1>2, <2>1 DEF AbsorbGood
<1>5. ASSUME NEW u \in SUBSET ended, u # {}, NEW a, AbsorbGood(z, u \ {PickAny(u)}, a)
      PROVE  AbsorbGood(z, u, AbsorbOp(z, a, PickAny(u)))
  <2>1. PICK f : f = PickAny(u)
    BY Zenon
  <2>2. f \in u /\ f \in ended /\ f \in FileSet
    BY <1>3, <1>5, <2>1
  <2>3. PICK H : H = G \cup {x \in u \ {f} : ~Stale(DOMAIN s.tree, M[x])}
    BY Zenon
  <2>4. World(a, A, H) /\ DOMAIN a.tree = DOMAIN s.tree /\ a.heavy = s.heavy /\ a.ui = s.ui
    BY <1>2, <1>5, <2>1, <2>3 DEF AbsorbGood
  <2>5. PICK mark : mark = M[f]
    BY Zenon
  <2>6. PICK b : b = Absorb(a, f, mark)
    BY Zenon
  <2>7. MarkFits(f, mark)
    BY <1>3, <2>2, <2>5
  <2>8. PICK K : K = H \cup (IF Stale(DOMAIN s.tree, mark) THEN {} ELSE {f})
    BY Zenon
  <2>9. World(b, A, K) /\ DOMAIN b.tree = DOMAIN a.tree /\ b.heavy = a.heavy /\ b.ui = a.ui
    <3>1. K = H \cup (IF Stale(DOMAIN a.tree, mark) THEN {} ELSE {f})
      BY <2>4, <2>8
    <3> QED BY <2>2, <2>4, <2>6, <2>7, <3>1, AbsorbWorld
  <2>10. K = G \cup {x \in u : ~Stale(DOMAIN s.tree, M[x])}
    BY <2>2, <2>3, <2>5, <2>8
  <2>11. AbsorbGood(z, u, b)
    BY <1>2, <2>4, <2>9, <2>10 DEF AbsorbGood
  <2>12. b = AbsorbOp(z, a, f)
    BY <1>2, <2>5, <2>6 DEF AbsorbOp
  <2> QED BY <2>1, <2>11, <2>12
<1>6. AbsorbGood(z, ended, AbsorbFold!Fold(z, s, ended))
  <2>1. \A u \in SUBSET ended : u # {} =>
          \A a : AbsorbGood(z, u \ {PickAny(u)}, a) => AbsorbGood(z, u, AbsorbOp(z, a, PickAny(u)))
    BY <1>5
  <2>2. AbsorbFold!Inductive(ended)
    BY <1>3, FiniteInductive DEF AbsorbFold!Inductive
  <2> QED BY <1>3, <1>4, <2>1, <2>2, AbsorbFold!FoldKeeps
<1>7. /\ World(r, A, G \cup {f \in ended : ~Stale(DOMAIN s.tree, M[f])})
      /\ DOMAIN r.tree = DOMAIN s.tree /\ r.heavy = s.heavy /\ r.ui = s.ui
  BY <1>1, <1>2, <1>6 DEF AbsorbGood
<1> QED BY <1>7 DEF r

-----------------------------------------------------------------------------
(* The keys, from state to state. *)

LEMMA UiFields ==
  ASSUME NEW u, IsUi(u)
  PROVE  \E a, b, c, d, e, f, g, h :
           /\ u = [current |-> a, rows |-> b, selected |-> c, key |-> d,
                   showFiles |-> e, screen |-> f, query |-> g, found |-> h]
           /\ u.current = a /\ u.rows = b /\ u.selected = c /\ u.key = d
           /\ u.showFiles = e /\ u.screen = f /\ u.query = g /\ u.found = h
           /\ a \in Node \cup {NoNode} /\ c \in Nat \ {0}
<1>1. PICK a, b, c, d, e, f, g, h : u = [current |-> a, rows |-> b, selected |-> c, key |-> d,
                                         showFiles |-> e, screen |-> f, query |-> g, found |-> h]
  BY Zenon DEF IsUi
<1>2. /\ u.current = a /\ u.rows = b /\ u.selected = c /\ u.key = d
      /\ u.showFiles = e /\ u.screen = f /\ u.query = g /\ u.found = h
  BY <1>1
<1>3. a \in Node \cup {NoNode} /\ c \in Nat \ {0}
  BY <1>2 DEF IsUi
<1> QED BY <1>1, <1>2, <1>3

(* Nothing but what is shown beside the rows has changed. *)
SameRows(v, u) ==
  /\ v = [current |-> v.current, rows |-> v.rows, selected |-> v.selected, key |-> v.key,
          showFiles |-> v.showFiles, screen |-> v.screen, query |-> v.query, found |-> v.found]
  /\ v.current = u.current /\ v.rows = u.rows /\ v.selected = u.selected /\ v.key = u.key

LEMMA SameRowsShape ==
  ASSUME NEW u, UiShape(u), NEW v, SameRows(v, u)
  PROVE  UiShape(v) /\ v.current = u.current
<1>1. IsUi(u)
  BY DEF UiShape
<1>2. IsUi(v)
  BY <1>1 DEF IsUi, SameRows
<1>3. v.current = u.current /\ v.rows = u.rows /\ v.selected = u.selected /\ v.key = u.key
  BY DEF SameRows
<1> QED BY <1>2, <1>3 DEF UiShape

(* The cursor of v is on row k, if there is one. *)
CursorOn(v, u, k, x) ==
  /\ v = [u EXCEPT !.selected = k, !.key = x]
  /\ u.rows # <<>> => k \in DOMAIN u.rows /\ x = u.rows[k].key

LEMMA CursorShape ==
  ASSUME NEW u, UiShape(u), NEW k, k \in Nat \ {0}, NEW x, NEW v, CursorOn(v, u, k, x)
  PROVE  UiShape(v) /\ SameScreen(v, u) /\ v.current = u.current
<1>1. IsUi(u)
  BY DEF UiShape
<1>2. PICK a, b, c, d, e, f, g, h :
           /\ u = [current |-> a, rows |-> b, selected |-> c, key |-> d,
                   showFiles |-> e, screen |-> f, query |-> g, found |-> h]
           /\ u.current = a /\ u.rows = b /\ u.selected = c /\ u.key = d
           /\ u.showFiles = e /\ u.screen = f /\ u.query = g /\ u.found = h
           /\ a \in Node \cup {NoNode} /\ c \in Nat \ {0}
  BY <1>1, UiFields
<1>3. v = [current |-> a, rows |-> b, selected |-> k, key |-> x,
           showFiles |-> e, screen |-> f, query |-> g, found |-> h]
  <2>1. PICK w : w = [u EXCEPT !.selected = k]
    BY Zenon
  <2>2. w = [current |-> a, rows |-> b, selected |-> k, key |-> d,
             showFiles |-> e, screen |-> f, query |-> g, found |-> h]
    BY <1>2, <2>1
  <2>3. v = [w EXCEPT !.key = x]
    BY <2>1 DEF CursorOn
  <2> QED BY <2>2, <2>3
<1>4. /\ v.current = a /\ v.rows = b /\ v.selected = k /\ v.key = x
      /\ v.showFiles = e /\ v.screen = f /\ v.query = g /\ v.found = h
  BY <1>3
<1>5. IsUi(v)
  BY <1>2, <1>3, <1>4 DEF IsUi
<1>6. UiShape(v)
  BY <1>2, <1>4, <1>5 DEF UiShape, CursorOn
<1> QED BY <1>2, <1>4, <1>6 DEF SameScreen

LEMMA SelectShape ==
  ASSUME NEW u, UiShape(u), NEW i \in Nat \ {0}
  PROVE  UiShape(Select(u, i)) /\ SameScreen(Select(u, i), u) /\ Select(u, i).current = u.current
<1>1. CASE u.rows = <<>>
  <2>1. PICK v : v = [u EXCEPT !.selected = 1, !.key = NoKey]
    BY Zenon
  <2>2. Select(u, i) = v
    BY <1>1, <2>1, Zenon DEF Select
  <2>3. PICK k, x : k = 1 /\ x = NoKey
    OBVIOUS
  <2>4. CursorOn(v, u, k, x) /\ k \in Nat \ {0}
    BY <1>1, <2>1, <2>3 DEF CursorOn
  <2> QED BY <1>1, <2>2, <2>4, CursorShape
<1>2. CASE u.rows # <<>>
  <2>1. u.rows \in Seq(Elements(u.rows))
    BY DEF UiShape
  <2>2. DOMAIN u.rows = 1 .. Len(u.rows) /\ Len(u.rows) \in Nat
    BY <2>1, LenProperties
  <2>3. Len(u.rows) # 0
    BY <1>2, <2>1, EmptySeq
  <2>4. PICK n : n = Len(u.rows)
    BY Zenon
  <2>5. PICK k : k = IF i > n THEN n ELSE i
    BY Zenon
  <2>6. k \in 1 .. n
    BY <2>2, <2>3, <2>4, <2>5
  <2>7. PICK x : x = u.rows[k].key
    BY Zenon
  <2>8. PICK v : v = [u EXCEPT !.selected = k, !.key = x]
    BY Zenon
  <2>9. Select(u, i) = v
    BY <1>2, <2>4, <2>5, <2>7, <2>8, Zenon DEF Select
  <2>10. k \in Nat \ {0} /\ k \in DOMAIN u.rows
    BY <2>2, <2>4, <2>6
  <2>11. CursorOn(v, u, k, x)
    BY <2>7, <2>8, <2>10 DEF CursorOn
  <2> QED BY <2>9, <2>10, <2>11, CursorShape
<1> QED BY <1>1, <1>2

LEMMA MoveShape ==
  ASSUME NEW u, UiShape(u), NEW down
  PROVE  LET v == MoveSelection(u, down)
         IN  UiShape(v) /\ SameScreen(v, u) /\ v.current = u.current
<1>1. CASE u.rows = <<>>
  <2>1. MoveSelection(u, down) = u
    BY <1>1, Zenon DEF MoveSelection
  <2> QED BY <2>1 DEF SameScreen
<1>2. CASE u.rows # <<>>
  <2>1. PICK i : i = IF down THEN u.selected + 1 ELSE IF u.selected = 1 THEN 1 ELSE u.selected - 1
    BY Zenon
  <2>2. u.selected \in Nat \ {0}
    BY DEF UiShape, IsUi
  <2>3. i \in Nat \ {0}
    <3>1. PICK n : n = u.selected
      BY Zenon
    <3>2. i = n + 1 \/ i = 1 \/ (n # 1 /\ i = n - 1)
      BY <2>1, <3>1
    <3> QED BY <2>2, <3>1, <3>2
  <2>4. MoveSelection(u, down) = Select(u, i)
    BY <1>2, <2>1, Zenon DEF MoveSelection
  <2> QED BY <2>3, <2>4, SelectShape
<1> QED BY <1>1, <1>2

LEMMA UiSettles ==
  ASSUME NEW s, NEW A, NEW G, Settled(s, A, G), NEW u, UiShape(u), u.current = s.ui.current,
         NEW r, r = [s EXCEPT !.ui = u]
  PROVE  Settled(r, A, G) /\ WithUi(r, s, u)
<1>1. World(s, A, G) /\ IsState(s)
  BY DEF Settled, World
<1>2. WithUi(r, s, u) /\ World(r, A, G)
  BY <1>1, UiChanges
<1> QED BY <1>2 DEF WithUi, Settled

LEMMA EnterAnySettles ==
  ASSUME NEW s, NEW A, NEW G, Settled(s, A, G), NEW n
  PROVE  LET r == EnterDirectory(s, n)
         IN  Settled(r, A, G) /\ SameSearch(r, s)
<1>1. CASE n \notin DOMAIN s.tree
  <2>1. EnterDirectory(s, n) = s
    BY <1>1, Zenon DEF EnterDirectory
  <2> QED BY <2>1 DEF SameSearch
<1>2. CASE n \in DOMAIN s.tree
  <2>1. World(s, A, G) /\ IsUi(s.ui)
    BY DEF Settled, UiShape
  <2> QED BY <1>2, <2>1, EnterSettles
<1> QED BY <1>1, <1>2

LEMMA RescanSettles ==
  ASSUME NEW s, NEW A, NEW G, Settled(s, A, G), NEW n
  PROVE  Settled(Rescan(s, n), A, G) /\ Rescan(s, n).ui = s.ui /\ Rescan(s, n).heavy = s.heavy
<1>1. World(s, A, G)
  BY DEF Settled
<1>2. PICK r : r = Rescan(s, n)
  BY Zenon
<1>3. World(r, A, G) /\ Keeps(s, r)
  BY <1>1, <1>2, RescanWorld
<1>4. s.ui.current \in Node \cup {NoNode}
  BY DEF Settled, UiShape, IsUi
<1>5. r.ui = s.ui /\ r.heavy = s.heavy
  BY <1>3 DEF Keeps
<1>6. Settled(r, A, G)
  BY <1>3, <1>4, <1>5 DEF Settled, Keeps
<1> QED BY <1>2, <1>5, <1>6

(* Rows built anew after the key or the screen changed. *)
LEMMA ShownSettles ==
  ASSUME NEW s, NEW A, NEW G, World(s, A, G), NEW u, IsUi(u), u.query = s.ui.query,
         u.found = s.ui.found,
         NEW t, t = [s EXCEPT !.ui = u]
  PROVE  Settled(Rebuild(t), A, G) /\ SameSearch(Rebuild(t), s)
<1>1. IsState(s)
  BY DEF World
<1>2. WithUi(t, s, u) /\ World(t, A, G)
  BY <1>1, UiChanges
<1>3. t.tree = s.tree /\ t.cache = s.cache /\ t.heavy = s.heavy /\ t.ui = u
  BY <1>2 DEF WithUi
<1>4. PICK r : r = Rebuild(t)
  BY Zenon
<1>5. Settled(r, A, G) /\ SameSearch(r, t)
  BY <1>2, <1>3, <1>4, RebuildSettles
<1> QED BY <1>3, <1>4, <1>5 DEF SameSearch

-----------------------------------------------------------------------------
(* The searches, from state to state. *)

QueryNr == Nat \ {0}
Walk == [query : QueryNr, dir : Dir, limit : Nat, depth : Nat]
Progress == [query : QueryNr, files : Seq(FileSet), spawned : Nat]

QueryShape(q) ==
  /\ q = [origin |-> q.origin, heap |-> q.heap, outstanding |-> q.outstanding,
          finished |-> q.finished]
  /\ q.origin \in [dir : Dir, depth : Nat] /\ IsHeap(q.heap, FileSet) /\ q.outstanding \in Nat

HeavyShape(h) ==
  /\ h = [queries |-> h.queries, floors |-> h.floors, walks |-> h.walks, next |-> h.next]
  /\ h.next \in QueryNr
  /\ \A q \in DOMAIN h.queries : q \in QueryNr /\ q < h.next /\ QueryShape(h.queries[q])
  /\ \A q \in QueryNr : q < h.next => q \in DOMAIN h.floors /\ h.floors[q] \in Nat
  /\ \A t \in h.walks : t \in Walk /\ t.query < h.next

LEMMA FileSizes ==
  /\ \A f \in FileSet : f.size \in Nat
  /\ \A d \in Dir : Elements(FilesIn[d]) \subseteq FileSet
<1>1. \A d \in Dir : Elements(FilesIn[d]) \subseteq FileSet
  BY DEF FileSet
<1>2. ASSUME NEW f \in FileSet PROVE f.size \in Nat
  <2>1. PICK d \in Dir : f \in Elements(FilesIn[d])
    BY DEF FileSet
  <2>2. \A g \in Elements(FilesIn[d]) : g.size \in Nat
    BY ExplorerAssumption
  <2> QED BY <2>1, <2>2
<1> QED BY <1>1, <1>2

(* What a worker reports of a directory: files of it. *)
DiskShape(D) ==
  \A d \in Dir : D[d] \in Seq(Elements(FilesIn[d])) /\ Distinct(D[d])

LEMMA SmallestSize ==
  ASSUME NEW S, NEW h, IsHeap(h, S), IsFull(h), \A f \in S : f.size \in Nat
  PROVE  SmallestKept(h) \in Nat
<1>1. h.kept \in Seq(S) /\ h.limit \in Nat \ {0}
  BY DEF IsHeap
<1>2. Len(h.kept) \in Nat /\ DOMAIN h.kept = 1 .. Len(h.kept)
  BY <1>1, LenProperties
<1>3. PICK n : n = Len(h.kept)
  BY Zenon
<1>4. n >= h.limit
  BY <1>3 DEF IsFull
<1>5. n \in 1 .. n
  BY <1>1, <1>2, <1>3, <1>4
<1>6. h.kept[n] \in S
  BY <1>1, <1>2, <1>3, <1>5, ElementOfSeq
<1> QED BY <1>3, <1>6 DEF SmallestKept

(* A search of the directory d, at depth y, that has only begun. *)
Begun(query, d, y, limit) ==
  /\ query.origin = [dir |-> d, depth |-> y] /\ query.heap = NewHeap(limit)
  /\ query.outstanding = 1 /\ ~query.finished

LEMMA StartShape ==
  ASSUME NEW h, HeavyShape(h), NEW d \in Dir, NEW y \in Nat, NEW limit \in Nat
  PROVE  LET g == StartQuery(h, d, y, limit)
         IN  /\ HeavyShape(g) /\ DOMAIN g.queries = DOMAIN h.queries \cup {h.next}
             /\ \A q \in DOMAIN h.queries : q # h.next /\ g.queries[q] = h.queries[q]
             /\ g.next = h.next + 1
             /\ g.walks = h.walks \cup {[query |-> h.next, dir |-> d, limit |-> limit, depth |-> y]}
             /\ \A q \in QueryNr : q < h.next => g.floors[q] = h.floors[q]
             /\ g.floors[h.next] = 0 /\ Begun(g.queries[h.next], d, y, limit)
<1>1. PICK f : f = FALSE
  BY Zenon
<1>2. PICK k : k = NewHeap(limit)
  BY Zenon
<1>3. PICK o : o = [dir |-> d, depth |-> y]
  BY Zenon
<1>4. PICK v : v = [origin |-> o, heap |-> k, outstanding |-> 1, finished |-> f]
  BY Zenon
<1>5. PICK t : t = [query |-> h.next, dir |-> d, limit |-> limit, depth |-> y]
  BY Zenon
<1>6. PICK Q, F : Q = With(h.queries, h.next, v) /\ F = With(h.floors, h.next, 0)
  BY Zenon
<1>7. PICK g : g = [queries |-> Q, floors |-> F, walks |-> h.walks \cup {t}, next |-> h.next + 1]
  BY Zenon
<1>8. StartQuery(h, d, y, limit) = g
  BY <1>1, <1>2, <1>3, <1>4, <1>5, <1>6, <1>7, Zenon DEF StartQuery
<1>9. QueryShape(v)
  <2>1. v.origin = o /\ v.heap = k /\ v.outstanding = 1 /\ v.finished = f
    BY <1>4
  <2>2. o \in [dir : Dir, depth : Nat]
    BY <1>3
  <2>3. IsHeap(k, FileSet)
    <3>1. k.kept = <<>> /\ k.limit \in Nat \ {0} /\ k = [limit |-> k.limit, kept |-> k.kept]
      BY <1>2 DEF NewHeap
    <3>2. k.kept \in Seq(FileSet)
      BY <3>1, EmptySeq
    <3> QED BY <3>1, <3>2 DEF IsHeap
  <2> QED BY <1>4, <2>1, <2>2, <2>3 DEF QueryShape
<1>10. t \in Walk /\ t.query = h.next
  BY <1>5 DEF Walk, HeavyShape
<1>11. /\ DOMAIN Q = DOMAIN h.queries \cup {h.next} /\ Q[h.next] = v
       /\ \A q \in DOMAIN h.queries : q # h.next => Q[q] = h.queries[q]
  BY <1>6 DEF With
<1>12. /\ DOMAIN F = DOMAIN h.floors \cup {h.next} /\ F[h.next] = 0
       /\ \A q \in DOMAIN h.floors : q # h.next => F[q] = h.floors[q]
  BY <1>6 DEF With
<1>13. h.next \in QueryNr /\ \A q \in DOMAIN h.queries : q \in QueryNr /\ q < h.next
  BY DEF HeavyShape
<1>14. /\ g.queries = Q /\ g.floors = F /\ g.walks = h.walks \cup {t} /\ g.next = h.next + 1
       /\ g = [queries |-> g.queries, floors |-> g.floors, walks |-> g.walks, next |-> g.next]
  BY <1>7
<1>15. \A q \in DOMAIN h.queries : q # h.next
  BY <1>13 DEF QueryNr
<1>16. HeavyShape(g)
  <2>1. h.next + 1 \in QueryNr /\ \A q \in QueryNr : q < h.next + 1 => q < h.next \/ q = h.next
    BY <1>13 DEF QueryNr
  <2>2. ASSUME NEW q \in DOMAIN Q PROVE q \in QueryNr /\ q < h.next + 1 /\ QueryShape(Q[q])
    <3>1. CASE q = h.next
      BY <1>9, <1>11, <1>13, <3>1 DEF QueryNr
    <3>2. CASE q # h.next
      <4>1. q \in DOMAIN h.queries /\ Q[q] = h.queries[q]
        BY <1>11, <2>2, <3>2
      <4>2. QueryShape(h.queries[q]) /\ q \in QueryNr /\ q < h.next
        BY <4>1 DEF HeavyShape
      <4> QED BY <1>13, <4>1, <4>2 DEF QueryNr
    <3> QED BY <3>1, <3>2
  <2>3. ASSUME NEW q \in QueryNr, q < h.next + 1 PROVE q \in DOMAIN F /\ F[q] \in Nat
    <3>1. CASE q = h.next
      BY <1>12, <3>1
    <3>2. CASE q # h.next
      <4>1. q \in DOMAIN h.floors /\ h.floors[q] \in Nat
        BY <2>1, <2>3, <3>2 DEF HeavyShape
      <4> QED BY <1>12, <3>2, <4>1
    <3> QED BY <3>1, <3>2
  <2>4. ASSUME NEW x \in h.walks \cup {t} PROVE x \in Walk /\ x.query < h.next + 1
    <3>1. CASE x = t
      BY <1>10, <1>13, <3>1 DEF QueryNr
    <3>2. CASE x \in h.walks
      <4>1. x \in Walk /\ x.query < h.next
        BY <3>2 DEF HeavyShape
      <4>2. x.query \in QueryNr
        BY <4>1 DEF Walk
      <4> QED BY <1>13, <4>1, <4>2 DEF QueryNr
    <3> QED BY <2>4, <3>1, <3>2
  <2> QED BY <1>14, <2>1, <2>2, <2>3, <2>4 DEF HeavyShape
<1>17. ASSUME NEW q \in QueryNr, q < h.next PROVE F[q] = h.floors[q]
  <2>1. q \in DOMAIN h.floors /\ q # h.next
    BY <1>13, <1>17 DEF HeavyShape, QueryNr
  <2> QED BY <1>12, <2>1
<1>18. Begun(v, d, y, limit)
  <2>1. v.origin = o /\ v.heap = k /\ v.outstanding = 1 /\ v.finished = f
    BY <1>4
  <2>2. ~v.finished
    BY <1>1, <2>1, Zenon
  <2> QED BY <1>2, <1>3, <2>1, <2>2 DEF Begun
<1> QED BY <1>5, <1>8, <1>11, <1>12, <1>14, <1>15, <1>16, <1>17, <1>18

LEMMA CancelShape ==
  ASSUME NEW h, HeavyShape(h), NEW x
  PROVE  LET g == CancelQuery(h, x)
         IN  /\ HeavyShape(g) /\ g.next = h.next /\ g.floors = h.floors
             /\ DOMAIN g.queries = DOMAIN h.queries \ {x}
             /\ \A q \in DOMAIN g.queries : g.queries[q] = h.queries[q]
             /\ g.walks = {t \in h.walks : t.query # x}
<1>1. PICK a, b, c, d : h = [queries |-> a, floors |-> b, walks |-> c, next |-> d]
  BY Zenon DEF HeavyShape
<1>2. h.queries = a /\ h.floors = b /\ h.walks = c /\ h.next = d
  BY <1>1
<1>3. PICK Q, W : Q = Forget(a, x) /\ W = {t \in c : t.query # x}
  OBVIOUS
<1>4. PICK g : g = CancelQuery(h, x)
  BY Zenon
<1>5. g = [h EXCEPT !.queries = Q, !.walks = W]
  BY <1>2, <1>3, <1>4 DEF CancelQuery
<1>6. g = [queries |-> Q, floors |-> b, walks |-> W, next |-> d]
  BY <1>1, <1>5
<1>7. /\ g.queries = Q /\ g.floors = b /\ g.walks = W /\ g.next = d
      /\ g = [queries |-> g.queries, floors |-> g.floors, walks |-> g.walks, next |-> g.next]
  BY <1>6
<1>8. DOMAIN Q = DOMAIN a \ {x} /\ \A q \in DOMAIN Q : Q[q] = a[q]
  BY <1>3 DEF Forget
<1>9. HeavyShape(g)
  BY <1>2, <1>3, <1>7, <1>8 DEF HeavyShape
<1> QED BY <1>2, <1>3, <1>4, <1>7, <1>8, <1>9

(* What an event leaves of the search it belongs to. *)
Progressed(g, h, e) ==
  LET q == e.query
      old == h.queries[q]
      new == g.queries[q]
  IN  /\ DOMAIN g.queries = DOMAIN h.queries /\ g.walks = h.walks /\ g.next = h.next
      /\ DOMAIN g.floors = DOMAIN h.floors
      /\ \A p \in DOMAIN h.queries \ {q} : g.queries[p] = h.queries[p]
      /\ \A p \in DOMAIN h.floors \ {q} : g.floors[p] = h.floors[p]
      /\ q \in DOMAIN h.queries =>
           /\ new.heap = Merge(old.heap, e.files) /\ new.origin = old.origin
           /\ new.outstanding = (IF old.outstanding + e.spawned = 0 THEN 0
                                 ELSE old.outstanding + e.spawned - 1)
           /\ new.finished = (old.finished \/ new.outstanding = 0)
           /\ g.floors[q] = IF IsFull(new.heap) THEN SmallestKept(new.heap) ELSE h.floors[q]
      /\ q \notin DOMAIN h.queries => g = h

LEMMA ApplyShape ==
  ASSUME NEW h, HeavyShape(h), NEW e \in Progress
  PROVE  HeavyShape(ApplyProgress(h, e)) /\ Progressed(ApplyProgress(h, e), h, e)
<1>1. CASE e.query \notin DOMAIN h.queries
  <2>1. ApplyProgress(h, e) = h
    BY <1>1, Zenon DEF ApplyProgress
  <2> QED BY <1>1, <2>1 DEF Progressed
<1>2. CASE e.query \in DOMAIN h.queries
  <2>1. PICK q, old : q = e.query /\ old = h.queries[q]
    OBVIOUS
  <2>2. q \in QueryNr /\ q < h.next /\ QueryShape(old) /\ q \in DOMAIN h.queries
    BY <1>2, <2>1 DEF HeavyShape
  <2>3. PICK heap : heap = Merge(old.heap, e.files)
    BY Zenon
  <2>4. IsHeap(heap, FileSet)
    <3>1. IsHeap(old.heap, FileSet) /\ e.files \in Seq(FileSet)
      BY <2>2 DEF QueryShape, Progress
    <3> QED BY <2>3, <3>1, MergeMembers
  <2>5. PICK left : left = IF old.outstanding + e.spawned = 0 THEN 0
                            ELSE old.outstanding + e.spawned - 1
    BY Zenon
  <2>6. left \in Nat
    <3>1. PICK k, l : k = old.outstanding /\ l = e.spawned
      OBVIOUS
    <3>2. k \in Nat /\ l \in Nat
      BY <2>2, <3>1 DEF QueryShape, Progress
    <3>3. left = IF k + l = 0 THEN 0 ELSE k + l - 1
      BY <2>5, <3>1, Zenon
    <3> QED BY <3>2, <3>3
  <2>7. PICK fin : fin = (old.finished \/ left = 0)
    BY Zenon
  <2>8. PICK new : new = [old EXCEPT !.heap = heap, !.outstanding = left, !.finished = fin]
    BY Zenon
  <2>9. PICK floor : floor = IF IsFull(heap) THEN SmallestKept(heap) ELSE h.floors[q]
    BY Zenon
  <2>10. PICK g : g = ApplyProgress(h, e)
    BY Zenon
  <2>11. g = [h EXCEPT !.queries[q] = new, !.floors[q] = floor]
    <3>1. new = [old EXCEPT !.heap = heap, !.outstanding = left, !.finished = @ \/ left = 0]
      BY <2>7, <2>8, Zenon
    <3>2. PICK n1 : n1 = [h.queries[e.query] EXCEPT !.heap = heap, !.outstanding = left,
                                                   !.finished = @ \/ left = 0]
      BY Zenon
    <3>3. n1 = new
      BY <2>1, <3>1, <3>2, Zenon
    <3>4. PICK f1 : f1 = IF IsFull(heap) THEN SmallestKept(heap) ELSE h.floors[e.query]
      BY Zenon
    <3>5. f1 = floor
      BY <2>1, <2>9, <3>4, Zenon
    <3>6. g = [h EXCEPT !.queries[e.query] = n1, !.floors[e.query] = f1]
      BY <1>2, <2>1, <2>3, <2>5, <2>10, <3>2, <3>4, Zenon DEF ApplyProgress
    <3> QED BY <2>1, <3>3, <3>5, <3>6
  <2>12. PICK a, b, c, d : h = [queries |-> a, floors |-> b, walks |-> c, next |-> d]
    BY Zenon DEF HeavyShape
  <2>13. h.queries = a /\ h.floors = b /\ h.walks = c /\ h.next = d
    BY <2>12
  <2>14. PICK Q, F : Q = [a EXCEPT ![q] = new] /\ F = [b EXCEPT ![q] = floor]
    OBVIOUS
  <2>15. g = [queries |-> Q, floors |-> F, walks |-> c, next |-> d]
    <3>1. PICK w : w = [h EXCEPT !.queries[q] = new]
      BY Zenon
    <3>2. w = [queries |-> Q, floors |-> b, walks |-> c, next |-> d]
      BY <2>12, <2>14, <3>1
    <3>3. g = [w EXCEPT !.floors[q] = floor]
      BY <2>11, <3>1
    <3> QED BY <2>14, <3>2, <3>3
  <2>16. /\ g.queries = Q /\ g.floors = F /\ g.walks = c /\ g.next = d
         /\ g = [queries |-> g.queries, floors |-> g.floors, walks |-> g.walks, next |-> g.next]
    BY <2>15
  <2>17. PICK u, v, x, y : old = [origin |-> u, heap |-> v, outstanding |-> x, finished |-> y]
    BY <2>2, Zenon DEF QueryShape
  <2>18. new = [origin |-> u, heap |-> heap, outstanding |-> left, finished |-> fin]
    <3>1. PICK z : z = [old EXCEPT !.heap = heap]
      BY Zenon
    <3>2. z = [origin |-> u, heap |-> heap, outstanding |-> x, finished |-> y]
      BY <2>17, <3>1
    <3>3. PICK zz : zz = [z EXCEPT !.outstanding = left]
      BY Zenon
    <3>4. zz = [origin |-> u, heap |-> heap, outstanding |-> left, finished |-> y]
      BY <3>2, <3>3
    <3>5. new = [zz EXCEPT !.finished = fin]
      BY <2>8, <3>1, <3>3
    <3> QED BY <3>4, <3>5
  <2>19. /\ new.origin = old.origin /\ new.heap = heap /\ new.outstanding = left
         /\ new = [origin |-> new.origin, heap |-> new.heap, outstanding |-> new.outstanding,
                   finished |-> new.finished]
    BY <2>17, <2>18
  <2>20. new.finished = fin
    BY <2>18
  <2>21. QueryShape(new)
    <3>1. old.origin \in [dir : Dir, depth : Nat]
      BY <2>2 DEF QueryShape
    <3> QED BY <2>4, <2>6, <2>19, <3>1 DEF QueryShape
  <2>22. floor \in Nat /\ q \in DOMAIN b
    <3>1. q \in DOMAIN h.floors /\ h.floors[q] \in Nat
      BY <2>2 DEF HeavyShape
    <3>2. IsFull(heap) => SmallestKept(heap) \in Nat
      BY <2>4, FileSizes, SmallestSize
    <3> QED BY <2>9, <2>13, <3>1, <3>2
  <2>23. /\ DOMAIN Q = DOMAIN a /\ Q[q] = new /\ \A p \in DOMAIN a \ {q} : Q[p] = a[p]
         /\ DOMAIN F = DOMAIN b /\ F[q] = floor /\ \A p \in DOMAIN b \ {q} : F[p] = b[p]
    BY <2>2, <2>13, <2>14, <2>22
  <2>24. HeavyShape(g)
    <3>1. \A p \in DOMAIN Q : p \in QueryNr /\ p < d /\ QueryShape(Q[p])
      <4> TAKE p \in DOMAIN Q
      <4>1. p \in DOMAIN h.queries
        BY <2>13, <2>23
      <4>2. p \in QueryNr /\ p < h.next /\ QueryShape(h.queries[p])
        BY <4>1 DEF HeavyShape
      <4> QED BY <2>13, <2>21, <2>23, <4>1, <4>2
    <3>2. \A p \in QueryNr : p < d => p \in DOMAIN F /\ F[p] \in Nat
      <4> TAKE p \in QueryNr
      <4>1. p < d => p \in DOMAIN b /\ b[p] \in Nat
        BY <2>13 DEF HeavyShape
      <4> QED BY <2>22, <2>23, <4>1
    <3>3. d \in QueryNr /\ \A t \in c : t \in Walk /\ t.query < d
      BY <2>13 DEF HeavyShape
    <3> QED BY <2>16, <3>1, <3>2, <3>3 DEF HeavyShape
  <2>25. Progressed(g, h, e)
    <3>1. new.finished = (old.finished \/ new.outstanding = 0)
      BY <2>7, <2>19, <2>20
    <3>2. new.heap = Merge(old.heap, e.files)
      BY <2>3, <2>19
    <3>3. new.outstanding = (IF old.outstanding + e.spawned = 0 THEN 0
                                 ELSE old.outstanding + e.spawned - 1)
      BY <2>5, <2>19
    <3>4. F[q] = IF IsFull(new.heap) THEN SmallestKept(new.heap) ELSE h.floors[q]
      BY <2>9, <2>19, <2>23
    <3>5. g.queries[e.query] = new /\ h.queries[e.query] = old /\ g.floors[e.query] = F[q]
      BY <2>1, <2>16, <2>23
    <3>6. /\ DOMAIN g.queries = DOMAIN h.queries /\ g.walks = h.walks /\ g.next = h.next
          /\ DOMAIN g.floors = DOMAIN h.floors
          /\ \A p \in DOMAIN h.queries \ {e.query} : g.queries[p] = h.queries[p]
          /\ \A p \in DOMAIN h.floors \ {e.query} : g.floors[p] = h.floors[p]
      BY <2>1, <2>13, <2>16, <2>23
    <3> QED BY <1>2, <2>1, <2>19, <3>1, <3>2, <3>3, <3>4, <3>5, <3>6, Zenon DEF Progressed
  <2> QED BY <2>10, <2>24, <2>25
<1> QED BY <1>1, <1>2

ProgressOp(p, h, i) == ApplyProgress(h, p.events[i])
ProgressGood(p, s, h) ==
  HeavyShape(h) /\ DOMAIN h.queries = p.known /\ h.walks = p.walks /\ h.next = p.next
ProgressFold == INSTANCE FoldLemmas WITH Op <- ProgressOp, Pick <- PickLast, Good <- ProgressGood

LEMMA ApplyAllIsFold ==
  ASSUME NEW h, NEW p
  PROVE  FoldLeft(ApplyProgress, h, p.events) = ProgressFold!Fold(p, h, DOMAIN p.events)
BY Zenon DEF FoldLeft, MapThenFoldSet, ProgressFold!Fold, ProgressFold!Step, ProgressOp, PickLast, Max

LEMMA ApplyAllShape ==
  ASSUME NEW h, HeavyShape(h), NEW s \in Seq(Progress)
  PROVE  LET g == FoldLeft(ApplyProgress, h, s)
         IN  /\ HeavyShape(g) /\ DOMAIN g.queries = DOMAIN h.queries
             /\ g.walks = h.walks /\ g.next = h.next
<1> DEFINE p == [events |-> s, known |-> DOMAIN h.queries, walks |-> h.walks, next |-> h.next]
           D == DOMAIN s
<1>1. PICK g : g = FoldLeft(ApplyProgress, h, s)
  BY Zenon
<1>2. p.events = s /\ p.known = DOMAIN h.queries /\ p.walks = h.walks /\ p.next = h.next
  OBVIOUS
<1> HIDE DEF p
<1>3. g = ProgressFold!Fold(p, h, D)
  BY <1>1, <1>2, ApplyAllIsFold
<1>4. D = 1 .. Len(s) /\ Len(s) \in Nat /\ \A i \in D : s[i] \in Progress
  BY LenProperties, ElementOfSeq
<1>5. IsFiniteSet(D)
  BY <1>4, FS_Interval
<1>6. \A u \in SUBSET D : u # {} => PickLast(u) \in u
  BY <1>4, PickLastPicks
<1> HIDE DEF D
<1>7. ProgressGood(p, {}, h)
  BY <1>2 DEF ProgressGood
<1>8. ASSUME NEW u \in SUBSET D, u # {}, NEW a, ProgressGood(p, u \ {PickLast(u)}, a)
      PROVE  ProgressGood(p, u, ProgressOp(p, a, PickLast(u)))
  <2>1. PICK i : i = PickLast(u)
    BY Zenon
  <2>2. i \in D /\ s[i] \in Progress
    BY <1>4, <1>6, <1>8, <2>1
  <2>3. /\ HeavyShape(a) /\ DOMAIN a.queries = DOMAIN h.queries
        /\ a.walks = h.walks /\ a.next = h.next
    BY <1>2, <1>8 DEF ProgressGood
  <2>4. PICK e, b : e = s[i] /\ b = ApplyProgress(a, e)
    BY Zenon
  <2>5. HeavyShape(b) /\ Progressed(b, a, e)
    BY <2>2, <2>3, <2>4, ApplyShape
  <2>6. DOMAIN b.queries = DOMAIN a.queries /\ b.walks = a.walks /\ b.next = a.next
    BY <2>5, Zenon DEF Progressed
  <2>7. ProgressOp(p, a, PickLast(u)) = b
    BY <1>2, <2>1, <2>4 DEF ProgressOp
  <2> QED BY <1>2, <2>3, <2>5, <2>6, <2>7 DEF ProgressGood
<1>9. ProgressGood(p, D, ProgressFold!Fold(p, h, D))
  <2>1. \A u \in SUBSET D : u # {} =>
          \A a : ProgressGood(p, u \ {PickLast(u)}, a)
                   => ProgressGood(p, u, ProgressOp(p, a, PickLast(u)))
    BY <1>8
  <2>2. ProgressFold!Inductive(D)
    BY <1>5, FiniteInductive DEF ProgressFold!Inductive
  <2> QED BY <1>6, <1>7, <2>1, <2>2, ProgressFold!FoldKeeps
<1> QED BY <1>1, <1>2, <1>3, <1>9 DEF ProgressGood

-----------------------------------------------------------------------------
(* The invariants. *)

Underway == {lister[w] : w \in {v \in Lister : lister[v] # Waiting}}
Results == Underway \cup Elements(answers)
Gone == Absorbed \ missed

ThreadsShape ==
  /\ lister \in [Lister -> {Waiting} \cup Result]
  /\ answers \in Seq(Result)

(* The tasks that thread w has to execute, or to push. *)
TasksAt(w) ==
  IF walker[w].at = "read" THEN {walker[w].task}
  ELSE IF walker[w].at = "push" THEN walker[w].tasks ELSE {}
AllWalks == heavy.walks \cup UNION {TasksAt(w) : w \in Walker}

WalkerState ==
  {Resting} \cup [at : {"read"}, task : Walk, floor : Nat] \cup [at : {"push"}, tasks : SUBSET Walk]

SearchShape ==
  /\ HeavyShape(heavy)
  /\ walker \in [Walker -> WalkerState]
  /\ progress \in Seq(Progress)
  /\ \A t \in AllWalks : t.query < heavy.next
  /\ \A i \in DOMAIN progress : progress[i].query < heavy.next
  /\ ui.query \in DOMAIN heavy.queries \cup {NoQuery}
  /\ Elements(ui.found) \subseteq FileSet

(* What is being removed is marked, and what was kept is still there. *)
MarksShape ==
  /\ MarksFit(marks) /\ DOMAIN removal \subseteq DOMAIN marks
  /\ \A f \in DOMAIN removal :
       removal[f] \in {"waiting", "removed", "kept"} /\ (removal[f] = "kept" => f \in Existing)

BaseInv ==
  /\ Settled(State, Results, Gone)
  /\ ThreadsShape /\ SearchShape /\ MarksShape
  /\ DiskShape(onDisk) /\ DOMAIN onDisk = Dir
  /\ scenario \in Scenarios

(* No directory of a search is in two hands, or visited twice.             *)
WalksApart ==
  /\ \A t, u \in AllWalks : t.query = u.query /\ t # u => Below[t.dir] \cap Below[u.dir] = {}
  /\ \A w \in Walker : TasksAt(w) \cap heavy.walks = {}
  /\ \A v, w \in Walker : v # w => TasksAt(v) \cap TasksAt(w) = {}

(* The searches of h know their work, when the walks W exist and the       *)
(* events of p at the positions R have not been applied.                   *)
Spawns(p) == [i \in DOMAIN p |-> p[i].spawned]
EventsAt(p, R, q) == {i \in R : p[i].query = q}
Earlier(E, i) == {j \in E : j < i}
KnownTo(query, Z, p, E) ==
  /\ query.outstanding + SumFunctionOnSet(Spawns(p), E) = Cardinality(Z) + Cardinality(E)
  /\ \A i \in E : query.outstanding + SumFunctionOnSet(Spawns(p), Earlier(E, i))
                    >= Cardinality(Earlier(E, i)) + 1
  /\ query.finished <=> Z = {} /\ E = {}
WalksOf(W, q) == {t \in W : t.query = q}
KnownAll(h, W, p, R) ==
  \A q \in DOMAIN h.queries : KnownTo(h.queries[q], WalksOf(W, q), p, EventsAt(p, R, q))
WorkInv == KnownAll(heavy, AllWalks, progress, DOMAIN progress)

(* What a search has found, left out and still to find: Z holds its tasks, *)
(* E the positions of its events in p, and wanted the files it is about.   *)
Under(t) == UNION {Elements(FilesIn[d]) : d \in Below[t.dir]}
Left(t) == {f \in FilesBelow(t) : f.size > 0}
Beaten(h, f) == IsFull(h) /\ f.size <= SmallestKept(h)
Outdone(e, limit, f) ==
  Len(e.files) = limit /\ \A g \in Elements(e.files) : f.size <= g.size
Above(h, floor) == floor > 0 => IsFull(h) /\ floor <= SmallestKept(h)

KeepsRight(h, wanted) ==
  HoldsLargest(h, Elements(h.kept)) /\ Elements(h.kept) \subseteq wanted
(* A task's files are wanted, and nobody has seen them yet.                *)
Ahead(h, wanted, t, p, E) ==
  /\ NewHeap(t.limit).limit = h.limit
  /\ Left(t) \subseteq wanted /\ Under(t) \cap Elements(h.kept) = {}
  /\ \A i \in E : Elements(p[i].files) \cap Under(t) = {}
(* An event brings wanted files, each for the first time.                  *)
Brings(h, wanted, i, p, E) ==
  /\ Distinct(p[i].files) /\ Elements(p[i].files) \subseteq wanted \ Elements(h.kept)
  /\ \A j \in E : i # j => Elements(p[i].files) \cap Elements(p[j].files) = {}
Accounted(h, f, Z, p, E) ==
  \/ f \in Elements(h.kept) \/ Beaten(h, f)
  \/ \E t \in Z : f \in Left(t)
  \/ \E i \in E : f \in Elements(p[i].files) \/ Outdone(p[i], h.limit, f)
Found(h, wanted, Z, p, E) ==
  /\ wanted \subseteq FileSet /\ KeepsRight(h, wanted)
  /\ \A t \in Z : Ahead(h, wanted, t, p, E)
  /\ \A i \in E : Brings(h, wanted, i, p, E)
  /\ \A f \in wanted : Accounted(h, f, Z, p, E)

(* A search is right, and so are its floor and the floors that threads in  *)
(* H read with on its behalf.                                              *)
FoundFor(query, floor, Z, p, E, H) ==
  /\ Found(query.heap, Left(query.origin), Z, p, E)
  /\ Above(query.heap, floor) /\ \A r \in H : Above(query.heap, r.floor)
(* The searches of h are right, when the walks W exist, the events of p at *)
(* the positions R have not been applied, and the threads in H read.       *)
ReadersOf(H, q) == {r \in H : r.query = q}
FoundAll(h, W, p, R, H) ==
  \A q \in DOMAIN h.queries :
    FoundFor(h.queries[q], h.floors[q], WalksOf(W, q), p, EventsAt(p, R, q), ReadersOf(H, q))
Reader(w) == [query |-> walker[w].task.query, floor |-> walker[w].floor]
Readers == {Reader(w) : w \in Busy("read")}
FoundInv ==
  onDisk = FilesIn => FoundAll(heavy, AllWalks, progress, DOMAIN progress, Readers)

-----------------------------------------------------------------------------
(* The keys keep the invariant. *)

(* The searches g, after a key that may have cancelled one of h or started *)
(* another.                                                                *)
Searched(h, g) ==
  \E c : /\ c = h \/ \E x : c = CancelQuery(h, x)
         /\ g = c \/ \E d \in Dir, y \in Nat, limit \in Nat : g = StartQuery(c, d, y, limit)

SearchFits(r) ==
  /\ HeavyShape(r.heavy) /\ heavy.next <= r.heavy.next /\ Searched(heavy, r.heavy)
  /\ r.ui.query \in DOMAIN r.heavy.queries \cup {NoQuery}
  /\ Elements(r.ui.found) \subseteq FileSet

LEMMA SameSearchFits ==
  ASSUME BaseInv, NEW r, SameSearch(r, State)
  PROVE  SearchFits(r)
<1>1. State.heavy = heavy /\ State.ui = ui
  BY DEF State
<1>2. r.heavy = heavy /\ r.ui.query = ui.query /\ r.ui.found = ui.found
  BY <1>1 DEF SameSearch
<1>3. HeavyShape(heavy) /\ ui.query \in DOMAIN heavy.queries \cup {NoQuery}
      /\ Elements(ui.found) \subseteq FileSet
  BY DEF BaseInv, SearchShape
<1>4. heavy.next <= heavy.next
  BY <1>3 DEF HeavyShape, QueryNr
<1>5. Searched(heavy, heavy)
  BY Zenon DEF Searched
<1> QED BY <1>2, <1>3, <1>4, <1>5 DEF SearchFits

LEMMA NextState ==
  ASSUME NEW r, IsState(r), Becomes(r)
  PROVE  State' = r
<1>1. State' = [tree |-> tree', scans |-> scans', made |-> made', cache |-> cache',
                heavy |-> heavy', ui |-> ui']
  BY DEF State
<1>2. /\ tree' = r.tree /\ scans' = r.scans /\ made' = r.made
      /\ cache' = r.cache /\ heavy' = r.heavy /\ ui' = r.ui
  BY DEF Becomes
<1>3. r = [tree |-> r.tree, scans |-> r.scans, made |-> r.made, cache |-> r.cache,
           heavy |-> r.heavy, ui |-> r.ui]
  BY DEF IsState
<1> QED BY <1>1, <1>2, <1>3

(* What a key means for the searches: the threads and the events on their  *)
(* way stay as they are, and a file that is deleted is missed.             *)
SearchMoves ==
  /\ Searched(heavy, heavy') /\ walker' = walker /\ progress' = progress
  /\ onDisk' = onDisk \/ onDisk' # FilesIn

(* The searches, when threads and events stay as they are.                 *)
LEMMA SearchKept ==
  ASSUME SearchShape, NEW r, SearchFits(r), heavy' = r.heavy, ui' = r.ui,
         walker' = walker, progress' = progress
  PROVE  SearchShape'
<1>1. HeavyShape(heavy') /\ heavy.next <= heavy'.next
      /\ ui'.query \in DOMAIN heavy'.queries \cup {NoQuery}
      /\ Elements(ui'.found) \subseteq FileSet
  BY DEF SearchFits
<1>2. heavy.next \in Nat /\ heavy'.next \in Nat
  BY <1>1 DEF SearchShape, HeavyShape, QueryNr
<1>3. \A w \in Walker : TasksAt(w)' = TasksAt(w)
  BY DEF TasksAt
<1>4. ASSUME NEW t \in AllWalks' PROVE t.query < heavy'.next
  <2>1. CASE t \in heavy'.walks
    BY <1>1, <2>1 DEF HeavyShape
  <2>2. CASE t \notin heavy'.walks
    <3>1. PICK w \in Walker : t \in TasksAt(w)
      BY <1>3, <1>4, <2>2 DEF AllWalks
    <3>2. t \in AllWalks
      BY <3>1 DEF AllWalks
    <3>3. t.query < heavy.next
      BY <3>2 DEF SearchShape
    <3>4. t.query \in Nat
      <4>1. walker[w] \in WalkerState
        BY DEF SearchShape
      <4>2. t \in Walk
        BY <3>1, <4>1 DEF TasksAt, WalkerState, Resting
      <4> QED BY <4>2 DEF Walk, QueryNr
    <3> QED BY <1>1, <1>2, <3>3, <3>4
  <2> QED BY <2>1, <2>2
<1>5. ASSUME NEW i \in DOMAIN progress' PROVE progress'[i].query < heavy'.next
  <2>1. i \in DOMAIN progress /\ progress'[i] = progress[i] /\ progress[i].query < heavy.next
    BY <1>5 DEF SearchShape
  <2>2. progress[i] \in Progress
    BY <2>1, ElementOfSeq, LenProperties DEF SearchShape
  <2>3. progress[i].query \in Nat
    BY <2>2 DEF Progress, QueryNr
  <2> QED BY <1>1, <1>2, <2>1, <2>3
<1>6. walker' \in [Walker -> WalkerState] /\ progress' \in Seq(Progress)
  BY DEF SearchShape
<1> QED BY <1>1, <1>4, <1>5, <1>6 DEF SearchShape

LEMMA PressKeeps ==
  ASSUME BaseInv, NEW op, NEW screens, Press(op, screens), NEW r, Becomes(r),
         Settled(r, Results, Gone), SearchFits(r)
  PROVE  BaseInv' /\ SearchMoves
<1>1. /\ removal' = removal /\ marks' = marks /\ missed' = missed /\ onDisk' = onDisk
      /\ lister' = lister /\ answers' = answers /\ walker' = walker /\ progress' = progress
      /\ scenario' = scenario
  BY DEF Press, Key, deletionVars
<1>2. IsState(r)
  BY DEF Settled, World
<1>3. State' = r
  BY <1>2, NextState
<1>4. Results' = Results /\ Gone' = Gone
  BY <1>1 DEF Results, Underway, Gone, Absorbed, Existing
<1>5. Settled(State', Results', Gone')
  BY <1>3, <1>4
<1>6. ThreadsShape'
  BY <1>1 DEF BaseInv, ThreadsShape
<1>7. SearchShape'
  <2>1. heavy' = r.heavy /\ ui' = r.ui /\ SearchShape
    BY DEF Becomes, BaseInv
  <2> QED BY <1>1, <2>1, SearchKept
<1>8. MarksShape'
  BY <1>1 DEF BaseInv, MarksShape, Existing
<1>9. DiskShape(onDisk') /\ DOMAIN onDisk' = Dir /\ scenario' \in Scenarios
  BY <1>1 DEF BaseInv
<1>10. SearchMoves
  BY <1>1 DEF SearchMoves, SearchFits, Becomes
<1> QED BY <1>10, <1>5, <1>6, <1>7, <1>8, <1>9 DEF BaseInv

LEMMA StateFields ==
  ASSUME BaseInv
  PROVE  /\ State.tree = tree /\ State.scans = scans /\ State.made = made /\ State.cache = cache
         /\ State.heavy = heavy /\ State.ui = ui /\ IsState(State)
         /\ Settled(State, Results, Gone) /\ World(State, Results, Gone)
         /\ UiShape(ui) /\ IsUi(ui) /\ TreeShape(tree, made)
<1>1. /\ State.tree = tree /\ State.scans = scans /\ State.made = made /\ State.cache = cache
      /\ State.heavy = heavy /\ State.ui = ui
  BY DEF State
<1>2. Settled(State, Results, Gone)
  BY DEF BaseInv
<1>3. World(State, Results, Gone) /\ UiShape(ui)
  BY <1>1, <1>2 DEF Settled
<1> QED BY <1>1, <1>2, <1>3 DEF UiShape, World

LEMMA OpenRowKeeps ==
  ASSUME BaseInv, OpenSelectedRow
  PROVE  BaseInv' /\ SearchMoves
<1>1. PICK r : r = EnterDirectory(State, Row.key)
  BY Zenon
<1>2. PICK op, screens : op = "enter" /\ screens = {"explorer"}
  BY Zenon
<1>3. Press(op, screens) /\ Becomes(r)
  BY <1>1, <1>2, Zenon DEF OpenSelectedRow
<1>4. Settled(r, Results, Gone) /\ SameSearch(r, State)
  BY <1>1, StateFields, EnterAnySettles
<1>5. SearchFits(r)
  BY <1>4, SameSearchFits
<1> QED BY <1>3, <1>4, <1>5, PressKeeps

LEMMA RescanKeeps ==
  ASSUME BaseInv, NEW n, NEW op, NEW screens, Press(op, screens), Becomes(Rescan(State, n))
  PROVE  BaseInv' /\ SearchMoves
<1>1. PICK r : r = Rescan(State, n)
  BY Zenon
<1>2. Settled(r, Results, Gone) /\ r.ui = State.ui /\ r.heavy = State.heavy
  BY <1>1, StateFields, RescanSettles
<1>3. SameSearch(r, State)
  BY <1>2 DEF SameSearch
<1>4. SearchFits(r)
  BY <1>3, SameSearchFits
<1> QED BY <1>1, <1>2, <1>4, PressKeeps

LEMMA ParentKeeps ==
  ASSUME BaseInv, GoToParent
  PROVE  BaseInv' /\ SearchMoves
<1> DEFINE live == ui.current \in DOMAIN tree
           above == IF live THEN tree[ui.current].parent ELSE NoNode
           outer == {d \in Dir : live /\ ui.current.dir \in Subdirs[d]}
<1>1. PICK op, screens : op = "parent" /\ screens = {"explorer"}
  BY Zenon
<1>2. Press(op, screens) /\ ui.current # NoNode
  BY <1>1, Zenon DEF GoToParent
<1>3. /\ State.tree = tree /\ State.cache = cache
      /\ State.heavy = heavy /\ State.ui = ui /\ IsState(State)
      /\ Settled(State, Results, Gone) /\ World(State, Results, Gone)
      /\ UiShape(ui) /\ IsUi(ui) /\ TreeShape(tree, made)
  BY StateFields
<1>4. PICK a, b, c, d, e, f, g, h :
           /\ ui = [current |-> a, rows |-> b, selected |-> c, key |-> d,
                    showFiles |-> e, screen |-> f, query |-> g, found |-> h]
           /\ ui.current = a /\ ui.rows = b /\ ui.selected = c /\ ui.key = d
           /\ ui.showFiles = e /\ ui.screen = f /\ ui.query = g /\ ui.found = h
           /\ a \in Node \cup {NoNode} /\ c \in Nat \ {0}
  BY <1>3, UiFields
<1>5. CASE above # NoNode /\
           Becomes(Rebuild(Focus([State EXCEPT !.ui = [@ EXCEPT !.current = above,
                                                              !.key = ui.current]], above)))
  <2>1. above \in DOMAIN tree /\ above \in Node
    BY <1>3, <1>5 DEF TreeShape
  <2>2. PICK n : n = above
    BY Zenon
  <2>3. PICK u : u = [ui EXCEPT !.current = n, !.key = ui.current]
    BY Zenon
  <2>4. PICK t : t = [State EXCEPT !.ui = u]
    BY Zenon
  <2>5. t = [State EXCEPT !.ui = [@ EXCEPT !.current = above, !.key = ui.current]]
    BY <1>3, <2>2, <2>3, <2>4, Zenon
  <2>6. PICK y : y = Focus(t, n)
    BY Zenon
  <2>7. PICK r : r = Rebuild(y)
    BY Zenon
  <2>8. Becomes(r)
    BY <1>5, <2>2, <2>5, <2>6, <2>7, Zenon
  <2>9. u = [current |-> n, rows |-> b, selected |-> c, key |-> a,
             showFiles |-> e, screen |-> f, query |-> g, found |-> h]
    <3>1. PICK w : w = [ui EXCEPT !.current = n]
      BY Zenon
    <3>2. w = [current |-> n, rows |-> b, selected |-> c, key |-> d,
               showFiles |-> e, screen |-> f, query |-> g, found |-> h]
      BY <1>4, <3>1
    <3>3. u = [w EXCEPT !.key = a]
      BY <1>4, <2>3, <3>1
    <3> QED BY <3>2, <3>3
  <2>10. IsUi(u) /\ u.current = n /\ u.query = ui.query /\ u.found = ui.found
    <3>1. n \in Node
      BY <2>1, <2>2
    <3> QED BY <1>4, <2>9, <3>1 DEF IsUi
  <2>11. WithUi(t, State, u) /\ World(t, Results, Gone)
    BY <1>3, <2>4, UiChanges
  <2>12. t.tree = tree /\ t.ui = u /\ t.heavy = heavy /\ n \in DOMAIN t.tree
    BY <1>3, <2>1, <2>2, <2>11 DEF WithUi
  <2>13. World(y, Results, Gone) /\ y.tree = t.tree /\ y.ui = u /\ y.heavy = heavy
    BY <2>6, <2>11, <2>12, FocusWorld
  <2>14. IsUi(y.ui)
    BY <2>10, <2>13
  <2>15. Settled(r, Results, Gone) /\ SameSearch(r, y)
    BY <2>7, <2>13, <2>14, RebuildSettles
  <2>16. SameSearch(r, State)
    BY <1>3, <2>10, <2>13, <2>15 DEF SameSearch
  <2>17. SearchFits(r)
    BY <2>16, SameSearchFits
  <2> QED BY <1>2, <2>8, <2>15, <2>17, PressKeeps
<1>6. CASE /\ above = NoNode /\ outer # {}
           /\ LET s == OpenDirectory(State, CHOOSE x \in outer : TRUE)
              IN  Becomes(Rebuild([s EXCEPT !.ui.key = ui.current]))
  <2>1. PICK x : x = CHOOSE y \in outer : TRUE
    BY Zenon
  <2>2. x \in Dir
    <3>1. x \in outer
      BY <1>6, <2>1, Zenon
    <3> QED BY <3>1
  <2>3. PICK s : s = OpenDirectory(State, x)
    BY Zenon
  <2>4. Settled(s, Results, Gone) /\ SameSearch(s, State)
    BY <1>3, <2>2, <2>3, OpenSettles
  <2>5. World(s, Results, Gone) /\ IsUi(s.ui)
    BY <2>4 DEF Settled, UiShape
  <2>6. PICK v : v = [s.ui EXCEPT !.key = a]
    BY Zenon
  <2>7. PICK t : t = [s EXCEPT !.ui = v]
    BY Zenon
  <2>8. t = [s EXCEPT !.ui.key = ui.current]
    BY <1>4, <2>6, <2>7, Zenon
  <2>9. PICK r : r = Rebuild(t)
    BY Zenon
  <2>10. Becomes(r)
    BY <1>6, <2>1, <2>3, <2>8, <2>9, Zenon
  <2>11. IsUi(v) /\ v.current = s.ui.current /\ v.query = s.ui.query /\ v.found = s.ui.found
    <3>1. PICK a1, b1, c1, d1, e1, f1, g1, h1 :
           /\ s.ui = [current |-> a1, rows |-> b1, selected |-> c1, key |-> d1,
                    showFiles |-> e1, screen |-> f1, query |-> g1, found |-> h1]
           /\ s.ui.current = a1 /\ s.ui.rows = b1 /\ s.ui.selected = c1 /\ s.ui.key = d1
           /\ s.ui.showFiles = e1 /\ s.ui.screen = f1 /\ s.ui.query = g1 /\ s.ui.found = h1
           /\ a1 \in Node \cup {NoNode} /\ c1 \in Nat \ {0}
      BY <2>5, UiFields
    <3>2. v = [current |-> a1, rows |-> b1, selected |-> c1, key |-> a,
               showFiles |-> e1, screen |-> f1, query |-> g1, found |-> h1]
      BY <2>6, <3>1
    <3> QED BY <3>1, <3>2 DEF IsUi
  <2>13. Settled(r, Results, Gone) /\ SameSearch(r, s)
    BY <2>5, <2>7, <2>9, <2>11, ShownSettles
  <2>14. SameSearch(r, State)
    BY <2>4, <2>13 DEF SameSearch
  <2>15. SearchFits(r)
    BY <2>14, SameSearchFits
  <2> QED BY <1>2, <2>10, <2>13, <2>15, PressKeeps
<1>7. CASE above = NoNode /\ outer = {} /\ Becomes([State EXCEPT !.ui.screen = "dashboard"])
  <2>1. PICK x : x = "dashboard"
    BY Zenon
  <2>2. PICK u : u = [ui EXCEPT !.screen = x]
    BY Zenon
  <2>3. PICK r : r = [State EXCEPT !.ui = u]
    BY Zenon
  <2>4. Becomes(r)
    <3>1. r = [State EXCEPT !.ui.screen = "dashboard"]
      BY <1>3, <2>1, <2>2, <2>3, Zenon
    <3> QED BY <1>7, <3>1
  <2>5. u = [current |-> a, rows |-> b, selected |-> c, key |-> d,
             showFiles |-> e, screen |-> x, query |-> g, found |-> h]
    BY <1>4, <2>2
  <2>6. SameRows(u, ui) /\ u.query = ui.query /\ u.found = ui.found
    BY <1>4, <2>5 DEF SameRows
  <2>7. UiShape(u) /\ u.current = State.ui.current
    BY <1>3, <2>6, SameRowsShape
  <2>8. Settled(r, Results, Gone) /\ WithUi(r, State, u)
    BY <1>3, <2>3, <2>7, UiSettles
  <2>9. SameSearch(r, State)
    BY <1>3, <2>6, <2>8 DEF SameSearch, WithUi
  <2>10. SearchFits(r)
    BY <2>9, SameSearchFits
  <2> QED BY <1>2, <2>4, <2>8, <2>10, PressKeeps
<1> QED BY <1>5, <1>6, <1>7, Zenon DEF GoToParent

LEMMA UiPressKeeps ==
  ASSUME BaseInv, NEW op, NEW screens, Press(op, screens), NEW u, UiShape(u),
         u.current = ui.current, u.query = ui.query, u.found = ui.found,
         NEW r, r = [State EXCEPT !.ui = u], Becomes(r)
  PROVE  BaseInv' /\ SearchMoves
<1>1. State.ui = ui /\ State.heavy = heavy /\ Settled(State, Results, Gone)
  BY StateFields
<1>2. Settled(r, Results, Gone) /\ WithUi(r, State, u)
  BY <1>1, UiSettles
<1>3. SameSearch(r, State)
  BY <1>1, <1>2 DEF SameSearch, WithUi
<1>4. SearchFits(r)
  BY <1>3, SameSearchFits
<1> QED BY <1>2, <1>4, PressKeeps

LEMMA ToggleKeeps ==
  ASSUME BaseInv, ToggleFiles
  PROVE  BaseInv' /\ SearchMoves
<1>1. PICK op, screens : op = "files" /\ screens = {"explorer"}
  BY Zenon
<1>2. UiShape(ui) /\ IsUi(ui) /\ State.ui = ui
  BY StateFields
<1>3. PICK a, b, c, d, e, f, g, h :
           /\ ui = [current |-> a, rows |-> b, selected |-> c, key |-> d,
                    showFiles |-> e, screen |-> f, query |-> g, found |-> h]
           /\ ui.current = a /\ ui.rows = b /\ ui.selected = c /\ ui.key = d
           /\ ui.showFiles = e /\ ui.screen = f /\ ui.query = g /\ ui.found = h
           /\ a \in Node \cup {NoNode} /\ c \in Nat \ {0}
  BY <1>2, UiFields
<1>4. PICK x : x = ~ui.showFiles
  BY Zenon
<1>5. PICK u : u = [ui EXCEPT !.showFiles = x]
  BY Zenon
<1>6. PICK r : r = [State EXCEPT !.ui = u]
  BY Zenon
<1>7. Becomes(r) /\ Press(op, screens)
  <2>1. u = [ui EXCEPT !.showFiles = ~@]
    BY <1>4, <1>5, Zenon
  <2>2. r = [State EXCEPT !.ui.showFiles = ~@]
    BY <1>2, <1>4, <1>5, <1>6, Zenon
  <2> QED BY <1>1, <2>2, Zenon DEF ToggleFiles
<1>8. u = [current |-> a, rows |-> b, selected |-> c, key |-> d,
           showFiles |-> x, screen |-> f, query |-> g, found |-> h]
  BY <1>3, <1>5
<1>9. SameRows(u, ui) /\ u.query = ui.query /\ u.found = ui.found
  BY <1>3, <1>8 DEF SameRows
<1>10. UiShape(u) /\ u.current = ui.current
  BY <1>2, <1>9, SameRowsShape
<1> QED BY <1>6, <1>7, <1>9, <1>10, UiPressKeeps

LEMMA CursorKeeps ==
  ASSUME BaseInv, MoveCursor
  PROVE  BaseInv' /\ SearchMoves
<1>1. PICK op, screens : op = "cursor" /\ screens = {"explorer"}
  BY Zenon
<1>2. UiShape(ui) /\ State.ui = ui
  BY StateFields
<1>3. PICK down : Becomes([State EXCEPT !.ui = MoveSelection(@, down)])
  BY Zenon DEF MoveCursor
<1>4. PICK u : u = MoveSelection(ui, down)
  BY Zenon
<1>5. PICK r : r = [State EXCEPT !.ui = u]
  BY Zenon
<1>6. Becomes(r) /\ Press(op, screens)
  <2>1. r = [State EXCEPT !.ui = MoveSelection(@, down)]
    BY <1>2, <1>4, <1>5, Zenon
  <2> QED BY <1>1, <1>3, <2>1, Zenon DEF MoveCursor
<1>7. UiShape(u) /\ SameScreen(u, ui) /\ u.current = ui.current
  BY <1>2, <1>4, MoveShape
<1>8. u.query = ui.query /\ u.found = ui.found
  BY <1>7 DEF SameScreen
<1> QED BY <1>5, <1>6, <1>7, <1>8, UiPressKeeps

(* A search starts, and the one before it is dropped. *)
LEMMA StartSettles ==
  ASSUME BaseInv, NEW limit \in Nat
  PROVE  LET r == StartHeaviest(State, limit)
         IN  Settled(r, Results, Gone) /\ SearchFits(r)
<1>1. /\ State.tree = tree /\ State.heavy = heavy /\ State.ui = ui /\ IsState(State)
      /\ Settled(State, Results, Gone) /\ World(State, Results, Gone)
      /\ UiShape(ui) /\ IsUi(ui) /\ TreeShape(tree, made)
  BY StateFields
<1>2. HeavyShape(heavy) /\ ui.query \in DOMAIN heavy.queries \cup {NoQuery}
      /\ Elements(ui.found) \subseteq FileSet
  BY DEF BaseInv, SearchShape
<1>3. CASE ui.current = NoNode
  <2>1. StartHeaviest(State, limit) = State
    BY <1>1, <1>3, Zenon DEF StartHeaviest
  <2>2. heavy.next <= heavy.next
    BY <1>2 DEF HeavyShape, QueryNr
  <2>3. Searched(heavy, heavy)
    BY Zenon DEF Searched
  <2> QED BY <1>1, <1>2, <2>1, <2>2, <2>3 DEF SearchFits
<1>4. CASE ui.current # NoNode
  <2>1. PICK h : h = IF ui.query = NoQuery THEN heavy ELSE CancelQuery(heavy, ui.query)
    BY Zenon
  <2>2. HeavyShape(h) /\ h.next = heavy.next
    <3>1. CASE ui.query = NoQuery
      BY <1>2, <2>1, <3>1
    <3>2. CASE ui.query # NoQuery
      <4>1. h = CancelQuery(heavy, ui.query)
        BY <2>1, <3>2, Zenon
      <4> QED BY <1>2, <4>1, CancelShape
    <3> QED BY <3>1, <3>2
  <2>3. PICK ok : ok = (ui.current \in DOMAIN tree)
    BY Zenon
  <2>4. PICK z : z = Depth(tree, ui.current)
    BY Zenon
  <2>5. ok => z \in Nat
    <3>1. CASE ok
      <4>1. PICK T, m : T = tree /\ m = ui.current
        BY Zenon
      <4>2. m \in DOMAIN T /\ TreeShape(T, made)
        BY <1>1, <2>3, <3>1, <4>1
      <4>3. Ancestors(T, m) \subseteq DOMAIN T
        BY <4>2, LineBelow DEF Ancestors
      <4>4. IsFiniteSet(Ancestors(T, m))
        BY <4>2, <4>3, FS_Subset DEF TreeShape
      <4> QED BY <2>4, <4>1, <4>4, FS_CardinalityType DEF Depth
    <3> QED BY <3>1
  <2>6. PICK k : k = IF ok THEN StartQuery(h, ui.current.dir, z, limit) ELSE h
    BY Zenon
  <2>7. PICK x : x = IF ok THEN h.next ELSE NoQuery
    BY Zenon
  <2>8. HeavyShape(k) /\ heavy.next <= k.next /\ x \in DOMAIN k.queries \cup {NoQuery}
    <3>1. CASE ok
      <4>1. ui.current.dir \in Dir
        <5>1. ui.current \in DOMAIN tree
          BY <2>3, <3>1
        <5>2. ui.current \in Node
          BY <1>1, <5>1 DEF TreeShape
        <5> QED BY <5>2, Directories
      <4>2. k = StartQuery(h, ui.current.dir, z, limit) /\ x = h.next /\ z \in Nat
        BY <2>6, <2>7, <2>5, <3>1, Zenon
      <4>3. PICK d : d = ui.current.dir
        BY Zenon
      <4>4. HeavyShape(k) /\ DOMAIN k.queries = DOMAIN h.queries \cup {h.next}
            /\ k.next = h.next + 1
        <5>1. d \in Dir /\ z \in Nat /\ k = StartQuery(h, d, z, limit)
          BY <4>1, <4>2, <4>3, Zenon
        <5>2. PICK g : g = StartQuery(h, d, z, limit)
          BY Zenon
        <5>3. HeavyShape(g) /\ DOMAIN g.queries = DOMAIN h.queries \cup {h.next} /\ g.next = h.next + 1
          <6>1. limit \in Nat /\ d \in Dir /\ z \in Nat /\ HeavyShape(h)
            BY <2>2, <5>1
          <6>2. LET i == StartQuery(h, d, z, limit)
                IN  HeavyShape(i) /\ DOMAIN i.queries = DOMAIN h.queries \cup {h.next}
                    /\ i.next = h.next + 1
            BY <6>1, StartShape
          <6> QED BY <5>2, <6>2
        <5> QED BY <5>1, <5>2, <5>3, Zenon
      <4>5. heavy.next <= h.next + 1
        BY <1>2, <2>2 DEF HeavyShape, QueryNr
      <4> QED BY <4>2, <4>4, <4>5
    <3>2. CASE ~ok
      <4>1. k = h /\ x = NoQuery
        BY <2>6, <2>7, <3>2, Zenon
      <4>2. heavy.next <= h.next
        BY <1>2, <2>2 DEF HeavyShape, QueryNr
      <4> QED BY <2>2, <4>1, <4>2
    <3> QED BY <3>1, <3>2
  <2>9. PICK em, scr : em = <<>> /\ scr = "heaviest"
    BY Zenon
  <2>10. PICK u : u = [ui EXCEPT !.query = x, !.found = em, !.screen = scr]
    BY Zenon
  <2>11. PICK a, b, c, d, e, f, g, y :
           /\ ui = [current |-> a, rows |-> b, selected |-> c, key |-> d,
                    showFiles |-> e, screen |-> f, query |-> g, found |-> y]
           /\ ui.current = a /\ ui.rows = b /\ ui.selected = c /\ ui.key = d
           /\ ui.showFiles = e /\ ui.screen = f /\ ui.query = g /\ ui.found = y
           /\ a \in Node \cup {NoNode} /\ c \in Nat \ {0}
    BY <1>1, UiFields
  <2>12. u = [current |-> a, rows |-> b, selected |-> c, key |-> d,
              showFiles |-> e, screen |-> scr, query |-> x, found |-> em]
    <3>1. PICK v : v = [ui EXCEPT !.query = x]
      BY Zenon
    <3>2. v = [current |-> a, rows |-> b, selected |-> c, key |-> d,
               showFiles |-> e, screen |-> f, query |-> x, found |-> y]
      BY <2>11, <3>1
    <3>3. PICK w : w = [v EXCEPT !.found = em]
      BY Zenon
    <3>4. w = [current |-> a, rows |-> b, selected |-> c, key |-> d,
               showFiles |-> e, screen |-> f, query |-> x, found |-> em]
      BY <3>2, <3>3
    <3>5. u = [w EXCEPT !.screen = scr]
      BY <2>10, <3>1, <3>3
    <3> QED BY <3>4, <3>5
  <2>13. SameRows(u, ui) /\ u.query = x /\ u.found = em
    BY <2>11, <2>12 DEF SameRows
  <2>14. UiShape(u) /\ u.current = State.ui.current
    BY <1>1, <2>13, SameRowsShape
  <2>15. PICK t : t = [State EXCEPT !.ui = u]
    BY Zenon
  <2>16. Settled(t, Results, Gone) /\ WithUi(t, State, u)
    BY <1>1, <2>14, <2>15, UiSettles
  <2>17. PICK r : r = StartHeaviest(State, limit)
    BY Zenon
  <2>18. r = [State EXCEPT !.heavy = k, !.ui = u]
    <3>1. u = [ui EXCEPT !.query = IF ui.current \in DOMAIN tree THEN h.next ELSE NoQuery,
                         !.found = <<>>, !.screen = "heaviest"]
      BY <2>3, <2>7, <2>9, <2>10, Zenon
    <3>2. k = IF ui.current \in DOMAIN tree
              THEN StartQuery(h, ui.current.dir, Depth(tree, ui.current), limit) ELSE h
      BY <2>3, <2>6, <2>4, Zenon
    <3>3. PICK s : s = State
      BY Zenon
    <3>4. s.ui = ui /\ s.tree = tree /\ s.heavy = heavy
      BY <1>1, <3>3
    <3>5. r = [s EXCEPT !.heavy = k,
                        !.ui = [@ EXCEPT !.query = IF ui.current \in DOMAIN tree THEN h.next ELSE NoQuery,
                                         !.found = <<>>, !.screen = "heaviest"]]
      BY <1>4, <2>1, <2>17, <3>2, <3>3, <3>4, Zenon DEF StartHeaviest
    <3> QED BY <3>1, <3>3, <3>4, <3>5, Zenon
  <2>19. /\ IsState(r) /\ r.tree = t.tree /\ r.scans = t.scans /\ r.made = t.made
         /\ r.cache = t.cache /\ r.heavy = k /\ r.ui = u
    <3>1. PICK i, j, m, l, n, o : State = [tree |-> i, scans |-> j, made |-> m, cache |-> l,
                                   heavy |-> n, ui |-> o]
      BY <1>1, Zenon DEF IsState
    <3>2. t = [tree |-> i, scans |-> j, made |-> m, cache |-> l, heavy |-> n, ui |-> u]
      BY <2>15, <3>1
    <3>3. PICK w : w = [State EXCEPT !.heavy = k]
      BY Zenon
    <3>4. w = [tree |-> i, scans |-> j, made |-> m, cache |-> l, heavy |-> k, ui |-> o]
      BY <3>1, <3>3
    <3>5. r = [w EXCEPT !.ui = u]
      BY <2>18, <3>3
    <3>6. r = [tree |-> i, scans |-> j, made |-> m, cache |-> l, heavy |-> k, ui |-> u]
      BY <3>4, <3>5
    <3> QED BY <3>2, <3>6 DEF IsState
  <2>20. t.ui = u
    BY <2>16 DEF WithUi
  <2>21. Settled(r, Results, Gone)
    BY <2>16, <2>19, <2>20 DEF Settled, World
  <2>22. Elements(em) \subseteq FileSet
    BY <2>9 DEF Elements
  <2>23. Searched(heavy, k)
    <3>1. h = heavy \/ \E v : h = CancelQuery(heavy, v)
      BY <2>1, Zenon
    <3>2. k = h \/ \E v \in Dir, m \in Nat, n \in Nat : k = StartQuery(h, v, m, n)
      <4>1. ok => ui.current.dir \in Dir
        BY <1>1, <2>3, Directories DEF TreeShape
      <4> QED BY <2>6, <2>5, <4>1, Zenon
    <3> QED BY <3>1, <3>2, Zenon DEF Searched
  <2>24. SearchFits(r)
    BY <2>8, <2>13, <2>19, <2>22, <2>23 DEF SearchFits
  <2> QED BY <2>17, <2>21, <2>24
<1> QED BY <1>3, <1>4

LEMMA Limits ==
  ASSUME BaseInv, NEW limit \in scenario.limits
  PROVE  limit \in Nat
<1>1. scenario \in Scenarios
  BY DEF BaseInv
<1>2. \A sc \in Scenarios : sc.limits \subseteq Nat
  BY ExplorerAssumption
<1> QED BY <1>1, <1>2

LEMMA StartKeeps ==
  ASSUME BaseInv, StartHeaviestQuery
  PROVE  BaseInv' /\ SearchMoves
<1>1. PICK op, screens : op = "heaviest" /\ screens = {"explorer", "heaviest"}
  BY Zenon
<1>2. PICK limit \in scenario.limits : Becomes(StartHeaviest(State, limit))
  BY Zenon DEF StartHeaviestQuery
<1>3. Press(op, screens)
  BY <1>1, Zenon DEF StartHeaviestQuery
<1>4. PICK r : r = StartHeaviest(State, limit)
  BY Zenon
<1>5. Settled(r, Results, Gone) /\ SearchFits(r)
  BY <1>4, Limits, StartSettles
<1> QED BY <1>2, <1>3, <1>4, <1>5, PressKeeps

LEMMA ScreenKeeps ==
  ASSUME BaseInv, SwitchScreen
  PROVE  BaseInv' /\ SearchMoves
<1>1. PICK op, screens : op = "screen" /\ screens = {"explorer", "heaviest", "dashboard"}
  BY Zenon
<1>2. Press(op, screens)
  BY <1>1, Zenon DEF SwitchScreen
<1>3. PICK screen :
        \/ Becomes([State EXCEPT !.ui.screen = screen])
        \/ \E limit \in scenario.limits : Becomes(StartHeaviest(State, limit))
  BY Zenon DEF SwitchScreen
<1>4. CASE Becomes([State EXCEPT !.ui.screen = screen])
  <2>1. UiShape(ui) /\ IsUi(ui) /\ State.ui = ui
    BY StateFields
  <2>2. PICK a, b, c, d, e, f, g, h :
           /\ ui = [current |-> a, rows |-> b, selected |-> c, key |-> d,
                    showFiles |-> e, screen |-> f, query |-> g, found |-> h]
           /\ ui.current = a /\ ui.rows = b /\ ui.selected = c /\ ui.key = d
           /\ ui.showFiles = e /\ ui.screen = f /\ ui.query = g /\ ui.found = h
           /\ a \in Node \cup {NoNode} /\ c \in Nat \ {0}
    BY <2>1, UiFields
  <2>3. PICK u : u = [ui EXCEPT !.screen = screen]
    BY Zenon
  <2>4. PICK r : r = [State EXCEPT !.ui = u]
    BY Zenon
  <2>5. Becomes(r)
    <3>1. r = [State EXCEPT !.ui.screen = screen]
      BY <2>1, <2>3, <2>4, Zenon
    <3> QED BY <1>4, <3>1
  <2>6. u = [current |-> a, rows |-> b, selected |-> c, key |-> d,
             showFiles |-> e, screen |-> screen, query |-> g, found |-> h]
    BY <2>2, <2>3
  <2>7. SameRows(u, ui) /\ u.query = ui.query /\ u.found = ui.found
    BY <2>2, <2>6 DEF SameRows
  <2>8. UiShape(u) /\ u.current = ui.current
    BY <2>1, <2>7, SameRowsShape
  <2> QED BY <1>2, <2>4, <2>5, <2>7, <2>8, UiPressKeeps
<1>5. CASE \E limit \in scenario.limits : Becomes(StartHeaviest(State, limit))
  <2>1. PICK limit \in scenario.limits : Becomes(StartHeaviest(State, limit))
    BY <1>5
  <2>2. PICK r : r = StartHeaviest(State, limit)
    BY Zenon
  <2>3. Settled(r, Results, Gone) /\ SearchFits(r)
    BY <2>2, Limits, StartSettles
  <2> QED BY <1>2, <2>1, <2>2, <2>3, PressKeeps
<1> QED BY <1>3, <1>4, <1>5

LEMMA JumpKeeps ==
  ASSUME BaseInv, JumpToHeaviestFile
  PROVE  BaseInv' /\ SearchMoves
<1>1. PICK op, screens : op = "jump" /\ screens = {"heaviest"}
  BY Zenon
<1>2. Press(op, screens)
  BY <1>1, Zenon DEF JumpToHeaviestFile
<1>3. PICK f \in Elements(ui.found) :
        LET s == OpenDirectory(State, DirOf(f))
        IN  Becomes(Rebuild([s EXCEPT !.ui = [@ EXCEPT !.key = f, !.screen = "explorer"]]))
  BY Zenon DEF JumpToHeaviestFile
<1>4. PICK x : x = DirOf(f)
  BY Zenon
<1>5. x \in Dir
  <2>1. f \in FileSet
    BY DEF BaseInv, SearchShape
  <2>2. \E d \in Dir : f \in Elements(FilesIn[d])
    BY <2>1 DEF FileSet
  <2> QED BY <1>4, <2>2, Zenon DEF DirOf
<1>6. PICK s : s = OpenDirectory(State, x)
  BY Zenon
<1>7. State.ui = ui /\ IsUi(ui) /\ World(State, Results, Gone)
  BY StateFields
<1>8. Settled(s, Results, Gone) /\ SameSearch(s, State)
  BY <1>5, <1>6, <1>7, OpenSettles
<1>9. World(s, Results, Gone) /\ IsUi(s.ui)
  BY <1>8 DEF Settled, UiShape
<1>10. PICK scr : scr = "explorer"
  BY Zenon
<1>11. PICK v : v = [s.ui EXCEPT !.key = f, !.screen = scr]
  BY Zenon
<1>12. PICK t : t = [s EXCEPT !.ui = v]
  BY Zenon
<1>13. t = [s EXCEPT !.ui = [@ EXCEPT !.key = f, !.screen = "explorer"]]
  BY <1>10, <1>11, <1>12, Zenon
<1>14. PICK r : r = Rebuild(t)
  BY Zenon
<1>15. Becomes(r)
  BY <1>3, <1>4, <1>6, <1>13, <1>14, Zenon
<1>16. IsUi(v) /\ v.current = s.ui.current /\ v.query = s.ui.query /\ v.found = s.ui.found
  <2>1. PICK a1, b1, c1, d1, e1, f1, g1, h1 :
         /\ s.ui = [current |-> a1, rows |-> b1, selected |-> c1, key |-> d1,
                  showFiles |-> e1, screen |-> f1, query |-> g1, found |-> h1]
         /\ s.ui.current = a1 /\ s.ui.rows = b1 /\ s.ui.selected = c1 /\ s.ui.key = d1
         /\ s.ui.showFiles = e1 /\ s.ui.screen = f1 /\ s.ui.query = g1 /\ s.ui.found = h1
         /\ a1 \in Node \cup {NoNode} /\ c1 \in Nat \ {0}
    BY <1>9, UiFields
  <2>2. PICK w : w = [s.ui EXCEPT !.key = f]
    BY Zenon
  <2>3. w = [current |-> a1, rows |-> b1, selected |-> c1, key |-> f,
             showFiles |-> e1, screen |-> f1, query |-> g1, found |-> h1]
    BY <2>1, <2>2
  <2>4. v = [w EXCEPT !.screen = scr]
    BY <1>11, <2>2
  <2>5. v = [current |-> a1, rows |-> b1, selected |-> c1, key |-> f,
             showFiles |-> e1, screen |-> scr, query |-> g1, found |-> h1]
    BY <2>3, <2>4
  <2> QED BY <2>1, <2>5 DEF IsUi
<1>18. Settled(r, Results, Gone) /\ SameSearch(r, s)
  BY <1>9, <1>12, <1>14, <1>16, ShownSettles
<1>19. SameSearch(r, State)
  BY <1>8, <1>18 DEF SameSearch
<1>20. SearchFits(r)
  BY <1>19, SameSearchFits
<1> QED BY <1>2, <1>15, <1>18, <1>20, PressKeeps

(* With fewer files gone the cache is right all the more. *)
LEMMA FewerGone ==
  ASSUME NEW s, NEW A, NEW G, Settled(s, A, G), NEW H, H \subseteq G
  PROVE  Settled(s, A, H)
<1>1. Clean(s.cache, A, G)
  BY DEF Settled, World, CacheInv
<1>2. Clean(s.cache, A, H)
  BY <1>1 DEF Clean
<1> QED BY <1>2 DEF Settled, World, CacheInv

(* Marks that fit, with another one, or without one. *)
LEMMA MarkedFits ==
  ASSUME NEW M, MarksFit(M), NEW f \in FileSet, NEW n, MarkFits(f, n)
  PROVE  MarksFit(With(M, f, n)) /\ MarksFit(Forget(M, f))
<1>1. IsFiniteSet(DOMAIN M \cup {f})
  BY FS_AddElement DEF MarksFit
<1>2. IsFiniteSet(DOMAIN M \ {f})
  BY FS_Subset DEF MarksFit
<1>3. MarksFit(With(M, f, n))
  <2>1. PICK W : W = With(M, f, n)
    BY Zenon
  <2>2. DOMAIN W = DOMAIN M \cup {f} /\ \A x \in DOMAIN W : W[x] = IF x = f THEN n ELSE M[x]
    BY <2>1 DEF With
  <2>3. \A x \in DOMAIN W : MarkFits(x, W[x])
    BY <2>2 DEF MarksFit
  <2> QED BY <1>1, <2>1, <2>2, <2>3 DEF MarksFit
<1>4. MarksFit(Forget(M, f))
  <2>1. PICK W : W = Forget(M, f)
    BY Zenon
  <2>2. DOMAIN W = DOMAIN M \ {f} /\ \A x \in DOMAIN W : W[x] = M[x]
    BY <2>1 DEF Forget
  <2>3. \A x \in DOMAIN W : MarkFits(x, W[x])
    BY <2>2 DEF MarksFit
  <2> QED BY <1>2, <2>1, <2>2, <2>3 DEF MarksFit
<1> QED BY <1>3, <1>4

(* A file is marked, or its mark is taken away. *)
LEMMA MarkSettles ==
  ASSUME BaseInv, MarkSelected \/ MarkOnHeaviest
  PROVE  /\ MarksFit(marks')
         /\ \E r : Becomes(r) /\ Settled(r, Results, Gone) /\ SameSearch(r, State)
<1>1. /\ State.ui = ui /\ State.tree = tree /\ State.heavy = heavy /\ IsState(State)
      /\ Settled(State, Results, Gone) /\ UiShape(ui) /\ TreeShape(tree, made)
  BY StateFields
<1>2. MarksFit(marks) /\ Elements(ui.found) \subseteq FileSet
  BY DEF BaseInv, MarksShape, SearchShape
<1>3. ASSUME NEW f \in FileSet, NEW n, MarkFits(f, n), marks' = Marked(f, n)
      PROVE  MarksFit(marks')
  <2>1. PICK M : M = marks
    BY Zenon
  <2>2. marks' = With(M, f, n) \/ marks' = Forget(M, f)
    BY <1>3, <2>1, Zenon DEF Marked
  <2>3. MarksFit(With(M, f, n)) /\ MarksFit(Forget(M, f))
    BY <1>2, <1>3, <2>1, MarkedFits
  <2> QED BY <2>2, <2>3
<1>4. CASE MarkSelected
  <2>1. HasRow /\ ~Row.dir /\ marks' = Marked(Row.key, ui.current)
        /\ Becomes([State EXCEPT !.ui = MoveSelection(@, TRUE)])
    BY <1>4, Zenon DEF MarkSelected
  <2>2. PICK k : k = Row.key
    BY Zenon
  <2>3. ui.current \in Node /\ k \in Elements(FilesIn[ui.current.dir]) /\ k \in FileSet
    <3>1. Row \in Elements(ui.rows)
      BY <2>1 DEF HasRow, Row, Elements
    <3>2. ui.current \in Node /\ k \in Elements(FilesIn[ui.current.dir])
      BY <1>1, <2>1, <2>2, <3>1 DEF UiShape
    <3> QED BY <3>2, Directories DEF FileSet
  <2>4. MarksFit(marks')
    BY <1>3, <2>1, <2>2, <2>3 DEF MarkFits
  <2>5. PICK down : down = TRUE
    BY Zenon
  <2>6. PICK u : u = MoveSelection(ui, down)
    BY Zenon
  <2>7. PICK r : r = [State EXCEPT !.ui = u]
    BY Zenon
  <2>8. Becomes(r)
    <3>1. r = [State EXCEPT !.ui = MoveSelection(@, TRUE)]
      BY <1>1, <2>5, <2>6, <2>7, Zenon
    <3> QED BY <2>1, <3>1
  <2>9. UiShape(u) /\ SameScreen(u, ui) /\ u.current = ui.current
    BY <1>1, <2>6, MoveShape
  <2>10. Settled(r, Results, Gone) /\ WithUi(r, State, u)
    BY <1>1, <2>7, <2>9, UiSettles
  <2>11. SameSearch(r, State)
    BY <1>1, <2>9, <2>10 DEF WithUi, SameScreen, SameSearch
  <2> QED BY <2>4, <2>8, <2>10, <2>11
<1>5. CASE MarkOnHeaviest
  <2>1. PICK f \in Elements(ui.found) : marks' = Marked(f, Place(tree, DirOf(f)))
    BY <1>5, Zenon DEF MarkOnHeaviest
  <2>2. PICK n, x : x = DirOf(f) /\ n = Place(tree, x)
    BY Zenon
  <2>3. f \in FileSet /\ x \in Dir /\ f \in Elements(FilesIn[x])
    BY <1>2, <2>2, OwnDirectory
  <2>4. MarkFits(f, n)
    <3>1. CASE NodesAt(tree, x) = {}
      BY <2>2, <3>1, Zenon DEF Place, MarkFits
    <3>2. CASE NodesAt(tree, x) # {}
      <4>1. n \in NodesAt(tree, x)
        BY <2>2, <3>2, Zenon DEF Place
      <4> QED BY <1>1, <2>3, <4>1 DEF NodesAt, TreeShape, MarkFits
    <3> QED BY <3>1, <3>2
  <2>5. MarksFit(marks')
    BY <1>3, <2>1, <2>2, <2>3, <2>4
  <2>6. Becomes(State)
    BY <1>5, Zenon DEF MarkOnHeaviest
  <2>7. SameSearch(State, State)
    BY Zenon DEF SameSearch
  <2> QED BY <1>1, <2>5, <2>6, <2>7
<1> QED BY <1>4, <1>5

(* A key that changes what is marked, or starts to remove it. *)
LEMMA MarkingKeeps ==
  ASSUME BaseInv, NEW op, NEW screens, Key(op, screens),
         NEW r, Becomes(r), Settled(r, Results, Gone), SameSearch(r, State),
         onDisk' = onDisk, missed' = missed, MarksFit(marks'), DOMAIN removal' \subseteq DOMAIN marks',
         \A f \in DOMAIN removal' : removal'[f] = "waiting"
  PROVE  BaseInv' /\ SearchMoves
<1>1. /\ removal = <<>> /\ lister' = lister /\ answers' = answers
      /\ walker' = walker /\ progress' = progress /\ scenario' = scenario
  BY DEF Key
<1>2. IsState(r) /\ State' = r
  BY NextState DEF Settled, World
<1>3. Results' = Results
  BY <1>1 DEF Results, Underway
<1>4. Gone' \subseteq Gone
  BY <1>1 DEF Gone, Absorbed, Existing
<1>5. Settled(State', Results', Gone')
  <2>1. PICK H : H = Gone'
    BY Zenon
  <2>2. Settled(r, Results, H)
    BY <1>4, <2>1, FewerGone
  <2> QED BY <1>2, <1>3, <2>1, <2>2
<1>6. ThreadsShape'
  BY <1>1 DEF BaseInv, ThreadsShape
<1>7. SearchFits(r)
  BY SameSearchFits
<1>8. SearchShape'
  <2>1. heavy' = r.heavy /\ ui' = r.ui /\ SearchShape
    BY DEF Becomes, BaseInv
  <2> QED BY <1>1, <1>7, <2>1, SearchKept
<1>9. MarksShape'
  BY DEF MarksShape
<1>10. DiskShape(onDisk') /\ DOMAIN onDisk' = Dir /\ scenario' \in Scenarios
  BY <1>1 DEF BaseInv
<1>11. SearchMoves
  BY <1>1, <1>7 DEF SearchMoves, SearchFits, Becomes
<1> QED BY <1>5, <1>6, <1>8, <1>9, <1>10, <1>11 DEF BaseInv

LEMMA MarkKeeps ==
  ASSUME BaseInv, ToggleMark
  PROVE  BaseInv' /\ SearchMoves
<1>1. PICK op, screens : op = "mark" /\ screens = {"explorer", "heaviest"}
  BY Zenon
<1>2. /\ Key(op, screens) /\ (MarkSelected \/ MarkOnHeaviest)
      /\ onDisk' = onDisk /\ removal' = removal /\ missed' = missed
  BY <1>1, Zenon DEF ToggleMark
<1>3. removal' = <<>> /\ DOMAIN removal' = {}
  BY <1>2 DEF Key
<1>4. PICK r : Becomes(r) /\ Settled(r, Results, Gone) /\ SameSearch(r, State)
  BY <1>2, MarkSettles
<1>5. MarksFit(marks')
  BY <1>2, MarkSettles
<1> QED BY <1>2, <1>3, <1>4, <1>5, MarkingKeeps

LEMMA DeleteKeeps ==
  ASSUME BaseInv, Delete
  PROVE  BaseInv' /\ SearchMoves
<1>1. PICK op, screens : op = "delete" /\ screens = {"explorer", "heaviest"}
  BY Zenon
<1>2. /\ Key(op, screens) /\ onDisk' = onDisk /\ missed' = missed
      /\ removal' = [f \in DOMAIN marks' |-> "waiting"]
  BY <1>1, Zenon DEF Delete
<1>3. DOMAIN removal' \subseteq DOMAIN marks' /\ \A f \in DOMAIN removal' : removal'[f] = "waiting"
  BY <1>2
<1>4. /\ MarksFit(marks')
      /\ \E r : Becomes(r) /\ Settled(r, Results, Gone) /\ SameSearch(r, State)
  <2>1. CASE marks' = marks /\ Becomes(State)
    <3>1. SameSearch(State, State)
      BY Zenon DEF SameSearch
    <3>2. MarksFit(marks) /\ Settled(State, Results, Gone)
      BY DEF BaseInv, MarksShape
    <3> QED BY <2>1, <3>1, <3>2
  <2>2. CASE MarkSelected \/ MarkOnHeaviest
    BY <2>2, MarkSettles
  <2> QED BY <2>1, <2>2, Zenon DEF Delete
<1>5. PICK r : Becomes(r) /\ Settled(r, Results, Gone) /\ SameSearch(r, State)
  BY <1>4
<1> QED BY <1>2, <1>3, <1>4, <1>5, MarkingKeeps

(* The deletion thread removes a file, or leaves it. *)
LEMMA RemoveKeeps ==
  ASSUME BaseInv, RemoveNextFile
  PROVE  BaseInv' /\ SearchMoves
<1>1. PICK k \in FilesWaiting :
       \/ /\ removal' = [removal EXCEPT ![k] = "removed"]
          /\ onDisk' = [d \in Dir |-> Retain(onDisk[d], Elements(onDisk[d]) \ {k})]
       \/ /\ k \in Existing
          /\ removal' = [removal EXCEPT ![k] = "kept"] /\ UNCHANGED onDisk
  BY DEF RemoveNextFile
<1>2. /\ cache' = cache /\ lister' = lister /\ answers' = answers /\ tree' = tree
      /\ scans' = scans /\ made' = made /\ ui' = ui /\ marks' = marks /\ missed' = missed
      /\ heavy' = heavy /\ walker' = walker /\ progress' = progress /\ scenario' = scenario
  BY DEF RemoveNextFile, listingVars, heavyVars, treeVars
<1>3. /\ k \in DOMAIN removal /\ k \in FileSet /\ DiskShape(onDisk) /\ DOMAIN onDisk = Dir
      /\ DOMAIN removal \subseteq DOMAIN marks /\ MarksFit(marks)
      /\ \A f \in DOMAIN removal :
           removal[f] \in {"waiting", "removed", "kept"} /\ (removal[f] = "kept" => f \in Existing)
  <2>1. k \in DOMAIN removal
    BY DEF FilesWaiting
  <2> QED BY <2>1 DEF BaseInv, MarksShape, MarksFit
<1>4. /\ DiskShape(onDisk') /\ DOMAIN onDisk' = Dir /\ MarksShape'
      /\ DOMAIN removal' = DOMAIN removal /\ Existing \subseteq Existing' \cup {k}
      /\ onDisk' = onDisk \/ onDisk' # FilesIn
  <2>1. CASE /\ removal' = [removal EXCEPT ![k] = "removed"]
             /\ onDisk' = [d \in Dir |-> Retain(onDisk[d], Elements(onDisk[d]) \ {k})]
    <3>1. ASSUME NEW d \in Dir
          PROVE  /\ onDisk'[d] \in Seq(Elements(FilesIn[d])) /\ Distinct(onDisk'[d])
                 /\ Elements(onDisk'[d]) = Elements(onDisk[d]) \ {k}
      <4>1. PICK X, S, q : X = Elements(onDisk[d]) \ {k} /\ S = Elements(FilesIn[d]) /\ q = onDisk[d]
        BY Zenon
      <4>2. onDisk'[d] = Retain(q, X)
        BY <2>1, <4>1
      <4>3. q \in Seq(S) /\ Distinct(q)
        BY <1>3, <4>1 DEF DiskShape
      <4>4. /\ Retain(q, X) \in Seq(S \cap X)
            /\ Elements(Retain(q, X)) = Elements(q) \cap X
        BY <4>3, RetainMembers
      <4>5. Distinct(Retain(q, X))
        BY <4>3, RetainDistinct
      <4>6. Retain(q, X) \in Seq(S)
        BY <4>4
      <4> QED BY <4>1, <4>2, <4>4, <4>5, <4>6
    <3>2. DiskShape(onDisk') /\ DOMAIN onDisk' = Dir
      BY <2>1, <3>1 DEF DiskShape
    <3>3. Existing' = Existing \ {k}
      <4>1. \A x : x \in Existing' <=> \E d \in Dir : x \in Elements(onDisk'[d])
        BY Zenon DEF Existing
      <4>2. \A x : x \in Existing <=> \E d \in Dir : x \in Elements(onDisk[d])
        BY Zenon DEF Existing
      <4>3. \A d \in Dir : Elements(onDisk'[d]) = Elements(onDisk[d]) \ {k}
        BY <3>1
      <4> QED BY <4>1, <4>2, <4>3
    <3>4. DOMAIN removal' = DOMAIN removal /\ removal'[k] = "removed"
          /\ \A f \in DOMAIN removal \ {k} : removal'[f] = removal[f]
      BY <1>3, <2>1
    <3>5. MarksShape'
      BY <1>2, <1>3, <3>3, <3>4 DEF MarksShape
    <3>6. onDisk' # FilesIn
      <4>1. PICK d \in Dir : k \in Elements(FilesIn[d])
        BY <1>3 DEF FileSet
      <4>2. k \notin Elements(onDisk'[d])
        BY <3>1
      <4> QED BY <4>1, <4>2
    <3> QED BY <3>2, <3>3, <3>4, <3>5, <3>6
  <2>2. CASE k \in Existing /\ removal' = [removal EXCEPT ![k] = "kept"] /\ onDisk' = onDisk
    <3>1. Existing' = Existing
      BY <2>2 DEF Existing
    <3>2. DOMAIN removal' = DOMAIN removal /\ removal'[k] = "kept"
          /\ \A f \in DOMAIN removal \ {k} : removal'[f] = removal[f]
      BY <1>3, <2>2
    <3>3. MarksShape'
      BY <1>2, <1>3, <2>2, <3>1, <3>2 DEF MarksShape
    <3> QED BY <1>3, <2>2, <3>1, <3>2, <3>3
  <2> QED BY <1>1, <2>1, <2>2
<1>5. State' = State /\ Results' = Results
  BY <1>2 DEF State, Results, Underway
<1>6. Gone' \subseteq Gone
  BY <1>2, <1>3, <1>4 DEF Gone, Absorbed
<1>7. Settled(State', Results', Gone')
  <2>1. PICK s, H : s = State /\ H = Gone'
    BY Zenon
  <2>2. Settled(s, Results, Gone)
    BY <2>1 DEF BaseInv
  <2>3. Settled(s, Results, H)
    BY <1>6, <2>1, <2>2, FewerGone
  <2> QED BY <1>5, <2>1, <2>3
<1>8. ThreadsShape' /\ SearchShape' /\ scenario' \in Scenarios
  BY <1>2 DEF BaseInv, ThreadsShape, SearchShape, AllWalks, TasksAt
<1>9. SearchMoves
  <2>1. Searched(heavy, heavy)
    BY Zenon DEF Searched
  <2> QED BY <1>2, <1>4, <2>1 DEF SearchMoves
<1> QED BY <1>4, <1>7, <1>8, <1>9 DEF BaseInv

-----------------------------------------------------------------------------
(* The threads keep the invariant. *)

(* A request that a thread took is among the results. *)
LEMMA TakenKeeps ==
  ASSUME NEW c, NEW T, NEW A, NEW G, CacheInv(c, T, A, G), NEW t \in c.queue,
         NEW e, e.node = t.node, e.gen = t.gen, e.request = t.request,
         Elements(e.listing) \subseteq Elements(FilesIn[e.node.dir]) \ G,
         NEW d, d = [c EXCEPT !.queue = @ \ {t}]
  PROVE  CacheInv(d, T, A \cup {e}, G)
<1>1. CacheShape(c) /\ Expected(c, T, A) /\ Clean(c, A, G)
  BY DEF CacheInv
<1>2. PICK en, o, x, q : c = [entries |-> en, order |-> o, next |-> x, queue |-> q]
  BY <1>1, Zenon DEF CacheShape
<1>3. d = [entries |-> en, order |-> o, next |-> x, queue |-> q \ {t}]
  BY <1>2
<1>4. /\ d.entries = c.entries /\ d.order = c.order /\ d.next = c.next /\ d.queue = c.queue \ {t}
      /\ d = [entries |-> d.entries, order |-> d.order, next |-> d.next, queue |-> d.queue]
  BY <1>2, <1>3
<1>5. CacheShape(d)
  BY <1>1, <1>4 DEF CacheShape
<1>6. Expected(d, T, A \cup {e})
  <2>1. ASSUME NEW n \in DOMAIN c.entries, c.entries[n].pending # NoRequest
        PROVE  \E u \in d.queue \cup (A \cup {e}) :
                 u.node = n /\ u.gen = T[n].gen /\ u.request = c.entries[n].pending
    <3>1. PICK u \in c.queue \cup A :
            u.node = n /\ u.gen = T[n].gen /\ u.request = c.entries[n].pending
      BY <1>1, <2>1 DEF Expected
    <3>2. CASE u = t
      <4>1. e.node = n /\ e.gen = T[n].gen /\ e.request = c.entries[n].pending
        BY <3>1, <3>2
      <4> QED BY <4>1
    <3>3. CASE u # t
      BY <1>4, <3>1, <3>3
    <3> QED BY <3>2, <3>3
  <2> QED BY <1>1, <1>4, <2>1 DEF Expected
<1>7. Clean(d, A \cup {e}, G)
  <2>1. e.request \in Nat \ {NoRequest} /\ e.request < c.next
    BY <1>1 DEF CacheShape
  <2>2. ASSUME NEW f \in A \cup {e}
        PROVE  /\ f.request \in Nat \ {NoRequest} /\ f.request < c.next
               /\ Elements(f.listing) \subseteq Elements(FilesIn[f.node.dir])
               /\ (f.node \in DOMAIN c.entries /\ c.entries[f.node].pending = f.request) =>
                     Elements(f.listing) \cap G = {}
    <3>1. CASE f = e
      BY <2>1, <3>1
    <3>2. CASE f \in A
      BY <1>1, <3>2 DEF Clean
    <3> QED BY <3>1, <3>2
  <2> QED BY <1>1, <1>4, <2>2 DEF Clean
<1> QED BY <1>5, <1>6, <1>7 DEF CacheInv

(* A listing holds files of the directory that was read. *)
LEMMA ListingMembers ==
  ASSUME NEW S, NEW files \in Seq(S)
  PROVE  ListingOf(files) \in Seq(S)
<1>1. PICK h : h = NewHeap(ListingLimit)
  BY Zenon
<1>2. h.kept = <<>> /\ h.limit \in Nat \ {0} /\ h = [limit |-> h.limit, kept |-> h.kept]
  BY <1>1, ListingAssumption DEF NewHeap
<1>3. IsHeap(h, S)
  BY <1>2, EmptySeq DEF IsHeap
<1>4. IsHeap(Merge(h, files), S)
  BY <1>3, MergeMembers
<1> QED BY <1>1, <1>4 DEF IsHeap, ListingOf

LEMMA ListKeeps ==
  ASSUME BaseInv, NEW w \in Lister, ListFiles(w, onDisk),
         UNCHANGED <<heavyVars, treeVars, ui, deletionVars, scenario, ops>>
  PROVE  BaseInv'
<1>1. /\ walker' = walker /\ progress' = progress /\ heavy' = heavy /\ tree' = tree
      /\ scans' = scans /\ made' = made /\ ui' = ui /\ onDisk' = onDisk
      /\ removal' = removal /\ marks' = marks /\ missed' = missed
      /\ scenario' = scenario /\ answers' = answers
  BY DEF heavyVars, treeVars, deletionVars, ListFiles
<1>2. lister[w] = Waiting
  BY DEF ListFiles
<1>3. PICK t \in cache.queue :
       /\ cache' = [cache EXCEPT !.queue = @ \ {t}]
       /\ lister' = [lister EXCEPT ![w] =
                       [at |-> "read", node |-> t.node, gen |-> t.gen, request |-> t.request,
                        listing |-> ListingOf(onDisk[t.node.dir])]]
  BY DEF ListFiles
<1>4. PICK e : e = [at |-> "read", node |-> t.node, gen |-> t.gen, request |-> t.request,
                    listing |-> ListingOf(onDisk[t.node.dir])]
  BY Zenon
<1>5. e.node = t.node /\ e.gen = t.gen /\ e.request = t.request
      /\ e.listing = ListingOf(onDisk[t.node.dir]) /\ e.at = "read" /\ e # Waiting
  BY <1>4 DEF Waiting
<1>6. World(State, Results, Gone) /\ State.cache = cache /\ State.tree = tree
  BY StateFields
<1>7. CacheInv(cache, tree, Results, Gone) /\ CacheShape(cache)
  BY <1>6 DEF World, CacheInv
<1>8. t.node \in Node /\ t.gen \in Nat /\ t.request \in Nat /\ t.node.dir \in Dir
  BY <1>7, Directories DEF CacheShape
<1>9. PICK d : d = t.node.dir
  BY Zenon
<1>10. onDisk[d] \in Seq(Elements(FilesIn[d])) /\ d \in Dir
  BY <1>8, <1>9 DEF BaseInv, DiskShape
<1>11. PICK S : S = Elements(onDisk[d])
  BY Zenon
<1>12. onDisk[d] \in Seq(S) /\ S \subseteq Elements(FilesIn[d]) /\ S \subseteq Existing
  BY <1>10, <1>11, OwnElements DEF Existing
<1>13. e.listing \in Seq(S)
  BY <1>5, <1>9, <1>12, ListingMembers
<1>14. Elements(e.listing) \subseteq Elements(FilesIn[e.node.dir]) \ Gone
  <2>1. Elements(e.listing) \subseteq S
    BY <1>13 DEF Elements
  <2>2. S \cap Gone = {}
    BY <1>12 DEF Gone, Absorbed
  <2> QED BY <1>5, <1>9, <1>12, <2>1, <2>2
<1>15. e \in Result
  <2>1. S \subseteq FileSet
    BY <1>10, <1>12, FileSizes
  <2>2. e.listing \in Seq(FileSet)
    BY <1>13, <2>1
  <2> QED BY <1>4, <1>5, <1>8, <2>2 DEF Result
<1>16. ThreadsShape'
  BY <1>1, <1>3, <1>4, <1>15 DEF BaseInv, ThreadsShape
<1>17. Results' = Results \cup {e}
  <2>1. lister \in [Lister -> {Waiting} \cup Result]
    BY DEF BaseInv, ThreadsShape
  <2>2. lister'[w] = e /\ \A v \in Lister \ {w} : lister'[v] = lister[v]
    BY <1>3, <1>4, <2>1
  <2>3. Underway' = Underway \cup {e}
    BY <1>2, <1>5, <2>2 DEF Underway
  <2> QED BY <1>1, <2>3 DEF Results
<1>18. Gone' = Gone
  BY <1>1 DEF Gone, Absorbed, Existing
<1>19. CacheInv(cache', tree, Results \cup {e}, Gone)
  BY <1>3, <1>5, <1>7, <1>14, TakenKeeps
<1>21. /\ State'.tree = tree /\ State'.scans = scans /\ State'.made = made
       /\ State'.cache = cache' /\ State'.heavy = heavy /\ State'.ui = ui /\ IsState(State')
  BY <1>1 DEF State, IsState
<1>22. Settled(State', Results', Gone')
  <2>1. TreeShape(tree, made) /\ ScanShape(tree, scans, made) /\ UiShape(ui)
    BY StateFields DEF Settled, World
  <2>2. World(State', Results', Gone')
    BY <1>17, <1>18, <1>19, <1>21, <2>1 DEF World
  <2> QED BY <1>21, <2>1, <2>2 DEF Settled
<1>23. SearchShape'
  BY <1>1 DEF BaseInv, SearchShape, AllWalks, TasksAt
<1>24. MarksShape'
  BY <1>1 DEF BaseInv, MarksShape, Existing
<1> QED BY <1>1, <1>16, <1>22, <1>23, <1>24 DEF BaseInv

LEMMA EmitKeeps ==
  ASSUME BaseInv, NEW w \in Lister, EmitListing(w),
         UNCHANGED <<heavyVars, treeVars, ui, deletionVars, scenario, ops>>
  PROVE  BaseInv'
<1>1. /\ walker' = walker /\ progress' = progress /\ heavy' = heavy /\ tree' = tree
      /\ scans' = scans /\ made' = made /\ ui' = ui /\ onDisk' = onDisk /\ cache' = cache
      /\ removal' = removal /\ marks' = marks /\ missed' = missed /\ scenario' = scenario
  BY DEF heavyVars, treeVars, deletionVars, EmitListing
<1>2. PICK e : e = lister[w]
  BY Zenon
<1>3. e # Waiting /\ answers' = Append(answers, e) /\ lister' = [lister EXCEPT ![w] = Waiting]
  BY <1>2 DEF EmitListing
<1>4. lister \in [Lister -> {Waiting} \cup Result] /\ answers \in Seq(Result)
  BY DEF BaseInv, ThreadsShape
<1>5. e \in Result
  BY <1>2, <1>3, <1>4
<1>6. answers' \in Seq(Result) /\ Elements(answers') = Elements(answers) \cup {e}
  BY <1>3, <1>4, <1>5, AppendMembers
<1>7. ThreadsShape'
  BY <1>3, <1>4, <1>6 DEF ThreadsShape
<1>8. Results' = Results
  <2>1. lister'[w] = Waiting /\ \A v \in Lister \ {w} : lister'[v] = lister[v]
    BY <1>3, <1>4
  <2>2. Underway' \cup {e} = Underway
    BY <1>2, <1>3, <2>1 DEF Underway
  <2> QED BY <1>6, <2>2 DEF Results
<1>9. State' = State /\ Gone' = Gone
  BY <1>1 DEF State, Gone, Absorbed, Existing
<1>10. Settled(State', Results', Gone')
  BY <1>8, <1>9 DEF BaseInv
<1>11. SearchShape'
  BY <1>1 DEF BaseInv, SearchShape, AllWalks, TasksAt
<1>12. MarksShape'
  BY <1>1 DEF BaseInv, MarksShape, Existing
<1> QED BY <1>1, <1>7, <1>10, <1>11, <1>12 DEF BaseInv

LEMMA OtherWalks ==
  ASSUME NEW h, HeavyShape(h), NEW W, \A t \in W : t \in Walk /\ t.query < h.next,
         NEW g, g = [h EXCEPT !.walks = W]
  PROVE  /\ HeavyShape(g) /\ g.walks = W
         /\ g.queries = h.queries /\ g.floors = h.floors /\ g.next = h.next
<1>1. PICK a, b, c, d : h = [queries |-> a, floors |-> b, walks |-> c, next |-> d]
  BY Zenon DEF HeavyShape
<1>2. g = [queries |-> a, floors |-> b, walks |-> W, next |-> d]
  BY <1>1
<1>3. /\ g.walks = W /\ g.queries = h.queries /\ g.floors = h.floors /\ g.next = h.next
      /\ g = [queries |-> g.queries, floors |-> g.floors, walks |-> g.walks, next |-> g.next]
  BY <1>1, <1>2
<1> QED BY <1>3 DEF HeavyShape

LEMMA TaskTypes ==
  ASSUME SearchShape
  PROVE  \A t \in AllWalks : t \in Walk /\ t.query < heavy.next /\ t.query \in QueryNr
                             /\ t.dir \in Dir /\ t.depth \in Nat /\ t.limit \in Nat
<1>1. ASSUME NEW t \in AllWalks PROVE t \in Walk
  <2>1. CASE t \in heavy.walks
    BY <2>1 DEF SearchShape, HeavyShape
  <2>2. CASE t \notin heavy.walks
    <3>1. PICK w \in Walker : t \in TasksAt(w)
      BY <1>1, <2>2 DEF AllWalks
    <3>2. walker[w] \in WalkerState
      BY DEF SearchShape
    <3> QED BY <3>1, <3>2 DEF TasksAt, WalkerState, Resting
  <2> QED BY <2>1, <2>2
<1>2. \A t \in AllWalks : t.query < heavy.next
  BY DEF SearchShape
<1> QED BY <1>1, <1>2 DEF Walk

(* What each step of a thread does to the tasks. *)
LEMMA TakeFacts ==
  ASSUME SearchShape, NEW w \in Walker, TakeWalk(w)
  PROVE  \E t \in heavy.walks :
           /\ TasksAt(w) = {} /\ TasksAt(w)' = {t} /\ \A v \in Walker \ {w} : walker'[v] = walker[v]
           /\ heavy'.walks = heavy.walks \ {t} /\ HeavyShape(heavy')
           /\ heavy'.queries = heavy.queries /\ heavy'.floors = heavy.floors
           /\ heavy'.next = heavy.next /\ progress' = progress
           /\ walker'[w] = [at |-> "read", task |-> t, floor |-> heavy.floors[t.query]]
           /\ walker' \in [Walker -> WalkerState]
<1>1. PICK t \in heavy.walks :
       /\ heavy' = [heavy EXCEPT !.walks = @ \ {t}]
       /\ walker' = [walker EXCEPT ![w] = [at |-> "read", task |-> t,
                                           floor |-> heavy.floors[t.query]]]
  BY DEF TakeWalk
<1>2. walker[w] = Resting /\ progress' = progress
  BY DEF TakeWalk
<1>3. HeavyShape(heavy) /\ walker \in [Walker -> WalkerState]
  BY DEF SearchShape
<1>4. PICK W : W = heavy.walks \ {t}
  BY Zenon
<1>5. heavy' = [heavy EXCEPT !.walks = W]
  BY <1>1, <1>4
<1>6. \A u \in W : u \in Walk /\ u.query < heavy.next
  BY <1>3, <1>4 DEF HeavyShape
<1>7. /\ HeavyShape(heavy') /\ heavy'.walks = W
      /\ heavy'.queries = heavy.queries /\ heavy'.floors = heavy.floors
      /\ heavy'.next = heavy.next
  BY <1>3, <1>5, <1>6, OtherWalks
<1>8. PICK s : s = [at |-> "read", task |-> t, floor |-> heavy.floors[t.query]]
  BY Zenon
<1>9. walker'[w] = s /\ \A v \in Walker \ {w} : walker'[v] = walker[v]
  BY <1>1, <1>3, <1>8
<1>10. s \in WalkerState /\ s.at = "read" /\ s.task = t
  <2>1. t \in Walk /\ t.query < heavy.next /\ t.query \in QueryNr
    BY <1>3 DEF HeavyShape, Walk
  <2>2. heavy.floors[t.query] \in Nat
    BY <1>3, <2>1 DEF HeavyShape
  <2>3. s \in [at : {"read"}, task : Walk, floor : Nat] /\ s.at = "read" /\ s.task = t
    BY <1>8, <2>1, <2>2
  <2> QED BY <2>3 DEF WalkerState
<1>11. walker' \in [Walker -> WalkerState]
  BY <1>1, <1>3, <1>8, <1>10
<1>12. TasksAt(w) = {} /\ TasksAt(w)' = {t}
  BY <1>2, <1>9, <1>10 DEF TasksAt, Resting
<1> QED BY <1>2, <1>4, <1>7, <1>8, <1>9, <1>11, <1>12

Below1(t) == {WalkBelow(t, d) : d \in Entered(t)}

LEMMA BelowTasks ==
  ASSUME NEW t \in Walk
  PROVE  /\ IsFiniteSet(Below1(t)) /\ Cardinality(Below1(t)) \in Nat
         /\ \A u \in Below1(t) : /\ u \in Walk /\ u.query = t.query /\ u.limit = t.limit
                                 /\ u.depth = t.depth + 1 /\ u.dir \in Subdirs[t.dir]
                                 /\ u = WalkBelow(t, u.dir) /\ u.dir \in Entered(t)
         /\ \A d \in Entered(t) : WalkBelow(t, d) \in Below1(t) /\ WalkBelow(t, d).dir = d
<1>1. PICK q, x, l, y : t = [query |-> q, dir |-> x, limit |-> l, depth |-> y]
                        /\ q \in QueryNr /\ x \in Dir /\ l \in Nat /\ y \in Nat
  BY DEF Walk
<1>2. t.query = q /\ t.dir = x /\ t.limit = l /\ t.depth = y
  BY <1>1
<1>3. Entered(t) \subseteq Subdirs[x] /\ Subdirs[x] \subseteq Dir
  BY <1>1, <1>2, Directories DEF Entered
<1>4. ASSUME NEW d \in Entered(t)
      PROVE  WalkBelow(t, d) = [query |-> q, dir |-> d, limit |-> l, depth |-> y + 1]
  <2>1. PICK v : v = [t EXCEPT !.dir = d]
    BY Zenon
  <2>2. v = [query |-> q, dir |-> d, limit |-> l, depth |-> y]
    BY <1>1, <2>1
  <2>3. WalkBelow(t, d) = [v EXCEPT !.depth = y + 1]
    BY <1>2, <2>1 DEF WalkBelow
  <2> QED BY <2>2, <2>3
<1>5. \A d \in Entered(t) : WalkBelow(t, d).dir = d
  BY <1>4
<1>6. IsFiniteSet(Entered(t))
  BY <1>3, Directories, FS_Subset
<1>7. IsFiniteSet(Below1(t)) /\ Cardinality(Below1(t)) \in Nat
  <2>1. PICK f : f = [d \in Entered(t) |-> WalkBelow(t, d)]
    BY Zenon
  <2>2. f \in [Entered(t) -> Below1(t)] /\ \A u \in Below1(t) : \E d \in Entered(t) : f[d] = u
    BY <2>1 DEF Below1
  <2>3. f \in Surjection(Entered(t), Below1(t))
    BY <2>2, Zenon DEF Surjection
  <2> QED BY <1>6, <2>3, FS_Surjection, FS_CardinalityType
<1>8. ASSUME NEW u \in Below1(t)
      PROVE  /\ u \in Walk /\ u.query = t.query /\ u.limit = t.limit
             /\ u.depth = t.depth + 1 /\ u.dir \in Subdirs[t.dir]
             /\ u = WalkBelow(t, u.dir) /\ u.dir \in Entered(t)
  <2>1. PICK d \in Entered(t) : u = WalkBelow(t, d)
    BY <1>8 DEF Below1
  <2>2. u = [query |-> q, dir |-> d, limit |-> l, depth |-> y + 1]
    BY <1>4, <2>1
  <2>3. u.query = q /\ u.dir = d /\ u.limit = l /\ u.depth = y + 1
    BY <2>2
  <2>4. d \in Subdirs[x] /\ d \in Dir
    BY <1>3
  <2> QED BY <1>1, <1>2, <2>1, <2>2, <2>3, <2>4 DEF Walk
<1> QED BY <1>5, <1>7, <1>8 DEF Below1

LEMMA ReportFacts ==
  ASSUME SearchShape, DiskShape(onDisk), NEW w \in Walker, ReportWalk(w, onDisk)
  PROVE  LET t == walker[w].task
         IN  /\ walker[w].at = "read" /\ walker[w].floor \in Nat /\ t \in AllWalks
             /\ TasksAt(w) = {t} /\ TasksAt(w)' = Below1(t)
             /\ \A v \in Walker \ {w} : walker'[v] = walker[v]
             /\ walker'[w].at # "read" /\ heavy' = heavy
             /\ walker' \in [Walker -> WalkerState]
             /\ \E e \in Progress :
                  /\ progress' = Append(progress, e) /\ e.query = t.query
                  /\ e.spawned = Cardinality(Below1(t))
                  /\ e.files = Counted(t, walker[w].floor, onDisk[t.dir])
<1> DEFINE t == walker[w].task
           below == {WalkBelow(t, d) : d \in Entered(t)}
<1>1. walker[w].at = "read" /\ heavy' = heavy
  BY DEF ReportWalk
<1>2. walker \in [Walker -> WalkerState]
  BY DEF SearchShape
<1>3. t \in Walk /\ walker[w].floor \in Nat
  <2>1. walker[w] \in WalkerState
    BY <1>2
  <2>2. walker[w] # Resting
    BY <1>1 DEF Resting
  <2> QED BY <1>1, <2>1, <2>2 DEF WalkerState
<1>4. below = Below1(t)
  BY Zenon DEF Below1
<1>5. PICK s : s = IF below = {} THEN Resting ELSE [at |-> "push", tasks |-> below]
  BY Zenon
<1>6. walker' = [walker EXCEPT ![w] = s]
  BY <1>5, Zenon DEF ReportWalk
<1>7. PICK e : e = [query |-> t.query, files |-> Counted(t, walker[w].floor, onDisk[t.dir]),
                    spawned |-> Cardinality(below)]
  BY Zenon
<1>8. progress' = Append(progress, e)
  BY <1>7, Zenon DEF ReportWalk
<1>9. TasksAt(w) = {t}
  BY <1>1 DEF TasksAt
<1> HIDE DEF below
<1>10. s \in WalkerState /\ s.at # "read"
  <2>1. \A u \in below : u \in Walk
    BY <1>3, <1>4, BelowTasks
  <2> QED BY <1>5, <2>1 DEF WalkerState, Resting
<1>11. walker'[w] = s /\ \A v \in Walker \ {w} : walker'[v] = walker[v]
  BY <1>2, <1>6
<1>12. walker' \in [Walker -> WalkerState]
  BY <1>2, <1>6, <1>10
<1>13. TasksAt(w)' = below
  <2>1. CASE below = {}
    <3>1. s.at = "rest"
      BY <1>5, <2>1 DEF Resting
    <3> QED BY <1>11, <2>1, <3>1 DEF TasksAt
  <2>2. CASE below # {}
    <3>1. s.at = "push" /\ s.tasks = below
      BY <1>5, <2>2
    <3> QED BY <1>11, <3>1 DEF TasksAt
  <2> QED BY <2>1, <2>2
<1>14. e \in Progress
  <2>1. PICK d : d = t.dir
    BY Zenon
  <2>2. d \in Dir /\ t.limit \in Nat /\ t.query \in QueryNr
    BY <1>3, <2>1 DEF Walk
  <2>3. PICK S, f, x : S = Elements(FilesIn[d]) /\ f = onDisk[d] /\ x = walker[w].floor
    OBVIOUS
  <2>4. f \in Seq(S) /\ Distinct(f) /\ S \subseteq FileSet
    BY <2>2, <2>3, FileSizes DEF DiskShape
  <2>5. \A g \in Elements(f) : g.size \in Nat
    BY <2>4, FileSizes DEF Elements
  <2>6. PICK h : /\ Counted(t, x, f) = h.kept
                 /\ h.limit = NewHeap(t.limit).limit
                 /\ HoldsLargest(h, {g \in Elements(f) : g.size > x})
    <3> HIDE DEF t
    <3> QED BY <2>2, <2>4, <2>5, CountedHolds, Zenon
  <2>7. h.kept \in Seq({g \in Elements(f) : g.size > x})
    BY <2>6 DEF HoldsLargest
  <2>8. Elements(f) \subseteq S
    BY <2>4 DEF Elements
  <2>9. h.kept \in Seq(FileSet)
    BY <2>4, <2>7, <2>8
  <2>10. Cardinality(below) \in Nat
    BY <1>3, <1>4, BelowTasks
  <2> QED BY <1>7, <2>1, <2>2, <2>3, <2>6, <2>9, <2>10 DEF Progress
<1>15. /\ e.query = t.query /\ e.spawned = Cardinality(below)
       /\ e.files = Counted(t, walker[w].floor, onDisk[t.dir])
  BY <1>7
<1>16. t \in AllWalks
  BY <1>9 DEF AllWalks
<1> QED BY <1>1, <1>3, <1>4, <1>8, <1>9, <1>10, <1>11, <1>12, <1>13, <1>14, <1>15, <1>16

LEMMA PushFacts ==
  ASSUME SearchShape, NEW w \in Walker, PushWalks(w)
  PROVE  /\ TasksAt(w)' = {} /\ \A v \in Walker \ {w} : walker'[v] = walker[v]
         /\ walker'[w] = Resting /\ walker' \in [Walker -> WalkerState]
         /\ heavy'.walks = heavy.walks \cup TasksAt(w) /\ HeavyShape(heavy')
         /\ heavy'.queries = heavy.queries /\ heavy'.floors = heavy.floors
         /\ heavy'.next = heavy.next /\ progress' = progress
<1>1. walker[w].at = "push" /\ progress' = progress
      /\ heavy' = [heavy EXCEPT !.walks = @ \cup walker[w].tasks]
      /\ walker' = [walker EXCEPT ![w] = Resting]
  BY DEF PushWalks
<1>2. TasksAt(w) = walker[w].tasks
  BY <1>1 DEF TasksAt
<1>3. HeavyShape(heavy) /\ walker \in [Walker -> WalkerState]
  BY DEF SearchShape
<1>4. PICK W : W = heavy.walks \cup TasksAt(w)
  BY Zenon
<1>5. heavy' = [heavy EXCEPT !.walks = W]
  BY <1>1, <1>2, <1>4
<1>6. \A u \in W : u \in Walk /\ u.query < heavy.next
  <2>1. W \subseteq AllWalks
    BY <1>4 DEF AllWalks
  <2> QED BY <2>1, TaskTypes
<1>7. /\ HeavyShape(heavy') /\ heavy'.walks = W
      /\ heavy'.queries = heavy.queries /\ heavy'.floors = heavy.floors
      /\ heavy'.next = heavy.next
  BY <1>3, <1>5, <1>6, OtherWalks
<1>8. walker'[w] = Resting /\ \A v \in Walker \ {w} : walker'[v] = walker[v]
  BY <1>1, <1>3
<1>9. Resting \in WalkerState
  BY DEF WalkerState
<1>10. walker' \in [Walker -> WalkerState]
  BY <1>1, <1>3, <1>9
<1>11. TasksAt(w)' = {}
  BY <1>8 DEF TasksAt, Resting
<1> QED BY <1>1, <1>4, <1>7, <1>8, <1>10, <1>11

(* All of the invariant but the searches, when only they change.           *)
LEMMA SearchOnly ==
  ASSUME BaseInv, UNCHANGED <<listingVars, treeVars, ui, deletionVars, scenario, ops>>,
         SearchShape'
  PROVE  BaseInv'
<1>1. /\ cache' = cache /\ lister' = lister /\ answers' = answers /\ tree' = tree
      /\ scans' = scans /\ made' = made /\ ui' = ui /\ onDisk' = onDisk
      /\ removal' = removal /\ marks' = marks /\ missed' = missed /\ scenario' = scenario
  BY DEF listingVars, treeVars, deletionVars
<1>2. /\ State'.tree = tree /\ State'.scans = scans /\ State'.made = made
      /\ State'.cache = cache /\ State'.ui = ui /\ IsState(State')
  BY <1>1 DEF State, IsState
<1>3. /\ TreeShape(tree, made) /\ ScanShape(tree, scans, made) /\ UiShape(ui)
      /\ CacheInv(cache, tree, Results, Gone)
  BY StateFields DEF Settled, World
<1>4. Results' = Results /\ Gone' = Gone
  BY <1>1 DEF Results, Underway, Gone, Absorbed, Existing
<1>5. World(State', Results', Gone')
  BY <1>2, <1>3, <1>4 DEF World
<1>6. Settled(State', Results', Gone')
  BY <1>2, <1>3, <1>5 DEF Settled
<1>7. ThreadsShape' /\ MarksShape'
  BY <1>1 DEF BaseInv, ThreadsShape, MarksShape, Existing
<1> QED BY <1>1, <1>6, <1>7 DEF BaseInv

LEMMA WalkKeeps ==
  ASSUME BaseInv, NEW w \in Walker, WalkStep(w)
  PROVE  BaseInv'
<1>1. UNCHANGED <<listingVars, treeVars, ui, deletionVars, scenario, ops>> /\ ui' = ui
      /\ (TakeWalk(w) \/ ReportWalk(w, onDisk) \/ PushWalks(w))
  BY DEF WalkStep, WalkerStep
<1>2. /\ SearchShape /\ DiskShape(onDisk) /\ HeavyShape(heavy)
      /\ \A t \in AllWalks : t.query < heavy.next
      /\ \A i \in DOMAIN progress : progress[i].query < heavy.next
      /\ ui.query \in DOMAIN heavy.queries \cup {NoQuery} /\ Elements(ui.found) \subseteq FileSet
      /\ progress \in Seq(Progress)
  BY DEF BaseInv, SearchShape
<1>3. ASSUME TakeWalk(w) PROVE SearchShape'
  <2>1. PICK t \in heavy.walks :
           /\ TasksAt(w) = {} /\ TasksAt(w)' = {t} /\ \A v \in Walker \ {w} : walker'[v] = walker[v]
           /\ heavy'.walks = heavy.walks \ {t} /\ HeavyShape(heavy')
           /\ heavy'.queries = heavy.queries /\ heavy'.floors = heavy.floors
           /\ heavy'.next = heavy.next /\ progress' = progress
           /\ walker' \in [Walker -> WalkerState]
    BY <1>2, <1>3, TakeFacts
  <2>2. \A v \in Walker \ {w} : TasksAt(v)' = TasksAt(v)
    BY <2>1 DEF TasksAt
  <2>3. AllWalks' \subseteq AllWalks
    BY <2>1, <2>2 DEF AllWalks
  <2> QED BY <1>1, <1>2, <2>1, <2>3 DEF SearchShape
<1>4. ASSUME ReportWalk(w, onDisk) PROVE SearchShape'
  <2>1. PICK t : t = walker[w].task
    BY Zenon
  <2>2. /\ t \in AllWalks
        /\ TasksAt(w) = {t} /\ TasksAt(w)' = Below1(t)
        /\ \A v \in Walker \ {w} : walker'[v] = walker[v]
        /\ heavy' = heavy /\ walker' \in [Walker -> WalkerState]
        /\ \E e \in Progress : progress' = Append(progress, e) /\ e.query = t.query
    BY <1>2, <1>4, <2>1, ReportFacts, Zenon
  <2>3. PICK e \in Progress : progress' = Append(progress, e) /\ e.query = t.query
    BY <2>2
  <2>4. t \in Walk /\ t.query < heavy.next
    BY <1>2, <2>2, TaskTypes
  <2>5. \A v \in Walker \ {w} : TasksAt(v)' = TasksAt(v)
    BY <2>2 DEF TasksAt
  <2>6. \A u \in AllWalks' : u.query < heavy.next
    <3>1. AllWalks' \subseteq AllWalks \cup Below1(t)
      BY <2>2, <2>5 DEF AllWalks
    <3>2. \A u \in Below1(t) : u.query = t.query
      BY <2>4, BelowTasks
    <3> QED BY <1>2, <2>4, <3>1, <3>2
  <2>7. progress' \in Seq(Progress)
        /\ \A i \in DOMAIN progress' : progress'[i].query < heavy.next
    <3>1. PICK n : n = Len(progress) /\ n \in Nat
      BY <1>2, LenProperties
    <3>2. DOMAIN progress = 1 .. n
      BY <1>2, <3>1, LenProperties
    <3>3. /\ progress' \in Seq(Progress) /\ DOMAIN progress' = 1 .. (n + 1)
          /\ progress'[n + 1] = e /\ \A i \in 1 .. n : progress'[i] = progress[i]
      BY <1>2, <2>3, <3>1, AppendProperties, LenProperties
    <3>4. ASSUME NEW i \in 1 .. (n + 1) PROVE progress'[i].query < heavy.next
      <4>1. CASE i = n + 1
        BY <2>3, <2>4, <3>3, <4>1
      <4>2. CASE i # n + 1
        <5>1. i \in 1 .. n
          BY <3>1, <4>2
        <5> QED BY <1>2, <3>2, <3>3, <5>1
      <4> QED BY <4>1, <4>2
    <3> QED BY <3>3, <3>4
  <2> QED BY <1>1, <1>2, <2>2, <2>6, <2>7 DEF SearchShape
<1>5. ASSUME PushWalks(w) PROVE SearchShape'
  <2>1. /\ TasksAt(w)' = {} /\ \A v \in Walker \ {w} : walker'[v] = walker[v]
        /\ walker' \in [Walker -> WalkerState]
        /\ heavy'.walks = heavy.walks \cup TasksAt(w) /\ HeavyShape(heavy')
        /\ heavy'.queries = heavy.queries /\ heavy'.next = heavy.next /\ progress' = progress
    BY <1>2, <1>5, PushFacts
  <2>2. \A v \in Walker \ {w} : TasksAt(v)' = TasksAt(v)
    BY <2>1 DEF TasksAt
  <2>3. AllWalks' \subseteq AllWalks
    BY <2>1, <2>2 DEF AllWalks
  <2> QED BY <1>1, <1>2, <2>1, <2>3 DEF SearchShape
<1> QED BY <1>1, <1>3, <1>4, <1>5, SearchOnly

(* What a tick makes of the state. *)

LEMMA SeenWorld ==
  ASSUME BaseInv, NEW T, T = {} \/ \E x \in scans : T = {x}
  PROVE  World(Seen(T), Results, Gone) /\ Keeps(State, Seen(T))
<1>1. /\ State.tree = tree /\ State.scans = scans /\ IsState(State) /\ World(State, Results, Gone)
  BY StateFields
<1>2. CASE T = {}
  <2>1. Seen(T) = State
    BY <1>2, Zenon DEF Seen
  <2> QED BY <1>1, <2>1 DEF Keeps
<1>3. CASE T # {}
  <2>1. PICK x \in scans : T = {x}
    BY <1>3
  <2>2. PICK t : t = CHOOSE y \in T : TRUE
    BY Zenon
  <2>3. t = x
    BY <2>1, <2>2
  <2>4. CASE t.node \in DOMAIN tree /\ tree[t.node].gen = t.gen
    <3>1. Seen(T) = Measured(State, t)
      BY <1>3, <2>2, <2>4, Zenon DEF Seen
    <3>2. PICK s : s = State
      BY Zenon
    <3>3. World(s, Results, Gone) /\ t \in s.scans /\ t.node \in DOMAIN s.tree
          /\ s.tree[t.node].gen = t.gen
      BY <1>1, <2>1, <2>3, <2>4, <3>2
    <3>4. World(Measured(s, t), Results, Gone) /\ Keeps(s, Measured(s, t))
      BY <3>3, MeasuredWorld
    <3> QED BY <3>1, <3>2, <3>4
  <2>5. CASE ~(t.node \in DOMAIN tree /\ tree[t.node].gen = t.gen)
    <3>1. PICK r : r = [State EXCEPT !.scans = @ \ T]
      BY Zenon
    <3>2. Seen(T) = r
      BY <1>3, <2>2, <2>5, <3>1, Zenon DEF Seen
    <3>3. PICK a, b, c, d, e, f : State = [tree |-> a, scans |-> b, made |-> c, cache |-> d,
                                           heavy |-> e, ui |-> f]
      BY <1>1, Zenon DEF IsState
    <3>4. r = [tree |-> a, scans |-> b \ T, made |-> c, cache |-> d, heavy |-> e, ui |-> f]
      BY <3>1, <3>3
    <3>5. /\ IsState(r) /\ r.tree = State.tree /\ r.scans \subseteq State.scans
          /\ r.made = State.made /\ r.cache = State.cache
          /\ r.heavy = State.heavy /\ r.ui = State.ui
      BY <3>3, <3>4 DEF IsState
    <3>6. World(r, Results, Gone)
      BY <1>1, <3>5 DEF World, ScanShape
    <3> QED BY <3>2, <3>5, <3>6 DEF Keeps
  <2> QED BY <2>4, <2>5
<1> QED BY <1>2, <1>3

LEMMA EventsWorld ==
  ASSUME BaseInv, NEW m, World(m, Results, Gone), Keeps(State, m)
  PROVE  LET a == ApplyEvents(m)
         IN  /\ World(a, Underway, Gone) /\ a.ui = ui
             /\ a.heavy = FoldLeft(ApplyProgress, heavy, progress)
<1>1. /\ State.tree = tree /\ State.cache = cache /\ State.heavy = heavy /\ State.ui = ui
  BY StateFields
<1>2. PICK T : T = m.tree
  BY Zenon
<1>3. PICK d : d = Answered(m.cache, m.tree, answers)
  BY Zenon
<1>4. PICK h : h = FoldLeft(ApplyProgress, m.heavy, progress)
  BY Zenon
<1>5. m.ui = ui /\ m.heavy = heavy
  BY <1>1, <1>2 DEF Keeps
<1>6. PICK a : a = [m EXCEPT !.cache = d, !.heavy = h]
  BY Zenon
<1>7. ApplyEvents(m) = a
  BY <1>3, <1>4, <1>6, Zenon DEF ApplyEvents, Answered
<1>8. /\ IsState(a) /\ a.tree = T /\ a.scans = m.scans /\ a.made = m.made
      /\ a.cache = d /\ a.heavy = h /\ a.ui = m.ui
  <2>1. PICK x, b, c, e, f, g : m = [tree |-> x, scans |-> b, made |-> c, cache |-> e,
                                     heavy |-> f, ui |-> g]
    BY Zenon DEF World, IsState
  <2>2. PICK y : y = [m EXCEPT !.cache = d]
    BY Zenon
  <2>3. y = [tree |-> x, scans |-> b, made |-> c, cache |-> d, heavy |-> f, ui |-> g]
    BY <2>1, <2>2
  <2>4. a = [y EXCEPT !.heavy = h]
    BY <1>6, <2>2
  <2>5. a = [tree |-> x, scans |-> b, made |-> c, cache |-> d, heavy |-> h, ui |-> g]
    BY <2>3, <2>4
  <2> QED BY <1>2, <2>1, <2>5 DEF IsState
<1>9. CacheInv(d, T, Underway, Gone)
  <2>1. PICK c, s : c = m.cache /\ s = answers
    OBVIOUS
  <2>2. s \in Seq(Result)
    BY <2>1 DEF BaseInv, ThreadsShape
  <2>3. CacheInv(c, T, Underway \cup Elements(s), Gone)
    BY <1>2, <2>1 DEF World, Results
  <2>4. d = Answered(c, T, s)
    BY <1>2, <1>3, <2>1
  <2> QED BY <2>1, <2>2, <2>3, <2>4, ApplyAllKeeps
<1>10. World(a, Underway, Gone)
  BY <1>2, <1>8, <1>9 DEF World
<1>11. a.heavy = FoldLeft(ApplyProgress, heavy, progress)
  BY <1>4, <1>5, <1>8, Zenon
<1> QED BY <1>5, <1>7, <1>8, <1>10, <1>11

LEMMA RowsShown ==
  ASSUME NEW s, NEW A, NEW G, World(s, A, G), UiShape(s.ui), HeavyShape(s.heavy),
         s.ui.query \in DOMAIN s.heavy.queries \cup {NoQuery}, Elements(s.ui.found) \subseteq FileSet
  PROVE  LET r == RebuildRows(s)
         IN  /\ Settled(r, A, G) /\ r.tree = s.tree /\ r.cache = s.cache /\ r.heavy = s.heavy
             /\ r.ui.query = s.ui.query /\ r.ui.current \in {s.ui.current, NoNode}
             /\ Elements(r.ui.found) \subseteq FileSet
<1>1. Settled(s, A, G) /\ IsUi(s.ui) /\ IsState(s)
  BY DEF Settled, UiShape, World
<1>2. CASE s.ui.screen = "explorer"
  <2>1. PICK r : r = Rebuild(s)
    BY Zenon
  <2>2. RebuildRows(s) = r
    BY <1>2, <2>1, Zenon DEF RebuildRows
  <2>3. Settled(r, A, G) /\ SameSearch(r, s) /\ r.tree = s.tree
        /\ r.cache = s.cache /\ r.ui.current \in {s.ui.current, NoNode}
    BY <1>1, <2>1, RebuildSettles
  <2> QED BY <2>2, <2>3 DEF SameSearch
<1>3. CASE s.ui.screen # "explorer" /\ s.ui.screen = "heaviest" /\ s.ui.query # NoQuery
  <2>1. PICK f : f = s.heavy.queries[s.ui.query].heap.kept
    BY Zenon
  <2>2. PICK u : u = [s.ui EXCEPT !.found = f]
    BY Zenon
  <2>3. PICK r : r = [s EXCEPT !.ui = u]
    BY Zenon
  <2>4. RebuildRows(s) = r
    <3>1. RebuildRows(s) = [s EXCEPT !.ui.found = s.heavy.queries[s.ui.query].heap.kept]
      BY <1>3, Zenon DEF RebuildRows
    <3>2. RebuildRows(s) = [s EXCEPT !.ui.found = f]
      BY <2>1, <3>1, Zenon
    <3> QED BY <2>2, <2>3, <3>2
  <2>5. Elements(f) \subseteq FileSet
    <3>1. QueryShape(s.heavy.queries[s.ui.query])
      BY <1>3 DEF HeavyShape
    <3>2. f \in Seq(FileSet)
      BY <2>1, <3>1 DEF QueryShape, IsHeap
    <3> QED BY <3>2 DEF Elements
  <2>6. PICK a, b, c, d, e, k, g, h :
           /\ s.ui = [current |-> a, rows |-> b, selected |-> c, key |-> d,
                      showFiles |-> e, screen |-> k, query |-> g, found |-> h]
           /\ s.ui.current = a /\ s.ui.rows = b /\ s.ui.selected = c /\ s.ui.key = d
           /\ s.ui.showFiles = e /\ s.ui.screen = k /\ s.ui.query = g /\ s.ui.found = h
           /\ a \in Node \cup {NoNode} /\ c \in Nat \ {0}
    BY <1>1, UiFields
  <2>7. u = [current |-> a, rows |-> b, selected |-> c, key |-> d,
             showFiles |-> e, screen |-> k, query |-> g, found |-> f]
    BY <2>2, <2>6
  <2>8. SameRows(u, s.ui) /\ u.query = s.ui.query /\ u.found = f
    BY <2>6, <2>7 DEF SameRows
  <2>9. UiShape(u) /\ u.current = s.ui.current
    BY <2>8, SameRowsShape
  <2>10. Settled(r, A, G) /\ WithUi(r, s, u)
    BY <1>1, <2>3, <2>9, UiSettles
  <2> QED BY <2>4, <2>5, <2>8, <2>9, <2>10 DEF WithUi
<1>4. CASE s.ui.screen # "explorer" /\ ~(s.ui.screen = "heaviest" /\ s.ui.query # NoQuery)
  <2>1. RebuildRows(s) = s
    BY <1>4, Zenon DEF RebuildRows
  <2> QED BY <1>1, <2>1
<1> QED BY <1>2, <1>3, <1>4

LEMMA TickKeeps ==
  ASSUME BaseInv, Tick
  PROVE  BaseInv' /\ heavy' = FoldLeft(ApplyProgress, heavy, progress)
<1>0. PICK T \in {{}} \cup {{t} : t \in {x \in scans : x.node.dir \in scenario.scans}},
           report \in {{}} \cup (IF FilesWaiting = {} THEN {DOMAIN removal} ELSE {}) :
        LET gone == {f \in report : removal[f] = "removed"}
            a == ApplyEvents(Seen(T))
            b == AbsorbAll(a, gone, marks)
        IN  /\ Becomes(RebuildRows(b))
            /\ removal' = [f \in DOMAIN removal \ report |-> removal[f]]
            /\ marks' = [f \in DOMAIN marks \ gone |-> marks[f]]
            /\ missed' = missed \cup {f \in gone : marks[f] # NoNode /\ marks[f] \notin DOMAIN b.tree}
  BY Zenon DEF Tick
<1>1. PICK gone, a, b :
        /\ T \in {{}} \cup {{t} : t \in {x \in scans : x.node.dir \in scenario.scans}}
        /\ report \in {{}} \cup (IF FilesWaiting = {} THEN {DOMAIN removal} ELSE {})
        /\ gone = {f \in report : removal[f] = "removed"}
        /\ a = ApplyEvents(Seen(T)) /\ b = AbsorbAll(a, gone, marks)
        /\ Becomes(RebuildRows(b))
        /\ removal' = [f \in DOMAIN removal \ report |-> removal[f]]
        /\ marks' = [f \in DOMAIN marks \ gone |-> marks[f]]
        /\ missed' = missed \cup {f \in gone : marks[f] # NoNode /\ marks[f] \notin DOMAIN b.tree}
  BY <1>0, Zenon
<1>2. /\ answers' = <<>> /\ progress' = <<>> /\ lister' = lister /\ walker' = walker
      /\ onDisk' = onDisk /\ scenario' = scenario
  BY DEF Tick
<1>3. PICK m : m = Seen(T)
  BY Zenon
<1>4. World(m, Results, Gone) /\ Keeps(State, m)
  BY <1>1, <1>3, SeenWorld
<1>5. a = ApplyEvents(m)
  BY <1>1, <1>3
<1>6. /\ World(a, Underway, Gone) /\ a.ui = ui
      /\ a.heavy = FoldLeft(ApplyProgress, heavy, progress)
  BY <1>4, <1>5, EventsWorld
<1>7. /\ UiShape(ui) /\ HeavyShape(heavy) /\ progress \in Seq(Progress)
      /\ ui.query \in DOMAIN heavy.queries \cup {NoQuery} /\ Elements(ui.found) \subseteq FileSet
  BY StateFields DEF BaseInv, SearchShape
<1>8. /\ HeavyShape(a.heavy) /\ DOMAIN a.heavy.queries = DOMAIN heavy.queries
      /\ a.heavy.walks = heavy.walks /\ a.heavy.next = heavy.next
  BY <1>6, <1>7, ApplyAllShape
<1>9. /\ MarksFit(marks) /\ gone \subseteq report /\ report \subseteq DOMAIN removal
      /\ DOMAIN removal \subseteq DOMAIN marks
      /\ \A f \in DOMAIN removal :
           removal[f] \in {"waiting", "removed", "kept"} /\ (removal[f] = "kept" => f \in Existing)
      /\ \A f \in report : removal[f] # "waiting"
  BY <1>1 DEF BaseInv, MarksShape, FilesWaiting
<1>10. PICK H : H = Gone \cup {f \in gone : ~Stale(DOMAIN a.tree, marks[f])}
  BY Zenon
<1>11. World(b, Underway, H) /\ DOMAIN b.tree = DOMAIN a.tree /\ b.heavy = a.heavy /\ b.ui = ui
  <2>1. PICK M, A, G : M = marks /\ A = Underway /\ G = Gone
    BY Zenon
  <2>2. MarksFit(M) /\ gone \in SUBSET DOMAIN M
    BY <1>9, <2>1
  <2>3. b = AbsorbAll(a, gone, M) /\ H = G \cup {f \in gone : ~Stale(DOMAIN a.tree, M[f])}
        /\ World(a, A, G)
    BY <1>1, <1>6, <1>10, <2>1
  <2>4. /\ World(b, A, H) /\ DOMAIN b.tree = DOMAIN a.tree
        /\ b.heavy = a.heavy /\ b.ui = a.ui
    BY <2>2, <2>3, AbsorbAllWorld
  <2> QED BY <1>6, <2>1, <2>4
<1>12. PICK r : r = RebuildRows(b)
  BY Zenon
<1>13. /\ Settled(r, Underway, H) /\ r.tree = b.tree /\ r.cache = b.cache /\ r.heavy = b.heavy
       /\ r.ui.query = ui.query /\ r.ui.current \in {ui.current, NoNode}
       /\ Elements(r.ui.found) \subseteq FileSet
  BY <1>7, <1>8, <1>11, <1>12, RowsShown
<1>14. Becomes(r)
  BY <1>1, <1>12
<1>15. State' = r
  BY <1>13, <1>14, NextState DEF Settled, World
<1>16. /\ tree' = r.tree /\ cache' = r.cache /\ heavy' = r.heavy /\ ui' = r.ui
  BY <1>14 DEF Becomes
<1>17. Results' = Underway
  <2>1. Elements(answers') = {}
    BY <1>2 DEF Elements
  <2> QED BY <1>2, <2>1 DEF Results, Underway
<1>18. Existing' = Existing
  BY <1>2 DEF Existing
<1>19. DOMAIN removal' = DOMAIN removal \ report /\ \A f \in DOMAIN removal' : removal'[f] = removal[f]
  BY <1>1
<1>20. Gone' \subseteq H
  <2>1. ASSUME NEW f \in Gone' PROVE f \in H
    <3>1. f \in FileSet /\ f \notin Existing /\ f \notin DOMAIN removal' /\ f \notin missed'
      BY <1>18, <2>1 DEF Gone, Absorbed
    <3>2. f \notin missed /\ ~(f \in gone /\ Stale(DOMAIN a.tree, marks[f]))
      BY <1>1, <1>11, <3>1 DEF Stale
    <3>3. CASE f \in DOMAIN removal
      <4>1. f \in report
        BY <1>19, <3>1, <3>3
      <4>2. f \in gone
        BY <1>1, <1>9, <3>1, <4>1
      <4> QED BY <1>10, <3>2, <4>2
    <3>4. CASE f \notin DOMAIN removal
      BY <1>10, <3>1, <3>2, <3>4 DEF Gone, Absorbed
    <3> QED BY <3>3, <3>4
  <2> QED BY <2>1
<1>21. Settled(State', Results', Gone')
  <2>1. PICK K : K = Gone'
    BY Zenon
  <2>2. Settled(r, Underway, K)
    BY <1>13, <1>20, <2>1, FewerGone
  <2> QED BY <1>15, <1>17, <2>1, <2>2
<1>22. ThreadsShape'
  <2>1. answers' \in Seq(Result)
    BY <1>2, EmptySeq
  <2> QED BY <1>2, <2>1 DEF BaseInv, ThreadsShape
<1>23. SearchShape'
  <2>1. walker \in [Walker -> WalkerState] /\ \A t \in AllWalks : t.query < heavy.next
    BY DEF BaseInv, SearchShape
  <2>2. AllWalks' = AllWalks
    BY <1>2, <1>8, <1>11, <1>13, <1>16 DEF AllWalks, TasksAt
  <2>3. progress' \in Seq(Progress) /\ DOMAIN progress' = {}
    BY <1>2, EmptySeq
  <2> QED BY <1>2, <1>7, <1>8, <1>11, <1>13, <1>16, <2>1, <2>2, <2>3 DEF SearchShape
<1>24. MarksShape'
  <2>1. DOMAIN marks' = DOMAIN marks \ gone /\ \A f \in DOMAIN marks' : marks'[f] = marks[f]
    BY <1>1
  <2>2. MarksFit(marks')
    <3>1. IsFiniteSet(DOMAIN marks')
      BY <1>9, <2>1, FS_Subset DEF MarksFit
    <3> QED BY <1>9, <2>1, <3>1 DEF MarksFit
  <2>3. DOMAIN removal' \subseteq DOMAIN marks'
    BY <1>9, <1>19, <2>1
  <2> QED BY <1>9, <1>18, <1>19, <2>2, <2>3 DEF MarksShape
<1>25. DiskShape(onDisk') /\ DOMAIN onDisk' = Dir /\ scenario' \in Scenarios
  BY <1>2 DEF BaseInv
<1>26. heavy' = FoldLeft(ApplyProgress, heavy, progress)
  BY <1>6, <1>11, <1>13, <1>16
<1> QED BY <1>21, <1>22, <1>23, <1>24, <1>25, <1>26 DEF BaseInv

-----------------------------------------------------------------------------
(* The invariant, from the first state on. *)

LEMMA EmptyWorld ==
  ASSUME NEW s, IsState(s), s.tree = <<>>, s.scans = {}, s.made = [d \in Dir |-> 0],
         s.cache = EmptyCache
  PROVE  World(s, {}, {})
<1>1. DOMAIN s.tree = {}
  OBVIOUS
<1>2. TreeShape(s.tree, s.made) /\ ScanShape(s.tree, s.scans, s.made)
  BY <1>1, FS_EmptySet DEF TreeShape, ScanShape
<1>3. PICK c : c = s.cache
  BY Zenon
<1>4. /\ c = [entries |-> c.entries, order |-> c.order, next |-> c.next, queue |-> c.queue]
      /\ c.entries = <<>> /\ c.order = <<>> /\ c.next = 1 /\ c.queue = {}
  BY <1>3 DEF EmptyCache
<1>5. DOMAIN c.entries = {} /\ DOMAIN c.order = {} /\ c.order \in Seq(Node) /\ Len(c.order) = 0
  BY <1>4, EmptySeq
<1>6. Elements(c.order) = {} /\ Distinct(c.order)
  BY <1>4, <1>5 DEF Elements, Distinct
<1>7. CacheShape(c)
  BY <1>4, <1>5, <1>6, ListingAssumption DEF CacheShape
<1>8. CacheInv(c, s.tree, {}, {})
  BY <1>5, <1>7 DEF CacheInv, Expected, Clean
<1> QED BY <1>2, <1>3, <1>8 DEF World

LEMMA BaseInit ==
  ASSUME Init
  PROVE  BaseInv /\ heavy = NoQueries
<1> DEFINE u == [current |-> NoNode, rows |-> <<>>, selected |-> 1, key |-> NoKey,
                 showFiles |-> TRUE, screen |-> "explorer", query |-> NoQuery, found |-> <<>>]
           bare == [tree |-> <<>>, scans |-> {}, made |-> [d \in Dir |-> 0],
                    cache |-> EmptyCache, heavy |-> NoQueries, ui |-> u]
<1>1. PICK r : r = OpenDirectory(bare, Top)
  BY Zenon
<1>2. /\ tree = r.tree /\ scans = r.scans /\ made = r.made /\ cache = r.cache
      /\ heavy = r.heavy /\ ui = r.ui
      /\ lister = [w \in Lister |-> Waiting] /\ answers = <<>>
      /\ walker = [w \in Walker |-> Resting] /\ progress = <<>>
      /\ onDisk = FilesIn /\ marks = <<>> /\ removal = <<>> /\ missed = {} /\ scenario \in Scenarios
  BY <1>1, Zenon DEF Init
<1>3. IsState(bare) /\ bare.tree = <<>> /\ bare.scans = {} /\ bare.made = [d \in Dir |-> 0]
      /\ bare.cache = EmptyCache /\ bare.ui = u /\ bare.heavy = NoQueries
  <2> HIDE DEF u
  <2> QED BY DEF IsState
<1>4. IsUi(u) /\ u.query = NoQuery /\ u.found = <<>>
  <2>1. PICK t, x : t = TRUE /\ x = <<>>
    BY Zenon
  <2>2. u = [current |-> NoNode, rows |-> x, selected |-> 1, key |-> NoKey,
             showFiles |-> t, screen |-> "explorer", query |-> NoQuery, found |-> x]
    BY <2>1
  <2> HIDE DEF u
  <2> QED BY <2>1, <2>2 DEF IsUi
<1> HIDE DEF u, bare
<1>5. World(bare, {}, {})
  BY <1>3, EmptyWorld
<1>6. Settled(r, {}, {}) /\ SameSearch(r, bare)
  <2>1. PICK d \in Dir : d = Top
    BY ExplorerAssumption
  <2>2. IsUi(bare.ui)
    BY <1>3, <1>4
  <2>3. r = OpenDirectory(bare, d)
    BY <1>1, <2>1
  <2> QED BY <1>5, <2>2, <2>3, OpenSettles
<1>7. State = r
  BY <1>2, <1>6 DEF State, Settled, World, IsState
<1>8. Results = {} /\ Gone = {}
  <2>1. Underway = {}
    BY <1>2 DEF Underway
  <2>2. Elements(answers) = {}
    BY <1>2 DEF Elements
  <2>3. Existing = FileSet
    BY <1>2 DEF Existing, FileSet
  <2> QED BY <2>1, <2>2, <2>3 DEF Results, Gone, Absorbed
<1>9. Settled(State, Results, Gone)
  BY <1>6, <1>7, <1>8
<1>10. ThreadsShape
  BY <1>2, EmptySeq DEF ThreadsShape
<1>11. SearchShape
  <2>1. PICK h : h = NoQueries
    BY Zenon
  <2>2. h = [queries |-> h.queries, floors |-> h.floors, walks |-> h.walks, next |-> h.next]
        /\ h.queries = <<>> /\ h.floors = <<>> /\ h.walks = {} /\ h.next = 1
    BY <2>1 DEF NoQueries
  <2>3. DOMAIN h.queries = {}
    BY <2>2
  <2>4. HeavyShape(h)
    BY <2>2, <2>3 DEF HeavyShape, QueryNr
  <2>5. heavy = h /\ ui.query = NoQuery /\ ui.found = <<>>
    BY <1>2, <1>3, <1>4, <1>6, <2>1 DEF SameSearch
  <2>6. \A w \in Walker : TasksAt(w) = {}
    BY <1>2 DEF TasksAt, Resting
  <2>7. AllWalks = {}
    BY <2>2, <2>5, <2>6 DEF AllWalks
  <2>8. progress \in Seq(Progress) /\ DOMAIN progress = {}
    BY <1>2, EmptySeq
  <2>9. walker \in [Walker -> WalkerState]
    BY <1>2 DEF WalkerState
  <2>10. Elements(ui.found) \subseteq FileSet
    BY <2>5 DEF Elements
  <2> QED BY <2>4, <2>5, <2>7, <2>8, <2>9, <2>10 DEF SearchShape
<1>12. MarksShape
  <2>1. DOMAIN marks = {} /\ DOMAIN removal = {}
    BY <1>2
  <2> QED BY <2>1, FS_EmptySet DEF MarksShape, MarksFit
<1>13. DiskShape(onDisk) /\ DOMAIN onDisk = Dir
  BY <1>2, ExplorerAssumption DEF DiskShape
<1>14. heavy = NoQueries
  BY <1>2, <1>3, <1>6 DEF SameSearch
<1> QED BY <1>2, <1>9, <1>10, <1>11, <1>12, <1>13, <1>14 DEF BaseInv

LEMMA UserKeeps ==
  ASSUME BaseInv, UserStep
  PROVE  BaseInv' /\ SearchMoves
<1>1. CASE OpenSelectedRow
  BY <1>1, OpenRowKeeps
<1>2. CASE GoToParent
  BY <1>2, ParentKeeps
<1>3. CASE RescanCurrent \/ RescanSelected \/ RescanRoot
  <2>1. \E n, op, screens : Press(op, screens) /\ Becomes(Rescan(State, n))
    BY <1>3, Zenon DEF RescanCurrent, RescanSelected, RescanRoot
  <2> QED BY <2>1, RescanKeeps
<1>4. CASE ToggleFiles
  BY <1>4, ToggleKeeps
<1>5. CASE MoveCursor
  BY <1>5, CursorKeeps
<1>6. CASE StartHeaviestQuery
  BY <1>6, StartKeeps
<1>7. CASE SwitchScreen
  BY <1>7, ScreenKeeps
<1>8. CASE JumpToHeaviestFile
  BY <1>8, JumpKeeps
<1>9. CASE ToggleMark
  BY <1>9, MarkKeeps
<1>10. CASE Delete
  BY <1>10, DeleteKeeps
<1> QED BY <1>1, <1>2, <1>3, <1>4, <1>5, <1>6, <1>7, <1>8, <1>9, <1>10, Zenon DEF UserStep

LEMMA BaseStep ==
  ASSUME BaseInv, [Next]_vars
  PROVE  BaseInv'
<1>1. CASE UNCHANGED vars
  BY <1>1 DEF vars, listingVars, heavyVars, treeVars, deletionVars, BaseInv, State, Results,
     Underway, Gone, Absorbed, Existing, ThreadsShape, SearchShape, AllWalks, TasksAt, MarksShape
<1>2. CASE UserStep
  BY <1>2, UserKeeps
<1>3. CASE Tick
  BY <1>3, TickKeeps
<1>4. ASSUME NEW w \in Lister, ListerStep(w) PROVE BaseInv'
  <2>1. UNCHANGED <<heavyVars, treeVars, ui, deletionVars, scenario, ops>>
        /\ (ListFiles(w, onDisk) \/ EmitListing(w))
    BY <1>4, Zenon DEF ListerStep
  <2> QED BY <2>1, ListKeeps, EmitKeeps, Zenon
<1>5. ASSUME NEW w \in Walker, WalkStep(w) PROVE BaseInv'
  BY <1>5, WalkKeeps
<1>6. CASE RemoveNextFile
  BY <1>6, RemoveKeeps
<1> QED BY <1>1, <1>2, <1>3, <1>4, <1>5, <1>6, Zenon DEF Next

LEMMA SpecBaseInv == Spec => []BaseInv
<1>1. Init => BaseInv
  BY BaseInit
<1>2. BaseInv /\ [Next]_vars => BaseInv'
  BY BaseStep
<1> QED BY <1>1, <1>2, PTL DEF Spec

LEMMA BaseMeans ==
  ASSUME BaseInv
  PROVE  ExplorerTypeOK /\ CacheInOrder /\ PendingIsUnderWay /\ RemovedFilesVanish
         /\ CursorOnItsItem
<1>1. /\ World(State, Results, Gone) /\ UiShape(ui) /\ IsUi(ui) /\ TreeShape(tree, made)
      /\ State.cache = cache /\ State.tree = tree /\ State.scans = scans
  BY StateFields
<1>2. /\ CacheShape(cache) /\ Expected(cache, tree, Results) /\ Clean(cache, Results, Gone)
      /\ ScanShape(tree, scans, made)
  BY <1>1, StateFields DEF World, CacheInv
<1>3. ExplorerTypeOK
  <2>1. DOMAIN tree \subseteq Node /\ \A n \in DOMAIN tree : tree[n].parent \in DOMAIN tree \cup {NoNode}
    BY <1>1 DEF TreeShape
  <2>2. \A t \in scans : t.node \in Node
    BY <1>2 DEF ScanShape
  <2>3. DOMAIN cache.entries \subseteq DOMAIN tree /\ cache.order \in Seq(Node)
    BY <1>2 DEF CacheShape, Expected
  <2>4. ui.current \in Node \cup {NoNode} /\ ui.selected \in Nat \ {0}
    BY <1>1 DEF IsUi
  <2>5. ui.query \in DOMAIN heavy.queries \cup {NoQuery}
    BY DEF BaseInv, SearchShape
  <2>6. \A d \in Dir : onDisk[d] \in Seq(Elements(FilesIn[d]))
    BY DEF BaseInv, DiskShape
  <2>7. DOMAIN removal \subseteq DOMAIN marks /\ \A f \in DOMAIN marks :
          marks[f] # NoNode => marks[f] \in Node /\ f \in Elements(FilesIn[marks[f].dir])
    BY DEF BaseInv, MarksShape, MarksFit, MarkFits
  <2> QED BY <2>1, <2>2, <2>3, <2>4, <2>5, <2>6, <2>7 DEF ExplorerTypeOK
<1>4. CacheInOrder
  BY <1>2 DEF CacheInOrder, CacheShape
<1>5. PendingIsUnderWay
  <2>1. ASSUME NEW n \in DOMAIN cache.entries, cache.entries[n].pending # NoRequest
        PROVE  \/ \E t \in cache.queue : /\ t.node = n /\ t.request = cache.entries[n].pending
                                         /\ t.gen = tree[n].gen
               \/ \E w \in Lister : /\ lister[w] # Waiting /\ lister[w].node = n
                                    /\ lister[w].request = cache.entries[n].pending
                                    /\ lister[w].gen = tree[n].gen
               \/ \E i \in DOMAIN answers : /\ answers[i].node = n
                                            /\ answers[i].request = cache.entries[n].pending
                                            /\ answers[i].gen = tree[n].gen
    <3>1. PICK t \in cache.queue \cup Results :
            t.node = n /\ t.gen = tree[n].gen /\ t.request = cache.entries[n].pending
      BY <1>2, <2>1 DEF Expected
    <3>2. CASE t \in cache.queue
      BY <3>1, <3>2
    <3>3. CASE t \in Underway
      BY <3>1, <3>3 DEF Underway
    <3>4. CASE t \in Elements(answers)
      BY <3>1, <3>4 DEF Elements
    <3> QED BY <3>2, <3>3, <3>4 DEF Results
  <2> QED BY <2>1 DEF PendingIsUnderWay
<1>6. RemovedFilesVanish
  <2>1. ASSUME NEW n \in DOMAIN cache.entries, cache.entries[n].listing # NoListing
        PROVE  Elements(cache.entries[n].listing) \cap Gone = {}
    BY <1>2, <2>1 DEF Clean
  <2>2. ASSUME NEW i \in DOMAIN answers, answers[i].node \in DOMAIN cache.entries,
               cache.entries[answers[i].node].pending = answers[i].request
        PROVE  Elements(answers[i].listing) \cap Gone = {}
    <3>1. answers[i] \in Results
      BY DEF Results, Elements
    <3> QED BY <1>2, <2>2, <3>1 DEF Clean
  <2> QED BY <2>1, <2>2 DEF RemovedFilesVanish, NamesOne, Gone
<1>7. CursorOnItsItem
  BY <1>1 DEF UiShape, CursorOnItsItem, Row
<1> QED BY <1>3, <1>4, <1>5, <1>6, <1>7

-----------------------------------------------------------------------------
(* What follows. *)

(* Parents, cached directories and the search on screen exist; the cursor, *)
(* the files on disk and the marks keep their types, and only what is      *)
(* marked is being removed.                                                *)
THEOREM TypesOfTheExplorer == Spec => []ExplorerTypeOK
<1>1. BaseInv => ExplorerTypeOK
  BY BaseMeans
<1> QED BY <1>1, SpecBaseInv, PTL

(* remember_listing, invalidate_listing and forget_listings_of_missing_    *)
(* nodes keep the map and the queue of the listing cache in step, within   *)
(* the capacity, whatever is opened, rescanned, removed and answered.      *)
THEOREM CacheStaysInOrder == Spec => []CacheInOrder
<1>1. BaseInv => CacheInOrder
  BY BaseMeans
<1> QED BY <1>1, SpecBaseInv, PTL

(* No directory is taken to be loading without a request whose answer will *)
(* be accepted: rescans, evictions and repeated requests included.         *)
THEOREM PendingIsAnswered == Spec => []PendingIsUnderWay
<1>1. BaseInv => PendingIsUnderWay
  BY BaseMeans
<1> QED BY <1>1, SpecBaseInv, PTL

(* No listing that is kept, and no answer that will be, names a file after *)
(* the tick that absorbed its removal, whichever directories the marked    *)
(* files are in; files whose mark remembered a node that a rescan has      *)
(* dropped (mod.rs:1121) are not among these.                              *)
THEOREM RemovedStayAway == Spec => []RemovedFilesVanish
<1>1. BaseInv => RemovedFilesVanish
  BY BaseMeans
<1> QED BY <1>1, SpecBaseInv, PTL

(* The cursor is on the row whose item it remembers, between any two steps.*)
THEOREM CursorHoldsItsItem == Spec => []CursorOnItsItem
<1>1. BaseInv => CursorOnItsItem
  BY BaseMeans
<1> QED BY <1>1, SpecBaseInv, PTL

-----------------------------------------------------------------------------
(* The work of the searches. *)

LEMMA SpawnSums ==
  ASSUME NEW p \in Seq(Progress), NEW E \in SUBSET DOMAIN p
  PROVE  /\ IsFiniteSet(E) /\ Cardinality(E) \in Nat
         /\ SumFunctionOnSet(Spawns(p), E) \in Nat
         /\ \A i \in E : /\ p[i].spawned \in Nat /\ IsFiniteSet(E \ {i})
                         /\ Cardinality(E) = Cardinality(E \ {i}) + 1
                         /\ SumFunctionOnSet(Spawns(p), E)
                              = p[i].spawned + SumFunctionOnSet(Spawns(p), E \ {i})
<1>1. DOMAIN p = 1 .. Len(p) /\ Len(p) \in Nat /\ \A i \in DOMAIN p : p[i] \in Progress
  BY LenProperties, ElementOfSeq
<1>2. IsFiniteSet(E) /\ Cardinality(E) \in Nat
  <2>1. PICK n \in Nat : E \in SUBSET (1 .. n)
    BY <1>1
  <2> QED BY <2>1, FinitePart
<1>3. PICK f : f = Spawns(p)
  BY Zenon
<1>4. \A i \in E : f[i] = p[i].spawned /\ f[i] \in Nat /\ f[i] \in Int
  BY <1>1, <1>3 DEF Spawns, Progress
<1>5. SumFunctionOnSet(f, E) \in Nat
  BY <1>2, <1>4, SumNat
<1>6. ASSUME NEW i \in E
      PROVE  /\ p[i].spawned \in Nat /\ IsFiniteSet(E \ {i})
             /\ Cardinality(E) = Cardinality(E \ {i}) + 1
             /\ SumFunctionOnSet(f, E) = p[i].spawned + SumFunctionOnSet(f, E \ {i})
  <2>1. SumFunctionOnSet(f, E) = f[i] + SumFunctionOnSet(f, E \ {i})
    BY <1>2, <1>4, SumRemove
  <2>2. IsFiniteSet(E \ {i}) /\ Cardinality(E \ {i}) = Cardinality(E) - 1
        /\ Cardinality(E \ {i}) \in Nat
    BY <1>2, FS_RemoveElement, FS_CardinalityType
  <2>3. PICK k, l : k = Cardinality(E) /\ l = Cardinality(E \ {i})
    BY Zenon
  <2>4. k = l + 1
    BY <1>2, <2>2, <2>3
  <2>5. p[i].spawned \in Nat /\ f[i] = p[i].spawned
    BY <1>4
  <2> QED BY <2>1, <2>2, <2>3, <2>4, <2>5
<1> QED BY <1>2, <1>3, <1>5, <1>6

(* A search that applies the first of its events still knows its work.     *)
LEMMA KnownAfter ==
  ASSUME NEW old, NEW Z, IsFiniteSet(Z), NEW p \in Seq(Progress), NEW E \in SUBSET DOMAIN p,
         NEW i \in E, \A j \in E : i <= j, KnownTo(old, Z, p, E), old.outstanding \in Nat,
         NEW new,
         new.outstanding = (IF old.outstanding + p[i].spawned = 0 THEN 0
                            ELSE old.outstanding + p[i].spawned - 1),
         new.finished = (old.finished \/ new.outstanding = 0)
  PROVE  KnownTo(new, Z, p, E \ {i})
<1>1. PICK o, s, z, e, a, b :
        /\ o = old.outstanding /\ s = p[i].spawned /\ z = Cardinality(Z) /\ e = Cardinality(E)
        /\ a = SumFunctionOnSet(Spawns(p), E) /\ b = SumFunctionOnSet(Spawns(p), E \ {i})
  BY Zenon
<1>2. DOMAIN p \subseteq Nat
  BY LenProperties
<1>3. /\ o \in Nat /\ s \in Nat /\ z \in Nat /\ e \in Nat /\ a \in Nat /\ a = s + b
      /\ Cardinality(E \ {i}) \in Nat /\ e = Cardinality(E \ {i}) + 1
      /\ b \in Nat /\ IsFiniteSet(E)
  BY <1>1, SpawnSums, FS_CardinalityType
<1>4. o + a = z + e
  BY <1>1 DEF KnownTo
<1>5. o >= 1
  <2>1. Earlier(E, i) = {}
    BY <1>2 DEF Earlier
  <2>2. SumFunctionOnSet(Spawns(p), Earlier(E, i)) = 0 /\ Cardinality(Earlier(E, i)) = 0
    BY <2>1, SumEmpty, FS_EmptySet
  <2>3. o + 0 >= 0 + 1
    BY <1>1, <2>2 DEF KnownTo
  <2> QED BY <1>3, <2>3
<1>6. PICK n : n = new.outstanding
  BY Zenon
<1>7. n + 1 = o + s /\ n \in Nat
  <2>1. o + s # 0
    BY <1>3, <1>5
  <2>2. n = o + s - 1
    BY <1>1, <1>6, <2>1
  <2> QED BY <1>3, <1>5, <2>2
<1>8. n + b = z + Cardinality(E \ {i})
  BY <1>3, <1>4, <1>7
<1>9. ASSUME NEW j \in E \ {i}
      PROVE  n + SumFunctionOnSet(Spawns(p), Earlier(E \ {i}, j))
               >= Cardinality(Earlier(E \ {i}, j)) + 1
  <2>1. i < j /\ i \in Earlier(E, j)
    BY <1>2 DEF Earlier
  <2>2. Earlier(E \ {i}, j) = Earlier(E, j) \ {i} /\ Earlier(E, j) \in SUBSET DOMAIN p
    BY DEF Earlier
  <2>3. PICK X, c, d : /\ X = Earlier(E, j) /\ c = SumFunctionOnSet(Spawns(p), X)
                       /\ d = SumFunctionOnSet(Spawns(p), X \ {i})
    BY Zenon
  <2>4. /\ Cardinality(X) = Cardinality(X \ {i}) + 1 /\ c = s + d /\ c \in Nat
        /\ Cardinality(X \ {i}) \in Nat /\ d \in Nat
    <3>1. X \in SUBSET DOMAIN p /\ X \ {i} \in SUBSET DOMAIN p /\ i \in X
      BY <2>1, <2>2, <2>3
    <3> QED BY <1>1, <2>3, <3>1, SpawnSums
  <2>5. o + c >= Cardinality(X) + 1
    BY <1>1, <2>3 DEF KnownTo
  <2>6. n + d >= Cardinality(X \ {i}) + 1
    BY <1>3, <1>7, <2>4, <2>5
  <2> QED BY <2>2, <2>3, <2>6
<1>10. ~old.finished
  BY DEF KnownTo
<1>11. new.finished <=> n = 0
  BY <1>6, <1>10, Zenon
<1>12. n = 0 <=> Z = {} /\ E \ {i} = {}
  <2>1. ASSUME Z = {}, E \ {i} = {} PROVE n = 0
    <3>1. z = 0 /\ Cardinality(E \ {i}) = 0
      BY <1>1, <2>1, FS_EmptySet
    <3> QED BY <1>3, <1>7, <1>8, <3>1
  <2>2. ASSUME n = 0 PROVE Z = {} /\ E \ {i} = {}
    <3>1. E \ {i} = {}
      <4> SUFFICES ASSUME E \ {i} # {} PROVE FALSE
        OBVIOUS
      <4>1. PICK j \in E \ {i} : \A k \in E \ {i} : j <= k
        <5>1. PICK G : G = E \ {i}
          BY Zenon
        <5>2. G \in SUBSET Nat /\ G # {}
          BY <1>2, <5>1
        <5> QED BY <5>1, <5>2, LeastOf
      <4>2. Earlier(E \ {i}, j) = {}
        BY <1>2, <4>1 DEF Earlier
      <4>3. SumFunctionOnSet(Spawns(p), Earlier(E \ {i}, j)) = 0
            /\ Cardinality(Earlier(E \ {i}, j)) = 0
        BY <4>2, SumEmpty, FS_EmptySet
      <4>4. n + 0 >= 0 + 1
        BY <1>9, <4>3
      <4> QED BY <2>2, <4>4
    <3>2. b = 0 /\ Cardinality(E \ {i}) = 0
      BY <1>1, <3>1, SumEmpty, FS_EmptySet
    <3>3. z = 0
      BY <1>3, <1>8, <2>2, <3>2
    <3> QED BY <1>1, <3>1, <3>3, FS_EmptySet
  <2> QED BY <2>1, <2>2
<1>13. E \ {i} \subseteq E
  OBVIOUS
<1> QED BY <1>1, <1>6, <1>8, <1>9, <1>11, <1>12, Zenon DEF KnownTo

LEMMA KnownStep ==
  ASSUME NEW h, HeavyShape(h), NEW W, \A q : IsFiniteSet(WalksOf(W, q)),
         NEW p \in Seq(Progress), NEW R \in SUBSET DOMAIN p, NEW i \in R,
         \A j \in R : i <= j, KnownAll(h, W, p, R)
  PROVE  KnownAll(ApplyProgress(h, p[i]), W, p, R \ {i})
<1>1. PICK e, g : e = p[i] /\ g = ApplyProgress(h, e)
  OBVIOUS
<1>2. e \in Progress
  BY <1>1, ElementOfSeq, LenProperties
<1>3. Progressed(g, h, e)
  BY <1>1, <1>2, ApplyShape
<1>4. /\ DOMAIN g.queries = DOMAIN h.queries
      /\ \A q \in DOMAIN h.queries \ {e.query} : g.queries[q] = h.queries[q]
  BY <1>3, Zenon DEF Progressed
<1>5. ASSUME NEW q \in DOMAIN h.queries
      PROVE  KnownTo(g.queries[q], WalksOf(W, q), p, EventsAt(p, R \ {i}, q))
  <2>1. PICK Z, E : Z = WalksOf(W, q) /\ E = EventsAt(p, R, q)
    OBVIOUS
  <2>2. KnownTo(h.queries[q], Z, p, E) /\ IsFiniteSet(Z)
    BY <2>1 DEF KnownAll
  <2>3. CASE q # e.query
    <3>1. EventsAt(p, R \ {i}, q) = E
      BY <1>1, <2>1, <2>3 DEF EventsAt
    <3> QED BY <1>4, <2>1, <2>2, <2>3, <3>1
  <2>4. CASE q = e.query
    <3>1. EventsAt(p, R \ {i}, q) = E \ {i}
      BY <2>1 DEF EventsAt
    <3>2. i \in E /\ E \in SUBSET DOMAIN p /\ \A j \in E : i <= j
      BY <1>1, <2>1, <2>4 DEF EventsAt
    <3>3. PICK old, new : old = h.queries[q] /\ new = g.queries[q]
      OBVIOUS
    <3>4. /\ new.outstanding = (IF old.outstanding + e.spawned = 0 THEN 0
                                ELSE old.outstanding + e.spawned - 1)
          /\ new.finished = (old.finished \/ new.outstanding = 0)
      BY <1>3, <2>4, <3>3, Zenon DEF Progressed
    <3>5. new.outstanding = (IF old.outstanding + p[i].spawned = 0 THEN 0
                             ELSE old.outstanding + p[i].spawned - 1)
      BY <1>1, <3>4
    <3>6. old.outstanding \in Nat
      BY <3>3 DEF HeavyShape, QueryShape
    <3>7. KnownTo(old, Z, p, E)
      BY <2>2, <3>3
    <3>8. KnownTo(new, Z, p, E \ {i})
      BY <2>2, <3>2, <3>4, <3>5, <3>6, <3>7, KnownAfter
    <3> QED BY <2>1, <3>1, <3>3, <3>8
  <2> QED BY <2>3, <2>4
<1> QED BY <1>1, <1>4, <1>5 DEF KnownAll

(* Applied from the front. *)
Leading(p, s) == \A i \in s : \A j \in DOMAIN p : j < i => j \in s
KnownGood(z, s, h) ==
  /\ HeavyShape(h)
  /\ Leading(z.events, s) => KnownAll(h, z.walks, z.events, DOMAIN z.events \ s)
KnownFold == INSTANCE FoldLemmas WITH Op <- ProgressOp, Pick <- PickLast, Good <- KnownGood

(* The last of a leading part, and what leads without it.                  *)
LEMMA LeadingLast ==
  ASSUME NEW n \in Nat, NEW p, DOMAIN p = 1 .. n, NEW u \in SUBSET DOMAIN p, u # {}, Leading(p, u)
  PROVE  LET i == PickLast(u)
         IN  i \in u /\ Leading(p, u \ {i}) /\ \A j \in DOMAIN p \ (u \ {i}) : i <= j
<1>1. PICK i : i = PickLast(u)
  BY Zenon
<1>2. \E k \in u : \A j \in u : k >= j
  BY GreatestIsIn
<1>3. i \in u /\ \A j \in u : i >= j
  <2>1. i = CHOOSE k \in u : \A j \in u : k >= j
    BY <1>1 DEF PickLast
  <2> QED BY <1>2, <2>1
<1>4. Leading(p, u \ {i})
  BY <1>3 DEF Leading
<1>5. \A j \in DOMAIN p \ (u \ {i}) : i <= j
  BY <1>3 DEF Leading
<1> QED BY <1>1, <1>3, <1>4, <1>5

LEMMA KnownApplied ==
  ASSUME NEW h, HeavyShape(h), NEW W, \A q : IsFiniteSet(WalksOf(W, q)),
         NEW s \in Seq(Progress), KnownAll(h, W, s, DOMAIN s)
  PROVE  KnownAll(FoldLeft(ApplyProgress, h, s), W, s, {})
<1> DEFINE p == [events |-> s, walks |-> W]
           D == DOMAIN s
<1>1. PICK g : g = FoldLeft(ApplyProgress, h, s)
  BY Zenon
<1>2. p.events = s /\ p.walks = W
  OBVIOUS
<1> HIDE DEF p
<1>3. PICK f : f = KnownFold!Fold(p, h, D)
  BY Zenon
<1>4. g = f
  BY <1>1, <1>2, <1>3, Zenon DEF FoldLeft, MapThenFoldSet, KnownFold!Fold, KnownFold!Step,
     ProgressOp, PickLast, Max
<1>5. PICK n \in Nat : D = 1 .. n
  BY LenProperties
<1>6. IsFiniteSet(D)
  BY <1>5, FS_Interval
<1>7. \A u \in SUBSET D : u # {} => PickLast(u) \in u
  BY <1>5, PickLastPicks
<1> HIDE DEF D
<1>8. KnownGood(p, {}, h)
  <2>1. DOMAIN s \ {} = DOMAIN s
    OBVIOUS
  <2> QED BY <1>2, <2>1 DEF KnownGood
<1>9. ASSUME NEW u \in SUBSET D, u # {}, NEW a, KnownGood(p, u \ {PickLast(u)}, a)
      PROVE  KnownGood(p, u, ProgressOp(p, a, PickLast(u)))
  <2>1. PICK i : i = PickLast(u)
    BY Zenon
  <2>2. i \in D /\ i \in u
    BY <1>7, <1>9, <2>1
  <2>3. s[i] \in Progress
    BY <2>2, ElementOfSeq, LenProperties DEF D
  <2>4. PICK b : b = ApplyProgress(a, s[i])
    BY Zenon
  <2>5. HeavyShape(a) /\ HeavyShape(b)
    BY <1>9, <2>3, <2>4, ApplyShape DEF KnownGood
  <2>6. ASSUME Leading(s, u) PROVE KnownAll(b, W, s, D \ u)
    <3>1. Leading(s, u \ {i}) /\ \A j \in D \ (u \ {i}) : i <= j
      BY <1>5, <1>9, <2>1, <2>6, LeadingLast DEF D
    <3>2. PICK R : R = D \ (u \ {i})
      BY Zenon
    <3>3. KnownAll(a, W, s, R)
      BY <1>2, <1>9, <2>1, <3>1, <3>2 DEF KnownGood, D
    <3>4. R \in SUBSET DOMAIN s /\ i \in R /\ \A j \in R : i <= j
      BY <2>2, <3>1, <3>2 DEF D
    <3>5. KnownAll(b, W, s, R \ {i})
      BY <2>4, <2>5, <3>3, <3>4, KnownStep
    <3>6. R \ {i} = D \ u
      BY <2>2, <3>2
    <3> QED BY <3>5, <3>6
  <2>7. ProgressOp(p, a, i) = b
    BY <1>2, <2>4 DEF ProgressOp
  <2> QED BY <1>2, <2>1, <2>5, <2>6, <2>7 DEF KnownGood, D
<1>10. KnownGood(p, D, f)
  <2>1. \A u \in SUBSET D : u # {} =>
          \A a : KnownGood(p, u \ {PickLast(u)}, a)
                   => KnownGood(p, u, ProgressOp(p, a, PickLast(u)))
    BY <1>9
  <2>2. KnownFold!Inductive(D)
    BY <1>6, FiniteInductive DEF KnownFold!Inductive
  <2> QED BY <1>3, <1>7, <1>8, <2>1, <2>2, KnownFold!FoldKeeps
<1>11. Leading(s, D) /\ DOMAIN s \ D = {}
  BY DEF Leading, D
<1> QED BY <1>1, <1>2, <1>4, <1>10, <1>11 DEF KnownGood

(* A search that h had, or one that has only begun. *)
Carried(q, h, g) ==
  /\ q \in DOMAIN h.queries /\ g.queries[q] = h.queries[q] /\ g.floors[q] = h.floors[q]
  /\ WalksOf(g.walks, q) = WalksOf(h.walks, q)
Started(q, h, g) ==
  /\ q = h.next /\ g.next = h.next + 1 /\ g.floors[q] = 0
  /\ \E d \in Dir, y \in Nat, limit \in Nat :
       /\ Begun(g.queries[q], d, y, limit)
       /\ WalksOf(g.walks, q) = {[query |-> q, dir |-> d, limit |-> limit, depth |-> y]}

LEMMA SearchedFacts ==
  ASSUME NEW h, HeavyShape(h), NEW g, Searched(h, g)
  PROVE  /\ HeavyShape(g)
         /\ \A q \in DOMAIN g.queries : Carried(q, h, g) \/ Started(q, h, g)
         /\ \A t \in g.walks : t \in h.walks \/ t.query = h.next
         /\ \A t, u \in g.walks : t.query = h.next /\ u.query = h.next => t = u
<1>1. PICK c : /\ c = h \/ \E x : c = CancelQuery(h, x)
               /\ g = c \/ \E d \in Dir, y \in Nat, limit \in Nat : g = StartQuery(c, d, y, limit)
  BY Zenon DEF Searched
<1>2. h.next \in QueryNr /\ \A t \in h.walks : t.query # h.next
  <2>1. \A t \in h.walks : t.query \in QueryNr /\ t.query < h.next
    BY DEF HeavyShape, Walk
  <2> QED BY <2>1 DEF HeavyShape, QueryNr
<1>3. /\ HeavyShape(c) /\ c.next = h.next /\ c.floors = h.floors /\ c.walks \subseteq h.walks
      /\ \A q \in DOMAIN c.queries :
           /\ q \in DOMAIN h.queries /\ c.queries[q] = h.queries[q]
           /\ WalksOf(c.walks, q) = WalksOf(h.walks, q)
  <2>1. CASE c = h
    BY <2>1
  <2>2. CASE \E x : c = CancelQuery(h, x)
    <3>1. PICK x : c = CancelQuery(h, x)
      BY <2>2
    <3>2. /\ HeavyShape(c) /\ c.next = h.next /\ c.floors = h.floors
          /\ DOMAIN c.queries = DOMAIN h.queries \ {x}
          /\ \A q \in DOMAIN c.queries : c.queries[q] = h.queries[q]
          /\ c.walks = {t \in h.walks : t.query # x}
      BY <3>1, CancelShape
    <3>3. \A q \in DOMAIN c.queries : WalksOf(c.walks, q) = WalksOf(h.walks, q)
      BY <3>2 DEF WalksOf
    <3> QED BY <3>2, <3>3
  <2> QED BY <1>1, <2>1, <2>2
<1>4. CASE g = c
  BY <1>2, <1>3, <1>4 DEF Carried
<1>5. ASSUME NEW d \in Dir, NEW y \in Nat, NEW limit \in Nat, g = StartQuery(c, d, y, limit)
      PROVE  /\ HeavyShape(g)
             /\ \A q \in DOMAIN g.queries : Carried(q, h, g) \/ Started(q, h, g)
             /\ \A t \in g.walks : t \in h.walks \/ t.query = h.next
             /\ \A t, u \in g.walks : t.query = h.next /\ u.query = h.next => t = u
  <2>1. PICK s : s = [query |-> h.next, dir |-> d, limit |-> limit, depth |-> y]
    BY Zenon
  <2>2. /\ HeavyShape(g) /\ DOMAIN g.queries = DOMAIN c.queries \cup {h.next}
        /\ \A q \in DOMAIN c.queries : q # h.next /\ g.queries[q] = c.queries[q]
        /\ g.next = h.next + 1 /\ g.walks = c.walks \cup {s}
        /\ \A q \in QueryNr : q < h.next => g.floors[q] = h.floors[q]
        /\ g.floors[h.next] = 0 /\ Begun(g.queries[h.next], d, y, limit)
    BY <1>3, <1>5, <2>1, StartShape
  <2>3. s.query = h.next
    BY <2>1
  <2>4. ASSUME NEW q \in DOMAIN c.queries PROVE Carried(q, h, g)
    <3>1. q \in QueryNr /\ q < h.next
      BY <1>3 DEF HeavyShape
    <3>2. WalksOf(g.walks, q) = WalksOf(c.walks, q)
      BY <2>2, <2>3 DEF WalksOf
    <3> QED BY <1>3, <2>2, <3>1, <3>2 DEF Carried
  <2>5. Started(h.next, h, g)
    <3>1. WalksOf(g.walks, h.next) = {s}
      BY <1>2, <1>3, <2>2, <2>3 DEF WalksOf
    <3> QED BY <2>1, <2>2, <3>1 DEF Started
  <2> QED BY <1>2, <1>3, <2>2, <2>3, <2>4, <2>5
<1> QED BY <1>1, <1>4, <1>5

SearchInv == WalksApart /\ WorkInv

(* No more walks of a search than directories. *)
LEMMA FiniteWalks ==
  ASSUME SearchShape, WalksApart
  PROVE  \A q : IsFiniteSet(WalksOf(AllWalks, q))
<1> TAKE q
<1>1. PICK Z : Z = WalksOf(AllWalks, q)
  BY Zenon
<1>2. \A t \in Z : t \in AllWalks /\ t.query = q /\ t.dir \in Dir /\ t.dir \in Below[t.dir]
  BY <1>1, TaskTypes, ExplorerAssumption DEF WalksOf
<1>3. \A t, u \in Z : t.dir = u.dir => t = u
  BY <1>2 DEF WalksApart
<1>4. PICK f : f = [t \in Z |-> t.dir]
  BY Zenon
<1>5. f \in Injection(Z, Dir)
  BY <1>2, <1>3, <1>4 DEF Injection, IsInjective
<1> QED BY <1>1, <1>5, Directories, FS_Injection

(* The tasks of a search, and the events, after a key. *)
LEMMA KeySearch ==
  ASSUME BaseInv, SearchInv, SearchMoves
  PROVE  SearchInv'
<1>1. SearchShape /\ HeavyShape(heavy) /\ Searched(heavy, heavy') /\ progress' = progress
  BY DEF BaseInv, SearchShape, SearchMoves
<1>2. \A w \in Walker : TasksAt(w)' = TasksAt(w)
  BY DEF TasksAt, SearchMoves
<1>3. PICK H : H = UNION {TasksAt(w) : w \in Walker}
  BY Zenon
<1>4. AllWalks = heavy.walks \cup H /\ AllWalks' = heavy'.walks \cup H
  BY <1>2, <1>3 DEF AllWalks
<1>5. /\ \A q \in DOMAIN heavy'.queries : Carried(q, heavy, heavy') \/ Started(q, heavy, heavy')
      /\ \A t \in heavy'.walks : t \in heavy.walks \/ t.query = heavy.next
      /\ \A t, u \in heavy'.walks : t.query = heavy.next /\ u.query = heavy.next => t = u
  BY <1>1, SearchedFacts
<1>6. \A t \in AllWalks : t.query # heavy.next
  <2>1. heavy.next \in QueryNr
    BY <1>1 DEF HeavyShape
  <2> QED BY <1>1, <2>1, TaskTypes DEF QueryNr
<1>7. WalksApart'
  <2>1. ASSUME NEW t \in AllWalks', NEW u \in AllWalks', t.query = u.query, t # u
        PROVE  Below[t.dir] \cap Below[u.dir] = {}
    <3>1. t \in AllWalks /\ u \in AllWalks
      BY <1>4, <1>5, <1>6, <2>1
    <3> QED BY <2>1, <3>1 DEF SearchInv, WalksApart
  <2>2. ASSUME NEW w \in Walker PROVE TasksAt(w) \cap heavy'.walks = {}
    <3>1. \A t \in TasksAt(w) : t \in AllWalks
      BY DEF AllWalks
    <3> QED BY <1>5, <1>6, <3>1 DEF SearchInv, WalksApart
  <2> QED BY <1>2, <2>1, <2>2 DEF SearchInv, WalksApart
<1>8. ASSUME NEW q \in DOMAIN heavy'.queries
      PROVE  KnownTo(heavy'.queries[q], WalksOf(AllWalks', q), progress,
                     EventsAt(progress, DOMAIN progress, q))
  <2>1. CASE Carried(q, heavy, heavy')
    <3>1. WalksOf(AllWalks', q) = WalksOf(AllWalks, q)
      BY <1>4, <2>1 DEF WalksOf, Carried
    <3> QED BY <2>1, <3>1 DEF Carried, SearchInv, WorkInv, KnownAll
  <2>2. CASE Started(q, heavy, heavy')
    <3>1. PICK d \in Dir, y \in Nat, limit \in Nat :
           /\ Begun(heavy'.queries[q], d, y, limit)
           /\ WalksOf(heavy'.walks, q) = {[query |-> q, dir |-> d, limit |-> limit, depth |-> y]}
      BY <2>2 DEF Started
    <3>2. q = heavy.next
      BY <2>2 DEF Started
    <3>3. PICK Z, t : Z = WalksOf(AllWalks', q)
                      /\ t = [query |-> q, dir |-> d, limit |-> limit, depth |-> y]
      BY Zenon
    <3>4. Z = {t}
      BY <1>4, <1>6, <3>1, <3>2, <3>3 DEF WalksOf
    <3>5. PICK E : E = EventsAt(progress, DOMAIN progress, q)
      BY Zenon
    <3>6. E = {}
      <4>1. ASSUME NEW i \in DOMAIN progress PROVE progress[i].query # heavy.next
        <5>1. progress[i].query < heavy.next /\ progress[i] \in Progress
          BY <1>1, ElementOfSeq, LenProperties DEF SearchShape
        <5>2. progress[i].query \in QueryNr /\ heavy.next \in QueryNr
          BY <1>1, <5>1 DEF Progress, HeavyShape
        <5> QED BY <5>1, <5>2 DEF QueryNr
      <4> QED BY <3>2, <3>5, <4>1 DEF EventsAt
    <3>7. PICK query : query = heavy'.queries[q]
      BY Zenon
    <3>8. query.outstanding = 1 /\ ~query.finished
      BY <3>1, <3>7 DEF Begun
    <3>9. /\ SumFunctionOnSet(Spawns(progress), E) = 0 /\ Cardinality(E) = 0
          /\ Cardinality(Z) = 1
      BY <3>4, <3>6, SumEmpty, FS_EmptySet, FS_Singleton
    <3>10. KnownTo(query, Z, progress, E)
      <4>1. query.outstanding + SumFunctionOnSet(Spawns(progress), E)
              = Cardinality(Z) + Cardinality(E)
        BY <3>8, <3>9
      <4>2. Z # {}
        BY <3>4
      <4> QED BY <3>6, <3>8, <4>1, <4>2, Zenon DEF KnownTo
    <3> QED BY <3>3, <3>5, <3>7, <3>10
  <2> QED BY <1>5, <2>1, <2>2
<1>9. WorkInv'
  BY <1>1, <1>8 DEF WorkInv, KnownAll
<1> QED BY <1>7, <1>9 DEF SearchInv

LEMMA TakeApart ==
  ASSUME SearchShape, WalksApart, NEW w \in Walker, TakeWalk(w)
  PROVE  WalksApart' /\ AllWalks' = AllWalks
<1>1. PICK t \in heavy.walks :
        /\ TasksAt(w) = {} /\ TasksAt(w)' = {t} /\ \A v \in Walker \ {w} : walker'[v] = walker[v]
        /\ heavy'.walks = heavy.walks \ {t}
  BY TakeFacts
<1>2. \A v \in Walker \ {w} : TasksAt(v)' = TasksAt(v)
  BY <1>1 DEF TasksAt
<1>3. PICK H : H = UNION {TasksAt(v) : v \in Walker \ {w}}
  BY Zenon
<1>4. AllWalks = heavy.walks \cup H /\ AllWalks' = heavy'.walks \cup {t} \cup H
  BY <1>1, <1>2, <1>3 DEF AllWalks
<1>5. AllWalks' = AllWalks
  BY <1>1, <1>4
<1>6. \A v \in Walker : TasksAt(v)' \cap heavy'.walks = {}
  BY <1>1, <1>2 DEF WalksApart
<1>7. ASSUME NEW v \in Walker, NEW x \in Walker, v # x PROVE TasksAt(v)' \cap TasksAt(x)' = {}
  <2>1. \A y \in Walker : t \notin TasksAt(y)
    BY DEF WalksApart
  <2> QED BY <1>1, <1>2, <1>7, <2>1 DEF WalksApart
<1> QED BY <1>5, <1>6, <1>7 DEF WalksApart

LEMMA PushApart ==
  ASSUME SearchShape, WalksApart, NEW w \in Walker, PushWalks(w)
  PROVE  WalksApart' /\ AllWalks' = AllWalks
<1>1. /\ TasksAt(w)' = {} /\ \A v \in Walker \ {w} : walker'[v] = walker[v]
      /\ heavy'.walks = heavy.walks \cup TasksAt(w)
  BY PushFacts
<1>2. \A v \in Walker \ {w} : TasksAt(v)' = TasksAt(v)
  BY <1>1 DEF TasksAt
<1>3. PICK H : H = UNION {TasksAt(v) : v \in Walker \ {w}}
  BY Zenon
<1>4. AllWalks = heavy.walks \cup TasksAt(w) \cup H /\ AllWalks' = heavy'.walks \cup H
  BY <1>1, <1>2, <1>3 DEF AllWalks
<1>5. AllWalks' = AllWalks
  BY <1>1, <1>4
<1>6. \A v \in Walker : TasksAt(v)' \cap heavy'.walks = {}
  BY <1>1, <1>2 DEF WalksApart
<1>7. \A v, x \in Walker : v # x => TasksAt(v)' \cap TasksAt(x)' = {}
  BY <1>1, <1>2 DEF WalksApart
<1> QED BY <1>5, <1>6, <1>7 DEF WalksApart

LEMMA ReportApart ==
  ASSUME SearchShape, DiskShape(onDisk), WalksApart, NEW w \in Walker, ReportWalk(w, onDisk)
  PROVE  LET t == walker[w].task
         IN  /\ WalksApart' /\ AllWalks' = (AllWalks \ {t}) \cup Below1(t)
             /\ Below1(t) \cap AllWalks = {}
<1>1. PICK t : t = walker[w].task
  BY Zenon
<1>2. /\ t \in AllWalks /\ TasksAt(w) = {t} /\ TasksAt(w)' = Below1(t)
      /\ \A v \in Walker \ {w} : walker'[v] = walker[v]
      /\ heavy' = heavy
  BY <1>1, ReportFacts, Zenon
<1>3. t \in Walk /\ t.dir \in Dir
  BY <1>2, TaskTypes
<1>4. PICK B : B = Below1(t)
  BY Zenon
<1>5. ASSUME NEW u \in B
      PROVE  /\ u.query = t.query /\ u.dir \in Subdirs[t.dir] /\ u = WalkBelow(t, u.dir)
             /\ u.dir \in Dir /\ u.dir \in Below[u.dir]
             /\ Below[u.dir] \subseteq Below[t.dir] \ {t.dir}
  <2>1. u.query = t.query /\ u.dir \in Subdirs[t.dir] /\ u = WalkBelow(t, u.dir)
    BY <1>3, <1>4, BelowTasks
  <2>2. u.dir \in Dir
    BY <1>3, <2>1, Directories
  <2> QED BY <1>3, <2>1, <2>2, ExplorerAssumption
<1>6. B \cap AllWalks = {}
  <2> SUFFICES ASSUME NEW u \in B, u \in AllWalks PROVE FALSE
    OBVIOUS
  <2>1. u # t
    BY <1>5
  <2>2. Below[u.dir] \cap Below[t.dir] = {}
    BY <1>2, <1>5, <2>1 DEF WalksApart
  <2> QED BY <1>5, <2>2
<1>7. \A v \in Walker \ {w} : TasksAt(v)' = TasksAt(v)
  BY <1>2 DEF TasksAt
<1>8. PICK H : H = UNION {TasksAt(v) : v \in Walker \ {w}}
  BY Zenon
<1>9. AllWalks = heavy.walks \cup {t} \cup H /\ AllWalks' = heavy.walks \cup B \cup H
  BY <1>2, <1>4, <1>7, <1>8 DEF AllWalks
<1>10. t \notin heavy.walks /\ t \notin H
  BY <1>2, <1>8 DEF WalksApart
<1>11. AllWalks' = (AllWalks \ {t}) \cup B
  BY <1>6, <1>9, <1>10, <1>2
<1>12. ASSUME NEW u \in AllWalks', NEW x \in AllWalks', u.query = x.query, u # x
       PROVE  Below[u.dir] \cap Below[x.dir] = {}
  <2>1. CASE u \in B /\ x \in B
    <3>1. u.dir # x.dir
      BY <1>5, <1>12, <2>1
    <3> QED BY <1>3, <1>5, <2>1, <3>1, ExplorerAssumption
  <2>2. CASE u \in B /\ x \notin B
    <3>1. x \in AllWalks /\ x # t /\ x.query = t.query
      BY <1>5, <1>11, <1>12, <2>2
    <3>2. Below[x.dir] \cap Below[t.dir] = {}
      BY <1>2, <3>1 DEF WalksApart
    <3> QED BY <1>5, <2>2, <3>2
  <2>3. CASE u \notin B /\ x \in B
    <3>1. u \in AllWalks /\ u # t /\ u.query = t.query
      BY <1>5, <1>11, <1>12, <2>3
    <3>2. Below[u.dir] \cap Below[t.dir] = {}
      BY <1>2, <3>1 DEF WalksApart
    <3> QED BY <1>5, <2>3, <3>2
  <2>4. CASE u \notin B /\ x \notin B
    BY <1>11, <1>12, <2>4 DEF WalksApart
  <2> QED BY <2>1, <2>2, <2>3, <2>4
<1>13. \A v \in Walker \ {w} : TasksAt(v) \subseteq AllWalks
  BY DEF AllWalks
<1>14. \A v \in Walker : TasksAt(v)' \cap heavy'.walks = {}
  BY <1>2, <1>4, <1>6, <1>7, <1>9 DEF WalksApart
<1>15. \A v, x \in Walker : v # x => TasksAt(v)' \cap TasksAt(x)' = {}
  BY <1>2, <1>4, <1>6, <1>7, <1>13 DEF WalksApart
<1>16. WalksApart'
  BY <1>12, <1>14, <1>15 DEF WalksApart
<1> QED BY <1>1, <1>4, <1>6, <1>11, <1>16

(* Where the progress e comes after p.                                     *)
LEMMA AddedEvent ==
  ASSUME NEW p \in Seq(Progress), NEW e \in Progress, NEW r, r = Append(p, e)
  PROVE  \E k \in Nat :
           /\ r \in Seq(Progress) /\ DOMAIN p = 1 .. k /\ k + 1 \notin DOMAIN p
           /\ DOMAIN r = DOMAIN p \cup {k + 1} /\ r[k + 1] = e
           /\ \A i \in DOMAIN p : r[i] = p[i]
<1>1. PICK n : n = Len(p) /\ n \in Nat
  BY LenProperties
<1>2. DOMAIN p = 1 .. n
  BY <1>1, LenProperties
<1>3. /\ r \in Seq(Progress) /\ DOMAIN r = 1 .. (n + 1)
      /\ r[n + 1] = e /\ \A i \in 1 .. n : r[i] = p[i]
  BY <1>1, AppendProperties, LenProperties
<1>4. 1 .. (n + 1) = (1 .. n) \cup {n + 1} /\ n + 1 \notin 1 .. n
  BY <1>1
<1> QED BY <1>1, <1>2, <1>3, <1>4

LEMMA SameSpawns ==
  ASSUME NEW p \in Seq(Progress), NEW r \in Seq(Progress), DOMAIN p \subseteq DOMAIN r,
         \A i \in DOMAIN p : r[i] = p[i], NEW E \in SUBSET DOMAIN p
  PROVE  SumFunctionOnSet(Spawns(r), E) = SumFunctionOnSet(Spawns(p), E)
<1>1. PICK f, g : f = Spawns(p) /\ g = Spawns(r)
  BY Zenon
<1>2. ASSUME NEW i \in E PROVE f[i] \in Int /\ g[i] = f[i]
  <2>1. p[i].spawned \in Nat
    BY SpawnSums
  <2>2. i \in DOMAIN p /\ i \in DOMAIN r /\ f[i] = p[i].spawned /\ g[i] = r[i].spawned
    BY <1>1 DEF Spawns
  <2> QED BY <2>1, <2>2
<1>3. IsFiniteSet(E)
  BY SpawnSums
<1> QED BY <1>1, <1>2, <1>3, SumSame

(* A search whose task t is replaced by those below it, which its progress *)
(* announces.                                                              *)
LEMMA KnownReport ==
  ASSUME NEW query, query.outstanding \in Nat, NEW Z, IsFiniteSet(Z), NEW t \in Z,
         NEW B, IsFiniteSet(B), B \cap Z = {}, NEW p \in Seq(Progress), NEW E \in SUBSET DOMAIN p,
         KnownTo(query, Z, p, E), NEW r \in Seq(Progress), NEW k \in Nat, DOMAIN p = 1 .. k,
         DOMAIN r = DOMAIN p \cup {k + 1}, \A i \in DOMAIN p : r[i] = p[i],
         r[k + 1].spawned = Cardinality(B)
  PROVE  KnownTo(query, (Z \ {t}) \cup B, r, E \cup {k + 1})
<1>1. PICK o, z, e, b, a, F : /\ o = query.outstanding /\ z = Cardinality(Z \ {t})
                              /\ e = Cardinality(E) /\ b = Cardinality(B)
                              /\ a = SumFunctionOnSet(Spawns(p), E) /\ F = E \cup {k + 1}
  BY Zenon
<1>2. /\ F \in SUBSET DOMAIN r /\ k + 1 \in F /\ F \ {k + 1} = E
      /\ \A i \in E : i < k + 1 /\ i \in Nat
  BY <1>1
<1>3. /\ IsFiniteSet(Z \ {t}) /\ z \in Nat /\ b \in Nat /\ Cardinality(Z) = z + 1
      /\ Cardinality((Z \ {t}) \cup B) = z + b
  <2>1. IsFiniteSet(Z \ {t}) /\ Cardinality(Z \ {t}) = Cardinality(Z) - 1
        /\ Cardinality(Z) \in Nat /\ Cardinality(Z \ {t}) \in Nat /\ Cardinality(B) \in Nat
    BY FS_RemoveElement, FS_CardinalityType
  <2>2. (Z \ {t}) \cap B = {} /\ Cardinality({}) = 0
    BY FS_EmptySet
  <2>3. PICK X : X = Z \ {t}
    BY Zenon
  <2>4. Cardinality(X \cup B) = Cardinality(X) + Cardinality(B) - Cardinality(X \cap B)
    BY <2>1, <2>3, FS_Union
  <2>5. Cardinality(X \cap B) = 0
    BY <2>2, <2>3
  <2>6. PICK l, m : l = Cardinality(Z) /\ m = Cardinality(X \cup B)
    BY Zenon
  <2>7. l = z + 1 /\ m = z + b
    BY <1>1, <2>1, <2>3, <2>4, <2>5, <2>6
  <2> QED BY <1>1, <2>1, <2>3, <2>6, <2>7
<1>4. /\ e \in Nat /\ a \in Nat
      /\ SumFunctionOnSet(Spawns(r), E) = a
      /\ SumFunctionOnSet(Spawns(r), F) = b + a /\ Cardinality(F) = e + 1
  <2>1. SumFunctionOnSet(Spawns(r), E) = a
    BY <1>1, SameSpawns
  <2>2. e \in Nat /\ a \in Nat
    BY <1>1, SpawnSums
  <2>3. SumFunctionOnSet(Spawns(r), F)
          = r[k + 1].spawned + SumFunctionOnSet(Spawns(r), F \ {k + 1})
        /\ Cardinality(F) = Cardinality(F \ {k + 1}) + 1
    BY <1>2, SpawnSums
  <2> QED BY <1>1, <1>2, <2>1, <2>2, <2>3
<1>5. o + a = (z + 1) + e /\ o \in Nat
  BY <1>1, <1>3 DEF KnownTo
<1>6. o + (b + a) = (z + b) + (e + 1)
  BY <1>3, <1>4, <1>5
<1>7. ASSUME NEW i \in F
      PROVE  o + SumFunctionOnSet(Spawns(r), Earlier(F, i)) >= Cardinality(Earlier(F, i)) + 1
  <2>1. CASE i \in E
    <3>1. Earlier(F, i) = Earlier(E, i) /\ Earlier(E, i) \in SUBSET DOMAIN p
      BY <1>1, <1>2, <2>1 DEF Earlier
    <3>2. SumFunctionOnSet(Spawns(r), Earlier(E, i)) = SumFunctionOnSet(Spawns(p), Earlier(E, i))
      BY <3>1, SameSpawns
    <3>3. o + SumFunctionOnSet(Spawns(p), Earlier(E, i)) >= Cardinality(Earlier(E, i)) + 1
      BY <1>1, <2>1 DEF KnownTo
    <3> QED BY <3>1, <3>2, <3>3
  <2>2. CASE i \notin E
    <3>1. i = k + 1
      BY <1>1, <2>2
    <3>2. Earlier(F, i) = E
      BY <1>1, <1>2, <3>1 DEF Earlier
    <3>3. o + a >= e + 1
      BY <1>3, <1>4, <1>5
    <3> QED BY <1>1, <1>4, <3>2, <3>3
  <2> QED BY <2>1, <2>2
<1>8. ~query.finished /\ F # {}
  BY <1>2 DEF KnownTo
<1> QED BY <1>1, <1>3, <1>4, <1>6, <1>7, <1>8, Zenon DEF KnownTo

LEMMA WalkSearch ==
  ASSUME BaseInv, SearchInv, NEW w \in Walker, WalkStep(w)
  PROVE  SearchInv'
<1>1. TakeWalk(w) \/ ReportWalk(w, onDisk) \/ PushWalks(w)
  BY DEF WalkStep, WalkerStep
<1>2. /\ SearchShape /\ DiskShape(onDisk) /\ HeavyShape(heavy) /\ progress \in Seq(Progress)
      /\ WalksApart /\ WorkInv
  BY DEF BaseInv, SearchShape, SearchInv
<1>3. CASE TakeWalk(w)
  <2>1. WalksApart' /\ AllWalks' = AllWalks
    BY <1>2, <1>3, TakeApart
  <2>2. heavy'.queries = heavy.queries /\ progress' = progress
    BY <1>2, <1>3, TakeFacts
  <2>3. WorkInv'
    BY <1>2, <2>1, <2>2 DEF WorkInv, KnownAll
  <2> QED BY <2>1, <2>3 DEF SearchInv
<1>4. CASE PushWalks(w)
  <2>1. WalksApart' /\ AllWalks' = AllWalks
    BY <1>2, <1>4, PushApart
  <2>2. heavy'.queries = heavy.queries /\ progress' = progress
    BY <1>2, <1>4, PushFacts
  <2>3. WorkInv'
    BY <1>2, <2>1, <2>2 DEF WorkInv, KnownAll
  <2> QED BY <2>1, <2>3 DEF SearchInv
<1>5. CASE ReportWalk(w, onDisk)
  <2>1. PICK t, B : t = walker[w].task /\ B = Below1(t)
    BY Zenon
  <2>2. WalksApart' /\ AllWalks' = (AllWalks \ {t}) \cup B /\ B \cap AllWalks = {}
    BY <1>2, <1>5, <2>1, ReportApart
  <2>3. t \in AllWalks /\ heavy' = heavy
        /\ \E e \in Progress : progress' = Append(progress, e) /\ e.query = t.query
                               /\ e.spawned = Cardinality(B)
    BY <1>2, <1>5, <2>1, ReportFacts, Zenon
  <2>4. PICK e \in Progress : progress' = Append(progress, e) /\ e.query = t.query
                              /\ e.spawned = Cardinality(B)
    BY <2>3
  <2>5. PICK k \in Nat :
          /\ progress' \in Seq(Progress) /\ DOMAIN progress = 1 .. k /\ k + 1 \notin DOMAIN progress
          /\ DOMAIN progress' = DOMAIN progress \cup {k + 1} /\ progress'[k + 1] = e
          /\ \A i \in DOMAIN progress : progress'[i] = progress[i]
    BY <1>2, <2>4, AddedEvent
  <2>6. IsFiniteSet(B) /\ \A u \in B : u.query = t.query
    BY <1>2, <2>1, <2>3, TaskTypes, BelowTasks
  <2>7. PICK p, r, W : p = progress /\ r = progress' /\ W = AllWalks'
    BY Zenon
  <2>8. ASSUME NEW q \in DOMAIN heavy.queries
        PROVE  KnownTo(heavy.queries[q], WalksOf(W, q), r, EventsAt(r, DOMAIN r, q))
    <3>1. PICK Z, E, query : Z = WalksOf(AllWalks, q) /\ E = EventsAt(p, DOMAIN p, q)
                             /\ query = heavy.queries[q]
      BY Zenon
    <3>2. KnownTo(query, Z, p, E)
      BY <1>2, <2>7, <3>1 DEF WorkInv, KnownAll
    <3>3. E \in SUBSET DOMAIN p /\ IsFiniteSet(Z) /\ query.outstanding \in Nat
      BY <1>2, <3>1, FiniteWalks DEF EventsAt, HeavyShape, QueryShape
    <3>4. CASE q = t.query
      <4>1. WalksOf(W, q) = (Z \ {t}) \cup B
        BY <2>2, <2>6, <2>7, <3>1, <3>4 DEF WalksOf
      <4>2. EventsAt(r, DOMAIN r, q) = E \cup {k + 1}
        BY <2>4, <2>5, <2>7, <3>1, <3>4 DEF EventsAt
      <4>3. t \in Z /\ B \cap Z = {}
        BY <2>2, <2>3, <3>1, <3>4 DEF WalksOf
      <4>4. /\ p \in Seq(Progress) /\ r \in Seq(Progress) /\ DOMAIN p = 1 .. k
            /\ DOMAIN r = DOMAIN p \cup {k + 1} /\ \A i \in DOMAIN p : r[i] = p[i]
            /\ r[k + 1].spawned = Cardinality(B)
        BY <1>2, <2>4, <2>5, <2>7
      <4>5. KnownTo(query, (Z \ {t}) \cup B, r, E \cup {k + 1})
        BY <2>6, <3>2, <3>3, <4>3, <4>4, KnownReport
      <4> QED BY <3>1, <4>1, <4>2, <4>5
    <3>5. CASE q # t.query
      <4>1. WalksOf(W, q) = Z
        BY <2>2, <2>6, <2>7, <3>1, <3>5 DEF WalksOf
      <4>2. EventsAt(r, DOMAIN r, q) = E
        BY <2>4, <2>5, <2>7, <3>1, <3>5 DEF EventsAt
      <4>3. \A F \in SUBSET DOMAIN p :
              SumFunctionOnSet(Spawns(r), F) = SumFunctionOnSet(Spawns(p), F)
        <5>1. /\ p \in Seq(Progress) /\ r \in Seq(Progress) /\ DOMAIN p \subseteq DOMAIN r
              /\ \A i \in DOMAIN p : r[i] = p[i]
          BY <1>2, <2>5, <2>7
        <5> QED BY <5>1, SameSpawns
      <4>4. \A i \in E : Earlier(E, i) \in SUBSET DOMAIN p
        BY <3>3 DEF Earlier
      <4>5. KnownTo(query, Z, r, E)
        BY <3>2, <3>3, <4>3, <4>4 DEF KnownTo
      <4> QED BY <3>1, <4>1, <4>2, <4>5
    <3> QED BY <3>4, <3>5
  <2>9. WorkInv'
    BY <2>3, <2>7, <2>8 DEF WorkInv, KnownAll
  <2> QED BY <2>2, <2>9 DEF SearchInv
<1> QED BY <1>1, <1>3, <1>4, <1>5

LEMMA TickSearch ==
  ASSUME BaseInv, SearchInv, Tick
  PROVE  SearchInv'
<1>1. /\ SearchShape /\ HeavyShape(heavy) /\ progress \in Seq(Progress) /\ WalksApart /\ WorkInv
  BY DEF BaseInv, SearchShape, SearchInv
<1>2. /\ heavy' = FoldLeft(ApplyProgress, heavy, progress) /\ walker' = walker
      /\ progress' = <<>>
  BY TickKeeps DEF Tick
<1>3. heavy'.walks = heavy.walks
  BY <1>1, <1>2, ApplyAllShape
<1>4. \A w \in Walker : TasksAt(w)' = TasksAt(w)
  BY <1>2 DEF TasksAt
<1>5. AllWalks' = AllWalks
  BY <1>3, <1>4 DEF AllWalks
<1>6. WalksApart'
  BY <1>1, <1>3, <1>4, <1>5 DEF WalksApart
<1>7. \A q : IsFiniteSet(WalksOf(AllWalks, q))
  BY <1>1, FiniteWalks
<1>8. KnownAll(heavy', AllWalks, progress, {})
  <2>1. PICK h, W, s : h = heavy /\ W = AllWalks /\ s = progress
    BY Zenon
  <2>2. /\ HeavyShape(h) /\ s \in Seq(Progress) /\ KnownAll(h, W, s, DOMAIN s)
        /\ \A q : IsFiniteSet(WalksOf(W, q))
    BY <1>1, <1>7, <2>1 DEF WorkInv
  <2>3. KnownAll(FoldLeft(ApplyProgress, h, s), W, s, {})
    BY <2>2, KnownApplied
  <2> QED BY <1>2, <2>1, <2>3
<1>9. ASSUME NEW q \in DOMAIN heavy'.queries
      PROVE  KnownTo(heavy'.queries[q], WalksOf(AllWalks, q), progress',
                     EventsAt(progress', DOMAIN progress', q))
  <2>1. EventsAt(progress', DOMAIN progress', q) = {} /\ EventsAt(progress, {}, q) = {}
    BY <1>2 DEF EventsAt
  <2>2. KnownTo(heavy'.queries[q], WalksOf(AllWalks, q), progress, {})
    BY <1>8, <2>1 DEF KnownAll
  <2>3. /\ SumFunctionOnSet(Spawns(progress'), {}) = 0
        /\ SumFunctionOnSet(Spawns(progress), {}) = 0
    BY SumEmpty
  <2>4. PICK query, Z, p, r : query = heavy'.queries[q] /\ Z = WalksOf(AllWalks, q)
                              /\ p = progress /\ r = progress'
    BY Zenon
  <2>5. KnownTo(query, Z, r, {})
    BY <2>2, <2>3, <2>4 DEF KnownTo
  <2> QED BY <2>1, <2>4, <2>5
<1>10. WorkInv'
  BY <1>5, <1>9 DEF WorkInv, KnownAll
<1> QED BY <1>6, <1>10 DEF SearchInv

LEMMA SearchInit ==
  ASSUME Init
  PROVE  SearchInv
<1>1. SearchShape /\ walker = [w \in Walker |-> Resting]
  BY BaseInit, Zenon DEF BaseInv, Init
<1>2. \A w \in Walker : TasksAt(w) = {}
  BY <1>1 DEF TasksAt, Resting
<1>3. heavy.walks = {} /\ DOMAIN heavy.queries = {}
  <2>1. heavy = NoQueries
    BY BaseInit
  <2>2. heavy.walks = {} /\ heavy.queries = <<>>
    BY <2>1 DEF NoQueries
  <2> QED BY <2>2
<1> QED BY <1>2, <1>3 DEF SearchInv, WalksApart, WorkInv, KnownAll, AllWalks

LEMMA SearchStep ==
  ASSUME BaseInv, SearchInv, [Next]_vars
  PROVE  SearchInv'
<1>1. CASE UNCHANGED vars
  BY <1>1 DEF vars, heavyVars, SearchInv, WalksApart, WorkInv, KnownAll, AllWalks, TasksAt
<1>2. CASE UserStep
  BY <1>2, UserKeeps, KeySearch
<1>3. CASE Tick
  BY <1>3, TickSearch
<1>4. ASSUME NEW w \in Lister, ListerStep(w) PROVE SearchInv'
  BY <1>4 DEF ListerStep, heavyVars, SearchInv, WalksApart, WorkInv, KnownAll, AllWalks, TasksAt
<1>5. ASSUME NEW w \in Walker, WalkStep(w) PROVE SearchInv'
  BY <1>5, WalkSearch
<1>6. CASE RemoveNextFile
  BY <1>6, RemoveKeeps, KeySearch
<1> QED BY <1>1, <1>2, <1>3, <1>4, <1>5, <1>6, Zenon DEF Next

LEMMA WorkMeans ==
  ASSUME SearchShape, SearchInv
  PROVE  QueriesKnowTheirWork
<1>1. ASSUME NEW q
      PROVE  TasksOf(q) = WalksOf(AllWalks, q)
  <2>1. \A w \in Walker : walker[w].at = "read" => walker[w].at # "push"
    OBVIOUS
  <2>2. ASSUME NEW t PROVE t \in TasksOf(q) <=> t \in WalksOf(AllWalks, q)
    <3>1. t \in TasksOf(q) => t \in WalksOf(AllWalks, q)
      BY DEF TasksOf, Busy, WalksOf, AllWalks, TasksAt
    <3>2. t \in WalksOf(AllWalks, q) => t \in TasksOf(q)
      BY DEF TasksOf, Busy, WalksOf, AllWalks, TasksAt
    <3> QED BY <3>1, <3>2
  <2> QED BY <2>2
<1>2. ASSUME NEW q
      PROVE  /\ EventsOf(q) = EventsAt(progress, DOMAIN progress, q)
             /\ Announced(q) = SumFunctionOnSet(Spawns(progress), EventsOf(q))
  BY DEF EventsOf, EventsAt, Announced, Spawns
<1>3. ASSUME NEW q \in DOMAIN heavy.queries
      PROVE  KnownTo(heavy.queries[q], TasksOf(q), progress, EventsOf(q))
  <2>1. KnownTo(heavy.queries[q], WalksOf(AllWalks, q), progress,
                EventsAt(progress, DOMAIN progress, q))
    BY DEF SearchInv, WorkInv, KnownAll
  <2> QED BY <1>1, <1>2, <2>1
<1> QED BY <1>2, <1>3 DEF KnownTo, QueriesKnowTheirWork

LEMMA SpecSearchInv == Spec => []SearchInv
<1>1. Init => SearchInv
  BY SearchInit
<1>2. BaseInv /\ SearchInv /\ [Next]_vars => SearchInv'
  BY SearchStep
<1> QED BY <1>1, <1>2, SpecBaseInv, PTL DEF Spec

(* Every search counts its work right, whatever order the events of its    *)
(* threads and the tasks they push arrive in: saturating_sub at            *)
(* tree_coordinator.rs:551 never cuts anything off, and a search is        *)
(* finished exactly when nothing of it is queued, executed or under way.   *)
THEOREM SearchesCountTheirWork == Spec => []QueriesKnowTheirWork
<1>1. BaseInv /\ SearchInv => QueriesKnowTheirWork
  BY WorkMeans DEF BaseInv
<1> QED BY <1>1, SpecBaseInv, SpecSearchInv, PTL


-----------------------------------------------------------------------------
(* What the searches find. *)

(* The files below a directory are what the recursive definition says.     *)
LevelStep(g, n) ==
  [d \in Dir |-> Elements(FilesIn[d]) \cup
                   (IF n = 0 THEN {} ELSE UNION {g[n - 1][e] : e \in Subdirs[d] \ Barred})]
(* The levels below depth y. *)
Levels(y) == IF y < MaxDepth THEN MaxDepth - y ELSE 0

LEMMA LevelsUnfold ==
  \E g : /\ g = [n \in 0 .. MaxDepth |-> LevelStep(g, n)]
         /\ \A t : FilesBelow(t) = g[Levels(t.depth)][t.dir]
<1> DEFINE F == {k \in Nat : \E g : g = [n \in 0 .. k |-> LevelStep(g, n)]}
<1>1. 0 \in F
  <2>1. PICK c : c = [n \in 0 .. 0 |-> LevelStep(<<>>, n)]
    BY Zenon
  <2>2. \A n \in 0 .. 0 : LevelStep(<<>>, n) = LevelStep(c, n)
    BY DEF LevelStep
  <2>3. c = [n \in 0 .. 0 |-> LevelStep(c, n)]
    BY <2>1, <2>2
  <2> QED BY <2>3
<1>2. ASSUME NEW k \in F PROVE k + 1 \in F
  <2>1. PICK g : g = [n \in 0 .. k |-> LevelStep(g, n)]
    BY <1>2
  <2>2. PICK h : h = [n \in 0 .. k + 1 |-> LevelStep(g, n)]
    BY Zenon
  <2>3. k \in Nat
    BY <1>2
  <2>4. \A n \in 0 .. k : h[n] = g[n]
    <3>1. \A n \in 0 .. k : n \in 0 .. k + 1
      BY <2>3
    <3> QED BY <2>1, <2>2, <3>1
  <2>5. ASSUME NEW n \in 0 .. k + 1 PROVE LevelStep(g, n) = LevelStep(h, n)
    <3>1. CASE n = 0
      BY <3>1 DEF LevelStep
    <3>2. CASE n # 0
      <4>1. n - 1 \in 0 .. k
        BY <2>3, <3>2
      <4>2. h[n - 1] = g[n - 1]
        BY <2>4, <4>1
      <4> QED BY <4>2 DEF LevelStep
    <3> QED BY <3>1, <3>2
  <2>6. h = [n \in 0 .. k + 1 |-> LevelStep(h, n)]
    BY <2>2, <2>5
  <2> QED BY <2>3, <2>6
<1>3. F = Nat
  <2> HIDE DEF F
  <2>1. F \in SUBSET Nat
    BY DEF F
  <2> QED BY <1>1, <1>2, <2>1, NatSetInduction
<1>4. \E g : g = [n \in 0 .. MaxDepth |-> LevelStep(g, n)]
  <2>1. MaxDepth \in F
    BY <1>3, ExplorerAssumption
  <2> QED BY <2>1
<1> DEFINE below == CHOOSE g : g = [n \in 0 .. MaxDepth |-> LevelStep(g, n)]
<1>5. \A t : FilesBelow(t) = below[Levels(t.depth)][t.dir]
  BY Zenon DEF FilesBelow, LevelStep, Levels
<1>6. below = [n \in 0 .. MaxDepth |-> LevelStep(below, n)]
  BY <1>4
<1> HIDE DEF below
<1> QED BY <1>5, <1>6

LEMMA FilesBelowEq ==
  ASSUME NEW t \in Walk
  PROVE  /\ FilesBelow(t) = Elements(FilesIn[t.dir]) \cup UNION {FilesBelow(u) : u \in Below1(t)}
         /\ \A u \in Below1(t) : FilesBelow(u) \subseteq FilesBelow(t)
<1>1. PICK g : /\ g = [n \in 0 .. MaxDepth |-> LevelStep(g, n)]
               /\ \A u : FilesBelow(u) = g[Levels(u.depth)][u.dir]
  BY LevelsUnfold, Zenon
<1>2. PICK d, k, n : d = t.dir /\ k = t.depth /\ n = Levels(k)
  OBVIOUS
<1>3. d \in Dir /\ k \in Nat /\ MaxDepth \in Nat /\ n \in 0 .. MaxDepth
  BY <1>2, ExplorerAssumption DEF Walk, Levels
<1>4. FilesBelow(t) = LevelStep(g, n)[d]
  BY <1>1, <1>2, <1>3
<1>5. LevelStep(g, n)[d] = Elements(FilesIn[d]) \cup
        (IF n = 0 THEN {} ELSE UNION {g[n - 1][e] : e \in Subdirs[d] \ Barred})
  BY <1>3 DEF LevelStep
<1>6. CASE n = 0
  <2>1. Entered(t) = {}
    BY <1>2, <1>3, <1>6 DEF Entered, Levels
  <2>2. Below1(t) = {}
    BY <2>1 DEF Below1
  <2> QED BY <1>2, <1>4, <1>5, <1>6, <2>2
<1>7. CASE n # 0
  <2>1. Entered(t) = Subdirs[d] \ Barred
    BY <1>2, <1>3, <1>7 DEF Entered, Levels
  <2>2. \A u \in Below1(t) : /\ u.depth = k + 1 /\ u.dir \in Entered(t)
                             /\ Levels(u.depth) = n - 1
    <3>1. \A u \in Below1(t) : u.depth = k + 1 /\ u.dir \in Entered(t)
      BY <1>2, BelowTasks
    <3>2. Levels(k + 1) = n - 1
      BY <1>2, <1>3, <1>7 DEF Levels
    <3> QED BY <3>1, <3>2
  <2>3. \A u \in Below1(t) : FilesBelow(u) = g[n - 1][u.dir]
    BY <1>1, <2>2
  <2>4. \A e \in Entered(t) : \E u \in Below1(t) : u.dir = e
    BY BelowTasks
  <2>5. UNION {g[n - 1][e] : e \in Subdirs[d] \ Barred} = UNION {FilesBelow(u) : u \in Below1(t)}
    BY <2>1, <2>2, <2>3, <2>4
  <2>6. FilesBelow(t) = Elements(FilesIn[t.dir]) \cup UNION {FilesBelow(u) : u \in Below1(t)}
    BY <1>2, <1>4, <1>5, <1>7, <2>5
  <2> QED BY <2>6
<1> QED BY <1>6, <1>7

(* They are files of directories inside it. *)
LEMMA FilesBelowUnder ==
  ASSUME NEW t, t.dir \in Dir, t.depth \in Nat
  PROVE  FilesBelow(t) \subseteq Under(t) /\ Under(t) \subseteq FileSet
<1>1. PICK g : /\ g = [n \in 0 .. MaxDepth |-> LevelStep(g, n)]
               /\ \A u : FilesBelow(u) = g[Levels(u.depth)][u.dir]
  BY LevelsUnfold, Zenon
<1> DEFINE Inside(d) == UNION {Elements(FilesIn[e]) : e \in Below[d]}
           F == {n \in Nat : n <= MaxDepth => \A d \in Dir : g[n][d] \subseteq Inside(d)}
<1>2. MaxDepth \in Nat
  BY ExplorerAssumption
<1>3. \A d \in Dir : Elements(FilesIn[d]) \subseteq Inside(d)
  BY ExplorerAssumption
<1>4. 0 \in F
  <2>1. g[0] = LevelStep(g, 0)
    BY <1>1, <1>2
  <2>2. \A d \in Dir : g[0][d] = Elements(FilesIn[d])
    BY <2>1 DEF LevelStep
  <2> QED BY <1>3, <2>2
<1>5. ASSUME NEW n \in F PROVE n + 1 \in F
  <2>1. n \in Nat /\ n + 1 \in Nat
    OBVIOUS
  <2>2. ASSUME n + 1 <= MaxDepth, NEW d \in Dir PROVE g[n + 1][d] \subseteq Inside(d)
    <3>1. n + 1 \in 0 .. MaxDepth /\ (n + 1) - 1 = n /\ n + 1 # 0 /\ n <= MaxDepth
      BY <1>2, <2>1, <2>2
    <3>2. g[n + 1] = LevelStep(g, n + 1)
      BY <1>1, <3>1
    <3>3. g[n + 1][d] = Elements(FilesIn[d]) \cup UNION {g[n][e] : e \in Subdirs[d] \ Barred}
      BY <3>1, <3>2 DEF LevelStep
    <3>4. \A e \in Subdirs[d] : e \in Dir /\ Below[e] \subseteq Below[d]
      BY ExplorerAssumption
    <3>5. \A e \in Subdirs[d] : Inside(e) \subseteq Inside(d)
      BY <3>4
    <3>6. \A e \in Subdirs[d] : g[n][e] \subseteq Inside(e)
      BY <1>5, <3>1, <3>4
    <3> HIDE DEF Inside
    <3> QED BY <1>3, <3>3, <3>5, <3>6
  <2> QED BY <2>1, <2>2
<1>6. F = Nat
  <2> HIDE DEF F
  <2>1. F \in SUBSET Nat
    BY DEF F
  <2> QED BY <1>4, <1>5, <2>1, NatSetInduction
<1>7. PICK n : n = Levels(t.depth)
  OBVIOUS
<1>8. n \in Nat /\ n <= MaxDepth
  BY <1>2, <1>7 DEF Levels
<1>9. g[n][t.dir] \subseteq Inside(t.dir)
  BY <1>6, <1>8
<1>10. Under(t) = Inside(t.dir)
  BY DEF Under
<1>11. Under(t) \subseteq FileSet
  <2>1. Below[t.dir] \subseteq Dir
    BY ExplorerAssumption
  <2> QED BY <2>1 DEF Under, FileSet
<1> QED BY <1>1, <1>7, <1>9, <1>10, <1>11

LEMMA DistinctCount ==
  ASSUME NEW S, NEW s \in Seq(S), Distinct(s)
  PROVE  IsFiniteSet(Elements(s)) /\ Cardinality(Elements(s)) = Len(s)
<1>1. PICK n : n = Len(s)
  BY Zenon
<1>2. n \in Nat /\ DOMAIN s = 1 .. n
  BY <1>1, LenProperties
<1>3. PICK f : f = [i \in 1 .. n |-> s[i]]
  BY Zenon
<1>4. f \in [1 .. n -> Elements(s)]
  BY <1>2, <1>3 DEF Elements
<1>5. \A i, j \in 1 .. n : f[i] = f[j] => i = j
  BY <1>2, <1>3 DEF Distinct
<1>6. \A e \in Elements(s) : \E i \in 1 .. n : f[i] = e
  BY <1>2, <1>3 DEF Elements
<1>7. f \in Bijection(1 .. n, Elements(s))
  BY <1>4, <1>5, <1>6, Zenon DEF Bijection, Injection, Surjection, IsInjective
<1>8. ExistsBijection(1 .. n, Elements(s))
  BY <1>7, Zenon DEF ExistsBijection
<1>9. IsFiniteSet(1 .. n) /\ Cardinality(1 .. n) = n
  <2>1. Cardinality(1 .. n) = IF 1 > n THEN 0 ELSE n - 1 + 1
    BY <1>2, FS_Interval
  <2> QED BY <1>2, <2>1, FS_Interval
<1> QED BY <1>1, <1>8, <1>9, FS_Bijection

(* A collection that holds the largest of F, as the searches use it. *)
LEMMA HeldFacts ==
  ASSUME NEW F, NEW h, HoldsLargest(h, F), \A f \in F : f.size \in Nat
  PROVE  LET K == Elements(h.kept)
         IN  /\ HoldsLargest(h, K) /\ K \subseteq F /\ h.limit \in Nat \ {0}
             /\ IsFiniteSet(K) /\ Cardinality(K) \in Nat /\ Cardinality(K) <= h.limit
             /\ IsFull(h) => /\ Cardinality(K) = h.limit /\ SmallestKept(h) \in Nat
                             /\ \A g \in K : SmallestKept(h) <= g.size
                             /\ \E g \in K : SmallestKept(h) = g.size
             /\ \A f \in F \ K : Beaten(h, f)
<1>1. PICK s, n, K : s = h.kept /\ n = Len(s) /\ K = Elements(s)
  OBVIOUS
<1>2. /\ s \in Seq(F) /\ Distinct(s) /\ n <= h.limit /\ h.limit \in Nat \ {0}
      /\ \A i, j \in DOMAIN s : i <= j => s[i].size >= s[j].size
      /\ \A f \in F \ K : n = h.limit /\ \A i \in DOMAIN s : f.size <= s[i].size
      /\ h = [limit |-> h.limit, kept |-> s]
  BY <1>1 DEF HoldsLargest
<1>3. n \in Nat /\ DOMAIN s = 1 .. n /\ \A i \in 1 .. n : s[i] \in F
  BY <1>1, <1>2, LenProperties, ElementOfSeq
<1>4. K \subseteq F /\ \A i \in 1 .. n : s[i] \in K
  BY <1>1, <1>3 DEF Elements
<1>5. s \in Seq(K)
  BY <1>1, <1>2, <1>3, <1>4
<1>6. IsFiniteSet(K) /\ Cardinality(K) = n
  BY <1>1, <1>2, DistinctCount
<1>7. HoldsLargest(h, K)
  BY <1>1, <1>2, <1>5 DEF HoldsLargest
<1>8. IsFull(h) <=> n >= h.limit
  BY <1>1 DEF IsFull
<1>9. SmallestKept(h) = s[n].size
  BY <1>1 DEF SmallestKept
<1>10. ASSUME IsFull(h)
       PROVE  /\ n = h.limit /\ SmallestKept(h) \in Nat
              /\ \A g \in K : SmallestKept(h) <= g.size
              /\ \E g \in K : SmallestKept(h) = g.size
  <2>1. n = h.limit /\ n \in 1 .. n
    BY <1>2, <1>3, <1>8, <1>10
  <2>2. s[n] \in K /\ s[n].size \in Nat
    BY <1>4, <2>1
  <2>3. ASSUME NEW g \in K PROVE s[n].size <= g.size
    <3>1. PICK i \in 1 .. n : g = s[i]
      BY <1>1, <1>3 DEF Elements
    <3>2. s[i].size >= s[n].size /\ s[i].size \in Nat
      BY <1>2, <1>3, <1>4, <2>1
    <3> QED BY <2>2, <3>1, <3>2
  <2> QED BY <1>9, <2>1, <2>2, <2>3
<1>11. ASSUME NEW f \in F \ K PROVE Beaten(h, f)
  <2>1. n = h.limit /\ \A i \in DOMAIN s : f.size <= s[i].size
    BY <1>2
  <2>2. n \in DOMAIN s
    BY <1>2, <1>3, <2>1
  <2>3. IsFull(h)
    BY <1>2, <1>3, <1>8, <2>1
  <2> QED BY <1>9, <2>1, <2>2, <2>3 DEF Beaten
<1> QED BY <1>1, <1>2, <1>3, <1>4, <1>6, <1>7, <1>10, <1>11

(* With as many files as it may keep that are no smaller than x, it keeps  *)
(* no smaller one.                                                         *)
LEMMA Crowded ==
  ASSUME NEW F, NEW h, HoldsLargest(h, F), \A f \in F : f.size \in Nat,
         NEW G \in SUBSET F, IsFiniteSet(G), Cardinality(G) = h.limit,
         NEW x \in Nat, \A g \in G : x <= g.size
  PROVE  IsFull(h) /\ x <= SmallestKept(h)
<1>1. PICK K : K = Elements(h.kept)
  BY Zenon
<1>2. /\ K \subseteq F /\ h.limit \in Nat \ {0}
      /\ IsFiniteSet(K) /\ Cardinality(K) \in Nat /\ Cardinality(K) <= h.limit
      /\ IsFull(h) => /\ Cardinality(K) = h.limit /\ SmallestKept(h) \in Nat
                      /\ \E g \in K : SmallestKept(h) = g.size
      /\ \A f \in F \ K : Beaten(h, f)
  BY <1>1, HeldFacts
<1>3. h.kept \in Seq(F) /\ Distinct(h.kept)
  BY DEF HoldsLargest
<1>4. Cardinality(K) = Len(h.kept)
  BY <1>1, <1>3, DistinctCount
<1>5. CASE G \subseteq K
  <2>1. Cardinality(G) <= Cardinality(K) /\ (Cardinality(K) = Cardinality(G) => K = G)
    BY <1>2, <1>5, FS_Subset
  <2>2. K = G
    BY <1>2, <2>1
  <2>3. IsFull(h)
    BY <1>2, <1>4, <2>2 DEF IsFull
  <2>4. PICK g \in G : SmallestKept(h) = g.size
    BY <1>2, <2>2, <2>3
  <2> QED BY <2>3, <2>4
<1>6. CASE ~(G \subseteq K)
  <2>1. PICK g \in G : g \in F \ K
    BY <1>6
  <2>2. IsFull(h) /\ g.size <= SmallestKept(h) /\ g.size \in Nat
    BY <1>2, <2>1 DEF Beaten
  <2>3. SmallestKept(h) \in Nat
    BY <1>2, <2>2
  <2> QED BY <2>1, <2>2, <2>3
<1> QED BY <1>5, <1>6

(* A search, when one of its events is applied. *)
Raised(new, old) ==
  /\ \A x \in Nat : Above(old, x) => Above(new, x)
  /\ IsFull(new) => SmallestKept(new) \in Nat /\ Above(new, SmallestKept(new))
LEMMA FoundMerged ==
  ASSUME NEW old, NEW wanted, NEW Z,
         NEW p \in Seq(Progress), NEW E \in SUBSET DOMAIN p, NEW i \in E,
         Found(old, wanted, Z, p, E), NEW new, new = Merge(old, p[i].files)
  PROVE  Found(new, wanted, Z, p, E \ {i}) /\ Raised(new, old)
<1>1. PICK K, M, N, F, s : /\ K = Elements(old.kept) /\ M = Elements(new.kept) /\ s = p[i].files
                           /\ N = Elements(s) /\ F = K \cup N
  BY Zenon
<1>2. /\ HoldsLargest(old, K) /\ K \subseteq wanted /\ wanted \subseteq FileSet
      /\ \A f \in wanted : f.size \in Nat
  BY <1>1, FileSizes DEF Found, KeepsRight
<1>3. Brings(old, wanted, i, p, E)
  BY DEF Found
<1>4. Distinct(s) /\ N \subseteq wanted \ K /\ \A j \in E : i # j => N \cap Elements(p[j].files) = {}
  BY <1>1, <1>3 DEF Brings
<1>5. s \in Seq(FileSet)
  <2>1. p[i] \in Progress
    BY ElementOfSeq, LenProperties
  <2> QED BY <1>1, <2>1 DEF Progress
<1>6. \A f \in F : f.size \in Nat
  BY <1>1, <1>2, <1>4
<1>7. HoldsLargest(new, F) /\ new.limit = old.limit
  <2>1. Elements(s) \cap K = {}
    BY <1>1, <1>4
  <2>2. \A g \in K \cup Elements(s) : g.size \in Nat
    BY <1>1, <1>6
  <2>3. HoldsLargest(Merge(old, s), K \cup Elements(s)) /\ Merge(old, s).limit = old.limit
    BY <1>2, <1>4, <1>5, <2>1, <2>2, MergeHolds, SMTT(30)
  <2> QED BY <1>1, <2>3
<1>8. /\ HoldsLargest(new, M) /\ M \subseteq F
      /\ IsFull(new) => SmallestKept(new) \in Nat
      /\ \A f \in F \ M : Beaten(new, f)
  BY <1>1, <1>6, <1>7, HeldFacts
<1>9. KeepsRight(new, wanted)
  BY <1>1, <1>2, <1>4, <1>8 DEF KeepsRight
<1>10. /\ old.limit \in Nat \ {0} /\ IsFiniteSet(K)
       /\ IsFull(old) => /\ Cardinality(K) = old.limit /\ SmallestKept(old) \in Nat
                         /\ \A g \in K : SmallestKept(old) <= g.size
  <2>1. \A f \in K : f.size \in Nat
    BY <1>1, <1>6
  <2> QED BY <1>1, <1>2, <2>1, HeldFacts
<1>11. ASSUME NEW x \in Nat, IsFull(old), x <= SmallestKept(old)
       PROVE  IsFull(new) /\ x <= SmallestKept(new)
  <2>1. K \in SUBSET F /\ \A g \in K : x <= g.size
    <3>1. SmallestKept(old) \in Nat /\ \A g \in K : SmallestKept(old) <= g.size /\ g.size \in Nat
      BY <1>1, <1>6, <1>10, <1>11
    <3> QED BY <1>1, <1>11, <3>1
  <2>2. IsFiniteSet(K) /\ Cardinality(K) = new.limit
    BY <1>7, <1>10, <1>11
  <2> QED BY <1>6, <1>7, <1>11, <2>1, <2>2, Crowded
<1>12. ASSUME NEW f \in wanted, Outdone(p[i], old.limit, f)
       PROVE  Beaten(new, f)
  <2>1. Len(s) = old.limit /\ \A g \in N : f.size <= g.size
    BY <1>1, <1>12 DEF Outdone
  <2>2. IsFiniteSet(N) /\ Cardinality(N) = new.limit
    BY <1>1, <1>4, <1>5, <1>7, <2>1, DistinctCount
  <2>3. N \in SUBSET F
    BY <1>1
  <2>4. PICK x \in Nat : x = f.size
    BY <1>2
  <2>5. IsFull(new) /\ x <= SmallestKept(new)
    BY <1>6, <1>7, <2>1, <2>2, <2>3, <2>4, Crowded
  <2> QED BY <2>4, <2>5 DEF Beaten
<1>13. ASSUME NEW t \in Z PROVE Ahead(new, wanted, t, p, E \ {i})
  <2>1. Ahead(old, wanted, t, p, E)
    BY DEF Found
  <2>2. Under(t) \cap K = {} /\ N \cap Under(t) = {}
    BY <1>1, <2>1 DEF Ahead
  <2>3. Under(t) \cap M = {}
    BY <1>1, <1>8, <2>2
  <2> QED BY <1>1, <1>7, <2>1, <2>3 DEF Ahead
<1>14. ASSUME NEW j \in E \ {i} PROVE Brings(new, wanted, j, p, E \ {i})
  <2>1. Brings(old, wanted, j, p, E)
    BY DEF Found
  <2>2. PICK J : J = Elements(p[j].files)
    BY Zenon
  <2>3. J \subseteq wanted \ K /\ N \cap J = {}
    BY <1>1, <1>4, <2>1, <2>2 DEF Brings
  <2>4. J \subseteq wanted \ M
    BY <1>1, <1>8, <2>3
  <2> QED BY <1>1, <2>1, <2>2, <2>4 DEF Brings
<1>15. ASSUME NEW f \in wanted PROVE Accounted(new, f, Z, p, E \ {i})
  <2>1. Accounted(old, f, Z, p, E)
    BY DEF Found
  <2>2. CASE f \in F
    <3>1. f \in M \/ Beaten(new, f)
      BY <1>8, <2>2
    <3> QED BY <1>1, <3>1 DEF Accounted
  <2>3. CASE Beaten(old, f)
    <3>1. PICK x \in Nat : x = f.size
      BY <1>2
    <3>2. IsFull(new) /\ x <= SmallestKept(new)
      BY <1>11, <2>3, <3>1 DEF Beaten
    <3>3. Beaten(new, f)
      BY <3>1, <3>2 DEF Beaten
    <3> QED BY <3>3 DEF Accounted
  <2>4. CASE \E t \in Z : f \in Left(t)
    BY <2>4 DEF Accounted
  <2>5. ASSUME NEW j \in E, f \in Elements(p[j].files) \/ Outdone(p[j], old.limit, f)
        PROVE  Accounted(new, f, Z, p, E \ {i})
    <3>1. CASE j # i
      BY <1>7, <2>5, <3>1 DEF Accounted
    <3>2. CASE j = i
      <4>1. f \in F \/ Outdone(p[i], old.limit, f)
        BY <1>1, <2>5, <3>2
      <4>2. f \in F \/ Beaten(new, f)
        BY <1>12, <4>1
      <4> QED BY <2>2, <4>2 DEF Accounted
    <3> QED BY <3>1, <3>2
  <2>6. f \in K => f \in F
    BY <1>1
  <2> QED BY <1>1, <2>1, <2>2, <2>3, <2>4, <2>5, <2>6 DEF Accounted
<1>16. ASSUME NEW x \in Nat, Above(old, x) PROVE Above(new, x)
  BY <1>11, <1>16 DEF Above
<1>17. IsFull(new) => Above(new, SmallestKept(new))
  BY <1>8 DEF Above
<1>18. Found(new, wanted, Z, p, E \ {i})
  BY <1>2, <1>9, <1>13, <1>14, <1>15 DEF Found
<1> QED BY <1>8, <1>16, <1>17, <1>18 DEF Raised

LEMMA UnderApart ==
  ASSUME NEW t, NEW u, t.dir \in Dir, u.dir \in Dir, Below[t.dir] \cap Below[u.dir] = {}
  PROVE  Under(t) \cap Under(u) = {}
<1>1. Below[t.dir] \subseteq Dir /\ Below[u.dir] \subseteq Dir
  BY ExplorerAssumption
<1>2. \A c, d \in Dir : c # d => Elements(FilesIn[c]) \cap Elements(FilesIn[d]) = {}
  BY ExplorerAssumption
<1> QED BY <1>1, <1>2 DEF Under

(* The files of a directory, and those further below it. *)
LEMMA UnderParts ==
  ASSUME NEW t \in Walk
  PROVE  /\ Elements(FilesIn[t.dir]) \subseteq Under(t)
         /\ \A u \in Below1(t) : /\ Under(u) \subseteq Under(t)
                                 /\ Under(u) \cap Elements(FilesIn[t.dir]) = {}
<1>1. PICK d : d = t.dir
  OBVIOUS
<1>2. d \in Dir /\ d \in Below[d]
  BY <1>1, ExplorerAssumption DEF Walk
<1>3. ASSUME NEW u \in Below1(t)
      PROVE  /\ Under(u) \subseteq Under(t)
             /\ Under(u) \cap Elements(FilesIn[t.dir]) = {}
  <2>1. PICK e : e = u.dir
    OBVIOUS
  <2>2. e \in Subdirs[d]
    BY <1>1, <2>1, BelowTasks
  <2>3. Below[e] \subseteq Below[d] \ {d} /\ Below[e] \subseteq Dir
    BY <1>2, <2>2, ExplorerAssumption
  <2>4. \A c \in Dir : c # d => Elements(FilesIn[c]) \cap Elements(FilesIn[d]) = {}
    BY <1>2, ExplorerAssumption
  <2> QED BY <1>1, <2>1, <2>3, <2>4 DEF Under
<1> QED BY <1>1, <1>2, <1>3 DEF Under

(* What a worker reports of a directory. *)
DirectoryRead(k, t, floor) ==
  /\ Counted(t, floor, FilesIn[t.dir]) = k.kept /\ k.limit = NewHeap(t.limit).limit
  /\ HoldsLargest(k, {f \in Elements(FilesIn[t.dir]) : f.size > floor})
LEMMA ReadDirectory ==
  ASSUME NEW t \in Walk, NEW floor
  PROVE  \E k : DirectoryRead(k, t, floor)
<1>1. PICK l : l = FilesIn[t.dir]
  BY Zenon
<1>2. t.limit \in Nat
  BY DEF Walk
<1>3. PICK S : S = Elements(l)
  BY Zenon
<1>4. l \in Seq(S) /\ Distinct(l) /\ \A g \in S : g.size \in Nat
  BY <1>1, <1>3, ExplorerAssumption DEF Walk
<1>5. \A g \in Elements(l) : g.size \in Nat
  BY <1>3, <1>4
<1>6. \E k : /\ Counted(t, floor, l) = k.kept /\ k.limit = NewHeap(t.limit).limit
             /\ HoldsLargest(k, {f \in Elements(l) : f.size > floor})
  BY <1>2, <1>4, <1>5, CountedHolds, Zenon
<1> QED BY <1>1, <1>6 DEF DirectoryRead

(* A search, when one of its tasks is carried out: its directory is read,  *)
(* the event i tells what was in it, and the directories inside are left.  *)
LEMMA FoundReported ==
  ASSUME NEW h, NEW wanted, NEW Z \in SUBSET Walk, NEW t \in Z,
         \A u \in Z \ {t} : Below[u.dir] \cap Below[t.dir] = {},
         NEW p, NEW E, Found(h, wanted, Z, p, E), NEW floor \in Nat, Above(h, floor),
         NEW r, NEW i, i \notin E, \A j \in E : r[j] = p[j],
         r[i].files = Counted(t, floor, FilesIn[t.dir])
  PROVE  Found(h, wanted, (Z \ {t}) \cup Below1(t), r, E \cup {i})
<1>1. PICK K, S, s, N : /\ K = Elements(h.kept) /\ S = Elements(FilesIn[t.dir])
                        /\ s = r[i].files /\ N = Elements(s)
  BY Zenon
<1>2. t.dir \in Dir /\ t.limit \in Nat /\ t.depth \in Nat
  BY DEF Walk
<1>3. FilesIn[t.dir] \in Seq(S) /\ Distinct(FilesIn[t.dir]) /\ \A f \in S : f.size \in Nat
  BY <1>1, <1>2, ExplorerAssumption
<1>4. PICK c : /\ s = c.kept /\ c.limit = NewHeap(t.limit).limit
               /\ HoldsLargest(c, {f \in S : f.size > floor})
  <2>1. PICK k : DirectoryRead(k, t, floor)
    BY ReadDirectory
  <2> QED BY <1>1, <2>1 DEF DirectoryRead
<1>5. PICK G : G = {f \in S : f.size > floor}
  BY Zenon
<1>6. /\ s \in Seq(G) /\ Distinct(s)
      /\ \A f \in G \ N : Len(s) = c.limit /\ \A k \in DOMAIN s : f.size <= s[k].size
  BY <1>1, <1>4, <1>5 DEF HoldsLargest
<1>7. N \subseteq G
  <2>1. \A k \in DOMAIN s : s[k] \in G
    BY <1>6, LenProperties, ElementOfSeq
  <2> QED BY <1>1, <2>1 DEF Elements
<1>8. /\ c.limit = h.limit /\ Left(t) \subseteq wanted
      /\ Under(t) \cap K = {} /\ \A j \in E : Elements(p[j].files) \cap Under(t) = {}
  <2>1. Ahead(h, wanted, t, p, E)
    BY DEF Found
  <2> QED BY <1>1, <1>4, <2>1 DEF Ahead
<1>9. /\ FilesBelow(t) = S \cup UNION {FilesBelow(u) : u \in Below1(t)}
      /\ \A u \in Below1(t) : FilesBelow(u) \subseteq FilesBelow(t)
  BY <1>1, FilesBelowEq
<1>10. S \subseteq Under(t)
  BY <1>1, UnderParts
<1>11. N \subseteq Left(t) /\ N \subseteq Under(t) /\ N \subseteq S
  <2>1. \A f \in G : f \in S /\ f.size > 0
    BY <1>3, <1>5
  <2> QED BY <1>7, <1>9, <1>10, <2>1 DEF Left
<1>12. \A j \in E : /\ r[j] = p[j]
                    /\ Elements(p[j].files) \cap N = {}
  BY <1>8, <1>11
<1>13. ASSUME NEW u \in Z \ {t} PROVE Ahead(h, wanted, u, r, E \cup {i})
  <2>1. Ahead(h, wanted, u, p, E)
    BY DEF Found
  <2>2. u.dir \in Dir
    BY DEF Walk
  <2>3. Under(u) \cap Under(t) = {}
    BY <1>2, <2>2, UnderApart
  <2>4. N \cap Under(u) = {}
    BY <1>11, <2>3
  <2> QED BY <1>1, <1>12, <2>1, <2>4 DEF Ahead
<1>14. ASSUME NEW u \in Below1(t) PROVE Ahead(h, wanted, u, r, E \cup {i})
  <2>1. u.limit = t.limit
    BY BelowTasks
  <2>2. Under(u) \subseteq Under(t) /\ Under(u) \cap S = {}
    BY <1>1, UnderParts
  <2>3. Left(u) \subseteq wanted
    BY <1>8, <1>9 DEF Left
  <2>4. NewHeap(u.limit).limit = h.limit
    BY <1>4, <1>8, <2>1
  <2>5. Under(u) \cap K = {} /\ N \cap Under(u) = {}
    BY <1>8, <1>11, <2>2
  <2>6. \A j \in E : Elements(p[j].files) \cap Under(u) = {}
    BY <1>8, <2>2
  <2> QED BY <1>1, <1>9, <1>12, <2>3, <2>4, <2>5, <2>6 DEF Ahead
<1>15. Brings(h, wanted, i, r, E \cup {i})
  <2>1. N \subseteq wanted \ K
    BY <1>8, <1>11
  <2> QED BY <1>1, <1>6, <1>12, <2>1 DEF Brings
<1>16. ASSUME NEW j \in E PROVE Brings(h, wanted, j, r, E \cup {i})
  <2>1. Brings(h, wanted, j, p, E)
    BY DEF Found
  <2> QED BY <1>1, <1>12, <2>1 DEF Brings
<1>17. ASSUME NEW f \in wanted
       PROVE  Accounted(h, f, (Z \ {t}) \cup Below1(t), r, E \cup {i})
  <2>1. Accounted(h, f, Z, p, E)
    BY DEF Found
  <2>2. ASSUME f \in Left(t)
        PROVE  Accounted(h, f, (Z \ {t}) \cup Below1(t), r, E \cup {i})
    <3>1. f \in S \/ \E u \in Below1(t) : f \in FilesBelow(u)
      BY <1>9, <2>2 DEF Left
    <3>2. f.size > 0 /\ f.size \in Nat
      BY <2>2, FileSizes DEF Left, Found
    <3>3. CASE \E u \in Below1(t) : f \in FilesBelow(u)
      <4>1. \E u \in Below1(t) : f \in Left(u)
        BY <3>2, <3>3 DEF Left
      <4> QED BY <4>1 DEF Accounted
    <3>4. CASE f \in S /\ f.size <= floor
      <4>1. floor > 0
        BY <3>2, <3>4
      <4>2. IsFull(h) /\ floor <= SmallestKept(h)
        BY <4>1 DEF Above
      <4>3. PICK F : HoldsLargest(h, F) /\ \A g \in F : g.size \in Nat
        <5>1. HoldsLargest(h, K) /\ K \subseteq wanted /\ wanted \subseteq FileSet
          BY <1>1 DEF Found, KeepsRight
        <5>2. \A g \in K : g.size \in Nat
          BY <5>1, FileSizes
        <5> QED BY <5>1, <5>2
      <4>4. SmallestKept(h) \in Nat
        BY <4>2, <4>3, HeldFacts
      <4>5. Beaten(h, f)
        BY <3>2, <3>4, <4>2, <4>4 DEF Beaten
      <4> QED BY <4>5 DEF Accounted
    <3>5. CASE f \in S /\ f.size > floor
      <4>1. f \in G
        BY <1>5, <3>5
      <4>2. CASE f \in N
        BY <1>1, <4>2 DEF Accounted
      <4>3. CASE f \notin N
        <5>1. Len(s) = c.limit /\ \A k \in DOMAIN s : f.size <= s[k].size
          BY <1>6, <4>1, <4>3
        <5>2. Outdone(r[i], h.limit, f)
          BY <1>1, <1>8, <5>1 DEF Outdone, Elements
        <5> QED BY <5>2 DEF Accounted
      <4> QED BY <4>2, <4>3
    <3> QED BY <3>1, <3>2, <3>3, <3>4, <3>5
  <2>3. ASSUME NEW u \in Z, f \in Left(u)
        PROVE  Accounted(h, f, (Z \ {t}) \cup Below1(t), r, E \cup {i})
    <3>1. CASE u = t
      BY <2>2, <2>3, <3>1
    <3>2. CASE u # t
      BY <2>3, <3>2 DEF Accounted
    <3> QED BY <3>1, <3>2
  <2>4. ASSUME NEW j \in E, f \in Elements(p[j].files) \/ Outdone(p[j], h.limit, f)
        PROVE  Accounted(h, f, (Z \ {t}) \cup Below1(t), r, E \cup {i})
    BY <1>12, <2>4 DEF Accounted
  <2>5. f \in K \/ Beaten(h, f) => Accounted(h, f, (Z \ {t}) \cup Below1(t), r, E \cup {i})
    BY <1>1 DEF Accounted
  <2> QED BY <1>1, <2>1, <2>3, <2>4, <2>5 DEF Accounted
<1>18. KeepsRight(h, wanted) /\ wanted \subseteq FileSet
  BY DEF Found
<1> QED BY <1>13, <1>14, <1>15, <1>16, <1>17, <1>18 DEF Found

LEMMA FoundNext ==
  ASSUME NEW Z, NEW p \in Seq(Progress), NEW E \in SUBSET DOMAIN p, NEW i \in E,
         NEW F, \A r \in F : r.floor \in Nat, NEW old, NEW floor \in Nat,
         FoundFor(old, floor, Z, p, E, F), NEW new, NEW raised,
         new.heap = Merge(old.heap, p[i].files), new.origin = old.origin,
         raised = IF IsFull(new.heap) THEN SmallestKept(new.heap) ELSE floor
  PROVE  FoundFor(new, raised, Z, p, E \ {i}, F)
<1>1. PICK g, h, wanted : g = new.heap /\ h = old.heap /\ wanted = Left(old.origin)
  BY Zenon
<1>2. Above(h, floor) /\ \A r \in F : Above(h, r.floor)
  BY <1>1 DEF FoundFor
<1>3. g = Merge(h, p[i].files)
  BY <1>1
<1>4. Found(g, wanted, Z, p, E \ {i}) /\ Raised(g, h)
  <2>1. Found(h, wanted, Z, p, E)
    BY <1>1 DEF FoundFor
  <2> QED BY <1>3, <2>1, FoundMerged
<1>5. Above(g, raised)
  BY <1>1, <1>2, <1>4 DEF Raised
<1>6. \A r \in F : Above(g, r.floor)
  BY <1>2, <1>4 DEF Raised
<1> QED BY <1>1, <1>4, <1>5, <1>6 DEF FoundFor

LEMMA FoundStep ==
  ASSUME NEW h, HeavyShape(h), NEW W, NEW p \in Seq(Progress), NEW R \in SUBSET DOMAIN p,
         NEW i \in R, NEW H, \A r \in H : r.floor \in Nat, FoundAll(h, W, p, R, H)
  PROVE  FoundAll(ApplyProgress(h, p[i]), W, p, R \ {i}, H)
<1>1. PICK e, g : e = p[i] /\ g = ApplyProgress(h, e)
  OBVIOUS
<1>2. e \in Progress
  BY <1>1, ElementOfSeq, LenProperties
<1>3. Progressed(g, h, e)
  BY <1>1, <1>2, ApplyShape
<1>4. /\ DOMAIN g.queries = DOMAIN h.queries
      /\ \A q \in DOMAIN h.queries \ {e.query} : g.queries[q] = h.queries[q]
      /\ \A q \in DOMAIN h.floors \ {e.query} : g.floors[q] = h.floors[q]
  BY <1>3, Zenon DEF Progressed
<1>5. ASSUME NEW q \in DOMAIN h.queries
      PROVE  FoundFor(g.queries[q], g.floors[q], WalksOf(W, q), p, EventsAt(p, R \ {i}, q),
                      ReadersOf(H, q))
  <2>1. PICK Z, E, F : Z = WalksOf(W, q) /\ E = EventsAt(p, R, q) /\ F = ReadersOf(H, q)
    BY Zenon
  <2>2. FoundFor(h.queries[q], h.floors[q], Z, p, E, F)
    BY <2>1 DEF FoundAll
  <2>3. q \in DOMAIN h.floors /\ h.floors[q] \in Nat
    BY DEF HeavyShape
  <2>4. CASE q # e.query
    <3>1. EventsAt(p, R \ {i}, q) = E
      BY <1>1, <2>1, <2>4 DEF EventsAt
    <3>2. g.queries[q] = h.queries[q] /\ g.floors[q] = h.floors[q]
      BY <1>4, <2>3, <2>4
    <3> QED BY <2>1, <2>2, <3>1, <3>2
  <2>5. CASE q = e.query
    <3>1. EventsAt(p, R \ {i}, q) = E \ {i}
      BY <2>1 DEF EventsAt
    <3>2. i \in E /\ E \in SUBSET DOMAIN p
      BY <1>1, <2>1, <2>5 DEF EventsAt
    <3>3. PICK old, new, floor, raised :
            /\ old = h.queries[q] /\ new = g.queries[q]
            /\ floor = h.floors[q] /\ raised = g.floors[q]
      BY Zenon
    <3>4. /\ new.heap = Merge(old.heap, e.files) /\ new.origin = old.origin
          /\ raised = IF IsFull(new.heap) THEN SmallestKept(new.heap) ELSE floor
      BY <1>3, <2>5, <3>3, Zenon DEF Progressed
    <3>5. new.heap = Merge(old.heap, p[i].files)
      BY <1>1, <3>4
    <3>6. \A r \in F : r.floor \in Nat
      BY <2>1 DEF ReadersOf
    <3>7. floor \in Nat /\ FoundFor(old, floor, Z, p, E, F)
      BY <2>2, <2>3, <3>3
    <3>8. FoundFor(new, raised, Z, p, E \ {i}, F)
      BY <3>2, <3>4, <3>5, <3>6, <3>7, FoundNext
    <3> QED BY <2>1, <3>1, <3>3, <3>8
  <2> QED BY <2>4, <2>5
<1> QED BY <1>1, <1>4, <1>5 DEF FoundAll

FoundGood(z, s, h) ==
  HeavyShape(h) /\ FoundAll(h, z.walks, z.events, DOMAIN z.events \ s, z.readers)
FoundFold == INSTANCE FoldLemmas WITH Op <- ProgressOp, Pick <- PickLast, Good <- FoundGood

LEMMA FoundApplied ==
  ASSUME NEW h, HeavyShape(h), NEW W, NEW s \in Seq(Progress),
         NEW H, \A r \in H : r.floor \in Nat, FoundAll(h, W, s, DOMAIN s, H)
  PROVE  FoundAll(FoldLeft(ApplyProgress, h, s), W, s, {}, H)
<1> DEFINE p == [events |-> s, walks |-> W, readers |-> H]
           D == DOMAIN s
<1>1. PICK g : g = FoldLeft(ApplyProgress, h, s)
  BY Zenon
<1>2. p.events = s /\ p.walks = W /\ p.readers = H
  OBVIOUS
<1> HIDE DEF p
<1>3. PICK f : f = FoundFold!Fold(p, h, D)
  BY Zenon
<1>4. g = f
  BY <1>1, <1>2, <1>3, Zenon DEF FoldLeft, MapThenFoldSet, FoundFold!Fold, FoundFold!Step,
     ProgressOp, PickLast, Max
<1>5. PICK n \in Nat : D = 1 .. n
  BY LenProperties
<1>6. IsFiniteSet(D)
  BY <1>5, FS_Interval
<1>7. \A u \in SUBSET D : u # {} => PickLast(u) \in u
  BY <1>5, PickLastPicks
<1> HIDE DEF D
<1>8. FoundGood(p, {}, h)
  <2>1. DOMAIN s \ {} = DOMAIN s
    OBVIOUS
  <2> QED BY <1>2, <2>1 DEF FoundGood
<1>9. ASSUME NEW u \in SUBSET D, u # {}, NEW a, FoundGood(p, u \ {PickLast(u)}, a)
      PROVE  FoundGood(p, u, ProgressOp(p, a, PickLast(u)))
  <2>1. PICK i : i = PickLast(u)
    BY Zenon
  <2>2. i \in D /\ i \in u
    BY <1>7, <1>9, <2>1
  <2>3. s[i] \in Progress
    BY <2>2, ElementOfSeq, LenProperties DEF D
  <2>4. PICK b : b = ApplyProgress(a, s[i])
    BY Zenon
  <2>5. HeavyShape(a) /\ HeavyShape(b)
    BY <1>9, <2>3, <2>4, ApplyShape DEF FoundGood
  <2>6. PICK R : R = D \ (u \ {i})
    BY Zenon
  <2>7. FoundAll(a, W, s, R, H)
    BY <1>2, <1>9, <2>1, <2>6 DEF FoundGood, D
  <2>8. R \in SUBSET DOMAIN s /\ i \in R
    BY <2>2, <2>6 DEF D
  <2>9. FoundAll(b, W, s, R \ {i}, H)
    BY <2>4, <2>5, <2>7, <2>8, FoundStep
  <2>10. R \ {i} = D \ u
    BY <2>2, <2>6
  <2>11. ProgressOp(p, a, i) = b
    BY <1>2, <2>4 DEF ProgressOp
  <2> QED BY <1>2, <2>1, <2>5, <2>9, <2>10, <2>11 DEF FoundGood, D
<1>10. FoundGood(p, D, f)
  <2>1. \A u \in SUBSET D : u # {} =>
          \A a : FoundGood(p, u \ {PickLast(u)}, a)
                   => FoundGood(p, u, ProgressOp(p, a, PickLast(u)))
    BY <1>9
  <2>2. FoundFold!Inductive(D)
    BY <1>6, FiniteInductive DEF FoundFold!Inductive
  <2> QED BY <1>3, <1>7, <1>8, <2>1, <2>2, FoundFold!FoldKeeps
<1>11. DOMAIN s \ D = {}
  BY DEF D
<1> QED BY <1>1, <1>2, <1>4, <1>10, <1>11 DEF FoundGood

LEMMA SameEvents ==
  ASSUME NEW query, NEW floor, NEW Z, NEW p, NEW E, NEW H, FoundFor(query, floor, Z, p, E, H),
         NEW r, \A i \in E : r[i] = p[i], NEW G, \A x \in G : Above(query.heap, x.floor)
  PROVE  FoundFor(query, floor, Z, r, E, G)
<1>1. PICK h, wanted : h = query.heap /\ wanted = Left(query.origin)
  BY Zenon
<1>2. Found(h, wanted, Z, p, E) /\ Above(h, floor) /\ \A x \in G : Above(h, x.floor)
  BY <1>1 DEF FoundFor
<1>3. wanted \subseteq FileSet /\ KeepsRight(h, wanted)
  BY <1>2 DEF Found
<1>4. ASSUME NEW t \in Z PROVE Ahead(h, wanted, t, r, E)
  BY <1>2 DEF Found, Ahead
<1>5. ASSUME NEW i \in E PROVE Brings(h, wanted, i, r, E)
  BY <1>2 DEF Found, Brings
<1>6. ASSUME NEW f \in wanted PROVE Accounted(h, f, Z, r, E)
  BY <1>2 DEF Found, Accounted
<1> QED BY <1>1, <1>2, <1>3, <1>4, <1>5, <1>6 DEF Found, FoundFor

LEMMA ReaderFacts ==
  ASSUME SearchShape
  PROVE  /\ \A r \in Readers : r.floor \in Nat
         /\ \A w \in Busy("read") : /\ Reader(w) \in Readers /\ walker[w].task \in AllWalks
                                    /\ Reader(w).query = walker[w].task.query
                                    /\ Reader(w).floor = walker[w].floor
         /\ \A r \in Readers : \E w \in Busy("read") : r = Reader(w)
<1>1. ASSUME NEW w \in Busy("read")
      PROVE  /\ walker[w].floor \in Nat /\ walker[w].task \in AllWalks
             /\ Reader(w).query = walker[w].task.query /\ Reader(w).floor = walker[w].floor
  <2>1. w \in Walker /\ walker[w].at = "read" /\ walker[w] \in WalkerState
    BY DEF Busy, SearchShape
  <2>2. walker[w].floor \in Nat
    BY <2>1 DEF WalkerState, Resting
  <2>3. walker[w].task \in AllWalks
    BY <2>1 DEF AllWalks, TasksAt
  <2> QED BY <2>2, <2>3 DEF Reader
<1> QED BY <1>1 DEF Readers

(* A search that has only begun has everything ahead of it. *)
LEMMA FoundBegun ==
  ASSUME NEW d \in Dir, NEW y \in Nat, NEW limit \in Nat, NEW query, Begun(query, d, y, limit),
         NEW t, t.dir = d, t.depth = y, t.limit = limit, NEW p
  PROVE  FoundFor(query, 0, {t}, p, {}, {})
<1>1. PICK h, o : h = query.heap /\ o = query.origin
  BY Zenon
<1>2. h = NewHeap(limit) /\ o = [dir |-> d, depth |-> y]
  BY <1>1 DEF Begun
<1>3. o.dir = d /\ o.depth = y
  BY <1>2
<1>4. HoldsLargest(h, {}) /\ h.kept = <<>>
  BY <1>2, EmptyHolds
<1>5. Elements(h.kept) = {}
  BY <1>4 DEF Elements
<1>6. Left(o) \subseteq FileSet
  BY <1>3, FilesBelowUnder DEF Left
<1>7. Left(t) = Left(o)
  <2>1. PICK g : /\ g = [n \in 0 .. MaxDepth |-> LevelStep(g, n)]
                 /\ \A u : FilesBelow(u) = g[Levels(u.depth)][u.dir]
    BY LevelsUnfold, Zenon
  <2>2. FilesBelow(t) = FilesBelow(o)
    BY <1>3, <2>1
  <2> QED BY <2>2 DEF Left
<1>8. KeepsRight(h, Left(o))
  BY <1>4, <1>5 DEF KeepsRight
<1>9. Ahead(h, Left(o), t, p, {})
  <2>1. NewHeap(t.limit).limit = h.limit
    BY <1>2
  <2> QED BY <1>3, <1>5, <1>7, <2>1 DEF Ahead
<1>10. \A f \in Left(o) : Accounted(h, f, {t}, p, {})
  BY <1>7 DEF Accounted
<1>11. Found(h, Left(o), {t}, p, {})
  BY <1>6, <1>8, <1>9, <1>10 DEF Found
<1>12. Above(h, 0)
  BY DEF Above
<1> QED BY <1>1, <1>11, <1>12 DEF FoundFor

LEMMA KeyFound ==
  ASSUME BaseInv, FoundInv, SearchMoves
  PROVE  FoundInv'
<1> SUFFICES ASSUME onDisk' = FilesIn
             PROVE  FoundAll(heavy', AllWalks', progress', DOMAIN progress', Readers')
  BY DEF FoundInv
<1>1. SearchShape /\ HeavyShape(heavy) /\ Searched(heavy, heavy') /\ progress' = progress
      /\ walker' = walker
  BY DEF BaseInv, SearchShape, SearchMoves
<1>2. onDisk = FilesIn
  BY DEF SearchMoves
<1>3. FoundAll(heavy, AllWalks, progress, DOMAIN progress, Readers)
  BY <1>2 DEF FoundInv
<1>4. Readers' = Readers
  BY <1>1 DEF Readers, Reader, Busy
<1>5. PICK H : H = UNION {TasksAt(w) : w \in Walker}
  BY Zenon
<1>6. AllWalks = heavy.walks \cup H /\ AllWalks' = heavy'.walks \cup H
  <2>1. \A w \in Walker : TasksAt(w)' = TasksAt(w)
    BY <1>1 DEF TasksAt
  <2> QED BY <1>5, <2>1 DEF AllWalks
<1>7. \A q \in DOMAIN heavy'.queries : Carried(q, heavy, heavy') \/ Started(q, heavy, heavy')
  BY <1>1, SearchedFacts
<1>8. \A t \in AllWalks : t.query # heavy.next
  <2>1. heavy.next \in QueryNr
    BY <1>1 DEF HeavyShape
  <2> QED BY <1>1, <2>1, TaskTypes DEF QueryNr
<1>9. ASSUME NEW q \in DOMAIN heavy'.queries
      PROVE  FoundFor(heavy'.queries[q], heavy'.floors[q], WalksOf(AllWalks', q), progress,
                      EventsAt(progress, DOMAIN progress, q), ReadersOf(Readers, q))
  <2>1. CASE Carried(q, heavy, heavy')
    <3>1. WalksOf(AllWalks', q) = WalksOf(AllWalks, q)
      BY <1>6, <2>1 DEF WalksOf, Carried
    <3> QED BY <1>3, <2>1, <3>1 DEF Carried, FoundAll
  <2>2. CASE Started(q, heavy, heavy')
    <3>1. PICK d \in Dir, y \in Nat, limit \in Nat :
           /\ Begun(heavy'.queries[q], d, y, limit)
           /\ WalksOf(heavy'.walks, q) = {[query |-> q, dir |-> d, limit |-> limit, depth |-> y]}
      BY <2>2 DEF Started
    <3>2. q = heavy.next /\ heavy'.floors[q] = 0
      BY <2>2 DEF Started
    <3>3. PICK t : t = [query |-> q, dir |-> d, limit |-> limit, depth |-> y]
      BY Zenon
    <3>4. WalksOf(AllWalks', q) = {t}
      BY <1>6, <1>8, <3>1, <3>2, <3>3 DEF WalksOf
    <3>5. EventsAt(progress, DOMAIN progress, q) = {}
      <4>1. ASSUME NEW i \in DOMAIN progress PROVE progress[i].query # heavy.next
        <5>1. progress[i].query < heavy.next /\ progress[i] \in Progress
          BY <1>1, ElementOfSeq, LenProperties DEF SearchShape
        <5>2. progress[i].query \in QueryNr /\ heavy.next \in QueryNr
          BY <1>1, <5>1 DEF Progress, HeavyShape
        <5> QED BY <5>1, <5>2 DEF QueryNr
      <4> QED BY <3>2, <4>1 DEF EventsAt
    <3>6. ReadersOf(Readers, q) = {}
      BY <1>1, <1>8, <3>2, ReaderFacts DEF ReadersOf
    <3>7. t.dir = d /\ t.depth = y /\ t.limit = limit
      BY <3>3
    <3>8. FoundFor(heavy'.queries[q], 0, {t}, progress, {}, {})
      BY <3>1, <3>7, FoundBegun
    <3> QED BY <3>2, <3>4, <3>5, <3>6, <3>8
  <2> QED BY <1>7, <2>1, <2>2
<1> QED BY <1>1, <1>4, <1>9 DEF FoundAll

LEMMA FilesFinite == IsFiniteSet(FileSet)
<1>1. ASSUME NEW d \in Dir PROVE IsFiniteSet(Elements(FilesIn[d]))
  BY ExplorerAssumption, DistinctCount
<1>2. PICK X : X = {Elements(FilesIn[d]) : d \in Dir}
  BY Zenon
<1>3. IsFiniteSet(X)
  <2>1. PICK f : f = [d \in Dir |-> Elements(FilesIn[d])]
    BY Zenon
  <2>2. f \in [Dir -> X] /\ \A x \in X : \E d \in Dir : f[d] = x
    BY <1>2, <2>1
  <2>3. f \in Surjection(Dir, X)
    BY <2>2, Zenon DEF Surjection
  <2> QED BY <2>3, ExplorerAssumption, FS_Surjection
<1>4. \A x \in X : IsFiniteSet(x)
  BY <1>1, <1>2
<1>5. IsFiniteSet(UNION X)
  BY <1>3, <1>4, FS_UNION
<1> QED BY <1>2, <1>5 DEF FileSet

LEMMA WalkFound ==
  ASSUME BaseInv, SearchInv, FoundInv, NEW w \in Walker, WalkStep(w)
  PROVE  FoundInv'
<1> SUFFICES ASSUME onDisk' = FilesIn
             PROVE  FoundAll(heavy', AllWalks', progress', DOMAIN progress', Readers')
  BY DEF FoundInv
<1>1. TakeWalk(w) \/ ReportWalk(w, onDisk) \/ PushWalks(w)
  BY DEF WalkStep, WalkerStep
<1>2. /\ SearchShape /\ DiskShape(onDisk) /\ HeavyShape(heavy) /\ progress \in Seq(Progress)
      /\ WalksApart /\ onDisk = FilesIn
  BY DEF BaseInv, SearchShape, SearchInv, WalkStep, deletionVars
<1>3. FoundAll(heavy, AllWalks, progress, DOMAIN progress, Readers)
  BY <1>2 DEF FoundInv
<1>4. \A v \in Busy("read") : Reader(v) \in Readers
  BY <1>2, ReaderFacts
<1>5. ASSUME NEW v \in Busy("read")', v # w, \A u \in Walker \ {w} : walker'[u] = walker[u]
      PROVE  Reader(v)' \in Readers
  <2>1. v \in Walker /\ walker'[v] = walker[v]
    BY <1>5 DEF Busy
  <2>2. v \in Busy("read") /\ Reader(v)' = Reader(v)
    BY <1>5, <2>1 DEF Busy, Reader
  <2> QED BY <1>4, <2>2
<1>6. CASE TakeWalk(w)
  <2>1. AllWalks' = AllWalks
    BY <1>2, <1>6, TakeApart
  <2>2. PICK t \in heavy.walks :
          /\ \A v \in Walker \ {w} : walker'[v] = walker[v]
          /\ heavy'.queries = heavy.queries /\ heavy'.floors = heavy.floors
          /\ progress' = progress
          /\ walker'[w] = [at |-> "read", task |-> t, floor |-> heavy.floors[t.query]]
    BY <1>2, <1>6, TakeFacts
  <2>3. PICK c : c = [query |-> t.query, floor |-> heavy.floors[t.query]]
    BY Zenon
  <2>4. c.query = t.query /\ c.floor = heavy.floors[t.query]
    BY <2>3
  <2>5. \A r \in Readers' : r \in Readers \/ r = c
    <3>1. Reader(w)' = c
      BY <2>2, <2>3 DEF Reader
    <3>2. ASSUME NEW r \in Readers' PROVE r \in Readers \/ r = c
      <4>1. PICK v \in Busy("read")' : r = Reader(v)'
        BY DEF Readers
      <4> QED BY <1>5, <2>2, <3>1, <4>1
    <3> QED BY <3>2
  <2>6. ASSUME NEW q \in DOMAIN heavy.queries
        PROVE  FoundFor(heavy.queries[q], heavy.floors[q], WalksOf(AllWalks, q), progress,
                        EventsAt(progress, DOMAIN progress, q), ReadersOf(Readers', q))
    <3>1. PICK query, floor, Z, E, H, G :
            /\ query = heavy.queries[q] /\ floor = heavy.floors[q] /\ Z = WalksOf(AllWalks, q)
            /\ E = EventsAt(progress, DOMAIN progress, q)
            /\ H = ReadersOf(Readers, q) /\ G = ReadersOf(Readers', q)
      BY Zenon
    <3>2. FoundFor(query, floor, Z, progress, E, H)
      BY <1>3, <3>1 DEF FoundAll
    <3>3. ASSUME NEW r \in G PROVE Above(query.heap, r.floor)
      <4>1. r \in H \/ r.floor = floor
        BY <2>4, <2>5, <3>1, <3>3 DEF ReadersOf
      <4> QED BY <3>2, <4>1 DEF FoundFor
    <3>4. FoundFor(query, floor, Z, progress, E, G)
      BY <3>2, <3>3, SameEvents
    <3> QED BY <3>1, <3>4
  <2> QED BY <2>1, <2>2, <2>6 DEF FoundAll
<1>7. ASSUME Readers' \subseteq Readers, NEW q \in DOMAIN heavy.queries
      PROVE  \A r \in ReadersOf(Readers', q) : Above(heavy.queries[q].heap, r.floor)
  <2>1. FoundFor(heavy.queries[q], heavy.floors[q], WalksOf(AllWalks, q), progress,
                 EventsAt(progress, DOMAIN progress, q), ReadersOf(Readers, q))
    BY <1>3 DEF FoundAll
  <2>2. ReadersOf(Readers', q) \subseteq ReadersOf(Readers, q)
    BY <1>7 DEF ReadersOf
  <2> QED BY <2>1, <2>2 DEF FoundFor
<1>8. ASSUME walker'[w].at # "read", \A v \in Walker \ {w} : walker'[v] = walker[v]
      PROVE  Readers' \subseteq Readers
  <2>1. ASSUME NEW r \in Readers' PROVE r \in Readers
    <3>1. PICK v \in Busy("read")' : r = Reader(v)'
      BY DEF Readers
    <3>2. v # w
      BY <1>8, <3>1 DEF Busy
    <3> QED BY <1>5, <1>8, <3>1, <3>2
  <2> QED BY <2>1
<1>9. CASE PushWalks(w)
  <2>1. AllWalks' = AllWalks
    BY <1>2, <1>9, PushApart
  <2>2. /\ \A v \in Walker \ {w} : walker'[v] = walker[v]
        /\ walker'[w] = Resting /\ heavy'.queries = heavy.queries /\ heavy'.floors = heavy.floors
        /\ progress' = progress
    BY <1>2, <1>9, PushFacts
  <2>3. Readers' \subseteq Readers
    BY <1>8, <2>2 DEF Resting
  <2>4. ASSUME NEW q \in DOMAIN heavy.queries
        PROVE  FoundFor(heavy.queries[q], heavy.floors[q], WalksOf(AllWalks, q), progress,
                        EventsAt(progress, DOMAIN progress, q), ReadersOf(Readers', q))
    <3>1. PICK query, floor, Z, E, H, G :
            /\ query = heavy.queries[q] /\ floor = heavy.floors[q] /\ Z = WalksOf(AllWalks, q)
            /\ E = EventsAt(progress, DOMAIN progress, q)
            /\ H = ReadersOf(Readers, q) /\ G = ReadersOf(Readers', q)
      BY Zenon
    <3>2. FoundFor(query, floor, Z, progress, E, H)
      BY <1>3, <3>1 DEF FoundAll
    <3>3. \A r \in G : Above(query.heap, r.floor)
      BY <1>7, <2>3, <3>1
    <3>4. FoundFor(query, floor, Z, progress, E, G)
      BY <3>2, <3>3, SameEvents
    <3> QED BY <3>1, <3>4
  <2> QED BY <2>1, <2>2, <2>4 DEF FoundAll
<1>10. CASE ReportWalk(w, onDisk)
  <2>1. PICK t, B, floor : t = walker[w].task /\ B = Below1(t) /\ floor = walker[w].floor
    BY Zenon
  <2>2. AllWalks' = (AllWalks \ {t}) \cup B /\ B \cap AllWalks = {}
    BY <1>2, <1>10, <2>1, ReportApart
  <2>3. /\ walker[w].at = "read" /\ floor \in Nat /\ t \in AllWalks /\ heavy' = heavy
        /\ walker'[w].at # "read" /\ \A v \in Walker \ {w} : walker'[v] = walker[v]
        /\ \E e \in Progress : progress' = Append(progress, e) /\ e.query = t.query
                               /\ e.files = Counted(t, floor, onDisk[t.dir])
    BY <1>2, <1>10, <2>1, ReportFacts, Zenon
  <2>4. PICK e \in Progress : progress' = Append(progress, e) /\ e.query = t.query
                              /\ e.files = Counted(t, floor, onDisk[t.dir])
    BY <2>3
  <2>5. PICK k \in Nat :
          /\ progress' \in Seq(Progress) /\ DOMAIN progress = 1 .. k /\ k + 1 \notin DOMAIN progress
          /\ DOMAIN progress' = DOMAIN progress \cup {k + 1} /\ progress'[k + 1] = e
          /\ \A i \in DOMAIN progress : progress'[i] = progress[i]
    BY <1>2, <2>4, AddedEvent
  <2>6. t \in Walk /\ \A u \in B : u.query = t.query
    BY <1>2, <2>1, <2>3, TaskTypes, BelowTasks
  <2>7. Readers' \subseteq Readers
    BY <1>8, <2>3
  <2>8. PICK p, r, i, W : p = progress /\ r = progress' /\ i = k + 1 /\ W = AllWalks'
    BY Zenon
  <2>9. ASSUME NEW q \in DOMAIN heavy.queries
        PROVE  FoundFor(heavy.queries[q], heavy.floors[q], WalksOf(W, q), r,
                        EventsAt(r, DOMAIN r, q), ReadersOf(Readers', q))
    <3>1. PICK query, low, Z, E, H, G :
            /\ query = heavy.queries[q] /\ low = heavy.floors[q] /\ Z = WalksOf(AllWalks, q)
            /\ E = EventsAt(p, DOMAIN p, q)
            /\ H = ReadersOf(Readers, q) /\ G = ReadersOf(Readers', q)
      BY Zenon
    <3>2. FoundFor(query, low, Z, p, E, H)
      BY <1>3, <2>8, <3>1 DEF FoundAll
    <3>3. \A x \in G : Above(query.heap, x.floor)
      BY <1>7, <2>7, <3>1
    <3>4. E \in SUBSET DOMAIN p /\ i \notin E /\ \A j \in E : r[j] = p[j]
      BY <2>5, <2>8, <3>1 DEF EventsAt
    <3>5. CASE q # t.query
      <4>1. WalksOf(W, q) = Z
        BY <2>2, <2>6, <2>8, <3>1, <3>5 DEF WalksOf
      <4>2. EventsAt(r, DOMAIN r, q) = E
        BY <2>4, <2>5, <2>8, <3>1, <3>5 DEF EventsAt
      <4>3. FoundFor(query, low, Z, r, E, G)
        BY <3>2, <3>3, <3>4, SameEvents
      <4> QED BY <3>1, <4>1, <4>2, <4>3
    <3>6. CASE q = t.query
      <4>1. WalksOf(W, q) = (Z \ {t}) \cup B
        BY <2>2, <2>6, <2>8, <3>1, <3>6 DEF WalksOf
      <4>2. EventsAt(r, DOMAIN r, q) = E \cup {i}
        BY <2>4, <2>5, <2>8, <3>1, <3>6 DEF EventsAt
      <4>3. PICK h, wanted : h = query.heap /\ wanted = Left(query.origin)
        BY Zenon
      <4>4. Found(h, wanted, Z, p, E) /\ Above(h, low)
        BY <3>2, <4>3 DEF FoundFor
      <4>5. t \in Z /\ Z \in SUBSET Walk
        BY <1>2, <2>3, <3>1, <3>6, TaskTypes DEF WalksOf
      <4>6. \A u \in Z \ {t} : Below[u.dir] \cap Below[t.dir] = {}
        BY <1>2, <2>3, <3>1, <3>6 DEF WalksApart, WalksOf
      <4>7. Above(h, floor)
        <5>1. w \in Busy("read")
          BY <2>3 DEF Busy
        <5>2. Reader(w) \in H /\ Reader(w).floor = floor
          BY <1>2, <2>1, <3>1, <3>6, <5>1, ReaderFacts DEF ReadersOf
        <5> QED BY <3>2, <4>3, <5>2 DEF FoundFor
      <4>8. r[i].files = Counted(t, floor, FilesIn[t.dir])
        BY <1>2, <2>4, <2>5, <2>8
      <4>9. Found(h, wanted, (Z \ {t}) \cup Below1(t), r, E \cup {i})
        BY <2>3, <3>4, <4>4, <4>5, <4>6, <4>7, <4>8, FoundReported
      <4>10. FoundFor(query, low, (Z \ {t}) \cup B, r, E \cup {i}, G)
        BY <2>1, <3>3, <4>3, <4>4, <4>9 DEF FoundFor
      <4> QED BY <3>1, <4>1, <4>2, <4>10
    <3> QED BY <3>5, <3>6
  <2> QED BY <2>3, <2>8, <2>9 DEF FoundAll
<1> QED BY <1>1, <1>6, <1>9, <1>10

LEMMA TickFound ==
  ASSUME BaseInv, FoundInv, Tick
  PROVE  FoundInv'
<1> SUFFICES ASSUME onDisk' = FilesIn
             PROVE  FoundAll(heavy', AllWalks', progress', DOMAIN progress', Readers')
  BY DEF FoundInv
<1>1. SearchShape /\ HeavyShape(heavy) /\ progress \in Seq(Progress) /\ onDisk = FilesIn
  BY DEF BaseInv, SearchShape, Tick
<1>2. /\ heavy' = FoldLeft(ApplyProgress, heavy, progress) /\ walker' = walker
      /\ progress' = <<>>
  BY TickKeeps DEF Tick
<1>3. heavy'.walks = heavy.walks
  BY <1>1, <1>2, ApplyAllShape
<1>4. \A w \in Walker : TasksAt(w)' = TasksAt(w)
  BY <1>2 DEF TasksAt
<1>5. AllWalks' = AllWalks
  BY <1>3, <1>4 DEF AllWalks
<1>6. Readers' = Readers
  BY <1>2 DEF Readers, Reader, Busy
<1>7. FoundAll(heavy', AllWalks, progress, {}, Readers)
  <2>1. PICK h, W, s, H : h = heavy /\ W = AllWalks /\ s = progress /\ H = Readers
    BY Zenon
  <2>2. HeavyShape(h) /\ s \in Seq(Progress) /\ FoundAll(h, W, s, DOMAIN s, H)
    BY <1>1, <2>1 DEF FoundInv
  <2>3. \A r \in H : r.floor \in Nat
    BY <1>1, <2>1, ReaderFacts
  <2>4. FoundAll(FoldLeft(ApplyProgress, h, s), W, s, {}, H)
    BY <2>2, <2>3, FoundApplied
  <2> QED BY <1>2, <2>1, <2>4
<1>8. ASSUME NEW q \in DOMAIN heavy'.queries
      PROVE  FoundFor(heavy'.queries[q], heavy'.floors[q], WalksOf(AllWalks, q), progress',
                      EventsAt(progress', DOMAIN progress', q), ReadersOf(Readers, q))
  <2>1. EventsAt(progress', DOMAIN progress', q) = {} /\ EventsAt(progress, {}, q) = {}
    BY <1>2 DEF EventsAt
  <2>2. PICK query, floor, Z, H, p, r :
          /\ query = heavy'.queries[q] /\ floor = heavy'.floors[q] /\ Z = WalksOf(AllWalks, q)
          /\ H = ReadersOf(Readers, q) /\ p = progress /\ r = progress'
    BY Zenon
  <2>3. FoundFor(query, floor, Z, p, {}, H)
    BY <1>7, <2>1, <2>2 DEF FoundAll
  <2>4. \A x \in H : Above(query.heap, x.floor)
    BY <2>3 DEF FoundFor
  <2>5. FoundFor(query, floor, Z, r, {}, H)
    BY <2>3, <2>4, SameEvents
  <2> QED BY <2>1, <2>2, <2>5
<1> QED BY <1>5, <1>6, <1>8 DEF FoundAll

LEMMA FoundInit ==
  ASSUME Init
  PROVE  FoundInv
<1>1. heavy = NoQueries
  BY BaseInit
<1>2. DOMAIN heavy.queries = {}
  BY <1>1 DEF NoQueries
<1> QED BY <1>2 DEF FoundInv, FoundAll

LEMMA FoundKept ==
  ASSUME BaseInv, SearchInv, FoundInv, [Next]_vars
  PROVE  FoundInv'
<1>1. ASSUME UNCHANGED <<heavyVars, onDisk>> PROVE FoundInv'
  <2>1. heavy' = heavy /\ walker' = walker /\ progress' = progress /\ onDisk' = onDisk
    BY <1>1 DEF heavyVars
  <2>2. AllWalks' = AllWalks /\ Readers' = Readers
    BY <2>1 DEF AllWalks, TasksAt, Readers, Reader, Busy
  <2> QED BY <2>1, <2>2 DEF FoundInv
<1>2. CASE UNCHANGED vars
  BY <1>1, <1>2 DEF vars, deletionVars
<1>3. CASE UserStep
  BY <1>3, UserKeeps, KeyFound
<1>4. CASE Tick
  BY <1>4, TickFound
<1>5. ASSUME NEW w \in Lister, ListerStep(w) PROVE FoundInv'
  BY <1>1, <1>5 DEF ListerStep, deletionVars
<1>6. ASSUME NEW w \in Walker, WalkStep(w) PROVE FoundInv'
  BY <1>6, WalkFound
<1>7. CASE RemoveNextFile
  BY <1>7, RemoveKeeps, KeyFound
<1> QED BY <1>2, <1>3, <1>4, <1>5, <1>6, <1>7, Zenon DEF Next

(* A finished search has nothing to find and no event on its way. *)
LEMMA FoundMeans ==
  ASSUME BaseInv, SearchInv, FoundInv
  PROVE  SearchesFindTheHeaviest
<1> SUFFICES ASSUME onDisk = FilesIn, NEW q \in DOMAIN heavy.queries, heavy.queries[q].finished
             PROVE  LET query == heavy.queries[q]
                        kept == Elements(query.heap.kept)
                        all == {f \in FilesBelow(query.origin) : f.size > 0}
                    IN  /\ kept \subseteq all
                        /\ Len(query.heap.kept) = Cardinality(kept)
                        /\ Cardinality(kept) = IF Cardinality(all) < query.heap.limit
                                               THEN Cardinality(all) ELSE query.heap.limit
                        /\ \A f \in all \ kept, g \in kept : f.size <= g.size
  BY DEF SearchesFindTheHeaviest, FinishedMeansHeaviest
<1>1. PICK query, h, K, all : /\ query = heavy.queries[q] /\ h = query.heap
                              /\ K = Elements(h.kept) /\ all = Left(query.origin)
  BY Zenon
<1>2. PICK Z, E : Z = WalksOf(AllWalks, q) /\ E = EventsAt(progress, DOMAIN progress, q)
  BY Zenon
<1>3. Z = {} /\ E = {}
  <2>1. KnownTo(query, Z, progress, E)
    BY <1>1, <1>2 DEF SearchInv, WorkInv, KnownAll
  <2> QED BY <1>1, <2>1 DEF KnownTo
<1>4. Found(h, all, {}, progress, {})
  BY <1>1, <1>2, <1>3 DEF FoundInv, FoundAll, FoundFor
<1>5. HoldsLargest(h, K) /\ K \subseteq all /\ all \subseteq FileSet
  BY <1>1, <1>4 DEF Found, KeepsRight
<1>6. \A f \in all : f.size \in Nat
  BY <1>5, FileSizes
<1>7. \A f \in all \ K : Beaten(h, f)
  BY <1>1, <1>4 DEF Found, Accounted
<1>8. /\ h.limit \in Nat \ {0} /\ Cardinality(K) \in Nat /\ Cardinality(K) <= h.limit
      /\ IsFull(h) => /\ Cardinality(K) = h.limit /\ SmallestKept(h) \in Nat
                      /\ \A g \in K : SmallestKept(h) <= g.size
  <2>1. \A f \in K : f.size \in Nat
    BY <1>5, <1>6
  <2> QED BY <1>1, <1>5, <2>1, HeldFacts
<1>9. Len(h.kept) = Cardinality(K)
  BY <1>1, <1>5, DistinctCount DEF HoldsLargest
<1>10. \A f \in all \ K, g \in K : f.size <= g.size
  <2> TAKE f \in all \ K, g \in K
  <2>1. IsFull(h) /\ f.size <= SmallestKept(h)
    BY <1>7 DEF Beaten
  <2>2. SmallestKept(h) <= g.size /\ SmallestKept(h) \in Nat
    BY <1>8, <2>1
  <2>3. f.size \in Nat /\ g.size \in Nat
    BY <1>5, <1>6
  <2> QED BY <2>1, <2>2, <2>3
<1>11. IsFiniteSet(all)
  BY <1>5, FilesFinite, FS_Subset
<1>12. Cardinality(K) <= Cardinality(all) /\ Cardinality(all) \in Nat
  BY <1>5, <1>11, FS_Subset, FS_CardinalityType
<1>13. Cardinality(K) = IF Cardinality(all) < h.limit THEN Cardinality(all) ELSE h.limit
  <2>1. CASE K = all
    BY <1>8, <1>12, <2>1
  <2>2. CASE K # all
    <3>1. PICK f \in all \ K : Beaten(h, f)
      BY <1>5, <1>7, <2>2
    <3>2. Cardinality(K) = h.limit
      BY <1>8, <3>1 DEF Beaten
    <3> QED BY <1>8, <1>12, <3>2
  <2> QED BY <2>1, <2>2
<1>14. all = {f \in FilesBelow(query.origin) : f.size > 0}
  BY <1>1 DEF Left
<1> QED BY <1>1, <1>5, <1>9, <1>10, <1>13, <1>14

LEMMA SpecFoundInv == Spec => []FoundInv
<1>1. Init => FoundInv
  BY FoundInit
<1>2. BaseInv /\ SearchInv /\ FoundInv /\ [Next]_vars => FoundInv'
  BY FoundKept
<1> QED BY <1>1, <1>2, SpecBaseInv, SpecSearchInv, PTL DEF Spec

(* A finished search shows the largest files below its origin, however its *)
(* threads interleave, however old the floors are that they read with, and *)
(* whatever order their reports are applied in.                            *)
THEOREM HeaviestAreFound == Spec => []SearchesFindTheHeaviest
<1>1. BaseInv /\ SearchInv /\ FoundInv => SearchesFindTheHeaviest
  BY FoundMeans
<1> QED BY <1>1, SpecBaseInv, SpecSearchInv, SpecFoundInv, PTL
=============================================================================
