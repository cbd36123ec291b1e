--------------------------- MODULE BarrierProofs ---------------------------
(***************************************************************************)
(* Proofs about the hook barrier, for any number of threads and hooks, any *)
(* nesting and any failures, and any width of the recursion depth.         *)
(***************************************************************************)
EXTENDS Barrier, FiniteSetTheorems, SequenceTheorems, TLAPS

(* A vector whose contexts are strictly sorted by handle. *)
Sorted(v) == \A i, j \in DOMAIN v : i < j => v[i].id < v[j].id

(* What a TLS slot may hold. *)
Vector == {v \in Seq(Context) : Sorted(v)}

(* The depth that the vector keeps for the handle, zero if none. *)
DepthIs(v, h, n) ==
    IF v # NoVector /\ Has(v, h)
    THEN \E i \in DOMAIN v : v[i].id = h /\ v[i].recursion_depth = n
    ELSE n = 0

(* The callbacks of the hook among the frames that passed. *)
PassedIn(f, h) == Cardinality({i \in DOMAIN f : f[i].handle = h /\ f[i].verdict = "true"})

(* The inductive invariant. *)
BarrierInv ==
    /\ frames \in [Threads -> Seq(Frame)]
    /\ tls_index \in {"unset", "allocated", "freed"}
    /\ tls \in [Threads -> Vector \cup {NoVector}]
    /\ ~GetValueFails =>
        \A t \in Threads, h \in Handles : DepthIs(tls[t], h, PassedIn(frames[t], h))

-----------------------------------------------------------------------------
(* Sequences *)

LEMMA InsertAtProperties ==
    ASSUME NEW S, NEW s \in Seq(S), NEW i \in 1 .. Len(s) + 1, NEW e \in S
    PROVE  /\ InsertAt(s, i, e) \in Seq(S)
           /\ Len(InsertAt(s, i, e)) = Len(s) + 1
           /\ \A j \in 1 .. Len(s) + 1 :
                InsertAt(s, i, e)[j] = IF j < i THEN s[j] ELSE IF j = i THEN e ELSE s[j - 1]
<1> DEFINE a == SubSeq(s, 1, i - 1)
           b == SubSeq(s, i, Len(s))
           c == a \o <<e>>
<1>1. Len(s) \in Nat
  BY LenProperties
<1>2. /\ a \in Seq(S) /\ Len(a) = i - 1
      /\ \A j \in 1 .. i - 1 : a[j] = s[j]
  BY <1>1, SubSeqProperties
<1>3. /\ b \in Seq(S) /\ Len(b) = Len(s) - i + 1
      /\ \A j \in 1 .. Len(s) - i + 1 : b[j] = s[i + j - 1]
  BY <1>1, SubSeqProperties
<1>4. /\ <<e>> \in Seq(S) /\ Len(<<e>>) = 1 /\ <<e>>[1] = e
  OBVIOUS
<1>5. /\ c \in Seq(S) /\ Len(c) = i
      /\ \A j \in 1 .. i : c[j] = IF j < i THEN s[j] ELSE e
  <2> HIDE DEF a
  <2>1. /\ a \o <<e>> \in Seq(S) /\ Len(a \o <<e>>) = Len(a) + 1
        /\ \A j \in 1 .. Len(a) + 1 :
             (a \o <<e>>)[j] = IF j <= Len(a) THEN a[j] ELSE <<e>>[j - Len(a)]
    BY <1>2, <1>4, ConcatProperties
  <2> QED
    BY <2>1, <1>1, <1>2, <1>4
<1>6. /\ c \o b \in Seq(S) /\ Len(c \o b) = Len(s) + 1
      /\ \A j \in 1 .. Len(s) + 1 :
            (c \o b)[j] = IF j < i THEN s[j] ELSE IF j = i THEN e ELSE s[j - 1]
  <2> HIDE DEF b, c
  <2>1. /\ c \o b \in Seq(S) /\ Len(c \o b) = Len(c) + Len(b)
        /\ \A j \in 1 .. Len(c) + Len(b) :
             (c \o b)[j] = IF j <= Len(c) THEN c[j] ELSE b[j - Len(c)]
    BY <1>3, <1>5, ConcatProperties
  <2> QED
    BY <2>1, <1>1, <1>3, <1>5
<1> QED
  BY <1>6 DEF InsertAt

LEMMA RemoveAtProperties ==
    ASSUME NEW S, NEW s \in Seq(S), NEW i \in 1 .. Len(s)
    PROVE  /\ RemoveAt(s, i) \in Seq(S)
           /\ Len(RemoveAt(s, i)) = Len(s) - 1
           /\ \A j \in 1 .. Len(s) - 1 :
                RemoveAt(s, i)[j] = IF j < i THEN s[j] ELSE s[j + 1]
<1> DEFINE a == SubSeq(s, 1, i - 1)
           b == SubSeq(s, i + 1, Len(s))
<1>1. Len(s) \in Nat
  BY LenProperties
<1>2. /\ a \in Seq(S) /\ Len(a) = i - 1
      /\ \A j \in 1 .. i - 1 : a[j] = s[j]
  BY <1>1, SubSeqProperties
<1>3. /\ b \in Seq(S) /\ Len(b) = Len(s) - i
      /\ \A j \in 1 .. Len(s) - i : b[j] = s[i + j]
  BY <1>1, SubSeqProperties
<1>4. /\ a \o b \in Seq(S) /\ Len(a \o b) = Len(s) - 1
      /\ \A j \in 1 .. Len(s) - 1 : (a \o b)[j] = IF j < i THEN s[j] ELSE s[j + 1]
  <2> HIDE DEF a, b
  <2>1. /\ a \o b \in Seq(S) /\ Len(a \o b) = Len(a) + Len(b)
        /\ \A j \in 1 .. Len(a) + Len(b) :
             (a \o b)[j] = IF j <= Len(a) THEN a[j] ELSE b[j - Len(a)]
    BY <1>2, <1>3, ConcatProperties
  <2> QED
    BY <2>1, <1>1, <1>2, <1>3
<1> QED
  BY <1>4 DEF RemoveAt

-----------------------------------------------------------------------------
(* Vectors of contexts *)

LEMMA VectorElements ==
    ASSUME NEW v \in Seq(Context)
    PROVE  /\ Len(v) \in Nat /\ DOMAIN v = 1 .. Len(v)
           /\ \A i \in DOMAIN v : /\ v[i] \in Context
                                  /\ v[i].id \in Handles /\ v[i].id \in Nat
                                  /\ v[i].recursion_depth \in Depths
                                  /\ v[i].recursion_depth \in Nat
<1>1. Handles \subseteq Nat /\ Depths \subseteq Nat
  BY BarrierAssumption DEF Depths
<1>2. /\ Len(v) \in Nat /\ DOMAIN v = 1 .. Len(v)
      /\ \A i \in DOMAIN v : v[i] \in Context
  BY LenProperties
<1> QED
  BY <1>1, <1>2 DEF Context

(* The search of TryEnterEx and Leave splits the vector at the handle. *)
LEMMA FoundIndexSplits ==
    ASSUME NEW v \in Vector, NEW h \in Handles
    PROVE  /\ FoundIndex(v, h) \in 1 .. Len(v) + 1
           /\ \A i \in DOMAIN v : v[i].id < h <=> i < FoundIndex(v, h)
<1> DEFINE S == {i \in DOMAIN v : v[i].id < h}
           n == Cardinality(S)
<1>1. /\ v \in Seq(Context) /\ Len(v) \in Nat /\ DOMAIN v = 1 .. Len(v)
      /\ \A i \in DOMAIN v : v[i].id \in Nat
      /\ h \in Nat
  BY VectorElements, BarrierAssumption DEF Vector
<1>2. \A k \in Nat : IsFiniteSet(1 .. k) /\ Cardinality(1 .. k) = k
  BY FS_Interval
<1>3. IsFiniteSet(S) /\ n \in Nat /\ n <= Len(v)
  BY <1>1, <1>2, FS_Subset, FS_CardinalityType
<1>4. ASSUME NEW i \in S PROVE i <= n
  <2>1. 1 .. i \subseteq S
    BY <1>1 DEF Vector, Sorted
  <2>2. Cardinality(1 .. i) = i
    BY <1>1, FS_Interval
  <2> QED
    BY <2>1, <2>2, <1>3, FS_Subset
<1>5. S \subseteq 1 .. n
  BY <1>1, <1>3, <1>4
<1>6. S = 1 .. n
  <2>1. IsFiniteSet(1 .. n) /\ Cardinality(1 .. n) = n
    BY <1>3, FS_Interval
  <2> HIDE DEF S
  <2> QED
    BY <2>1, <1>5, FS_Subset
<1>7. FoundIndex(v, h) = n + 1
  BY <1>3 DEF FoundIndex
<1> HIDE DEF n
<1> QED
  BY <1>1, <1>3, <1>6, <1>7

LEMMA FoundIndexFinds ==
    ASSUME NEW v \in Vector, NEW h \in Handles, Has(v, h)
    PROVE  /\ FoundIndex(v, h) \in DOMAIN v
           /\ v[FoundIndex(v, h)].id = h
           /\ \A i \in DOMAIN v : v[i].id = h => i = FoundIndex(v, h)
<1> DEFINE k == FoundIndex(v, h)
<1>1. /\ v \in Seq(Context) /\ Len(v) \in Nat /\ DOMAIN v = 1 .. Len(v)
      /\ \A i \in DOMAIN v : v[i].id \in Nat
      /\ h \in Nat
  BY VectorElements, BarrierAssumption DEF Vector
<1>2. /\ k \in 1 .. Len(v) + 1
      /\ \A i \in DOMAIN v : v[i].id < h <=> i < k
  BY FoundIndexSplits
<1>3. \A i, j \in DOMAIN v : i < j => v[i].id < v[j].id
  BY DEF Vector, Sorted
<1> HIDE DEF k
<1>4. ASSUME NEW i \in DOMAIN v, v[i].id = h PROVE i = k
  <2>1. ~(i < k)
    BY <1>1, <1>2, <1>4
  <2>2. CASE i > k
    <3>1. k \in DOMAIN v
      BY <1>1, <1>2, <2>2
    <3>2. v[k].id < h
      BY <1>3, <1>4, <2>2, <3>1
    <3> QED
      BY <1>1, <1>2, <3>1, <3>2
  <2> QED
    BY <1>1, <1>2, <2>1, <2>2
<1> QED
  BY <1>4 DEF Has, k

LEMMA NoVectorIsNone == NoVector \notin Vector
BY BarrierAssumption DEF Vector, Context, Depths

(* A context of the hook is changed. *)
LEMMA ChangedContext ==
    ASSUME NEW v \in Vector, NEW i \in DOMAIN v, NEW e \in Context, e.id = v[i].id
    PROVE  /\ [v EXCEPT ![i] = e] \in Vector
           /\ \A g \in Handles, n \in Nat :
                DepthIs(v, g, n) =>
                    DepthIs([v EXCEPT ![i] = e], g, IF g = e.id THEN e.recursion_depth ELSE n)
<1> DEFINE w == [v EXCEPT ![i] = e]
<1>1. /\ v \in Seq(Context) /\ Sorted(v) /\ Len(v) \in Nat /\ DOMAIN v = 1 .. Len(v)
      /\ \A j \in DOMAIN v : v[j].id \in Nat
  BY VectorElements DEF Vector
<1>2. /\ w \in Seq(Context) /\ DOMAIN w = DOMAIN v
      /\ \A j \in DOMAIN v : w[j] = IF j = i THEN e ELSE v[j]
  BY <1>1, ExceptSeq
<1> HIDE DEF w
<1>3. \A j \in DOMAIN v : w[j].id = v[j].id
  BY <1>2
<1>4. w \in Vector
  BY <1>1, <1>2, <1>3 DEF Vector, Sorted
<1>5. v # NoVector /\ w # NoVector
  BY <1>4, NoVectorIsNone
<1>6. ASSUME NEW g \in Handles, NEW n \in Nat, DepthIs(v, g, n)
      PROVE  DepthIs(w, g, IF g = e.id THEN e.recursion_depth ELSE n)
  <2>1. Has(w, g) <=> Has(v, g)
    BY <1>2, <1>3 DEF Has
  <2>2. CASE g = e.id
    <3>1. Has(w, g) /\ w[i].id = g /\ w[i].recursion_depth = e.recursion_depth
      BY <1>2, <2>2 DEF Has
    <3> QED
      BY <1>2, <1>5, <2>2, <3>1 DEF DepthIs
  <2>3. CASE g # e.id
    <3>1. \A j \in DOMAIN v : v[j].id = g => w[j] = v[j]
      BY <1>2, <2>3
    <3> QED
      BY <1>2, <1>5, <1>6, <2>1, <2>3, <3>1 DEF DepthIs
  <2> QED
    BY <2>2, <2>3
<1> QED
  BY <1>4, <1>6 DEF w

(* A context is inserted for a hook that has none. *)
LEMMA InsertedContext ==
    ASSUME NEW v \in Vector, NEW h \in Handles, ~Has(v, h), NEW e \in Context, e.id = h
    PROVE  /\ InsertAt(v, FoundIndex(v, h), e) \in Vector
           /\ \A g \in Handles, n \in Nat :
                DepthIs(v, g, n) =>
                    DepthIs(InsertAt(v, FoundIndex(v, h), e), g,
                            IF g = h THEN e.recursion_depth ELSE n)
<1> DEFINE k == FoundIndex(v, h)
           w == InsertAt(v, k, e)
<1>1. /\ v \in Seq(Context) /\ Sorted(v) /\ Len(v) \in Nat /\ DOMAIN v = 1 .. Len(v)
      /\ \A j \in DOMAIN v : v[j].id \in Nat
      /\ h \in Nat
  BY VectorElements, BarrierAssumption DEF Vector
<1>2. /\ k \in 1 .. Len(v) + 1
      /\ \A j \in DOMAIN v : v[j].id < h <=> j < k
  BY FoundIndexSplits
<1> HIDE DEF k
<1>3. /\ w \in Seq(Context) /\ Len(w) = Len(v) + 1
      /\ \A j \in 1 .. Len(v) + 1 :
            w[j] = IF j < k THEN v[j] ELSE IF j = k THEN e ELSE v[j - 1]
  BY <1>1, <1>2, InsertAtProperties, SMTT(20)
<1>4. DOMAIN w = 1 .. Len(v) + 1
  BY <1>3, LenProperties
<1> HIDE DEF w
<1>5. \A j \in DOMAIN v : v[j].id # h
  BY DEF Has
<1>6. Sorted(w)
  <2> SUFFICES ASSUME NEW i \in DOMAIN w, NEW j \in DOMAIN w, i < j
               PROVE  w[i].id < w[j].id
    BY DEF Sorted
  <2>1. CASE j < k
    BY <1>1, <1>2, <1>3, <1>4, <2>1 DEF Sorted
  <2>2. CASE j = k
    BY <1>1, <1>2, <1>3, <1>4, <2>2
  <2>3. CASE j > k /\ i < k
    <3>1. /\ i \in DOMAIN v /\ j - 1 \in DOMAIN v /\ (i < j - 1 \/ i = j - 1)
          /\ w[i] = v[i] /\ w[j] = v[j - 1]
      BY <1>1, <1>2, <1>3, <1>4, <2>3
    <3>2. v[i].id < h /\ ~(v[j - 1].id < h)
      BY <1>1, <1>2, <1>3, <1>4, <2>3
    <3> QED
      BY <1>1, <1>2, <1>4, <2>3, <3>1, <3>2
  <2>4. CASE j > k /\ i = k
    <3>1. j - 1 \in DOMAIN v /\ w[i] = e /\ w[j] = v[j - 1] /\ ~(j - 1 < k)
      BY <1>1, <1>2, <1>3, <1>4, <2>4
    <3> QED
      BY <1>1, <1>2, <1>5, <3>1
  <2>5. CASE j > k /\ i > k
    <3>1. /\ i - 1 \in DOMAIN v /\ j - 1 \in DOMAIN v /\ i - 1 < j - 1
          /\ w[i] = v[i - 1] /\ w[j] = v[j - 1]
      BY <1>1, <1>2, <1>3, <1>4, <2>5
    <3> QED
      BY <1>1, <3>1 DEF Sorted
  <2> QED
    BY <1>2, <1>4, <2>1, <2>2, <2>3, <2>4, <2>5
<1>7. w \in Vector
  BY <1>3, <1>6 DEF Vector
<1>8. v # NoVector /\ w # NoVector
  BY <1>7, NoVectorIsNone
<1>9. k \in DOMAIN w /\ w[k] = e
  BY <1>1, <1>2, <1>3, <1>4
<1>10. \A j \in DOMAIN v : \E i \in DOMAIN w : w[i] = v[j]
  <2> TAKE j \in DOMAIN v
  <2>1. CASE j < k
    BY <1>1, <1>2, <1>3, <1>4, <2>1, SMTT(20)
  <2>2. CASE ~(j < k)
    <3>1. j + 1 \in DOMAIN w /\ w[j + 1] = v[j]
      BY <1>1, <1>2, <1>3, <1>4, <2>2
    <3> QED
      BY <3>1
  <2> QED
    BY <2>1, <2>2
<1>11. \A i \in DOMAIN w : w[i].id # h => \E j \in DOMAIN v : w[i] = v[j]
  <2> SUFFICES ASSUME NEW i \in DOMAIN w, w[i].id # h
               PROVE  \E j \in DOMAIN v : w[i] = v[j]
    OBVIOUS
  <2>1. CASE i < k
    BY <1>1, <1>2, <1>3, <1>4, <2>1
  <2>2. CASE i > k
    <3>1. i - 1 \in DOMAIN v /\ w[i] = v[i - 1]
      BY <1>1, <1>2, <1>3, <1>4, <2>2
    <3> QED
      BY <3>1
  <2> QED
    BY <1>2, <1>4, <1>9, <2>1, <2>2
<1>12. ASSUME NEW g \in Handles, NEW n \in Nat, DepthIs(v, g, n)
       PROVE  DepthIs(w, g, IF g = h THEN e.recursion_depth ELSE n)
  <2>1. CASE g = h
    BY <1>8, <1>9, <2>1 DEF DepthIs, Has
  <2>2. CASE g # h
    <3>1. Has(w, g) <=> Has(v, g)
      BY <1>10, <1>11, <2>2 DEF Has
    <3> QED
      BY <1>8, <1>10, <1>12, <2>2, <3>1 DEF DepthIs
  <2> QED
    BY <2>1, <2>2
<1> QED
  BY <1>7, <1>12 DEF w, k

(* A context is deleted. *)
LEMMA DeletedContext ==
    ASSUME NEW v \in Vector, NEW i \in DOMAIN v
    PROVE  /\ RemoveAt(v, i) \in Vector
           /\ \A g \in Handles, n \in Nat :
                DepthIs(v, g, n) =>
                    DepthIs(RemoveAt(v, i), g, IF g = v[i].id THEN 0 ELSE n)
<1> DEFINE w == RemoveAt(v, i)
<1>1. /\ v \in Seq(Context) /\ Sorted(v) /\ Len(v) \in Nat /\ DOMAIN v = 1 .. Len(v)
      /\ \A j \in DOMAIN v : v[j].id \in Nat
  BY VectorElements DEF Vector
<1>2. /\ w \in Seq(Context) /\ Len(w) = Len(v) - 1
      /\ \A j \in 1 .. Len(v) - 1 : w[j] = IF j < i THEN v[j] ELSE v[j + 1]
  BY <1>1, RemoveAtProperties
<1>3. DOMAIN w = 1 .. Len(v) - 1
  BY <1>2, LenProperties
<1> HIDE DEF w
<1>4. Sorted(w)
  <2> SUFFICES ASSUME NEW a \in DOMAIN w, NEW b \in DOMAIN w, a < b
               PROVE  w[a].id < w[b].id
    BY DEF Sorted
  <2> DEFINE c == IF a < i THEN a ELSE a + 1
             d == IF b < i THEN b ELSE b + 1
  <2>1. c \in DOMAIN v /\ d \in DOMAIN v /\ c < d
    BY <1>1, <1>3
  <2>2. w[a] = v[c] /\ w[b] = v[d]
    BY <1>2, <1>3
  <2> HIDE DEF c, d
  <2> QED
    BY <1>1, <2>1, <2>2 DEF Sorted
<1>5. w \in Vector
  BY <1>2, <1>4 DEF Vector
<1>6. v # NoVector /\ w # NoVector
  BY <1>5, NoVectorIsNone
<1>7. \A j \in DOMAIN w : \E a \in DOMAIN v : w[j] = v[a] /\ a # i
  <2> TAKE j \in DOMAIN w
  <2>1. CASE j < i
    BY <1>1, <1>2, <1>3, <2>1
  <2>2. CASE ~(j < i)
    <3>1. j + 1 \in DOMAIN v /\ w[j] = v[j + 1] /\ j + 1 # i
      BY <1>1, <1>2, <1>3, <2>2
    <3> QED
      BY <3>1
  <2> QED
    BY <2>1, <2>2
<1>8. \A a \in DOMAIN v : a # i => \E j \in DOMAIN w : w[j] = v[a]
  <2> SUFFICES ASSUME NEW a \in DOMAIN v, a # i
               PROVE  \E j \in DOMAIN w : w[j] = v[a]
    OBVIOUS
  <2>1. CASE a < i
    BY <1>1, <1>2, <1>3, <2>1
  <2>2. CASE a > i
    <3>1. a - 1 \in DOMAIN w /\ w[a - 1] = v[a]
      BY <1>1, <1>2, <1>3, <2>2
    <3> QED
      BY <3>1
  <2> QED
    BY <1>1, <2>1, <2>2
<1>9. \A a \in DOMAIN v : v[a].id = v[i].id => a = i
  <2> SUFFICES ASSUME NEW a \in DOMAIN v, v[a].id = v[i].id, a # i
               PROVE  FALSE
    OBVIOUS
  <2>1. a < i \/ i < a
    BY <1>1
  <2> QED
    BY <1>1, <2>1 DEF Sorted
<1>10. ASSUME NEW g \in Handles, NEW n \in Nat, DepthIs(v, g, n)
       PROVE  DepthIs(w, g, IF g = v[i].id THEN 0 ELSE n)
  <2>1. CASE g = v[i].id
    <3>1. ~Has(w, g)
      BY <1>7, <1>9, <2>1 DEF Has
    <3> QED
      BY <2>1, <3>1 DEF DepthIs
  <2>2. CASE g # v[i].id
    <3>1. Has(w, g) <=> Has(v, g)
      BY <1>7, <1>8, <2>2 DEF Has
    <3> QED
      BY <1>6, <1>8, <1>10, <2>2, <3>1 DEF DepthIs
  <2> QED
    BY <2>1, <2>2
<1> QED
  BY <1>5, <1>10 DEF w

(* The context the search finds is the one that DepthIs speaks of. *)
LEMMA FoundDepth ==
    ASSUME NEW v \in Vector, NEW h \in Handles, Has(v, h), NEW n \in Nat, DepthIs(v, h, n)
    PROVE  v[FoundIndex(v, h)].recursion_depth = n
<1>1. v # NoVector
  BY NoVectorIsNone
<1>2. PICK i \in DOMAIN v : v[i].id = h /\ v[i].recursion_depth = n
  BY <1>1 DEF DepthIs
<1> QED
  BY <1>2, FoundIndexFinds

(* A context with another depth. *)
LEMMA OtherDepth ==
    ASSUME NEW c \in Context, NEW x \in Depths
    PROVE  /\ [c EXCEPT !.recursion_depth = x] \in Context
           /\ [c EXCEPT !.recursion_depth = x].id = c.id
           /\ [c EXCEPT !.recursion_depth = x].recursion_depth = x
BY DEF Context

LEMMA EmptyVector == <<>> \in Vector /\ \A h : ~Has(<<>>, h)
<1>1. <<>> \in Seq(Context) /\ DOMAIN <<>> = {}
  BY EmptySeq
<1> QED
  BY <1>1 DEF Vector, Sorted, Has

-----------------------------------------------------------------------------
(* Effects of the calls *)

(* TryEnterEx lets a callback pass if and only if the depth is within the  *)
(* limit, then raises the depth of the hook, and no other.                 *)
LEMMA TryEnterEffect ==
    ASSUME NEW t \in Threads, NEW h \in Handles, NEW max \in MaxDepths,
           tls[t] \in Vector \cup {NoVector},
           NEW r \in TryEnterEx(t, h, max)
    PROVE  /\ r.status \in Verdicts /\ r.vector \in Vector \cup {NoVector}
           /\ GetValueFails => r.status = "error"
           /\ \A n \in Nat :
                DepthIs(tls[t], h, n) /\ r.status # "error" => (r.status = "true" <=> n <= max)
           /\ \A g \in Handles, n \in Nat :
                DepthIs(tls[t], g, n) =>
                    DepthIs(r.vector, g, IF r.status = "true" /\ g = h THEN n + 1 ELSE n)
<1> DEFINE v == OwnVector(t)
           i == FoundIndex(v, h)
<1>1. v \in Vector /\ v # NoVector /\ v \in Seq(Context)
  BY EmptyVector, NoVectorIsNone DEF OwnVector, Vector
<1>2. \A g, n : DepthIs(v, g, n) <=> DepthIs(tls[t], g, n)
  BY EmptyVector DEF OwnVector, DepthIs
<1>3. max \in Nat /\ max <= U32Size - 2 /\ U32Size \in Nat
  BY BarrierAssumption
<1>4. /\ \A j \in DOMAIN v : /\ v[j] \in Context /\ v[j].id \in Handles
                             /\ v[j].recursion_depth \in Nat
  BY <1>1, VectorElements
<1>5. CASE r.status = "error" /\ r.vector \in {tls[t], v}
  BY <1>1, <1>2, <1>5 DEF Verdicts
<1>6. CASE /\ ~GetValueFails /\ Has(v, h) /\ Exceeds(v[i], max)
           /\ r = [status |-> "false", vector |-> v]
  <2>1. r.status = "false" /\ r.vector = v
    BY <1>6
  <2>2. ASSUME NEW n \in Nat, DepthIs(tls[t], h, n) PROVE ~(n <= max)
    <3>1. v[i].recursion_depth = n
      BY <1>1, <1>2, <1>6, <2>2, FoundDepth
    <3> QED
      BY <1>3, <1>6, <3>1 DEF Exceeds
  <2> QED
    BY <1>1, <1>2, <1>6, <2>1, <2>2 DEF Verdicts
<1>7. CASE /\ ~GetValueFails /\ Has(v, h) /\ ~Exceeds(v[i], max)
           /\ r = [status |-> "true", vector |-> [v EXCEPT ![i] = EnteredAgain(@)]]
  <2> DEFINE e == EnteredAgain(v[i])
             d == v[i].recursion_depth
  <2>1. i \in DOMAIN v /\ v[i].id = h
    BY <1>1, <1>7, FoundIndexFinds
  <2>2. d \in Nat /\ v[i] \in Context /\ d <= max
    BY <1>3, <1>4, <1>7, <2>1 DEF Exceeds
  <2>3. (d + 1) % U32Size = d + 1 /\ d + 1 \in Depths
    BY <1>3, <2>2 DEF Depths
  <2>4. e \in Context /\ e.id = h /\ e.recursion_depth = d + 1
    BY <2>1, <2>2, <2>3 DEF EnteredAgain, Context
  <2>5. r.status = "true" /\ r.vector = [v EXCEPT ![i] = e]
    BY <1>7
  <2> HIDE DEF e
  <2>6. /\ r.vector \in Vector
        /\ \A g \in Handles, n \in Nat :
              DepthIs(v, g, n) => DepthIs(r.vector, g, IF g = h THEN d + 1 ELSE n)
    <3> HIDE DEF d, v, i
    <3>1. e.id = v[i].id
      BY <2>1, <2>4
    <3>2. v \in Vector /\ i \in DOMAIN v /\ e \in Context
      BY <1>1, <2>1, <2>4
    <3>3. /\ [v EXCEPT ![i] = e] \in Vector
          /\ \A g \in Handles, n \in Nat :
                DepthIs(v, g, n) =>
                    DepthIs([v EXCEPT ![i] = e], g, IF g = e.id THEN e.recursion_depth ELSE n)
      BY <3>1, <3>2, ChangedContext
    <3> QED
      BY <2>4, <2>5, <3>3
  <2>7. ASSUME NEW n \in Nat, DepthIs(v, h, n) PROVE n = d
    BY <1>1, <1>7, <2>7, FoundDepth
  <2> HIDE DEF d, v, i
  <2>8. \A n \in Nat : DepthIs(tls[t], h, n) => n <= max
    BY <1>2, <2>2, <2>7
  <2>9. ASSUME NEW g \in Handles, NEW n \in Nat, DepthIs(tls[t], g, n)
        PROVE  DepthIs(r.vector, g, IF r.status = "true" /\ g = h THEN n + 1 ELSE n)
    <3>1. DepthIs(v, g, n)
      BY <1>2, <2>9
    <3>2. CASE g = h
      <4>1. n = d
        BY <2>7, <3>1, <3>2
      <4> QED
        BY <2>5, <2>6, <3>1, <3>2, <4>1
    <3>3. CASE g # h
      BY <2>6, <3>1, <3>3
    <3> QED
      BY <3>2, <3>3
  <2> QED
    BY <1>7, <2>5, <2>6, <2>8, <2>9 DEF Verdicts
<1>8. CASE /\ ~GetValueFails /\ ~Has(v, h)
           /\ r = [status |-> "true",
                   vector |-> InsertAt(v, i, [id |-> h, recursion_depth |-> 1])]
  <2> DEFINE e == [id |-> h, recursion_depth |-> 1]
  <2>1. e \in Context /\ e.id = h /\ e.recursion_depth = 1
    BY <1>3 DEF Context, Depths
  <2>2. r.status = "true" /\ r.vector = InsertAt(v, i, e)
    BY <1>8
  <2> HIDE DEF e
  <2>3. /\ r.vector \in Vector
        /\ \A g \in Handles, n \in Nat :
              DepthIs(v, g, n) => DepthIs(r.vector, g, IF g = h THEN 1 ELSE n)
    BY <1>1, <1>8, <2>1, <2>2, InsertedContext
  <2>4. \A n : DepthIs(v, h, n) => n = 0
    BY <1>8 DEF DepthIs
  <2> QED
    BY <1>2, <1>3, <1>8, <2>2, <2>3, <2>4 DEF Verdicts
<1> QED
  BY <1>5, <1>6, <1>7, <1>8 DEF TryEnterEx, OwnVector

(* Leave lowers the depth of the hook, and no other, and finds something   *)
(* to leave if and only if there is a depth.                               *)
LEMMA LeaveEffect ==
    ASSUME NEW t \in Threads, NEW h \in Handles,
           tls[t] \in Vector \cup {NoVector},
           NEW r \in Leave(t, h)
    PROVE  /\ r.vector \in Vector \cup {NoVector}
           /\ GetValueFails => r.status = "error" /\ r.vector = tls[t]
           /\ DepthIs(tls[t], h, 0) => r.vector = tls[t]
           /\ ~GetValueFails =>
                \A n \in Nat \ {0} : DepthIs(tls[t], h, n) =>
                    /\ r.status # "invalid_operation"
                    /\ \A g \in Handles, m \in Nat :
                        DepthIs(tls[t], g, m) => DepthIs(r.vector, g, IF g = h THEN m - 1 ELSE m)
<1> DEFINE v == tls[t]
           i == FoundIndex(v, h)
           d == v[i].recursion_depth
           lowered == [v EXCEPT ![i].recursion_depth = @ - 1]
<1>1. CASE GetValueFails
  BY <1>1 DEF Leave
<1>2. CASE ~GetValueFails /\ NothingToLeave(v, h)
  <2>1. r.status = "invalid_operation" /\ r.vector = v
    BY <1>2 DEF Leave
  <2>2. ASSUME NEW n \in Nat \ {0}, DepthIs(v, h, n) PROVE FALSE
    <3>1. v \in Vector /\ Has(v, h)
      BY <2>2 DEF DepthIs
    <3>2. d = n
      BY <2>2, <3>1, FoundDepth
    <3>3. v # NoVector
      BY <3>1, NoVectorIsNone
    <3> QED
      BY <1>2, <2>2, <3>1, <3>2, <3>3 DEF NothingToLeave
  <2> QED
    BY <1>2, <2>1, <2>2
<1>3. CASE ~GetValueFails /\ ~NothingToLeave(v, h)
  <2>1. v \in Vector /\ v # NoVector /\ v \in Seq(Context) /\ Has(v, h) /\ d # 0
    BY <1>3 DEF NothingToLeave, Vector
  <2>2. i \in DOMAIN v /\ v[i].id = h
    BY <2>1, FoundIndexFinds
  <2>3. v[i] \in Context /\ d \in Depths /\ d \in Nat
    BY <2>1, <2>2, VectorElements
  <2> DEFINE e == [v[i] EXCEPT !.recursion_depth = @ - 1]
  <2>4. e \in Context /\ e.id = h /\ e.recursion_depth = d - 1
    <3>1. d - 1 \in Depths
      BY <2>1, <2>3, BarrierAssumption DEF Depths
    <3>2. e = [v[i] EXCEPT !.recursion_depth = d - 1]
      OBVIOUS
    <3> HIDE DEF e, d
    <3> QED
      BY <2>2, <2>3, <3>1, <3>2, OtherDepth
  <2>5. lowered = [v EXCEPT ![i] = e]
    BY <2>2
  <2>6. DOMAIN lowered = DOMAIN v /\ lowered[i] = e
    BY <2>2, <2>5
  <2> HIDE DEF e, lowered
  <2>7. /\ lowered \in Vector
        /\ \A g \in Handles, m \in Nat :
              DepthIs(v, g, m) => DepthIs(lowered, g, IF g = h THEN d - 1 ELSE m)
    BY <2>1, <2>2, <2>4, <2>5, ChangedContext
  <2>8. \A m \in Nat : DepthIs(v, h, m) => m = d
    BY <2>1, FoundDepth
  <2>9. \A g \in Handles, m \in Nat :
            DepthIs(v, g, m) => DepthIs(lowered, g, IF g = h THEN m - 1 ELSE m)
    BY <2>7, <2>8
  <2>10. ASSUME d = 1
         PROVE  /\ RemoveAt(lowered, i) \in Vector
                /\ \A g \in Handles, m \in Nat :
                      DepthIs(v, g, m) =>
                          DepthIs(RemoveAt(lowered, i), g, IF g = h THEN m - 1 ELSE m)
    <3>1. /\ RemoveAt(lowered, i) \in Vector
          /\ \A g \in Handles, m \in Nat :
                DepthIs(lowered, g, m) =>
                    DepthIs(RemoveAt(lowered, i), g, IF g = h THEN 0 ELSE m)
      BY <2>2, <2>4, <2>6, <2>7, DeletedContext
    <3>2. ASSUME NEW g \in Handles, NEW m \in Nat, DepthIs(v, g, m)
          PROVE  DepthIs(RemoveAt(lowered, i), g, IF g = h THEN m - 1 ELSE m)
      <4>1. CASE g = h
        <5>1. m = 1 /\ DepthIs(lowered, g, 0)
          BY <2>8, <2>9, <2>10, <3>2, <4>1
        <5> QED
          BY <3>1, <4>1, <5>1
      <4>2. CASE g # h
        BY <2>9, <3>1, <3>2, <4>2
      <4> QED
        BY <4>1, <4>2
    <3> QED
      BY <3>1, <3>2
  <2>11. /\ r.status \in {"true", "error"}
         /\ r.vector = lowered \/ (LeftForGood(lowered[i]) /\ r.vector = RemoveAt(lowered, i))
    BY <1>3 DEF Leave, lowered
  <2>12. LeftForGood(lowered[i]) => d = 1
    BY <2>3, <2>4, <2>6 DEF LeftForGood
  <2>13. ~DepthIs(v, h, 0)
    BY <2>1, <2>8
  <2> QED
    BY <1>3, <2>7, <2>9, <2>10, <2>11, <2>12, <2>13
<1> QED
  BY <1>1, <1>2, <1>3

-----------------------------------------------------------------------------
(* The callbacks a thread is in *)

LEMMA FrameElements ==
    ASSUME NEW f \in Seq(Frame), NEW h
    PROVE  /\ Len(f) \in Nat /\ DOMAIN f = 1 .. Len(f)
           /\ \A i \in DOMAIN f : f[i] \in Frame
           /\ IsFiniteSet({i \in DOMAIN f : f[i].handle = h /\ f[i].verdict = "true"})
           /\ PassedIn(f, h) \in Nat
<1>1. Len(f) \in Nat /\ DOMAIN f = 1 .. Len(f) /\ \A i \in DOMAIN f : f[i] \in Frame
  BY LenProperties
<1>2. \A k \in Nat : IsFiniteSet(1 .. k)
  BY FS_Interval
<1>3. IsFiniteSet({i \in DOMAIN f : f[i].handle = h /\ f[i].verdict = "true"})
  BY <1>1, <1>2, FS_Subset
<1> QED
  BY <1>1, <1>3, FS_CardinalityType DEF PassedIn

LEMMA NoFrames == <<>> \in Seq(Frame) /\ \A h : PassedIn(<<>>, h) = 0
<1>1. <<>> \in Seq(Frame) /\ DOMAIN <<>> = {}
  BY EmptySeq
<1>2. \A h : {i \in DOMAIN <<>> : <<>>[i].handle = h /\ <<>>[i].verdict = "true"} = {}
  BY <1>1
<1>3. Cardinality({}) = 0
  BY FS_EmptySet
<1> QED
  BY <1>1, <1>2, <1>3 DEF PassedIn

(* A callback that passed counts. *)
LEMMA PassedCounts ==
    ASSUME NEW f \in Seq(Frame), NEW i \in DOMAIN f, f[i].verdict = "true"
    PROVE  PassedIn(f, f[i].handle) \in Nat \ {0}
<1> DEFINE S == {j \in DOMAIN f : f[j].handle = f[i].handle /\ f[j].verdict = "true"}
<1>1. IsFiniteSet(S) /\ PassedIn(f, f[i].handle) \in Nat
  BY FrameElements
<1>2. S # {}
  OBVIOUS
<1>3. PassedIn(f, f[i].handle) = Cardinality(S)
  BY DEF PassedIn
<1> HIDE DEF S
<1>4. Cardinality(S) # 0
  BY <1>1, <1>2, FS_EmptySet
<1> QED
  BY <1>1, <1>3, <1>4

(* One more callback. *)
LEMMA OpenedFrame ==
    ASSUME NEW f \in Seq(Frame), NEW e \in Frame, NEW h
    PROVE  /\ Append(f, e) \in Seq(Frame)
           /\ PassedIn(Append(f, e), h) =
                IF e.handle = h /\ e.verdict = "true" THEN PassedIn(f, h) + 1 ELSE PassedIn(f, h)
<1> DEFINE w == Append(f, e)
           S == {i \in DOMAIN f : f[i].handle = h /\ f[i].verdict = "true"}
           R == {i \in DOMAIN w : w[i].handle = h /\ w[i].verdict = "true"}
           k == Len(f) + 1
<1>1. Len(f) \in Nat /\ DOMAIN f = 1 .. Len(f) /\ IsFiniteSet(S)
  BY FrameElements
<1>2. /\ w \in Seq(Frame) /\ DOMAIN w = 1 .. k
      /\ \A i \in 1 .. Len(f) : w[i] = f[i]
      /\ w[k] = e
  BY AppendProperties, LenProperties
<1>3. PassedIn(w, h) = Cardinality(R) /\ PassedIn(f, h) = Cardinality(S)
  BY DEF PassedIn
<1> HIDE DEF w
<1>4. k \notin S /\ DOMAIN w = DOMAIN f \cup {k}
  BY <1>1, <1>2
<1>5. R = IF e.handle = h /\ e.verdict = "true" THEN S \cup {k} ELSE S
  <2> HIDE DEF k
  <2> QED
    BY <1>1, <1>2, <1>4
<1> HIDE DEF S, R, k
<1>6. Cardinality(S \cup {k}) = Cardinality(S) + 1
  BY <1>1, <1>4, FS_AddElement
<1> QED
  BY <1>2, <1>3, <1>5, <1>6 DEF w

(* One callback less. *)
LEMMA ReturnedFrame ==
    ASSUME NEW f \in Seq(Frame), f # <<>>, NEW h
    PROVE  /\ Front(f) \in Seq(Frame) /\ Last(f) \in Frame /\ Len(f) \in DOMAIN f
           /\ PassedIn(Front(f), h) =
                IF Last(f).handle = h /\ Last(f).verdict = "true"
                THEN PassedIn(f, h) - 1 ELSE PassedIn(f, h)
<1> DEFINE w == Front(f)
           e == Last(f)
<1>1. /\ Len(f) \in Nat /\ DOMAIN f = 1 .. Len(f) /\ Len(f) # 0
      /\ \A i \in DOMAIN f : f[i] \in Frame
  BY FrameElements, EmptySeq
<1>2. /\ w \in Seq(Frame) /\ Len(w) = Len(f) - 1
      /\ \A i \in 1 .. Len(f) - 1 : w[i] = f[i]
  BY <1>1, SubSeqProperties DEF Front
<1>3. Len(f) \in DOMAIN f /\ e = f[Len(f)] /\ e \in Frame
  BY <1>1 DEF Last
<1> HIDE DEF w, e
<1>4. f = Append(w, e)
  <2>1. /\ Append(w, e) \in Seq(Frame) /\ Len(Append(w, e)) = Len(w) + 1
        /\ \A i \in 1 .. Len(w) : Append(w, e)[i] = w[i]
        /\ Append(w, e)[Len(w) + 1] = e
    BY <1>2, <1>3, AppendProperties
  <2>2. \A i \in 1 .. Len(f) : f[i] = Append(w, e)[i]
    BY <1>1, <1>2, <1>3, <2>1
  <2>3. Len(f) = Len(Append(w, e))
    BY <1>1, <1>2, <2>1
  <2> QED
    BY <2>1, <2>2, <2>3, SeqEqual
<1>5. PassedIn(f, h) =
        IF e.handle = h /\ e.verdict = "true" THEN PassedIn(w, h) + 1 ELSE PassedIn(w, h)
  BY <1>2, <1>3, <1>4, OpenedFrame
<1>6. PassedIn(w, h) \in Nat
  BY <1>2, FrameElements
<1>7. PassedIn(w, h) =
        IF e.handle = h /\ e.verdict = "true" THEN PassedIn(f, h) - 1 ELSE PassedIn(f, h)
  BY <1>5, <1>6
<1> QED
  BY <1>2, <1>3, <1>7 DEF w, e

-----------------------------------------------------------------------------
(* The invariant *)

(* A step of one thread keeps the invariant when the depths of the thread  *)
(* still count its callbacks.                                              *)
LEMMA ThreadStep ==
    ASSUME BarrierInv, NEW t \in Threads,
           NEW f \in Seq(Frame), NEW v \in Vector \cup {NoVector},
           frames' = [frames EXCEPT ![t] = f], tls' = [tls EXCEPT ![t] = v],
           UNCHANGED tls_index,
           ~GetValueFails => \A h \in Handles : DepthIs(v, h, PassedIn(f, h))
    PROVE  BarrierInv'
<1>1. frames' \in [Threads -> Seq(Frame)] /\ tls' \in [Threads -> Vector \cup {NoVector}]
  BY DEF BarrierInv
<1>2. /\ frames'[t] = f /\ tls'[t] = v
      /\ \A u \in Threads \ {t} : frames'[u] = frames[u] /\ tls'[u] = tls[u]
  BY DEF BarrierInv
<1>3. tls_index' = tls_index /\ tls_index' \in {"unset", "allocated", "freed"}
  BY DEF BarrierInv
<1>4. ASSUME ~GetValueFails', NEW u \in Threads, NEW h \in Handles
      PROVE  DepthIs(tls'[u], h, PassedIn(frames'[u], h))
  <2>1. ~GetValueFails
    BY <1>3, <1>4 DEF GetValueFails
  <2>2. CASE u = t
    BY <1>2, <2>1, <2>2
  <2>3. CASE u # t
    BY <1>2, <2>1, <2>3 DEF BarrierInv
  <2> QED
    BY <2>2, <2>3
<1> QED
  BY <1>1, <1>3, <1>4 DEF BarrierInv

LEMMA BarrierInit == Init => BarrierInv
<1> SUFFICES ASSUME Init PROVE BarrierInv
  OBVIOUS
<1>1. frames = [t \in Threads |-> <<>>] /\ tls_index = "unset" /\ tls = [t \in Threads |-> NoVector]
  BY DEF Init, HBInit
<1>2. frames \in [Threads -> Seq(Frame)]
  BY <1>1, NoFrames
<1>3. \A t \in Threads, h \in Handles : DepthIs(tls[t], h, PassedIn(frames[t], h))
  BY <1>1, NoFrames DEF DepthIs
<1> QED
  BY <1>1, <1>2, <1>3 DEF BarrierInv

LEMMA EnterKeeps ==
    ASSUME BarrierInv, NEW t \in Threads, NEW h \in Handles, NEW max \in MaxDepths,
           EnterCallback(t, h, max)
    PROVE  BarrierInv'
<1>1. PICK r \in TryEnterEx(t, h, max) :
        /\ Open(t, h, r.status)
        /\ tls' = [tls EXCEPT ![t] = r.vector]
  BY DEF EnterCallback
<1>2. frames[t] \in Seq(Frame) /\ tls[t] \in Vector \cup {NoVector} /\ UNCHANGED tls_index
  BY DEF BarrierInv, EnterCallback
<1>3. /\ r.status \in Verdicts /\ r.vector \in Vector \cup {NoVector}
      /\ \A g \in Handles, n \in Nat :
            DepthIs(tls[t], g, n) =>
                DepthIs(r.vector, g, IF r.status = "true" /\ g = h THEN n + 1 ELSE n)
  BY <1>2, TryEnterEffect
<1> DEFINE e == [handle |-> h, verdict |-> r.status]
           f == Append(frames[t], e)
<1>4. e \in Frame /\ e.handle = h /\ e.verdict = r.status
  BY <1>3 DEF Frame
<1>5. frames' = [frames EXCEPT ![t] = f]
  BY <1>1 DEF Open
<1> HIDE DEF e
<1>6. f \in Seq(Frame)
  BY <1>2, <1>4, OpenedFrame
<1>7. ASSUME ~GetValueFails, NEW g \in Handles PROVE DepthIs(r.vector, g, PassedIn(f, g))
  <2>1. PassedIn(frames[t], g) \in Nat
    BY <1>2, FrameElements
  <2>2. DepthIs(tls[t], g, PassedIn(frames[t], g))
    BY <1>7 DEF BarrierInv
  <2>3. PassedIn(f, g) = IF h = g /\ r.status = "true"
                         THEN PassedIn(frames[t], g) + 1 ELSE PassedIn(frames[t], g)
    BY <1>2, <1>4, OpenedFrame
  <2> HIDE DEF f
  <2>4. CASE h = g /\ r.status = "true"
    BY <1>3, <2>1, <2>2, <2>3, <2>4
  <2>5. CASE ~(h = g /\ r.status = "true")
    BY <1>3, <2>1, <2>2, <2>3, <2>5
  <2> QED
    BY <2>4, <2>5
<1> HIDE DEF f
<1> QED
  BY <1>1, <1>2, <1>3, <1>5, <1>6, <1>7, ThreadStep

LEMMA ReturnPassedKeeps ==
    ASSUME BarrierInv, NEW t \in Threads, ReturnPassed(t)
    PROVE  BarrierInv'
<1> DEFINE h == Last(frames[t]).handle
           f == Front(frames[t])
<1>1. PICK r \in Leave(t, h) : tls' = [tls EXCEPT ![t] = r.vector]
  BY DEF ReturnPassed
<1>2. frames[t] \in Seq(Frame) /\ tls[t] \in Vector \cup {NoVector}
  BY DEF BarrierInv
<1>3. /\ frames[t] # <<>> /\ Last(frames[t]).verdict = "true"
      /\ frames' = [frames EXCEPT ![t] = f] /\ UNCHANGED tls_index
  BY DEF ReturnPassed
<1>4. /\ f \in Seq(Frame) /\ Last(frames[t]) \in Frame
      /\ Len(frames[t]) \in DOMAIN frames[t]
      /\ \A g : PassedIn(f, g) =
                    IF h = g THEN PassedIn(frames[t], g) - 1 ELSE PassedIn(frames[t], g)
  BY <1>2, <1>3, ReturnedFrame
<1>5. h \in Handles
  BY <1>4 DEF Frame
<1>6. PassedIn(frames[t], h) \in Nat \ {0}
  BY <1>2, <1>3, <1>4, PassedCounts DEF Last
<1> HIDE DEF h, f
<1>7. /\ r.vector \in Vector \cup {NoVector}
      /\ ~GetValueFails =>
            \A n \in Nat \ {0} : DepthIs(tls[t], h, n) =>
                \A g \in Handles, m \in Nat :
                    DepthIs(tls[t], g, m) => DepthIs(r.vector, g, IF g = h THEN m - 1 ELSE m)
  BY <1>2, <1>5, LeaveEffect
<1>8. ASSUME ~GetValueFails, NEW g \in Handles PROVE DepthIs(r.vector, g, PassedIn(f, g))
  <2>1. PassedIn(frames[t], g) \in Nat
    BY <1>2, FrameElements
  <2>2. DepthIs(tls[t], g, PassedIn(frames[t], g)) /\ DepthIs(tls[t], h, PassedIn(frames[t], h))
    BY <1>5, <1>8 DEF BarrierInv
  <2>3. DepthIs(r.vector, g, IF g = h THEN PassedIn(frames[t], g) - 1 ELSE PassedIn(frames[t], g))
    BY <1>6, <1>7, <1>8, <2>1, <2>2
  <2> QED
    BY <1>4, <2>3
<1> QED
  BY <1>1, <1>3, <1>4, <1>7, <1>8, ThreadStep

(* A stray call of Leave finds a depth of zero and changes nothing. *)
LEMMA StrayLeaveKeeps ==
    ASSUME BarrierInv, NEW t \in Threads, NEW h \in Handles, StrayLeave(t, h)
    PROVE  UNCHANGED vars
<1>1. PICK r \in Leave(t, h) : tls' = [tls EXCEPT ![t] = r.vector]
  BY DEF StrayLeave
<1>2. /\ tls[t] \in Vector \cup {NoVector}
      /\ tls \in [Threads -> Vector \cup {NoVector}]
  BY DEF BarrierInv
<1>3. PassedIn(frames[t], h) = 0
  BY DEF StrayLeave, Passed, PassedIn
<1>4. GetValueFails \/ DepthIs(tls[t], h, 0)
  BY <1>3 DEF BarrierInv
<1>5. r.vector = tls[t]
  BY <1>2, <1>4, LeaveEffect
<1>6. tls' = tls
  BY <1>1, <1>2, <1>5
<1> QED
  BY <1>6 DEF StrayLeave, vars

LEMMA BarrierStep == BarrierInv /\ [Next]_vars => BarrierInv'
<1> SUFFICES ASSUME BarrierInv, [Next]_vars PROVE BarrierInv'
  OBVIOUS
<1>1. CASE SystemInitialize
  <2>1. /\ tls_index' \in {"unset", "allocated", "freed"}
        /\ ~GetValueFails /\ frames' = frames /\ tls' = tls
    BY <1>1 DEF SystemInitialize, GetValueFails
  <2> QED
    BY <2>1 DEF BarrierInv
<1>2. CASE SystemShutdown
  <2>1. /\ tls_index' \in {"unset", "allocated", "freed"}
        /\ GetValueFails' /\ frames' = frames /\ tls' = tls
    BY <1>2 DEF SystemShutdown, GetValueFails
  <2> QED
    BY <2>1 DEF BarrierInv
<1>3. ASSUME NEW t \in Threads, NEW h \in Handles, NEW max \in MaxDepths,
             EnterCallback(t, h, max)
      PROVE  BarrierInv'
  BY <1>3, EnterKeeps
<1>4. ASSUME NEW t \in Threads, ReturnPassed(t) PROVE BarrierInv'
  BY <1>4, ReturnPassedKeeps
<1>5. ASSUME NEW t \in Threads, ReturnRefused(t) PROVE BarrierInv'
  <2> DEFINE f == Front(frames[t])
  <2>1. /\ frames[t] # <<>> /\ Last(frames[t]).verdict # "true"
        /\ frames' = [frames EXCEPT ![t] = f]
        /\ UNCHANGED <<tls_index, tls>>
    BY <1>5 DEF ReturnRefused
  <2>2. /\ frames[t] \in Seq(Frame) /\ tls[t] \in Vector \cup {NoVector}
        /\ tls = [tls EXCEPT ![t] = tls[t]]
    BY DEF BarrierInv
  <2>3. f \in Seq(Frame) /\ \A h : PassedIn(f, h) = PassedIn(frames[t], h)
    BY <2>1, <2>2, ReturnedFrame
  <2> HIDE DEF f
  <2>4. ~GetValueFails => \A h \in Handles : DepthIs(tls[t], h, PassedIn(f, h))
    BY <2>3 DEF BarrierInv
  <2> QED
    BY <2>1, <2>2, <2>3, <2>4, ThreadStep
<1>6. ASSUME NEW t \in Threads, NEW h \in Handles, StrayLeave(t, h) PROVE BarrierInv'
  <2>1. UNCHANGED vars
    BY <1>6, StrayLeaveKeeps
  <2> QED
    BY <2>1 DEF vars, BarrierInv, GetValueFails
<1>7. ASSUME NEW t \in Threads, ThreadExit(t) PROVE BarrierInv'
  <2>1. /\ frames' = [frames EXCEPT ![t] = <<>>] /\ tls' = [tls EXCEPT ![t] = NoVector]
        /\ UNCHANGED tls_index
    BY <1>7 DEF ThreadExit
  <2>2. \A h \in Handles : DepthIs(NoVector, h, PassedIn(<<>>, h))
    BY NoFrames DEF DepthIs
  <2> QED
    BY <2>1, <2>2, NoFrames, ThreadStep
<1>8. CASE UNCHANGED vars
  BY <1>8 DEF vars, BarrierInv, GetValueFails
<1> QED
  BY <1>1, <1>2, <1>3, <1>4, <1>5, <1>6, <1>7, <1>8 DEF Next

LEMMA InvAlways == Spec => []BarrierInv
BY BarrierInit, BarrierStep, PTL DEF Spec

-----------------------------------------------------------------------------
(* The theorems *)

(* The barrier is type correct, for any number of threads and hooks and    *)
(* whatever library call fails: a recursion depth never leaves its type.   *)
THEOREM TypeCorrect == Spec => []TypeOK
<1>1. BarrierInv => TypeOK
  BY DEF BarrierInv, TypeOK, Vector
<1> QED
  BY <1>1, InvAlways, PTL

(* The vector of every thread is strictly sorted, as the binary search     *)
(* needs it.                                                               *)
THEOREM AlwaysSorted == Spec => []VectorSorted
<1>1. BarrierInv => VectorSorted
  <2> SUFFICES ASSUME BarrierInv, NEW t \in Threads, tls[t] # NoVector
               PROVE  \A i, j \in DOMAIN tls[t] : i < j => tls[t][i].id < tls[t][j].id
    BY DEF VectorSorted
  <2>1. tls[t] \in Vector
    BY DEF BarrierInv
  <2> QED
    BY <2>1 DEF Vector, Sorted
<1> QED
  BY <1>1, InvAlways, PTL

(* The depth kept for a hook is the number of its callbacks that passed    *)
(* and are in progress on the thread.                                      *)
THEOREM DepthsCount == Spec => []DepthCountsOpenCallbacks
<1>1. BarrierInv => DepthCountsOpenCallbacks
  <2> SUFFICES ASSUME BarrierInv,
                      NEW t \in Threads, NEW h \in Handles, NEW before \in Depths
               PROVE  LET r == GetRecursionDepth(t, h, before)
                      IN  /\ r.status = "true" => r.depth = Passed(t, h)
                          /\ r.status = "false" => Passed(t, h) = 0
    BY DEF DepthCountsOpenCallbacks
  <2> DEFINE v == tls[t]
  <2>1. CASE GetValueFails
    BY <2>1 DEF GetRecursionDepth
  <2>2. CASE ~GetValueFails
    <3>1. /\ frames[t] \in Seq(Frame) /\ v \in Vector \cup {NoVector}
          /\ DepthIs(v, h, PassedIn(frames[t], h))
      BY <2>2 DEF BarrierInv
    <3>2. PassedIn(frames[t], h) \in Nat /\ PassedIn(frames[t], h) = Passed(t, h)
      BY <3>1, FrameElements DEF Passed, PassedIn
    <3>3. CASE v # NoVector /\ Has(v, h)
      <4>1. v[FoundIndex(v, h)].recursion_depth = Passed(t, h)
        BY <3>1, <3>2, <3>3, FoundDepth
      <4> QED
        BY <2>2, <3>3, <4>1 DEF GetRecursionDepth
    <3>4. CASE v = NoVector \/ ~Has(v, h)
      <4>1. Passed(t, h) = 0
        BY <3>1, <3>2, <3>4 DEF DepthIs
      <4> QED
        BY <2>2, <3>4, <4>1 DEF GetRecursionDepth
    <3> QED
      BY <3>3, <3>4
  <2> QED
    BY <2>1, <2>2
<1> QED
  BY <1>1, InvAlways, PTL

(* A callback that passed the barrier can always leave it. *)
THEOREM AlwaysLeaves == Spec => []PassedCanLeave
<1>1. BarrierInv => PassedCanLeave
  <2> SUFFICES ASSUME BarrierInv, NEW t \in Threads, NEW i \in DOMAIN frames[t],
                      frames[t][i].verdict = "true",
                      NEW r \in Leave(t, frames[t][i].handle)
               PROVE  r.status # "invalid_operation"
    BY DEF PassedCanLeave
  <2> DEFINE h == frames[t][i].handle
  <2>1. frames[t] \in Seq(Frame) /\ tls[t] \in Vector \cup {NoVector}
    BY DEF BarrierInv
  <2>2. h \in Handles
    BY <2>1, FrameElements DEF Frame
  <2>3. PassedIn(frames[t], h) \in Nat \ {0}
    BY <2>1, PassedCounts
  <2> HIDE DEF h
  <2>4. ~GetValueFails => DepthIs(tls[t], h, PassedIn(frames[t], h))
    BY <2>2 DEF BarrierInv
  <2>5. r \in Leave(t, h)
    BY DEF h
  <2>6. /\ GetValueFails => r.status = "error"
        /\ ~GetValueFails =>
            \A n \in Nat \ {0} : DepthIs(tls[t], h, n) => r.status # "invalid_operation"
    BY <2>1, <2>2, <2>5, LeaveEffect
  <2> QED
    BY <2>3, <2>4, <2>6
<1> QED
  BY <1>1, InvAlways, PTL

LEMMA EnterImplements ==
    ASSUME BarrierInv, NEW t \in Threads, NEW h \in Handles, NEW max \in MaxDepths,
           EnterCallback(t, h, max)
    PROVE  Enter(t, h, max)
<1>1. PICK r \in TryEnterEx(t, h, max) : Open(t, h, r.status)
  BY DEF EnterCallback
<1>2. frames[t] \in Seq(Frame) /\ tls[t] \in Vector \cup {NoVector}
  BY DEF BarrierInv
<1>3. /\ r.status \in Verdicts
      /\ GetValueFails => r.status = "error"
      /\ \A n \in Nat :
            DepthIs(tls[t], h, n) /\ r.status # "error" => (r.status = "true" <=> n <= max)
  BY <1>2, TryEnterEffect
<1>4. CASE r.status = "error"
  BY <1>1, <1>4 DEF Enter
<1>5. CASE r.status # "error"
  <2>1. PassedIn(frames[t], h) \in Nat /\ PassedIn(frames[t], h) = Passed(t, h)
    BY <1>2, FrameElements DEF Passed, PassedIn
  <2>2. DepthIs(tls[t], h, Passed(t, h))
    BY <1>3, <1>5, <2>1 DEF BarrierInv
  <2>3. r.status = Verdict(t, h, max)
    BY <1>3, <1>5, <2>1, <2>2 DEF Verdict, Verdicts
  <2> QED
    BY <1>1, <2>3 DEF Enter
<1> QED
  BY <1>4, <1>5

LEMMA ImplementsStep == BarrierInv /\ [Next]_vars => [HBNext]_frames
<1> SUFFICES ASSUME BarrierInv, Next PROVE HBNext \/ UNCHANGED frames
  BY DEF vars
<1>1. CASE SystemInitialize \/ SystemShutdown
  BY <1>1 DEF SystemInitialize, SystemShutdown
<1>2. ASSUME NEW t \in Threads, NEW h \in Handles, NEW max \in MaxDepths,
             EnterCallback(t, h, max)
      PROVE  HBNext
  BY <1>2, EnterImplements DEF HBNext
<1>3. ASSUME NEW t \in Threads, ReturnPassed(t) \/ ReturnRefused(t) PROVE HBNext
  <2>1. Return(t)
    BY <1>3 DEF ReturnPassed, ReturnRefused, Return, Front
  <2> QED
    BY <2>1 DEF HBNext
<1>4. ASSUME NEW t \in Threads, NEW h \in Handles, StrayLeave(t, h) PROVE UNCHANGED frames
  BY <1>4 DEF StrayLeave
<1>5. ASSUME NEW t \in Threads, ThreadExit(t) PROVE HBNext
  <2>1. Exit(t)
    BY <1>5 DEF ThreadExit, Exit
  <2> QED
    BY <2>1 DEF HBNext
<1> QED
  BY <1>1, <1>2, <1>3, <1>4, <1>5 DEF Next

(* The barrier implements the abstract one: the verdict on a callback is   *)
(* a function of the callbacks of the same hook that the thread is in, for *)
(* any number of threads and hooks, any limit and any width of the depth.  *)
THEOREM BarrierImplements == Spec => BarrierImplementsHookBarrier
<1>1. Init => HBInit
  BY DEF Init
<1> QED
  BY <1>1, ImplementsStep, InvAlways, PTL DEF Spec, BarrierImplementsHookBarrier, HBSpec
=============================================================================
