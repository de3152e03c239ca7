----------------------------- MODULE SliceProofs -----------------------------
(***************************************************************************)
(* Facts about append and slices.Delete: what they write, which arrays they *)
(* leave alone, and what the slices hold before and after.                  *)
(***************************************************************************)
EXTENDS Slices, SequenceTheorems, TLAPS

Slice == [array: Nat, len: Nat]

-----------------------------------------------------------------------------
(* Facts about append.                                                      *)

\* The runtime gives room for what is appended.
LEMMA Grown ==
    ASSUME NEW cap \in Nat, NEW need \in Nat
    PROVE  GrownCap(cap, need) \in Nat /\ need <= GrownCap(cap, need)
  BY DEF GrownCap, RoundUp

\* A function on 1..n is a sequence.
LEMMA FunctionIsSeq ==
    ASSUME NEW V, NEW n \in Nat, NEW f \in [1..n -> V]
    PROVE  f \in Seq(V) /\ Len(f) = n
<1>1. f \in Seq(V)
  BY SeqDef
<1>2. DOMAIN f = 1..n /\ DOMAIN f = 1..Len(f) /\ Len(f) \in Nat
  BY <1>1, LenProperties
<1> QED
  BY <1>1, <1>2

\* What a slice holds is a sequence of its length.
LEMMA ContentsType ==
    ASSUME NEW V, NEW heap \in Seq(Seq(V)), NEW s \in Slice, IsSlice(heap, s)
    PROVE  Contents(heap, s) \in Seq(V) /\ Len(Contents(heap, s)) = s.len
<1>1. CASE s.array = 0
  BY <1>1 DEF Contents, IsSlice, CapOf, Slice
<1>2. CASE s.array # 0
  <2>1. s.array \in 1..Len(heap) /\ s.len \in 0..Len(heap[s.array])
    BY <1>2 DEF IsSlice, CapOf, Slice
  <2>2. heap[s.array] \in Seq(V)
    BY <2>1
  <2> QED
    BY <1>2, <2>1, <2>2, SubSeqProperties DEF Contents
<1> QED
  BY <1>1, <1>2

\* append leaves every other array as it is, keeps the lengths of all, and
\* returns a slice of its own array or of a new one.
Kept(heap, after, own) ==
    /\ Len(heap) <= Len(after)
    /\ \A k \in 1..Len(heap) : /\ Len(after[k]) = Len(heap[k])
                               /\ k # own => after[k] = heap[k]

LEMMA AppendInPlace ==
    ASSUME NEW V, NEW heap \in Seq(Seq(V)), NEW s \in Slice, IsSlice(heap, s),
           NEW xs \in Seq(V), NEW zero \in V,
           Fits(heap, s, xs), s.array # 0
    PROVE  /\ Appended(heap, s, xs, zero) \in Seq(Seq(V))
           /\ Kept(heap, Appended(heap, s, xs, zero), s.array)
           /\ AppendTo(heap, s, xs) \in Slice
           /\ IsSlice(Appended(heap, s, xs, zero), AppendTo(heap, s, xs))
<1> DEFINE own == heap[s.array]
           a == [i \in DOMAIN own |-> IF i \in s.len + 1..s.len + Len(xs)
                                      THEN xs[i - s.len] ELSE own[i]]
           after == [heap EXCEPT ![s.array] = a]
           t == [array |-> s.array, len |-> s.len + Len(xs)]
<1>1. Len(xs) \in Nat /\ s.len \in Nat /\ s.array \in Nat /\ Len(heap) \in Nat
  BY DEF Slice
<1>2. s.array \in 1..Len(heap) /\ own \in Seq(V)
  BY DEF IsSlice, Slice
<1>3. DOMAIN own = 1..Len(own) /\ Len(own) \in Nat
  BY <1>2
<1>4. \A i \in 1..Len(own) : a[i] \in V
  BY <1>1, <1>2, <1>3
<1>5. a \in [1..Len(own) -> V]
  BY <1>3, <1>4
<1>6. Appended(heap, s, xs, zero) = after
  BY DEF Appended
<1>7. AppendTo(heap, s, xs) = t
  BY DEF AppendTo
<1>8. s.len + Len(xs) <= Len(own)
  BY DEF Fits, CapOf
<1> HIDE DEF a
<1>9. a \in Seq(V) /\ Len(a) = Len(own)
  BY <1>3, <1>5, FunctionIsSeq
<1>10. after \in Seq(Seq(V)) /\ Len(after) = Len(heap)
  BY <1>2, <1>9
<1>11. \A k \in 1..Len(heap) : after[k] = IF k = s.array THEN a ELSE heap[k]
  BY <1>2
<1> HIDE DEF own, after
<1>12. Kept(heap, after, s.array)
  <2>1. ASSUME NEW k \in 1..Len(heap)
        PROVE  Len(after[k]) = Len(heap[k]) /\ (k # s.array => after[k] = heap[k])
    <3>1. CASE k = s.array
      BY <1>9, <1>11, <3>1 DEF own
    <3>2. CASE k # s.array
      BY <1>11, <3>2
    <3> QED
      BY <3>1, <3>2
  <2> QED
    BY <1>1, <1>10, <2>1 DEF Kept
<1>13. t \in Slice
  BY <1>1 DEF Slice
<1>14. IsSlice(after, t)
  <2>1. Len(after[s.array]) = Len(own)
    BY <1>2, <1>9, <1>11
  <2>2. CapOf(after, t) = Len(own) /\ t.array = s.array /\ t.len = s.len + Len(xs)
    BY <1>1, <1>2, <2>1 DEF CapOf
  <2>3. t.len \in 0..Len(own) /\ t.array \in 0..Len(after)
    BY <1>1, <1>2, <1>3, <1>8, <1>10, <2>2
  <2> QED
    BY <2>2, <2>3 DEF IsSlice
<1> QED
  BY <1>6, <1>7, <1>10, <1>12, <1>13, <1>14

LEMMA AppendMoves ==
    ASSUME NEW V, NEW heap \in Seq(Seq(V)), NEW s \in Slice, IsSlice(heap, s),
           NEW xs \in Seq(V), NEW zero \in V, ~Fits(heap, s, xs)
    PROVE  /\ Appended(heap, s, xs, zero) \in Seq(Seq(V))
           /\ Kept(heap, Appended(heap, s, xs, zero), 0)
           /\ AppendTo(heap, s, xs) \in Slice
           /\ IsSlice(Appended(heap, s, xs, zero), AppendTo(heap, s, xs))
           /\ AppendTo(heap, s, xs).array = Len(heap) + 1
<1> DEFINE full == Contents(heap, s) \o xs
           n == GrownCap(CapOf(heap, s), Len(full))
           a == [i \in 1..n |-> IF i <= Len(full) THEN full[i] ELSE zero]
           t == [array |-> Len(heap) + 1, len |-> s.len + Len(xs)]
<1>1. Len(xs) \in Nat /\ s.len \in Nat /\ s.array \in Nat /\ Len(heap) \in Nat
  BY DEF Slice
<1>2. full \in Seq(V) /\ Len(full) = s.len + Len(xs)
  <2>1. Contents(heap, s) \in Seq(V) /\ Len(Contents(heap, s)) = s.len
    BY ContentsType
  <2> QED
    BY <2>1, ConcatProperties, SMTT(30)
<1>3. CapOf(heap, s) \in Nat
  <2>1. CASE s.array = 0
    BY <2>1 DEF CapOf
  <2>2. CASE s.array # 0
    <3>1. s.array \in 1..Len(heap)
      BY <2>2 DEF IsSlice, Slice
    <3> QED
      BY <2>2, <3>1 DEF CapOf
  <2> QED
    BY <2>1, <2>2
<1>4. Len(full) \in Nat
  BY <1>1, <1>2
<1>5. n \in Nat /\ Len(full) <= n
  BY <1>3, <1>4, Grown
<1>6. Appended(heap, s, xs, zero) = Append(heap, a)
  BY DEF Appended
<1>7. AppendTo(heap, s, xs) = t
  BY DEF AppendTo
<1> HIDE DEF full, n
<1>8. \A i \in 1..n : a[i] \in V
  BY <1>2, <1>4, <1>5
<1>9. a \in [1..n -> V]
  BY <1>8
<1> HIDE DEF a
<1>10. a \in Seq(V) /\ Len(a) = n
  BY <1>5, <1>9, FunctionIsSeq
<1> DEFINE after == Append(heap, a)
<1>11. /\ after \in Seq(Seq(V)) /\ Len(after) = Len(heap) + 1
       /\ \A k \in 1..Len(heap) : after[k] = heap[k]
       /\ after[Len(heap) + 1] = a
  BY <1>10, AppendProperties
<1> HIDE DEF after
<1>12. Kept(heap, after, 0)
  BY <1>1, <1>11 DEF Kept
<1>13. t \in Slice /\ t.array = Len(heap) + 1
  BY <1>1 DEF Slice
<1>14. IsSlice(after, t)
  BY <1>1, <1>2, <1>5, <1>10, <1>11 DEF IsSlice, CapOf
<1> QED
  BY <1>6, <1>7, <1>11, <1>12, <1>13, <1>14 DEF after

LEMMA AppendKeeps ==
    ASSUME NEW V, NEW heap \in Seq(Seq(V)), NEW s \in Slice, IsSlice(heap, s),
           NEW xs \in Seq(V), NEW zero \in V
    PROVE  /\ Appended(heap, s, xs, zero) \in Seq(Seq(V))
           /\ Kept(heap, Appended(heap, s, xs, zero), s.array)
           /\ AppendTo(heap, s, xs) \in Slice
           /\ IsSlice(Appended(heap, s, xs, zero), AppendTo(heap, s, xs))
           /\ AppendTo(heap, s, xs).array \in {s.array, Len(heap) + 1}
<1>1. CASE ~Fits(heap, s, xs)
  BY <1>1, AppendMoves DEF Kept
<1>2. CASE Fits(heap, s, xs) /\ s.array # 0
  BY <1>2, AppendInPlace DEF AppendTo
<1>3. CASE Fits(heap, s, xs) /\ s.array = 0
  <2>1. s.len = 0 /\ Len(xs) = 0 /\ Len(heap) \in Nat
    BY <1>3 DEF Fits, CapOf, IsSlice, Slice
  <2>2. AppendTo(heap, s, xs) = [array |-> 0, len |-> 0]
    BY <1>3, <2>1 DEF AppendTo
  <2>3. Appended(heap, s, xs, zero) = heap
    BY <1>3, <2>1 DEF Appended
  <2> QED
    BY <1>3, <2>1, <2>2, <2>3 DEF Kept, IsSlice, CapOf, Slice
<1> QED
  BY <1>1, <1>2, <1>3

\* A slice stays a slice, and keeps what it holds in an array that is not
\* written.
LEMMA SliceStays ==
    ASSUME NEW heap, NEW after, NEW own, NEW s \in Slice,
           Len(heap) \in Nat, Len(after) \in Nat,
           IsSlice(heap, s), Kept(heap, after, own)
    PROVE  /\ IsSlice(after, s)
           /\ s.array # own \/ s.array = 0 => Contents(after, s) = Contents(heap, s)
<1>1. CASE s.array = 0
  BY <1>1 DEF IsSlice, CapOf, Contents, Slice
<1>2. CASE s.array # 0
  <2>1. s.array \in 1..Len(heap)
    BY <1>2 DEF IsSlice, Slice
  <2>2. /\ Len(heap) <= Len(after) /\ Len(after[s.array]) = Len(heap[s.array])
        /\ s.array # own => after[s.array] = heap[s.array]
    BY <2>1 DEF Kept
  <2> QED
    BY <1>2, <2>1, <2>2 DEF IsSlice, CapOf, Contents, Slice
<1> QED
  BY <1>1, <1>2

-----------------------------------------------------------------------------
\* A slice of the same array that is not longer.
Within(s, t) == s.array = t.array => s.len <= t.len

\* What append writes in place.
Written(heap, after, s, xs) ==
    \A i \in 1..Len(heap[s.array]) :
        after[s.array][i] = IF i \in s.len + 1..s.len + Len(xs) THEN xs[i - s.len]
                            ELSE heap[s.array][i]

LEMMA AppendWrites ==
    ASSUME NEW V, NEW heap \in Seq(Seq(V)), NEW s \in Slice,
           NEW xs \in Seq(V), NEW zero \in V,
           s.array \in 1..Len(heap), Fits(heap, s, xs)
    PROVE  Written(heap, Appended(heap, s, xs, zero), s, xs)
<1> SUFFICES ASSUME NEW i \in 1..Len(heap[s.array])
             PROVE  Appended(heap, s, xs, zero)[s.array][i] =
                      IF i \in s.len + 1..s.len + Len(xs) THEN xs[i - s.len]
                      ELSE heap[s.array][i]
  BY DEF Written
<1> DEFINE own == heap[s.array]
           a == [k \in DOMAIN own |-> IF k \in s.len + 1..s.len + Len(xs)
                                      THEN xs[k - s.len] ELSE own[k]]
<1>1. Appended(heap, s, xs, zero) = [heap EXCEPT ![s.array] = a]
  BY DEF Appended
<1>2. a[i] = IF i \in s.len + 1..s.len + Len(xs) THEN xs[i - s.len] ELSE own[i]
  <2>1. i \in DOMAIN own
    OBVIOUS
  <2> HIDE DEF own
  <2> QED
    BY <2>1
<1> HIDE DEF a
<1> QED
  BY <1>1, <1>2

\* append adds what is appended, and an array keeps what a shorter slice holds.
LEMMA AppendContents ==
    ASSUME NEW V, NEW heap \in Seq(Seq(V)), NEW s \in Slice, IsSlice(heap, s),
           NEW xs \in Seq(V), NEW zero \in V
    PROVE  Contents(Appended(heap, s, xs, zero), AppendTo(heap, s, xs))
             = Contents(heap, s) \o xs
<1> DEFINE full == Contents(heap, s) \o xs
           after == Appended(heap, s, xs, zero)
           t == AppendTo(heap, s, xs)
<1>1. Len(xs) \in Nat /\ s.len \in Nat /\ s.array \in Nat /\ Len(heap) \in Nat
  BY DEF Slice
<1>2. Contents(heap, s) \in Seq(V) /\ Len(Contents(heap, s)) = s.len
  BY ContentsType
<1>3. /\ full \in Seq(V) /\ Len(full) = s.len + Len(xs)
      /\ \A i \in 1..Len(full) : full[i] = IF i <= s.len THEN Contents(heap, s)[i]
                                           ELSE xs[i - s.len]
  <2> DEFINE held == Contents(heap, s)
  <2>1. /\ full \in Seq(V) /\ Len(full) = Len(held) + Len(xs)
        /\ \A i \in 1..Len(held) + Len(xs) :
             full[i] = IF i <= Len(held) THEN held[i] ELSE xs[i - Len(held)]
    BY <1>2, ConcatProperties
  <2> HIDE DEF full
  <2> QED
    BY <1>2, <2>1
<1>4. /\ after \in Seq(Seq(V)) /\ t \in Slice /\ IsSlice(after, t)
      /\ t.len = s.len + Len(xs)
  <2>1. t.len = s.len + Len(xs)
    BY DEF AppendTo
  <2> QED
    BY <2>1, AppendKeeps
<1>5. Contents(after, t) \in Seq(V) /\ Len(Contents(after, t)) = Len(full)
  BY <1>3, <1>4, ContentsType
<1>6. ASSUME t.array # 0
      PROVE  /\ after[t.array] \in Seq(V) /\ Len(full) <= Len(after[t.array])
             /\ Contents(after, t) = SubSeq(after[t.array], 1, Len(full))
  <2>1. t.array \in 1..Len(after) /\ t.len <= Len(after[t.array])
    BY <1>4, <1>6 DEF IsSlice, CapOf, Slice
  <2> QED
    BY <1>3, <1>4, <1>6, <2>1, SMTT(30) DEF Contents
<1>7. ASSUME t.array # 0, NEW i \in 1..Len(full)
      PROVE  Contents(after, t)[i] = after[t.array][i]
  BY <1>1, <1>3, <1>6, <1>7, SubSeqProperties
<1>11. ASSUME t.array # 0, \A i \in 1..Len(full) : after[t.array][i] = full[i]
       PROVE  Contents(after, t) = full
  <2>1. \A i \in 1..Len(full) : Contents(after, t)[i] = full[i]
    BY <1>7, <1>11
  <2> HIDE DEF full, after, t
  <2> QED
    BY <1>3, <1>5, <2>1, SeqEqual
<1>8. CASE Fits(heap, s, xs) /\ s.array # 0
  <2>1. t.array = s.array /\ s.array \in 1..Len(heap)
    BY <1>1, <1>8 DEF AppendTo, IsSlice
  <2>2. heap[s.array] \in Seq(V) /\ s.len + Len(xs) <= Len(heap[s.array])
    BY <1>8, <2>1 DEF Fits, CapOf
  <2>3. Written(heap, after, s, xs)
    BY <1>8, <2>1, AppendWrites
  <2>4. ASSUME NEW i \in 1..Len(full)
        PROVE  after[s.array][i] = full[i]
    <3>1. i \in 1..Len(heap[s.array]) /\ i \in Nat /\ i >= 1 /\ i <= s.len + Len(xs)
      BY <1>1, <1>3, <2>2
    <3>2. after[s.array][i] = IF i \in s.len + 1..s.len + Len(xs) THEN xs[i - s.len]
                              ELSE heap[s.array][i]
      BY <2>3, <3>1 DEF Written
    <3>3. CASE i <= s.len
      <4>1. Contents(heap, s) = SubSeq(heap[s.array], 1, s.len)
        BY <1>8 DEF Contents
      <4>2. Contents(heap, s)[i] = heap[s.array][i]
        BY <1>1, <2>2, <3>1, <3>3, <4>1, SubSeqProperties
      <4> QED
        BY <1>1, <1>3, <3>1, <3>2, <3>3, <4>2
    <3>4. CASE ~(i <= s.len)
      BY <1>1, <1>3, <3>1, <3>2, <3>4, SMTT(30)
    <3> QED
      BY <3>3, <3>4
  <2> QED
    BY <1>1, <1>8, <1>11, <2>1, <2>4
<1>9. CASE ~Fits(heap, s, xs)
  <2> DEFINE n == GrownCap(CapOf(heap, s), Len(full))
             a == [i \in 1..n |-> IF i <= Len(full) THEN full[i] ELSE zero]
  <2>1. after = Append(heap, a) /\ t.array = Len(heap) + 1
    BY <1>9 DEF Appended, AppendTo
  <2>2. after[t.array] = a
    <3> HIDE DEF a
    <3>1. Append(heap, a)[Len(heap) + 1] = a
      BY <1>1
    <3> QED
      BY <2>1, <3>1
  <2>3. n \in Nat /\ Len(full) <= n
    <3>1. CapOf(heap, s) \in Nat
      BY <1>1 DEF IsSlice, CapOf
    <3>2. Len(full) \in Nat
      BY <1>1, <1>3
    <3> HIDE DEF full
    <3> QED
      BY <3>1, <3>2, Grown
  <2>4. ASSUME NEW i \in 1..Len(full)
        PROVE  after[t.array][i] = full[i]
    <3>1. \A k \in 1..n : a[k] = IF k <= Len(full) THEN full[k] ELSE zero
      <4> HIDE DEF full, n
      <4> QED
        OBVIOUS
    <3> HIDE DEF n, a
    <3>2. i \in 1..n /\ i <= Len(full)
      BY <1>3, <2>3
    <3> QED
      BY <2>2, <3>1, <3>2, Zenon
  <2>5. t.array # 0
    BY <1>1, <2>1
  <2> QED
    BY <1>11, <2>4, <2>5
<1>10. CASE Fits(heap, s, xs) /\ s.array = 0
  <2>1. s.len = 0 /\ Len(xs) = 0
    BY <1>1, <1>10 DEF Fits, CapOf, IsSlice, Slice
  <2>2. Len(full) = 0
    BY <1>3, <2>1
  <2>3. \A i \in 1..Len(full) : Contents(after, t)[i] = full[i]
    BY <2>2
  <2> QED
    BY <1>3, <1>5, <2>3, SeqEqual
<1> QED
  BY <1>8, <1>9, <1>10

\* What a slice that is not longer holds stays when another one is appended to.
LEMMA AppendSpares ==
    ASSUME NEW V, NEW heap \in Seq(Seq(V)), NEW s \in Slice, IsSlice(heap, s),
           NEW xs \in Seq(V), NEW zero \in V,
           NEW u \in Slice, IsSlice(heap, u), Within(u, s)
    PROVE  Contents(Appended(heap, s, xs, zero), u) = Contents(heap, u)
<1> DEFINE after == Appended(heap, s, xs, zero)
<1>1. Len(xs) \in Nat /\ s.len \in Nat /\ s.array \in Nat /\ Len(heap) \in Nat
      /\ u.len \in Nat /\ u.array \in Nat
  BY DEF Slice
<1>2. after \in Seq(Seq(V)) /\ Kept(heap, after, s.array) /\ Len(after) \in Nat
  BY AppendKeeps
<1>3. CASE u.array # s.array \/ u.array = 0
  BY <1>1, <1>2, <1>3, SliceStays
<1>4. CASE u.array = s.array /\ u.array # 0
  <2>1. s.array \in 1..Len(heap) /\ u.len <= s.len /\ u.len <= Len(heap[s.array])
    BY <1>1, <1>4 DEF IsSlice, CapOf, Within
  <2>2. heap[s.array] \in Seq(V) /\ after[s.array] \in Seq(V)
        /\ Len(after[s.array]) = Len(heap[s.array])
    BY <1>1, <1>2, <2>1, SMTT(30) DEF Kept
  <2>3. ASSUME NEW i \in 1..u.len
        PROVE  after[s.array][i] = heap[s.array][i]
    <3>1. CASE Fits(heap, s, xs)
      <4>1. i \in 1..Len(heap[s.array]) /\ i \notin s.len + 1..s.len + Len(xs)
        BY <1>1, <2>1, <2>2, SMTT(30)
      <4>2. Written(heap, after, s, xs)
        BY <2>1, <3>1, AppendWrites
      <4> QED
        BY <4>1, <4>2 DEF Written
    <3>2. CASE ~Fits(heap, s, xs)
      <4>1. Kept(heap, after, 0)
        BY <3>2, AppendMoves
      <4> QED
        BY <1>1, <2>1, <4>1, SMTT(30) DEF Kept
    <3> QED
      BY <3>1, <3>2
  <2>4. /\ Contents(after, u) = SubSeq(after[s.array], 1, u.len)
        /\ Contents(heap, u) = SubSeq(heap[s.array], 1, u.len)
    BY <1>4 DEF Contents
  <2> HIDE DEF after
  <2>5. /\ Len(SubSeq(after[s.array], 1, u.len)) = u.len
        /\ Len(SubSeq(heap[s.array], 1, u.len)) = u.len
        /\ SubSeq(after[s.array], 1, u.len) \in Seq(V)
        /\ SubSeq(heap[s.array], 1, u.len) \in Seq(V)
        /\ \A i \in 1..u.len :
             /\ SubSeq(after[s.array], 1, u.len)[i] = after[s.array][i]
             /\ SubSeq(heap[s.array], 1, u.len)[i] = heap[s.array][i]
    BY <1>1, <2>1, <2>2, SubSeqProperties, SMTT(30)
  <2>6. SubSeq(after[s.array], 1, u.len) = SubSeq(heap[s.array], 1, u.len)
    <3>1. PICK p, q : /\ p = SubSeq(after[s.array], 1, u.len)
                      /\ q = SubSeq(heap[s.array], 1, u.len)
      OBVIOUS
    <3>2. p \in Seq(V) /\ q \in Seq(V) /\ Len(p) = Len(q)
      BY <2>5, <3>1
    <3>3. \A i \in 1..Len(p) : p[i] = q[i]
      BY <2>3, <2>5, <3>1
    <3>4. p = q
      BY <3>2, <3>3, SeqEqual
    <3> QED
      BY <3>1, <3>4
  <2> QED
    BY <2>4, <2>6 DEF after
<1> QED
  BY <1>3, <1>4

-----------------------------------------------------------------------------
(* Facts about slices.Delete.                                               *)

\* A sequence without its element i.
WithoutAt(q, i) == [j \in 1..Len(q) - 1 |-> IF j < i THEN q[j] ELSE q[j + 1]]

LEMMA WithoutType ==
    ASSUME NEW V, NEW q \in Seq(V), NEW i \in 1..Len(q)
    PROVE  /\ WithoutAt(q, i) \in Seq(V) /\ Len(WithoutAt(q, i)) = Len(q) - 1
           /\ \A j \in 1..Len(q) - 1 :
                WithoutAt(q, i)[j] = IF j < i THEN q[j] ELSE q[j + 1]
<1>1. Len(q) \in Nat /\ Len(q) - 1 \in Nat
  OBVIOUS
<1>2. \A j \in 1..Len(q) - 1 : (IF j < i THEN q[j] ELSE q[j + 1]) \in V
  OBVIOUS
<1>3. WithoutAt(q, i) \in [1..Len(q) - 1 -> V]
  BY <1>2 DEF WithoutAt
<1>4. WithoutAt(q, i) \in Seq(V) /\ Len(WithoutAt(q, i)) = Len(q) - 1
  BY <1>1, <1>3, FunctionIsSeq
<1>5. \A j \in 1..Len(q) - 1 :
        WithoutAt(q, i)[j] = IF j < i THEN q[j] ELSE q[j + 1]
  BY DEF WithoutAt
<1> QED
  BY <1>4, <1>5

Shorter(s) == [s EXCEPT !.len = @ - 1]
PlaceIn(i, s) == i \in 1..s.len

\* slices.Delete writes into the array of its slice only; what the shorter
\* slice holds lacks one element, and behind it the array is cleared.
LEMMA DeleteKeeps ==
    ASSUME NEW V, NEW heap \in Seq(Seq(V)), NEW s \in Slice, IsSlice(heap, s),
           NEW i, PlaceIn(i, s), NEW zero \in V
    PROVE  /\ Deleted(heap, s, i, zero) \in Seq(Seq(V))
           /\ Kept(heap, Deleted(heap, s, i, zero), s.array)
           /\ Shorter(s) \in Slice
           /\ IsSlice(Deleted(heap, s, i, zero), Shorter(s))
           /\ Contents(Deleted(heap, s, i, zero), Shorter(s)) = WithoutAt(Contents(heap, s), i)
           /\ Contents(Deleted(heap, s, i, zero), s) =
                Append(WithoutAt(Contents(heap, s), i), zero)
<1> DEFINE own == heap[s.array]
           a == [j \in DOMAIN own |-> IF j \in i..s.len - 1 THEN own[j + 1]
                                      ELSE IF j = s.len THEN zero ELSE own[j]]
           after == [heap EXCEPT ![s.array] = a]
<1>1. /\ s.len \in Nat /\ s.array \in Nat /\ Len(heap) \in Nat /\ s.len >= 1
      /\ i \in Nat /\ i >= 1 /\ i <= s.len /\ i \in 1..s.len
  BY DEF Slice, PlaceIn
<1>2. s.array # 0 /\ s.array \in 1..Len(heap) /\ own \in Seq(V)
      /\ s.len <= Len(own) /\ CapOf(heap, s) = Len(own)
  BY <1>1 DEF IsSlice, CapOf, Slice
<1>3. DOMAIN own = 1..Len(own) /\ Len(own) \in Nat
  BY <1>2
<1>4. \A j \in 1..Len(own) :
        /\ a[j] = IF j \in i..s.len - 1 THEN own[j + 1]
                  ELSE IF j = s.len THEN zero ELSE own[j]
        /\ a[j] \in V
  BY <1>1, <1>2, <1>3
<1>5. a \in [1..Len(own) -> V]
  BY <1>3, <1>4
<1>6. Deleted(heap, s, i, zero) = after
  BY DEF Deleted
<1> HIDE DEF a
<1>7. a \in Seq(V) /\ Len(a) = Len(own)
  BY <1>3, <1>5, FunctionIsSeq
<1>8. after \in Seq(Seq(V)) /\ Len(after) = Len(heap)
  BY <1>2, <1>7
<1>9. \A k \in 1..Len(heap) : after[k] = IF k = s.array THEN a ELSE heap[k]
  BY <1>2
<1> HIDE DEF own, after
<1>10. Kept(heap, after, s.array)
  <2>1. ASSUME NEW k \in 1..Len(heap)
        PROVE  Len(after[k]) = Len(heap[k]) /\ (k # s.array => after[k] = heap[k])
    BY <1>7, <1>9 DEF own
  <2> QED
    BY <1>1, <1>8, <2>1 DEF Kept
<1>11. Shorter(s) \in Slice /\ Shorter(s).array = s.array /\ Shorter(s).len = s.len - 1
  BY <1>1 DEF Slice, Shorter
<1>12. after[s.array] = a /\ CapOf(after, s) = Len(own) /\ CapOf(after, Shorter(s)) = Len(own)
  BY <1>2, <1>7, <1>9, <1>11 DEF CapOf
<1>13. IsSlice(after, s) /\ IsSlice(after, Shorter(s))
  BY <1>1, <1>2, <1>3, <1>8, <1>11, <1>12 DEF IsSlice
<1>14. /\ Contents(heap, s) \in Seq(V) /\ Len(Contents(heap, s)) = s.len
       /\ \A j \in 1..s.len : Contents(heap, s)[j] = own[j]
  <2>1. Contents(heap, s) = SubSeq(own, 1, s.len)
    BY <1>2 DEF Contents, own
  <2> QED
    BY <1>1, <1>2, <1>3, <2>1, SubSeqProperties, ContentsType
<1>15. /\ Contents(after, s) \in Seq(V) /\ Len(Contents(after, s)) = s.len
       /\ \A j \in 1..s.len : Contents(after, s)[j] = a[j]
  <2>1. Contents(after, s) = SubSeq(a, 1, s.len)
    BY <1>2, <1>12 DEF Contents
  <2> QED
    BY <1>1, <1>2, <1>3, <1>7, <1>8, <1>13, <2>1, SubSeqProperties, ContentsType
<1>16. /\ Contents(after, Shorter(s)) \in Seq(V)
       /\ Len(Contents(after, Shorter(s))) = s.len - 1
       /\ \A j \in 1..s.len - 1 : Contents(after, Shorter(s))[j] = a[j]
  <2>1. Contents(after, Shorter(s)) = SubSeq(a, 1, s.len - 1)
    BY <1>2, <1>11, <1>12 DEF Contents
  <2>2. \A j \in 1..s.len - 1 : SubSeq(a, 1, s.len - 1)[j] = a[j]
    BY <1>1, <1>2, <1>3, <1>7, SubSeqProperties
  <2> QED
    BY <1>1, <1>8, <1>11, <1>13, <2>1, <2>2, ContentsType
<1> DEFINE w == WithoutAt(Contents(heap, s), i)
<1>17. /\ w \in Seq(V) /\ Len(w) = s.len - 1
       /\ \A j \in 1..s.len - 1 :
            w[j] = IF j < i THEN Contents(heap, s)[j] ELSE Contents(heap, s)[j + 1]
  <2> DEFINE q == Contents(heap, s)
  <2>1. q \in Seq(V) /\ Len(q) = s.len /\ i \in 1..Len(q)
    BY <1>1, <1>14
  <2> HIDE DEF q
  <2>2. /\ WithoutAt(q, i) \in Seq(V) /\ Len(WithoutAt(q, i)) = Len(q) - 1
        /\ \A j \in 1..Len(q) - 1 :
             WithoutAt(q, i)[j] = IF j < i THEN q[j] ELSE q[j + 1]
    BY <2>1, WithoutType
  <2> QED
    BY <2>1, <2>2 DEF q
<1> HIDE DEF w
<1>18. \A j \in 1..s.len - 1 : w[j] = a[j]
  <2> SUFFICES ASSUME NEW j \in 1..s.len - 1 PROVE w[j] = a[j]
    OBVIOUS
  <2>1. j \in 1..Len(own) /\ j \in 1..s.len /\ j + 1 \in 1..s.len /\ j # s.len
    BY <1>1, <1>2, <1>3
  <2>2. w[j] = IF j < i THEN own[j] ELSE own[j + 1]
    BY <1>14, <1>17, <2>1
  <2>3. a[j] = IF j \in i..s.len - 1 THEN own[j + 1] ELSE own[j]
    BY <1>4, <2>1
  <2>4. CASE j < i
    BY <1>1, <2>2, <2>3, <2>4
  <2>5. CASE ~(j < i)
    BY <1>1, <2>2, <2>3, <2>5
  <2> QED
    BY <2>4, <2>5
<1>19. Contents(after, Shorter(s)) = w
  BY <1>16, <1>17, <1>18, SeqEqual
<1>20. a[s.len] = zero
  <2>1. s.len \in 1..Len(own) /\ s.len \notin i..s.len - 1
    BY <1>1, <1>2, <1>3
  <2> QED
    BY <1>4, <2>1
<1>21. Contents(after, s) = Append(w, zero)
  <2> DEFINE e == Append(w, zero)
  <2>1. /\ e \in Seq(V) /\ Len(e) = s.len /\ e[s.len] = zero
        /\ \A j \in 1..s.len - 1 : e[j] = w[j]
    <3>1. 1..s.len - 1 = 1..Len(w) /\ Len(w) + 1 = s.len
      BY <1>1, <1>17
    <3>2. /\ e \in Seq(V) /\ Len(e) = Len(w) + 1 /\ e[Len(w) + 1] = zero
          /\ \A j \in 1..Len(w) : e[j] = w[j]
      BY <1>17, AppendProperties
    <3> QED
      BY <3>1, <3>2
  <2> HIDE DEF e
  <2>2. \A j \in 1..s.len : Contents(after, s)[j] = e[j]
    BY <1>1, <1>15, <1>18, <1>20, <2>1
  <2>3. Contents(after, s) = e
    BY <1>15, <2>1, <2>2, SeqEqual
  <2> QED
    BY <2>3 DEF e
<1> QED
  BY <1>6, <1>8, <1>10, <1>11, <1>13, <1>19, <1>21 DEF w

=============================================================================
