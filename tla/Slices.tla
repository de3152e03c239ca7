------------------------------- MODULE Slices -------------------------------
(***************************************************************************)
(* Slices of the Go language.  A slice is an array, by its index in a heap  *)
(* of arrays, and a length; 0 is the array of the nil slice.  Slices that   *)
(* are copied share their array: append writes behind its slice as long as  *)
(* there is room, and slices.Delete moves the elements within the array.    *)
(***************************************************************************)
EXTENDS Naturals, Sequences

Nil == [array |-> 0, len |-> 0]
CapOf(heap, s) == IF s.array = 0 THEN 0 ELSE Len(heap[s.array])
Contents(heap, s) ==
    IF s.array = 0 THEN <<>> ELSE SubSeq(heap[s.array], 1, s.len)
IsSlice(heap, s) == s.array \in 0..Len(heap) /\ s.len \in 0..CapOf(heap, s)

-----------------------------------------------------------------------------
(* append(s, xs...)                                                         *)

\* The runtime doubles the capacity or takes what is needed, rounded up to
\* a size class.
RoundUp(n) == IF n \in {5, 7} THEN n + 1 ELSE n
GrownCap(cap, need) == IF need > 2 * cap THEN RoundUp(need) ELSE 2 * cap

Fits(heap, s, xs) == s.len + Len(xs) <= CapOf(heap, s)

\* The heap after append; zero is the zero value of an element.
Appended(heap, s, xs, zero) ==
    IF Fits(heap, s, xs)
    THEN [heap EXCEPT ![s.array] =
            [i \in DOMAIN @ |-> IF i \in s.len + 1..s.len + Len(xs)
                                THEN xs[i - s.len] ELSE @[i]]]
    ELSE LET full == Contents(heap, s) \o xs
         IN  Append(heap, [i \in 1..GrownCap(CapOf(heap, s), Len(full)) |->
                             IF i <= Len(full) THEN full[i] ELSE zero])

\* The slice that append returns.
AppendTo(heap, s, xs) ==
    [array |-> IF Fits(heap, s, xs) THEN s.array ELSE Len(heap) + 1,
     len |-> s.len + Len(xs)]

-----------------------------------------------------------------------------
(* slices.Delete(s, i, i + 1), i counted from 1: it panics beyond the       *)
(* length, and clears the element that has become free.                     *)

Deleted(heap, s, i, zero) ==
    [heap EXCEPT ![s.array] =
       [j \in DOMAIN @ |-> IF j \in i..s.len - 1 THEN @[j + 1]
                           ELSE IF j = s.len THEN zero ELSE @[j]]]
=============================================================================
