--------------------------- MODULE RegistryProofs ---------------------------
(***************************************************************************)
(* Who is connected, for any number of clients, accounts and logins.        *)
(*                                                                         *)
(* A list that one goroutine at a time is at is well: the slice that the    *)
(* goroutine has made differs from the list by one client at its end or by  *)
(* the nil client that was left there, and no two lists share an array.     *)
(* Whether it is well depends on the list and on those who are at it only,  *)
(* so that other lists may be at odds.  What a list is going to hold when   *)
(* the change under way is stored is a sequence (Shown), and a step of the  *)
(* program leaves it, appends a client to it or takes one out: the          *)
(* invariants about guests and clients of a user are about this sequence.   *)
(***************************************************************************)
EXTENDS Registry, SliceProofs, FiniteSetTheorems, WellFoundedInduction

\* The goroutines that change lists: the Request of each client, and None for
\* the one of Hubc.Run.
Goroutines == Clients \union {None}

-----------------------------------------------------------------------------
(* Lists and those who work at them: L gives the slice of each list, W what *)
(* each goroutine does: op, the list it is at, the slice it has made, and   *)
(* the place and the client it is after.                                    *)

\* It has changed an array and not yet stored the slice.
Pending == {"adds", "removes"}
PendsAt(W, g, u) == W[g].op \in Pending /\ W[g].list = u

\* The slices of a list: the one it has, and those it may get.
Held(L, W, u) == {L[u]} \union {W[g].slice : g \in {h \in Goroutines : PendsAt(W, h, u)}}

\* What a list holds once the change under way, if any, is stored.
Shown(heap, L, W, u) ==
    IF \E g \in Goroutines : PendsAt(W, g, u)
    THEN {Contents(heap, W[g].slice) : g \in {h \in Goroutines : PendsAt(W, h, u)}}
    ELSE {Contents(heap, L[u])}

\* Different lists have different arrays, whatever goroutines do.
Foreign(s, t) == s.array = 0 \/ s.array # t.array
Apart(L, W) ==
    \A u, v \in DOMAIN L : u # v =>
        \A s \in Held(L, W, u), t \in Held(L, W, v) : Foreign(s, t)

World(heap, L, W) ==
    /\ heap \in Seq(Seq(Goroutines))
    /\ \A u \in DOMAIN L : L[u] \in Slice /\ IsSlice(heap, L[u])
    /\ \A g \in Goroutines : W[g].op \in Pending =>
         /\ W[g].list \in DOMAIN L
         /\ W[g].slice \in Slice /\ IsSlice(heap, W[g].slice)
    /\ Apart(L, W)

\* It is at the list.
WorksAt(W, g, u) == W[g].op # "off" /\ W[g].list = u

\* One goroutine at most is at the list.
Alone(W, u) ==
    \A g, h \in Goroutines : WorksAt(W, g, u) /\ WorksAt(W, h, u) => g = h

\* A list that is changed by one goroutine at a time: what is pending differs
\* from it by one client, and no nil client is in it.
Steady(heap, L, W, u) ==
    /\ \A g \in Goroutines : W[g].list = u =>
         /\ W[g].op = "removes" =>
              /\ W[g].slice = Shorter(L[u])
              /\ Contents(heap, L[u]) = Append(Contents(heap, W[g].slice), None)
         /\ W[g].op = "adds" =>
              Contents(heap, W[g].slice) = Append(Contents(heap, L[u]), W[g].who)
         /\ W[g].op = "aims" =>
              /\ W[g].index \in 1..L[u].len
              /\ Contents(heap, L[u])[W[g].index] = W[g].who
    /\ \A q \in Shown(heap, L, W, u) : q \in Seq(Clients)

\* The others go on as they were.
OthersStay(W, after, g) == \A h \in Goroutines \ {g} : after[h] = W[h]

\* g has written, and is to store the slice t.
Writes(W, after, g, u, t) ==
    /\ W[g].op \notin Pending
    /\ after[g].op \in Pending /\ after[g].list = u /\ after[g].slice = t
    /\ OthersStay(W, after, g)

\* What is pending at a list does not change.
SamePending(W, after, u) ==
    \A g \in Goroutines : PendsAt(W, g, u) \/ PendsAt(after, g, u) => after[g] = W[g]

LEMMA HeldSame ==
    ASSUME NEW L, NEW L2, NEW W, NEW W2, NEW u, L2[u] = L[u], SamePending(W, W2, u)
    PROVE  Held(L2, W2, u) = Held(L, W, u)
<1>1. \A g \in Goroutines : PendsAt(W2, g, u) <=> PendsAt(W, g, u)
  BY DEF SamePending, PendsAt
<1>2. {h \in Goroutines : PendsAt(W2, h, u)} = {h \in Goroutines : PendsAt(W, h, u)}
  BY <1>1
<1>3. \A g \in {h \in Goroutines : PendsAt(W, h, u)} : W2[g].slice = W[g].slice
  BY DEF SamePending
<1> QED
  BY <1>2, <1>3 DEF Held

LEMMA ShownSame ==
    ASSUME NEW heap, NEW heap2, NEW L, NEW L2, NEW W, NEW W2, NEW u,
           L2[u] = L[u], SamePending(W, W2, u),
           \A s \in Held(L, W, u) : Contents(heap2, s) = Contents(heap, s)
    PROVE  Shown(heap2, L2, W2, u) = Shown(heap, L, W, u)
<1>1. \A g \in Goroutines : PendsAt(W2, g, u) <=> PendsAt(W, g, u)
  BY DEF SamePending, PendsAt
<1>2. {h \in Goroutines : PendsAt(W2, h, u)} = {h \in Goroutines : PendsAt(W, h, u)}
  BY <1>1
<1>3. \A g \in {h \in Goroutines : PendsAt(W, h, u)} :
        Contents(heap2, W2[g].slice) = Contents(heap, W[g].slice)
  BY DEF SamePending, Held
<1>4. Contents(heap2, L2[u]) = Contents(heap, L[u])
  BY DEF Held
<1>5. {Contents(heap2, W2[g].slice) : g \in {h \in Goroutines : PendsAt(W2, h, u)}}
        = {Contents(heap, W[g].slice) : g \in {h \in Goroutines : PendsAt(W, h, u)}}
  BY <1>2, <1>3
<1> QED
  BY <1>1, <1>4, <1>5 DEF Shown

LEMMA SteadySame ==
    ASSUME NEW heap, NEW heap2, NEW L, NEW L2, NEW W, NEW W2, NEW u,
           L2[u] = L[u], SamePending(W, W2, u),
           \A s \in Held(L, W, u) : Contents(heap2, s) = Contents(heap, s),
           \A g \in Goroutines : W2[g].list = u /\ W2[g].op = "aims" =>
               \/ W2[g] = W[g]
               \/ /\ W2[g].index \in 1..L[u].len
                  /\ Contents(heap2, L[u])[W2[g].index] = W2[g].who,
           Steady(heap, L, W, u)
    PROVE  Steady(heap2, L2, W2, u)
<1>1. Shown(heap2, L2, W2, u) = Shown(heap, L, W, u)
  BY ShownSame
<1>2. Contents(heap2, L[u]) = Contents(heap, L[u])
  BY DEF Held
<1>3. ASSUME NEW g \in Goroutines, W2[g].list = u, W2[g].op \in Pending
      PROVE  /\ W2[g] = W[g]
             /\ Contents(heap2, W[g].slice) = Contents(heap, W[g].slice)
  BY <1>3 DEF SamePending, PendsAt, Held
<1>4. ASSUME NEW g \in Goroutines, W2[g].list = u, W2[g].op = "removes"
      PROVE  /\ W2[g].slice = Shorter(L2[u])
             /\ Contents(heap2, L2[u]) = Append(Contents(heap2, W2[g].slice), None)
  BY <1>2, <1>3, <1>4 DEF Steady, Pending
<1>5. ASSUME NEW g \in Goroutines, W2[g].list = u, W2[g].op = "adds"
      PROVE  Contents(heap2, W2[g].slice) = Append(Contents(heap2, L2[u]), W2[g].who)
  BY <1>2, <1>3, <1>5 DEF Steady, Pending
<1>6. ASSUME NEW g \in Goroutines, W2[g].list = u, W2[g].op = "aims"
      PROVE  /\ W2[g].index \in 1..L2[u].len
             /\ Contents(heap2, L2[u])[W2[g].index] = W2[g].who
  BY <1>2, <1>6 DEF Steady
<1>7. \A q \in Shown(heap2, L2, W2, u) : q \in Seq(Clients)
  BY <1>1 DEF Steady
<1> QED
  BY <1>4, <1>5, <1>6, <1>7 DEF Steady

\* The pending slices of a list are slices of the heap.
LEMMA HeldValid ==
    ASSUME NEW heap, NEW L, NEW W, World(heap, L, W), NEW u \in DOMAIN L,
           NEW s \in Held(L, W, u)
    PROVE  s \in Slice /\ IsSlice(heap, s) /\ s.array \in 0..Len(heap)
<1>1. s \in Slice /\ IsSlice(heap, s)
  BY DEF World, Held, PendsAt
<1> QED
  BY <1>1 DEF IsSlice

\* A step that changes no list, and adds at most empty ones.
LEMMA QuietStep ==
    ASSUME NEW heap, NEW L, NEW L2, NEW W, NEW W2, World(heap, L, W),
           DOMAIN L \subseteq DOMAIN L2,
           \A u \in DOMAIN L : L2[u] = L[u],
           \A u \in DOMAIN L2 \ DOMAIN L : L2[u] = Nil,
           \A g \in Goroutines :
               W[g].op \in Pending \/ W2[g].op \in Pending => W2[g] = W[g],
           \A g \in Goroutines : W2[g].op = "aims" =>
               \/ W2[g] = W[g]
               \/ /\ W2[g].list \in DOMAIN L
                  /\ Alone(W, W2[g].list) /\ Steady(heap, L, W, W2[g].list) =>
                       /\ W2[g].index \in 1..L[W2[g].list].len
                       /\ Contents(heap, L[W2[g].list])[W2[g].index] = W2[g].who
    PROVE  /\ World(heap, L2, W2)
           /\ \A u \in DOMAIN L :
                /\ Held(L2, W2, u) = Held(L, W, u)
                /\ Shown(heap, L2, W2, u) = Shown(heap, L, W, u)
                /\ Alone(W, u) /\ Steady(heap, L, W, u) => Steady(heap, L2, W2, u)
           /\ \A u \in DOMAIN L2 \ DOMAIN L :
                /\ Held(L2, W2, u) = {Nil}
                /\ Shown(heap, L2, W2, u) = {<<>>}
                /\ (\A g \in Goroutines : W2[g].op = "aims" => W2[g].list # u) =>
                      Steady(heap, L2, W2, u)
<1>1. \A u : SamePending(W, W2, u)
  BY DEF SamePending, PendsAt
<1>2. \A u \in DOMAIN L : Held(L2, W2, u) = Held(L, W, u)
  BY <1>1, HeldSame
<1>3. \A u \in DOMAIN L2 \ DOMAIN L : \A g \in Goroutines : ~PendsAt(W2, g, u)
  BY <1>1 DEF World, SamePending, PendsAt
<1>4. \A u \in DOMAIN L2 \ DOMAIN L : Held(L2, W2, u) = {Nil}
  BY <1>3 DEF Held
<1>5. Nil \in Slice /\ IsSlice(heap, Nil) /\ Contents(heap, Nil) = <<>> /\ Nil.array = 0
  <2>1. Len(heap) \in Nat
    BY DEF World
  <2> QED
    BY <2>1 DEF Nil, Slice, IsSlice, CapOf, Contents
<1>6. World(heap, L2, W2)
  <2>1. \A u \in DOMAIN L2 : L2[u] \in Slice /\ IsSlice(heap, L2[u])
    BY <1>5 DEF World
  <2>2. \A g \in Goroutines : W2[g].op \in Pending =>
          /\ W2[g].list \in DOMAIN L2
          /\ W2[g].slice \in Slice /\ IsSlice(heap, W2[g].slice)
    BY DEF World
  <2>3. ASSUME NEW u \in DOMAIN L2, NEW v \in DOMAIN L2, u # v,
               NEW s \in Held(L2, W2, u), NEW t \in Held(L2, W2, v)
        PROVE  Foreign(s, t)
    <3>1. CASE u \in DOMAIN L /\ v \in DOMAIN L
      BY <1>2, <2>3, <3>1 DEF World, Apart
    <3>2. CASE u \notin DOMAIN L
      BY <1>4, <1>5, <3>2 DEF Foreign
    <3>3. CASE v \notin DOMAIN L
      BY <1>4, <1>5, <3>3 DEF Foreign
    <3> QED
      BY <3>1, <3>2, <3>3
  <2> QED
    BY <2>1, <2>2, <2>3 DEF World, Apart
<1>7. \A u \in DOMAIN L : Shown(heap, L2, W2, u) = Shown(heap, L, W, u)
  BY <1>1, ShownSame
<1>8. ASSUME NEW u \in DOMAIN L, Alone(W, u), Steady(heap, L, W, u)
      PROVE  Steady(heap, L2, W2, u)
  BY <1>1, <1>8, SteadySame
<1>9. \A u \in DOMAIN L2 \ DOMAIN L : Shown(heap, L2, W2, u) = {<<>>}
  BY <1>3, <1>5 DEF Shown
<1>10. ASSUME NEW u \in DOMAIN L2 \ DOMAIN L,
              \A g \in Goroutines : W2[g].op = "aims" => W2[g].list # u
       PROVE  Steady(heap, L2, W2, u)
  <2>1. <<>> \in Seq(Clients)
    OBVIOUS
  <2>2. \A g \in Goroutines : W2[g].list = u => W2[g].op \notin Pending \union {"aims"}
    BY <1>3, <1>10 DEF PendsAt
  <2>3. \A q \in Shown(heap, L2, W2, u) : q \in Seq(Clients)
    BY <1>9, <2>1
  <2> QED
    BY <2>2, <2>3 DEF Steady, Pending
<1> QED
  BY <1>2, <1>4, <1>6, <1>7, <1>8, <1>9, <1>10

\* Of the same array, or of a new one.
NearBy(heap, s, t) == t.array \in {s.array, Len(heap) + 1}

\* The lists other than u are what they were.
Elsewhere(heap, L, W, heap2, L2, W2, u) ==
    \A v \in DOMAIN L \ {u} :
        /\ Held(L2, W2, v) = Held(L, W, v)
        /\ Shown(heap2, L2, W2, v) = Shown(heap, L, W, v)
        /\ Steady(heap, L, W, v) => Steady(heap2, L2, W2, v)

\* A goroutine writes into the array of a list or into a new one: the slices
\* of other lists hold what they held.
LEMMA WriteStep ==
    ASSUME NEW heap, NEW L, NEW W, NEW W2, World(heap, L, W),
           NEW heap2 \in Seq(Seq(Goroutines)), NEW g \in Goroutines,
           NEW u \in DOMAIN L, NEW t \in Slice,
           Kept(heap, heap2, L[u].array), IsSlice(heap2, t),
           NearBy(heap, L[u], t),
           Writes(W, W2, g, u, t)
    PROVE  /\ World(heap2, L, W2)
           /\ Held(L, W2, u) = Held(L, W, u) \union {t}
           /\ Elsewhere(heap, L, W, heap2, L, W2, u)
<1> USE DEF Writes, OthersStay
<1>1. Len(heap) \in Nat /\ Len(heap2) \in Nat /\ heap \in Seq(Seq(Goroutines))
  BY DEF World
<1>2. \A v \in DOMAIN L \ {u} : SamePending(W, W2, v)
  BY DEF SamePending, PendsAt
<1>3. \A v \in DOMAIN L \ {u} : Held(L, W2, v) = Held(L, W, v)
  BY <1>2, HeldSame
<1>4. Held(L, W2, u) = Held(L, W, u) \union {t}
  <2>1. {h \in Goroutines : PendsAt(W2, h, u)}
          = {h \in Goroutines : PendsAt(W, h, u)} \union {g}
    BY DEF PendsAt
  <2>2. \A h \in {k \in Goroutines : PendsAt(W, k, u)} : W2[h] = W[h]
    BY DEF PendsAt
  <2> QED
    BY <2>1, <2>2 DEF Held
<1>5. ASSUME NEW s \in Slice, IsSlice(heap, s)
      PROVE  /\ IsSlice(heap2, s)
             /\ Foreign(L[u], s) => Contents(heap2, s) = Contents(heap, s)
  BY <1>1, <1>5, SliceStays DEF Foreign
<1>6. \A v \in DOMAIN L : L[v] \in Held(L, W, v)
  BY DEF Held
<1>7. \A v \in DOMAIN L \ {u} : \A s \in Held(L, W, v) : Foreign(L[u], s) /\ Foreign(s, L[u])
  BY <1>6 DEF World, Apart
<1>8. World(heap2, L, W2)
  <2>1. \A v \in DOMAIN L : L[v] \in Slice /\ IsSlice(heap2, L[v])
    BY <1>5 DEF World
  <2>2. \A h \in Goroutines : W2[h].op \in Pending =>
          /\ W2[h].list \in DOMAIN L
          /\ W2[h].slice \in Slice /\ IsSlice(heap2, W2[h].slice)
    BY <1>5 DEF World
  <2>3. ASSUME NEW v \in DOMAIN L \ {u}, NEW s \in Held(L, W, v)
        PROVE  Foreign(s, t) /\ Foreign(t, s)
    <3>1. s.array \in 0..Len(heap)
      BY HeldValid
    <3>2. CASE t.array = L[u].array
      BY <1>7, <2>3, <3>2 DEF Foreign
    <3>3. CASE t.array = Len(heap) + 1
      BY <1>1, <3>1, <3>3 DEF Foreign
    <3> QED
      BY <3>2, <3>3 DEF NearBy
  <2>4. ASSUME NEW v \in DOMAIN L, NEW w \in DOMAIN L, v # w,
               NEW r \in Held(L, W2, v), NEW s \in Held(L, W2, w)
        PROVE  Foreign(r, s)
    <3>1. CASE v # u /\ w # u
      BY <1>3, <2>4, <3>1 DEF World, Apart
    <3>2. CASE v = u
      BY <1>3, <1>4, <2>3, <2>4, <3>2 DEF World, Apart
    <3>3. CASE w = u
      BY <1>3, <1>4, <2>3, <2>4, <3>3 DEF World, Apart
    <3> QED
      BY <3>1, <3>2, <3>3
  <2> QED
    BY <2>1, <2>2, <2>4 DEF World, Apart
<1>9. \A v \in DOMAIN L \ {u} : \A s \in Held(L, W, v) : Contents(heap2, s) = Contents(heap, s)
  BY <1>5, <1>7, HeldValid
<1>10. \A v \in DOMAIN L \ {u} : Shown(heap2, L, W2, v) = Shown(heap, L, W, v)
  BY <1>2, <1>9, ShownSame
<1>11. ASSUME NEW v \in DOMAIN L \ {u}, Steady(heap, L, W, v)
       PROVE  Steady(heap2, L, W2, v)
  <2>1. \A h \in Goroutines : W2[h].list = v => W2[h] = W[h]
    OBVIOUS
  <2> QED
    BY <1>2, <1>9, <1>11, <2>1, SteadySame
<1> QED
  BY <1>3, <1>4, <1>8, <1>10, <1>11 DEF Elsewhere

\* Only the one goroutine at a list can have something pending at it.
LEMMA AloneShows ==
    ASSUME NEW heap, NEW L, NEW W, NEW u, NEW g \in Goroutines,
           Alone(W, u), WorksAt(W, g, u)
    PROVE  Shown(heap, L, W, u) =
             IF W[g].op \in Pending THEN {Contents(heap, W[g].slice)}
             ELSE {Contents(heap, L[u])}
<1>1. \A h \in Goroutines : PendsAt(W, h, u) => h = g
  BY DEF PendsAt, WorksAt, Alone, Pending
<1>2. CASE W[g].op \in Pending
  <2>1. {h \in Goroutines : PendsAt(W, h, u)} = {g}
    BY <1>1, <1>2 DEF PendsAt, WorksAt
  <2> QED
    BY <1>2, <2>1 DEF Shown
<1>3. CASE W[g].op \notin Pending
  BY <1>1, <1>3 DEF Shown, PendsAt
<1> QED
  BY <1>2, <1>3

-----------------------------------------------------------------------------
(* What a step does to the lists: nothing, append, delete or store.          *)

Adds(W, after, g, u, x, t) ==
    /\ W[g].op = "on" /\ W[g].list = u
    /\ after[g].op = "adds" /\ after[g].list = u /\ after[g].who = x /\ after[g].slice = t
    /\ OthersStay(W, after, g)

Removes(W, after, g, u, i, t) ==
    /\ W[g].op = "aims" /\ W[g].list = u /\ W[g].index = i
    /\ after[g].op = "removes" /\ after[g].list = u /\ after[g].slice = t
    /\ OthersStay(W, after, g)

Rests(heap, L, L2, W, W2) ==
    /\ DOMAIN L \subseteq DOMAIN L2
    /\ \A u \in DOMAIN L : L2[u] = L[u]
    /\ \A u \in DOMAIN L2 \ DOMAIN L : L2[u] = Nil
    /\ \A g \in Goroutines :
         W[g].op \in Pending \/ W2[g].op \in Pending => W2[g] = W[g]
    /\ \A g \in Goroutines : W2[g].op = "aims" =>
         \/ W2[g] = W[g]
         \/ /\ W2[g].list \in DOMAIN L
            /\ W2[g].index \in 1..L[W2[g].list].len
            /\ Contents(heap, L[W2[g].list])[W2[g].index] = W2[g].who
Appends(heap, heap2, L, W, W2, g, u, x) ==
    /\ u \in DOMAIN L
    /\ heap2 = Appended(heap, L[u], <<x>>, None)
    /\ Adds(W, W2, g, u, x, AppendTo(heap, L[u], <<x>>))
Deletes(heap, heap2, L, W, W2, g, u, i) ==
    /\ u \in DOMAIN L /\ PlaceIn(i, L[u])
    /\ heap2 = Deleted(heap, L[u], i, None)
    /\ Removes(W, W2, g, u, i, Shorter(L[u]))
Stores(L, L2, W, W2, g, u) ==
    /\ u \in DOMAIN L
    /\ W[g].op \in Pending /\ W2[g].op \in {"off", "on"}
    /\ WorksAt(W, g, u) /\ OthersStay(W, W2, g)
    /\ DOMAIN L2 = DOMAIN L /\ L2[u] = W[g].slice
    /\ \A v \in DOMAIN L \ {u} : L2[v] = L[v]

\* append by the one goroutine at a list.
LEMMA AppendStep ==
    ASSUME NEW heap, NEW heap2, NEW L, NEW W, NEW W2, NEW g, NEW u, NEW x,
           g \in Goroutines, x \in Clients, World(heap, L, W),
           Appends(heap, heap2, L, W, W2, g, u, x)
    PROVE  /\ World(heap2, L, W2)
           /\ Held(L, W2, u) = Held(L, W, u) \union {W2[g].slice}
           /\ Elsewhere(heap, L, W, heap2, L, W2, u)
           /\ Alone(W, u) /\ Steady(heap, L, W, u) =>
                /\ Steady(heap2, L, W2, u)
                /\ \E p \in Shown(heap, L, W, u) : Shown(heap2, L, W2, u) = {Append(p, x)}
<1> DEFINE xs == <<x>>
           s == L[u]
           after == Appended(heap, s, xs, None)
           t == AppendTo(heap, s, xs)
<1>0. u \in DOMAIN L /\ heap2 = after /\ Adds(W, W2, g, u, x, t)
  BY DEF Appends
<1>1. heap \in Seq(Seq(Goroutines)) /\ s \in Slice /\ IsSlice(heap, s)
  BY <1>0 DEF World
<1>2. xs \in Seq(Goroutines) /\ None \in Goroutines
  BY DEF Goroutines
<1> HIDE DEF xs
<1>3. /\ after \in Seq(Seq(Goroutines)) /\ Kept(heap, after, s.array)
      /\ t \in Slice /\ IsSlice(after, t)
      /\ NearBy(heap, s, t)
  BY <1>1, <1>2, AppendKeeps DEF NearBy
<1>4. Contents(after, t) = Contents(heap, s) \o xs
  BY <1>1, <1>2, AppendContents
<1>5. Contents(after, s) = Contents(heap, s)
  <2>1. Within(s, s)
    BY <1>1 DEF Within, Slice
  <2> HIDE DEF s
  <2> QED
    BY <1>1, <1>2, <2>1, AppendSpares
<1> HIDE DEF after, t
<1>5a. /\ W[g].op \notin Pending /\ WorksAt(W, g, u)
       /\ W2[g].op \in Pending /\ WorksAt(W2, g, u)
       /\ W2[g].slice = t
  BY <1>0 DEF Pending, WorksAt, Adds
<1>6. Writes(W, W2, g, u, t)
  BY <1>0, <1>5a DEF Adds, Writes, WorksAt
<1>8. /\ World(after, L, W2)
      /\ Held(L, W2, u) = Held(L, W, u) \union {t}
      /\ Elsewhere(heap, L, W, after, L, W2, u)
  BY <1>0, <1>3, <1>6, WriteStep
<1>9. ASSUME Alone(W, u), Steady(heap, L, W, u)
      PROVE  /\ Steady(after, L, W2, u)
             /\ \E p \in Shown(heap, L, W, u) : Shown(after, L, W2, u) = {Append(p, x)}
  <2> DEFINE p == Contents(heap, s)
  <2>1. Shown(heap, L, W, u) = {p}
    BY <1>5a, <1>9, AloneShows
  <2>2. p \in Seq(Clients)
    BY <1>9, <2>1 DEF Steady
  <2>3. p \o xs = Append(p, x) /\ Append(p, x) \in Seq(Clients)
    <3> HIDE DEF p
    <3> QED
      BY <2>2 DEF xs
  <2>4. Alone(W2, u)
    <3>1. \A h \in Goroutines : WorksAt(W2, h, u) => WorksAt(W, h, u)
      BY <1>5a, <1>6 DEF Writes, OthersStay, WorksAt
    <3> QED
      BY <1>9, <3>1 DEF Alone
  <2>5. Shown(after, L, W2, u) = {Append(p, x)}
    <3>1. Shown(after, L, W2, u) = {Contents(after, t)}
      BY <1>5a, <2>4, AloneShows
    <3> QED
      BY <1>4, <2>3, <3>1
  <2>6. \A h \in Goroutines : W2[h].list = u /\ W2[h].op # "off" => h = g
    BY <1>5a, <2>4 DEF Alone, WorksAt
  <2>7. Contents(after, W2[g].slice) = Append(Contents(after, L[u]), W2[g].who)
    BY <1>0, <1>4, <1>5, <1>5a, <2>3 DEF Adds
  <2>8. Steady(after, L, W2, u)
    <3>1. \A q \in Shown(after, L, W2, u) : q \in Seq(Clients)
      BY <2>3, <2>5
    <3> QED
      BY <1>0, <2>6, <2>7, <3>1 DEF Steady, Adds
  <2> QED
    BY <2>1, <2>5, <2>8
<1> QED
  BY <1>0, <1>5a, <1>8, <1>9

\* slices.Delete by the one goroutine at a list: it takes out what it was after.
LEMMA DeleteStep ==
    ASSUME NEW heap, NEW heap2, NEW L, NEW W, NEW W2, NEW g, NEW u, NEW i,
           g \in Goroutines, World(heap, L, W),
           Deletes(heap, heap2, L, W, W2, g, u, i)
    PROVE  /\ World(heap2, L, W2)
           /\ Elsewhere(heap, L, W, heap2, L, W2, u)
           /\ Alone(W, u) /\ Steady(heap, L, W, u) =>
                /\ Steady(heap2, L, W2, u)
                /\ \E p \in Shown(heap, L, W, u) :
                     /\ i \in 1..Len(p) /\ p[i] = W[g].who
                     /\ Shown(heap2, L, W2, u) = {WithoutAt(p, i)}
<1> DEFINE s == L[u]
           after == Deleted(heap, s, i, None)
           t == Shorter(s)
<1>0. u \in DOMAIN L /\ PlaceIn(i, s) /\ heap2 = after /\ Removes(W, W2, g, u, i, t)
  BY DEF Deletes
<1>1. heap \in Seq(Seq(Goroutines)) /\ s \in Slice /\ IsSlice(heap, s)
  BY <1>0 DEF World
<1>2. None \in Goroutines
  BY DEF Goroutines
<1>3. /\ after \in Seq(Seq(Goroutines)) /\ Kept(heap, after, s.array)
      /\ t \in Slice /\ IsSlice(after, t)
      /\ Contents(after, t) = WithoutAt(Contents(heap, s), i)
      /\ Contents(after, s) = Append(WithoutAt(Contents(heap, s), i), None)
  <2> HIDE DEF s
  <2> QED
    BY <1>0, <1>1, <1>2, DeleteKeeps
<1>4. NearBy(heap, s, t)
  BY <1>1 DEF Shorter, Slice, NearBy
<1> HIDE DEF after, t
<1>5a. /\ W[g].op \notin Pending /\ WorksAt(W, g, u)
       /\ W2[g].op \in Pending /\ WorksAt(W2, g, u)
       /\ W2[g].slice = t
  BY <1>0 DEF Pending, WorksAt, Removes
<1>6. Writes(W, W2, g, u, t)
  BY <1>0, <1>5a DEF Removes, Writes, WorksAt
<1>8. /\ World(after, L, W2)
      /\ Elsewhere(heap, L, W, after, L, W2, u)
  BY <1>0, <1>3, <1>4, <1>6, WriteStep
<1>9. ASSUME Alone(W, u), Steady(heap, L, W, u)
      PROVE  /\ Steady(after, L, W2, u)
             /\ \E p \in Shown(heap, L, W, u) :
                  /\ i \in 1..Len(p) /\ p[i] = W[g].who
                  /\ Shown(after, L, W2, u) = {WithoutAt(p, i)}
  <2> DEFINE p == Contents(heap, s)
  <2>1. Shown(heap, L, W, u) = {p}
    BY <1>5a, <1>9, AloneShows
  <2>2. p \in Seq(Clients) /\ Len(p) = s.len /\ p[i] = W[g].who
    <3>1. p \in Seq(Clients) /\ Len(p) = s.len
      BY <1>1, <1>9, <2>1, ContentsType DEF Steady
    <3>2. p[i] = W[g].who
      BY <1>0, <1>9 DEF Steady, Removes
    <3> QED
      BY <3>1, <3>2
  <2>3. WithoutAt(p, i) \in Seq(Clients)
    <3> HIDE DEF p
    <3> QED
      BY <1>0, <2>2, WithoutType DEF PlaceIn
  <2>4. Alone(W2, u)
    <3>1. \A h \in Goroutines : WorksAt(W2, h, u) => WorksAt(W, h, u)
      BY <1>5a, <1>6 DEF Writes, OthersStay, WorksAt
    <3> QED
      BY <1>9, <3>1 DEF Alone
  <2>5. Shown(after, L, W2, u) = {WithoutAt(p, i)}
    BY <1>3, <1>5a, <2>4, AloneShows
  <2>6. \A h \in Goroutines : W2[h].list = u /\ W2[h].op # "off" => h = g
    BY <1>5a, <2>4 DEF Alone, WorksAt
  <2>7. /\ W2[g].slice = Shorter(L[u])
        /\ Contents(after, L[u]) = Append(Contents(after, W2[g].slice), None)
    BY <1>3, <1>5a DEF t
  <2>8. Steady(after, L, W2, u)
    <3>1. \A q \in Shown(after, L, W2, u) : q \in Seq(Clients)
      BY <2>3, <2>5
    <3> QED
      BY <1>0, <2>6, <2>7, <3>1 DEF Steady, Removes
  <2> QED
    BY <1>0, <2>1, <2>2, <2>5, <2>8 DEF PlaceIn
<1> QED
  BY <1>0, <1>8, <1>9

\* What was pending at a list is stored.
LEMMA StoreStep ==
    ASSUME NEW heap, NEW L, NEW L2, NEW W, NEW W2, NEW g, NEW u,
           g \in Goroutines, World(heap, L, W), Stores(L, L2, W, W2, g, u)
    PROVE  /\ World(heap, L2, W2)
           /\ Held(L2, W2, u) \subseteq Held(L, W, u)
           /\ Elsewhere(heap, L, W, heap, L2, W2, u)
           /\ Alone(W, u) /\ Steady(heap, L, W, u) =>
                /\ Steady(heap, L2, W2, u)
                /\ Shown(heap, L2, W2, u) = Shown(heap, L, W, u)
<1> USE DEF OthersStay
<1>0. /\ u \in DOMAIN L /\ W[g].op \in Pending
      /\ W2[g].op \in {"off", "on"} /\ WorksAt(W, g, u) /\ OthersStay(W, W2, g)
      /\ DOMAIN L2 = DOMAIN L /\ L2[u] = W[g].slice
      /\ \A v \in DOMAIN L \ {u} : L2[v] = L[v]
  BY DEF Stores
<1> USE <1>0
<1>1. W2[g].op \notin Pending \union {"aims"} /\ W[g].op # "off" /\ W[g].list = u
  BY DEF Pending, WorksAt
<1>2. \A v \in DOMAIN L \ {u} : SamePending(W, W2, v)
  BY <1>1 DEF SamePending, PendsAt
<1>3. \A v \in DOMAIN L \ {u} : Held(L2, W2, v) = Held(L, W, v)
  BY <1>2, HeldSame
<1>4. Held(L2, W2, u) \subseteq Held(L, W, u)
  <2>1. W[g].slice \in Held(L, W, u)
    BY <1>1 DEF Held, PendsAt
  <2>2. \A h \in Goroutines : PendsAt(W2, h, u) => PendsAt(W, h, u) /\ W2[h] = W[h]
    BY <1>1 DEF PendsAt
  <2> QED
    BY <2>1, <2>2 DEF Held
<1>5. World(heap, L2, W2)
  <2>1. \A v \in DOMAIN L2 : L2[v] \in Slice /\ IsSlice(heap, L2[v])
    BY DEF World
  <2>2. \A h \in Goroutines : W2[h].op \in Pending =>
          /\ W2[h].list \in DOMAIN L2
          /\ W2[h].slice \in Slice /\ IsSlice(heap, W2[h].slice)
    BY <1>1 DEF World
  <2>3. Apart(L2, W2)
    BY <1>3, <1>4 DEF World, Apart
  <2> QED
    BY <2>1, <2>2, <2>3 DEF World
<1>6. \A v \in DOMAIN L \ {u} : Shown(heap, L2, W2, v) = Shown(heap, L, W, v)
  BY <1>2, ShownSame
<1>7. ASSUME NEW v \in DOMAIN L \ {u}, Steady(heap, L, W, v)
      PROVE  Steady(heap, L2, W2, v)
  <2>1. \A h \in Goroutines : W2[h].op = "aims" => W2[h] = W[h]
    BY <1>1
  <2> QED
    BY <1>2, <1>7, <2>1, SteadySame
<1>8. ASSUME Alone(W, u), Steady(heap, L, W, u)
      PROVE  /\ Steady(heap, L2, W2, u)
             /\ Shown(heap, L2, W2, u) = Shown(heap, L, W, u)
  <2>1. \A h \in Goroutines : W2[h].list = u /\ W2[h].op # "off" => h = g
    BY <1>1, <1>8 DEF Alone, WorksAt
  <2>2. \A h \in Goroutines : ~PendsAt(W2, h, u)
    BY <1>1, <2>1 DEF PendsAt, Pending
  <2>3. Shown(heap, L2, W2, u) = {Contents(heap, W[g].slice)}
    BY <2>2 DEF Shown
  <2>4. Shown(heap, L, W, u) = {Contents(heap, W[g].slice)}
    BY <1>1, <1>8, AloneShows
  <2>5. \A q \in Shown(heap, L2, W2, u) : q \in Seq(Clients)
    BY <1>8, <2>3, <2>4 DEF Steady
  <2>6. \A h \in Goroutines : W2[h].list = u => W2[h].op \notin Pending \union {"aims"}
    BY <1>1, <2>1 DEF Pending
  <2>7. Steady(heap, L2, W2, u)
    BY <2>5, <2>6 DEF Steady, Pending
  <2> QED
    BY <2>3, <2>4, <2>7
<1> QED
  BY <1>3, <1>4, <1>5, <1>6, <1>7, <1>8 DEF Elsewhere

LEMMA RestStep ==
    ASSUME NEW heap, NEW L, NEW L2, NEW W, NEW W2, World(heap, L, W),
           Rests(heap, L, L2, W, W2)
    PROVE  /\ World(heap, L2, W2)
           /\ \A u \in DOMAIN L :
                /\ Held(L2, W2, u) = Held(L, W, u)
                /\ Shown(heap, L2, W2, u) = Shown(heap, L, W, u)
                /\ Alone(W, u) /\ Steady(heap, L, W, u) => Steady(heap, L2, W2, u)
           /\ \A u \in DOMAIN L2 \ DOMAIN L :
                /\ Held(L2, W2, u) = {Nil}
                /\ Shown(heap, L2, W2, u) = {<<>>}
                /\ (\A g \in Goroutines : W2[g].op = "aims" => W2[g].list # u) =>
                      Steady(heap, L2, W2, u)
<1>1. \A g \in Goroutines : W2[g].op = "aims" =>
        \/ W2[g] = W[g]
        \/ /\ W2[g].list \in DOMAIN L
           /\ Alone(W, W2[g].list) /\ Steady(heap, L, W, W2[g].list) =>
                /\ W2[g].index \in 1..L[W2[g].list].len
                /\ Contents(heap, L[W2[g].list])[W2[g].index] = W2[g].who
  BY DEF Rests
<1>2. /\ DOMAIN L \subseteq DOMAIN L2
      /\ \A u \in DOMAIN L : L2[u] = L[u]
      /\ \A u \in DOMAIN L2 \ DOMAIN L : L2[u] = Nil
      /\ \A g \in Goroutines :
           W[g].op \in Pending \/ W2[g].op \in Pending => W2[g] = W[g]
  BY DEF Rests
<1> QED
  BY <1>1, <1>2, QuietStep

-----------------------------------------------------------------------------
(* Searches.                                                                *)

\* i is the first place of an element of T, or 0.
Finds(q, T, i) ==
    \/ i = 0 /\ \A j \in 1..Len(q) : q[j] \notin T
    \/ i \in 1..Len(q) /\ q[i] \in T /\ \A j \in 1..i - 1 : q[j] \notin T

LEMMA Least ==
    ASSUME NEW H \in SUBSET Nat, H # {}
    PROVE  \E m \in H : /\ m = CHOOSE i \in H : \A j \in H : i <= j
                        /\ \A j \in H : m <= j
<1>1. PICK n \in H : \A m \in H : ~(<<m, n>> \in OpToRel(<, Nat))
  BY NatLessThanWellFounded, WFMin
<1>2. \A m \in H : ~(m < n)
  BY <1>1 DEF OpToRel
<1>3. \A m \in H : n <= m
  BY <1>2
<1> QED
  BY <1>3

LEMMA FindsFirst ==
    ASSUME NEW S, NEW q \in Seq(S), NEW T, NEW H, H = {i \in DOMAIN q : q[i] \in T}
    PROVE  Finds(q, T, IF H = {} THEN 0 ELSE CHOOSE i \in H : \A j \in H : i <= j)
<1>1. DOMAIN q = 1..Len(q) /\ Len(q) \in Nat
  OBVIOUS
<1>2. H \in SUBSET Nat
  BY <1>1
<1>3. CASE H = {}
  BY <1>1, <1>3 DEF Finds
<1>4. CASE H # {}
  <2>1. PICK m \in H : /\ m = CHOOSE i \in H : \A j \in H : i <= j
                       /\ \A j \in H : m <= j
    BY <1>2, <1>4, Least
  <2>2. ASSUME NEW j \in 1..m - 1 PROVE q[j] \notin T
    BY <1>1, <1>2, <2>1
  <2>3. Finds(q, T, m)
    BY <1>1, <2>1, <2>2 DEF Finds
  <2> QED
    BY <1>4, <2>1, <2>3
<1> QED
  BY <1>3, <1>4

-----------------------------------------------------------------------------
(* The types.                                                               *)

Apps == {a.app : a \in Accounts} \union {NoApp}
OpenClients == {c \in Clients : client[c].open}
ClientType == [open : BOOLEAN, user : Nat, app : Apps, closed : BOOLEAN,
               logins : Seq(Accounts), drops : Nat, left : BOOLEAN]
RequestType == [pc : {"idle", "scan", "cut", "cutted", "add", "added", "kick", "map",
                      "index", "delete", "deleted"},
                uid : Uids \union {NoUid}, app : Apps, user : Nat, index : Nat,
                kick : Goroutines, slice : Slice]
HubType == [pc : {"select", "append", "appended", "logout", "cut", "store", "close",
                  "index", "delete", "deleted"},
            client : Goroutines, user : Nat, index : Nat, slice : Slice]
CastType == [pc : {"idle", "guests", "range", "user", "done"}, slice : Slice,
             at : Nat, left : SUBSET Uids, owed : SUBSET Clients]
UserType == [uid : Uids, clients : Slice]
SeenTyped == DOMAIN seen = {"lists", "uids", "kicked", "moved", "late", "shifted"}

Typed ==
    /\ client \in [Clients -> ClientType]
    /\ request \in [Clients -> RequestType]
    /\ hub \in HubType
    /\ guests \in Slice
    /\ users \in Seq(UserType)
    /\ stored \in [Uids -> Nat]
    /\ guard \in Uids \union {NoUid}
    /\ cast \in CastType
    /\ crashed \in BOOLEAN

\* A Request in a login has a user and an open connection, and the client has
\* the user once it is through the search.
RequestsRanged ==
    \A c \in Clients :
        /\ request[c].pc # "idle" =>
             /\ request[c].user \in 1..Len(users)
             /\ users[request[c].user].uid = request[c].uid
             /\ client[c].open
        /\ request[c].pc \notin {"idle", "scan"} =>
             client[c].user = request[c].user /\ client[c].app = request[c].app
        /\ request[c].pc \in {"delete", "cut"} => request[c].index >= 1
        /\ request[c].pc \in {"cut", "cutted", "kick"} => request[c].kick # None
        /\ request[c].kick # None => request[c].kick # c /\ client[request[c].kick].open

ClientsRanged ==
    \A c \in Clients :
        /\ client[c].user \in 0..Len(users)
        /\ client[c].user # 0 => client[c].open
        /\ client[c].closed => client[c].open

HubRanged ==
    /\ hub.pc # "select" => hub.client \in Clients /\ client[hub.client].open
    /\ hub.pc \in {"logout", "cut", "store"} => client[hub.client].user # 0
    /\ hub.pc \in {"cut", "store"} => hub.user \in 1..Len(users)
    /\ hub.pc \in {"delete", "cut"} => hub.index >= 1
    /\ hub.pc \in {"index", "delete", "deleted"} => client[hub.client].closed

StoredRanged ==
    \A uid \in Uids :
        /\ stored[uid] \in 0..Len(users)
        /\ stored[uid] # 0 => users[stored[uid]].uid = uid

\* Who is listed is connected.
ListedOpen == arrays \in Seq(Seq(OpenClients \union {None}))

Ranged == RequestsRanged /\ ClientsRanged /\ HubRanged /\ StoredRanged /\ ListedOpen

\* Nobody is connected.
LEMMA TypedInit == Init => Typed /\ Ranged /\ SeenTyped
<1> SUFFICES ASSUME Init PROVE Typed /\ Ranged /\ SeenTyped
  OBVIOUS
<1>1. Nil \in Slice
  BY DEF Nil, Slice
<1>2. Plans \subseteq Seq(Accounts)
  <2> SUFFICES ASSUME NEW p \in Plans PROVE p \in Seq(Accounts)
    OBVIOUS
  <2>1. PICK n \in 0..MaxLogins : p \in [1..n -> Accounts]
    BY DEF Plans
  <2>2. n \in Nat
    BY BoundsAssumption
  <2> QED
    BY <2>1, <2>2, FunctionIsSeq
<1>3. \A c \in Clients : /\ client[c] \in ClientType /\ client[c].user = 0
                         /\ ~client[c].open /\ ~client[c].closed
  <2> SUFFICES ASSUME NEW c \in Clients
               PROVE  /\ client[c] \in ClientType /\ client[c].user = 0
                      /\ ~client[c].open /\ ~client[c].closed
    OBVIOUS
  <2>1. client[c] \in [open : {FALSE}, user : {0}, app : {NoApp}, closed : {FALSE},
                       logins : Plans, drops : 0..MaxDrops, left : {FALSE}]
    BY DEF Init
  <2>2. 0..MaxDrops \subseteq Nat
    BY BoundsAssumption
  <2>3. PICK pl \in Plans, dr \in 0..MaxDrops :
          client[c] = [open |-> FALSE, user |-> 0, app |-> NoApp, closed |-> FALSE,
                       logins |-> pl, drops |-> dr, left |-> FALSE]
    BY <2>1
  <2>4. pl \in Seq(Accounts) /\ dr \in Nat /\ NoApp \in Apps
    BY <1>2, <2>2 DEF Apps
  <2> QED
    BY <2>3, <2>4 DEF ClientType
<1>4. client \in [Clients -> ClientType]
  <2>1. client = [c \in Clients |-> client[c]]
    BY DEF Init
  <2> QED
    BY <1>3, <2>1
<1>5. Idle \in RequestType
  BY <1>1 DEF Idle, RequestType, Apps, Goroutines
<1>6. request \in [Clients -> RequestType] /\ \A c \in Clients : request[c] = Idle
  BY <1>5 DEF Init
<1>7. hub \in HubType
  BY <1>1 DEF Init, Resting, HubType, Goroutines
<1>8. cast \in CastType
  <2>1. PICK pc \in {"idle", "done"} :
          cast = [pc |-> pc, slice |-> Nil, at |-> 0, left |-> {}, owed |-> {}]
    BY DEF Init
  <2> QED
    BY <1>1, <2>1 DEF CastType
<1>9. Typed
  <2>0. stored = [uid \in Uids |-> 0] /\ users = <<>>
    BY DEF Init
  <2>1. stored \in [Uids -> Nat] /\ users \in Seq(UserType)
    BY <2>0
  <2> QED
    BY <1>1, <1>4, <1>6, <1>7, <1>8, <2>1 DEF Init, Typed
<1>10. RequestsRanged
  <2>1. \A c \in Clients : request[c].pc = "idle" /\ request[c].kick = None
    BY <1>6 DEF Idle
  <2> QED
    BY <2>1 DEF RequestsRanged
<1>11. ClientsRanged
  <2>1. Len(users) = 0
    BY DEF Init
  <2> QED
    BY <1>3, <2>1 DEF ClientsRanged
<1>12. HubRanged
  BY DEF Init, Resting, HubRanged
<1>13. StoredRanged
  <2>1. stored = [uid \in Uids |-> 0] /\ users = <<>>
    BY DEF Init
  <2>2. \A uid \in Uids : stored[uid] = 0
    BY <2>1
  <2>3. Len(users) = 0
    BY <2>1
  <2> QED
    BY <2>2, <2>3 DEF StoredRanged
<1>14. ListedOpen
  <2>1. arrays = <<>>
    BY DEF Init
  <2> QED
    BY <2>1 DEF ListedOpen
<1>15. SeenTyped
  BY DEF Init, SeenTyped
<1> QED
  BY <1>9, <1>10, <1>11, <1>12, <1>13, <1>14, <1>15 DEF Ranged

-----------------------------------------------------------------------------
(* The lists and the goroutines of the registry.                            *)

Lists == [u \in 0..Len(users) |-> IF u = 0 THEN guests ELSE Of(u)]

HubOp == IF hub.pc \in {"append", "index", "logout"} THEN "on"
         ELSE IF hub.pc = "appended" THEN "adds"
         ELSE IF hub.pc \in {"deleted", "store"} THEN "removes"
         ELSE IF hub.pc \in {"delete", "cut"} THEN "aims" ELSE "off"
HubList == IF hub.pc = "logout" THEN client[hub.client].user
           ELSE IF hub.pc \in {"cut", "store"} THEN hub.user ELSE 0

RequestOp(c) == IF request[c].pc \in {"scan", "add", "index"} THEN "on"
                ELSE IF request[c].pc = "added" THEN "adds"
                ELSE IF request[c].pc \in {"cutted", "deleted"} THEN "removes"
                ELSE IF request[c].pc \in {"cut", "delete"} THEN "aims" ELSE "off"
RequestList(c) == IF request[c].pc \in {"scan", "cut", "cutted", "add", "added"}
                  THEN request[c].user ELSE 0

HubWork == [op |-> HubOp, list |-> HubList, slice |-> hub.slice,
            index |-> hub.index, who |-> hub.client]
RequestWork(c) ==
    [op |-> RequestOp(c), list |-> RequestList(c), slice |-> request[c].slice,
     index |-> request[c].index,
     who |-> IF request[c].pc \in {"cut", "cutted"} THEN request[c].kick ELSE c]
Work == [g \in Goroutines |-> IF g = None THEN HubWork ELSE RequestWork(g)]

RealWorld == World(arrays, Lists, Work)

-----------------------------------------------------------------------------
(* Types are kept, action by action.                                        *)

\* A heap stays one when more clients are connected.
LEMMA HeapMono ==
    ASSUME NEW A, NEW B, A \subseteq B, NEW h \in Seq(Seq(A))
    PROVE  h \in Seq(Seq(B))
<1>1. Seq(A) \subseteq Seq(B)
  OBVIOUS
<1> QED
  BY <1>1

\* What is known of the slice of a list.
LEMMA ListFacts ==
    ASSUME Typed, RealWorld, NEW u \in 0..Len(users)
    PROVE  /\ Lists[u] \in Slice /\ IsSlice(arrays, Lists[u])
           /\ u = 0 => Lists[u] = guests
           /\ u # 0 => Lists[u] = Of(u)
           /\ Contents(arrays, Lists[u]) \in Seq(Goroutines)
           /\ Len(Contents(arrays, Lists[u])) = Lists[u].len
           /\ DOMAIN Contents(arrays, Lists[u]) = 1..Lists[u].len
<1>1. DOMAIN Lists = 0..Len(users)
  BY DEF Lists
<1>2. /\ Lists[u] \in Slice /\ IsSlice(arrays, Lists[u])
      /\ arrays \in Seq(Seq(Goroutines))
  BY <1>1 DEF RealWorld, World
<1>3. /\ u = 0 => Lists[u] = guests
      /\ u # 0 => Lists[u] = Of(u)
  BY DEF Lists
<1>4. /\ Contents(arrays, Lists[u]) \in Seq(Goroutines)
      /\ Len(Contents(arrays, Lists[u])) = Lists[u].len
  BY <1>2, ContentsType
<1> QED
  BY <1>2, <1>3, <1>4

\* append and slices.Delete keep the heap of connected clients.
LEMMA HeapAppend ==
    ASSUME NEW V, NEW heap \in Seq(Seq(V)), NEW s \in Slice, IsSlice(heap, s),
           NEW x \in V, NEW zero \in V
    PROVE  /\ Appended(heap, s, <<x>>, zero) \in Seq(Seq(V))
           /\ AppendTo(heap, s, <<x>>) \in Slice
<1> DEFINE xs == <<x>>
<1>1. xs \in Seq(V)
  OBVIOUS
<1> HIDE DEF xs
<1>2. Appended(heap, s, xs, zero) \in Seq(Seq(V)) /\ AppendTo(heap, s, xs) \in Slice
  BY <1>1, AppendKeeps
<1> QED
  BY <1>2 DEF xs

LEMMA HeapDelete ==
    ASSUME NEW V, NEW heap \in Seq(Seq(V)), NEW s \in Slice, IsSlice(heap, s),
           NEW i \in Nat, i >= 1, ~(i > s.len), NEW zero \in V
    PROVE  /\ Deleted(heap, s, i, zero) \in Seq(Seq(V))
           /\ [s EXCEPT !.len = @ - 1] \in Slice
<1>1. PlaceIn(i, s)
  BY DEF PlaceIn, Slice
<1>2. Deleted(heap, s, i, zero) \in Seq(Seq(V)) /\ Shorter(s) \in Slice
  BY <1>1, DeleteKeeps
<1> QED
  BY <1>2 DEF Shorter

LEMMA ReceiveTyped ==
    ASSUME Typed, Ranged, NEW d \in Clients, Receive(d)
    PROVE  /\ hub' \in HubType
           /\ hub'.client = d
           /\ hub'.pc = IF client[d].user # 0 THEN "logout" ELSE "close"
<1>1. Resting \in HubType
  BY DEF Resting, HubType, Goroutines, Nil, Slice
<1> QED
  BY <1>1 DEF Receive, HubType, Goroutines

\* A slice is stored in a User.
LEMMA UserStored ==
    ASSUME NEW us \in Seq(UserType), NEW u \in 1..Len(us), NEW s \in Slice
    PROVE  /\ [us EXCEPT ![u].clients = s] \in Seq(UserType)
           /\ Len([us EXCEPT ![u].clients = s]) = Len(us)
           /\ \A v \in 1..Len(us) :
                /\ [us EXCEPT ![u].clients = s][v].uid = us[v].uid
                /\ [us EXCEPT ![u].clients = s][v].clients = IF v = u THEN s ELSE us[v].clients
<1> DEFINE x == [us[u] EXCEPT !.clients = s]
           f == [us EXCEPT ![u] = x]
<1>1. us[u] \in UserType
  OBVIOUS
<1>2. x \in UserType /\ x.uid = us[u].uid /\ x.clients = s
  BY <1>1 DEF UserType
<1>3. [us EXCEPT ![u].clients = s] = f
  OBVIOUS
<1> HIDE DEF x
<1>4. /\ f \in Seq(UserType) /\ Len(f) = Len(us)
      /\ \A v \in 1..Len(us) : f[v] = IF v = u THEN x ELSE us[v]
  BY <1>2
<1> HIDE DEF f
<1> QED
  BY <1>2, <1>3, <1>4

LEMMA DisconnectTyped ==
    ASSUME Typed, Ranged, NEW c \in Clients, Disconnect(c)
    PROVE  Typed' /\ Ranged'
<1>0. /\ hub' \in HubType
      /\ hub'.client = c
      /\ hub'.pc = IF client[c].user # 0 THEN "logout" ELSE "close"
  BY ReceiveTyped DEF Disconnect
<1>a. /\ client' = [client EXCEPT ![c].drops = @ - 1, ![c].left = TRUE]
      /\ client[c].open /\ client[c].drops > 0
      /\ UNCHANGED <<arrays, guests, stored, users, request, guard, cast, crashed>>
  BY DEF Disconnect
<1>b. client \in [Clients -> ClientType]
  BY DEF Typed
<1>c. /\ client' \in [Clients -> ClientType]
      /\ \A d \in Clients : /\ client'[d].open = client[d].open
                            /\ client'[d].user = client[d].user
                            /\ client'[d].app = client[d].app
                            /\ client'[d].closed = client[d].closed
  <2>1. client[c].drops - 1 \in Nat
    BY <1>a, <1>b DEF ClientType
  <2> QED
    BY <1>a, <1>b, <2>1 DEF ClientType
<1>1. Typed'
  BY <1>0, <1>a, <1>c DEF Typed
<1>2. RequestsRanged'
  <2>1. \A d \in Clients : request[d].kick \in Goroutines
    BY DEF Typed, RequestType
  <2> QED
    BY <1>a, <1>c, <2>1 DEF Ranged, RequestsRanged, Goroutines
<1>3. ClientsRanged'
  BY <1>a, <1>c DEF Ranged, ClientsRanged
<1>4. HubRanged'
  BY <1>0, <1>a, <1>c DEF HubRanged
<1>5. StoredRanged'
  BY <1>a DEF Ranged, StoredRanged
<1>6. ListedOpen'
  <2>1. OpenClients \union {None} \subseteq OpenClients' \union {None}
    BY <1>c DEF OpenClients
  <2> QED
    BY <1>a, <2>1, HeapMono DEF ListedOpen, Ranged
<1> QED
  BY <1>1, <1>2, <1>3, <1>4, <1>5, <1>6 DEF Ranged

LEMMA LogoutStoreTyped ==
    ASSUME Typed, Ranged, LogoutStore
    PROVE  Typed' /\ Ranged'
<1>a. /\ hub.pc = "store"
      /\ client' = [client EXCEPT ![hub.client].closed = TRUE]
      /\ users' = [users EXCEPT ![hub.user].clients = hub.slice]
      /\ hub' = Resting
      /\ UNCHANGED <<arrays, guests, stored, request, guard, cast, crashed>>
  BY DEF LogoutStore
<1>b. /\ client \in [Clients -> ClientType] /\ hub \in HubType
      /\ users \in Seq(UserType)
      /\ hub.client \in Clients /\ client[hub.client].open /\ hub.user \in 1..Len(users)
  BY <1>a DEF Typed, Ranged, HubRanged
<1>c. /\ client' \in [Clients -> ClientType]
      /\ \A d \in Clients : /\ client'[d].open = client[d].open
                            /\ client'[d].user = client[d].user
                            /\ client'[d].app = client[d].app
                            /\ client'[d].closed => client[d].open
  BY <1>a, <1>b DEF ClientType, Typed, Ranged, ClientsRanged
<1>d. hub' \in HubType /\ hub'.pc = "select"
  BY <1>a DEF Resting, HubType, Goroutines, Nil, Slice
<1>e. /\ users' \in Seq(UserType) /\ Len(users') = Len(users)
      /\ \A u \in 1..Len(users) : users'[u].uid = users[u].uid
  BY <1>a, <1>b, UserStored DEF HubType
<1>1. Typed'
  BY <1>a, <1>c, <1>d, <1>e DEF Typed
<1>2. RequestsRanged'
  <2>1. \A d \in Clients : request[d].kick \in Goroutines
    BY DEF Typed, RequestType
  <2> QED
    BY <1>a, <1>c, <1>e, <2>1 DEF Ranged, RequestsRanged, Goroutines
<1>3. ClientsRanged'
  BY <1>a, <1>c, <1>e DEF Ranged, ClientsRanged
<1>4. HubRanged'
  BY <1>d DEF HubRanged
<1>5. StoredRanged'
  BY <1>a, <1>e DEF Ranged, StoredRanged, Typed
<1>6. ListedOpen'
  <2>1. OpenClients \union {None} \subseteq OpenClients' \union {None}
    BY <1>c DEF OpenClients
  <2> QED
    BY <1>a, <2>1, HeapMono DEF ListedOpen, Ranged
<1> QED
  BY <1>1, <1>2, <1>3, <1>4, <1>5, <1>6 DEF Ranged

LEMMA LoginStoreTyped ==
    ASSUME Typed, Ranged, NEW c \in Clients, LoginStore(c)
    PROVE  Typed' /\ Ranged'
<1> DEFINE pc == IF request[c].pc = "cutted" THEN "add"
                 ELSE IF request[c].kick = None THEN "map" ELSE "kick"
<1>a. /\ request[c].pc \in {"cutted", "added"}
      /\ users' = [users EXCEPT ![request[c].user].clients = request[c].slice]
      /\ request' = [request EXCEPT ![c].pc = pc]
      /\ UNCHANGED <<arrays, guests, stored, client, hub, guard, cast, crashed>>
  BY DEF LoginStore, Goto
<1>b. /\ request \in [Clients -> RequestType] /\ users \in Seq(UserType)
      /\ request[c].user \in 1..Len(users)
  BY <1>a DEF Typed, Ranged, RequestsRanged
<1>c. /\ pc \in {"add", "map", "kick"}
      /\ pc = "kick" => request[c].kick # None
  OBVIOUS
<1> HIDE DEF pc
<1>d. /\ request' \in [Clients -> RequestType]
      /\ request'[c] = [request[c] EXCEPT !.pc = pc]
      /\ \A d \in Clients \ {c} : request'[d] = request[d]
  BY <1>a, <1>b, <1>c DEF RequestType
<1>e. /\ users' \in Seq(UserType) /\ Len(users') = Len(users)
      /\ \A u \in 1..Len(users) : users'[u].uid = users[u].uid
  BY <1>a, <1>b, UserStored DEF RequestType
<1>1. Typed'
  BY <1>a, <1>d, <1>e DEF Typed
<1>2. RequestsRanged'
  <2>1. /\ request'[c].pc = pc /\ request'[c].user = request[c].user
        /\ request'[c].uid = request[c].uid /\ request'[c].kick = request[c].kick
        /\ request'[c].app = request[c].app
    BY <1>b, <1>d DEF RequestType
  <2> QED
    BY <1>a, <1>c, <1>d, <1>e, <2>1 DEF Ranged, RequestsRanged
<1>3. ClientsRanged'
  BY <1>a, <1>e DEF Ranged, ClientsRanged
<1>4. HubRanged'
  BY <1>a, <1>e DEF Ranged, HubRanged
<1>5. StoredRanged'
  BY <1>a, <1>e DEF Ranged, StoredRanged, Typed
<1>6. ListedOpen'
  BY <1>a DEF Ranged, ListedOpen, OpenClients
<1> QED
  BY <1>1, <1>2, <1>3, <1>4, <1>5, <1>6 DEF Ranged

LEMMA KickTyped ==
    ASSUME Typed, Ranged, NEW c \in Clients, Kick(c)
    PROVE  Typed' /\ Ranged'
<1>a. /\ request[c].pc = "kick" /\ Receive(request[c].kick)
      /\ request' = [request EXCEPT ![c].pc = "map"]
      /\ UNCHANGED <<arrays, guests, stored, users, client, guard, cast, crashed>>
  BY DEF Kick, Goto
<1>b. /\ request \in [Clients -> RequestType]
      /\ request[c].kick \in Clients /\ client[request[c].kick].open
  BY <1>a DEF Typed, Ranged, RequestsRanged, RequestType, Goroutines
<1>0. /\ hub' \in HubType
      /\ hub'.client = request[c].kick
      /\ hub'.pc = IF client[request[c].kick].user # 0 THEN "logout" ELSE "close"
  BY <1>a, <1>b, ReceiveTyped
<1>d. /\ request' \in [Clients -> RequestType]
      /\ request'[c] = [request[c] EXCEPT !.pc = "map"]
      /\ \A d \in Clients \ {c} : request'[d] = request[d]
  BY <1>a, <1>b DEF RequestType
<1>1. Typed'
  BY <1>0, <1>a, <1>d DEF Typed
<1>2. RequestsRanged'
  <2>1. /\ request'[c].pc = "map" /\ request'[c].user = request[c].user
        /\ request'[c].uid = request[c].uid /\ request'[c].kick = request[c].kick
        /\ request'[c].app = request[c].app
    BY <1>b, <1>d DEF RequestType
  <2> QED
    BY <1>a, <1>d, <2>1 DEF Ranged, RequestsRanged
<1>3. ClientsRanged'
  BY <1>a DEF Ranged, ClientsRanged
<1>4. HubRanged'
  BY <1>0, <1>a, <1>b DEF Ranged, HubRanged
<1>5. StoredRanged'
  BY <1>a DEF Ranged, StoredRanged
<1>6. ListedOpen'
  BY <1>a DEF Ranged, ListedOpen, OpenClients
<1> QED
  BY <1>1, <1>2, <1>3, <1>4, <1>5, <1>6 DEF Ranged

LEMMA CastTyped ==
    ASSUME Typed, Ranged, SendNext \/ RangeUsers
    PROVE  Typed' /\ Ranged'
<1>a. cast \in CastType
  BY DEF Typed
<1>b. /\ UNCHANGED <<arrays, guests, stored, users, client, request, hub, guard>>
      /\ crashed' \in BOOLEAN /\ cast' \in CastType
  <2>1. CASE SendNext
    <3>1. \/ Crash
          \/ /\ \E x : cast' = [cast EXCEPT !.at = @ + 1, !.owed = @ \ {x}]
             /\ UNCHANGED <<arrays, guests, stored, users, client, request, hub, guard, crashed>>
      BY <2>1 DEF SendNext
    <3>2. CASE Crash
      BY <1>a, <3>2 DEF Crash
    <3>3. ASSUME NEW x, cast' = [cast EXCEPT !.at = @ + 1, !.owed = @ \ {x}]
          PROVE  cast' \in CastType
      <4>1. cast.owed \ {x} \in SUBSET Clients /\ cast.at + 1 \in Nat
        BY <1>a DEF CastType
      <4> DEFINE owed == cast.owed \ {x}
      <4>2. cast' = [cast EXCEPT !.at = @ + 1, !.owed = owed]
        BY <3>3
      <4>3. owed \in SUBSET Clients
        BY <4>1
      <4> HIDE DEF owed
      <4> QED
        BY <1>a, <4>1, <4>2, <4>3 DEF CastType
    <3>4. crashed \in BOOLEAN
      BY DEF Typed
    <3> QED
      BY <3>1, <3>2, <3>3, <3>4
  <2>2. CASE RangeUsers
    <3>1. CASE cast.left = {} /\ cast' = [cast EXCEPT !.pc = "done", !.at = 0]
      BY <1>a, <2>2, <3>1 DEF RangeUsers, CastType, Typed
    <3>2. ASSUME NEW uid \in cast.left,
                 cast' = IF stored[uid] = 0 THEN [cast EXCEPT !.left = @ \ {uid}]
                    ELSE [cast EXCEPT !.left = @ \ {uid}, !.at = 1,
                                      !.pc = "user", !.slice = Of(stored[uid])]
          PROVE  cast' \in CastType
      <4>1. uid \in Uids
        BY <1>a DEF CastType
      <4>2. stored[uid] # 0 => stored[uid] \in 1..Len(users)
        BY <4>1 DEF Ranged, StoredRanged, Typed
      <4>3. stored[uid] # 0 => Of(stored[uid]) \in Slice
        <5>1. \A u \in 1..Len(users) : users[u] \in UserType
          BY DEF Typed
        <5> QED
          BY <4>2, <5>1 DEF Of, UserType
      <4> HIDE DEF Of
      <4> QED
        BY <1>a, <3>2, <4>3 DEF CastType
    <3> QED
      BY <2>2, <3>1, <3>2, Zenon DEF RangeUsers, Typed
  <2> QED
    BY <2>1, <2>2
<1>1. Typed'
  BY <1>b DEF Typed
<1>2. Ranged'
  BY <1>b DEF Ranged, RequestsRanged, ClientsRanged, HubRanged, StoredRanged, ListedOpen,
              OpenClients
<1> QED
  BY <1>1, <1>2

LEMMA ConnectTyped ==
    ASSUME Typed, Ranged, NEW c \in Clients, Connect(c)
    PROVE  Typed' /\ Ranged'
<1>1. Typed'
  BY Zenon DEF Connect, Typed, ClientType, HubType, Goroutines
<1>2. RequestsRanged'
  BY DEF Connect, Ranged, RequestsRanged, ClientsRanged, StoredRanged, Typed, RequestType, ClientType, Goroutines, Idle
<1>3. ClientsRanged'
  BY DEF Connect, Ranged, ClientsRanged, RequestsRanged, HubRanged, Typed, ClientType, HubType
<1>4. HubRanged'
  BY DEF Connect, Ranged, HubRanged, ClientsRanged, RequestsRanged, Typed, ClientType, HubType, RequestType, Goroutines, Resting
<1>5. StoredRanged'
  BY DEF Connect, Ranged, StoredRanged, RequestsRanged, Typed, UserType
<1>6. ListedOpen'
  <2>1. OpenClients \union {None} \subseteq OpenClients' \union {None}
    BY DEF Connect, OpenClients, Typed, ClientType
  <2> QED
    BY <2>1, HeapMono DEF ListedOpen, Ranged, Connect
<1> QED
  BY <1>1, <1>2, <1>3, <1>4, <1>5, <1>6 DEF Ranged

LEMMA StoreGuestsTyped ==
    ASSUME Typed, Ranged, StoreGuests
    PROVE  Typed' /\ Ranged'
<1>1. Typed'
  BY DEF StoreGuests, Typed, HubType, Goroutines, Resting, Nil, Slice
<1>2. RequestsRanged'
  BY DEF StoreGuests, Ranged, RequestsRanged, ClientsRanged, StoredRanged, Typed, RequestType, ClientType, Goroutines, Idle
<1>3. ClientsRanged'
  BY DEF StoreGuests, Ranged, ClientsRanged, RequestsRanged, HubRanged, Typed, ClientType, HubType
<1>4. HubRanged'
  BY DEF StoreGuests, Ranged, HubRanged, ClientsRanged, RequestsRanged, Typed, ClientType, HubType, RequestType, Goroutines, Resting
<1>5. StoredRanged'
  BY DEF StoreGuests, Ranged, StoredRanged, RequestsRanged, Typed, UserType
<1>6. ListedOpen'
  BY DEF StoreGuests, Ranged, ListedOpen, OpenClients
<1> QED
  BY <1>1, <1>2, <1>3, <1>4, <1>5, <1>6 DEF Ranged

LEMMA CloseGuestTyped ==
    ASSUME Typed, Ranged, CloseGuest
    PROVE  Typed' /\ Ranged'
<1>1. Typed'
  BY Zenon DEF CloseGuest, Typed, ClientType, HubType
<1>2. RequestsRanged'
  BY DEF CloseGuest, Ranged, RequestsRanged, ClientsRanged, StoredRanged, Typed, RequestType, ClientType, Goroutines, Idle
<1>3. ClientsRanged'
  BY DEF CloseGuest, Ranged, ClientsRanged, RequestsRanged, HubRanged, Typed, ClientType, HubType
<1>4. HubRanged'
  BY DEF CloseGuest, Ranged, HubRanged, ClientsRanged, RequestsRanged, Typed, ClientType, HubType, RequestType, Goroutines, Resting
<1>5. StoredRanged'
  BY DEF CloseGuest, Ranged, StoredRanged, RequestsRanged, Typed, UserType
<1>6. ListedOpen'
  <2>1. OpenClients \union {None} \subseteq OpenClients' \union {None}
    BY DEF CloseGuest, OpenClients, Typed, ClientType
  <2> QED
    BY <2>1, HeapMono DEF ListedOpen, Ranged, CloseGuest
<1> QED
  BY <1>1, <1>2, <1>3, <1>4, <1>5, <1>6 DEF Ranged

LEMMA StoreDeletedTyped ==
    ASSUME Typed, Ranged, NEW c \in Clients, StoreDeleted(c)
    PROVE  Typed' /\ Ranged'
<1>1. Typed'
  BY DEF StoreDeleted, Typed, RequestType, Idle, NoUid, Apps, Nil, Slice, Goroutines
<1>2. RequestsRanged'
  BY DEF StoreDeleted, Ranged, RequestsRanged, ClientsRanged, StoredRanged, Typed, RequestType, ClientType, Goroutines, Idle
<1>3. ClientsRanged'
  BY DEF StoreDeleted, Ranged, ClientsRanged, RequestsRanged, HubRanged, Typed, ClientType, HubType
<1>4. HubRanged'
  BY DEF StoreDeleted, Ranged, HubRanged, ClientsRanged, RequestsRanged, Typed, ClientType, HubType, RequestType, Goroutines, Resting
<1>5. StoredRanged'
  BY DEF StoreDeleted, Ranged, StoredRanged, RequestsRanged, Typed, UserType
<1>6. ListedOpen'
  BY DEF StoreDeleted, Ranged, ListedOpen, OpenClients
<1> QED
  BY <1>1, <1>2, <1>3, <1>4, <1>5, <1>6 DEF Ranged

LEMMA StoreUserTyped ==
    ASSUME Typed, Ranged, NEW c \in Clients, StoreUser(c)
    PROVE  Typed' /\ Ranged'
<1>1. Typed'
  BY DEF StoreUser, Goto, Typed, RequestType
<1>2. RequestsRanged'
  BY DEF StoreUser, Goto, Ranged, RequestsRanged, ClientsRanged, StoredRanged, Typed, RequestType, ClientType, Goroutines, Idle
<1>3. ClientsRanged'
  BY DEF StoreUser, Goto, Ranged, ClientsRanged, RequestsRanged, HubRanged, Typed, ClientType, HubType
<1>4. HubRanged'
  BY DEF StoreUser, Goto, Ranged, HubRanged, ClientsRanged, RequestsRanged, Typed, ClientType, HubType, RequestType, Goroutines, Resting
<1>5. StoredRanged'
  BY DEF StoreUser, Goto, Ranged, StoredRanged, RequestsRanged, Typed, UserType
<1>6. ListedOpen'
  BY DEF StoreUser, Goto, Ranged, ListedOpen, OpenClients
<1> QED
  BY <1>1, <1>2, <1>3, <1>4, <1>5, <1>6 DEF Ranged

LEMMA GuardFindsTyped ==
    ASSUME Typed, Ranged, GuardFinds
    PROVE  Typed' /\ Ranged'
<1>1. Typed'
  BY DEF GuardFinds, Typed
<1>2. RequestsRanged'
  BY DEF GuardFinds, Ranged, RequestsRanged, ClientsRanged, StoredRanged, Typed, RequestType, ClientType, Goroutines, Idle
<1>3. ClientsRanged'
  BY DEF GuardFinds, Ranged, ClientsRanged, RequestsRanged, HubRanged, Typed, ClientType, HubType
<1>4. HubRanged'
  BY DEF GuardFinds, Ranged, HubRanged, ClientsRanged, RequestsRanged, Typed, ClientType, HubType, RequestType, Goroutines, Resting
<1>5. StoredRanged'
  BY DEF GuardFinds, Ranged, StoredRanged, RequestsRanged, Typed, UserType
<1>6. ListedOpen'
  BY DEF GuardFinds, Ranged, ListedOpen, OpenClients
<1> QED
  BY <1>1, <1>2, <1>3, <1>4, <1>5, <1>6 DEF Ranged

LEMMA GuardDeletesTyped ==
    ASSUME Typed, Ranged, GuardDeletes
    PROVE  Typed' /\ Ranged'
<1>1. Typed'
  BY DEF GuardDeletes, Typed
<1>2. RequestsRanged'
  BY DEF GuardDeletes, Ranged, RequestsRanged, ClientsRanged, StoredRanged, Typed, RequestType, ClientType, Goroutines, Idle
<1>3. ClientsRanged'
  BY DEF GuardDeletes, Ranged, ClientsRanged, RequestsRanged, HubRanged, Typed, ClientType, HubType
<1>4. HubRanged'
  BY DEF GuardDeletes, Ranged, HubRanged, ClientsRanged, RequestsRanged, Typed, ClientType, HubType, RequestType, Goroutines, Resting
<1>5. StoredRanged'
  BY DEF GuardDeletes, Ranged, StoredRanged, RequestsRanged, Typed, UserType
<1>6. ListedOpen'
  BY DEF GuardDeletes, Ranged, ListedOpen, OpenClients
<1> QED
  BY <1>1, <1>2, <1>3, <1>4, <1>5, <1>6 DEF Ranged

LEMMA BroadcastTyped ==
    ASSUME Typed, Ranged, Broadcast
    PROVE  Typed' /\ Ranged'
<1>1. Typed'
  BY DEF Broadcast, Typed, CastType
<1>2. RequestsRanged'
  BY DEF Broadcast, Ranged, RequestsRanged, ClientsRanged, StoredRanged, Typed, RequestType, ClientType, Goroutines, Idle
<1>3. ClientsRanged'
  BY DEF Broadcast, Ranged, ClientsRanged, RequestsRanged, HubRanged, Typed, ClientType, HubType
<1>4. HubRanged'
  BY DEF Broadcast, Ranged, HubRanged, ClientsRanged, RequestsRanged, Typed, ClientType, HubType, RequestType, Goroutines, Resting
<1>5. StoredRanged'
  BY DEF Broadcast, Ranged, StoredRanged, RequestsRanged, Typed, UserType
<1>6. ListedOpen'
  BY DEF Broadcast, Ranged, ListedOpen, OpenClients
<1> QED
  BY <1>1, <1>2, <1>3, <1>4, <1>5, <1>6 DEF Ranged

LEMMA EndOfSliceTyped ==
    ASSUME Typed, Ranged, EndOfSlice
    PROVE  Typed' /\ Ranged'
<1>1. Typed'
  BY DEF EndOfSlice, Typed, CastType, Nil, Slice
<1>2. RequestsRanged'
  BY DEF EndOfSlice, Ranged, RequestsRanged, ClientsRanged, StoredRanged, Typed, RequestType, ClientType, Goroutines, Idle
<1>3. ClientsRanged'
  BY DEF EndOfSlice, Ranged, ClientsRanged, RequestsRanged, HubRanged, Typed, ClientType, HubType
<1>4. HubRanged'
  BY DEF EndOfSlice, Ranged, HubRanged, ClientsRanged, RequestsRanged, Typed, ClientType, HubType, RequestType, Goroutines, Resting
<1>5. StoredRanged'
  BY DEF EndOfSlice, Ranged, StoredRanged, RequestsRanged, Typed, UserType
<1>6. ListedOpen'
  BY DEF EndOfSlice, Ranged, ListedOpen, OpenClients
<1> QED
  BY <1>1, <1>2, <1>3, <1>4, <1>5, <1>6 DEF Ranged

\* A panic leaves everything as it is.
LEMMA CrashTyped ==
    ASSUME Typed, Ranged, Crash
    PROVE  Typed' /\ Ranged'
<1>1. Typed'
  BY DEF Crash, Typed
<1>2. Ranged'
  BY DEF Crash, Ranged, RequestsRanged, ClientsRanged, HubRanged, StoredRanged,
         ListedOpen, OpenClients
<1> QED
  BY <1>1, <1>2

\* What a Request may be in.
RequestFits(c, r) ==
    /\ r.pc # "idle" =>
         /\ r.user \in 1..Len(users) /\ users[r.user].uid = r.uid
         /\ client[c].open
    /\ r.pc \notin {"idle", "scan"} => client[c].user = r.user /\ client[c].app = r.app
    /\ r.pc \in {"delete", "cut"} => r.index >= 1
    /\ r.pc \in {"cut", "cutted", "kick"} => r.kick # None
    /\ r.kick # None => r.kick # c /\ client[r.kick].open

LEMMA RequestTyped ==
    ASSUME Typed, Ranged, NEW c \in Clients, NEW r \in RequestType, RequestFits(c, r),
           request' = [request EXCEPT ![c] = r], arrays' \in Seq(Seq(OpenClients \union {None})),
           UNCHANGED <<guests, stored, users, client, hub, guard, cast, crashed>>
    PROVE  Typed' /\ Ranged'
<1>1. /\ request' \in [Clients -> RequestType]
      /\ request'[c] = r
      /\ \A d \in Clients \ {c} : request'[d] = request[d]
  BY DEF Typed
<1>2. Typed'
  BY <1>1 DEF Typed
<1>3. RequestsRanged'
  BY <1>1 DEF Ranged, RequestsRanged, RequestFits
<1>4. ClientsRanged' /\ HubRanged' /\ StoredRanged'
  BY DEF Ranged, ClientsRanged, HubRanged, StoredRanged
<1>5. ListedOpen'
  BY DEF ListedOpen, OpenClients
<1> QED
  BY <1>2, <1>3, <1>4, <1>5 DEF Ranged

\* What the hub may be doing.
HubFits(h) ==
    /\ h.pc # "select" => h.client \in Clients /\ client[h.client].open
    /\ h.pc \in {"logout", "cut", "store"} => client[h.client].user # 0
    /\ h.pc \in {"cut", "store"} => h.user \in 1..Len(users)
    /\ h.pc \in {"delete", "cut"} => h.index >= 1
    /\ h.pc \in {"index", "delete", "deleted"} => client[h.client].closed

LEMMA HubTyped ==
    ASSUME Typed, Ranged, hub' \in HubType, HubFits(hub'),
           arrays' \in Seq(Seq(OpenClients \union {None})),
           UNCHANGED <<guests, stored, users, client, request, guard, cast, crashed>>
    PROVE  Typed' /\ Ranged'
<1>1. Typed'
  BY DEF Typed
<1>2. RequestsRanged' /\ ClientsRanged' /\ StoredRanged'
  BY DEF Ranged, RequestsRanged, ClientsRanged, StoredRanged
<1>3. HubRanged'
  BY DEF HubRanged, HubFits
<1>4. ListedOpen'
  BY DEF ListedOpen, OpenClients
<1> QED
  BY <1>1, <1>2, <1>3, <1>4 DEF Ranged

\* The slices that the code works on.
LEMMA GuestsFacts ==
    ASSUME Typed, RealWorld
    PROVE  /\ guests \in Slice /\ IsSlice(arrays, guests)
           /\ Listed(guests) \in Seq(Goroutines)
           /\ DOMAIN Listed(guests) = 1..guests.len
<1>1. Len(users) \in Nat
  BY DEF Typed
<1>2. 0 \in 0..Len(users)
  BY <1>1
<1> QED
  BY <1>2, ListFacts DEF Listed

LEMMA UserFacts ==
    ASSUME Typed, RealWorld, NEW u \in 1..Len(users)
    PROVE  /\ Of(u) \in Slice /\ IsSlice(arrays, Of(u))
           /\ Listed(Of(u)) \in Seq(Goroutines)
           /\ DOMAIN Listed(Of(u)) = 1..Of(u).len
<1>1. u \in 0..Len(users) /\ u # 0
  BY DEF Typed
<1> QED
  BY <1>1, ListFacts DEF Listed

\* Who a list holds is connected or nil.
LEMMA ListedType ==
    ASSUME Typed, Ranged, RealWorld, NEW u \in 0..Len(users)
    PROVE  Listed(Lists[u]) \in Seq(OpenClients \union {None})
<1>1. Lists[u] \in Slice /\ IsSlice(arrays, Lists[u])
  BY ListFacts
<1>2. arrays \in Seq(Seq(OpenClients \union {None}))
  BY DEF Ranged, ListedOpen
<1> QED
  BY <1>1, <1>2, ContentsType DEF Listed

\* The search for a client in a list.
LEMMA GuestIndexFinds ==
    ASSUME Typed, RealWorld, NEW c
    PROVE  Finds(Listed(guests), {c}, GuestIndex(c)) /\ GuestIndex(c) \in Nat
<1> DEFINE q == Listed(guests)
           H == {i \in DOMAIN q : q[i] = c}
<1>1. q \in Seq(Goroutines)
  BY GuestsFacts
<1>2. GuestIndex(c) = IF H = {} THEN 0 ELSE CHOOSE i \in H : \A j \in H : i <= j
  BY DEF GuestIndex, IndexOf
<1>3. H = {i \in DOMAIN q : q[i] \in {c}}
  OBVIOUS
<1> HIDE DEF q, H
<1>4. Finds(q, {c}, GuestIndex(c))
  BY <1>1, <1>2, <1>3, FindsFirst
<1>5. Len(q) \in Nat
  BY <1>1
<1> QED
  BY <1>4, <1>5 DEF Finds, q

LEMMA AppendGuestTyped ==
    ASSUME Typed, Ranged, RealWorld, AppendGuest
    PROVE  Typed' /\ Ranged'
<1>1. /\ hub.client \in Clients /\ client[hub.client].open /\ hub \in HubType
      /\ arrays \in Seq(Seq(OpenClients \union {None}))
  BY DEF AppendGuest, Ranged, HubRanged, ListedOpen, Typed
<1>2. guests \in Slice /\ IsSlice(arrays, guests)
  BY GuestsFacts
<1>3. hub.client \in OpenClients \union {None} /\ None \in OpenClients \union {None}
  BY <1>1 DEF OpenClients
<1> DEFINE t == AppendTo(arrays, guests, <<hub.client>>)
           heap == Appended(arrays, guests, <<hub.client>>, None)
<1>4. heap \in Seq(Seq(OpenClients \union {None})) /\ t \in Slice
  BY <1>1, <1>2, <1>3, HeapAppend
<1>5. /\ hub' = [hub EXCEPT !.pc = "appended", !.slice = t] /\ arrays' = heap
      /\ UNCHANGED <<guests, stored, users, client, request, guard, cast, crashed>>
  BY DEF AppendGuest
<1> HIDE DEF t, heap
<1>6. hub' \in HubType /\ hub'.pc = "appended" /\ hub'.client = hub.client
  BY <1>1, <1>4, <1>5 DEF HubType
<1>7. HubFits(hub')
  BY <1>1, <1>6 DEF HubFits
<1> QED
  BY <1>4, <1>5, <1>6, <1>7, HubTyped

LEMMA HubFindGuestTyped ==
    ASSUME Typed, Ranged, RealWorld, HubFindGuest
    PROVE  Typed' /\ Ranged'
<1>1. /\ hub \in HubType /\ hub.client \in Clients /\ client[hub.client].open
      /\ client[hub.client].closed
      /\ arrays \in Seq(Seq(OpenClients \union {None}))
  BY DEF HubFindGuest, Ranged, HubRanged, ListedOpen, Typed
<1> DEFINE i == GuestIndex(hub.client)
<1>2. i \in Nat
  BY GuestIndexFinds
<1>3. /\ hub' = IF i = 0 THEN Resting ELSE [hub EXCEPT !.pc = "delete", !.index = i]
      /\ UNCHANGED <<arrays, guests, stored, users, client, request, guard, cast, crashed>>
  BY DEF HubFindGuest
<1> HIDE DEF i
<1>4. hub' \in HubType /\ HubFits(hub')
  <2>1. CASE i = 0
    BY <1>3, <2>1 DEF Resting, HubType, HubFits, Goroutines, Nil, Slice
  <2>2. CASE i # 0
    <3>1. hub' \in HubType /\ hub'.pc = "delete" /\ hub'.index = i /\ hub'.client = hub.client
      BY <1>1, <1>2, <1>3, <2>2 DEF HubType
    <3> QED
      BY <1>1, <1>2, <2>2, <3>1 DEF HubFits
  <2> QED
    BY <2>1, <2>2
<1> QED
  BY <1>1, <1>3, <1>4, HubTyped

LEMMA HubDeleteGuestTyped ==
    ASSUME Typed, Ranged, RealWorld, HubDeleteGuest
    PROVE  Typed' /\ Ranged'
<1>1. /\ hub \in HubType /\ hub.client \in Clients /\ client[hub.client].open
      /\ client[hub.client].closed /\ hub.index \in Nat /\ hub.index >= 1
      /\ arrays \in Seq(Seq(OpenClients \union {None}))
  BY DEF HubDeleteGuest, Ranged, HubRanged, ListedOpen, Typed, HubType
<1>2. guests \in Slice /\ IsSlice(arrays, guests)
  BY GuestsFacts
<1> DEFINE t == [guests EXCEPT !.len = @ - 1]
           heap == Deleted(arrays, guests, hub.index, None)
<1>3. CASE Crash
  BY <1>3, CrashTyped
<1>4. CASE ~(hub.index > guests.len)
  <2>1. heap \in Seq(Seq(OpenClients \union {None})) /\ t \in Slice
    BY <1>1, <1>2, <1>4, HeapDelete
  <2>2. /\ hub' = [hub EXCEPT !.pc = "deleted", !.slice = t] /\ arrays' = heap
        /\ UNCHANGED <<guests, stored, users, client, request, guard, cast, crashed>>
    BY <1>4 DEF HubDeleteGuest
  <2> HIDE DEF t, heap
  <2>3. hub' \in HubType /\ hub'.pc = "deleted" /\ hub'.client = hub.client
    BY <1>1, <2>1, <2>2 DEF HubType
  <2>4. HubFits(hub')
    BY <1>1, <2>3 DEF HubFits
  <2> QED
    BY <2>1, <2>2, <2>3, <2>4, HubTyped
<1> QED
  BY <1>3, <1>4 DEF HubDeleteGuest

\* The search of appLogout.
LogoutIndex(c, u) == IndexOf(Listed(Of(u)), LAMBDA d : d = c)

LEMMA LogoutFinds ==
    ASSUME Typed, RealWorld, NEW c \in Clients, NEW u \in 1..Len(users)
    PROVE  Finds(Listed(Of(u)), {c}, LogoutIndex(c, u)) /\ LogoutIndex(c, u) \in Nat
<1> DEFINE q == Listed(Of(u))
           H == {i \in DOMAIN q : q[i] = c}
<1>1. q \in Seq(Goroutines)
  BY UserFacts
<1>2. LogoutIndex(c, u) = IF H = {} THEN 0 ELSE CHOOSE i \in H : \A j \in H : i <= j
  BY DEF LogoutIndex, IndexOf
<1>3. H = {i \in DOMAIN q : q[i] \in {c}}
  OBVIOUS
<1> HIDE DEF q, H
<1>3a. Finds(q, {c}, IF H = {} THEN 0 ELSE CHOOSE i \in H : \A j \in H : i <= j)
  BY <1>1, <1>3, FindsFirst
<1>4. Finds(q, {c}, LogoutIndex(c, u))
  BY <1>2, <1>3a
<1>5. Len(q) \in Nat
  BY <1>1
<1> QED
  BY <1>4, <1>5 DEF Finds, q

LEMMA AppLogoutTyped ==
    ASSUME Typed, Ranged, RealWorld, AppLogout
    PROVE  Typed' /\ Ranged'
<1>1. /\ hub \in HubType /\ hub.client \in Clients /\ client[hub.client].open
      /\ client[hub.client].user # 0 /\ client[hub.client].user \in 1..Len(users)
      /\ arrays \in Seq(Seq(OpenClients \union {None}))
  BY DEF AppLogout, Ranged, HubRanged, ClientsRanged, ListedOpen, Typed
<1> DEFINE c == hub.client
           u == client[c].user
           i == LogoutIndex(c, u)
<1>2. i \in Nat
  BY <1>1, LogoutFinds
<1>3. \/ Crash
      \/ /\ hub' = IF i = 0 THEN Resting
                   ELSE [hub EXCEPT !.pc = "cut", !.user = u, !.index = i]
         /\ UNCHANGED <<arrays, guests, stored, users, client, request, guard, cast, crashed>>
  BY DEF AppLogout, LogoutIndex
<1> HIDE DEF i
<1>4. CASE Crash
  BY <1>4, CrashTyped
<1>5. ASSUME hub' = IF i = 0 THEN Resting
                    ELSE [hub EXCEPT !.pc = "cut", !.user = u, !.index = i]
      PROVE  hub' \in HubType /\ HubFits(hub')
  <2>1. CASE i = 0
    BY <1>5, <2>1 DEF Resting, HubType, HubFits, Goroutines, Nil, Slice
  <2>2. CASE i # 0
    <3>1. u \in Nat
      BY <1>1 DEF Typed
    <3>2. /\ hub' \in HubType /\ hub'.pc = "cut" /\ hub'.index = i /\ hub'.client = hub.client
          /\ hub'.user = u
      BY <1>1, <1>2, <1>5, <2>2, <3>1 DEF HubType
    <3> QED
      BY <1>1, <1>2, <2>2, <3>2 DEF HubFits
  <2> QED
    BY <2>1, <2>2
<1> QED
  BY <1>1, <1>3, <1>4, <1>5, HubTyped

LEMMA LogoutCutTyped ==
    ASSUME Typed, Ranged, RealWorld, LogoutCut
    PROVE  Typed' /\ Ranged'
<1>1. /\ hub \in HubType /\ hub.client \in Clients /\ client[hub.client].open
      /\ client[hub.client].user # 0 /\ hub.index \in Nat /\ hub.index >= 1
      /\ hub.user \in 1..Len(users)
      /\ arrays \in Seq(Seq(OpenClients \union {None}))
  BY DEF LogoutCut, Ranged, HubRanged, ListedOpen, Typed, HubType
<1> DEFINE s == Of(hub.user)
           t == [s EXCEPT !.len = @ - 1]
           heap == Deleted(arrays, s, hub.index, None)
<1>2. s \in Slice /\ IsSlice(arrays, s)
  BY <1>1, UserFacts
<1>3. CASE Crash
  BY <1>3, CrashTyped
<1>4. CASE ~(hub.index > s.len)
  <2>2. /\ hub' = [hub EXCEPT !.pc = "store", !.slice = t] /\ arrays' = heap
        /\ UNCHANGED <<guests, stored, users, client, request, guard, cast, crashed>>
    BY <1>4 DEF LogoutCut
  <2> HIDE DEF s
  <2>1. heap \in Seq(Seq(OpenClients \union {None})) /\ t \in Slice
    BY <1>1, <1>2, <1>4, HeapDelete
  <2> HIDE DEF t, heap
  <2>3. hub' \in HubType /\ hub'.pc = "store" /\ hub'.client = hub.client /\ hub'.user = hub.user
    BY <1>1, <2>1, <2>2 DEF HubType
  <2>4. HubFits(hub')
    BY <1>1, <2>3 DEF HubFits
  <2> QED
    BY <2>1, <2>2, <2>3, <2>4, HubTyped
<1> QED
  BY <1>3, <1>4 DEF LogoutCut

\* What is known of a Request.
LEMMA RequestFacts ==
    ASSUME Typed, Ranged, NEW c \in Clients
    PROVE  /\ request[c] \in RequestType /\ RequestFits(c, request[c])
           /\ arrays \in Seq(Seq(OpenClients \union {None}))
           /\ request[c].user \in Nat /\ request[c].index \in Nat
           /\ request[c].kick \in Goroutines /\ request[c].slice \in Slice
<1>1. request[c] \in RequestType
  BY DEF Typed
<1>2. RequestFits(c, request[c])
  BY DEF Ranged, RequestsRanged, RequestFits
<1> QED
  BY <1>1, <1>2 DEF Ranged, ListedOpen, RequestType

LEMMA FindGuestTyped ==
    ASSUME Typed, Ranged, RealWorld, NEW c \in Clients, FindGuest(c)
    PROVE  Typed' /\ Ranged'
<1> DEFINE i == GuestIndex(c)
           r == IF i = 0 THEN Idle ELSE [request[c] EXCEPT !.pc = "delete", !.index = i]
<1>1. i \in Nat
  BY GuestIndexFinds
<1>2. request[c].pc = "index" /\ request[c] \in RequestType /\ RequestFits(c, request[c])
      /\ arrays \in Seq(Seq(OpenClients \union {None}))
  BY RequestFacts DEF FindGuest
<1>3. /\ request' = [request EXCEPT ![c] = r]
      /\ UNCHANGED <<arrays, guests, stored, users, client, hub, guard, cast, crashed>>
  BY DEF FindGuest
<1> HIDE DEF i
<1>4. r \in RequestType /\ RequestFits(c, r)
  <2>1. CASE i = 0
    BY <2>1 DEF Idle, RequestType, RequestFits, Apps, Goroutines, Nil, Slice
  <2>2. CASE i # 0
    <3>1. /\ r \in RequestType /\ r.pc = "delete" /\ r.index = i
          /\ r.user = request[c].user /\ r.uid = request[c].uid
          /\ r.app = request[c].app /\ r.kick = request[c].kick
      BY <1>1, <1>2, <2>2 DEF RequestType
    <3> HIDE DEF r
    <3> QED
      BY <1>1, <1>2, <2>2, <3>1 DEF RequestFits
  <2> QED
    BY <2>1, <2>2
<1> HIDE DEF r
<1> QED
  BY <1>2, <1>3, <1>4, RequestTyped

LEMMA DeleteGuestTyped ==
    ASSUME Typed, Ranged, RealWorld, NEW c \in Clients, DeleteGuest(c)
    PROVE  Typed' /\ Ranged'
<1> DEFINE t == [guests EXCEPT !.len = @ - 1]
           heap == Deleted(arrays, guests, request[c].index, None)
           r == [request[c] EXCEPT !.pc = "deleted", !.slice = t]
<1>1. /\ request[c].pc = "delete" /\ request[c] \in RequestType /\ RequestFits(c, request[c])
      /\ request[c].index \in Nat /\ request[c].index >= 1
      /\ arrays \in Seq(Seq(OpenClients \union {None}))
  BY RequestFacts DEF DeleteGuest, RequestFits
<1>2. guests \in Slice /\ IsSlice(arrays, guests)
  BY GuestsFacts
<1>3. CASE Crash
  BY <1>3, CrashTyped
<1>4. CASE ~(request[c].index > guests.len)
  <2>1. heap \in Seq(Seq(OpenClients \union {None})) /\ t \in Slice
    BY <1>1, <1>2, <1>4, HeapDelete
  <2>2. /\ request' = [request EXCEPT ![c] = r] /\ arrays' = heap
        /\ UNCHANGED <<guests, stored, users, client, hub, guard, cast, crashed>>
    BY <1>4 DEF DeleteGuest, Typed
  <2> HIDE DEF t, heap
  <2>3a. r = [request[c] EXCEPT !.pc = "deleted", !.slice = t]
    OBVIOUS
  <2> HIDE DEF r
  <2>3. /\ r \in RequestType /\ r.pc = "deleted"
        /\ r.user = request[c].user /\ r.uid = request[c].uid
        /\ r.app = request[c].app /\ r.kick = request[c].kick
    BY <1>1, <2>1, <2>3a DEF RequestType
  <2> HIDE DEF r
  <2>4. RequestFits(c, r)
    BY <1>1, <2>3 DEF RequestFits
  <2> QED
    BY <2>1, <2>2, <2>3, <2>4, RequestTyped
<1> QED
  BY <1>3, <1>4 DEF DeleteGuest

LEMMA LoginCutTyped ==
    ASSUME Typed, Ranged, RealWorld, NEW c \in Clients, LoginCut(c)
    PROVE  Typed' /\ Ranged'
<1> DEFINE s == Of(request[c].user)
           t == [s EXCEPT !.len = @ - 1]
           heap == Deleted(arrays, s, request[c].index, None)
           r == [request[c] EXCEPT !.pc = "cutted", !.slice = t]
<1>1. /\ request[c].pc = "cut" /\ request[c] \in RequestType /\ RequestFits(c, request[c])
      /\ request[c].index \in Nat /\ request[c].index >= 1
      /\ request[c].user \in 1..Len(users)
      /\ arrays \in Seq(Seq(OpenClients \union {None}))
  BY RequestFacts DEF LoginCut, RequestFits
<1>2. s \in Slice /\ IsSlice(arrays, s)
  BY <1>1, UserFacts
<1>3. CASE Crash
  BY <1>3, CrashTyped
<1>4. CASE ~(request[c].index > s.len)
  <2>2. /\ request' = [request EXCEPT ![c] = r] /\ arrays' = heap
        /\ UNCHANGED <<guests, stored, users, client, hub, guard, cast, crashed>>
    BY <1>4 DEF LoginCut, Typed
  <2> HIDE DEF s
  <2>1. heap \in Seq(Seq(OpenClients \union {None})) /\ t \in Slice
    BY <1>1, <1>2, <1>4, HeapDelete
  <2> HIDE DEF t, heap
  <2>3a. r = [request[c] EXCEPT !.pc = "cutted", !.slice = t]
    OBVIOUS
  <2> HIDE DEF r
  <2>3. /\ r \in RequestType /\ r.pc = "cutted"
        /\ r.user = request[c].user /\ r.uid = request[c].uid
        /\ r.app = request[c].app /\ r.kick = request[c].kick
    BY <1>1, <2>1, <2>3a DEF RequestType
  <2> HIDE DEF r
  <2>4. RequestFits(c, r)
    BY <1>1, <2>3 DEF RequestFits
  <2> QED
    BY <2>1, <2>2, <2>3, <2>4, RequestTyped
<1> QED
  BY <1>3, <1>4 DEF LoginCut

LEMMA LoginAddTyped ==
    ASSUME Typed, Ranged, RealWorld, NEW c \in Clients, LoginAdd(c)
    PROVE  Typed' /\ Ranged'
<1> DEFINE s == Of(request[c].user)
           t == AppendTo(arrays, s, <<c>>)
           heap == Appended(arrays, s, <<c>>, None)
           r == [request[c] EXCEPT !.pc = "added", !.slice = t]
<1>1. /\ request[c].pc = "add" /\ request[c] \in RequestType /\ RequestFits(c, request[c])
      /\ request[c].user \in 1..Len(users) /\ client[c].open
      /\ arrays \in Seq(Seq(OpenClients \union {None}))
  BY RequestFacts DEF LoginAdd, RequestFits
<1>2. s \in Slice /\ IsSlice(arrays, s)
  BY <1>1, UserFacts
<1>3. c \in OpenClients \union {None} /\ None \in OpenClients \union {None}
  BY <1>1 DEF OpenClients
<1>4. /\ request' = [request EXCEPT ![c] = r] /\ arrays' = heap
      /\ UNCHANGED <<guests, stored, users, client, hub, guard, cast, crashed>>
  BY DEF LoginAdd, Typed
<1> HIDE DEF s
<1>5. heap \in Seq(Seq(OpenClients \union {None})) /\ t \in Slice
  BY <1>1, <1>2, <1>3, HeapAppend
<1> HIDE DEF t, heap
<1>6a. r = [request[c] EXCEPT !.pc = "added", !.slice = t]
  OBVIOUS
<1> HIDE DEF r
<1>6. /\ r \in RequestType /\ r.pc = "added"
      /\ r.user = request[c].user /\ r.uid = request[c].uid
      /\ r.app = request[c].app /\ r.kick = request[c].kick
  BY <1>1, <1>5, <1>6a DEF RequestType
<1> HIDE DEF r
<1>7. RequestFits(c, r)
  BY <1>1, <1>6 DEF RequestFits
<1> QED
  BY <1>4, <1>5, <1>6, <1>7, RequestTyped

\* The search of appLogin: for a client of the appId.
ByApp(app) == {d \in Clients : client[d].app = app}
LoginIndex(app, u) == IndexOf(Listed(Of(u)), LAMBDA d : d # None /\ client[d].app = app)

LEMMA LoginFinds ==
    ASSUME Typed, RealWorld, NEW app, NEW u \in 1..Len(users)
    PROVE  Finds(Listed(Of(u)), ByApp(app), LoginIndex(app, u)) /\ LoginIndex(app, u) \in Nat
<1> DEFINE q == Listed(Of(u))
           H == {i \in DOMAIN q : q[i] # None /\ client[q[i]].app = app}
<1>1. q \in Seq(Goroutines)
  BY UserFacts
<1>2. LoginIndex(app, u) = IF H = {} THEN 0 ELSE CHOOSE i \in H : \A j \in H : i <= j
  BY DEF LoginIndex, IndexOf
<1>3. H = {i \in DOMAIN q : q[i] \in ByApp(app)}
  <2>1. \A i \in DOMAIN q : q[i] \in Goroutines
    BY <1>1
  <2>2. \A i \in DOMAIN q : q[i] # None <=> q[i] \in Clients
    BY <2>1, NoneAssumption DEF Goroutines
  <2> HIDE DEF q
  <2> QED
    BY <2>2 DEF ByApp
<1> HIDE DEF q, H
<1>3a. Finds(q, ByApp(app), IF H = {} THEN 0 ELSE CHOOSE i \in H : \A j \in H : i <= j)
  BY <1>1, <1>3, FindsFirst
<1>4. Finds(q, ByApp(app), LoginIndex(app, u))
  BY <1>2, <1>3a
<1>5. Len(q) \in Nat
  BY <1>1
<1> QED
  BY <1>4, <1>5 DEF Finds, q

\* What appLogin goes on with.
Found(c) == LET r == request[c]
                i == LoginIndex(r.app, r.user)
                d == Listed(Of(r.user))[i]
            IN  [r EXCEPT !.index = i,
                          !.kick = IF i = 0 \/ d = c THEN None ELSE d,
                          !.pc = IF i = 0 THEN "add" ELSE IF d = c THEN "map" ELSE "cut"]

LEMMA AppLoginDoes ==
    ASSUME Typed, NEW c \in Clients, AppLogin(c)
    PROVE  /\ request[c].pc = "scan"
           /\ \/ Crash
              \/ /\ client' = [client EXCEPT ![c].user = request[c].user,
                                             ![c].app = request[c].app]
                 /\ request' = [request EXCEPT ![c] = Found(c)]
                 /\ UNCHANGED <<arrays, guests, stored, users, hub, guard, cast, crashed>>
<1> DEFINE r == request[c]
           s == Listed(Of(r.user))
           i == LoginIndex(r.app, r.user)
<1>1. i = IndexOf(s, LAMBDA d : d # None /\ client[d].app = r.app)
  BY DEF LoginIndex
<1>2. \/ Crash
      \/ /\ client' = [client EXCEPT ![c].user = r.user, ![c].app = r.app]
         /\ request' = [request EXCEPT ![c].index = i,
                     ![c].kick = IF i = 0 \/ s[i] = c THEN None ELSE s[i],
                     ![c].pc = IF i = 0 THEN "add"
                               ELSE IF s[i] = c THEN "map" ELSE "cut"]
         /\ UNCHANGED <<arrays, guests, stored, users, hub, guard, cast, crashed>>
  BY <1>1, Zenon DEF AppLogin
<1> HIDE DEF i, s
<1>3. ASSUME request' = [request EXCEPT ![c].index = i,
                     ![c].kick = IF i = 0 \/ s[i] = c THEN None ELSE s[i],
                     ![c].pc = IF i = 0 THEN "add"
                               ELSE IF s[i] = c THEN "map" ELSE "cut"]
      PROVE  request' = [request EXCEPT ![c] = Found(c)]
  <2>1. request \in [Clients -> RequestType]
    BY DEF Typed
  <2> QED
    BY <1>3, <2>1 DEF Found, i, s
<1> QED
  BY <1>2, <1>3, Zenon DEF AppLogin

LEMMA FoundTyped ==
    ASSUME Typed, Ranged, RealWorld, NEW c \in Clients, request[c].pc = "scan"
    PROVE  /\ Found(c) \in RequestType
           /\ Found(c).pc \in {"add", "map", "cut"}
           /\ Found(c).user = request[c].user /\ Found(c).uid = request[c].uid
           /\ Found(c).app = request[c].app
           /\ Found(c).slice = request[c].slice
           /\ Found(c).pc = "cut" => Found(c).index >= 1 /\ Found(c).kick # None
           /\ Found(c).kick # None => Found(c).kick # c /\ Found(c).kick \in OpenClients
<1> DEFINE u == request[c].user
           q == Listed(Of(u))
           i == LoginIndex(request[c].app, u)
           d == q[i]
           kick == IF i = 0 \/ d = c THEN None ELSE d
           pc == IF i = 0 THEN "add" ELSE IF d = c THEN "map" ELSE "cut"
<1>1. request[c] \in RequestType /\ u \in 1..Len(users)
  BY RequestFacts DEF RequestFits
<1>2. i \in Nat /\ Finds(q, ByApp(request[c].app), i)
  BY <1>1, LoginFinds
<1>3. q \in Seq(OpenClients \union {None})
  <2>1. u \in 0..Len(users) /\ u # 0
    BY <1>1 DEF Typed
  <2>2. Lists[u] = Of(u)
    BY <2>1 DEF Lists
  <2> QED
    BY <2>1, <2>2, ListedType
<1>4. i # 0 => d \in Clients /\ d \in OpenClients /\ d # None
  <2>1. i # 0 => i \in 1..Len(q) /\ d \in Clients
    BY <1>2 DEF Finds, ByApp
  <2>2. i # 0 => d \in OpenClients \union {None}
    BY <1>3, <2>1
  <2> QED
    BY <2>1, <2>2, NoneAssumption
<1>5. Found(c) = [request[c] EXCEPT !.index = i, !.kick = kick, !.pc = pc]
  BY DEF Found
<1>6. /\ pc \in {"add", "map", "cut"} /\ kick \in Goroutines
      /\ pc = "cut" => i >= 1 /\ kick # None
      /\ kick # None => kick # c /\ kick \in OpenClients
  <2> HIDE DEF q, d
  <2> QED
    BY <1>2, <1>4 DEF Goroutines
<1> HIDE DEF i, kick, pc
<1> QED
  BY <1>1, <1>2, <1>5, <1>6 DEF RequestType

LEMMA AppLoginTyped ==
    ASSUME Typed, Ranged, RealWorld, NEW c \in Clients, AppLogin(c)
    PROVE  Typed' /\ Ranged'
<1>1. CASE Crash
  BY <1>1, CrashTyped
<1>2. CASE /\ client' = [client EXCEPT ![c].user = request[c].user,
                                       ![c].app = request[c].app]
           /\ request' = [request EXCEPT ![c] = Found(c)]
           /\ UNCHANGED <<arrays, guests, stored, users, hub, guard, cast, crashed>>
  <2>0. request[c].pc = "scan"
    BY Zenon DEF AppLogin
  <2>1. /\ request[c] \in RequestType /\ request[c].user \in 1..Len(users)
        /\ users[request[c].user].uid = request[c].uid /\ client[c].open
        /\ request[c].user \in Nat /\ request[c].app \in Apps
    BY <2>0, RequestFacts DEF RequestFits, RequestType
  <2>2. /\ client \in [Clients -> ClientType]
        /\ request \in [Clients -> RequestType]
    BY DEF Typed
  <2>3. /\ client' \in [Clients -> ClientType]
        /\ client'[c].user = request[c].user /\ client'[c].app = request[c].app
        /\ \A d \in Clients : /\ client'[d].open = client[d].open
                              /\ client'[d].closed = client[d].closed
                              /\ d # c => client'[d] = client[d]
    BY <1>2, <2>1, <2>2 DEF ClientType
  <2>4. /\ request' \in [Clients -> RequestType]
        /\ request'[c] = Found(c)
        /\ \A d \in Clients : d # c => request'[d] = request[d]
    BY <1>2, <2>0, <2>2, FoundTyped
  <2>5. Typed'
    BY <1>2, <2>3, <2>4 DEF Typed
  <2>6. RequestsRanged'
    <3> SUFFICES ASSUME NEW d \in Clients
                 PROVE  /\ request'[d].pc # "idle" =>
                             /\ request'[d].user \in 1..Len(users)
                             /\ users[request'[d].user].uid = request'[d].uid
                             /\ client'[d].open
                        /\ request'[d].pc \notin {"idle", "scan"} =>
                             /\ client'[d].user = request'[d].user
                             /\ client'[d].app = request'[d].app
                        /\ request'[d].pc \in {"delete", "cut"} => request'[d].index >= 1
                        /\ request'[d].pc \in {"cut", "cutted", "kick"} =>
                             request'[d].kick # None
                        /\ request'[d].kick # None =>
                             request'[d].kick # d /\ client'[request'[d].kick].open
      BY <1>2 DEF RequestsRanged
    <3>1. CASE d = c
      <4>1. Found(c).kick # None => Found(c).kick \in Clients /\ client[Found(c).kick].open
        BY <2>0, FoundTyped DEF OpenClients
      <4> QED
        BY <2>0, <2>1, <2>3, <2>4, <3>1, <4>1, FoundTyped
    <3>2. CASE d # c
      <4>1. request[d].kick \in Goroutines
        BY <2>2 DEF RequestType
      <4> QED
        BY <2>3, <2>4, <3>2, <4>1 DEF Ranged, RequestsRanged, Goroutines
    <3> QED
      BY <3>1, <3>2
  <2>7. ClientsRanged'
    <3>1. request[c].user \in 0..Len(users)
      BY <2>1 DEF Typed
    <3> QED
      BY <1>2, <2>1, <2>3, <3>1 DEF Ranged, ClientsRanged
  <2>8. HubRanged'
    <3>1. hub.client = c => client'[c].user # 0
      BY <2>1, <2>3 DEF Typed
    <3> QED
      BY <1>2, <2>3, <3>1 DEF Ranged, HubRanged
  <2>9. StoredRanged'
    BY <1>2 DEF Ranged, StoredRanged
  <2>10. ListedOpen'
    <3>1. OpenClients' = OpenClients
      BY <2>3 DEF OpenClients
    <3> QED
      BY <1>2, <3>1 DEF Ranged, ListedOpen
  <2> QED
    BY <2>5, <2>6, <2>7, <2>8, <2>9, <2>10 DEF Ranged
<1> QED
  BY <1>1, <1>2, AppLoginDoes

\* The Users after Hubc.User or NewUser, and the user of the login.
Made(c) == LET a == Head(client[c].logins)
           IN  IF stored[a.uid] = 0 THEN Append(users, [uid |-> a.uid, clients |-> Nil])
               ELSE users
UserFor(c) == LET a == Head(client[c].logins)
              IN  IF stored[a.uid] = 0 THEN Len(users) + 1 ELSE stored[a.uid]
Begun(c) == LET a == Head(client[c].logins)
            IN  [Idle EXCEPT !.pc = "scan", !.uid = a.uid, !.app = a.app,
                             !.user = UserFor(c)]

LEMMA UserLoginDoes ==
    ASSUME NEW c \in Clients, UserLogin(c)
    PROVE  /\ request[c].pc = "idle" /\ client[c].open /\ client[c].logins # <<>>
           /\ client' = [client EXCEPT ![c].logins = Tail(@)]
           /\ users' = Made(c)
           /\ request' = [request EXCEPT ![c] = Begun(c)]
           /\ UNCHANGED <<arrays, guests, stored, hub, guard, cast, crashed>>
  BY DEF UserLogin, Made, UserFor, Begun

LEMMA BegunTyped ==
    ASSUME Typed, Ranged, NEW c \in Clients, client[c].logins # <<>>
    PROVE  /\ Begun(c) \in RequestType
           /\ Begun(c).pc = "scan" /\ Begun(c).user = UserFor(c)
           /\ Begun(c).kick = None
           /\ UserFor(c) \in 1..Len(Made(c))
           /\ Made(c)[UserFor(c)].uid = Begun(c).uid
           /\ Made(c) \in Seq(UserType)
           /\ Len(users) <= Len(Made(c))
           /\ Len(Made(c)) \in Nat /\ Len(users) \in Nat
           /\ \A u \in 1..Len(users) : Made(c)[u] = users[u]
           /\ \A u \in 1..Len(Made(c)) : u > Len(users) => Made(c)[u].clients = Nil
<1> DEFINE a == Head(client[c].logins)
<1>1. a \in Accounts
  <2>1. client[c].logins \in Seq(Accounts)
    BY DEF Typed, ClientType
  <2> QED
    BY <2>1
<1>2. a.uid \in Uids /\ a.app \in Apps
  BY <1>1 DEF Uids, Apps
<1> HIDE DEF a
<1>3. users \in Seq(UserType) /\ Len(users) \in Nat
  BY DEF Typed
<1>4. [uid |-> a.uid, clients |-> Nil] \in UserType
  BY <1>2 DEF UserType, Nil, Slice
<1>5. CASE stored[a.uid] = 0
  <2> DEFINE x == [uid |-> a.uid, clients |-> Nil]
  <2>1. Made(c) = Append(users, x) /\ UserFor(c) = Len(users) + 1
    BY <1>5 DEF Made, UserFor, a
  <2>2. x \in UserType /\ x.uid = a.uid /\ x.clients = Nil
    BY <1>4
  <2> HIDE DEF x
  <2>3. /\ Made(c) \in Seq(UserType) /\ Len(Made(c)) = Len(users) + 1
        /\ Made(c)[Len(users) + 1] = x
        /\ \A u \in 1..Len(users) : Made(c)[u] = users[u]
    BY <1>3, <2>1, <2>2
  <2>4. /\ UserFor(c) \in 1..Len(Made(c)) /\ Made(c)[UserFor(c)].uid = a.uid
        /\ UserFor(c) \in Nat
    BY <1>3, <2>1, <2>2, <2>3
  <2>5. /\ Begun(c) \in RequestType
        /\ Begun(c).pc = "scan" /\ Begun(c).user = UserFor(c)
        /\ Begun(c).kick = None /\ Begun(c).uid = a.uid
    BY <1>2, <2>4 DEF Begun, Idle, RequestType, Goroutines, Nil, Slice, a
  <2> QED
    BY <1>3, <2>2, <2>3, <2>4, <2>5
<1>6. CASE stored[a.uid] # 0
  <2>1. Made(c) = users /\ UserFor(c) = stored[a.uid]
    BY <1>6 DEF Made, UserFor, a
  <2>2. stored[a.uid] \in 1..Len(users) /\ users[stored[a.uid]].uid = a.uid
    BY <1>2, <1>3, <1>6 DEF Ranged, StoredRanged
  <2>3. UserFor(c) \in Nat
    BY <1>3, <2>1, <2>2
  <2>5. /\ Begun(c) \in RequestType
        /\ Begun(c).pc = "scan" /\ Begun(c).user = UserFor(c)
        /\ Begun(c).kick = None /\ Begun(c).uid = a.uid
    BY <1>2, <2>3 DEF Begun, Idle, RequestType, Goroutines, Nil, Slice, a
  <2> QED
    BY <1>3, <2>1, <2>2, <2>5
<1> QED
  BY <1>5, <1>6

LEMMA UserLoginTyped ==
    ASSUME Typed, Ranged, NEW c \in Clients, UserLogin(c)
    PROVE  Typed' /\ Ranged'
<1>1. /\ request[c].pc = "idle" /\ client[c].open /\ client[c].logins # <<>>
      /\ client' = [client EXCEPT ![c].logins = Tail(@)]
      /\ users' = Made(c)
      /\ request' = [request EXCEPT ![c] = Begun(c)]
      /\ UNCHANGED <<arrays, guests, stored, hub, guard, cast, crashed>>
  BY UserLoginDoes
<1>2. /\ client \in [Clients -> ClientType]
      /\ request \in [Clients -> RequestType]
  BY DEF Typed
<1>3. /\ client' \in [Clients -> ClientType]
      /\ \A d \in Clients : /\ client'[d].open = client[d].open
                            /\ client'[d].user = client[d].user
                            /\ client'[d].app = client[d].app
                            /\ client'[d].closed = client[d].closed
  <2>1. Tail(client[c].logins) \in Seq(Accounts)
    <3>1. client[c].logins \in Seq(Accounts)
      BY <1>2 DEF ClientType
    <3> QED
      BY <1>1, <3>1
  <2> QED
    BY <1>1, <1>2, <2>1 DEF ClientType
<1>4. /\ request' \in [Clients -> RequestType]
      /\ request'[c] = Begun(c)
      /\ \A d \in Clients : d # c => request'[d] = request[d]
  BY <1>1, <1>2, BegunTyped
<1>5. /\ users' \in Seq(UserType) /\ Len(users) <= Len(users')
      /\ Len(users') \in Nat /\ Len(users) \in Nat
      /\ \A u \in 1..Len(users) : users'[u] = users[u]
  BY <1>1, BegunTyped
<1>6. Typed'
  BY <1>1, <1>3, <1>4, <1>5 DEF Typed
<1>7. RequestsRanged'
  <2> SUFFICES ASSUME NEW d \in Clients
               PROVE  /\ request'[d].pc # "idle" =>
                           /\ request'[d].user \in 1..Len(users')
                           /\ users'[request'[d].user].uid = request'[d].uid
                           /\ client'[d].open
                      /\ request'[d].pc \notin {"idle", "scan"} =>
                           /\ client'[d].user = request'[d].user
                           /\ client'[d].app = request'[d].app
                      /\ request'[d].pc \in {"delete", "cut"} => request'[d].index >= 1
                      /\ request'[d].pc \in {"cut", "cutted", "kick"} =>
                           request'[d].kick # None
                      /\ request'[d].kick # None =>
                           request'[d].kick # d /\ client'[request'[d].kick].open
    BY DEF RequestsRanged
  <2>1. CASE d = c
    BY <1>1, <1>3, <1>4, <2>1, BegunTyped
  <2>2. CASE d # c
    <3>1. request[d].kick \in Goroutines
      BY <1>2 DEF RequestType
    <3>2. request[d].user \in 1..Len(users) => request[d].user \in 1..Len(users')
      BY <1>5
    <3> QED
      BY <1>3, <1>4, <1>5, <2>2, <3>1, <3>2 DEF Ranged, RequestsRanged, Goroutines
  <2> QED
    BY <2>1, <2>2
<1>8. ClientsRanged'
  <2>1. 0..Len(users) \subseteq 0..Len(users')
    BY <1>5
  <2> QED
    BY <1>3, <2>1 DEF Ranged, ClientsRanged
<1>9. HubRanged'
  <2>1. 1..Len(users) \subseteq 1..Len(users')
    BY <1>5
  <2> QED
    BY <1>1, <1>3, <2>1 DEF Ranged, HubRanged
<1>10. StoredRanged'
  <2> SUFFICES ASSUME NEW uid \in Uids
               PROVE  /\ stored[uid] \in 0..Len(users')
                      /\ stored[uid] # 0 => users'[stored[uid]].uid = uid
    BY <1>1 DEF StoredRanged
  <2>1. /\ stored[uid] \in 0..Len(users)
        /\ stored[uid] # 0 => users[stored[uid]].uid = uid
    BY DEF Ranged, StoredRanged
  <2>2. stored[uid] # 0 => stored[uid] \in 1..Len(users)
    BY <1>5, <2>1
  <2> QED
    BY <1>5, <2>1, <2>2
<1>11. ListedOpen'
  <2>1. OpenClients' = OpenClients
    BY <1>3 DEF OpenClients
  <2> QED
    BY <1>1, <2>1 DEF Ranged, ListedOpen
<1> QED
  BY <1>6, <1>7, <1>8, <1>9, <1>10, <1>11 DEF Ranged

\* Whoever makes a step, types are kept.
LEMMA TypedStep ==
    ASSUME Typed, Ranged, RealWorld, Next
    PROVE  Typed' /\ Ranged'
<1>1. CASE HubStep
  BY <1>1, ConnectTyped, DisconnectTyped, AppendGuestTyped, StoreGuestsTyped,
     AppLogoutTyped, LogoutCutTyped, LogoutStoreTyped, CloseGuestTyped,
     HubFindGuestTyped, HubDeleteGuestTyped DEF HubStep
<1>2. ASSUME NEW c \in Clients, RequestStep(c)
      PROVE  Typed' /\ Ranged'
  BY <1>2, UserLoginTyped, AppLoginTyped, LoginCutTyped, LoginAddTyped, LoginStoreTyped,
     KickTyped, StoreUserTyped, FindGuestTyped, DeleteGuestTyped, StoreDeletedTyped
     DEF RequestStep
<1>3. CASE GuardStep
  BY <1>3, GuardFindsTyped, GuardDeletesTyped DEF GuardStep
<1>4. CASE CastStep
  BY <1>4, BroadcastTyped, CastTyped, EndOfSliceTyped DEF CastStep
<1> QED
  BY <1>1, <1>2, <1>3, <1>4 DEF Next

\* The history only grows, by what is now.
LEMMA SeenStep ==
    ASSUME SeenTyped, Next
    PROVE  /\ SeenTyped'
           /\ seen'.lists = seen.lists \union Now'.lists
           /\ seen'.uids = seen.uids \union Now'.uids
           /\ seen'.kicked = seen.kicked \union Now'.kicked
           /\ seen'.moved = seen.moved \union Now'.moved
           /\ seen'.late = seen.late \union Now'.late
           /\ seen'.shifted = seen.shifted \union Now'.shifted
<1>1. seen' = [f \in DOMAIN seen |-> seen[f] \union Now'[f]]
  BY DEF Next
<1> QED
  BY <1>1 DEF SeenTyped

-----------------------------------------------------------------------------
(* The steps of the program on the lists.                                    *)

Still == arrays' = arrays /\ Rests(arrays, Lists, Lists', Work, Work')
Appending(g, u, x) ==
    Lists' = Lists /\ Appends(arrays, arrays', Lists, Work, Work', g, u, x)
Deleting(g, u, i) ==
    Lists' = Lists /\ Deletes(arrays, arrays', Lists, Work, Work', g, u, i)
Storing(g, u) ==
    arrays' = arrays /\ Stores(Lists, Lists', Work, Work', g, u)

LEMMA WorkIs ==
    /\ Work[None] = HubWork
    /\ \A c \in Clients : Work[c] = RequestWork(c)
<1>1. \A c \in Clients : c # None
  BY NoneAssumption
<1> QED
  BY <1>1 DEF Work, Goroutines

\* The others go on as they were.
LEMMA HubMoves ==
    ASSUME request' = request
    PROVE  \A c \in Clients : Work'[c] = Work[c]
<1>1. \A c \in Clients : RequestWork(c)' = RequestWork(c)
  BY DEF RequestWork, RequestOp, RequestList
<1>2. \A c \in Clients : Work'[c] = RequestWork(c)'
  BY NoneAssumption DEF Work, Goroutines
<1> QED
  BY <1>1, <1>2, WorkIs

LEMMA RequestMoves ==
    ASSUME Typed, NEW c \in Clients, NEW r, request' = [request EXCEPT ![c] = r]
    PROVE  \A d \in Clients : d # c => Work'[d] = Work[d]
<1>1. \A d \in Clients : d # c => request'[d] = request[d]
  BY DEF Typed
<1>2. \A d \in Clients : d # c => RequestWork(d)' = RequestWork(d)
  BY <1>1 DEF RequestWork, RequestOp, RequestList
<1>3. \A d \in Clients : Work'[d] = RequestWork(d)'
  BY NoneAssumption DEF Work, Goroutines
<1> QED
  BY <1>2, <1>3, WorkIs

LEMMA HubStays ==
    ASSUME hub' = hub,
           hub.pc = "logout" => client'[hub.client].user = client[hub.client].user
    PROVE  Work'[None] = Work[None]
<1>1. HubWork' = HubWork
  BY DEF HubWork, HubOp, HubList
<1>2. Work'[None] = HubWork'
  BY NoneAssumption DEF Work, Goroutines
<1> QED
  BY <1>1, <1>2, WorkIs

LEMMA ListsStay ==
    ASSUME guests' = guests, users' = users
    PROVE  Lists' = Lists /\ DOMAIN Lists = 0..Len(users)
  BY DEF Lists, Of

\* A step that changes no slice, and nobody starts or ends a change.
LEMMA StillStep ==
    ASSUME arrays' = arrays, guests' = guests, users' = users,
           NEW g \in Goroutines, OthersStay(Work, Work', g),
           Work[g].op \notin Pending, Work'[g].op \notin Pending,
           Work'[g].op # "aims"
    PROVE  Still
<1>1. Lists' = Lists
  BY ListsStay
<1> QED
  BY <1>1 DEF Still, Rests, OthersStay

LEMMA CrashStill == Crash => Still
<1> SUFFICES ASSUME Crash PROVE Still
  OBVIOUS
<1>1. Lists' = Lists
  BY ListsStay DEF Crash
<1>2. \A g \in Goroutines : Work'[g] = Work[g]
  BY HubMoves, HubStays DEF Crash, Goroutines
<1> QED
  BY <1>1, <1>2 DEF Still, Rests, Crash

-----------------------------------------------------------------------------
(* The steps of the hub.                                                     *)

LEMMA HubOthers ==
    ASSUME request' = request
    PROVE  OthersStay(Work, Work', None)
  BY HubMoves DEF OthersStay, Goroutines

LEMMA HubWorkThen == Work'[None] = HubWork'
  BY NoneAssumption DEF Work, Goroutines

\* Connect, Disconnect and CloseGuest.
LEMMA HubStill ==
    ASSUME Typed, request' = request, arrays' = arrays, guests' = guests, users' = users,
           hub.pc \in {"select", "close"}, hub'.pc \in {"append", "logout", "close", "index"}
    PROVE  Still
<1>2. HubOp \notin Pending /\ HubOp' \notin Pending \union {"aims"}
  BY DEF HubOp, Pending
<1>3. Work[None].op = HubOp /\ Work'[None].op = HubOp'
  BY WorkIs, HubWorkThen DEF HubWork
<1> QED
  BY <1>2, <1>3, HubOthers, StillStep DEF Goroutines

LEMMA ConnectMoves ==
    ASSUME Typed, NEW c \in Clients, Connect(c)
    PROVE  Still
<1>1. hub'.pc = "append"
  BY DEF Connect, Typed, HubType
<1> QED
  BY <1>1, HubStill DEF Connect

LEMMA DisconnectMoves ==
    ASSUME Typed, Ranged, NEW c \in Clients, Disconnect(c)
    PROVE  Still
<1>1. hub'.pc \in {"logout", "close"}
  BY ReceiveTyped DEF Disconnect
<1> QED
  BY <1>1, HubStill DEF Disconnect

LEMMA CloseGuestMoves ==
    ASSUME Typed, CloseGuest
    PROVE  Still
<1>1. hub'.pc = "index"
  BY DEF CloseGuest, Typed, HubType
<1> QED
  BY <1>1, HubStill DEF CloseGuest

LEMMA GuestsList ==
    ASSUME Typed
    PROVE  /\ DOMAIN Lists = 0..Len(users)
           /\ 0 \in DOMAIN Lists /\ Lists[0] = guests
           /\ \A u \in 1..Len(users) : u \in DOMAIN Lists /\ Lists[u] = Of(u) /\ u # 0
<1>1. Len(users) \in Nat
  BY DEF Typed
<1> QED
  BY <1>1 DEF Lists

LEMMA AppendGuestMoves ==
    ASSUME Typed, Ranged, AppendGuest
    PROVE  Appending(None, 0, hub.client) /\ hub.client \in Clients
<1>0. hub.client \in Clients
  BY DEF AppendGuest, Ranged, HubRanged
<1> DEFINE t == AppendTo(arrays, guests, <<hub.client>>)
<1>1. /\ hub \in HubType /\ hub.pc = "append"
      /\ hub' = [hub EXCEPT !.pc = "appended", !.slice = t]
      /\ arrays' = Appended(arrays, guests, <<hub.client>>, None)
      /\ guests' = guests /\ users' = users /\ request' = request
  BY DEF AppendGuest, Typed
<1> HIDE DEF t
<1>2. hub'.pc = "appended" /\ hub'.client = hub.client /\ hub'.slice = t
  BY <1>1 DEF HubType
<1>3. HubWork.op = "on" /\ HubWork.list = 0
  BY <1>1 DEF HubWork, HubOp, HubList
<1>4. /\ HubWork'.op = "adds" /\ HubWork'.list = 0 /\ HubWork'.slice = t
      /\ HubWork'.who = hub.client
  BY <1>2 DEF HubWork, HubOp, HubList
<1>5. Adds(Work, Work', None, 0, hub.client, t)
  BY <1>1, <1>3, <1>4, HubOthers, HubWorkThen, WorkIs DEF Adds
<1> QED
  BY <1>0, <1>1, <1>5, ListsStay, GuestsList DEF Appending, Appends, t

LEMMA StoreGuestsMoves ==
    ASSUME Typed, StoreGuests
    PROVE  Storing(None, 0)
<1>1. /\ hub.pc \in {"appended", "deleted"} /\ hub' = Resting
      /\ arrays' = arrays /\ guests' = hub.slice /\ users' = users /\ request' = request
  BY DEF StoreGuests
<1>3. HubWork.op \in Pending /\ HubWork.list = 0 /\ HubWork.slice = hub.slice
      /\ HubWork.op # "off"
  BY <1>1 DEF HubWork, HubOp, HubList, Pending
<1>4. HubWork'.op = "off"
  BY <1>1 DEF HubWork, HubOp, Resting
<1>5. DOMAIN Lists' = DOMAIN Lists /\ Lists'[0] = hub.slice
      /\ \A v \in DOMAIN Lists \ {0} : Lists'[v] = Lists[v]
  <2>1. Len(users) \in Nat
    BY DEF Typed
  <2> QED
    BY <1>1, <2>1 DEF Lists, Of
<1> QED
  BY <1>1, <1>3, <1>4, <1>5, HubOthers, HubWorkThen, WorkIs, GuestsList
     DEF Storing, Stores, WorksAt

LEMMA HubFindGuestMoves ==
    ASSUME Typed, RealWorld, HubFindGuest
    PROVE  Still
<1> DEFINE i == GuestIndex(hub.client)
<1>1. /\ hub \in HubType /\ hub.pc = "index"
      /\ hub' = IF i = 0 THEN Resting ELSE [hub EXCEPT !.pc = "delete", !.index = i]
      /\ arrays' = arrays /\ guests' = guests /\ users' = users /\ request' = request
  BY DEF HubFindGuest, Typed
<1>2. /\ Finds(Listed(guests), {hub.client}, i)
      /\ Len(Listed(guests)) = guests.len
      /\ Lists[0] = guests /\ 0 \in DOMAIN Lists
  BY GuestIndexFinds, GuestsFacts, ListFacts, GuestsList DEF Listed
<1>2a. i # 0 => i \in 1..guests.len /\ Listed(guests)[i] = hub.client
  BY <1>2 DEF Finds
<1> HIDE DEF i
<1>3. HubWork.op = "on"
  BY <1>1 DEF HubWork, HubOp
<1>4. CASE i = 0
  <2>1. HubWork'.op = "off"
    BY <1>1, <1>4 DEF HubWork, HubOp, Resting
  <2> QED
    BY <1>1, <1>3, <2>1, HubOthers, HubWorkThen, WorkIs, StillStep DEF Goroutines, Pending
<1>5. CASE i # 0
  <2>1. hub'.pc = "delete" /\ hub'.index = i /\ hub'.client = hub.client
    BY <1>1, <1>5 DEF HubType
  <2>2. /\ Work'[None].op = "aims" /\ Work'[None].list = 0 /\ Work'[None].index = i
        /\ Work'[None].who = hub.client
    BY <2>1, HubWorkThen DEF HubWork, HubOp, HubList
  <2>3. Lists' = Lists
    BY <1>1, ListsStay
  <2>4. \A g \in Clients : Work'[g] = Work[g]
    BY <1>1, HubMoves
  <2>5. Work[None].op = "on"
    BY <1>3, WorkIs
  <2>6. \A g \in Goroutines : g = None \/ g \in Clients
    BY DEF Goroutines
  <2> QED
    BY <1>1, <1>2, <1>2a, <1>5, <2>2, <2>3, <2>4, <2>5, <2>6 DEF Still, Rests, Pending, Listed
<1> QED
  BY <1>4, <1>5

LEMMA HubDeleteGuestMoves ==
    ASSUME Typed, Ranged, HubDeleteGuest
    PROVE  Crash \/ Deleting(None, 0, hub.index)
<1> DEFINE t == Shorter(guests)
<1>1. hub \in HubType /\ hub.pc = "delete" /\ guests \in Slice
  BY DEF HubDeleteGuest, Typed
<1>2. CASE ~(hub.index > guests.len)
  <2>1. /\ hub' = [hub EXCEPT !.pc = "deleted", !.slice = t]
        /\ arrays' = Deleted(arrays, guests, hub.index, None)
        /\ guests' = guests /\ users' = users /\ request' = request
    BY <1>2 DEF HubDeleteGuest, Shorter
  <2> HIDE DEF t
  <2>2. hub'.pc = "deleted" /\ hub'.slice = t
    BY <1>1, <2>1 DEF HubType
  <2>3. HubWork.op = "aims" /\ HubWork.list = 0 /\ HubWork.index = hub.index
    BY <1>1 DEF HubWork, HubOp, HubList
  <2>4. HubWork'.op = "removes" /\ HubWork'.list = 0 /\ HubWork'.slice = t
    BY <2>2 DEF HubWork, HubOp, HubList
  <2>5. Removes(Work, Work', None, 0, hub.index, t)
    BY <2>1, <2>3, <2>4, HubOthers, HubWorkThen, WorkIs DEF Removes
  <2>6. PlaceIn(hub.index, guests)
    BY <1>1, <1>2 DEF Ranged, HubRanged, HubType, Slice, PlaceIn
  <2> QED
    BY <2>1, <2>5, <2>6, ListsStay, GuestsList DEF Deleting, Deletes, t
<1> QED
  BY <1>2 DEF HubDeleteGuest

LEMMA AppLogoutMoves ==
    ASSUME Typed, Ranged, RealWorld, AppLogout
    PROVE  Still
<1>1. /\ hub \in HubType /\ hub.client \in Clients /\ hub.pc = "logout"
      /\ client[hub.client].user \in 1..Len(users)
  BY DEF AppLogout, Ranged, HubRanged, ClientsRanged, Typed
<1> DEFINE c == hub.client
           u == client[c].user
           i == LogoutIndex(c, u)
<1>2. /\ Finds(Listed(Of(u)), {c}, i)
      /\ Len(Listed(Of(u))) = Of(u).len
      /\ Lists[u] = Of(u) /\ u \in DOMAIN Lists
  BY <1>1, LogoutFinds, UserFacts, ListFacts, GuestsList DEF Listed
<1>2a. i # 0 => i \in 1..Of(u).len /\ Listed(Of(u))[i] = c
  BY <1>2 DEF Finds
<1>3. \/ Crash
      \/ /\ hub' = IF i = 0 THEN Resting
                   ELSE [hub EXCEPT !.pc = "cut", !.user = u, !.index = i]
         /\ arrays' = arrays /\ guests' = guests /\ users' = users /\ request' = request
  BY DEF AppLogout, LogoutIndex
<1> HIDE DEF i
<1>3a. HubWork.op = "on"
  BY <1>1 DEF HubWork, HubOp
<1>4. CASE /\ hub' = IF i = 0 THEN Resting
                     ELSE [hub EXCEPT !.pc = "cut", !.user = u, !.index = i]
           /\ arrays' = arrays /\ guests' = guests /\ users' = users /\ request' = request
  <2>1. CASE i = 0
    <3>1. HubWork'.op = "off"
      BY <1>4, <2>1 DEF HubWork, HubOp, Resting
    <3> QED
      BY <1>3a, <1>4, <3>1, HubOthers, HubWorkThen, WorkIs, StillStep DEF Goroutines, Pending
  <2>2. CASE i # 0
    <3>1. hub'.pc = "cut" /\ hub'.index = i /\ hub'.client = c /\ hub'.user = u
      BY <1>1, <1>4, <2>2 DEF HubType
    <3>2. /\ Work'[None].op = "aims" /\ Work'[None].list = u /\ Work'[None].index = i
          /\ Work'[None].who = c
      BY <3>1, HubWorkThen DEF HubWork, HubOp, HubList
    <3>3. Lists' = Lists
      BY <1>4, ListsStay
    <3>4. \A g \in Clients : Work'[g] = Work[g]
      BY <1>4, HubMoves
    <3>5. Work[None].op = "on"
      BY <1>3a, WorkIs
    <3>6. \A g \in Goroutines : g = None \/ g \in Clients
      BY DEF Goroutines
    <3> QED
      BY <1>2, <1>2a, <1>4, <2>2, <3>2, <3>3, <3>4, <3>5, <3>6 DEF Still, Rests, Pending, Listed
  <2> QED
    BY <2>1, <2>2
<1> QED
  BY <1>3, <1>4, CrashStill

LEMMA LogoutCutMoves ==
    ASSUME Typed, Ranged, LogoutCut
    PROVE  Crash \/ Deleting(None, hub.user, hub.index)
<1> DEFINE s == Of(hub.user)
           t == Shorter(s)
<1>1. hub \in HubType /\ hub.pc = "cut" /\ hub.user \in 1..Len(users) /\ hub.index >= 1
  BY DEF LogoutCut, Typed, Ranged, HubRanged
<1>1a. s \in Slice
  <2>1. users[hub.user] \in UserType
    BY <1>1 DEF Typed
  <2> QED
    BY <2>1 DEF Of, UserType
<1>2. CASE ~(hub.index > s.len)
  <2>1. /\ hub' = [hub EXCEPT !.pc = "store", !.slice = t]
        /\ arrays' = Deleted(arrays, s, hub.index, None)
        /\ guests' = guests /\ users' = users /\ request' = request
    BY <1>2 DEF LogoutCut, Shorter
  <2> HIDE DEF t
  <2>2. hub'.pc = "store" /\ hub'.slice = t /\ hub'.user = hub.user
    BY <1>1, <2>1 DEF HubType
  <2>3. HubWork.op = "aims" /\ HubWork.list = hub.user /\ HubWork.index = hub.index
    BY <1>1 DEF HubWork, HubOp, HubList
  <2>4. HubWork'.op = "removes" /\ HubWork'.list = hub.user /\ HubWork'.slice = t
    BY <2>2 DEF HubWork, HubOp, HubList
  <2>5. Removes(Work, Work', None, hub.user, hub.index, t)
    BY <2>1, <2>3, <2>4, HubOthers, HubWorkThen, WorkIs DEF Removes
  <2>6. PlaceIn(hub.index, s)
    <3> HIDE DEF s
    <3> QED
      BY <1>1, <1>1a, <1>2 DEF HubType, Slice, PlaceIn
  <2> QED
    BY <1>1, <2>1, <2>5, <2>6, ListsStay, GuestsList DEF Deleting, Deletes, t
<1> QED
  BY <1>2 DEF LogoutCut

\* A slice is stored in the User u.
LEMMA UserListed ==
    ASSUME Typed, NEW u \in 1..Len(users), NEW s \in Slice,
           guests' = guests, users' = [users EXCEPT ![u].clients = s]
    PROVE  /\ DOMAIN Lists' = DOMAIN Lists /\ Lists'[u] = s
           /\ \A v \in DOMAIN Lists \ {u} : Lists'[v] = Lists[v]
<1>1. users \in Seq(UserType) /\ Len(users) \in Nat
  BY DEF Typed
<1>2. /\ Len(users') = Len(users)
      /\ \A v \in 1..Len(users) :
           users'[v].clients = IF v = u THEN s ELSE users[v].clients
  BY <1>1, UserStored
<1> QED
  BY <1>1, <1>2 DEF Lists, Of

LEMMA LogoutStoreMoves ==
    ASSUME Typed, Ranged, LogoutStore
    PROVE  Storing(None, hub.user)
<1>1. /\ hub.pc = "store" /\ hub' = Resting /\ hub \in HubType
      /\ hub.user \in 1..Len(users) /\ hub.slice \in Slice
      /\ arrays' = arrays /\ guests' = guests /\ request' = request
      /\ users' = [users EXCEPT ![hub.user].clients = hub.slice]
  BY DEF LogoutStore, Typed, Ranged, HubRanged, HubType
<1>3. HubWork.op \in Pending /\ HubWork.list = hub.user /\ HubWork.slice = hub.slice
      /\ HubWork.op # "off"
  BY <1>1 DEF HubWork, HubOp, HubList, Pending
<1>4. HubWork'.op = "off"
  BY <1>1 DEF HubWork, HubOp, Resting
<1>5. DOMAIN Lists' = DOMAIN Lists /\ Lists'[hub.user] = hub.slice
      /\ \A v \in DOMAIN Lists \ {hub.user} : Lists'[v] = Lists[v]
  BY <1>1, UserListed
<1> QED
  BY <1>1, <1>3, <1>4, <1>5, HubOthers, HubWorkThen, WorkIs, GuestsList
     DEF Storing, Stores, WorksAt

-----------------------------------------------------------------------------
(* The steps of a Request.                                                   *)

LEMMA RequestOthers ==
    ASSUME Typed, NEW c \in Clients, NEW r, request' = [request EXCEPT ![c] = r],
           hub' = hub,
           hub.pc = "logout" => client'[hub.client].user = client[hub.client].user
    PROVE  /\ OthersStay(Work, Work', c)
           /\ request'[c] = r
           /\ Work[c] = RequestWork(c) /\ Work'[c] = RequestWork(c)'
<1>1. Work'[c] = RequestWork(c)'
  BY NoneAssumption DEF Work, Goroutines
<1>2. request'[c] = r
  BY DEF Typed
<1> QED
  BY <1>1, <1>2, RequestMoves, HubStays, WorkIs DEF OthersStay, Goroutines

LEMMA StoreUserMoves ==
    ASSUME Typed, NEW c \in Clients, StoreUser(c)
    PROVE  Still
<1> DEFINE r == [request[c] EXCEPT !.pc = "index"]
<1>1. /\ request[c].pc = "map" /\ request[c] \in RequestType
      /\ request' = [request EXCEPT ![c] = r]
      /\ arrays' = arrays /\ guests' = guests /\ users' = users /\ hub' = hub /\ client' = client
  BY DEF StoreUser, Goto, Typed
<1>2. r.pc = "index"
  BY <1>1 DEF RequestType
<1> HIDE DEF r
<1>3. /\ OthersStay(Work, Work', c)
      /\ request'[c] = r
      /\ Work[c] = RequestWork(c) /\ Work'[c] = RequestWork(c)'
  BY <1>1, RequestOthers
<1>4. Work[c].op = "off" /\ Work'[c].op = "on"
  BY <1>1, <1>2, <1>3 DEF RequestWork, RequestOp
<1> QED
  BY <1>1, <1>3, <1>4, StillStep DEF Pending, Goroutines

\* The hub was in its select, and receives.
LEMMA KickMoves ==
    ASSUME Typed, Ranged, NEW c \in Clients, Kick(c)
    PROVE  Still
<1> DEFINE r == [request[c] EXCEPT !.pc = "map"]
<1>1. /\ request[c].pc = "kick" /\ hub.pc = "select" /\ Receive(request[c].kick)
      /\ request' = [request EXCEPT ![c] = r]
      /\ request[c] \in RequestType /\ request[c].kick \in Clients
      /\ arrays' = arrays /\ guests' = guests /\ users' = users
  BY DEF Kick, Goto, Typed, Ranged, RequestsRanged, RequestType, Goroutines
<1>2. r.pc = "map" /\ hub'.pc \in {"logout", "close"}
  BY <1>1, ReceiveTyped DEF RequestType
<1> HIDE DEF r
<1>3. \A d \in Clients : d # c => Work'[d] = Work[d]
  BY <1>1, RequestMoves
<1>4. request'[c] = r /\ Work[c] = RequestWork(c) /\ Work'[c] = RequestWork(c)'
      /\ Work[None] = HubWork /\ Work'[None] = HubWork'
  BY <1>1, WorkIs, HubWorkThen, NoneAssumption DEF Work, Goroutines, Typed
<1>5. Work[c].op = "off" /\ Work'[c].op = "off"
  BY <1>1, <1>2, <1>4 DEF RequestWork, RequestOp
<1>6. Work[None].op = "off" /\ Work'[None].op \in {"on", "off"}
  BY <1>1, <1>2, <1>4 DEF HubWork, HubOp
<1>7. Lists' = Lists
  BY <1>1, ListsStay
<1> QED
  BY <1>1, <1>3, <1>5, <1>6, <1>7 DEF Still, Rests, Pending, Goroutines

LEMMA FindGuestMoves ==
    ASSUME Typed, RealWorld, NEW c \in Clients, FindGuest(c)
    PROVE  Still
<1> DEFINE i == GuestIndex(c)
           r == IF i = 0 THEN Idle ELSE [request[c] EXCEPT !.pc = "delete", !.index = i]
<1>1. /\ request[c].pc = "index" /\ request[c] \in RequestType
      /\ request' = [request EXCEPT ![c] = r]
      /\ arrays' = arrays /\ guests' = guests /\ users' = users /\ hub' = hub /\ client' = client
  BY DEF FindGuest, Typed
<1>2. /\ Finds(Listed(guests), {c}, i)
      /\ Len(Listed(guests)) = guests.len
      /\ Lists[0] = guests /\ 0 \in DOMAIN Lists
  BY GuestIndexFinds, GuestsFacts, ListFacts, GuestsList DEF Listed
<1>2a. i # 0 => i \in 1..guests.len /\ Listed(guests)[i] = c
  BY <1>2 DEF Finds
<1> HIDE DEF i
<1>2b. IF i = 0 THEN r.pc = "idle" ELSE r.pc = "delete" /\ r.index = i
  BY <1>1 DEF RequestType, Idle
<1> HIDE DEF r
<1>3. /\ OthersStay(Work, Work', c)
      /\ request'[c] = r
      /\ Work[c] = RequestWork(c) /\ Work'[c] = RequestWork(c)'
  BY <1>1, RequestOthers
<1>3a. Work[c].op = "on"
  BY <1>1, <1>3 DEF RequestWork, RequestOp
<1>4. CASE i = 0
  <2>1. Work'[c].op = "off"
    BY <1>2b, <1>3, <1>4 DEF RequestWork, RequestOp
  <2> QED
    BY <1>1, <1>3, <1>3a, <2>1, StillStep DEF Goroutines, Pending
<1>5. CASE i # 0
  <2>2. /\ Work'[c].op = "aims" /\ Work'[c].list = 0 /\ Work'[c].index = i
        /\ Work'[c].who = c
    BY <1>2b, <1>3, <1>5 DEF RequestWork, RequestOp, RequestList
  <2>3. Lists' = Lists
    BY <1>1, ListsStay
  <2> QED
    BY <1>1, <1>2, <1>2a, <1>3, <1>3a, <1>5, <2>2, <2>3 DEF Still, Rests, Pending, Listed, OthersStay
<1> QED
  BY <1>4, <1>5

LEMMA DeleteGuestMoves ==
    ASSUME Typed, Ranged, NEW c \in Clients, DeleteGuest(c)
    PROVE  Crash \/ Deleting(c, 0, request[c].index)
<1> DEFINE t == Shorter(guests)
           r == [request[c] EXCEPT !.pc = "deleted", !.slice = t]
<1>1. request[c].pc = "delete" /\ request[c] \in RequestType /\ guests \in Slice
  BY DEF DeleteGuest, Typed
<1>2. CASE ~(request[c].index > guests.len)
  <2>1. /\ request' = [request EXCEPT ![c] = r]
        /\ arrays' = Deleted(arrays, guests, request[c].index, None)
        /\ guests' = guests /\ users' = users /\ hub' = hub /\ client' = client
    BY <1>2 DEF DeleteGuest, Shorter, Typed
  <2> HIDE DEF t
  <2>2. r.pc = "deleted" /\ r.slice = t
    BY <1>1 DEF RequestType
  <2> HIDE DEF r
  <2>3. /\ OthersStay(Work, Work', c)
        /\ request'[c] = r
        /\ Work[c] = RequestWork(c) /\ Work'[c] = RequestWork(c)'
    BY <2>1, RequestOthers
  <2>4. Work[c].op = "aims" /\ Work[c].list = 0 /\ Work[c].index = request[c].index
    BY <1>1, <2>3 DEF RequestWork, RequestOp, RequestList
  <2>5. Work'[c].op = "removes" /\ Work'[c].list = 0 /\ Work'[c].slice = t
    BY <2>2, <2>3 DEF RequestWork, RequestOp, RequestList
  <2>6. Removes(Work, Work', c, 0, request[c].index, t)
    BY <2>3, <2>4, <2>5 DEF Removes
  <2>7. PlaceIn(request[c].index, guests)
    BY <1>1, <1>2 DEF Ranged, RequestsRanged, RequestType, Slice, PlaceIn
  <2> QED
    BY <2>1, <2>6, <2>7, ListsStay, GuestsList DEF Deleting, Deletes, t
<1> QED
  BY <1>2 DEF DeleteGuest

LEMMA StoreDeletedMoves ==
    ASSUME Typed, NEW c \in Clients, StoreDeleted(c)
    PROVE  Storing(c, 0)
<1>1. /\ request[c].pc = "deleted" /\ request' = [request EXCEPT ![c] = Idle]
      /\ arrays' = arrays /\ guests' = request[c].slice /\ users' = users
      /\ hub' = hub /\ client' = client
  BY DEF StoreDeleted
<1>2. /\ OthersStay(Work, Work', c)
      /\ request'[c] = Idle
      /\ Work[c] = RequestWork(c) /\ Work'[c] = RequestWork(c)'
  BY <1>1, RequestOthers
<1>3. Work[c].op = "removes" /\ Work[c].list = 0 /\ Work[c].slice = request[c].slice
  BY <1>1, <1>2 DEF RequestWork, RequestOp, RequestList
<1>4. Work'[c].op = "off"
  BY <1>2 DEF RequestWork, RequestOp, Idle
<1>5. DOMAIN Lists' = DOMAIN Lists /\ Lists'[0] = request[c].slice
      /\ \A v \in DOMAIN Lists \ {0} : Lists'[v] = Lists[v]
  <2>1. Len(users) \in Nat
    BY DEF Typed
  <2> QED
    BY <1>1, <2>1 DEF Lists, Of
<1> QED
  BY <1>1, <1>2, <1>3, <1>4, <1>5, GuestsList DEF Storing, Stores, WorksAt, Pending

LEMMA LoginCutMoves ==
    ASSUME Typed, Ranged, NEW c \in Clients, LoginCut(c)
    PROVE  Crash \/ Deleting(c, request[c].user, request[c].index)
<1> DEFINE u == request[c].user
           s == Of(u)
           t == Shorter(s)
           r == [request[c] EXCEPT !.pc = "cutted", !.slice = t]
<1>1. /\ request[c].pc = "cut" /\ request[c] \in RequestType /\ u \in 1..Len(users)
      /\ request[c].index >= 1
  BY DEF LoginCut, Typed, Ranged, RequestsRanged
<1>1a. s \in Slice
  <2>1. users[u] \in UserType
    BY <1>1 DEF Typed
  <2> QED
    BY <2>1 DEF Of, UserType
<1>2. CASE ~(request[c].index > s.len)
  <2>1. /\ request' = [request EXCEPT ![c] = r]
        /\ arrays' = Deleted(arrays, s, request[c].index, None)
        /\ guests' = guests /\ users' = users /\ hub' = hub /\ client' = client
    BY <1>2 DEF LoginCut, Shorter, Typed
  <2> HIDE DEF t
  <2>2. r.pc = "cutted" /\ r.slice = t /\ r.user = u
    BY <1>1 DEF RequestType
  <2> HIDE DEF r
  <2>3. /\ OthersStay(Work, Work', c)
        /\ request'[c] = r
        /\ Work[c] = RequestWork(c) /\ Work'[c] = RequestWork(c)'
    BY <2>1, RequestOthers
  <2>4. Work[c].op = "aims" /\ Work[c].list = u /\ Work[c].index = request[c].index
    BY <1>1, <2>3 DEF RequestWork, RequestOp, RequestList
  <2>5. Work'[c].op = "removes" /\ Work'[c].list = u /\ Work'[c].slice = t
    BY <2>2, <2>3 DEF RequestWork, RequestOp, RequestList
  <2>6. Removes(Work, Work', c, u, request[c].index, t)
    BY <2>3, <2>4, <2>5 DEF Removes
  <2>7. PlaceIn(request[c].index, s)
    <3> HIDE DEF s
    <3> QED
      BY <1>1, <1>1a, <1>2 DEF RequestType, Slice, PlaceIn
  <2> QED
    BY <1>1, <2>1, <2>6, <2>7, ListsStay, GuestsList DEF Deleting, Deletes, t
<1> QED
  BY <1>2 DEF LoginCut

LEMMA LoginAddMoves ==
    ASSUME Typed, Ranged, NEW c \in Clients, LoginAdd(c)
    PROVE  Appending(c, request[c].user, c)
<1> DEFINE u == request[c].user
           s == Of(u)
           t == AppendTo(arrays, s, <<c>>)
           r == [request[c] EXCEPT !.pc = "added", !.slice = t]
<1>1. /\ request[c].pc = "add" /\ request[c] \in RequestType /\ u \in 1..Len(users)
      /\ request' = [request EXCEPT ![c] = r]
      /\ arrays' = Appended(arrays, s, <<c>>, None)
      /\ guests' = guests /\ users' = users /\ hub' = hub /\ client' = client
  BY DEF LoginAdd, Typed, Ranged, RequestsRanged
<1> HIDE DEF t
<1>2. r.pc = "added" /\ r.slice = t /\ r.user = u
  BY <1>1 DEF RequestType
<1> HIDE DEF r
<1>3. /\ OthersStay(Work, Work', c)
      /\ request'[c] = r
      /\ Work[c] = RequestWork(c) /\ Work'[c] = RequestWork(c)'
  BY <1>1, RequestOthers
<1>4. Work[c].op = "on" /\ Work[c].list = u
  BY <1>1, <1>3 DEF RequestWork, RequestOp, RequestList
<1>5. Work'[c].op = "adds" /\ Work'[c].list = u /\ Work'[c].slice = t /\ Work'[c].who = c
  BY <1>2, <1>3 DEF RequestWork, RequestOp, RequestList
<1>6. Adds(Work, Work', c, u, c, t)
  BY <1>3, <1>4, <1>5 DEF Adds
<1> QED
  BY <1>1, <1>6, ListsStay, GuestsList DEF Appending, Appends, t

LEMMA LoginStoreMoves ==
    ASSUME Typed, Ranged, NEW c \in Clients, LoginStore(c)
    PROVE  Storing(c, request[c].user)
<1> DEFINE u == request[c].user
           pc == IF request[c].pc = "cutted" THEN "add"
                 ELSE IF request[c].kick = None THEN "map" ELSE "kick"
           r == [request[c] EXCEPT !.pc = pc]
<1>1. /\ request[c].pc \in {"cutted", "added"} /\ request[c] \in RequestType
      /\ u \in 1..Len(users) /\ request[c].slice \in Slice
      /\ users' = [users EXCEPT ![u].clients = request[c].slice]
      /\ request' = [request EXCEPT ![c] = r]
      /\ arrays' = arrays /\ guests' = guests /\ hub' = hub /\ client' = client
  BY DEF LoginStore, Goto, Typed, Ranged, RequestsRanged, RequestType
<1>1a. pc \in {"add", "map", "kick"}
  OBVIOUS
<1> HIDE DEF pc
<1>1b. r.pc = pc /\ r.user = u
  BY <1>1 DEF RequestType
<1> HIDE DEF r
<1>2. /\ OthersStay(Work, Work', c)
      /\ request'[c] = r
      /\ Work[c] = RequestWork(c) /\ Work'[c] = RequestWork(c)'
  BY <1>1, RequestOthers
<1>3. Work[c].op \in Pending /\ Work[c].list = u /\ Work[c].slice = request[c].slice
      /\ Work[c].op # "off"
  BY <1>1, <1>2 DEF RequestWork, RequestOp, RequestList, Pending
<1>4. Work'[c].op \in {"off", "on"}
  BY <1>1a, <1>1b, <1>2 DEF RequestWork, RequestOp
<1>5. DOMAIN Lists' = DOMAIN Lists /\ Lists'[u] = request[c].slice
      /\ \A v \in DOMAIN Lists \ {u} : Lists'[v] = Lists[v]
  BY <1>1, UserListed
<1> QED
  BY <1>1, <1>2, <1>3, <1>4, <1>5, GuestsList DEF Storing, Stores, WorksAt

\* The hub may be at the search of appLogout for c, which gets another user.
LEMMA AppLoginMoves ==
    ASSUME Typed, Ranged, RealWorld, NEW c \in Clients, AppLogin(c)
    PROVE  Still
<1> DEFINE u == request[c].user
           i == Found(c).index
<1>1. CASE /\ client' = [client EXCEPT ![c].user = request[c].user,
                                       ![c].app = request[c].app]
           /\ request' = [request EXCEPT ![c] = Found(c)]
           /\ UNCHANGED <<arrays, guests, stored, users, hub, guard, cast, crashed>>
  <2>0. request[c].pc = "scan" /\ u \in 1..Len(users) /\ request[c] \in RequestType
    BY AppLoginDoes, RequestFacts DEF RequestFits
  <2>1. /\ Found(c).pc \in {"add", "map", "cut"} /\ Found(c).user = u
        /\ Found(c).pc = "cut" => Found(c).index >= 1
    BY <2>0, FoundTyped
  <2>2. \A d \in Clients : d # c => Work'[d] = Work[d]
    BY <1>1, RequestMoves
  <2>3. /\ request'[c] = Found(c) /\ Work[c] = RequestWork(c) /\ Work'[c] = RequestWork(c)'
        /\ Work[None] = HubWork /\ Work'[None] = HubWork'
    BY <1>1, WorkIs, HubWorkThen, NoneAssumption DEF Work, Goroutines, Typed
  <2>4. Work[c].op = "on"
    BY <2>0, <2>3 DEF RequestWork, RequestOp
  <2>5. /\ Work'[c].op \in {"on", "off", "aims"} /\ Work'[c].list \in {u, 0}
        /\ Work'[c].op = "aims" =>
             /\ Found(c).pc = "cut" /\ Work'[c].list = u
             /\ Work'[c].index = Found(c).index /\ Work'[c].who = Found(c).kick
    BY <2>1, <2>3 DEF RequestWork, RequestOp, RequestList
  <2>6. Found(c).pc = "cut" =>
          i \in 1..Lists[u].len /\ Contents(arrays, Lists[u])[i] = Found(c).kick
    <3> DEFINE k == LoginIndex(request[c].app, u)
               q == Listed(Of(u))
    <3>1. i = k
      BY <2>0 DEF Found, RequestType
    <3>2. Finds(q, ByApp(request[c].app), k) /\ Len(q) = Of(u).len
          /\ Lists[u] = Of(u)
      BY <2>0, LoginFinds, UserFacts, ListFacts, GuestsList DEF Listed
    <3>3. Found(c).pc = IF k = 0 THEN "add" ELSE IF q[k] = c THEN "map" ELSE "cut"
      BY <2>0 DEF Found, RequestType
    <3>4. Found(c).kick = IF k = 0 \/ q[k] = c THEN None ELSE q[k]
      BY <2>0 DEF Found, RequestType
    <3>5. k # 0 => k \in 1..Len(q)
      BY <3>2 DEF Finds
    <3> HIDE DEF k
    <3> QED
      BY <3>1, <3>2, <3>3, <3>4, <3>5 DEF Listed
  <2>7. /\ Work[None].op = Work'[None].op
        /\ Work[None].op # "on" => Work'[None] = Work[None]
    <3>1. hub' = hub
      BY <1>1
    <3> QED
      BY <2>3, <3>1 DEF HubWork, HubOp, HubList
  <2>8. Lists' = Lists /\ u \in DOMAIN Lists
    BY <1>1, <2>0, ListsStay, GuestsList
  <2>9. \A g \in Goroutines : g = None \/ g = c \/ (g \in Clients /\ g # c)
    BY DEF Goroutines
  <2>10. \A g \in Goroutines :
           Work[g].op \in Pending \/ Work'[g].op \in Pending => Work'[g] = Work[g]
    BY <2>2, <2>4, <2>5, <2>7, <2>9 DEF Pending
  <2>11. \A g \in Goroutines : Work'[g].op = "aims" /\ Work'[g] # Work[g] => g = c
    BY <2>2, <2>7, <2>9
  <2> HIDE DEF u, i
  <2> QED
    BY <1>1, <2>5, <2>6, <2>8, <2>10, <2>11 DEF Still, Rests, i
<1> QED
  BY <1>1, AppLoginDoes, CrashStill

\* A user is made with no client.
LEMMA UserLoginMoves ==
    ASSUME Typed, Ranged, NEW c \in Clients, UserLogin(c)
    PROVE  Still
<1>1. /\ request[c].pc = "idle" /\ client[c].logins # <<>>
      /\ client' = [client EXCEPT ![c].logins = Tail(@)]
      /\ users' = Made(c)
      /\ request' = [request EXCEPT ![c] = Begun(c)]
      /\ arrays' = arrays /\ guests' = guests /\ hub' = hub
  BY UserLoginDoes
<1>2. Begun(c).pc = "scan"
  BY <1>1, BegunTyped
<1>3. hub.pc = "logout" => client'[hub.client].user = client[hub.client].user
  <2>1. hub.pc = "logout" => hub.client \in Clients
    BY DEF Ranged, HubRanged
  <2> QED
    BY <1>1, <2>1 DEF Typed, ClientType
<1>4. /\ OthersStay(Work, Work', c)
      /\ request'[c] = Begun(c)
      /\ Work[c] = RequestWork(c) /\ Work'[c] = RequestWork(c)'
  BY <1>1, <1>3, RequestOthers
<1>5. Work[c].op = "off" /\ Work'[c].op = "on"
  BY <1>1, <1>2, <1>4 DEF RequestWork, RequestOp
<1>6. /\ DOMAIN Lists \subseteq DOMAIN Lists'
      /\ \A u \in DOMAIN Lists : Lists'[u] = Lists[u]
      /\ \A u \in DOMAIN Lists' \ DOMAIN Lists : Lists'[u] = Nil
  <2>1. /\ Len(users) <= Len(users') /\ Len(users') \in Nat /\ Len(users) \in Nat
        /\ \A u \in 1..Len(users) : users'[u] = users[u]
        /\ \A u \in 1..Len(users') : u > Len(users) => users'[u].clients = Nil
    BY <1>1, BegunTyped
  <2> QED
    BY <1>1, <2>1 DEF Lists, Of
<1> QED
  BY <1>1, <1>4, <1>5, <1>6 DEF Still, Rests, OthersStay, Pending

-----------------------------------------------------------------------------
(* guard and Broadcast.                                                      *)

LEMMA ReadersMove ==
    ASSUME GuardStep \/ CastStep
    PROVE  Still
<1>1. \/ Crash
      \/ UNCHANGED <<arrays, guests, users, client, request, hub>>
  BY DEF GuardStep, CastStep, GuardFinds, GuardDeletes, Broadcast, SendNext, EndOfSlice,
         RangeUsers
<1>2. CASE UNCHANGED <<arrays, guests, users, client, request, hub>>
  <2>1. \A g \in Goroutines : Work'[g] = Work[g]
    BY <1>2, HubMoves, HubStays DEF Goroutines
  <2> QED
    BY <1>2, <2>1, ListsStay DEF Still, Rests
<1> QED
  BY <1>1, <1>2, CrashStill

LEMMA AnyStep ==
    ASSUME Typed, Ranged, RealWorld, Next
    PROVE  \/ Still
           \/ \E g \in Goroutines : \E u \in DOMAIN Lists :
                \/ \E x \in Clients : Appending(g, u, x)
                \/ \E i : Deleting(g, u, i)
                \/ Storing(g, u)
<1>0. None \in Goroutines /\ Clients \subseteq Goroutines
  BY DEF Goroutines
<1>d. /\ \A g, u, x : Appending(g, u, x) => u \in DOMAIN Lists
      /\ \A g, u, i : Deleting(g, u, i) => u \in DOMAIN Lists
      /\ \A g, u : Storing(g, u) => u \in DOMAIN Lists
  BY DEF Appending, Appends, Deleting, Deletes, Storing, Stores
<1>1. CASE HubStep
  <2>1. CASE \E c \in Clients : Connect(c) \/ Disconnect(c)
    BY <2>1, ConnectMoves, DisconnectMoves
  <2>2. CASE AppendGuest
    BY <1>0, <1>d, <2>2, AppendGuestMoves
  <2>3. CASE StoreGuests
    BY <1>0, <1>d, <2>3, StoreGuestsMoves
  <2>4. CASE AppLogout
    BY <2>4, AppLogoutMoves
  <2>5. CASE LogoutCut
    BY <1>0, <1>d, <2>5, LogoutCutMoves, CrashStill
  <2>6. CASE LogoutStore
    BY <1>0, <1>d, <2>6, LogoutStoreMoves
  <2>7. CASE CloseGuest
    BY <2>7, CloseGuestMoves
  <2>8. CASE HubFindGuest
    BY <2>8, HubFindGuestMoves
  <2>9. CASE HubDeleteGuest
    BY <1>0, <1>d, <2>9, HubDeleteGuestMoves, CrashStill
  <2> QED
    BY <1>1, <2>1, <2>2, <2>3, <2>4, <2>5, <2>6, <2>7, <2>8, <2>9 DEF HubStep
<1>2. ASSUME NEW c \in Clients, RequestStep(c)
      PROVE  \/ Still
             \/ \E g \in Goroutines : \E u \in DOMAIN Lists :
                  \/ \E x \in Clients : Appending(g, u, x)
                  \/ \E i : Deleting(g, u, i)
                  \/ Storing(g, u)
  <2>1. CASE UserLogin(c) \/ AppLogin(c) \/ Kick(c) \/ StoreUser(c) \/ FindGuest(c)
    BY <2>1, UserLoginMoves, AppLoginMoves, KickMoves, StoreUserMoves, FindGuestMoves
  <2>2. CASE LoginCut(c)
    BY <1>0, <1>d, <2>2, LoginCutMoves, CrashStill
  <2>3. CASE LoginAdd(c)
    BY <1>0, <1>d, <2>3, LoginAddMoves
  <2>4. CASE LoginStore(c)
    BY <1>0, <1>d, <2>4, LoginStoreMoves
  <2>5. CASE DeleteGuest(c)
    BY <1>0, <1>d, <2>5, DeleteGuestMoves, CrashStill
  <2>6. CASE StoreDeleted(c)
    BY <1>0, <1>d, <2>6, StoreDeletedMoves
  <2> QED
    BY <1>2, <2>1, <2>2, <2>3, <2>4, <2>5, <2>6 DEF RequestStep
<1> QED
  BY <1>1, <1>2, ReadersMove DEF Next

-----------------------------------------------------------------------------
(* Lists that one goroutine at a time is at.                                 *)

LEMMA WorkFields ==
    /\ Work[None].op = HubOp /\ Work[None].list = HubList
    /\ \A c \in Clients : Work[c].op = RequestOp(c) /\ Work[c].list = RequestList(c)
<1>1. HubWork.op = HubOp /\ HubWork.list = HubList
  BY DEF HubWork
<1>2. \A c \in Clients :
        RequestWork(c).op = RequestOp(c) /\ RequestWork(c).list = RequestList(c)
  BY DEF RequestWork
<1> QED
  BY <1>1, <1>2, WorkIs

\* Who is at work is at a list that there is.
LEMMA WorkListed ==
    ASSUME Typed, Ranged, NEW g \in Goroutines, Work[g].op # "off"
    PROVE  Work[g].list \in DOMAIN Lists
<1>0. Len(users) \in Nat /\ DOMAIN Lists = 0..Len(users)
  BY GuestsList DEF Typed
<1>1. CASE g = None
  <2>1. Work[g].list = HubList /\ HubOp # "off"
    BY <1>1, WorkFields
  <2>2. HubList \in 0..Len(users)
    BY <1>0, <2>1 DEF HubList, HubOp, Ranged, HubRanged, ClientsRanged
  <2> QED
    BY <1>0, <2>1, <2>2
<1>2. CASE g \in Clients
  <2>1. Work[g].list = RequestList(g) /\ RequestOp(g) # "off"
    BY <1>2, WorkFields
  <2>2. RequestList(g) \in 0..Len(users)
    BY <1>0, <1>2, <2>1 DEF RequestList, RequestOp, Ranged, RequestsRanged
  <2> QED
    BY <1>0, <2>1, <2>2
<1> QED
  BY <1>1, <1>2 DEF Goroutines

\* Who works at a list is at it in the history.
LEMMA WorksIsAt ==
    ASSUME Typed, Ranged, NEW u \in 0..Len(users), NEW g \in Goroutines, WorksAt(Work, g, u)
    PROVE  g \in IF u = 0 THEN AtGuests ELSE AtUser(u)
<1>0. Len(users) \in Nat
  BY DEF Typed
<1>1. CASE g = None
  <2>1. HubList = u /\ HubOp # "off"
    BY <1>1, WorkFields DEF WorksAt
  <2>2. CASE hub.pc = "logout"
    <3>1. client[hub.client].user = u /\ u # 0
      BY <2>1, <2>2 DEF HubList, Ranged, HubRanged
    <3> QED
      BY <1>1, <2>2, <3>1 DEF AtUser
  <2>3. CASE hub.pc \in {"cut", "store"}
    <3>1. hub.user = u /\ u # 0
      BY <1>0, <2>1, <2>3 DEF HubList, Ranged, HubRanged
    <3> QED
      BY <1>1, <2>3, <3>1 DEF AtUser
  <2>4. CASE hub.pc \notin {"logout", "cut", "store"}
    <3>1. u = 0 /\ hub.pc \in {"append", "appended", "index", "delete", "deleted"}
      BY <2>1, <2>4 DEF HubList, HubOp
    <3> QED
      BY <1>1, <3>1 DEF AtGuests
  <2> QED
    BY <2>2, <2>3, <2>4
<1>2. CASE g \in Clients
  <2>1. RequestList(g) = u /\ RequestOp(g) # "off"
    BY <1>2, WorkFields DEF WorksAt
  <2>2. CASE request[g].pc \in {"scan", "cut", "cutted", "add", "added"}
    <3>1. request[g].user = u /\ u # 0
      BY <1>0, <1>2, <2>1, <2>2 DEF RequestList, Ranged, RequestsRanged
    <3> QED
      BY <1>2, <2>2, <3>1 DEF AtUser
  <2>3. CASE request[g].pc \notin {"scan", "cut", "cutted", "add", "added"}
    <3>1. u = 0 /\ request[g].pc \in {"index", "delete", "deleted"}
      BY <2>1, <2>3 DEF RequestList, RequestOp
    <3> QED
      BY <1>2, <3>1 DEF AtGuests
  <2> QED
    BY <2>2, <2>3
<1> QED
  BY <1>1, <1>2 DEF Goroutines

AloneNow == \A u \in DOMAIN Lists : u \notin Now.lists => Alone(Work, u)

LEMMA NowAlone == Typed /\ Ranged => AloneNow
<1> SUFFICES ASSUME Typed, Ranged, NEW u \in DOMAIN Lists, u \notin Now.lists,
                    NEW g \in Goroutines, NEW h \in Goroutines,
                    WorksAt(Work, g, u), WorksAt(Work, h, u)
             PROVE  g = h
  BY DEF AloneNow, Alone
<1>1. u \in 0..Len(users)
  BY GuestsList
<1>2. g \in IF u = 0 THEN AtGuests ELSE AtUser(u)
  BY <1>1, WorksIsAt
<1>3. h \in IF u = 0 THEN AtGuests ELSE AtUser(u)
  BY <1>1, WorksIsAt
<1>4. Now.lists = {v \in 0..Len(users) :
                     \E a, b \in IF v = 0 THEN AtGuests ELSE AtUser(v) : a # b}
  BY DEF Now
<1> QED
  BY <1>1, <1>2, <1>3, <1>4

LEMMA NowAloneThen == Typed' /\ Ranged' => AloneNow'
  BY NowAlone, PTL

\* Lists that no two goroutines have been at at once are well.
Calm(u) == u \in DOMAIN Lists /\ u \notin seen.lists
Well(u) == Alone(Work, u) /\ Steady(arrays, Lists, Work, u)
ListsInv == RealWorld /\ \A u : Calm(u) => Well(u)

\* What a step leaves of a list.
Same(u) == Shown(arrays, Lists, Work, u)' = Shown(arrays, Lists, Work, u)

LEMMA CalmBefore ==
    ASSUME Typed', Ranged', SeenTyped, Next, NEW u, Calm(u)'
    PROVE  u \notin seen.lists /\ Alone(Work', u)
<1>1. u \notin seen.lists /\ u \notin Now'.lists /\ u \in DOMAIN Lists'
  BY SeenStep DEF Calm
<1> QED
  BY <1>1, NowAloneThen DEF AloneNow

\* A step that changes no list.
LEMMA StillKeeps ==
    ASSUME Typed, Ranged, ListsInv, Still
    PROVE  /\ RealWorld'
           /\ \A u \in DOMAIN Lists : Same(u) /\ (Well(u) => Steady(arrays, Lists, Work, u)')
           /\ \A u \in DOMAIN Lists' \ DOMAIN Lists :
                /\ Steady(arrays, Lists, Work, u)'
                /\ Shown(arrays, Lists, Work, u)' = {<<>>}
<1>1. World(arrays, Lists, Work)
  BY DEF ListsInv, RealWorld
<1>2. arrays' = arrays /\ Rests(arrays, Lists, Lists', Work, Work')
  BY DEF Still
<1>4. \A g \in Goroutines : Work'[g].op = "aims" => Work'[g].list \in DOMAIN Lists
  BY <1>2, WorkListed DEF Rests
<1>5. /\ World(arrays, Lists', Work')
      /\ \A u \in DOMAIN Lists :
           /\ Shown(arrays, Lists', Work', u) = Shown(arrays, Lists, Work, u)
           /\ Alone(Work, u) /\ Steady(arrays, Lists, Work, u) => Steady(arrays, Lists', Work', u)
      /\ \A u \in DOMAIN Lists' \ DOMAIN Lists :
           /\ Shown(arrays, Lists', Work', u) = {<<>>}
           /\ (\A g \in Goroutines : Work'[g].op = "aims" => Work'[g].list # u) =>
                 Steady(arrays, Lists', Work', u)
  BY <1>1, <1>2, RestStep
<1>6. \A u \in DOMAIN Lists' \ DOMAIN Lists :
        \A g \in Goroutines : Work'[g].op = "aims" => Work'[g].list # u
  BY <1>4
<1> QED
  BY <1>2, <1>5, <1>6 DEF RealWorld, Same, Well

\* append: the list gets the client at its end.
LEMMA AppendingKeeps ==
    ASSUME ListsInv, NEW g \in Goroutines, NEW u, NEW x \in Clients, Appending(g, u, x)
    PROVE  /\ RealWorld'
           /\ DOMAIN Lists' = DOMAIN Lists
           /\ \A v \in DOMAIN Lists \ {u} :
                Same(v) /\ (Well(v) => Steady(arrays, Lists, Work, v)')
           /\ Well(u) => /\ Steady(arrays, Lists, Work, u)'
                         /\ \E p \in Shown(arrays, Lists, Work, u) :
                              Shown(arrays, Lists, Work, u)' = {Append(p, x)}
<1>1. World(arrays, Lists, Work)
  BY DEF ListsInv, RealWorld
<1>2. Lists' = Lists /\ Appends(arrays, arrays', Lists, Work, Work', g, u, x)
  BY DEF Appending
<1>3. /\ World(arrays', Lists, Work')
      /\ Elsewhere(arrays, Lists, Work, arrays', Lists, Work', u)
      /\ Alone(Work, u) /\ Steady(arrays, Lists, Work, u) =>
           /\ Steady(arrays', Lists, Work', u)
           /\ \E p \in Shown(arrays, Lists, Work, u) :
                Shown(arrays', Lists, Work', u) = {Append(p, x)}
  BY <1>1, <1>2, AppendStep
<1> QED
  BY <1>2, <1>3 DEF RealWorld, Same, Well, Elsewhere

\* slices.Delete: the list loses the client at the place.
LEMMA DeletingKeeps ==
    ASSUME ListsInv, NEW g \in Goroutines, NEW u, NEW i, Deleting(g, u, i)
    PROVE  /\ RealWorld'
           /\ DOMAIN Lists' = DOMAIN Lists
           /\ \A v \in DOMAIN Lists \ {u} :
                Same(v) /\ (Well(v) => Steady(arrays, Lists, Work, v)')
           /\ Well(u) => /\ Steady(arrays, Lists, Work, u)'
                         /\ \E p \in Shown(arrays, Lists, Work, u) :
                              /\ i \in 1..Len(p) /\ p[i] = Work[g].who
                              /\ Shown(arrays, Lists, Work, u)' = {WithoutAt(p, i)}
<1>1. World(arrays, Lists, Work)
  BY DEF ListsInv, RealWorld
<1>2. Lists' = Lists /\ Deletes(arrays, arrays', Lists, Work, Work', g, u, i)
  BY DEF Deleting
<1>3. /\ World(arrays', Lists, Work')
      /\ Elsewhere(arrays, Lists, Work, arrays', Lists, Work', u)
      /\ Alone(Work, u) /\ Steady(arrays, Lists, Work, u) =>
           /\ Steady(arrays', Lists, Work', u)
           /\ \E p \in Shown(arrays, Lists, Work, u) :
                /\ i \in 1..Len(p) /\ p[i] = Work[g].who
                /\ Shown(arrays', Lists, Work', u) = {WithoutAt(p, i)}
  BY <1>1, <1>2, DeleteStep
<1> QED
  BY <1>2, <1>3 DEF RealWorld, Same, Well, Elsewhere

\* The slice that was made is stored.
LEMMA StoringKeeps ==
    ASSUME ListsInv, NEW g \in Goroutines, NEW u, Storing(g, u)
    PROVE  /\ RealWorld'
           /\ DOMAIN Lists' = DOMAIN Lists
           /\ \A v \in DOMAIN Lists \ {u} :
                Same(v) /\ (Well(v) => Steady(arrays, Lists, Work, v)')
           /\ Well(u) => Same(u) /\ Steady(arrays, Lists, Work, u)'
<1>1. World(arrays, Lists, Work)
  BY DEF ListsInv, RealWorld
<1>2. arrays' = arrays /\ Stores(Lists, Lists', Work, Work', g, u)
  BY DEF Storing
<1>2a. u \in DOMAIN Lists /\ DOMAIN Lists' = DOMAIN Lists
  BY <1>2 DEF Stores
<1>3. /\ World(arrays, Lists', Work')
      /\ Elsewhere(arrays, Lists, Work, arrays, Lists', Work', u)
      /\ Alone(Work, u) /\ Steady(arrays, Lists, Work, u) =>
           /\ Steady(arrays, Lists', Work', u)
           /\ Shown(arrays, Lists', Work', u) = Shown(arrays, Lists, Work, u)
  BY <1>1, <1>2, StoreStep
<1> QED
  BY <1>2, <1>2a, <1>3 DEF RealWorld, Same, Well, Elsewhere

LEMMA ListsInvInit == Init => ListsInv
<1> SUFFICES ASSUME Init PROVE ListsInv
  OBVIOUS
<1>1. users = <<>> /\ guests = Nil /\ arrays = <<>> /\ hub = Resting
      /\ \A c \in Clients : request[c] = Idle
  BY DEF Init
<1>2. \A g \in Goroutines : Work[g].op = "off"
  <2>1. HubOp = "off"
    BY <1>1 DEF HubOp, Resting
  <2>2. \A c \in Clients : RequestOp(c) = "off"
    BY <1>1 DEF RequestOp, Idle
  <2> QED
    BY <2>1, <2>2, WorkFields DEF Goroutines
<1>3. DOMAIN Lists = {0} /\ Lists[0] = Nil
  <2>1. 0..Len(users) = {0}
    BY <1>1
  <2> QED
    BY <1>1, <2>1 DEF Lists
<1>4. Nil \in Slice /\ IsSlice(arrays, Nil) /\ Contents(arrays, Nil) = <<>> /\ Nil.array = 0
  BY <1>1 DEF Nil, Slice, IsSlice, CapOf, Contents
<1>5. \A u : Held(Lists, Work, u) = {Lists[u]}
  BY <1>2 DEF Held, PendsAt, Pending
<1>6. RealWorld
  <2>1. arrays \in Seq(Seq(Goroutines))
    BY <1>1
  <2> QED
    BY <1>2, <1>3, <1>4, <1>5, <2>1 DEF RealWorld, World, Apart, Pending
<1>7. \A u \in DOMAIN Lists : Shown(arrays, Lists, Work, u) = {<<>>}
  BY <1>2, <1>3, <1>4 DEF Shown, PendsAt, Pending
<1>8. \A u \in DOMAIN Lists : Well(u)
  <2>1. <<>> \in Seq(Clients)
    OBVIOUS
  <2> QED
    BY <1>2, <1>7, <2>1 DEF Well, Alone, WorksAt, Steady
<1> QED
  BY <1>6, <1>8 DEF ListsInv, Calm

LEMMA ListsInvStep ==
    ASSUME Typed, Ranged, SeenTyped, ListsInv, Next
    PROVE  ListsInv'
<1>0. Typed' /\ Ranged' /\ RealWorld
  BY TypedStep DEF ListsInv
<1>1. \A u : Calm(u)' => u \notin seen.lists /\ Alone(Work', u)
  BY <1>0, CalmBefore
<1>2. CASE Still
  <2>1. RealWorld'
    BY <1>2, StillKeeps
  <2>2. ASSUME NEW u, Calm(u)' PROVE Well(u)'
    <3>1. u \in DOMAIN Lists'
      BY <2>2 DEF Calm
    <3>2. CASE u \in DOMAIN Lists
      BY <1>1, <1>2, <2>2, <3>2, StillKeeps DEF ListsInv, Calm, Well
    <3>3. CASE u \notin DOMAIN Lists
      BY <1>1, <1>2, <2>2, <3>1, <3>3, StillKeeps DEF Well
    <3> QED
      BY <3>2, <3>3
  <2> QED
    BY <2>1, <2>2 DEF ListsInv
<1>3. ASSUME NEW g \in Goroutines, NEW u \in DOMAIN Lists,
             \/ \E x \in Clients : Appending(g, u, x)
             \/ \E i : Deleting(g, u, i)
             \/ Storing(g, u)
      PROVE  ListsInv'
  <2>1. /\ RealWorld' /\ DOMAIN Lists' = DOMAIN Lists
        /\ \A v \in DOMAIN Lists : Well(v) => Steady(arrays, Lists, Work, v)'
    <3>1. CASE \E x \in Clients : Appending(g, u, x)
      BY <3>1, AppendingKeeps
    <3>2. CASE \E i : Deleting(g, u, i)
      BY <3>2, DeletingKeeps
    <3>3. CASE Storing(g, u)
      BY <3>3, StoringKeeps
    <3> QED
      BY <1>3, <3>1, <3>2, <3>3
  <2>2. ASSUME NEW v, Calm(v)' PROVE Well(v)'
    BY <1>1, <2>1, <2>2 DEF ListsInv, Calm, Well
  <2> QED
    BY <2>1, <2>2 DEF ListsInv
<1> QED
  BY <1>0, <1>2, <1>3, AnyStep

-----------------------------------------------------------------------------
(* What a broadcast reads.                                                   *)

\* A slice that is read holds clients, and whoever appends does so behind it.
Frozen(heap, L, W, s) ==
    /\ s \in Slice /\ IsSlice(heap, s)
    /\ Contents(heap, s) \in Seq(Clients)
    /\ \A u \in DOMAIN L : \A t \in Held(L, W, u) : Within(s, t)

LEMMA FrozenRests ==
    ASSUME NEW heap, NEW L, NEW L2, NEW W, NEW W2, NEW s,
           World(heap, L, W), Rests(heap, L, L2, W, W2), Frozen(heap, L, W, s)
    PROVE  Frozen(heap, L2, W2, s)
<1>1. /\ \A u \in DOMAIN L : Held(L2, W2, u) = Held(L, W, u)
      /\ \A u \in DOMAIN L2 \ DOMAIN L : Held(L2, W2, u) = {Nil}
  BY RestStep
<1>2. Within(s, Nil)
  BY DEF Within, Nil, Frozen, IsSlice, CapOf
<1> QED
  BY <1>1, <1>2 DEF Frozen

LEMMA FrozenAppends ==
    ASSUME NEW heap, NEW heap2, NEW L, NEW W, NEW W2, NEW g, NEW u, NEW x, NEW s,
           g \in Goroutines, x \in Clients, World(heap, L, W),
           Appends(heap, heap2, L, W, W2, g, u, x), Frozen(heap, L, W, s)
    PROVE  Frozen(heap2, L, W2, s)
<1> DEFINE xs == <<x>>
           own == L[u]
           t == AppendTo(heap, own, xs)
<1>0. u \in DOMAIN L /\ heap2 = Appended(heap, own, xs, None) /\ Adds(W, W2, g, u, x, t)
  BY DEF Appends
<1>1. heap \in Seq(Seq(Goroutines)) /\ own \in Slice /\ IsSlice(heap, own)
  BY <1>0 DEF World
<1>2. xs \in Seq(Goroutines) /\ None \in Goroutines /\ Len(xs) = 1
  BY DEF Goroutines
<1>3. s \in Slice /\ IsSlice(heap, s) /\ Within(s, own)
  BY <1>0 DEF Frozen, Held
<1>4. t.len = own.len + 1
  BY <1>2 DEF AppendTo
<1> HIDE DEF xs
<1>5. /\ heap2 \in Seq(Seq(Goroutines)) /\ Kept(heap, heap2, own.array)
      /\ t.array \in {own.array, Len(heap) + 1}
  BY <1>0, <1>1, <1>2, AppendKeeps
<1>6. Contents(heap2, s) = Contents(heap, s)
  <2> HIDE DEF own
  <2> QED
    BY <1>0, <1>1, <1>2, <1>3, AppendSpares
<1>7. IsSlice(heap2, s)
  <2>1. Len(heap) \in Nat /\ Len(heap2) \in Nat
    BY <1>1, <1>5
  <2> QED
    BY <1>3, <1>5, <2>1, SliceStays
<1>8. Within(s, t)
  <2>1. s.array \in 0..Len(heap) /\ Len(heap) \in Nat
    BY <1>1, <1>3 DEF IsSlice
  <2>2. s.array = t.array => s.array = own.array
    BY <1>5, <2>1
  <2>3. own.len \in Nat /\ s.len \in Nat
    BY <1>1, <1>3 DEF Slice
  <2> HIDE DEF t, own
  <2> QED
    BY <1>3, <1>4, <2>2, <2>3 DEF Within
<1>9. /\ Held(L, W2, u) = Held(L, W, u) \union {t}
      /\ \A v \in DOMAIN L \ {u} : Held(L, W2, v) = Held(L, W, v)
  <2>1. /\ Held(L, W2, u) = Held(L, W, u) \union {W2[g].slice}
        /\ Elsewhere(heap, L, W, heap2, L, W2, u)
    BY AppendStep
  <2>2. W2[g].slice = t
    BY <1>0 DEF Adds
  <2> QED
    BY <2>1, <2>2 DEF Elsewhere
<1> HIDE DEF t
<1> QED
  BY <1>3, <1>6, <1>7, <1>8, <1>9 DEF Frozen

LEMMA FrozenStores ==
    ASSUME NEW heap, NEW L, NEW L2, NEW W, NEW W2, NEW g, NEW u, NEW s,
           g \in Goroutines, World(heap, L, W), Stores(L, L2, W, W2, g, u),
           Frozen(heap, L, W, s)
    PROVE  Frozen(heap, L2, W2, s)
<1>1. /\ Held(L2, W2, u) \subseteq Held(L, W, u)
      /\ Elsewhere(heap, L, W, heap, L2, W2, u)
  BY StoreStep
<1>2. DOMAIN L2 = DOMAIN L /\ u \in DOMAIN L
  BY DEF Stores
<1>3. \A v \in DOMAIN L \ {u} : Held(L2, W2, v) = Held(L, W, v)
  BY <1>1 DEF Elsewhere
<1> QED
  BY <1>1, <1>2, <1>3 DEF Frozen

\* A list that nobody is taking a client out of may be read.
LEMMA ListFrozen ==
    ASSUME NEW heap, NEW L, NEW W, NEW u, World(heap, L, W), u \in DOMAIN L,
           Steady(heap, L, W, u),
           \A g \in Goroutines : W[g].op = "removes" => W[g].list # u
    PROVE  Frozen(heap, L, W, L[u])
<1> DEFINE s == L[u]
           p == Contents(heap, s)
<1>1. heap \in Seq(Seq(Goroutines)) /\ s \in Slice /\ IsSlice(heap, s)
  BY DEF World
<1>2. p \in Seq(Goroutines) /\ Len(p) = s.len
  BY <1>1, ContentsType
<1>3. ASSUME NEW g \in Goroutines, PendsAt(W, g, u)
      PROVE  /\ Contents(heap, W[g].slice) = Append(p, W[g].who)
             /\ W[g].slice.len = s.len + 1
             /\ Contents(heap, W[g].slice) \in Seq(Clients)
  <2>1. W[g].op = "adds" /\ W[g].list = u
    BY <1>3 DEF PendsAt, Pending
  <2>2. Contents(heap, W[g].slice) = Append(p, W[g].who)
    BY <2>1 DEF Steady
  <2>3. W[g].slice \in Slice /\ IsSlice(heap, W[g].slice)
    BY <2>1 DEF World, Pending
  <2>4. Len(Contents(heap, W[g].slice)) = W[g].slice.len
    BY <1>1, <2>3, ContentsType
  <2>5. Contents(heap, W[g].slice) \in Seq(Clients)
    <3>1. Contents(heap, W[g].slice) \in Shown(heap, L, W, u)
      BY <1>3 DEF Shown
    <3> QED
      BY <3>1 DEF Steady
  <2>6. Len(Append(p, W[g].who)) = s.len + 1
    <3> HIDE DEF p, s
    <3> QED
      BY <1>2
  <2> QED
    BY <2>2, <2>4, <2>5, <2>6
<1>4. p \in Seq(Clients)
  <2>1. CASE \E g \in Goroutines : PendsAt(W, g, u)
    <3>1. PICK g \in Goroutines : PendsAt(W, g, u)
      BY <2>1
    <3>2. Append(p, W[g].who) \in Seq(Clients)
      BY <1>3, <3>1
    <3> DEFINE x == W[g].who
               q == Append(p, x)
    <3> HIDE DEF p, x
    <3>3. \A i \in 1..Len(p) : q[i] = p[i] /\ i \in 1..Len(q)
      BY <1>2
    <3>4. \A i \in 1..Len(p) : p[i] \in Clients
      <4>1. q \in Seq(Clients)
        BY <3>2 DEF x
      <4> HIDE DEF q
      <4> QED
        BY <3>3, <4>1
    <3>5. p \in [1..Len(p) -> Clients] /\ Len(p) \in Nat
      BY <1>2, <3>4
    <3> QED
      BY <3>5, FunctionIsSeq
  <2>2. CASE ~\E g \in Goroutines : PendsAt(W, g, u)
    <3>1. p \in Shown(heap, L, W, u)
      BY <2>2 DEF Shown
    <3> QED
      BY <3>1 DEF Steady
  <2> QED
    BY <2>1, <2>2
<1>5. ASSUME NEW v \in DOMAIN L, NEW t \in Held(L, W, v)
      PROVE  Within(s, t)
  <2>1. CASE v # u
    <3>1. s \in Held(L, W, u)
      BY DEF Held
    <3>2. Foreign(s, t)
      BY <2>1, <3>1 DEF World, Apart
    <3>3. t \in Slice
      BY HeldValid
    <3> QED
      BY <1>1, <3>2, <3>3 DEF Foreign, Within, IsSlice, CapOf, Slice
  <2>2. CASE v = u
    <3>1. t = s \/ \E g \in Goroutines : PendsAt(W, g, u) /\ t = W[g].slice
      BY <2>2 DEF Held
    <3>2. t.len = s.len \/ t.len = s.len + 1
      BY <1>3, <3>1
    <3>3. s.len \in Nat
      BY <1>1 DEF Slice
    <3> QED
      BY <3>2, <3>3 DEF Within
  <2> QED
    BY <2>1, <2>2
<1> QED
  BY <1>1, <1>4, <1>5 DEF Frozen

Reading == cast.pc \in {"guests", "user"}
CastInv ==
    /\ Reading => cast.at >= 1
    /\ Reading /\ seen.lists = {} /\ seen.shifted = {} =>
         Frozen(arrays, Lists, Work, cast.slice)

\* Whoever has taken a client out of an array is in the history.
RemovesSeen == (\E g \in Goroutines : Work[g].op = "removes") => Removed # {}

LEMMA RemovesAreSeen == RemovesSeen
<1> SUFFICES ASSUME NEW g \in Goroutines, Work[g].op = "removes"
             PROVE  Removed # {}
  BY DEF RemovesSeen
<1>1. CASE g = None
  <2>1. hub.pc \in {"deleted", "store"}
    BY <1>1, WorkFields DEF HubOp
  <2> QED
    BY <2>1 DEF Removed
<1>2. CASE g \in Clients
  <2>1. request[g].pc \in {"cutted", "deleted"}
    BY <1>2, WorkFields DEF RequestOp
  <2> QED
    BY <1>2, <2>1 DEF Removed
<1> QED
  BY <1>1, <1>2 DEF Goroutines

LEMMA RemovesAreSeenThen == RemovesSeen'
  BY RemovesAreSeen, PTL

LEMMA NoRemoves ==
    ASSUME SeenTyped, Next, Reading', seen'.shifted = {}
    PROVE  \A g \in Goroutines : Work'[g].op # "removes"
<1>1. Now'.shifted = {}
  BY SeenStep
<1>2. Removed' = {}
  BY <1>1 DEF Now, Reading
<1> QED
  BY <1>2, RemovesAreSeenThen DEF RemovesSeen

\* What is read stays, whatever the others do, unless a client is taken out.
LEMMA FrozenKept ==
    ASSUME Typed, Ranged, SeenTyped, ListsInv, Next, Reading', seen'.shifted = {},
           NEW s, Frozen(arrays, Lists, Work, s)
    PROVE  Frozen(arrays', Lists', Work', s)
<1>1. World(arrays, Lists, Work)
  BY DEF ListsInv, RealWorld
<1>2. \A g \in Goroutines : Work'[g].op # "removes"
  BY NoRemoves
<1>3. CASE Still
  BY <1>1, <1>3, FrozenRests DEF Still
<1>4. ASSUME NEW g \in Goroutines, NEW u \in DOMAIN Lists,
             \/ \E x \in Clients : Appending(g, u, x)
             \/ \E i : Deleting(g, u, i)
             \/ Storing(g, u)
      PROVE  Frozen(arrays', Lists', Work', s)
  <2>1. ASSUME NEW x \in Clients, Appending(g, u, x)
        PROVE  Frozen(arrays', Lists', Work', s)
    BY <1>1, <2>1, FrozenAppends DEF Appending
  <2>2. ASSUME NEW i, Deleting(g, u, i) PROVE FALSE
    BY <1>2, <2>2 DEF Deleting, Deletes, Removes
  <2>3. CASE Storing(g, u)
    BY <1>1, <2>3, FrozenStores DEF Storing
  <2> QED
    BY <1>4, <2>1, <2>2, <2>3
<1> QED
  BY <1>3, <1>4, AnyStep DEF ListsInv

\* A list that begins to be read.
LEMMA ListFrozenThen ==
    ASSUME Typed, Ranged, SeenTyped, ListsInv, Next, CastStep, Reading',
           seen'.shifted = {}, seen'.lists = {}, NEW u, u \in DOMAIN Lists
    PROVE  Frozen(arrays', Lists', Work', Lists[u])
<1>1. ListsInv'
  BY ListsInvStep
<1>2. World(arrays', Lists', Work')
  BY <1>1 DEF ListsInv, RealWorld
<1>3. Still
  BY ReadersMove
<1>4. u \in DOMAIN Lists' /\ Lists'[u] = Lists[u]
  BY <1>3 DEF Still, Rests
<1>5. Calm(u)'
  BY <1>4 DEF Calm
<1>6. Steady(arrays', Lists', Work', u)
  BY <1>1, <1>5 DEF ListsInv, Well
<1>7. \A g \in Goroutines : Work'[g].op # "removes"
  BY NoRemoves
<1>8. Frozen(arrays', Lists', Work', Lists'[u])
  BY <1>2, <1>4, <1>6, <1>7, ListFrozen
<1> QED
  BY <1>4, <1>8

\* The history is empty only if it was.
LEMMA SeenGrows ==
    ASSUME SeenTyped, Next
    PROVE  /\ seen.lists \subseteq seen'.lists
           /\ seen.shifted \subseteq seen'.shifted
  BY SeenStep

LEMMA CastInvInit == Init => CastInv
  BY DEF Init, CastInv, Reading

LEMMA CastInvStep ==
    ASSUME Typed, Ranged, SeenTyped, ListsInv, CastInv, Next
    PROVE  CastInv'
<1>1. SUFFICES ASSUME Reading'
               PROVE  /\ cast'.at >= 1
                      /\ seen'.lists = {} /\ seen'.shifted = {} =>
                           Frozen(arrays', Lists', Work', cast'.slice)
  BY DEF CastInv
<1>a. cast \in CastType
  BY DEF Typed
<1>b. seen'.lists = {} /\ seen'.shifted = {} => seen.lists = {} /\ seen.shifted = {}
  BY SeenGrows
<1>2. ASSUME Reading, cast'.slice = cast.slice, cast'.at \in {cast.at, cast.at + 1}
      PROVE  /\ cast'.at >= 1
             /\ seen'.lists = {} /\ seen'.shifted = {} =>
                  Frozen(arrays', Lists', Work', cast'.slice)
  <2>1. cast.at >= 1 /\ cast.at \in Nat
    BY <1>2, <1>a DEF CastInv, CastType
  <2>2. cast'.at >= 1
    BY <1>2, <2>1
  <2>3. seen'.lists = {} /\ seen'.shifted = {} =>
          Frozen(arrays', Lists', Work', cast'.slice)
    BY <1>1, <1>2, <1>b, FrozenKept DEF CastInv
  <2> QED
    BY <2>2, <2>3
<1>3. ASSUME CastStep, NEW u \in DOMAIN Lists, cast'.slice = Lists[u], cast'.at = 1
      PROVE  /\ cast'.at >= 1
             /\ seen'.lists = {} /\ seen'.shifted = {} =>
                  Frozen(arrays', Lists', Work', cast'.slice)
  BY <1>1, <1>3, ListFrozenThen
<1>4. CASE cast' = cast
  BY <1>1, <1>2, <1>4 DEF Reading
<1>5. CASE Broadcast
  <2>1. cast'.slice = guests /\ cast'.at = 1
    BY <1>5, <1>a DEF Broadcast, CastType
  <2>2. 0 \in DOMAIN Lists /\ Lists[0] = guests
    BY GuestsList
  <2> QED
    BY <1>3, <1>5, <2>1, <2>2 DEF CastStep
<1>6. CASE SendNext
  <2>1. CASE Crash
    BY <1>4, <2>1 DEF Crash
  <2>2. CASE ~Crash
    <3>1. PICK x : cast' = [cast EXCEPT !.at = @ + 1, !.owed = @ \ {x}]
      BY <1>6, <2>2 DEF SendNext
    <3>2. cast'.slice = cast.slice /\ cast'.at = cast.at + 1
      BY <3>1, <1>a DEF CastType
    <3> QED
      BY <1>2, <1>6, <3>2 DEF SendNext, Reading
  <2> QED
    BY <2>1, <2>2
<1>7. CASE EndOfSlice
  BY <1>1, <1>7, <1>a DEF EndOfSlice, CastType, Reading
<1>8. CASE RangeUsers
  <2>1. PICK uid \in cast.left :
          cast' = IF stored[uid] = 0 THEN [cast EXCEPT !.left = @ \ {uid}]
                  ELSE [cast EXCEPT !.left = @ \ {uid}, !.at = 1,
                                    !.pc = "user", !.slice = Of(stored[uid])]
    BY <1>1, <1>8, <1>a DEF RangeUsers, CastType, Reading
  <2>2. uid \in Uids /\ cast.pc = "range"
    BY <1>8, <1>a DEF RangeUsers, CastType
  <2>3. stored[uid] # 0
    BY <1>1, <1>a, <2>1, <2>2 DEF CastType, Reading
  <2>4. cast'.slice = Of(stored[uid]) /\ cast'.at = 1
    BY <1>a, <2>1, <2>3 DEF CastType
  <2>5. stored[uid] \in 1..Len(users)
    BY <2>2, <2>3 DEF Ranged, StoredRanged
  <2>6. stored[uid] \in DOMAIN Lists /\ Lists[stored[uid]] = Of(stored[uid])
    BY <2>5, GuestsList
  <2> QED
    BY <1>3, <1>8, <2>4, <2>6 DEF CastStep
<1>9. CASE HubStep \/ (\E c \in Clients : RequestStep(c)) \/ GuardStep
  <2>1. cast' = cast
    BY <1>9, Zenon DEF HubStep, RequestStep, GuardStep, Connect, Disconnect, AppendGuest, StoreGuests,
       AppLogout, LogoutCut, LogoutStore, CloseGuest, HubFindGuest, HubDeleteGuest,
       UserLogin, AppLogin, LoginCut, LoginAdd, LoginStore, Kick, StoreUser, FindGuest,
       DeleteGuest, StoreDeleted, GuardFinds, GuardDeletes, Crash
  <2> QED
    BY <1>4, <2>1
<1> QED
  BY <1>5, <1>6, <1>7, <1>8, <1>9 DEF Next, CastStep

-----------------------------------------------------------------------------
(* Panics.                                                                   *)

\* Who is about to take a client out aims at a place of the list.
LEMMA AimsWithin ==
    ASSUME ListsInv, NEW g \in Goroutines, Work[g].op = "aims", Calm(Work[g].list)
    PROVE  Work[g].index \in 1..Lists[Work[g].list].len
  BY DEF ListsInv, Well, Steady

\* A list that is searched has no nil client.
LEMMA SearchedHolds ==
    ASSUME Typed, ListsInv, NEW g \in Goroutines, Work[g].op = "on",
           NEW u \in 1..Len(users), Work[g].list = u, Calm(u)
    PROVE  Listed(Of(u)) \in Seq(Clients)
<1>1. Alone(Work, u) /\ Steady(arrays, Lists, Work, u)
  BY DEF ListsInv, Well
<1>2. WorksAt(Work, g, u) /\ Work[g].op \notin Pending
  BY DEF WorksAt, Pending
<1>3. Contents(arrays, Lists[u]) \in Shown(arrays, Lists, Work, u)
  BY <1>1, <1>2, AloneShows
<1>4. Lists[u] = Of(u)
  BY GuestsList
<1> QED
  BY <1>1, <1>3, <1>4 DEF Steady, Listed

LEMMA NoTrips ==
    ASSUME NEW s \in Seq(Clients), NEW i
    PROVE  ~Trips(s, i)
<1>1. \A j \in DOMAIN s : s[j] \in Clients
  OBVIOUS
<1> QED
  BY <1>1, NoneAssumption DEF Trips

\* A change of a list that nobody else is at does not panic.
LEMMA HubDoesNotPanic ==
    ASSUME Typed, Ranged, ListsInv, seen.lists = {}, ~crashed, HubStep
    PROVE  ~crashed'
<1>a. Work[None] = HubWork /\ None \in Goroutines /\ hub \in HubType /\ guests \in Slice
  BY WorkIs DEF Goroutines, Typed
<1>b. /\ Work[None].op = HubOp /\ Work[None].list = HubList
      /\ Work[None].index = hub.index
  BY <1>a DEF HubWork
<1>c. hub.index \in Nat
  BY <1>a DEF HubType
<1>l. /\ 0 \in DOMAIN Lists /\ Lists[0] = guests
      /\ \A u \in 1..Len(users) : u \in DOMAIN Lists /\ Lists[u] = Of(u)
  BY GuestsList
<1>s. \A u \in DOMAIN Lists : Calm(u)
  BY DEF Calm
<1>1. CASE HubDeleteGuest
  <2>1. hub.pc = "delete"
    BY <1>1 DEF HubDeleteGuest
  <2>2. Work[None].op = "aims" /\ Work[None].list = 0
    BY <1>b, <2>1 DEF HubOp, HubList
  <2>3. hub.index \in 1..guests.len
    BY <1>a, <1>b, <1>l, <1>s, <2>2, AimsWithin
  <2>4. ~(hub.index > guests.len)
    BY <1>a, <1>c, <2>3 DEF Slice
  <2> QED
    BY <1>1, <2>4 DEF HubDeleteGuest
<1>2. CASE LogoutCut
  <2>1. hub.pc = "cut"
    BY <1>2 DEF LogoutCut
  <2>2. Work[None].op = "aims" /\ Work[None].list = hub.user
    BY <1>b, <2>1 DEF HubOp, HubList
  <2>3. hub.user \in 1..Len(users)
    BY <2>1 DEF Ranged, HubRanged
  <2>4. hub.index \in 1..Of(hub.user).len
    BY <1>a, <1>b, <1>l, <1>s, <2>2, <2>3, AimsWithin
  <2>5. Of(hub.user) \in Slice
    BY <2>3, UserFacts DEF ListsInv
  <2>6. ~(hub.index > Of(hub.user).len)
    BY <1>c, <2>4, <2>5 DEF Slice
  <2> QED
    BY <1>2, <2>6 DEF LogoutCut
<1>3. CASE AppLogout
  <2> DEFINE u == client[hub.client].user
  <2>1. hub.pc = "logout" /\ hub.client \in Clients /\ u # 0
    BY <1>3 DEF AppLogout, Ranged, HubRanged
  <2>2. Work[None].op = "on" /\ Work[None].list = u
    BY <1>b, <2>1 DEF HubOp, HubList
  <2>3. u \in 1..Len(users)
    BY <2>1 DEF Ranged, ClientsRanged
  <2> HIDE DEF u
  <2>4. Listed(Of(u)) \in Seq(Clients)
    BY <1>a, <1>l, <1>s, <2>2, <2>3, SearchedHolds
  <2>5. \A i : ~Trips(Listed(Of(u)), i)
    BY <2>4, NoTrips
  <2> QED
    BY <1>3, <2>5 DEF AppLogout, u
<1>4. CASE \/ \E c \in Clients : Connect(c) \/ Disconnect(c)
           \/ AppendGuest \/ StoreGuests \/ LogoutStore \/ CloseGuest \/ HubFindGuest
  BY <1>4, Zenon DEF Connect, Disconnect, AppendGuest, StoreGuests, LogoutStore, CloseGuest,
              HubFindGuest
<1> QED
  BY <1>1, <1>2, <1>3, <1>4 DEF HubStep

LEMMA RequestDoesNotPanic ==
    ASSUME Typed, Ranged, ListsInv, seen.lists = {}, ~crashed, NEW c \in Clients,
           RequestStep(c)
    PROVE  ~crashed'
<1>a. Work[c] = RequestWork(c) /\ c \in Goroutines /\ guests \in Slice
  BY WorkIs DEF Goroutines, Typed
<1>b. /\ Work[c].op = RequestOp(c) /\ Work[c].list = RequestList(c)
      /\ Work[c].index = request[c].index
  BY <1>a DEF RequestWork
<1>c. request[c].index \in Nat
  BY RequestFacts
<1>l. /\ 0 \in DOMAIN Lists /\ Lists[0] = guests
      /\ \A u \in 1..Len(users) : u \in DOMAIN Lists /\ Lists[u] = Of(u)
  BY GuestsList
<1>s. \A u \in DOMAIN Lists : Calm(u)
  BY DEF Calm
<1>u. request[c].pc # "idle" => request[c].user \in 1..Len(users)
  BY DEF Ranged, RequestsRanged
<1>1. CASE DeleteGuest(c)
  <2>1. request[c].pc = "delete"
    BY <1>1 DEF DeleteGuest
  <2>2. Work[c].op = "aims" /\ Work[c].list = 0
    BY <1>b, <2>1 DEF RequestOp, RequestList
  <2>3. request[c].index \in 1..guests.len
    BY <1>a, <1>b, <1>l, <1>s, <2>2, AimsWithin
  <2>4. ~(request[c].index > guests.len)
    BY <1>a, <1>c, <2>3 DEF Slice
  <2> QED
    BY <1>1, <2>4 DEF DeleteGuest
<1>2. CASE LoginCut(c)
  <2>1. request[c].pc = "cut"
    BY <1>2 DEF LoginCut
  <2>2. Work[c].op = "aims" /\ Work[c].list = request[c].user
    BY <1>b, <2>1 DEF RequestOp, RequestList
  <2>3. request[c].user \in 1..Len(users)
    BY <1>u, <2>1
  <2>4. request[c].index \in 1..Of(request[c].user).len
    BY <1>a, <1>b, <1>l, <1>s, <2>2, <2>3, AimsWithin
  <2>5. Of(request[c].user) \in Slice
    BY <2>3, UserFacts DEF ListsInv
  <2>6. ~(request[c].index > Of(request[c].user).len)
    BY <1>c, <2>4, <2>5 DEF Slice
  <2> QED
    BY <1>2, <2>6 DEF LoginCut
<1>3. CASE AppLogin(c)
  <2> DEFINE u == request[c].user
  <2>1. request[c].pc = "scan"
    BY <1>3, Zenon DEF AppLogin
  <2>2. Work[c].op = "on" /\ Work[c].list = u
    BY <1>b, <2>1 DEF RequestOp, RequestList
  <2>3. u \in 1..Len(users)
    BY <1>u, <2>1
  <2> HIDE DEF u
  <2>4. Listed(Of(u)) \in Seq(Clients)
    BY <1>a, <1>l, <1>s, <2>2, <2>3, SearchedHolds
  <2>5. \A i : ~Trips(Listed(Of(u)), i)
    BY <2>4, NoTrips
  <2> QED
    BY <1>3, <2>5, Zenon DEF AppLogin, u
<1>4. CASE \/ UserLogin(c) \/ LoginAdd(c) \/ LoginStore(c) \/ Kick(c) \/ StoreUser(c)
           \/ FindGuest(c) \/ StoreDeleted(c)
  BY <1>4 DEF UserLogin, LoginAdd, LoginStore, Kick, StoreUser, FindGuest, StoreDeleted
<1> QED
  BY <1>1, <1>2, <1>3, <1>4 DEF RequestStep

\* A broadcast sends to clients only.
LEMMA CastDoesNotPanic ==
    ASSUME Typed, CastInv, seen.lists = {}, seen.shifted = {}, ~crashed, CastStep
    PROVE  ~crashed'
<1>1. CASE SendNext
  <2> DEFINE s == cast.slice
             i == cast.at
             q == Contents(arrays, s)
  <2>1. Reading /\ i <= s.len
    BY <1>1 DEF SendNext, Reading
  <2>2. /\ i >= 1 /\ i \in Nat /\ s \in Slice /\ IsSlice(arrays, s)
        /\ q \in Seq(Clients)
    BY <2>1 DEF CastInv, Frozen, Typed, CastType
  <2>3. s.len \in Nat /\ s.array # 0
    BY <2>1, <2>2 DEF Slice, IsSlice, CapOf
  <2>4. q = SubSeq(arrays[s.array], 1, s.len)
    BY <2>3 DEF Contents
  <2>5. DOMAIN q = 1..s.len /\ q[i] = arrays[s.array][i]
    <3> HIDE DEF s, i
    <3> QED
      BY <2>1, <2>2, <2>3, <2>4
  <2>6. q[i] \in Clients
    <3> HIDE DEF q, s, i
    <3> QED
      BY <2>1, <2>2, <2>3, <2>5
  <2>7. arrays[cast.slice.array][cast.at] # None
    BY <2>5, <2>6, NoneAssumption
  <2> QED
    BY <1>1, <2>7 DEF SendNext
<1>2. CASE Broadcast \/ EndOfSlice \/ RangeUsers
  BY <1>2 DEF Broadcast, EndOfSlice, RangeUsers
<1> QED
  BY <1>1, <1>2 DEF CastStep

LEMMA PanicsStep ==
    ASSUME Typed, Ranged, SeenTyped, ListsInv, CastInv, Next
    PROVE  PanicsNeedOverlap'
<1>1. SUFFICES ASSUME seen'.lists = {}, seen'.shifted = {}
               PROVE  ~crashed'
  BY DEF PanicsNeedOverlap
<1>2. seen.lists = {} /\ seen.shifted = {}
  BY <1>1, SeenGrows
<1>3. ~crashed
  BY DEF Next
<1>4. CASE GuardStep
  BY <1>3, <1>4 DEF GuardStep, GuardFinds, GuardDeletes
<1> QED
  BY <1>2, <1>3, <1>4, HubDoesNotPanic, RequestDoesNotPanic, CastDoesNotPanic DEF Next

-----------------------------------------------------------------------------
(* The invariant so far.                                                     *)

ListsKept == Typed /\ Ranged /\ SeenTyped /\ ListsInv /\ CastInv /\ PanicsNeedOverlap

\* A step of something else.
LEMMA WorkStutters ==
    ASSUME UNCHANGED vars
    PROVE  Lists' = Lists /\ Work' = Work
<1>1. Lists' = Lists
  BY ListsStay DEF vars
<1>2. Work' = Work
  BY DEF vars, Work, HubWork, RequestWork, HubOp, HubList, RequestOp, RequestList
<1> QED
  BY <1>1, <1>2

LEMMA ListsKeptStutters ==
    ASSUME ListsKept, UNCHANGED vars
    PROVE  ListsKept'
<1>0. Lists' = Lists /\ Work' = Work
  BY WorkStutters
<1>1. Typed'
  BY DEF ListsKept, Typed, vars
<1>2. SeenTyped' /\ PanicsNeedOverlap'
  BY DEF ListsKept, SeenTyped, PanicsNeedOverlap, vars
<1>3. Ranged'
  <2>1. RequestsRanged' /\ ClientsRanged'
    BY DEF ListsKept, Ranged, RequestsRanged, ClientsRanged, vars
  <2>2. HubRanged' /\ StoredRanged' /\ ListedOpen'
    BY DEF ListsKept, Ranged, HubRanged, StoredRanged, ListedOpen, OpenClients, vars
  <2> QED
    BY <2>1, <2>2 DEF Ranged
<1>4. ListsInv'
  BY <1>0 DEF ListsKept, ListsInv, RealWorld, Calm, Well, vars
<1>5. CastInv'
  BY <1>0 DEF ListsKept, CastInv, Reading, vars
<1> QED
  BY <1>1, <1>2, <1>3, <1>4, <1>5 DEF ListsKept

LEMMA ListsKeptInit == Init => ListsKept
<1>1. Init => PanicsNeedOverlap
  BY DEF Init, PanicsNeedOverlap
<1> QED
  BY <1>1, TypedInit, ListsInvInit, CastInvInit DEF ListsKept

LEMMA ListsKeptStep ==
    ASSUME ListsKept, Next
    PROVE  ListsKept'
  BY TypedStep, SeenStep, ListsInvStep, CastInvStep, PanicsStep DEF ListsKept, ListsInv

LEMMA ListsAreKept == Spec => []ListsKept
<1>1. ListsKept /\ [Next]_vars => ListsKept'
  BY ListsKeptStep, ListsKeptStutters
<1> QED
  BY <1>1, ListsKeptInit, PTL DEF Spec

\* A panic of the hub, of a Request or of a broadcast takes two goroutines at
\* one list, or a removal while a broadcast reads.
THEOREM PanicsCorrect == Spec => []PanicsNeedOverlap
<1>1. ListsKept => PanicsNeedOverlap
  BY DEF ListsKept
<1> QED
  BY <1>1, ListsAreKept, PTL

-----------------------------------------------------------------------------
(* Guests.                                                                   *)

\* c is in the sequence, and is in it once at most.
In(c, p) == \E i \in 1..Len(p) : p[i] = c
Once(c, p) == \A i, j \in 1..Len(p) : p[i] = c /\ p[j] = c => i = j

LEMMA AppendIn ==
    ASSUME NEW S, NEW q \in Seq(S), NEW x \in S, NEW c
    PROVE  /\ c # x => /\ In(c, Append(q, x)) <=> In(c, q)
                       /\ Once(c, Append(q, x)) <=> Once(c, q)
           /\ c = x => /\ In(c, Append(q, x))
                       /\ ~In(c, q) => Once(c, Append(q, x))
<1> DEFINE r == Append(q, x)
<1>1. /\ Len(r) = Len(q) + 1 /\ r[Len(q) + 1] = x /\ Len(q) \in Nat
      /\ \A i \in 1..Len(q) : r[i] = q[i]
  OBVIOUS
<1>2. 1..Len(r) = 1..Len(q) \union {Len(q) + 1}
  <2> HIDE DEF r
  <2> QED
    BY <1>1
<1> HIDE DEF r
<1>3. ASSUME c # x PROVE (In(c, r) <=> In(c, q)) /\ (Once(c, r) <=> Once(c, q))
  BY <1>1, <1>2, <1>3 DEF In, Once
<1>4. ASSUME c = x PROVE In(c, r) /\ (~In(c, q) => Once(c, r))
  BY <1>1, <1>2, <1>4 DEF In, Once
<1> QED
  BY <1>3, <1>4 DEF r

LEMMA WithoutIn ==
    ASSUME NEW S, NEW q \in Seq(S), NEW i \in 1..Len(q), NEW c
    PROVE  /\ c # q[i] => In(c, WithoutAt(q, i)) <=> In(c, q)
           /\ Once(c, q) => Once(c, WithoutAt(q, i))
           /\ c = q[i] /\ Once(c, q) => ~In(c, WithoutAt(q, i))
<1> DEFINE r == WithoutAt(q, i)
           n == Len(q)
<1>1. /\ Len(r) = n - 1 /\ n \in Nat /\ i \in 1..n
      /\ \A j \in 1..n - 1 : r[j] = IF j < i THEN q[j] ELSE q[j + 1]
  <2>1. Len(q) \in Nat
    OBVIOUS
  <2>2. /\ Len(WithoutAt(q, i)) = Len(q) - 1
        /\ \A j \in 1..Len(q) - 1 :
             WithoutAt(q, i)[j] = IF j < i THEN q[j] ELSE q[j + 1]
    BY WithoutType
  <2> QED
    BY <2>1, <2>2
<1> HIDE DEF r
<1>2. \A j \in 1..n - 1 : \E k \in 1..n : /\ k = (IF j < i THEN j ELSE j + 1)
                                          /\ k # i /\ r[j] = q[k]
  <2> HIDE DEF n
  <2> QED
    BY <1>1
<1>3. \A k \in 1..n : k # i => \E j \in 1..n - 1 : /\ k = (IF j < i THEN j ELSE j + 1)
                                                   /\ r[j] = q[k]
  <2> SUFFICES ASSUME NEW k \in 1..n, k # i
               PROVE  \E j \in 1..n - 1 : /\ k = (IF j < i THEN j ELSE j + 1)
                                          /\ r[j] = q[k]
    OBVIOUS
  <2> HIDE DEF n
  <2>1. CASE k < i
    <3>1. k \in 1..n - 1 /\ r[k] = q[k]
      BY <1>1, <2>1
    <3> QED
      BY <2>1, <3>1
  <2>2. CASE k > i
    <3>1. k - 1 \in 1..n - 1 /\ ~(k - 1 < i) /\ k = k - 1 + 1
      BY <1>1, <2>2
    <3>2. r[k - 1] = q[k]
      BY <1>1, <3>1
    <3> QED
      BY <3>1, <3>2
  <2> QED
    BY <1>1, <2>1, <2>2
<1>4. ASSUME c # q[i] PROVE In(c, r) <=> In(c, q)
  <2>1. In(c, r) => In(c, q)
    BY <1>1, <1>2 DEF In
  <2>2. In(c, q) => In(c, r)
    BY <1>1, <1>3, <1>4 DEF In
  <2> QED
    BY <2>1, <2>2
<1>5. ASSUME Once(c, q) PROVE Once(c, r)
  <2> SUFFICES ASSUME NEW j \in 1..n - 1, NEW k \in 1..n - 1, r[j] = c, r[k] = c
               PROVE  j = k
    BY <1>1 DEF Once
  <2>1. PICK a \in 1..n : a = (IF j < i THEN j ELSE j + 1) /\ a # i /\ r[j] = q[a]
    BY <1>2
  <2>2. PICK b \in 1..n : b = (IF k < i THEN k ELSE k + 1) /\ b # i /\ r[k] = q[b]
    BY <1>2
  <2>3. a = b
    BY <1>5, <2>1, <2>2 DEF Once
  <2> HIDE DEF n
  <2> QED
    BY <1>1, <2>1, <2>2, <2>3
<1>6. ASSUME c = q[i], Once(c, q) PROVE ~In(c, r)
  BY <1>1, <1>2, <1>6 DEF In, Once
<1> QED
  BY <1>4, <1>5, <1>6 DEF r

\* How often it is in it.
LEMMA OnceCounts ==
    ASSUME NEW S, NEW q \in Seq(S), NEW c, Once(c, q)
    PROVE  Cardinality({i \in DOMAIN q : q[i] = c}) = IF In(c, q) THEN 1 ELSE 0
<1> DEFINE H == {i \in DOMAIN q : q[i] = c}
<1>1. DOMAIN q = 1..Len(q)
  OBVIOUS
<1>2. CASE In(c, q)
  <2>1. PICK i \in 1..Len(q) : q[i] = c
    BY <1>2 DEF In
  <2>2. H = {i}
    BY <1>1, <2>1 DEF Once
  <2> HIDE DEF H
  <2>3. Cardinality(H) = 1
    BY <2>2, FS_Singleton
  <2> QED
    BY <1>2, <2>3 DEF H
<1>3. CASE ~In(c, q)
  <2>1. H = {}
    BY <1>1, <1>3 DEF In
  <2> HIDE DEF H
  <2>2. Cardinality(H) = 0
    BY <2>1, FS_EmptySet
  <2> QED
    BY <1>3, <2>2 DEF H
<1> QED
  BY <1>2, <1>3

\* The hub has received the connection of c, and has yet to list it.
Coming(c) == hub.pc = "append" /\ hub.client = c

\* What a client's place in Guests, p, says of it: who is listed is connected,
\* and has not logged in or is about to be removed by its own Request, or left
\* and is about to be removed by the hub.
GuestOpen(c, p) ==
    /\ Once(c, p)
    /\ In(c, p) => client[c].open /\ ~Coming(c)
    /\ client[c].open /\ client[c].user = 0 /\ ~client[c].closed /\ ~Coming(c) => In(c, p)
GuestLeaves(c, p) ==
    /\ In(c, p) /\ client[c].user # 0 =>
         request[c].pc \in {"cut", "cutted", "add", "added", "kick", "map", "index", "delete"}
    /\ In(c, p) /\ client[c].closed /\ client[c].user = 0 =>
         hub.client = c /\ hub.pc \in {"index", "delete"}
    /\ Coming(c) =>
         /\ ~client[c].closed
         /\ client[c].user # 0 =>
              request[c].pc \in {"cut", "cutted", "add", "added", "kick", "map"}
GuestIs(c, p) == GuestOpen(c, p) /\ GuestLeaves(c, p)

GuestInv ==
    0 \notin seen.lists =>
        \A p \in Shown(arrays, Lists, Work, 0) : \A c \in Clients : GuestIs(c, p)

\* Steps that leave Guests as it is, action by action.
LEMMA ConnectGuest ==
    ASSUME Typed, Ranged, NEW d \in Clients, Connect(d), NEW c \in Clients, NEW p, GuestIs(c, p)
    PROVE  GuestIs(c, p)'
<1>1. /\ hub.pc = "select" /\ ~client[d].open /\ request' = request
      /\ hub'.pc = "append" /\ hub'.client = d
  BY DEF Connect, Typed, HubType
<1>2. /\ client'[c].user = client[c].user /\ client'[c].closed = client[c].closed
      /\ c # d => client'[c].open = client[c].open
      /\ c = d => client'[c].open
  BY DEF Connect, Typed, ClientType
<1>3. ~client[d].closed /\ client[d].user = 0
  BY <1>1 DEF Ranged, ClientsRanged
<1> QED
  BY <1>1, <1>2, <1>3 DEF GuestIs, GuestOpen, GuestLeaves, Coming

LEMMA ReceiveGuest ==
    ASSUME Typed, Ranged, hub.pc = "select", NEW d \in Clients, Receive(d),
           NEW c \in Clients, NEW p, GuestIs(c, p),
           client'[c].user = client[c].user, client'[c].closed = client[c].closed,
           client'[c].open = client[c].open,
           \/ request'[c].pc = request[c].pc
           \/ request[c].pc = "kick" /\ request'[c].pc = "map"
    PROVE  GuestIs(c, p)'
<1>1. hub'.pc \in {"logout", "close"}
  BY ReceiveTyped
<1> QED
  BY <1>1 DEF GuestIs, GuestOpen, GuestLeaves, Coming

LEMMA DisconnectGuest ==
    ASSUME Typed, Ranged, NEW d \in Clients, Disconnect(d), NEW c \in Clients, NEW p, GuestIs(c, p)
    PROVE  GuestIs(c, p)'
<1>1. /\ client'[c].user = client[c].user /\ client'[c].closed = client[c].closed
      /\ client'[c].open = client[c].open /\ request' = request
      /\ hub.pc = "select" /\ Receive(d)
  BY DEF Disconnect, Typed, ClientType
<1> QED
  BY <1>1, ReceiveGuest

LEMMA KickGuest ==
    ASSUME Typed, Ranged, NEW d \in Clients, Kick(d), NEW c \in Clients, NEW p, GuestIs(c, p)
    PROVE  GuestIs(c, p)'
<1>1. /\ client' = client /\ hub.pc = "select" /\ Receive(request[d].kick)
      /\ request[d].pc = "kick" /\ request' = [request EXCEPT ![d].pc = "map"]
  BY DEF Kick, Goto
<1>2. request[d].kick \in Clients
  BY <1>1 DEF Ranged, RequestsRanged, Typed, RequestType, Goroutines
<1>3. \/ request'[c].pc = request[c].pc
      \/ request[c].pc = "kick" /\ request'[c].pc = "map"
  BY <1>1 DEF Typed, RequestType
<1> QED
  BY <1>1, <1>2, <1>3, ReceiveGuest

\* The hub stores a list, or ends with nothing found.
LEMMA HubRestsGuest ==
    ASSUME Typed, Ranged, hub' = Resting, request' = request,
           NEW c \in Clients, NEW p, GuestIs(c, p),
           client'[c].user = client[c].user, client'[c].open = client[c].open,
           \/ client'[c].closed = client[c].closed
           \/ client'[c].closed /\ client[c].user # 0,
           hub.pc # "append",
           \/ hub.pc \notin {"index", "delete"}
           \/ ~In(c, p) \/ hub.client # c
    PROVE  GuestIs(c, p)'
<1>1. hub'.pc = "select"
  BY DEF Resting
<1> QED
  BY <1>1 DEF GuestIs, GuestOpen, GuestLeaves, Coming

LEMMA StoreGuestsGuest ==
    ASSUME Typed, Ranged, StoreGuests, NEW c \in Clients, NEW p, GuestIs(c, p)
    PROVE  GuestIs(c, p)'
<1>1. hub' = Resting /\ request' = request /\ client' = client
      /\ hub.pc \notin {"append", "index", "delete"}
  BY DEF StoreGuests
<1> QED
  BY <1>1, HubRestsGuest

LEMMA LogoutStoreGuest ==
    ASSUME Typed, Ranged, LogoutStore, NEW c \in Clients, NEW p, GuestIs(c, p)
    PROVE  GuestIs(c, p)'
<1>1. /\ hub' = Resting /\ request' = request
      /\ hub.pc \notin {"append", "index", "delete"}
      /\ client' = [client EXCEPT ![hub.client].closed = TRUE]
      /\ hub.client \in Clients /\ client[hub.client].user # 0
  BY DEF LogoutStore, Ranged, HubRanged
<1>2. /\ client'[c].user = client[c].user /\ client'[c].open = client[c].open
      /\ \/ client'[c].closed = client[c].closed
         \/ client'[c].closed /\ client[c].user # 0
  BY <1>1 DEF Typed, ClientType
<1> QED
  BY <1>1, <1>2, HubRestsGuest

\* The hub goes on at a list of a user.
LEMMA HubElsewhereGuest ==
    ASSUME request' = request, client' = client,
           hub.pc \notin {"append", "index", "delete"},
           hub'.pc # "append",
           NEW c \in Clients, NEW p, GuestIs(c, p)
    PROVE  GuestIs(c, p)'
  BY DEF GuestIs, GuestOpen, GuestLeaves, Coming

LEMMA AppLogoutGuest ==
    ASSUME Typed, Ranged, AppLogout, NEW c \in Clients, NEW p, GuestIs(c, p)
    PROVE  GuestIs(c, p)'
<1>0. hub.pc = "logout" /\ request' = request /\ client' = client
  BY DEF AppLogout, Crash
<1>1. \/ hub' = hub
      \/ hub' = Resting
      \/ \E u, i : hub' = [hub EXCEPT !.pc = "cut", !.user = u, !.index = i]
  BY DEF AppLogout, Crash
<1>2. hub'.pc # "append"
  <2>1. CASE hub' = hub \/ hub' = Resting
    BY <1>0, <2>1 DEF Resting
  <2>2. ASSUME NEW u, NEW i, hub' = [hub EXCEPT !.pc = "cut", !.user = u, !.index = i]
        PROVE  hub'.pc # "append"
    <3>1. hub'.pc = "cut"
      BY <2>2 DEF Typed, HubType
    <3> QED
      BY <3>1
  <2> QED
    BY <1>1, <2>1, <2>2
<1> QED
  BY <1>0, <1>2, HubElsewhereGuest

LEMMA LogoutCutGuest ==
    ASSUME Typed, Ranged, LogoutCut, NEW c \in Clients, NEW p, GuestIs(c, p)
    PROVE  GuestIs(c, p)'
<1>1. /\ hub.pc = "cut" /\ request' = request /\ client' = client
      /\ \/ hub' = hub
         \/ \E s : hub' = [hub EXCEPT !.pc = "store", !.slice = s]
  BY DEF LogoutCut, Crash
<1>2. hub'.pc # "append"
  BY <1>1 DEF Typed, HubType
<1> QED
  BY <1>1, <1>2, HubElsewhereGuest

LEMMA CloseGuestGuest ==
    ASSUME Typed, Ranged, CloseGuest, NEW c \in Clients, NEW p, GuestIs(c, p)
    PROVE  GuestIs(c, p)'
<1>1. /\ hub.pc = "close" /\ request' = request
      /\ client' = [client EXCEPT ![hub.client].closed = TRUE]
      /\ hub.client \in Clients
      /\ hub'.pc = "index" /\ hub'.client = hub.client
  BY DEF CloseGuest, Ranged, HubRanged, Typed, HubType
<1>2. /\ client'[c].user = client[c].user /\ client'[c].open = client[c].open
      /\ c # hub.client => client'[c].closed = client[c].closed
      /\ c = hub.client => client'[c].closed
  BY <1>1 DEF Typed, ClientType
<1> QED
  BY <1>1, <1>2 DEF GuestIs, GuestOpen, GuestLeaves, Coming

\* The search finds the client if it is there, and no other goroutine is at
\* the list.
LEMMA HubFindGuestGuest ==
    ASSUME Typed, Ranged, RealWorld, HubFindGuest, Alone(Work, 0),
           NEW c \in Clients, NEW p \in Shown(arrays, Lists, Work, 0), GuestIs(c, p)
    PROVE  GuestIs(c, p)'
<1>1. hub.pc = "index" /\ request' = request /\ client' = client
  BY DEF HubFindGuest
<1>2. Work[None].op = "on" /\ Work[None].list = 0
  BY <1>1, WorkFields DEF HubOp, HubList
<1>3. p = Listed(guests)
  <2>1. WorksAt(Work, None, 0) /\ Work[None].op \notin Pending /\ None \in Goroutines
    BY <1>2 DEF WorksAt, Pending, Goroutines
  <2>2. Shown(arrays, Lists, Work, 0) = {Contents(arrays, Lists[0])}
    BY <2>1, AloneShows
  <2> QED
    BY <2>2, GuestsList DEF Listed
<1> DEFINE i == GuestIndex(hub.client)
<1>4. Finds(p, {hub.client}, i) /\ i \in Nat
  BY <1>3, GuestIndexFinds
<1>5. hub' = IF i = 0 THEN Resting ELSE [hub EXCEPT !.pc = "delete", !.index = i]
  BY DEF HubFindGuest
<1> HIDE DEF i
<1>6. CASE i = 0
  <2>1. hub.client = c => ~In(c, p)
    BY <1>4, <1>6 DEF Finds, In
  <2> QED
    BY <1>1, <1>5, <1>6, <2>1, HubRestsGuest
<1>7. CASE i # 0
  <2>1. hub'.pc = "delete" /\ hub'.client = hub.client
    BY <1>5, <1>7 DEF Typed, HubType
  <2> QED
    BY <1>1, <2>1 DEF GuestIs, GuestOpen, GuestLeaves, Coming
<1> QED
  BY <1>6, <1>7

\* A Request goes on: to what still lets its client be listed, or be coming.
LEMMA RequestGoesGuest ==
    ASSUME hub' = hub, NEW c \in Clients, NEW p, GuestIs(c, p),
           client'[c].user = client[c].user, client'[c].closed = client[c].closed,
           client'[c].open = client[c].open,
           \/ request'[c].pc = request[c].pc
           \/ ~In(c, p)
           \/ request[c].pc \in {"idle", "scan", "deleted"}
           \/ request'[c].pc \in {"cut", "cutted", "add", "added", "kick", "map", "index", "delete"},
           \/ request'[c].pc = request[c].pc
           \/ ~Coming(c)
           \/ request[c].pc \in {"idle", "scan", "deleted", "index"}
           \/ request'[c].pc \in {"cut", "cutted", "add", "added", "kick", "map"}
    PROVE  GuestIs(c, p)'
<1>1. /\ Coming(c)' <=> Coming(c)
      /\ hub'.client = c /\ hub'.pc \in {"index", "delete"} <=>
            hub.client = c /\ hub.pc \in {"index", "delete"}
  BY DEF Coming
<1>2. GuestOpen(c, p)'
  BY <1>1 DEF GuestIs, GuestOpen
<1>3. GuestLeaves(c, p)'
  BY <1>1 DEF GuestIs, GuestLeaves
<1> QED
  BY <1>2, <1>3 DEF GuestIs

LEMMA UserLoginGuest ==
    ASSUME Typed, Ranged, NEW d \in Clients, UserLogin(d), NEW c \in Clients, NEW p, GuestIs(c, p)
    PROVE  GuestIs(c, p)'
<1>1. /\ hub' = hub /\ client' = [client EXCEPT ![d].logins = Tail(@)]
      /\ request[d].pc = "idle" /\ request' = [request EXCEPT ![d] = Begun(d)]
  BY UserLoginDoes
<1>2. /\ client'[c].user = client[c].user /\ client'[c].closed = client[c].closed
      /\ client'[c].open = client[c].open
  BY <1>1 DEF Typed, ClientType
<1>3. request'[c].pc = request[c].pc \/ request[c].pc = "idle"
  BY <1>1 DEF Typed
<1> QED
  BY <1>1, <1>2, <1>3, RequestGoesGuest

\* The client gets its user, and is to be removed from Guests.
LEMMA AppLoginGuest ==
    ASSUME Typed, Ranged, RealWorld, NEW d \in Clients, AppLogin(d),
           NEW c \in Clients, NEW p, GuestIs(c, p)
    PROVE  GuestIs(c, p)'
<1>1. request[d].pc = "scan"
  BY Zenon DEF AppLogin
<1>2. CASE Crash
  BY <1>2, RequestGoesGuest DEF Crash
<1>3. CASE ~Crash
  <2>1. /\ client' = [client EXCEPT ![d].user = request[d].user, ![d].app = request[d].app]
        /\ request' = [request EXCEPT ![d] = Found(d)] /\ hub' = hub
    BY <1>3, AppLoginDoes
  <2>2. Found(d).pc \in {"add", "map", "cut"}
    BY <1>1, FoundTyped
  <2>3. CASE c # d
    <3>1. client'[c] = client[c] /\ request'[c] = request[c]
      BY <2>1, <2>3 DEF Typed
    <3> QED
      BY <2>1, <3>1, RequestGoesGuest
  <2>4. CASE c = d
    <3>1. request'[c].pc \in {"add", "map", "cut"}
      BY <2>1, <2>2, <2>4 DEF Typed
    <3>2. /\ client'[c].user = request[c].user
          /\ client'[c].closed = client[c].closed /\ client'[c].open = client[c].open
      <4>1. client[d] \in ClientType /\ client \in [Clients -> ClientType]
        BY DEF Typed
      <4> HIDE DEF Found
      <4> QED
        BY <2>1, <2>4, <4>1 DEF ClientType
    <3>3. request[c].user \in 1..Len(users) /\ Len(users) \in Nat
      BY <1>1, <2>4 DEF Ranged, RequestsRanged, Typed
    <3>4. client'[c].user # 0
      BY <3>2, <3>3
    <3>5. Coming(c)' <=> Coming(c)
      BY <2>1 DEF Coming
    <3>6. GuestOpen(c, p)'
      BY <3>2, <3>4, <3>5 DEF GuestIs, GuestOpen
    <3>7. GuestLeaves(c, p)'
      BY <3>1, <3>2, <3>4, <3>5 DEF GuestIs, GuestLeaves
    <3> QED
      BY <3>6, <3>7 DEF GuestIs
  <2> QED
    BY <2>3, <2>4
<1> QED
  BY <1>2, <1>3

LEMMA LoginListsGuest ==
    ASSUME Typed, NEW d \in Clients, LoginCut(d) \/ LoginAdd(d) \/ LoginStore(d),
           NEW c \in Clients, NEW p, GuestIs(c, p)
    PROVE  GuestIs(c, p)'
<1>1. /\ hub' = hub /\ client' = client
      /\ \/ request' = request
         \/ \E s : request' = [request EXCEPT ![d].pc = "cutted", ![d].slice = s]
         \/ \E s : request' = [request EXCEPT ![d].pc = "added", ![d].slice = s]
         \/ \E pc \in {"add", "map", "kick"} : request' = [request EXCEPT ![d].pc = pc]
  <2>1. CASE LoginCut(d)
    BY <2>1 DEF LoginCut, Crash
  <2>2. CASE LoginAdd(d)
    BY <2>2 DEF LoginAdd
  <2>3. CASE LoginStore(d)
    BY <2>3 DEF LoginStore, Goto
  <2> QED
    BY <2>1, <2>2, <2>3
<1>2. \/ request'[c].pc = request[c].pc
      \/ request'[c].pc \in {"cut", "cutted", "add", "added", "kick", "map"}
  <2>1. request \in [Clients -> RequestType]
    BY DEF Typed
  <2>2. CASE request' = request
    BY <2>2
  <2>3. ASSUME NEW s, NEW pc \in {"cutted", "added"},
               request' = [request EXCEPT ![d].pc = pc, ![d].slice = s]
        PROVE  request'[c].pc = request[c].pc \/ request'[c].pc \in {"cutted", "added"}
    BY <2>1, <2>3 DEF RequestType
  <2>4. ASSUME NEW pc \in {"add", "map", "kick"}, request' = [request EXCEPT ![d].pc = pc]
        PROVE  request'[c].pc = request[c].pc \/ request'[c].pc \in {"add", "map", "kick"}
    BY <2>1, <2>4 DEF RequestType
  <2> QED
    BY <1>1, <2>2, <2>3, <2>4
<1>3. hub' = hub /\ client' = client
  BY <1>1
<1> QED
  BY <1>2, <1>3, RequestGoesGuest

\* The connection of the client is listed before its login gets to Guests:
\* else two goroutines are at the list.
LEMMA StoreUserGuest ==
    ASSUME Typed, NEW d \in Clients, StoreUser(d), Alone(Work', 0),
           NEW c \in Clients, NEW p, GuestIs(c, p)
    PROVE  GuestIs(c, p)'
<1>1. /\ hub' = hub /\ client' = client /\ request[d].pc = "map"
      /\ request' = [request EXCEPT ![d].pc = "index"]
  BY DEF StoreUser, Goto
<1>2. /\ c # d => request'[c].pc = request[c].pc
      /\ c = d => request'[c].pc = "index"
  BY <1>1 DEF Typed, RequestType
<1>3. ASSUME c = d, Coming(c) PROVE FALSE
  <2>1. hub'.pc = "append" /\ request'[c].pc = "index"
    BY <1>1, <1>2, <1>3 DEF Coming
  <2>2. Work'[None].op = "on" /\ Work'[None].list = 0
    <3>1. Work'[None] = HubWork'
      BY HubWorkThen
    <3> QED
      BY <2>1, <3>1 DEF HubWork, HubOp, HubList
  <2>3. Work'[c].op = "on" /\ Work'[c].list = 0
    <3>1. Work'[c] = RequestWork(c)'
      BY NoneAssumption DEF Work, Goroutines
    <3> QED
      BY <2>1, <3>1 DEF RequestWork, RequestOp, RequestList
  <2>4. c \in Goroutines /\ None \in Goroutines /\ c # None
    BY NoneAssumption DEF Goroutines
  <2> QED
    BY <2>2, <2>3, <2>4 DEF Alone, WorksAt
<1> QED
  BY <1>1, <1>2, <1>3, RequestGoesGuest

LEMMA StoreDeletedGuest ==
    ASSUME Typed, NEW d \in Clients, StoreDeleted(d), NEW c \in Clients, NEW p, GuestIs(c, p)
    PROVE  GuestIs(c, p)'
<1>1. /\ hub' = hub /\ client' = client /\ request[d].pc = "deleted"
      /\ request' = [request EXCEPT ![d] = Idle]
  BY DEF StoreDeleted
<1>2. request'[c].pc = request[c].pc \/ request[c].pc = "deleted"
  BY <1>1 DEF Typed
<1> QED
  BY <1>1, <1>2, RequestGoesGuest

LEMMA FindGuestGuest ==
    ASSUME Typed, Ranged, RealWorld, NEW d \in Clients, FindGuest(d), Alone(Work, 0),
           NEW c \in Clients, NEW p \in Shown(arrays, Lists, Work, 0), GuestIs(c, p)
    PROVE  GuestIs(c, p)'
<1>1. request[d].pc = "index" /\ hub' = hub /\ client' = client
  BY DEF FindGuest
<1>2. Work[d].op = "on" /\ Work[d].list = 0
  BY <1>1, WorkFields DEF RequestOp, RequestList
<1>3. p = Listed(guests)
  <2>1. WorksAt(Work, d, 0) /\ Work[d].op \notin Pending /\ d \in Goroutines
    BY <1>2 DEF WorksAt, Pending, Goroutines
  <2>2. Shown(arrays, Lists, Work, 0) = {Contents(arrays, Lists[0])}
    BY <2>1, AloneShows
  <2> QED
    BY <2>2, GuestsList DEF Listed
<1> DEFINE i == GuestIndex(d)
<1>4. Finds(p, {d}, i) /\ i \in Nat
  BY <1>3, GuestIndexFinds
<1>5. request' = [request EXCEPT ![d] = IF i = 0 THEN Idle
                                        ELSE [@ EXCEPT !.pc = "delete", !.index = i]]
  BY DEF FindGuest
<1> HIDE DEF i
<1>6. CASE i = 0
  <2>1. d = c => ~In(c, p)
    BY <1>4, <1>6 DEF Finds, In
  <2>2. c # d => request'[c].pc = request[c].pc
    BY <1>5 DEF Typed
  <2> QED
    BY <1>1, <2>1, <2>2, RequestGoesGuest
<1>7. CASE i # 0
  <2>1. /\ c # d => request'[c].pc = request[c].pc
        /\ c = d => request'[c].pc = "delete"
    BY <1>4, <1>5, <1>7 DEF Typed, RequestType
  <2> QED
    BY <1>1, <2>1, RequestGoesGuest
<1> QED
  BY <1>6, <1>7

\* guard and Broadcast.
LEMMA ReadersGuest ==
    ASSUME GuardStep \/ CastStep, NEW c \in Clients, NEW p, GuestIs(c, p)
    PROVE  GuestIs(c, p)'
<1>1. UNCHANGED <<client, request, hub>>
  BY DEF GuardStep, CastStep, GuardFinds, GuardDeletes, Broadcast, SendNext, EndOfSlice,
         RangeUsers, Crash
<1> QED
  BY <1>1, RequestGoesGuest

\* The connection is listed.
LEMMA AppendGuestGuest ==
    ASSUME Typed, Ranged, AppendGuest, NEW p \in Seq(Clients), NEW x, x = hub.client,
           NEW c \in Clients, GuestIs(c, p)
    PROVE  GuestIs(c, Append(p, x))'
<1> DEFINE q == Append(p, x)
<1>1. /\ hub.pc = "append" /\ x \in Clients /\ client[x].open
      /\ client' = client /\ request' = request /\ hub'.pc = "appended"
  BY DEF AppendGuest, Ranged, HubRanged, Typed, HubType
<1>2. ~Coming(c)' /\ (c = x => Coming(c))
  BY <1>1 DEF Coming
<1> HIDE DEF q
<1>3. CASE c = x
  <2>1. In(c, q) /\ Once(c, q)
    BY <1>1, <1>2, <1>3, AppendIn DEF GuestIs, GuestOpen, q
  <2>2. GuestOpen(c, q)'
    BY <1>1, <1>2, <1>3, <2>1 DEF GuestOpen
  <2>3. GuestLeaves(c, q)'
    BY <1>1, <1>2, <1>3 DEF GuestIs, GuestLeaves
  <2> QED
    BY <2>2, <2>3 DEF GuestIs, q
<1>4. CASE c # x
  <2>1. (In(c, q) <=> In(c, p)) /\ (Once(c, q) <=> Once(c, p))
    BY <1>1, <1>4, AppendIn DEF q
  <2>2. ~Coming(c)
    BY <1>4 DEF Coming
  <2>3. GuestOpen(c, q)'
    BY <1>1, <1>2, <2>1, <2>2 DEF GuestIs, GuestOpen
  <2>4. ~(In(c, q) /\ client[c].closed /\ client[c].user = 0)
    BY <1>1, <2>1 DEF GuestIs, GuestLeaves
  <2>5. GuestLeaves(c, q)'
    BY <1>1, <1>2, <2>1, <2>4 DEF GuestIs, GuestLeaves
  <2> QED
    BY <2>3, <2>5 DEF GuestIs, q
<1> QED
  BY <1>3, <1>4

\* A guest is removed, by the hub or by its own Request.
LEMMA RemovedGuest ==
    ASSUME NEW p \in Seq(Clients), NEW i \in 1..Len(p), NEW x \in Clients, p[i] = x,
           NEW c \in Clients, GuestIs(c, p), client' = client,
           ~Coming(c), ~Coming(c)',
           c # x => /\ request'[c] = request[c]
                    /\ \/ hub'.client = hub.client /\ hub'.pc = hub.pc
                       \/ hub.client = x,
           c = x => client[x].user # 0 \/ client[x].closed
    PROVE  GuestIs(c, WithoutAt(p, i))'
<1> DEFINE q == WithoutAt(p, i)
<1>1. Once(c, p)
  BY DEF GuestIs, GuestOpen
<1>2. CASE c = x
  <2>1. Once(c, q) /\ ~In(c, q)
    BY <1>1, <1>2, WithoutIn
  <2> HIDE DEF q
  <2> QED
    BY <1>2, <2>1 DEF GuestIs, GuestOpen, GuestLeaves, q
<1>3. CASE c # x
  <2>1. Once(c, q) /\ (In(c, q) <=> In(c, p))
    BY <1>1, <1>3, WithoutIn
  <2> HIDE DEF q
  <2>2. GuestOpen(c, q)'
    BY <2>1 DEF GuestIs, GuestOpen
  <2>3. GuestLeaves(c, q)'
    BY <1>3, <2>1 DEF GuestIs, GuestLeaves
  <2> QED
    BY <2>2, <2>3 DEF GuestIs, q
<1> QED
  BY <1>2, <1>3

LEMMA HubDeleteGuestGuest ==
    ASSUME Typed, Ranged, HubDeleteGuest, ~Crash, NEW p \in Seq(Clients),
           NEW i \in 1..Len(p), p[i] = Work[None].who, NEW c \in Clients, GuestIs(c, p)
    PROVE  GuestIs(c, WithoutAt(p, i))'
<1>1. /\ hub.pc = "delete" /\ client' = client /\ request' = request
      /\ hub' = [hub EXCEPT !.pc = "deleted", !.slice = [guests EXCEPT !.len = @ - 1]]
  BY DEF HubDeleteGuest
<1>2. hub'.pc = "deleted"
  BY <1>1 DEF Typed, HubType
<1>3. hub.client \in Clients /\ client[hub.client].closed
  BY <1>1 DEF Ranged, HubRanged
<1>4. Work[None].who = hub.client
  BY WorkIs DEF HubWork
<1>5. ~Coming(c) /\ ~Coming(c)'
  BY <1>1, <1>2 DEF Coming
<1> QED
  BY <1>1, <1>3, <1>4, <1>5, RemovedGuest

LEMMA DeleteGuestGuest ==
    ASSUME Typed, Ranged, NEW d \in Clients, DeleteGuest(d), ~Crash, Alone(Work, 0),
           NEW p \in Seq(Clients), NEW i \in 1..Len(p), p[i] = Work[d].who,
           NEW c \in Clients, GuestIs(c, p)
    PROVE  GuestIs(c, WithoutAt(p, i))'
<1>1. /\ request[d].pc = "delete" /\ client' = client /\ hub' = hub
      /\ request' = [request EXCEPT ![d].pc = "deleted",
                       ![d].slice = [guests EXCEPT !.len = @ - 1]]
  BY DEF DeleteGuest
<1>2. c # d => request'[c] = request[c]
  BY <1>1 DEF Typed
<1>3. Work[d].who = d
  <2>1. request[d].pc \notin {"cut", "cutted"}
    BY <1>1
  <2>2. Work[d].who = IF request[d].pc \in {"cut", "cutted"} THEN request[d].kick ELSE d
    <3>1. Work[d] = RequestWork(d)
      BY WorkIs
    <3> QED
      BY <3>1 DEF RequestWork
  <2> QED
    BY <2>1, <2>2
<1>4. client[d].user # 0
  BY <1>1 DEF Ranged, RequestsRanged, Typed
<1>5. hub.pc # "append"
  <2>1. Work[d].op = "aims" /\ Work[d].list = 0
    BY <1>1, WorkFields DEF RequestOp, RequestList
  <2>2. hub.pc = "append" => Work[None].op = "on" /\ Work[None].list = 0
    BY WorkFields DEF HubOp, HubList
  <2> QED
    BY <2>1, <2>2, NoneAssumption DEF Alone, WorksAt, Goroutines
<1>6. ~Coming(c) /\ ~Coming(c)'
  BY <1>1, <1>5 DEF Coming
<1> QED
  BY <1>1, <1>2, <1>3, <1>4, <1>6, RemovedGuest

-----------------------------------------------------------------------------

\* A step that leaves Guests as it is.
LEMMA SameGuest ==
    ASSUME ListsKept, Next, Alone(Work, 0), Alone(Work', 0),
           ~AppendGuest, ~HubDeleteGuest, \A d \in Clients : ~DeleteGuest(d),
           NEW p \in Shown(arrays, Lists, Work, 0), NEW c \in Clients, GuestIs(c, p)
    PROVE  GuestIs(c, p)'
<1>0. Typed /\ Ranged /\ RealWorld
  BY DEF ListsKept, ListsInv
<1>1. CASE HubStep
  BY <1>0, <1>1, ConnectGuest, DisconnectGuest, StoreGuestsGuest, AppLogoutGuest,
     LogoutCutGuest, LogoutStoreGuest, CloseGuestGuest, HubFindGuestGuest DEF HubStep
<1>2. ASSUME NEW d \in Clients, RequestStep(d)
      PROVE  GuestIs(c, p)'
  BY <1>0, <1>2, UserLoginGuest, AppLoginGuest, LoginListsGuest, KickGuest, StoreUserGuest,
     FindGuestGuest, StoreDeletedGuest DEF RequestStep
<1>3. CASE GuardStep \/ CastStep
  BY <1>3, ReadersGuest
<1> QED
  BY <1>1, <1>2, <1>3 DEF Next

LEMMA GuestsSame ==
    ASSUME ListsKept, Next, Well(0),
           ~AppendGuest, ~HubDeleteGuest, \A d \in Clients : ~DeleteGuest(d)
    PROVE  Same(0)
<1>0. Typed /\ Ranged /\ RealWorld /\ ListsInv
  BY DEF ListsKept, ListsInv
<1>z. 0 \in DOMAIN Lists /\ None \in Goroutines /\ Clients \subseteq Goroutines
  BY <1>0, GuestsList DEF Goroutines
<1>1. CASE Still
  BY <1>0, <1>1, <1>z, StillKeeps
<1>2. ASSUME NEW g \in Goroutines, NEW u, Storing(g, u)
      PROVE  Same(0)
  BY <1>0, <1>2, <1>z, StoringKeeps
<1>3. ASSUME NEW g \in Goroutines, NEW u, u # 0,
             (\E x \in Clients : Appending(g, u, x)) \/ (\E i : Deleting(g, u, i))
      PROVE  Same(0)
  BY <1>0, <1>3, <1>z, AppendingKeeps, DeletingKeeps
<1>4. CASE HubStep
  <2>1. CASE \/ \E c \in Clients : Connect(c) \/ Disconnect(c)
             \/ AppLogout \/ CloseGuest \/ HubFindGuest
    BY <1>0, <1>1, <2>1, ConnectMoves, DisconnectMoves, AppLogoutMoves, CloseGuestMoves,
       HubFindGuestMoves
  <2>2. CASE StoreGuests \/ LogoutStore
    BY <1>0, <1>2, <1>z, <2>2, StoreGuestsMoves, LogoutStoreMoves
  <2>3. CASE LogoutCut
    <3>1. hub.user # 0
      BY <1>0, <2>3 DEF LogoutCut, Ranged, HubRanged
    <3> QED
      BY <1>0, <1>1, <1>3, <1>z, <2>3, <3>1, LogoutCutMoves, CrashStill
  <2> QED
    BY <1>4, <2>1, <2>2, <2>3 DEF HubStep
<1>5. ASSUME NEW c \in Clients, RequestStep(c)
      PROVE  Same(0)
  <2>1. CASE UserLogin(c) \/ AppLogin(c) \/ Kick(c) \/ StoreUser(c) \/ FindGuest(c)
    BY <1>0, <1>1, <2>1, UserLoginMoves, AppLoginMoves, KickMoves, StoreUserMoves,
       FindGuestMoves
  <2>2. CASE LoginStore(c) \/ StoreDeleted(c)
    BY <1>0, <1>2, <1>z, <2>2, LoginStoreMoves, StoreDeletedMoves
  <2>3. CASE LoginCut(c) \/ LoginAdd(c)
    <3>1. request[c].user # 0
      BY <1>0, <2>3 DEF LoginCut, LoginAdd, Ranged, RequestsRanged
    <3> QED
      BY <1>0, <1>1, <1>3, <1>z, <2>3, <3>1, LoginCutMoves, LoginAddMoves, CrashStill
  <2> QED
    BY <1>5, <2>1, <2>2, <2>3 DEF RequestStep
<1> QED
  BY <1>1, <1>4, <1>5, ReadersMove DEF Next

LEMMA GuestInvInit == Init => GuestInv
<1> SUFFICES ASSUME Init, NEW p \in Shown(arrays, Lists, Work, 0), NEW c \in Clients
             PROVE  GuestIs(c, p)
  BY DEF GuestInv
<1>1. Typed /\ hub.pc = "select" /\ ~client[c].open /\ client[c].user = 0 /\ ~client[c].closed
  BY TypedInit DEF Init, Resting
<1>2. \A g \in Goroutines : Work[g].op = "off"
  <2>1. request[c].pc = "idle"
    BY DEF Init, Idle
  <2>2. \A d \in Clients : request[d].pc = "idle"
    BY DEF Init, Idle
  <2> QED
    BY <1>1, <2>2, WorkFields DEF HubOp, RequestOp, Goroutines
<1>3. Shown(arrays, Lists, Work, 0) = {Contents(arrays, Lists[0])}
  BY <1>2 DEF Shown, PendsAt, Pending
<1>4. p = <<>>
  <2>1. Lists[0] = guests /\ guests = Nil
    BY <1>1, GuestsList DEF Init
  <2> QED
    BY <1>3, <2>1 DEF Contents, Nil
<1>5. ~In(c, p) /\ Once(c, p)
  BY <1>4 DEF In, Once
<1>6. ~Coming(c)
  BY <1>1 DEF Coming
<1> QED
  BY <1>1, <1>5, <1>6 DEF GuestIs, GuestOpen, GuestLeaves

LEMMA GuestInvStep ==
    ASSUME ListsKept, GuestInv, Next
    PROVE  GuestInv'
<1>0. /\ Typed /\ Ranged /\ SeenTyped /\ RealWorld /\ ListsInv
      /\ ListsKept' /\ Typed' /\ Ranged'
  BY ListsKeptStep DEF ListsKept, ListsInv
<1>z. 0 \in DOMAIN Lists /\ None \in Goroutines /\ Clients \subseteq Goroutines
  BY <1>0, GuestsList DEF Goroutines
<1>1. SUFFICES ASSUME 0 \notin seen'.lists
               PROVE  \A p \in Shown(arrays, Lists, Work, 0)' : \A c \in Clients : GuestIs(c, p)'
  BY DEF GuestInv
<1>2. 0 \notin seen.lists
  BY <1>0, <1>1, SeenGrows
<1>3. Calm(0) /\ Well(0)
  BY <1>0, <1>2, <1>z DEF Calm, ListsInv
<1>4. Alone(Work, 0) /\ Alone(Work', 0)
  <2>1. 0 \in DOMAIN Lists'
    BY <1>0 DEF Typed, Lists
  <2>2. Calm(0)'
    BY <1>1, <2>1 DEF Calm
  <2> QED
    BY <1>0, <1>3, <2>2, CalmBefore DEF Well
<1>5. \A p \in Shown(arrays, Lists, Work, 0) :
        p \in Seq(Clients) /\ \A c \in Clients : GuestIs(c, p)
  BY <1>2, <1>3 DEF GuestInv, Well, Steady
<1>6. CASE Same(0) /\ ~AppendGuest /\ ~HubDeleteGuest /\ \A d \in Clients : ~DeleteGuest(d)
  <2>1. Shown(arrays, Lists, Work, 0)' = Shown(arrays, Lists, Work, 0)
    BY <1>6 DEF Same
  <2> QED
    BY <1>4, <1>5, <1>6, <2>1, SameGuest
<1>7. CASE Crash
  <2>1. Same(0)
    BY <1>0, <1>7, <1>z, CrashStill, StillKeeps
  <2>2. Shown(arrays, Lists, Work, 0)' = Shown(arrays, Lists, Work, 0)
    BY <2>1 DEF Same
  <2>3. \A p \in Shown(arrays, Lists, Work, 0) : \A c \in Clients : GuestIs(c, p)'
    BY <1>5, <1>7, RequestGoesGuest DEF Crash
  <2> QED
    BY <2>2, <2>3
<1>8. CASE AppendGuest
  <2>1. Appending(None, 0, hub.client) /\ hub.client \in Clients
    BY <1>0, <1>8, AppendGuestMoves
  <2>2. PICK p \in Shown(arrays, Lists, Work, 0) :
          Shown(arrays, Lists, Work, 0)' = {Append(p, hub.client)}
    BY <1>0, <1>3, <1>z, <2>1, AppendingKeeps
  <2> DEFINE x == hub.client
             q == Append(p, x)
  <2>3. \A r \in Shown(arrays, Lists, Work, 0)' : r = q
    BY <2>2
  <2>4. ASSUME NEW y, y = hub.client, NEW c \in Clients
        PROVE  GuestIs(c, Append(p, y))'
    BY <1>0, <1>5, <1>8, <2>4, AppendGuestGuest
  <2> QED
    BY <2>2, <2>4
<1>9. CASE HubDeleteGuest /\ ~Crash
  <2>1. Deleting(None, 0, hub.index)
    BY <1>0, <1>9, HubDeleteGuestMoves
  <2>2. PICK p \in Shown(arrays, Lists, Work, 0) :
          /\ hub.index \in 1..Len(p) /\ p[hub.index] = Work[None].who
          /\ Shown(arrays, Lists, Work, 0)' = {WithoutAt(p, hub.index)}
    BY <1>0, <1>3, <1>z, <2>1, DeletingKeeps
  <2>4. ASSUME NEW i, i = hub.index, NEW c \in Clients
        PROVE  GuestIs(c, WithoutAt(p, i))'
    BY <1>0, <1>5, <1>9, <2>2, <2>4, HubDeleteGuestGuest
  <2> QED
    BY <2>2, <2>4
<1>10. ASSUME NEW d \in Clients, DeleteGuest(d), ~Crash
       PROVE  \A p \in Shown(arrays, Lists, Work, 0)' : \A c \in Clients : GuestIs(c, p)'
  <2>1. Deleting(d, 0, request[d].index)
    BY <1>0, <1>10, DeleteGuestMoves
  <2>2. PICK p \in Shown(arrays, Lists, Work, 0) :
          /\ request[d].index \in 1..Len(p) /\ p[request[d].index] = Work[d].who
          /\ Shown(arrays, Lists, Work, 0)' = {WithoutAt(p, request[d].index)}
    BY <1>0, <1>3, <1>z, <2>1, DeletingKeeps
  <2>4. ASSUME NEW i, i = request[d].index, NEW c \in Clients
        PROVE  GuestIs(c, WithoutAt(p, i))'
    BY <1>0, <1>4, <1>5, <1>10, <2>2, <2>4, DeleteGuestGuest
  <2> QED
    BY <2>2, <2>4
<1> QED
  BY <1>3, <1>6, <1>7, <1>8, <1>9, <1>10, GuestsSame

\* What is listed and what is going to be differ in the client that is moved.
LEMMA GuestsShown ==
    ASSUME ListsKept, Well(0), NEW c \in Clients, hub.client # c
    PROVE  \E p \in Shown(arrays, Lists, Work, 0) :
              /\ In(c, Listed(guests)) <=> In(c, p)
              /\ Once(c, Listed(guests)) <=> Once(c, p)
<1>0. /\ Typed /\ Ranged /\ RealWorld /\ Alone(Work, 0) /\ Steady(arrays, Lists, Work, 0)
      /\ Lists[0] = guests /\ Listed(guests) \in Seq(Goroutines)
  <2>1. Typed /\ Ranged /\ RealWorld
    BY DEF ListsKept, ListsInv
  <2> QED
    BY <2>1, GuestsList, GuestsFacts DEF Well
<1>1. CASE ~\E g \in Goroutines : PendsAt(Work, g, 0)
  <2>1. Listed(guests) \in Shown(arrays, Lists, Work, 0)
    BY <1>0, <1>1 DEF Shown, Listed
  <2> QED
    BY <2>1
<1>2. ASSUME NEW g \in Goroutines, PendsAt(Work, g, 0)
      PROVE  \E p \in Shown(arrays, Lists, Work, 0) :
                /\ In(c, Listed(guests)) <=> In(c, p)
                /\ Once(c, Listed(guests)) <=> Once(c, p)
  <2> DEFINE p == Contents(arrays, Work[g].slice)
  <2>1. p \in Shown(arrays, Lists, Work, 0) /\ p \in Seq(Clients)
    BY <1>0, <1>2 DEF Shown, Steady
  <2>2. CASE Work[g].op = "removes"
    <3>1. Listed(guests) = Append(p, None)
      BY <1>0, <1>2, <2>2 DEF PendsAt, Steady, Listed
    <3>2. p \in Seq(Goroutines) /\ None \in Goroutines /\ c # None
      <4>1. p \in Seq(Clients)
        BY <2>1
      <4> HIDE DEF p
      <4> QED
        BY <4>1, NoneAssumption DEF Goroutines
    <3> HIDE DEF p
    <3> QED
      BY <2>1, <3>1, <3>2, AppendIn
  <2>3. CASE Work[g].op = "adds"
    <3>1. p = Append(Listed(guests), Work[g].who)
      BY <1>0, <1>2, <2>3 DEF PendsAt, Steady, Listed
    <3>2. g = None
      <4>1. ASSUME g \in Clients PROVE FALSE
        <5>1. request[g].pc = "added"
          BY <2>3, <4>1, WorkFields DEF RequestOp
        <5>2. Work[g].list = request[g].user
          BY <4>1, <5>1, WorkFields DEF RequestList
        <5>3. request[g].user \in 1..Len(users)
          BY <1>0, <4>1, <5>1 DEF Ranged, RequestsRanged
        <5> QED
          BY <1>2, <5>2, <5>3 DEF PendsAt
      <4> QED
        BY <4>1 DEF Goroutines
    <3>3. Work[g].who = hub.client
      BY <3>2, WorkIs DEF HubWork
    <3>4. hub.client \in Goroutines
      BY <1>0 DEF Typed, HubType
    <3> HIDE DEF p
    <3> QED
      BY <1>0, <2>1, <3>1, <3>3, <3>4, AppendIn
  <2> QED
    BY <1>2, <2>2, <2>3 DEF PendsAt, Pending
<1> QED
  BY <1>1, <1>2

LEMMA GuestsFollow ==
    ASSUME ListsKept, GuestInv
    PROVE  GuestsAreTheGuests
<1> SUFFICES ASSUME 0 \notin seen.lists, NEW c \in Clients, Quiet(c)
             PROVE  Occurrences(c, guests) =
                      IF client[c].open /\ client[c].user = 0 /\ ~client[c].closed
                      THEN 1 ELSE 0
  BY DEF GuestsAreTheGuests
<1>0. Typed /\ RealWorld /\ ListsInv
  BY DEF ListsKept, ListsInv
<1>1. Well(0)
  BY <1>0, GuestsList DEF ListsInv, Calm
<1>2. hub.client # c /\ request[c].pc = "idle"
  BY DEF Quiet, InLogin
<1>3. PICK p \in Shown(arrays, Lists, Work, 0) :
              /\ In(c, Listed(guests)) <=> In(c, p)
              /\ Once(c, Listed(guests)) <=> Once(c, p)
  BY <1>1, <1>2, GuestsShown
<1>4. GuestIs(c, p) /\ ~Coming(c)
  BY <1>2, <1>3 DEF GuestInv, Coming
<1>5. In(c, p) <=> client[c].open /\ client[c].user = 0 /\ ~client[c].closed
  BY <1>2, <1>4 DEF GuestIs, GuestOpen, GuestLeaves
<1>6. Listed(guests) \in Seq(Goroutines) /\ Once(c, Listed(guests))
  BY <1>0, <1>3, <1>4, GuestsFacts DEF GuestIs, GuestOpen
<1>7. Occurrences(c, guests) = IF In(c, Listed(guests)) THEN 1 ELSE 0
  BY <1>6, OnceCounts DEF Occurrences
<1> QED
  BY <1>3, <1>5, <1>7

LEMMA GuestInvStutters ==
    ASSUME GuestInv, UNCHANGED vars
    PROVE  GuestInv'
<1>1. Shown(arrays, Lists, Work, 0)' = Shown(arrays, Lists, Work, 0)
  BY WorkStutters DEF vars
<1>2. \A c \in Clients : \A p : GuestIs(c, p) => GuestIs(c, p)'
  BY DEF vars, GuestIs, GuestOpen, GuestLeaves, Coming
<1> QED
  BY <1>1, <1>2 DEF GuestInv, vars

\* Guests lists every connected client that has not logged in, once, and no
\* other, as long as no two goroutines change the list at once.
THEOREM GuestsCorrect == Spec => []GuestsAreTheGuests
<1>1. ListsKept /\ ListsKept' /\ GuestInv /\ [Next]_vars => GuestInv'
  BY GuestInvStep, GuestInvStutters
<1>2. ListsKept /\ GuestInv => GuestsAreTheGuests
  BY GuestsFollow
<1> QED
  BY <1>1, <1>2, GuestInvInit, ListsAreKept, PTL DEF Spec

-----------------------------------------------------------------------------
(* The clients of a user.                                                    *)

\* What is now is in the history.
Seeing ==
    /\ Now.uids \subseteq seen.uids /\ Now.kicked \subseteq seen.kicked
    /\ Now.moved \subseteq seen.moved /\ Now.late \subseteq seen.late
    /\ Now.shifted \subseteq seen.shifted

LEMMA SeeingInit == Init => Seeing
<1> SUFFICES ASSUME Init PROVE Seeing
  OBVIOUS
<1>1. \A c \in Clients : request[c].pc = "idle" /\ request[c].uid = NoUid /\ request[c].kick = None
  BY DEF Init, Idle
<1>2. cast.pc \in {"idle", "done"} /\ guard = NoUid
  BY DEF Init
<1>3. Now.uids = {}
  BY <1>1, <1>2, NoUidAssumption DEF Now
<1>4. Now.kicked = {} /\ Now.late = {}
  BY <1>1 DEF Now, InLogin
<1>5. Now.moved = {} /\ Now.shifted = {}
  BY <1>1, <1>2 DEF Now
<1> QED
  BY <1>3, <1>4, <1>5 DEF Seeing

LEMMA SeeingStep ==
    ASSUME SeenTyped, Next
    PROVE  Seeing'
  BY SeenStep DEF Seeing

\* Who is about to be taken out for another one is in the history, and so is
\* a client that logs in again, and one that leaves during its login.
LEMMA KickedSeen ==
    ASSUME Seeing, NEW c \in Clients, request[c].kick # None
    PROVE  request[c].kick \in seen.kicked
  BY DEF Seeing, Now

LEMMA MovedSeen ==
    ASSUME Seeing, NEW c \in Clients, request[c].pc = "scan", client[c].user # 0,
           client[c].user # request[c].user \/ client[c].app # request[c].app
    PROVE  <<c, client[c].user>> \in seen.moved
  BY DEF Seeing, Now

LEMMA LateSeen ==
    ASSUME Seeing, NEW c \in Clients, InLogin(c), client[c].closed \/ hub.client = c
    PROVE  c \in seen.late
  BY DEF Seeing, Now

\* A list of a user, and x, a client that is left out of what is said of it:
\* nobody else that is listed has logged in again under another account, and
\* nobody has taken the account of x.
Undisturbed(x, u) ==
    /\ u # 0 /\ Calm(u) /\ x \notin seen.kicked
    /\ \A d \in Clients \ {x} : <<d, u>> \notin seen.moved

\* The clients of the list: each is once in it, of this user, and has an appId
\* of its own.
UserLists(x, u, p) ==
    /\ \A d \in Clients \ {x} : Once(d, p) /\ (In(d, p) => client[d].user = u)
    /\ \A d, e \in Clients \ {x} :
         In(d, p) /\ In(e, p) /\ client[d].app = client[e].app => d = e
\* A login that is about to add its client: it is not listed, and no other
\* client of the appId but the one that it takes out.
AddsNew(x, u, p) ==
    \A d \in Clients :
        request[d].user = u /\ request[d].pc \in {"cut", "cutted", "add"} =>
            /\ d # x => ~In(d, p)
            /\ request[d].pc = "cut" => client[request[d].kick].app = client[d].app
            /\ \A e \in Clients \ {x} :
                 In(e, p) /\ client[e].app = client[d].app =>
                    request[d].pc = "cut" /\ e = request[d].kick
UserIs(x, u, p) == UserLists(x, u, p) /\ AddsNew(x, u, p)

UserInv ==
    \A x \in Goroutines : \A u : Undisturbed(x, u) =>
        \A p \in Shown(arrays, Lists, Work, u) : UserIs(x, u, p)

\* The accounts of the clients do not change.
AccountsStay == \A d \in Clients : /\ client'[d].user = client[d].user
                                   /\ client'[d].app = client[d].app
\* No login begins to add, and none ends its cut.
LoginsStay(u) ==
    \A d \in Clients :
        request'[d].user = u /\ request'[d].pc \in {"cut", "cutted", "add"} =>
            /\ request[d].user = u
            /\ \/ /\ request'[d].pc = "cut" /\ request[d].pc = "cut"
                  /\ request'[d].kick = request[d].kick
               \/ request'[d].pc # "cut" /\ request[d].pc \in {"cutted", "add"}

LEMMA UserIsStays ==
    ASSUME AccountsStay, Typed, Ranged, NEW x, NEW u, LoginsStay(u), NEW p, UserIs(x, u, p)
    PROVE  UserIs(x, u, p)'
<1>1. UserLists(x, u, p)'
  BY DEF UserIs, UserLists, AccountsStay
<1>2. AddsNew(x, u, p)'
  <2> SUFFICES ASSUME NEW d \in Clients, request'[d].user = u,
                      request'[d].pc \in {"cut", "cutted", "add"}
               PROVE  /\ d # x => ~In(d, p)
                      /\ request'[d].pc = "cut" =>
                            client'[request'[d].kick].app = client'[d].app
                      /\ \A e \in Clients \ {x} :
                           In(e, p) /\ client'[e].app = client'[d].app =>
                              request'[d].pc = "cut" /\ e = request'[d].kick
    BY DEF AddsNew
  <2>1. /\ request[d].user = u
        /\ \/ /\ request'[d].pc = "cut" /\ request[d].pc = "cut"
              /\ request'[d].kick = request[d].kick
           \/ request'[d].pc # "cut" /\ request[d].pc \in {"cutted", "add"}
    BY DEF LoginsStay
  <2>2. /\ d # x => ~In(d, p)
        /\ request[d].pc = "cut" => client[request[d].kick].app = client[d].app
        /\ \A e \in Clients \ {x} :
              In(e, p) /\ client[e].app = client[d].app =>
                 request[d].pc = "cut" /\ e = request[d].kick
    BY <2>1 DEF UserIs, AddsNew
  <2>3. request[d].pc = "cut" => request[d].kick \in Clients
    BY DEF Ranged, RequestsRanged, Typed, RequestType, Goroutines
  <2> QED
    BY <2>1, <2>2, <2>3 DEF AccountsStay
<1> QED
  BY <1>1, <1>2 DEF UserIs

LEMMA OneLogin ==
    ASSUME Typed, NEW c \in Clients, NEW r, request' = [request EXCEPT ![c] = r], NEW u,
           \/ r.pc \notin {"cut", "cutted", "add"}
           \/ r.user # u
           \/ /\ r.user = request[c].user /\ r.pc # "cut"
              /\ request[c].pc \in {"cutted", "add"}
    PROVE  LoginsStay(u)
<1>1. \A d \in Clients : request'[d] = IF d = c THEN r ELSE request[d]
  BY DEF Typed
<1> QED
  BY <1>1 DEF LoginsStay

LEMMA NoLogin ==
    ASSUME request' = request, NEW u
    PROVE  LoginsStay(u)
  BY DEF LoginsStay

\* A step of the hub.
LEMMA HubLogins ==
    ASSUME Typed, HubStep, NEW u
    PROVE  AccountsStay /\ LoginsStay(u)
<1>1. request' = request
  BY Zenon DEF HubStep, Connect, Disconnect, AppendGuest, StoreGuests, AppLogout, LogoutCut,
         LogoutStore, CloseGuest, HubFindGuest, HubDeleteGuest, Crash
<1>2. AccountsStay
  <2>0. client \in [Clients -> ClientType]
    BY DEF Typed
  <2>1. CASE client' = client
    BY <2>1 DEF AccountsStay
  <2>2. ASSUME NEW c, client' = [client EXCEPT ![c].closed = TRUE]
        PROVE  AccountsStay
    BY <2>0, <2>2 DEF AccountsStay, ClientType
  <2>3. ASSUME NEW c, client' = [client EXCEPT ![c].open = TRUE]
        PROVE  AccountsStay
    BY <2>0, <2>3 DEF AccountsStay, ClientType
  <2>4. ASSUME NEW c, client' = [client EXCEPT ![c].drops = @ - 1, ![c].left = TRUE]
        PROVE  AccountsStay
    BY <2>0, <2>4 DEF AccountsStay, ClientType
  <2> QED
    BY <2>1, <2>2, <2>3, <2>4, Zenon
       DEF HubStep, Connect, Disconnect, AppendGuest, StoreGuests, AppLogout, LogoutCut,
           LogoutStore, CloseGuest, HubFindGuest, HubDeleteGuest, Crash
<1> QED
  BY <1>1, <1>2, NoLogin

\* A step of a Request, but for the search and the removal of appLogin.
LEMMA RequestLogins ==
    ASSUME Typed, NEW c \in Clients, RequestStep(c), ~AppLogin(c), NEW u,
           LoginCut(c) => request[c].user # u
    PROVE  AccountsStay /\ LoginsStay(u)
<1>t. request \in [Clients -> RequestType] /\ client \in [Clients -> ClientType]
  BY DEF Typed
<1>1. AccountsStay
  <2>1. CASE client' = client
    BY <2>1 DEF AccountsStay
  <2>2. CASE UserLogin(c)
    <3>1. client' = [client EXCEPT ![c].logins = Tail(@)]
      BY <2>2, UserLoginDoes
    <3> QED
      BY <1>t, <3>1 DEF AccountsStay, ClientType
  <2> QED
    BY <2>1, <2>2 DEF RequestStep, LoginCut, LoginAdd, LoginStore, Kick, StoreUser, FindGuest,
                      DeleteGuest, StoreDeleted, Crash
<1>2. CASE UserLogin(c)
  <2>1. request' = [request EXCEPT ![c] = Begun(c)] /\ Begun(c).pc = "scan"
    BY <1>2, UserLoginDoes, Zenon DEF Begun, Idle
  <2> HIDE DEF Begun
  <2> QED
    BY <1>1, <2>1, OneLogin
<1>3. CASE LoginCut(c)
  <2>1. CASE Crash
    BY <1>1, <2>1, NoLogin DEF Crash
  <2>2. CASE ~Crash
    <3> DEFINE t == [Of(request[c].user) EXCEPT !.len = @ - 1]
               r == [request[c] EXCEPT !.pc = "cutted", !.slice = t]
    <3>1. request' = [request EXCEPT ![c].pc = "cutted", ![c].slice = t]
      BY <1>3, <2>2 DEF LoginCut
    <3> HIDE DEF t
    <3>2. request' = [request EXCEPT ![c] = r] /\ r.user = request[c].user
      BY <1>t, <3>1 DEF RequestType
    <3>3. request[c].user # u
      BY <1>3
    <3> HIDE DEF r
    <3> QED
      BY <1>1, <3>2, <3>3, OneLogin
  <2> QED
    BY <2>1, <2>2
<1>4. CASE LoginAdd(c)
  <2> DEFINE t == AppendTo(arrays, Of(request[c].user), <<c>>)
             r == [request[c] EXCEPT !.pc = "added", !.slice = t]
  <2>1. request' = [request EXCEPT ![c].pc = "added", ![c].slice = t]
    BY <1>4 DEF LoginAdd
  <2> HIDE DEF t
  <2>2. request' = [request EXCEPT ![c] = r] /\ r.pc = "added"
    BY <1>t, <2>1 DEF RequestType
  <2> HIDE DEF r
  <2> QED
    BY <1>1, <2>2, OneLogin
<1>5. CASE LoginStore(c)
  <2> DEFINE pc == IF request[c].pc = "cutted" THEN "add"
                   ELSE IF request[c].kick = None THEN "map" ELSE "kick"
             r == [request[c] EXCEPT !.pc = pc]
  <2>1. request' = [request EXCEPT ![c].pc = pc]
    BY <1>5 DEF LoginStore, Goto
  <2>2. /\ pc \in {"add", "map", "kick"}
        /\ pc = "add" => request[c].pc = "cutted"
    OBVIOUS
  <2> HIDE DEF pc
  <2>3. request' = [request EXCEPT ![c] = r] /\ r.pc = pc /\ r.user = request[c].user
    BY <1>t, <2>1, <2>2 DEF RequestType
  <2> HIDE DEF r
  <2> QED
    BY <1>1, <2>2, <2>3, OneLogin
<1>6. ASSUME NEW pc \in {"map", "index"}, request' = [request EXCEPT ![c].pc = pc]
      PROVE  LoginsStay(u)
  <2> DEFINE r == [request[c] EXCEPT !.pc = pc]
  <2>1. request' = [request EXCEPT ![c] = r] /\ r.pc = pc
    BY <1>t, <1>6 DEF RequestType
  <2> HIDE DEF r
  <2> QED
    BY <1>6, <2>1, OneLogin
<1>7. CASE Kick(c) \/ StoreUser(c)
  BY <1>1, <1>6, <1>7 DEF Kick, StoreUser, Goto
<1>8. CASE FindGuest(c)
  <2> DEFINE i == GuestIndex(c)
             r == IF i = 0 THEN Idle ELSE [request[c] EXCEPT !.pc = "delete", !.index = i]
  <2>1. request' = [request EXCEPT ![c] = r]
    BY <1>8, <1>t DEF FindGuest
  <2>2. r.pc \in {"idle", "delete"}
    <3> HIDE DEF i
    <3>1. CASE i = 0
      BY <3>1 DEF Idle
    <3>2. CASE i # 0
      BY <1>t, <3>2 DEF RequestType
    <3> QED
      BY <3>1, <3>2
  <2> HIDE DEF r
  <2> QED
    BY <1>1, <2>1, <2>2, OneLogin
<1>9. CASE DeleteGuest(c)
  <2>1. CASE Crash
    BY <1>1, <2>1, NoLogin DEF Crash
  <2>2. CASE ~Crash
    <3> DEFINE t == [guests EXCEPT !.len = @ - 1]
               r == [request[c] EXCEPT !.pc = "deleted", !.slice = t]
    <3>1. request' = [request EXCEPT ![c].pc = "deleted", ![c].slice = t]
      BY <1>9, <2>2 DEF DeleteGuest
    <3> HIDE DEF t
    <3>2. request' = [request EXCEPT ![c] = r] /\ r.pc = "deleted"
      BY <1>t, <3>1 DEF RequestType
    <3> HIDE DEF r
    <3> QED
      BY <1>1, <3>2, OneLogin
  <2> QED
    BY <2>1, <2>2
<1>10. CASE StoreDeleted(c)
  <2>1. request' = [request EXCEPT ![c] = Idle] /\ Idle.pc = "idle"
    BY <1>10 DEF StoreDeleted, Idle
  <2> HIDE DEF Idle
  <2> QED
    BY <1>1, <2>1, OneLogin
<1> QED
  BY <1>2, <1>3, <1>4, <1>5, <1>7, <1>8, <1>9, <1>10 DEF RequestStep

LEMMA ReaderLogins ==
    ASSUME GuardStep \/ CastStep, NEW u
    PROVE  AccountsStay /\ LoginsStay(u)
<1>1. request' = request /\ client' = client
  BY DEF GuardStep, CastStep, GuardFinds, GuardDeletes, Broadcast, SendNext, EndOfSlice,
         RangeUsers, Crash
<1> QED
  BY <1>1, NoLogin DEF AccountsStay

\* Steps that leave the list of a user as it is.
LEMMA UserSame ==
    ASSUME ListsKept, Next, NEW u, Well(u), u \in DOMAIN Lists, u # 0,
           LogoutCut => Crash \/ hub.user # u,
           \A d \in Clients : /\ LoginCut(d) => Crash \/ request[d].user # u
                              /\ LoginAdd(d) => request[d].user # u
    PROVE  Same(u)
<1>0. Typed /\ Ranged /\ RealWorld /\ ListsInv
  BY DEF ListsKept, ListsInv
<1>z. None \in Goroutines /\ Clients \subseteq Goroutines
  BY DEF Goroutines
<1>1. CASE Still
  BY <1>0, <1>1, StillKeeps
<1>2. ASSUME NEW g \in Goroutines, NEW v, Storing(g, v)
      PROVE  Same(u)
  BY <1>0, <1>2, StoringKeeps
<1>3. ASSUME NEW g \in Goroutines, NEW v, v # u,
             (\E x \in Clients : Appending(g, v, x)) \/ (\E i : Deleting(g, v, i))
      PROVE  Same(u)
  BY <1>0, <1>3, AppendingKeeps, DeletingKeeps
<1>4. CASE HubStep
  <2>1. CASE \/ \E c \in Clients : Connect(c) \/ Disconnect(c)
             \/ AppLogout \/ CloseGuest \/ HubFindGuest
    BY <1>0, <1>1, <2>1, ConnectMoves, DisconnectMoves, AppLogoutMoves, CloseGuestMoves,
       HubFindGuestMoves
  <2>2. CASE StoreGuests \/ LogoutStore
    BY <1>0, <1>2, <1>z, <2>2, StoreGuestsMoves, LogoutStoreMoves
  <2>3. CASE LogoutCut
    BY <1>0, <1>1, <1>3, <1>z, <2>3, LogoutCutMoves, CrashStill
  <2>4. CASE AppendGuest \/ HubDeleteGuest
    BY <1>0, <1>1, <1>3, <1>z, <2>4, AppendGuestMoves, HubDeleteGuestMoves, CrashStill
  <2> QED
    BY <1>4, <2>1, <2>2, <2>3, <2>4 DEF HubStep
<1>5. ASSUME NEW c \in Clients, RequestStep(c)
      PROVE  Same(u)
  <2>1. CASE UserLogin(c) \/ AppLogin(c) \/ Kick(c) \/ StoreUser(c) \/ FindGuest(c)
    BY <1>0, <1>1, <2>1, UserLoginMoves, AppLoginMoves, KickMoves, StoreUserMoves,
       FindGuestMoves
  <2>2. CASE LoginStore(c) \/ StoreDeleted(c)
    BY <1>0, <1>2, <1>z, <2>2, LoginStoreMoves, StoreDeletedMoves
  <2>3. CASE LoginCut(c) \/ LoginAdd(c)
    BY <1>0, <1>1, <1>3, <1>z, <2>3, LoginCutMoves, LoginAddMoves, CrashStill
  <2>4. CASE DeleteGuest(c)
    BY <1>0, <1>1, <1>3, <1>z, <2>4, DeleteGuestMoves, CrashStill
  <2> QED
    BY <1>5, <2>1, <2>2, <2>3, <2>4 DEF RequestStep
<1> QED
  BY <1>1, <1>4, <1>5, ReadersMove DEF Next

\* A step that makes a user.
LEMMA NewUser ==
    ASSUME Typed, Ranged, RealWorld, Next, NEW u, u \in DOMAIN Lists', u \notin DOMAIN Lists
    PROVE  /\ AccountsStay /\ LoginsStay(u)
           /\ \A d \in Clients : ~(request'[d].user = u /\ request'[d].pc \in {"cut", "cutted", "add"})
<1>1. DOMAIN Lists = 0..Len(users) /\ DOMAIN Lists' = 0..Len(users')
  BY DEF Lists
<1>2. PICK c \in Clients : UserLogin(c)
  <2>1. Len(users') # Len(users)
    BY <1>1
  <2>2. ASSUME NEW v, NEW s, users' = [users EXCEPT ![v].clients = s] PROVE FALSE
    BY <2>1, <2>2 DEF Typed
  <2> QED
    BY <2>1, <2>2, Zenon DEF Next, HubStep, RequestStep, GuardStep, CastStep, Connect, Disconnect,
       AppendGuest, StoreGuests, AppLogout, LogoutCut, LogoutStore, CloseGuest, HubFindGuest,
       HubDeleteGuest, AppLogin, LoginCut, LoginAdd, LoginStore, Kick, StoreUser,
       FindGuest, DeleteGuest, StoreDeleted, GuardFinds, GuardDeletes, Broadcast, SendNext,
       EndOfSlice, RangeUsers, Crash
<1>3. ~AppLogin(c) /\ ~LoginCut(c)
  BY <1>2 DEF UserLogin, AppLogin, LoginCut
<1>4. AccountsStay /\ LoginsStay(u)
  BY <1>2, <1>3, RequestLogins DEF RequestStep
<1>5. ASSUME NEW d \in Clients, request'[d].user = u,
             request'[d].pc \in {"cut", "cutted", "add"}
      PROVE  FALSE
  <2>1. request[d].user = u /\ request[d].pc # "idle"
    BY <1>4, <1>5 DEF LoginsStay
  <2>2. u \in 1..Len(users)
    BY <2>1 DEF Ranged, RequestsRanged
  <2> QED
    BY <1>1, <2>2 DEF Typed
<1> QED
  BY <1>4, <1>5

LEMMA WithoutOnly ==
    ASSUME NEW p \in Seq(Clients), NEW i \in 1..Len(p), NEW d
    PROVE  In(d, WithoutAt(p, i)) => In(d, p)
<1>1. In(p[i], p)
  BY DEF In
<1> QED
  BY <1>1, WithoutIn

\* Taking a client out leaves the others.
LEMMA UserWithout ==
    ASSUME NEW x, NEW u, NEW p \in Seq(Clients), NEW i \in 1..Len(p), UserIs(x, u, p)
    PROVE  UserIs(x, u, WithoutAt(p, i))
<1> DEFINE q == WithoutAt(p, i)
<1>1. \A d : /\ In(d, q) => In(d, p)
             /\ Once(d, p) => Once(d, q)
  BY WithoutOnly, WithoutIn
<1> HIDE DEF q
<1>2. UserLists(x, u, q)
  BY <1>1 DEF UserIs, UserLists
<1>3. AddsNew(x, u, q)
  BY <1>1 DEF UserIs, AddsNew
<1> QED
  BY <1>2, <1>3 DEF UserIs, q

\* The client that is taken out for another one is the one of its appId.
LEMMA LoginCutUser ==
    ASSUME Typed, Ranged, Seeing, NEW c \in Clients, LoginCut(c), ~Crash,
           NEW x, x \notin seen.kicked, NEW u, request[c].user = u,
           NEW p \in Seq(Clients), NEW i \in 1..Len(p), p[i] = request[c].kick,
           UserIs(x, u, p)
    PROVE  UserIs(x, u, WithoutAt(p, i))'
<1> DEFINE q == WithoutAt(p, i)
<1>1. /\ request[c].pc = "cut" /\ client' = client
      /\ request' = [request EXCEPT ![c].pc = "cutted",
                       ![c].slice = [Of(request[c].user) EXCEPT !.len = @ - 1]]
  BY DEF LoginCut
<1>2. /\ request'[c].pc = "cutted" /\ request'[c].user = u
      /\ \A d \in Clients : d # c => request'[d] = request[d]
  BY <1>1 DEF Typed, RequestType
<1>3. request[c].kick # x /\ request[c].kick \in Clients
  <2>1. request[c].kick # None
    BY <1>1 DEF Ranged, RequestsRanged
  <2> QED
    BY <2>1, KickedSeen DEF Typed, RequestType, Goroutines
<1>4. UserIs(x, u, q)
  BY UserWithout
<1>5. ~In(request[c].kick, q)
  BY <1>3, WithoutIn DEF UserIs, UserLists
<1> HIDE DEF q
<1>6. UserLists(x, u, q)'
  BY <1>1, <1>4 DEF UserIs, UserLists
<1>7. AddsNew(x, u, q)'
  <2> SUFFICES ASSUME NEW d \in Clients, request'[d].user = u,
                      request'[d].pc \in {"cut", "cutted", "add"}
               PROVE  /\ d # x => ~In(d, q)
                      /\ request'[d].pc = "cut" =>
                            client'[request'[d].kick].app = client'[d].app
                      /\ \A e \in Clients \ {x} :
                           In(e, q) /\ client'[e].app = client'[d].app =>
                              request'[d].pc = "cut" /\ e = request'[d].kick
    BY DEF AddsNew
  <2>0. client' = client
    BY <1>1
  <2>1. CASE d = c
    <3>1. /\ d # x => ~In(d, q)
          /\ \A e \in Clients \ {x} :
               In(e, q) /\ client[e].app = client[d].app => e = request[d].kick
      BY <1>1, <1>4, <2>1 DEF UserIs, AddsNew
    <3> QED
      BY <1>2, <1>5, <2>0, <2>1, <3>1
  <2>2. CASE d # c
    BY <1>2, <1>4, <2>0, <2>2 DEF UserIs, AddsNew
  <2> QED
    BY <2>1, <2>2
<1> QED
  BY <1>6, <1>7 DEF UserIs, q

\* The client that is added is new in the list, and so is its appId.
LEMMA LoginAddUser ==
    ASSUME Typed, Ranged, NEW c \in Clients, LoginAdd(c),
           NEW x, NEW u, request[c].user = u, Alone(Work, u),
           NEW p \in Seq(Clients), UserIs(x, u, p)
    PROVE  UserIs(x, u, Append(p, c))'
<1> DEFINE q == Append(p, c)
<1>1. /\ request[c].pc = "add" /\ client' = client
      /\ request' = [request EXCEPT ![c].pc = "added",
                       ![c].slice = AppendTo(arrays, Of(request[c].user), <<c>>)]
  BY DEF LoginAdd
<1>2. /\ request'[c].pc = "added"
      /\ \A d \in Clients : d # c => request'[d] = request[d]
  BY <1>1 DEF Typed, RequestType
<1>3. client[c].user = u
  BY <1>1 DEF Ranged, RequestsRanged
<1>4. /\ c # x => ~In(c, p)
      /\ \A e \in Clients \ {x} : ~(In(e, p) /\ client[e].app = client[c].app)
  BY <1>1 DEF UserIs, AddsNew
<1>5. /\ In(c, q) /\ (c # x => Once(c, q))
      /\ \A d : d # c => (In(d, q) <=> In(d, p)) /\ (Once(d, q) <=> Once(d, p))
  BY <1>4, AppendIn
<1> HIDE DEF q
<1>6. UserLists(x, u, q)'
  <2>0. client' = client
    BY <1>1
  <2>1. ASSUME NEW d \in Clients \ {x}
        PROVE  Once(d, q) /\ (In(d, q) => client[d].user = u)
    BY <1>3, <1>5 DEF UserIs, UserLists
  <2>2. ASSUME NEW d \in Clients \ {x}, NEW e \in Clients \ {x},
               In(d, q), In(e, q), client[d].app = client[e].app
        PROVE  d = e
    BY <1>4, <1>5, <2>2 DEF UserIs, UserLists
  <2> QED
    BY <2>0, <2>1, <2>2 DEF UserLists
<1>7. AddsNew(x, u, q)'
  <2> SUFFICES ASSUME NEW d \in Clients, request'[d].user = u,
                      request'[d].pc \in {"cut", "cutted", "add"}
               PROVE  FALSE
    BY DEF AddsNew
  <2>1. d # c /\ request'[d] = request[d]
    BY <1>2
  <2>2. Work[d].op # "off" /\ Work[d].list = u
    BY <2>1, WorkFields DEF RequestOp, RequestList
  <2>3. Work[c].op # "off" /\ Work[c].list = u
    BY <1>1, WorkFields DEF RequestOp, RequestList
  <2> QED
    BY <2>1, <2>2, <2>3 DEF Alone, WorksAt, Goroutines
<1> QED
  BY <1>6, <1>7 DEF UserIs, q

\* The search of appLogin.  Who is listed keeps its account.
LEMMA AppLoginUser ==
    ASSUME ListsKept, Seeing, Seeing', NEW c \in Clients, AppLogin(c), ~Crash,
           NEW x, NEW u, Undisturbed(x, u), x \notin seen'.kicked, Alone(Work, u),
           NEW p \in Shown(arrays, Lists, Work, u), UserIs(x, u, p)
    PROVE  UserIs(x, u, p)'
<1>0. Typed /\ Ranged /\ RealWorld /\ ListsInv
  BY DEF ListsKept, ListsInv
<1> DEFINE v == request[c].user
           app == request[c].app
<1>1. /\ client' = [client EXCEPT ![c].user = v, ![c].app = app]
      /\ request' = [request EXCEPT ![c] = Found(c)]
      /\ request[c].pc = "scan"
  BY <1>0, AppLoginDoes
<1>2. /\ client'[c].user = v /\ client'[c].app = app
      /\ \A d \in Clients : d # c => client'[d] = client[d] /\ request'[d] = request[d]
      /\ request'[c] = Found(c)
  <2>1. client \in [Clients -> ClientType] /\ request \in [Clients -> RequestType]
    BY <1>0 DEF Typed
  <2> HIDE DEF Found, v, app
  <2> QED
    BY <1>1, <2>1 DEF ClientType
<1>3. c # x /\ In(c, p) => client[c].user = v /\ client[c].app = app
  <2> SUFFICES ASSUME c # x, In(c, p)
               PROVE  client[c].user = v /\ client[c].app = app
    OBVIOUS
  <2>1. client[c].user = u /\ u # 0
    BY DEF UserIs, UserLists, Undisturbed
  <2>2. <<c, client[c].user>> \notin seen.moved
    BY <2>1 DEF Undisturbed
  <2> QED
    BY <1>1, <2>1, <2>2, MovedSeen
<1> HIDE DEF v, app
<1>4. \A d \in Clients \ {x} : In(d, p) =>
        client'[d].user = client[d].user /\ client'[d].app = client[d].app
  BY <1>2, <1>3
<1>5. UserLists(x, u, p)'
  BY <1>4 DEF UserIs, UserLists
<1>6. ASSUME NEW d \in Clients, d # c, request[d].user = u,
             request[d].pc \in {"cut", "cutted", "add"}
      PROVE  /\ d # x => ~In(d, p)
             /\ request[d].pc = "cut" => client'[request[d].kick].app = client[d].app
             /\ \A e \in Clients \ {x} :
                  In(e, p) /\ client'[e].app = client[d].app =>
                     request[d].pc = "cut" /\ e = request[d].kick
  <2>1. /\ d # x => ~In(d, p)
        /\ request[d].pc = "cut" => client[request[d].kick].app = client[d].app
        /\ \A e \in Clients \ {x} :
             In(e, p) /\ client[e].app = client[d].app =>
                request[d].pc = "cut" /\ e = request[d].kick
    BY <1>6 DEF UserIs, AddsNew
  <2>2. ASSUME request[d].pc = "cut"
        PROVE  client'[request[d].kick].app = client[request[d].kick].app
    <3>1. Work[d].op = "aims" /\ Work[d].list = u
      BY <1>6, <2>2, WorkFields DEF RequestOp, RequestList
    <3>2. Work[d].who = request[d].kick
      <4>1. Work[d] = RequestWork(d)
        BY WorkIs
      <4> QED
        BY <2>2, <4>1 DEF RequestWork
    <3>3. d \in Goroutines /\ WorksAt(Work, d, u) /\ Work[d].op \notin Pending
      BY <3>1 DEF Goroutines, WorksAt, Pending
    <3>4. p = Contents(arrays, Lists[u])
      BY <3>3, AloneShows
    <3>5. Work[d].index \in 1..Lists[u].len /\ p[Work[d].index] = request[d].kick
      BY <1>0, <3>1, <3>2, <3>3, <3>4 DEF ListsInv, Undisturbed, Well, Steady
    <3>6. Len(p) = Lists[u].len
      BY <1>0, <3>4, ListFacts DEF Undisturbed, Calm, Lists
    <3>7. In(request[d].kick, p)
      BY <3>5, <3>6 DEF In
    <3>8. request[d].kick \in Clients /\ request[d].kick # x
      <4>1. request[d].kick # None
        BY <1>0, <2>2 DEF Ranged, RequestsRanged
      <4> QED
        BY <1>0, <4>1, KickedSeen DEF Undisturbed, Typed, RequestType, Goroutines
    <3> QED
      BY <1>4, <3>7, <3>8
  <2> QED
    BY <1>4, <2>1, <2>2
<1>7. ASSUME v = u, Found(c).pc \in {"cut", "cutted", "add"}
      PROVE  /\ c # x => ~In(c, p)
             /\ Found(c).pc = "cut" => client'[Found(c).kick].app = app
             /\ \A e \in Clients \ {x} :
                  In(e, p) /\ client'[e].app = app =>
                     Found(c).pc = "cut" /\ e = Found(c).kick
  <2>1. v \in 1..Len(users)
    BY <1>0, <1>1 DEF Ranged, RequestsRanged, v
  <2>2. p = Listed(Of(u))
    <3>1. Work[c].op = "on" /\ Work[c].list = u
      BY <1>1, <1>7, WorkFields DEF RequestOp, RequestList, v
    <3>2. c \in Goroutines /\ WorksAt(Work, c, u) /\ Work[c].op \notin Pending
      BY <3>1 DEF Goroutines, WorksAt, Pending
    <3>3. p = Contents(arrays, Lists[u])
      BY <3>2, AloneShows
    <3> QED
      BY <1>0, <1>7, <2>1, <3>3, GuestsList DEF Listed
  <2> DEFINE i == LoginIndex(app, u)
  <2>3. Finds(p, ByApp(app), i) /\ i \in Nat
    BY <1>0, <1>7, <2>1, <2>2, LoginFinds
  <2>4. /\ Found(c).kick = IF i = 0 \/ p[i] = c THEN None ELSE p[i]
        /\ Found(c).pc = IF i = 0 THEN "add" ELSE IF p[i] = c THEN "map" ELSE "cut"
    <3>1. LoginIndex(request[c].app, request[c].user) = i
      BY <1>7 DEF v, app
    <3>2. Listed(Of(request[c].user)) = p
      BY <1>7, <2>2 DEF v
    <3> HIDE DEF i
    <3>3. request[c] \in RequestType
      BY <1>0 DEF Typed
    <3>4. /\ [request[c] EXCEPT !.index = i,
                 !.kick = IF i = 0 \/ p[i] = c THEN None ELSE p[i],
                 !.pc = IF i = 0 THEN "add" ELSE IF p[i] = c THEN "map" ELSE "cut"].kick
               = IF i = 0 \/ p[i] = c THEN None ELSE p[i]
          /\ [request[c] EXCEPT !.index = i,
                 !.kick = IF i = 0 \/ p[i] = c THEN None ELSE p[i],
                 !.pc = IF i = 0 THEN "add" ELSE IF p[i] = c THEN "map" ELSE "cut"].pc
               = IF i = 0 THEN "add" ELSE IF p[i] = c THEN "map" ELSE "cut"
      BY <3>3 DEF RequestType
    <3> QED
      BY <3>1, <3>2, <3>4 DEF Found
  <2> HIDE DEF i
  <2>5. CASE i = 0
    <3>1. Found(c).pc = "add"
      BY <2>4, <2>5
    <3>2. \A e \in Clients : In(e, p) => client[e].app # app
      BY <2>3, <2>5 DEF Finds, In, ByApp
    <3>3. c # x => ~In(c, p)
      BY <1>3, <3>2
    <3>4. \A e \in Clients \ {x} : In(e, p) => client'[e].app # app
      BY <1>4, <3>2
    <3> QED
      BY <3>1, <3>3, <3>4
  <2>6. CASE i # 0
    <3>1. Found(c).pc = "cut" /\ p[i] # c /\ Found(c).kick = p[i]
      BY <1>7, <2>4, <2>6
    <3>2. i \in 1..Len(p) /\ p[i] \in Clients /\ client[p[i]].app = app
      BY <2>3, <2>6 DEF Finds, ByApp
    <3>3. In(p[i], p)
      BY <3>2 DEF In
    <3>4. p[i] # x
      <4>1. request'[c].kick = p[i] /\ p[i] # None
        BY <1>2, <3>1, <3>2, NoneAssumption
      <4>2. request'[c].kick \in seen'.kicked
        BY <4>1 DEF Seeing, Now
      <4> QED
        BY <4>1, <4>2
    <3>5. \A e \in Clients \ {x} : In(e, p) /\ client[e].app = app => e = p[i]
      BY <3>2, <3>3, <3>4 DEF UserIs, UserLists
    <3>6. client'[p[i]].app = app
      BY <1>2, <3>1, <3>2
    <3> QED
      BY <1>3, <1>4, <3>1, <3>5, <3>6
  <2> QED
    BY <2>5, <2>6
<1>8. AddsNew(x, u, p)'
  <2> SUFFICES ASSUME NEW d \in Clients, request'[d].user = u,
                      request'[d].pc \in {"cut", "cutted", "add"}
               PROVE  /\ d # x => ~In(d, p)
                      /\ request'[d].pc = "cut" =>
                            client'[request'[d].kick].app = client'[d].app
                      /\ \A e \in Clients \ {x} :
                           In(e, p) /\ client'[e].app = client'[d].app =>
                              request'[d].pc = "cut" /\ e = request'[d].kick
    BY DEF AddsNew
  <2>1. CASE d = c
    <3>1. Found(c).user = v
      BY <1>0, <1>1, FoundTyped DEF v
    <3> HIDE DEF Found
    <3> QED
      BY <1>2, <1>7, <2>1, <3>1
  <2>2. CASE d # c
    BY <1>2, <1>6, <2>2
  <2> QED
    BY <2>1, <2>2
<1> QED
  BY <1>5, <1>8 DEF UserIs

LEMMA UserInvInit == Init => UserInv
<1> SUFFICES ASSUME Init, NEW x, NEW u, Undisturbed(x, u) PROVE FALSE
  BY DEF UserInv
<1>1. Typed /\ users = <<>>
  BY TypedInit DEF Init
<1> QED
  BY <1>1 DEF Undisturbed, Calm, Lists

\* What the step to an undisturbed list is.
LEMMA UndisturbedBefore ==
    ASSUME ListsKept, Next, NEW x, NEW u, Undisturbed(x, u)'
    PROVE  /\ u # 0 /\ x \notin seen.kicked /\ x \notin seen'.kicked
           /\ Calm(u)' /\ Alone(Work', u)
           /\ u \in DOMAIN Lists => Undisturbed(x, u) /\ Well(u)
<1>0. Typed /\ Ranged /\ SeenTyped /\ ListsInv /\ Typed' /\ Ranged'
  BY ListsKeptStep DEF ListsKept
<1>1. /\ u # 0 /\ Calm(u)' /\ x \notin seen'.kicked
      /\ \A d \in Clients \ {x} : <<d, u>> \notin seen'.moved
  BY DEF Undisturbed
<1>2. seen.kicked \subseteq seen'.kicked /\ seen.moved \subseteq seen'.moved
  BY <1>0, SeenStep
<1>3. u \notin seen.lists /\ Alone(Work', u)
  BY <1>0, <1>1, CalmBefore
<1>4. u \in DOMAIN Lists => Calm(u) /\ Well(u)
  BY <1>0, <1>3 DEF Calm, ListsInv
<1>5. x \notin seen.kicked /\ \A d \in Clients \ {x} : <<d, u>> \notin seen.moved
  BY <1>1, <1>2
<1> QED
  BY <1>1, <1>3, <1>4, <1>5 DEF Undisturbed

LEMMA UserInvStep ==
    ASSUME ListsKept, Seeing, UserInv, Next
    PROVE  UserInv'
<1>0. /\ Typed /\ Ranged /\ SeenTyped /\ RealWorld /\ ListsInv /\ Seeing'
  BY SeeingStep DEF ListsKept, ListsInv
<1>1. SUFFICES ASSUME NEW x \in Goroutines, NEW u, Undisturbed(x, u)'
               PROVE  \A p \in Shown(arrays, Lists, Work, u)' : UserIs(x, u, p)'
  BY DEF UserInv
<1>2. /\ u # 0 /\ x \notin seen.kicked /\ x \notin seen'.kicked
      /\ Calm(u)' /\ Alone(Work', u)
      /\ u \in DOMAIN Lists => Undisturbed(x, u) /\ Well(u)
  BY <1>1, UndisturbedBefore
<1>3. CASE u \notin DOMAIN Lists
  <2>1. u \in DOMAIN Lists'
    BY <1>2 DEF Calm
  <2>2. /\ AccountsStay /\ LoginsStay(u)
        /\ \A d \in Clients : ~(request'[d].user = u /\ request'[d].pc \in {"cut", "cutted", "add"})
    BY <1>0, <1>3, <2>1, NewUser
  <2>3. Shown(arrays, Lists, Work, u)' = {<<>>}
    <3>1. CASE Still
      BY <1>0, <1>3, <2>1, <3>1, StillKeeps
    <3>2. CASE DOMAIN Lists' = DOMAIN Lists
      BY <1>3, <2>1, <3>2
    <3>3. ASSUME NEW g \in Goroutines, NEW v,
                 \/ \E y \in Clients : Appending(g, v, y)
                 \/ \E i : Deleting(g, v, i)
                 \/ Storing(g, v)
          PROVE  DOMAIN Lists' = DOMAIN Lists
      BY <1>0, <3>3, AppendingKeeps, DeletingKeeps, StoringKeeps
    <3> QED
      BY <1>0, <3>1, <3>2, <3>3, AnyStep
  <2>4. \A d : ~In(d, <<>>) /\ Once(d, <<>>)
    BY DEF In, Once
  <2>5. UserLists(x, u, <<>>)' /\ AddsNew(x, u, <<>>)'
    BY <2>2, <2>4 DEF UserLists, AddsNew
  <2> QED
    BY <2>3, <2>5 DEF UserIs
<1>4. ASSUME u \in DOMAIN Lists
      PROVE  \A p \in Shown(arrays, Lists, Work, u)' : UserIs(x, u, p)'
  <2>1. /\ Undisturbed(x, u) /\ Well(u) /\ Alone(Work, u)
        /\ \A p \in Shown(arrays, Lists, Work, u) : p \in Seq(Clients) /\ UserIs(x, u, p)
    BY <1>2, <1>4 DEF UserInv, Well, Steady
  <2>2. ASSUME Same(u), AccountsStay, LoginsStay(u)
        PROVE  \A p \in Shown(arrays, Lists, Work, u)' : UserIs(x, u, p)'
    BY <1>0, <2>1, <2>2, UserIsStays DEF Same
  <2>3. CASE Crash
    <3>1. Same(u)
      BY <1>0, <1>4, <2>3, CrashStill, StillKeeps
    <3>2. AccountsStay /\ LoginsStay(u)
      BY <2>3, NoLogin DEF Crash, AccountsStay
    <3> QED
      BY <2>2, <3>1, <3>2
  <2>4. CASE LogoutCut /\ ~Crash /\ hub.user = u
    <3>1. Deleting(None, u, hub.index) /\ None \in Goroutines
      BY <1>0, <2>4, LogoutCutMoves DEF Goroutines
    <3>2. PICK p \in Shown(arrays, Lists, Work, u) :
            /\ hub.index \in 1..Len(p)
            /\ Shown(arrays, Lists, Work, u)' = {WithoutAt(p, hub.index)}
      BY <1>0, <2>1, <3>1, DeletingKeeps
    <3>3. AccountsStay /\ LoginsStay(u)
      BY <1>0, <2>4, HubLogins DEF HubStep
    <3>4. ASSUME NEW q, q = WithoutAt(p, hub.index)
          PROVE  UserIs(x, u, q)'
      BY <1>0, <2>1, <3>2, <3>3, <3>4, UserWithout, UserIsStays
    <3> QED
      BY <3>2, <3>4
  <2>5. ASSUME NEW c \in Clients, LoginCut(c), ~Crash, request[c].user = u
        PROVE  \A p \in Shown(arrays, Lists, Work, u)' : UserIs(x, u, p)'
    <3>1. Deleting(c, u, request[c].index) /\ c \in Goroutines
      BY <1>0, <2>5, LoginCutMoves DEF Goroutines
    <3>2. Work[c].who = request[c].kick
      <4>1. request[c].pc = "cut" /\ Work[c] = RequestWork(c)
        BY <2>5, WorkIs DEF LoginCut
      <4> QED
        BY <4>1 DEF RequestWork
    <3>3. PICK p \in Shown(arrays, Lists, Work, u) :
            /\ request[c].index \in 1..Len(p) /\ p[request[c].index] = request[c].kick
            /\ Shown(arrays, Lists, Work, u)' = {WithoutAt(p, request[c].index)}
      BY <1>0, <2>1, <3>1, <3>2, DeletingKeeps
    <3>4. ASSUME NEW i, i = request[c].index
          PROVE  UserIs(x, u, WithoutAt(p, i))'
      BY <1>0, <1>2, <2>1, <2>5, <3>3, <3>4, LoginCutUser
    <3> QED
      BY <3>3, <3>4
  <2>6. ASSUME NEW c \in Clients, LoginAdd(c), request[c].user = u
        PROVE  \A p \in Shown(arrays, Lists, Work, u)' : UserIs(x, u, p)'
    <3>1. Appending(c, u, c) /\ c \in Goroutines
      BY <1>0, <2>6, LoginAddMoves DEF Goroutines
    <3>2. PICK p \in Shown(arrays, Lists, Work, u) :
            Shown(arrays, Lists, Work, u)' = {Append(p, c)}
      BY <1>0, <2>1, <3>1, AppendingKeeps
    <3>3. UserIs(x, u, Append(p, c))'
      BY <1>0, <2>1, <2>6, LoginAddUser
    <3> QED
      BY <3>2, <3>3
  <2>7. ASSUME NEW c \in Clients, AppLogin(c), ~Crash
        PROVE  \A p \in Shown(arrays, Lists, Work, u)' : UserIs(x, u, p)'
    <3>1. Same(u)
      BY <1>0, <1>4, <2>7, AppLoginMoves, StillKeeps
    <3>2. ASSUME NEW p \in Shown(arrays, Lists, Work, u)
          PROVE  UserIs(x, u, p)'
      BY <1>0, <1>2, <2>1, <2>7, <3>2, AppLoginUser
    <3> QED
      BY <3>1, <3>2 DEF Same
  <2>8. CASE /\ ~Crash /\ ~(LogoutCut /\ hub.user = u)
             /\ \A d \in Clients : /\ LoginCut(d) => request[d].user # u
                                   /\ LoginAdd(d) => request[d].user # u
                                   /\ ~AppLogin(d)
    <3>1. Same(u)
      BY <1>2, <1>4, <2>1, <2>8, UserSame
    <3>2. AccountsStay /\ LoginsStay(u)
      BY <1>0, <2>8, HubLogins, RequestLogins, ReaderLogins DEF Next
    <3> QED
      BY <2>2, <3>1, <3>2
  <2> QED
    BY <2>3, <2>4, <2>5, <2>6, <2>7, <2>8
<1> QED
  BY <1>3, <1>4

-----------------------------------------------------------------------------
(* Clients that have left.                                                   *)

\* The hub logs a client out of its user, unless the client is in a login.
LeavesInv ==
    /\ hub.pc \in {"cut", "store"} =>
          hub.user = client[hub.client].user \/ hub.client \in seen.late
    /\ hub.pc = "close" => client[hub.client].user = 0 \/ hub.client \in seen.late

\* What the hub does in a step: it closes a client, takes one out, or neither.
LEMMA ClosedStay ==
    ASSUME Typed, Next, ~LogoutStore, ~CloseGuest
    PROVE  \A c \in Clients : client'[c].closed = client[c].closed
<1>0. client \in [Clients -> ClientType]
  BY DEF Typed
<1>1. CASE client' = client
  BY <1>1
<1>2. ASSUME NEW c, client' = [client EXCEPT ![c].open = TRUE]
      PROVE  \A d \in Clients : client'[d].closed = client[d].closed
  BY <1>0, <1>2 DEF ClientType
<1>3. ASSUME NEW c, client' = [client EXCEPT ![c].drops = @ - 1, ![c].left = TRUE]
      PROVE  \A d \in Clients : client'[d].closed = client[d].closed
  BY <1>0, <1>3 DEF ClientType
<1>4. ASSUME NEW c, client' = [client EXCEPT ![c].logins = Tail(@)]
      PROVE  \A d \in Clients : client'[d].closed = client[d].closed
  BY <1>0, <1>4 DEF ClientType
<1>5. ASSUME NEW c \in Clients, AppLogin(c)
      PROVE  \A d \in Clients : client'[d].closed = client[d].closed
  <2>1. \/ client' = client
        \/ client' = [client EXCEPT ![c].user = request[c].user, ![c].app = request[c].app]
    BY <1>5, AppLoginDoes DEF Crash
  <2>2. ASSUME NEW u, NEW a, client' = [client EXCEPT ![c].user = u, ![c].app = a]
        PROVE  \A d \in Clients : client'[d].closed = client[d].closed
    BY <1>0, <2>2 DEF ClientType
  <2> QED
    BY <2>1, <2>2
<1>6. \/ client' = client
      \/ \E c : \/ client' = [client EXCEPT ![c].open = TRUE]
                \/ client' = [client EXCEPT ![c].drops = @ - 1, ![c].left = TRUE]
                \/ client' = [client EXCEPT ![c].logins = Tail(@)]
      \/ \E c \in Clients : AppLogin(c)
  BY Zenon DEF Next, HubStep, RequestStep, GuardStep, CastStep, Connect, Disconnect,
       AppendGuest, StoreGuests, AppLogout, LogoutCut, LogoutStore, CloseGuest, HubFindGuest,
       HubDeleteGuest, UserLogin, LoginCut, LoginAdd, LoginStore, Kick, StoreUser,
       FindGuest, DeleteGuest, StoreDeleted, GuardFinds, GuardDeletes, Broadcast, SendNext,
       EndOfSlice, RangeUsers, Crash
<1> QED
  BY <1>1, <1>2, <1>3, <1>4, <1>5, <1>6

\* The hub goes on at a logout only by the steps of it.
HubKeeps(pc) ==
    hub'.pc = pc => hub.pc = pc /\ hub'.client = hub.client /\ hub'.user = hub.user

LEMMA LogoutStays ==
    ASSUME Typed, Ranged, Next
    PROVE  /\ ~LogoutCut => HubKeeps("store")
           /\ ~AppLogout => HubKeeps("cut")
           /\ \/ \E d \in Clients : Receive(d) /\ client' = client
              \/ \E d \in Clients : Disconnect(d)
              \/ HubKeeps("close")
<1>0. hub \in HubType
  BY DEF Typed
<1>1. ASSUME hub' = hub
      PROVE  HubKeeps("store") /\ HubKeeps("cut") /\ HubKeeps("close")
  BY <1>1 DEF HubKeeps
<1>2. ASSUME hub'.pc \notin {"store", "cut", "close"}
      PROVE  HubKeeps("store") /\ HubKeeps("cut") /\ HubKeeps("close")
  BY <1>2 DEF HubKeeps
<1>3. ASSUME NEW d \in Clients, Receive(d)
      PROVE  HubKeeps("store") /\ HubKeeps("cut")
  <2>1. hub'.pc \in {"logout", "close"}
    BY <1>3, ReceiveTyped
  <2> QED
    BY <2>1 DEF HubKeeps
<1>4. CASE HubStep
  <2>1. ASSUME NEW c \in Clients, Connect(c)
        PROVE  hub'.pc = "append"
    BY <1>0, <2>1 DEF Connect, HubType
  <2>2. CASE \E c \in Clients : Disconnect(c)
    BY <1>3, <2>2 DEF Disconnect
  <2>3. CASE AppendGuest
    <3>1. hub'.pc = "appended"
      BY <1>0, <2>3 DEF AppendGuest, HubType
    <3> QED
      BY <1>2, <3>1
  <2>4. CASE StoreGuests \/ LogoutStore
    <3>1. hub'.pc = "select"
      BY <2>4 DEF StoreGuests, LogoutStore, Resting
    <3> QED
      BY <1>2, <3>1
  <2>5. CASE AppLogout
    <3> DEFINE u == client[hub.client].user
               i == LogoutIndex(hub.client, u)
    <3>1. \/ Crash
          \/ hub' = IF i = 0 THEN Resting
                    ELSE [hub EXCEPT !.pc = "cut", !.user = u, !.index = i]
      BY <2>5 DEF AppLogout, LogoutIndex
    <3> HIDE DEF u, i
    <3>2. hub' = hub \/ hub'.pc \in {"select", "cut"}
      <4>1. CASE Crash
        BY <4>1 DEF Crash
      <4>2. CASE hub' = Resting
        BY <4>2 DEF Resting
      <4>3. CASE hub' = [hub EXCEPT !.pc = "cut", !.user = u, !.index = i]
        <5>1. hub'.pc = "cut"
          BY <1>0, <4>3 DEF HubType
        <5> QED
          BY <5>1
      <4> QED
        BY <3>1, <4>1, <4>2, <4>3
    <3> QED
      BY <1>1, <2>5, <3>2 DEF HubKeeps
  <2>6. CASE LogoutCut
    <3> DEFINE t == [Of(hub.user) EXCEPT !.len = @ - 1]
    <3>1. \/ Crash
          \/ hub' = [hub EXCEPT !.pc = "store", !.slice = t]
      BY <2>6 DEF LogoutCut
    <3> HIDE DEF t
    <3>2. hub' = hub \/ hub'.pc = "store"
      BY <1>0, <3>1 DEF Crash, HubType
    <3> QED
      BY <1>1, <2>6, <3>2 DEF HubKeeps
  <2>7. CASE CloseGuest
    <3>1. hub'.pc = "index"
      BY <1>0, <2>7 DEF CloseGuest, HubType
    <3> QED
      BY <1>2, <3>1
  <2>8. CASE HubFindGuest
    <3> DEFINE i == GuestIndex(hub.client)
    <3>1. hub' = IF i = 0 THEN Resting ELSE [hub EXCEPT !.pc = "delete", !.index = i]
      BY <2>8 DEF HubFindGuest
    <3> HIDE DEF i
    <3>2. hub'.pc \in {"select", "delete"}
      BY <1>0, <3>1 DEF Resting, HubType
    <3> QED
      BY <1>2, <3>2
  <2>9. CASE HubDeleteGuest
    <3> DEFINE t == [guests EXCEPT !.len = @ - 1]
    <3>1. \/ Crash
          \/ hub' = [hub EXCEPT !.pc = "deleted", !.slice = t]
      BY <2>9 DEF HubDeleteGuest
    <3> HIDE DEF t
    <3>2. hub' = hub \/ hub'.pc = "deleted"
      BY <1>0, <3>1 DEF Crash, HubType
    <3> QED
      BY <1>1, <1>2, <3>2
  <2> QED
    BY <1>2, <1>4, <2>1, <2>2, <2>3, <2>4, <2>5, <2>6, <2>7, <2>8, <2>9 DEF HubStep
<1>5. ASSUME NEW c \in Clients, Kick(c)
      PROVE  \E d \in Clients : Receive(d) /\ client' = client
  <2>1. request[c].kick \in Clients
    BY <1>5 DEF Kick, Ranged, RequestsRanged, Typed, RequestType, Goroutines
  <2> QED
    BY <1>5, <2>1 DEF Kick
<1>6. CASE ~HubStep /\ ~\E c \in Clients : Kick(c)
  <2>1. hub' = hub
    BY <1>6, Zenon DEF Next, RequestStep, GuardStep, CastStep,
       UserLogin, AppLogin, LoginCut, LoginAdd, LoginStore, StoreUser,
       FindGuest, DeleteGuest, StoreDeleted, GuardFinds, GuardDeletes, Broadcast, SendNext,
       EndOfSlice, RangeUsers, Crash
  <2> QED
    BY <1>1, <2>1
<1> QED
  BY <1>3, <1>4, <1>5, <1>6

\* Only the search of appLogin gives a client its account.
LEMMA AccountsMayStay ==
    ASSUME Typed, Ranged, Next, \A c \in Clients : ~AppLogin(c)
    PROVE  AccountsStay
<1>1. ASSUME NEW c \in Clients, RequestStep(c)
      PROVE  AccountsStay
  <2>1. LoginCut(c) => request[c].user # 0
    BY DEF LoginCut, Ranged, RequestsRanged
  <2> QED
    BY <1>1, <2>1, RequestLogins
<1> QED
  BY <1>1, HubLogins, ReaderLogins DEF Next

LEMMA AppLoginAccounts ==
    ASSUME Typed, Ranged, RealWorld, NEW c \in Clients, AppLogin(c)
    PROVE  /\ hub' = hub /\ InLogin(c)'
           /\ \A d \in Clients : d # c => client'[d] = client[d] /\ request'[d] = request[d]
<1>1. request[c].pc = "scan"
  BY DEF AppLogin
<1>2. CASE Crash
  BY <1>1, <1>2 DEF Crash, InLogin
<1>3. CASE ~Crash
  <2>1. /\ hub' = hub
        /\ client' = [client EXCEPT ![c].user = request[c].user, ![c].app = request[c].app]
        /\ request' = [request EXCEPT ![c] = Found(c)]
    BY <1>3, AppLoginDoes
  <2>2. Found(c).pc \in {"add", "map", "cut"}
    BY <1>1, FoundTyped
  <2> HIDE DEF Found
  <2>3. client \in [Clients -> ClientType] /\ request \in [Clients -> RequestType]
    BY DEF Typed
  <2>4. \A d \in Clients : d # c => client'[d] = client[d] /\ request'[d] = request[d]
    BY <2>1, <2>3
  <2>5. request'[c].pc \in {"add", "map", "cut"}
    BY <2>1, <2>2, <2>3
  <2> QED
    BY <2>1, <2>4, <2>5 DEF InLogin
<1> QED
  BY <1>2, <1>3

LEMMA LeavesInvStep ==
    ASSUME ListsKept, Seeing', LeavesInv, Next
    PROVE  LeavesInv'
<1>0. Typed /\ Ranged /\ RealWorld /\ SeenTyped
  BY DEF ListsKept, ListsInv
<1>l. seen.late \subseteq seen'.late
  BY <1>0, SeenStep
<1>h. hub.pc # "select" => hub.client \in Clients
  BY <1>0 DEF Ranged, HubRanged
\* The hub's client has its user, or is in a login.
<1>1. ASSUME hub.pc # "select", hub'.client = hub.client
      PROVE  \/ client'[hub.client].user = client[hub.client].user
             \/ hub'.client \in seen'.late
  <2>1. CASE \A c \in Clients : ~AppLogin(c)
    BY <1>0, <1>1, <1>h, <2>1, AccountsMayStay DEF AccountsStay
  <2>2. ASSUME NEW c \in Clients, AppLogin(c), hub.client # c
        PROVE  client'[hub.client].user = client[hub.client].user
    BY <1>0, <1>1, <1>h, <2>2, AppLoginAccounts
  <2>3. ASSUME NEW c \in Clients, AppLogin(c), hub.client = c
        PROVE  c \in seen'.late
    <3>1. hub'.client = c /\ InLogin(c)'
      BY <1>0, <2>3, AppLoginAccounts
    <3> QED
      BY <3>1 DEF Seeing, Now
  <2> QED
    BY <1>1, <2>1, <2>2, <2>3
<1>2. ASSUME NEW pc \in {"cut", "store"}, HubKeeps(pc), hub'.pc = pc
      PROVE  hub'.user = client'[hub'.client].user \/ hub'.client \in seen'.late
  <2>1. hub.pc = pc /\ hub'.client = hub.client /\ hub'.user = hub.user
    BY <1>2 DEF HubKeeps
  <2>2. hub.user = client[hub.client].user \/ hub.client \in seen.late
    BY <2>1 DEF LeavesInv
  <2> QED
    BY <1>1, <1>l, <2>1, <2>2
<1>3. ASSUME hub'.pc = "cut"
      PROVE  hub'.user = client'[hub'.client].user \/ hub'.client \in seen'.late
  <2>1. CASE AppLogout
    <3> DEFINE u == client[hub.client].user
               i == LogoutIndex(hub.client, u)
    <3>1. hub.pc = "logout"
      BY <2>1 DEF AppLogout
    <3>2. /\ hub' = IF i = 0 THEN Resting
                    ELSE [hub EXCEPT !.pc = "cut", !.user = u, !.index = i]
          /\ client' = client
      BY <1>3, <2>1, <3>1 DEF AppLogout, LogoutIndex, Crash
    <3> HIDE DEF u, i
    <3>3. hub' # Resting
      BY <1>3 DEF Resting
    <3>4. hub'.user = u /\ hub'.client = hub.client
      <4>1. hub' = [hub EXCEPT !.pc = "cut", !.user = u, !.index = i]
        BY <3>2, <3>3
      <4> QED
        BY <1>0, <4>1 DEF Typed, HubType
    <3> QED
      BY <3>2, <3>4 DEF u
  <2>2. CASE ~AppLogout
    BY <1>0, <1>2, <1>3, <2>2, LogoutStays
  <2> QED
    BY <2>1, <2>2
<1>4. ASSUME hub'.pc = "store"
      PROVE  hub'.user = client'[hub'.client].user \/ hub'.client \in seen'.late
  <2>1. CASE LogoutCut
    <3> DEFINE t == [Of(hub.user) EXCEPT !.len = @ - 1]
    <3>1. hub.pc = "cut"
      BY <2>1 DEF LogoutCut
    <3>2. hub' = [hub EXCEPT !.pc = "store", !.slice = t] /\ client' = client
      BY <1>4, <2>1, <3>1 DEF LogoutCut, Crash
    <3> HIDE DEF t
    <3>3. hub'.user = hub.user /\ hub'.client = hub.client
      BY <1>0, <3>2 DEF Typed, HubType
    <3> QED
      BY <1>l, <3>1, <3>2, <3>3 DEF LeavesInv
  <2>2. CASE ~LogoutCut
    BY <1>0, <1>2, <1>4, <2>2, LogoutStays
  <2> QED
    BY <2>1, <2>2
<1>5. ASSUME hub'.pc = "close"
      PROVE  client'[hub'.client].user = 0 \/ hub'.client \in seen'.late
  <2>1. ASSUME NEW d \in Clients, Receive(d), client'[d].user = client[d].user
        PROVE  client'[hub'.client].user = 0
    BY <1>0, <1>5, <2>1, ReceiveTyped
  <2>2. ASSUME NEW d \in Clients, Disconnect(d)
        PROVE  client'[hub'.client].user = 0
    <3>1. Receive(d) /\ client'[d].user = client[d].user
      BY <1>0, <2>2 DEF Disconnect, Typed, ClientType
    <3> QED
      BY <2>1, <3>1
  <2>3. ASSUME HubKeeps("close")
        PROVE  client'[hub'.client].user = 0 \/ hub'.client \in seen'.late
    <3>1. hub.pc = "close" /\ hub'.client = hub.client
      BY <1>5, <2>3 DEF HubKeeps
    <3> QED
      BY <1>1, <1>l, <3>1 DEF LeavesInv
  <2> QED
    BY <1>0, <2>1, <2>2, <2>3, LogoutStays
<1> QED
  BY <1>3, <1>4, <1>5 DEF LeavesInv

\* A client that is closed is in no list, unless it left in a login; and a
\* client that the hub has taken out is out.
ClosedIs(u, p) ==
    /\ \A c \in Clients : In(c, p) /\ client[c].closed => c \in seen.late
    /\ hub.pc = "store" /\ hub.user = u => ~In(hub.client, p)

ClosedInv ==
    \A u : Undisturbed(None, u) =>
        \A p \in Shown(arrays, Lists, Work, u) : ClosedIs(u, p)

LEMMA ClosedIsStays ==
    ASSUME NEW u, NEW p, NEW q, ClosedIs(u, p), \A d : In(d, q) => In(d, p),
           \A c \in Clients : client'[c].closed = client[c].closed,
           HubKeeps("store"), seen.late \subseteq seen'.late
    PROVE  ClosedIs(u, q)'
<1>1. \A c \in Clients : In(c, q) /\ client'[c].closed => c \in seen'.late
  BY DEF ClosedIs
<1>2. hub'.pc = "store" /\ hub'.user = u => ~In(hub'.client, q)
  BY DEF ClosedIs, HubKeeps
<1> QED
  BY <1>1, <1>2 DEF ClosedIs

\* The list of a new user is empty.
LEMMA NewList ==
    ASSUME Typed, Ranged, ListsInv, Next, NEW u, u \in DOMAIN Lists', u \notin DOMAIN Lists
    PROVE  Shown(arrays, Lists, Work, u)' = {<<>>}
<1>1. CASE Still
  BY <1>1, StillKeeps
<1>2. ASSUME NEW g \in Goroutines, NEW v,
             \/ \E y \in Clients : Appending(g, v, y)
             \/ \E i : Deleting(g, v, i)
             \/ Storing(g, v)
      PROVE  DOMAIN Lists' = DOMAIN Lists
  BY <1>2, AppendingKeeps, DeletingKeeps, StoringKeeps
<1> QED
  BY <1>1, <1>2, AnyStep DEF ListsInv

LEMMA LogoutCutDoes ==
    ASSUME Typed, Ranged, LogoutCut, ~Crash
    PROVE  /\ hub'.pc = "store" /\ hub'.user = hub.user /\ hub'.client = hub.client
           /\ hub.client \in Clients
           /\ client' = client /\ Work[None].who = hub.client
<1> DEFINE t == [Of(hub.user) EXCEPT !.len = @ - 1]
<1>1. hub.pc = "cut" /\ hub' = [hub EXCEPT !.pc = "store", !.slice = t] /\ client' = client
  BY DEF LogoutCut
<1>2. Work[None].who = hub.client
  BY WorkIs DEF HubWork
<1> HIDE DEF t
<1>3. hub'.pc = "store" /\ hub'.user = hub.user /\ hub'.client = hub.client
  BY <1>1 DEF Typed, HubType
<1> QED
  BY <1>1, <1>2, <1>3 DEF Ranged, HubRanged

\* The hub closes the client that it has taken out.
LEMMA CloseClosed ==
    ASSUME Typed, Ranged, LogoutStore \/ CloseGuest, LeavesInv,
           NEW u, u # 0, NEW p, UserIs(None, u, p), ClosedIs(u, p),
           seen.late \subseteq seen'.late
    PROVE  ClosedIs(u, p)'
<1> DEFINE c == hub.client
<1>1. /\ c \in Clients /\ hub.pc \in {"store", "close"}
      /\ client' = [client EXCEPT ![c].closed = TRUE]
  BY DEF LogoutStore, CloseGuest, Ranged, HubRanged
<1>2. \A d \in Clients : d # c => client'[d].closed = client[d].closed
  BY <1>1 DEF Typed, ClientType
<1>3. hub'.pc \in {"select", "index"}
  BY DEF LogoutStore, CloseGuest, Resting, Typed, HubType
<1>4. In(c, p) => c \in seen.late
  <2> SUFFICES ASSUME In(c, p) PROVE c \in seen.late
    OBVIOUS
  <2>1. client[c].user = u
    BY <1>1, NoneAssumption DEF UserIs, UserLists
  <2>2. CASE hub.pc = "close"
    BY <2>1, <2>2 DEF LeavesInv
  <2>3. CASE hub.pc = "store"
    BY <2>1, <2>3 DEF LeavesInv, ClosedIs
  <2> QED
    BY <1>1, <2>2, <2>3
<1> HIDE DEF c
<1>5. ASSUME NEW d \in Clients, In(d, p), client'[d].closed
      PROVE  d \in seen'.late
  <2>1. CASE d = c
    BY <1>4, <1>5, <2>1
  <2>2. CASE d # c
    BY <1>2, <1>5, <2>2 DEF ClosedIs
  <2> QED
    BY <2>1, <2>2
<1> QED
  BY <1>3, <1>5 DEF ClosedIs

\* The steps of a login to a list change its pc.
LEMMA LoginMoves ==
    ASSUME Typed, ~Crash, NEW c \in Clients, LoginCut(c) \/ LoginAdd(c)
    PROVE  request' # request
<1>1. request[c].pc \in {"cut", "add"}
  BY DEF LoginCut, LoginAdd
<1>2. ASSUME NEW r, request' = [request EXCEPT ![c] = r], r.pc \in {"cutted", "added"}
      PROVE  request' # request
  BY <1>1, <1>2 DEF Typed
<1>3. CASE LoginCut(c)
  <2> DEFINE t == [Of(request[c].user) EXCEPT !.len = @ - 1]
  <2> DEFINE r == [request[c] EXCEPT !.pc = "cutted", !.slice = t]
  <2>1. request' = [request EXCEPT ![c] = r]
    BY <1>3 DEF LoginCut, Typed, RequestType
  <2> HIDE DEF t
  <2>2. r.pc = "cutted"
    BY DEF Typed, RequestType
  <2> QED
    BY <1>2, <2>1, <2>2
<1>4. CASE LoginAdd(c)
  <2> DEFINE t == AppendTo(arrays, Of(request[c].user), <<c>>)
  <2> DEFINE r == [request[c] EXCEPT !.pc = "added", !.slice = t]
  <2>1. request' = [request EXCEPT ![c] = r]
    BY <1>4 DEF LoginAdd, Typed, RequestType
  <2> HIDE DEF t
  <2>2. r.pc = "added"
    BY DEF Typed, RequestType
  <2> QED
    BY <1>2, <2>1, <2>2
<1> QED
  BY <1>3, <1>4

LEMMA ClosedInvStep ==
    ASSUME ListsKept, Seeing, UserInv, LeavesInv, ClosedInv, Next
    PROVE  ClosedInv'
<1>0. /\ Typed /\ Ranged /\ SeenTyped /\ RealWorld /\ ListsInv
  BY DEF ListsKept, ListsInv
<1>1. SUFFICES ASSUME NEW u, Undisturbed(None, u)'
               PROVE  \A p \in Shown(arrays, Lists, Work, u)' : ClosedIs(u, p)'
  BY DEF ClosedInv
<1>l. seen.late \subseteq seen'.late /\ None \in Goroutines
  BY <1>0, SeenStep DEF Goroutines
<1>2. /\ u # 0 /\ Calm(u)' /\ Alone(Work', u)
      /\ u \in DOMAIN Lists => Undisturbed(None, u) /\ Well(u)
  BY <1>1, UndisturbedBefore
<1>3. CASE u \notin DOMAIN Lists
  <2>1. u \in DOMAIN Lists'
    BY <1>2 DEF Calm
  <2>2. Shown(arrays, Lists, Work, u)' = {<<>>}
    BY <1>0, <1>3, <2>1, NewList
  <2>3. \A d : ~In(d, <<>>)
    BY DEF In
  <2> QED
    BY <2>2, <2>3 DEF ClosedIs
<1>4. ASSUME u \in DOMAIN Lists
      PROVE  \A p \in Shown(arrays, Lists, Work, u)' : ClosedIs(u, p)'
  <2>1. /\ Well(u) /\ Alone(Work, u)
        /\ \A p \in Shown(arrays, Lists, Work, u) :
             p \in Seq(Clients) /\ UserIs(None, u, p) /\ ClosedIs(u, p)
    BY <1>2, <1>4, <1>l DEF UserInv, ClosedInv, Well, Steady
  <2>2. ASSUME HubKeeps("store"), \A c \in Clients : client'[c].closed = client[c].closed,
               NEW p \in Shown(arrays, Lists, Work, u), NEW q, \A d : In(d, q) => In(d, p)
        PROVE  ClosedIs(u, q)'
    BY <1>l, <2>1, <2>2, ClosedIsStays
  <2>3. CASE Crash
    <3>1. Same(u)
      BY <1>0, <1>4, <2>3, CrashStill, StillKeeps
    <3>2. HubKeeps("store") /\ \A c \in Clients : client'[c].closed = client[c].closed
      BY <2>3 DEF Crash, HubKeeps
    <3> QED
      BY <2>2, <3>1, <3>2 DEF Same
  <2>4. CASE LogoutCut /\ ~Crash
    <3>1. /\ hub'.pc = "store" /\ hub'.user = hub.user /\ hub'.client = hub.client
          /\ hub.client \in Clients /\ client' = client /\ Work[None].who = hub.client
      BY <1>0, <2>4, LogoutCutDoes
    <3>2. CASE hub.user = u
      <4>1. Deleting(None, u, hub.index)
        BY <1>0, <2>4, <3>2, LogoutCutMoves
      <4>2. PICK p \in Shown(arrays, Lists, Work, u) :
              /\ hub.index \in 1..Len(p) /\ p[hub.index] = hub.client
              /\ Shown(arrays, Lists, Work, u)' = {WithoutAt(p, hub.index)}
        BY <1>0, <1>l, <2>1, <3>1, <4>1, DeletingKeeps
      <4>3. ASSUME NEW q, q = WithoutAt(p, hub.index)
            PROVE  ClosedIs(u, q)'
        <5>1. ~In(hub.client, q)
          <6>1. Once(hub.client, p)
            BY <2>1, <3>1, NoneAssumption DEF UserIs, UserLists
          <6> QED
            BY <2>1, <4>2, <4>3, <6>1, WithoutIn
        <5>2. \A d : In(d, q) => In(d, p)
          BY <2>1, <4>2, <4>3, WithoutOnly
        <5>3. \A c \in Clients : In(c, q) /\ client'[c].closed => c \in seen'.late
          BY <1>l, <2>1, <3>1, <5>2 DEF ClosedIs
        <5> QED
          BY <3>1, <5>1, <5>3 DEF ClosedIs
      <4> QED
        BY <4>2, <4>3
    <3>3. CASE hub.user # u
      <4>0. \A d \in Clients : ~LoginCut(d) /\ ~LoginAdd(d)
        <5>1. request' = request
          BY <2>4 DEF LogoutCut
        <5>2. ASSUME NEW d \in Clients, LoginCut(d) \/ LoginAdd(d)
              PROVE  FALSE
          BY <1>0, <2>4, <5>1, <5>2, LoginMoves
        <5> QED
          BY <5>2
      <4>1. Same(u)
        BY <1>2, <1>4, <2>1, <2>4, <3>3, <4>0, UserSame
      <4>2. ASSUME NEW p \in Shown(arrays, Lists, Work, u)
            PROVE  ClosedIs(u, p)'
        BY <1>l, <2>1, <3>1, <3>3 DEF ClosedIs
      <4> QED
        BY <4>1, <4>2 DEF Same
    <3> QED
      BY <3>2, <3>3
  <2>5. ASSUME NEW c \in Clients, LoginCut(c), ~Crash, request[c].user = u,
               HubKeeps("store"), \A d \in Clients : client'[d].closed = client[d].closed
        PROVE  \A p \in Shown(arrays, Lists, Work, u)' : ClosedIs(u, p)'
    <3>1. Deleting(c, u, request[c].index) /\ c \in Goroutines
      BY <1>0, <2>5, LoginCutMoves DEF Goroutines
    <3>2. PICK p \in Shown(arrays, Lists, Work, u) :
            /\ request[c].index \in 1..Len(p)
            /\ Shown(arrays, Lists, Work, u)' = {WithoutAt(p, request[c].index)}
      BY <1>0, <2>1, <3>1, DeletingKeeps
    <3>3. \A d : In(d, WithoutAt(p, request[c].index)) => In(d, p)
      BY <2>1, <3>2, WithoutOnly
    <3>4. ASSUME NEW q, q = WithoutAt(p, request[c].index)
          PROVE  ClosedIs(u, q)'
      BY <2>2, <2>5, <3>3, <3>4
    <3> QED
      BY <3>2, <3>4
  <2>6. ASSUME NEW c \in Clients, LoginAdd(c), request[c].user = u,
               HubKeeps("store"), \A d \in Clients : client'[d].closed = client[d].closed
        PROVE  \A p \in Shown(arrays, Lists, Work, u)' : ClosedIs(u, p)'
    <3>1. Appending(c, u, c) /\ c \in Goroutines
      BY <1>0, <2>6, LoginAddMoves DEF Goroutines
    <3>2. PICK p \in Shown(arrays, Lists, Work, u) :
            Shown(arrays, Lists, Work, u)' = {Append(p, c)}
      BY <1>0, <2>1, <3>1, AppendingKeeps
    <3>3. request[c].pc = "add"
      BY <2>6 DEF LoginAdd
    <3>4. client[c].closed => c \in seen.late
      BY <3>3, LateSeen DEF InLogin
    <3>5. ~(hub.pc = "store" /\ hub.user = u)
      <4>1. Work[c].op = "on" /\ Work[c].list = u
        BY <2>6, <3>3, WorkFields DEF RequestOp, RequestList
      <4>2. hub.pc = "store" => Work[None].op = "removes" /\ Work[None].list = hub.user
        BY WorkFields DEF HubOp, HubList
      <4> QED
        BY <1>l, <2>1, <3>1, <4>1, <4>2 DEF Alone, WorksAt
    <3>6. \A d : d # c => (In(d, Append(p, c)) <=> In(d, p))
      BY <2>1, AppendIn
    <3> DEFINE q == Append(p, c)
    <3> HIDE DEF q
    <3>7. \A d \in Clients : In(d, q) /\ client'[d].closed => d \in seen'.late
      BY <1>l, <2>1, <2>6, <3>4, <3>6 DEF ClosedIs, q
    <3>8. ~(hub'.pc = "store" /\ hub'.user = u)
      BY <2>6, <3>5 DEF HubKeeps
    <3>9. ClosedIs(u, q)'
      BY <3>7, <3>8 DEF ClosedIs
    <3> QED
      BY <3>2, <3>9 DEF q
  <2>7. CASE (LogoutStore \/ CloseGuest) /\ ~Crash
    <3>0. ~LogoutCut /\ \A d \in Clients : ~LoginCut(d) /\ ~LoginAdd(d)
      <4>1. request' = request /\ hub.pc \in {"store", "close"} /\ ~Crash
        BY <2>7 DEF LogoutStore, CloseGuest
      <4>2. ~LogoutCut
        BY <4>1 DEF LogoutCut
      <4>3. ASSUME NEW d \in Clients, LoginCut(d) \/ LoginAdd(d)
            PROVE  FALSE
        BY <1>0, <4>1, <4>3, LoginMoves
      <4> QED
        BY <4>2, <4>3
    <3>1. Same(u)
      BY <1>2, <1>4, <2>1, <3>0, UserSame
    <3>2. ASSUME NEW p \in Shown(arrays, Lists, Work, u)
          PROVE  ClosedIs(u, p)'
      BY <1>0, <1>2, <1>l, <2>1, <2>7, CloseClosed
    <3> QED
      BY <3>1, <3>2 DEF Same
  <2>8. CASE ~Crash /\ ~LogoutCut /\ ~LogoutStore /\ ~CloseGuest
    <3>1. HubKeeps("store") /\ \A c \in Clients : client'[c].closed = client[c].closed
      BY <1>0, <2>8, LogoutStays, ClosedStay
    <3>2. CASE \E c \in Clients : (LoginCut(c) \/ LoginAdd(c)) /\ request[c].user = u
      BY <2>5, <2>6, <2>8, <3>1, <3>2
    <3>3. CASE \A c \in Clients : LoginCut(c) \/ LoginAdd(c) => request[c].user # u
      <4>1. Same(u)
        BY <1>2, <1>4, <2>1, <2>8, <3>3, UserSame
      <4> QED
        BY <2>2, <3>1, <4>1 DEF Same
    <3> QED
      BY <3>2, <3>3
  <2> QED
    BY <2>3, <2>4, <2>7, <2>8
<1> QED
  BY <1>3, <1>4

\* What a list of a user holds and what it is going to hold differ in the
\* client that is added, or in the nil client that is left behind.
LEMMA UserShown ==
    ASSUME NEW u \in 1..Len(users), ListsKept, Well(u)
    PROVE  \E p \in Shown(arrays, Lists, Work, u) :
              /\ p \in Seq(Clients)
              /\ \/ Listed(Of(u)) = p
                 \/ Listed(Of(u)) = Append(p, None)
                 \/ \E c \in Clients : /\ request[c].pc = "added"
                                       /\ p = Append(Listed(Of(u)), c)
<1>0. /\ Typed /\ Ranged /\ Alone(Work, u) /\ Steady(arrays, Lists, Work, u)
      /\ u \in DOMAIN Lists /\ Lists[u] = Of(u) /\ u # 0
  <2>1. Typed /\ Ranged
    BY DEF ListsKept
  <2> QED
    BY <2>1, GuestsList DEF Well
<1>1. CASE ~\E g \in Goroutines : PendsAt(Work, g, u)
  <2>1. Listed(Of(u)) \in Shown(arrays, Lists, Work, u)
    BY <1>0, <1>1 DEF Shown, Listed
  <2> QED
    BY <1>0, <2>1 DEF Steady
<1>2. ASSUME NEW g \in Goroutines, PendsAt(Work, g, u)
      PROVE  \E p \in Shown(arrays, Lists, Work, u) :
              /\ p \in Seq(Clients)
              /\ \/ Listed(Of(u)) = p
                 \/ Listed(Of(u)) = Append(p, None)
                 \/ \E c \in Clients : /\ request[c].pc = "added"
                                       /\ p = Append(Listed(Of(u)), c)
  <2> DEFINE p == Contents(arrays, Work[g].slice)
  <2>1. p \in Shown(arrays, Lists, Work, u) /\ p \in Seq(Clients)
    BY <1>0, <1>2 DEF Shown, Steady
  <2>2. CASE Work[g].op = "removes"
    <3>1. Listed(Of(u)) = Append(p, None)
      BY <1>0, <1>2, <2>2 DEF PendsAt, Steady, Listed
    <3> QED
      BY <2>1, <3>1
  <2>3. CASE Work[g].op = "adds"
    <3>1. p = Append(Listed(Of(u)), Work[g].who)
      BY <1>0, <1>2, <2>3 DEF PendsAt, Steady, Listed
    <3>2. g \in Clients
      <4>1. CASE g = None
        <5>1. hub.pc = "appended"
          BY <2>3, <4>1, WorkFields DEF HubOp
        <5>2. Work[g].list = 0
          BY <4>1, <5>1, WorkFields DEF HubList
        <5> QED
          BY <1>0, <1>2, <5>2 DEF PendsAt
      <4> QED
        BY <4>1 DEF Goroutines
    <3>3. request[g].pc = "added"
      BY <2>3, <3>2, WorkFields DEF RequestOp
    <3>4. Work[g].who = g
      <4>1. Work[g] = RequestWork(g)
        BY <3>2, WorkIs
      <4> QED
        BY <3>3, <4>1 DEF RequestWork
    <3> QED
      BY <2>1, <3>1, <3>2, <3>3, <3>4
  <2> QED
    BY <1>2, <2>2, <2>3 DEF PendsAt, Pending
<1> QED
  BY <1>1, <1>2

\* A client that is not being added is in both or in neither.
LEMMA UserListedIn ==
    ASSUME NEW L, L \in Seq(Goroutines), NEW p, p \in Seq(Clients),
           NEW d, d \in Clients,
           \/ L = p
           \/ L = Append(p, None)
           \/ \E c \in Clients : c # d /\ p = Append(L, c)
    PROVE  In(d, L) <=> In(d, p)
<1>1. CASE L = p
  BY <1>1
<1>2. CASE L = Append(p, None)
  <2>1. p \in Seq(Goroutines) /\ None \in Goroutines /\ d # None
    BY NoneAssumption DEF Goroutines
  <2> QED
    BY <1>2, <2>1, AppendIn
<1>3. ASSUME NEW c \in Clients, c # d, p = Append(L, c)
      PROVE  In(d, L) <=> In(d, p)
  BY <1>3, AppendIn DEF Goroutines
<1> QED
  BY <1>1, <1>2, <1>3

LEMMA NotIn ==
    ASSUME NEW L, NEW c, ~In(c, L), L \in Seq(Goroutines)
    PROVE  Cardinality({i \in DOMAIN L : L[i] = c}) = 0
<1>1. {i \in DOMAIN L : L[i] = c} = {}
  BY DEF In
<1> QED
  BY <1>1, FS_EmptySet

LEMMA LeavesInit == Init => LeavesInv /\ ClosedInv /\ None \notin seen.kicked
<1> SUFFICES ASSUME Init PROVE LeavesInv /\ ClosedInv /\ None \notin seen.kicked
  OBVIOUS
<1>1. LeavesInv
  BY DEF Init, Resting, LeavesInv
<1>2. Typed /\ users = <<>>
  BY TypedInit DEF Init
<1>3. ClosedInv
  BY <1>2 DEF ClosedInv, Undisturbed, Calm, Lists
<1> QED
  BY <1>1, <1>3 DEF Init

UsersKept == /\ ListsKept /\ GuestInv /\ Seeing /\ UserInv /\ LeavesInv /\ ClosedInv
             /\ None \notin seen.kicked

LEMMA UsersKeptInit == Init => UsersKept
  BY ListsKeptInit, GuestInvInit, SeeingInit, UserInvInit, LeavesInit DEF UsersKept

LEMMA UsersKeptStep ==
    ASSUME UsersKept, Next
    PROVE  UsersKept'
<1>1. ListsKept' /\ SeenTyped
  BY ListsKeptStep DEF UsersKept, ListsKept
<1>2. GuestInv'
  BY GuestInvStep DEF UsersKept
<1>3. Seeing'
  BY <1>1, SeeingStep
<1>4. UserInv'
  BY UserInvStep DEF UsersKept
<1>5. LeavesInv'
  BY <1>3, LeavesInvStep DEF UsersKept
<1>6. ClosedInv'
  BY ClosedInvStep DEF UsersKept
<1>7. None \notin seen'.kicked
  BY <1>1, SeenStep DEF UsersKept, Now
<1> QED
  BY <1>1, <1>2, <1>3, <1>4, <1>5, <1>6, <1>7 DEF UsersKept

LEMMA UsersKeptStutters ==
    ASSUME UsersKept, UNCHANGED vars
    PROVE  UsersKept'
<1>1. \A u : Shown(arrays, Lists, Work, u)' = Shown(arrays, Lists, Work, u)
  BY WorkStutters DEF vars
<1>2. ListsKept' /\ GuestInv'
  BY ListsKeptStutters, GuestInvStutters DEF UsersKept
<1>3. Seeing' /\ LeavesInv' /\ None \notin seen'.kicked
  BY DEF UsersKept, vars, Seeing, Now, LeavesInv, AtGuests, AtUser, Removed, InLogin
<1>4. \A x, u : Undisturbed(x, u)' => Undisturbed(x, u)
  BY WorkStutters DEF vars, Undisturbed, Calm
<1>5. UserInv'
  BY <1>1, <1>4 DEF UsersKept, vars, UserInv, UserIs, UserLists, AddsNew
<1>6. ClosedInv'
  BY <1>1, <1>4 DEF UsersKept, vars, ClosedInv, ClosedIs
<1> QED
  BY <1>2, <1>3, <1>5, <1>6 DEF UsersKept

LEMMA UsersAreKept == Spec => []UsersKept
<1>1. UsersKept /\ [Next]_vars => UsersKept'
  BY UsersKeptStep, UsersKeptStutters
<1> QED
  BY <1>1, UsersKeptInit, PTL DEF Spec

LEMMA ClosedFollows ==
    ASSUME UsersKept
    PROVE  ClosedIsUnlisted
<1> SUFFICES ASSUME NEW c \in Clients, client[c].closed, Quiet(c), c \notin seen.late,
                    NEW u \in 0..Len(users), u \notin seen.lists,
                    \A d \in Clients : <<d, u>> \notin seen.moved
             PROVE  Occurrences(c, IF u = 0 THEN guests ELSE Of(u)) = 0
  BY DEF ClosedIsUnlisted
<1>0. Typed /\ RealWorld /\ ListsInv /\ ListsKept /\ Len(users) \in Nat
  BY DEF UsersKept, ListsKept, ListsInv, Typed
<1>1. CASE u = 0
  BY <1>1, GuestsFollow DEF UsersKept, GuestsAreTheGuests
<1>2. CASE u # 0
  <2>1. u \in 1..Len(users) /\ u \in DOMAIN Lists
    BY <1>0, <1>2, GuestsList
  <2>2. Well(u) /\ Undisturbed(None, u)
    BY <1>0, <1>2, <2>1 DEF ListsInv, Calm, Undisturbed, UsersKept
  <2>3. PICK p \in Shown(arrays, Lists, Work, u) :
              /\ p \in Seq(Clients)
              /\ \/ Listed(Of(u)) = p
                 \/ Listed(Of(u)) = Append(p, None)
                 \/ \E d \in Clients : /\ request[d].pc = "added"
                                       /\ p = Append(Listed(Of(u)), d)
    BY <1>0, <2>1, <2>2, UserShown
  <2>4. request[c].pc = "idle"
    BY DEF Quiet, InLogin
  <2>5. Listed(Of(u)) \in Seq(Goroutines)
    BY <1>0, <2>1, UserFacts
  <2>6. In(c, Listed(Of(u))) <=> In(c, p)
    BY <2>3, <2>4, <2>5, UserListedIn
  <2>7. ~In(c, p)
    BY <2>2, <2>3 DEF UsersKept, ClosedInv, ClosedIs
  <2> QED
    BY <1>2, <2>5, <2>6, <2>7, NotIn DEF Occurrences
<1> QED
  BY <1>1, <1>2

\* A closed client is in none of the lists, unless it left while a login of its
\* own was running, two goroutines were at the list, or somebody of that user
\* has logged in again under another account.
THEOREM ClosedCorrect == Spec => []ClosedIsUnlisted
<1>1. UsersKept => ClosedIsUnlisted
  BY ClosedFollows
<1> QED
  BY <1>1, UsersAreKept, PTL

-----------------------------------------------------------------------------
(* A login is found.                                                         *)

\* What the goroutine of a Request goes on to, and keeps.
LoginKeeps(c) ==
    /\ request'[c].uid = request[c].uid /\ request'[c].user = request[c].user
    /\ request'[c].app = request[c].app /\ request'[c].kick = request[c].kick
LoginGoes(c) ==
    \/ request'[c] = request[c]
    \/ UserLogin(c) /\ request[c].pc = "idle" /\ request'[c] = Begun(c)
    \/ AppLogin(c) /\ ~Crash /\ request[c].pc = "scan" /\ request'[c] = Found(c)
    \/ request[c].pc \in {"index", "deleted"} /\ request'[c].pc = "idle"
    \/ /\ LoginKeeps(c)
       /\ \/ LoginCut(c) /\ ~Crash /\ request[c].pc = "cut" /\ request'[c].pc = "cutted"
          \/ LoginAdd(c) /\ request[c].pc = "add" /\ request'[c].pc = "added"
          \/ request[c].pc = "cutted" /\ request'[c].pc = "add"
          \/ request[c].pc = "added" /\ request'[c].pc \in {"map", "kick"}
          \/ request[c].pc = "kick" /\ request'[c].pc = "map"
          \/ StoreUser(c) /\ request[c].pc = "map" /\ request'[c].pc = "index"
          \/ request[c].pc = "index" /\ request'[c].pc = "delete"
          \/ request[c].pc = "delete" /\ request'[c].pc = "deleted"

LEMMA RequestSet ==
    ASSUME Typed, NEW c \in Clients, NEW r, request' = [request EXCEPT ![c] = r]
    PROVE  request'[c] = r /\ \A d \in Clients : d # c => request'[d] = request[d]
  BY DEF Typed

LEMMA RequestGoesTo ==
    ASSUME Typed, NEW c \in Clients, NEW pc, request' = [request EXCEPT ![c].pc = pc]
    PROVE  /\ request'[c].pc = pc /\ LoginKeeps(c)
           /\ \A d \in Clients : d # c => request'[d] = request[d]
<1>1. request \in [Clients -> RequestType]
  BY DEF Typed
<1> QED
  BY <1>1 DEF LoginKeeps, RequestType

LEMMA RequestMakes ==
    ASSUME Typed, NEW c \in Clients, NEW pc, NEW t,
           request' = [request EXCEPT ![c].pc = pc, ![c].slice = t]
    PROVE  /\ request'[c].pc = pc /\ LoginKeeps(c)
           /\ \A d \in Clients : d # c => request'[d] = request[d]
<1>1. request \in [Clients -> RequestType]
  BY DEF Typed
<1> QED
  BY <1>1 DEF LoginKeeps, RequestType

LEMMA RequestAims ==
    ASSUME Typed, NEW c \in Clients, NEW i,
           request' = [request EXCEPT ![c] = IF i = 0 THEN Idle
                                       ELSE [@ EXCEPT !.pc = "delete", !.index = i]]
    PROVE  /\ \/ request'[c].pc = "idle"
              \/ request'[c].pc = "delete" /\ LoginKeeps(c)
           /\ \A d \in Clients : d # c => request'[d] = request[d]
<1>1. request \in [Clients -> RequestType]
  BY DEF Typed
<1> QED
  BY <1>1 DEF LoginKeeps, RequestType, Idle

LEMMA RequestGoes ==
    ASSUME Typed, NEW c \in Clients, RequestStep(c)
    PROVE  /\ LoginGoes(c)
           /\ \A d \in Clients : d # c => request'[d] = request[d]
<1>0. CASE Crash
  BY <1>0 DEF Crash, LoginGoes
<1>1. CASE UserLogin(c)
  <2>1. request' = [request EXCEPT ![c] = Begun(c)] /\ request[c].pc = "idle"
    BY <1>1, UserLoginDoes
  <2> HIDE DEF Begun
  <2> QED
    BY <1>1, <2>1, RequestSet DEF LoginGoes
<1>2. CASE AppLogin(c) /\ ~Crash
  <2>1. request' = [request EXCEPT ![c] = Found(c)] /\ request[c].pc = "scan"
    BY <1>2, AppLoginDoes
  <2> HIDE DEF Found
  <2> QED
    BY <1>2, <2>1, RequestSet DEF LoginGoes
<1>3. CASE LoginCut(c) /\ ~Crash
  <2> DEFINE t == [Of(request[c].user) EXCEPT !.len = @ - 1]
  <2>1. request[c].pc = "cut" /\ request' = [request EXCEPT ![c].pc = "cutted", ![c].slice = t]
    BY <1>3 DEF LoginCut
  <2> HIDE DEF t
  <2> QED
    BY <1>3, <2>1, RequestMakes DEF LoginGoes
<1>4. CASE LoginAdd(c)
  <2> DEFINE t == AppendTo(arrays, Of(request[c].user), <<c>>)
  <2>1. request[c].pc = "add" /\ request' = [request EXCEPT ![c].pc = "added", ![c].slice = t]
    BY <1>4 DEF LoginAdd
  <2> HIDE DEF t
  <2> QED
    BY <1>4, <2>1, RequestMakes DEF LoginGoes
<1>5. CASE LoginStore(c)
  <2> DEFINE pc == IF request[c].pc = "cutted" THEN "add"
                   ELSE IF request[c].kick = None THEN "map" ELSE "kick"
  <2>1. request[c].pc \in {"cutted", "added"} /\ request' = [request EXCEPT ![c].pc = pc]
    BY <1>5 DEF LoginStore, Goto
  <2>2. /\ request[c].pc = "cutted" => pc = "add"
        /\ request[c].pc = "added" => pc \in {"map", "kick"}
    OBVIOUS
  <2> HIDE DEF pc
  <2> QED
    BY <2>1, <2>2, RequestGoesTo DEF LoginGoes
<1>6. CASE Kick(c)
  <2>1. request[c].pc = "kick" /\ request' = [request EXCEPT ![c].pc = "map"]
    BY <1>6 DEF Kick, Goto
  <2> QED
    BY <2>1, RequestGoesTo DEF LoginGoes
<1>7. CASE StoreUser(c)
  <2>1. request[c].pc = "map" /\ request' = [request EXCEPT ![c].pc = "index"]
    BY <1>7 DEF StoreUser, Goto
  <2> QED
    BY <1>7, <2>1, RequestGoesTo DEF LoginGoes
<1>8. CASE FindGuest(c)
  <2> DEFINE i == GuestIndex(c)
  <2>1. /\ request[c].pc = "index"
        /\ request' = [request EXCEPT ![c] = IF i = 0 THEN Idle
                                       ELSE [@ EXCEPT !.pc = "delete", !.index = i]]
    BY <1>8 DEF FindGuest
  <2> HIDE DEF i
  <2> QED
    BY <2>1, RequestAims DEF LoginGoes
<1>9. CASE DeleteGuest(c) /\ ~Crash
  <2> DEFINE t == [guests EXCEPT !.len = @ - 1]
  <2>1. request[c].pc = "delete" /\ request' = [request EXCEPT ![c].pc = "deleted", ![c].slice = t]
    BY <1>9 DEF DeleteGuest
  <2> HIDE DEF t
  <2> QED
    BY <2>1, RequestMakes DEF LoginGoes
<1>10. CASE StoreDeleted(c)
  <2>1. request[c].pc = "deleted" /\ request' = [request EXCEPT ![c] = Idle]
    BY <1>10 DEF StoreDeleted
  <2>2. Idle.pc = "idle"
    BY DEF Idle
  <2> HIDE DEF Idle
  <2> QED
    BY <2>1, <2>2, RequestSet DEF LoginGoes
<1> QED
  BY <1>0, <1>1, <1>2, <1>3, <1>4, <1>5, <1>6, <1>7, <1>8, <1>9, <1>10 DEF RequestStep

\* One Request at most goes on in a step.
LEMMA LoginsGo ==
    ASSUME Typed, Next
    PROVE  \A c \in Clients : LoginGoes(c)
<1> TAKE c \in Clients
<1>1. CASE request' = request
  BY <1>1 DEF LoginGoes
<1>2. ASSUME NEW d \in Clients, RequestStep(d)
      PROVE  LoginGoes(c)
  <2>1. CASE d = c
    BY <1>2, <2>1, RequestGoes
  <2>2. CASE d # c
    BY <1>2, <2>2, RequestGoes DEF LoginGoes
  <2> QED
    BY <2>1, <2>2
<1>3. HubStep \/ GuardStep \/ CastStep => request' = request
  BY Zenon DEF HubStep, GuardStep, CastStep, Connect, Disconnect,
       AppendGuest, StoreGuests, AppLogout, LogoutCut, LogoutStore, CloseGuest, HubFindGuest,
       HubDeleteGuest, GuardFinds, GuardDeletes, Broadcast, SendNext, EndOfSlice, RangeUsers, Crash
<1> QED
  BY <1>1, <1>2, <1>3 DEF Next

\* c has its user u, and its login has added it; nobody has taken it out.
Settled(c, u) ==
    /\ u # 0 /\ client[c].user = u /\ u \notin seen.lists /\ c \notin seen.kicked
    /\ ~client[c].closed /\ ~(hub.pc = "store" /\ hub.client = c)
    /\ request[c].pc \notin {"cut", "cutted", "add"}

LEMMA ClosedGrow ==
    ASSUME Typed, Ranged, Next, NEW c \in Clients, client[c].closed
    PROVE  client'[c].closed
<1>1. CASE LogoutStore \/ CloseGuest
  <2>1. client' = [client EXCEPT ![hub.client].closed = TRUE]
    BY <1>1 DEF LogoutStore, CloseGuest
  <2> QED
    BY <2>1 DEF Typed, ClientType
<1>2. CASE ~LogoutStore /\ ~CloseGuest
  BY <1>2, ClosedStay
<1> QED
  BY <1>1, <1>2

\* The hub stores what it has cut before it does anything else.
LEMMA HubAtStore ==
    ASSUME Typed, Ranged, Next, hub.pc = "store"
    PROVE  hub' = hub \/ (LogoutStore /\ client'[hub.client].closed)
<1>1. CASE HubStep
  <2>1. hub' = hub \/ LogoutStore
    BY <1>1 DEF HubStep, Connect, Disconnect, AppendGuest, StoreGuests, AppLogout,
                LogoutCut, CloseGuest, HubFindGuest, HubDeleteGuest, Crash
  <2>2. LogoutStore => client'[hub.client].closed
    <3>1. LogoutStore => client' = [client EXCEPT ![hub.client].closed = TRUE]
      BY DEF LogoutStore
    <3>2. hub.client \in Clients
      BY DEF Ranged, HubRanged
    <3> QED
      BY <3>1, <3>2 DEF Typed, ClientType
  <2> QED
    BY <2>1, <2>2
<1>2. CASE ~HubStep
  BY <1>2, Zenon DEF Next, RequestStep, GuardStep, CastStep, UserLogin, AppLogin, LoginCut, LoginAdd,
              LoginStore, Kick, StoreUser, FindGuest, DeleteGuest, StoreDeleted, GuardFinds,
              GuardDeletes, Broadcast, SendNext, EndOfSlice, RangeUsers, Crash
<1> QED
  BY <1>1, <1>2

\* The account of a client changes in its own appLogin.
LEMMA OwnAccount ==
    ASSUME ListsKept, Next, NEW c \in Clients, ~AppLogin(c) \/ Crash
    PROVE  client'[c].user = client[c].user /\ client'[c].app = client[c].app
<1>0. Typed /\ Ranged /\ RealWorld
  BY DEF ListsKept, ListsInv
<1>1. CASE Crash
  BY <1>1 DEF Crash
<1>2. CASE \A d \in Clients : ~AppLogin(d)
  BY <1>0, <1>2, AccountsMayStay DEF AccountsStay
<1>3. ASSUME NEW d \in Clients, AppLogin(d), d # c
      PROVE  client'[c].user = client[c].user /\ client'[c].app = client[c].app
  BY <1>0, <1>3, AppLoginAccounts
<1> QED
  BY <1>1, <1>2, <1>3

\* Who is settled was so, or is at the step of its login that settles it.
LEMMA SettledBefore ==
    ASSUME ListsKept, Next, NEW c \in Clients, NEW u, Settled(c, u)'
    PROVE  /\ u \in DOMAIN Lists /\ u \in 1..Len(users) /\ Well(u) /\ Alone(Work', u)
           /\ Calm(u) /\ Calm(u)' /\ c \notin seen.kicked
           /\ \/ Settled(c, u)
              \/ AppLogin(c) /\ ~Crash /\ request[c].user = u
              \/ LoginAdd(c) /\ request[c].pc = "add" /\ request[c].user = u
<1>0. /\ Typed /\ Ranged /\ SeenTyped /\ ListsInv /\ RealWorld /\ Typed' /\ Ranged'
  BY ListsKeptStep DEF ListsKept, ListsInv
<1>1. /\ u # 0 /\ client'[c].user = u /\ u \notin seen'.lists /\ c \notin seen'.kicked
      /\ ~client'[c].closed /\ ~(hub'.pc = "store" /\ hub'.client = c)
      /\ request'[c].pc \notin {"cut", "cutted", "add"}
  BY DEF Settled
<1>2. /\ u \in 0..Len(users)
      /\ \/ AppLogin(c) /\ ~Crash /\ request[c].user = u
         \/ (~AppLogin(c) \/ Crash) /\ client[c].user = u
  <2>1. CASE ~AppLogin(c) \/ Crash
    BY <1>0, <1>1, <2>1, OwnAccount DEF Ranged, ClientsRanged
  <2>2. CASE AppLogin(c) /\ ~Crash
    <3>1. /\ client' = [client EXCEPT ![c].user = request[c].user, ![c].app = request[c].app]
          /\ request[c].pc = "scan"
      BY <1>0, <2>2, AppLoginDoes
    <3>2. client'[c].user = request[c].user
      BY <1>0, <3>1 DEF Typed, ClientType
    <3>3. request[c].user \in 1..Len(users) /\ Len(users) \in Nat
      BY <1>0, <3>1 DEF Ranged, RequestsRanged, Typed
    <3> QED
      BY <1>1, <2>2, <3>2, <3>3
  <2> QED
    BY <2>1, <2>2
<1>3. u \in 1..Len(users) /\ u \in DOMAIN Lists
  <2>1. Len(users) \in Nat
    BY <1>0 DEF Typed
  <2> QED
    BY <1>0, <1>1, <1>2, <2>1, GuestsList
<1>4. u \in DOMAIN Lists' /\ Calm(u)'
  <2>1. client'[c].user \in 0..Len(users')
    BY <1>0 DEF Ranged, ClientsRanged
  <2> QED
    BY <1>1, <2>1 DEF Calm, Lists
<1>5. Calm(u) /\ Well(u) /\ Alone(Work', u) /\ c \notin seen.kicked
  <2>1. u \notin seen.lists /\ Alone(Work', u)
    BY <1>0, <1>4, CalmBefore
  <2>2. c \notin seen.kicked
    BY <1>0, <1>1, SeenStep
  <2> QED
    BY <1>0, <1>3, <2>1, <2>2 DEF ListsInv, Calm
<1>6. ASSUME client[c].user = u, ~AppLogin(c) \/ Crash
      PROVE  \/ Settled(c, u)
             \/ LoginAdd(c) /\ request[c].pc = "add" /\ request[c].user = u
  <2>1. ~client[c].closed
    BY <1>0, <1>1, ClosedGrow
  <2>2. ~(hub.pc = "store" /\ hub.client = c)
    BY <1>0, <1>1, HubAtStore
  <2>3. CASE request[c].pc \notin {"cut", "cutted", "add"}
    BY <1>1, <1>5, <1>6, <2>1, <2>2, <2>3 DEF Settled, Calm
  <2>4. CASE request[c].pc \in {"cut", "cutted", "add"}
    <3>1. LoginGoes(c)
      BY <1>0, LoginsGo
    <3>2. LoginAdd(c) /\ request[c].pc = "add"
      BY <1>1, <2>4, <3>1 DEF LoginGoes
    <3>3. request[c].user = u
      BY <1>0, <1>6, <3>2 DEF Ranged, RequestsRanged
    <3> QED
      BY <3>2, <3>3
  <2> QED
    BY <2>3, <2>4
<1> QED
  BY <1>2, <1>3, <1>4, <1>5, <1>6

\* A client that is settled is listed.
ListedInv ==
    \A c \in Clients : \A u : Settled(c, u) =>
        \A p \in Shown(arrays, Lists, Work, u) : In(c, p)

\* What the list of a user is going to hold is changed by four kinds of steps.
LEMMA UserListSteps ==
    ASSUME ListsKept, Next, NEW u, u \in DOMAIN Lists, u # 0, Well(u)
    PROVE  \/ Same(u)
           \/ /\ LogoutCut /\ ~Crash /\ hub.user = u /\ hub'.pc = "store"
              /\ hub'.client = hub.client /\ request' = request /\ client' = client
              /\ \E p \in Shown(arrays, Lists, Work, u) : \E i \in 1..Len(p) :
                   /\ p[i] = hub.client
                   /\ Shown(arrays, Lists, Work, u)' = {WithoutAt(p, i)}
           \/ \E d \in Clients :
                /\ LoginCut(d) /\ ~Crash /\ request[d].user = u /\ request[d].pc = "cut"
                /\ \E p \in Shown(arrays, Lists, Work, u) : \E i \in 1..Len(p) :
                     /\ p[i] = request[d].kick
                     /\ Shown(arrays, Lists, Work, u)' = {WithoutAt(p, i)}
           \/ \E d \in Clients :
                /\ LoginAdd(d) /\ request[d].user = u /\ request[d].pc = "add"
                /\ \E p \in Shown(arrays, Lists, Work, u) :
                     Shown(arrays, Lists, Work, u)' = {Append(p, d)}
<1>0. /\ Typed /\ Ranged /\ SeenTyped /\ RealWorld /\ ListsInv /\ None \in Goroutines
  BY DEF ListsKept, ListsInv, Goroutines
<1>1. CASE Crash
  <2>1. Same(u)
    BY <1>0, <1>1, CrashStill, StillKeeps
  <2> QED
    BY <2>1
<1>2. CASE LogoutCut /\ ~Crash /\ hub.user = u
  <2>1. /\ hub'.pc = "store" /\ hub'.user = hub.user /\ hub'.client = hub.client
        /\ hub.client \in Clients /\ client' = client /\ Work[None].who = hub.client
    BY <1>0, <1>2, LogoutCutDoes
  <2>2. Deleting(None, u, hub.index)
    BY <1>0, <1>2, LogoutCutMoves
  <2>3. PICK p \in Shown(arrays, Lists, Work, u) :
          /\ hub.index \in 1..Len(p) /\ p[hub.index] = hub.client
          /\ Shown(arrays, Lists, Work, u)' = {WithoutAt(p, hub.index)}
    BY <1>0, <2>1, <2>2, DeletingKeeps
  <2>4. request' = request
    BY <1>2 DEF LogoutCut
  <2> QED
    BY <1>2, <2>1, <2>3, <2>4
<1>3. ASSUME NEW d \in Clients, LoginCut(d), ~Crash, request[d].user = u
      PROVE  /\ request[d].pc = "cut"
             /\ \E p \in Shown(arrays, Lists, Work, u) : \E i \in 1..Len(p) :
                  /\ p[i] = request[d].kick
                  /\ Shown(arrays, Lists, Work, u)' = {WithoutAt(p, i)}
  <2>1. Deleting(d, u, request[d].index) /\ d \in Goroutines
    BY <1>0, <1>3, LoginCutMoves DEF Goroutines
  <2>2. request[d].pc = "cut" /\ Work[d] = RequestWork(d)
    BY <1>3, WorkIs DEF LoginCut
  <2>3. Work[d].who = request[d].kick
    BY <2>2 DEF RequestWork
  <2>4. \E p \in Shown(arrays, Lists, Work, u) :
          /\ request[d].index \in 1..Len(p) /\ p[request[d].index] = request[d].kick
          /\ Shown(arrays, Lists, Work, u)' = {WithoutAt(p, request[d].index)}
    BY <1>0, <2>1, <2>3, DeletingKeeps
  <2> QED
    BY <2>2, <2>4
<1>4. ASSUME NEW d \in Clients, LoginAdd(d), request[d].user = u
      PROVE  /\ request[d].pc = "add"
             /\ \E p \in Shown(arrays, Lists, Work, u) :
                  Shown(arrays, Lists, Work, u)' = {Append(p, d)}
  <2>1. Appending(d, u, d) /\ d \in Goroutines
    BY <1>0, <1>4, LoginAddMoves DEF Goroutines
  <2>2. request[d].pc = "add"
    BY <1>4 DEF LoginAdd
  <2> QED
    BY <1>0, <2>1, <2>2, AppendingKeeps
<1>5. CASE /\ ~Crash /\ ~(LogoutCut /\ hub.user = u)
           /\ \A d \in Clients : /\ LoginCut(d) => request[d].user # u
                                 /\ LoginAdd(d) => request[d].user # u
  BY <1>5, UserSame
<1> QED
  BY <1>1, <1>2, <1>3, <1>4, <1>5

\* The client that the search of appLogin finds itself.
LEMMA FoundItself ==
    ASSUME ListsKept, NEW c \in Clients, AppLogin(c), ~Crash, request'[c].pc \notin {"add", "cut"},
           NEW u, request[c].user = u, Alone(Work, u),
           NEW p \in Shown(arrays, Lists, Work, u)
    PROVE  \E i \in 1..Len(p) :
             /\ p[i] = c
             /\ \A j \in 1..i - 1 : p[j] \notin ByApp(request[c].app)
<1>0. Typed /\ Ranged /\ RealWorld
  BY DEF ListsKept, ListsInv
<1> DEFINE i == LoginIndex(request[c].app, u)
           q == Listed(Of(u))
<1>1. request[c].pc = "scan" /\ request'[c] = Found(c)
  <2>1. request[c].pc = "scan" /\ request' = [request EXCEPT ![c] = Found(c)]
    BY <1>0, AppLoginDoes
  <2> HIDE DEF Found
  <2> QED
    BY <1>0, <2>1, RequestSet
<1>2. u \in 1..Len(users) /\ request[c] \in RequestType
  BY <1>0, <1>1 DEF Ranged, RequestsRanged, Typed
<1>3. Finds(q, ByApp(request[c].app), i) /\ i \in Nat
  BY <1>0, <1>2, LoginFinds
<1>4. p = q
  <2>1. Work[c].op = "on" /\ Work[c].list = u
    BY <1>1, WorkFields DEF RequestOp, RequestList
  <2>2. c \in Goroutines /\ WorksAt(Work, c, u) /\ Work[c].op \notin Pending
    BY <2>1 DEF Goroutines, WorksAt, Pending
  <2>3. p = Contents(arrays, Lists[u])
    BY <2>2, AloneShows
  <2> QED
    BY <1>0, <1>2, <2>3, GuestsList DEF Listed
<1>5. i # 0 /\ q[i] = c
  <2>1. Found(c).pc = IF i = 0 THEN "add" ELSE IF q[i] = c THEN "map" ELSE "cut"
    <3> DEFINE k == IF i = 0 \/ q[i] = c THEN None ELSE q[i]
               pc == IF i = 0 THEN "add" ELSE IF q[i] = c THEN "map" ELSE "cut"
    <3>1. Found(c) = [request[c] EXCEPT !.index = i, !.kick = k, !.pc = pc]
      BY DEF Found
    <3> HIDE DEF i, k, pc, q
    <3>2. Found(c).pc = pc
      BY <1>2, <3>1 DEF RequestType
    <3> QED
      BY <3>2 DEF pc
  <2> HIDE DEF i, q
  <2> QED
    BY <1>1, <2>1
<1> HIDE DEF i, q
<1>6. i \in 1..Len(p) /\ p[i] = c /\ \A j \in 1..i - 1 : p[j] \notin ByApp(request[c].app)
  BY <1>3, <1>4, <1>5 DEF Finds
<1> QED
  BY <1>6

LEMMA ListedInvStep ==
    ASSUME ListsKept, Seeing, ListedInv, Next
    PROVE  ListedInv'
<1>1. SUFFICES ASSUME NEW c \in Clients, NEW u, Settled(c, u)'
               PROVE  \A q \in Shown(arrays, Lists, Work, u)' : In(c, q)
  BY DEF ListedInv
<1>2. /\ u \in DOMAIN Lists /\ u \in 1..Len(users) /\ Well(u) /\ Alone(Work, u)
      /\ c \notin seen.kicked /\ u # 0
      /\ \/ Settled(c, u)
         \/ AppLogin(c) /\ ~Crash /\ request[c].user = u
         \/ LoginAdd(c) /\ request[c].pc = "add" /\ request[c].user = u
  BY <1>1, SettledBefore DEF Well, Settled
<1>3. \A p \in Shown(arrays, Lists, Work, u) : p \in Seq(Clients)
  BY <1>2 DEF Well, Steady
<1>4. CASE Settled(c, u)
  <2>1. \A p \in Shown(arrays, Lists, Work, u) : In(c, p)
    BY <1>4 DEF ListedInv
  <2>2. CASE Same(u)
    BY <2>1, <2>2 DEF Same
  <2>3. ASSUME NEW p \in Shown(arrays, Lists, Work, u), NEW i \in 1..Len(p), p[i] # c,
               Shown(arrays, Lists, Work, u)' = {WithoutAt(p, i)}
        PROVE  \A q \in Shown(arrays, Lists, Work, u)' : In(c, q)
    BY <1>3, <2>1, <2>3, WithoutIn
  <2>5. ASSUME NEW d \in Clients,
               NEW p \in Shown(arrays, Lists, Work, u), NEW i \in 1..Len(p),
               p[i] = request[d].kick,
               Shown(arrays, Lists, Work, u)' = {WithoutAt(p, i)}
        PROVE  \A q \in Shown(arrays, Lists, Work, u)' : In(c, q)
    <3>1. request[d].kick # c
      BY <1>2, KickedSeen, NoneAssumption
    <3> QED
      BY <2>3, <2>5, <3>1
  <2>6. ASSUME NEW d \in Clients, NEW p \in Shown(arrays, Lists, Work, u),
               Shown(arrays, Lists, Work, u)' = {Append(p, d)}
        PROVE  \A q \in Shown(arrays, Lists, Work, u)' : In(c, q)
    <3>1. p \in Seq(Clients) /\ In(c, p)
      BY <1>3, <2>1
    <3>2. In(c, Append(p, d))
      BY <3>1, AppendIn
    <3> QED
      BY <2>6, <3>2
  <2>7. ASSUME NEW p \in Shown(arrays, Lists, Work, u), NEW i \in 1..Len(p), p[i] = hub.client,
               hub'.pc = "store", hub'.client = hub.client,
               Shown(arrays, Lists, Work, u)' = {WithoutAt(p, i)}
        PROVE  \A q \in Shown(arrays, Lists, Work, u)' : In(c, q)
    <3>1. hub.client # c
      BY <1>1, <2>7 DEF Settled
    <3> QED
      BY <2>3, <2>7, <3>1
  <2> QED
    BY <1>2, <2>2, <2>5, <2>6, <2>7, UserListSteps
<1>5. CASE AppLogin(c) /\ ~Crash /\ request[c].user = u
  <2>1. request'[c].pc \notin {"add", "cut"}
    BY <1>1 DEF Settled
  <2>2. \A p \in Shown(arrays, Lists, Work, u) : In(c, p)
    BY <1>2, <1>5, <2>1, FoundItself DEF In
  <2>3. Same(u)
    <3>1. ListsInv /\ Typed /\ Ranged /\ RealWorld
      BY DEF ListsKept, ListsInv
    <3> QED
      BY <1>2, <1>5, <3>1, AppLoginMoves, StillKeeps
  <2> QED
    BY <2>2, <2>3 DEF Same
<1>6. CASE LoginAdd(c) /\ request[c].pc = "add" /\ request[c].user = u
  <2>1. Appending(c, u, c) /\ c \in Goroutines /\ ListsInv
    BY <1>6, LoginAddMoves DEF Goroutines, ListsKept
  <2>2. PICK p \in Shown(arrays, Lists, Work, u) :
          Shown(arrays, Lists, Work, u)' = {Append(p, c)}
    BY <1>2, <2>1, AppendingKeeps
  <2> QED
    <3>1. p \in Seq(Clients)
      BY <1>3
    <3>2. In(c, Append(p, c))
      BY <3>1, AppendIn
    <3> QED
      BY <2>2, <3>2
<1> QED
  BY <1>2, <1>4, <1>5, <1>6

\* No client of the appId of c comes before c in the list, nor is one about to
\* be added.
FirstIs(c, p) ==
    \A i \in 1..Len(p) : client[p[i]].app = client[c].app =>
        \E j \in 1..i : p[j] = c
NoRival(c, u) ==
    \A d \in Clients \ {c} :
        request[d].user = u /\ request[d].pc \in {"cut", "cutted", "add"} =>
            client[d].app # client[c].app
FirstInv ==
    \A c \in Clients : \A u : Settled(c, u) /\ Undisturbed(c, u) =>
        /\ NoRival(c, u)
        /\ \A p \in Shown(arrays, Lists, Work, u) : FirstIs(c, p)

LEMMA FirstWithout ==
    ASSUME NEW c, NEW p \in Seq(Clients), NEW i \in 1..Len(p), p[i] # c, FirstIs(c, p)
    PROVE  FirstIs(c, WithoutAt(p, i))
<1> DEFINE q == WithoutAt(p, i)
<1>1. /\ Len(q) = Len(p) - 1 /\ Len(p) \in Nat
      /\ \A j \in 1..Len(p) - 1 : q[j] = IF j < i THEN p[j] ELSE p[j + 1]
  BY WithoutType
<1> HIDE DEF q
<1> SUFFICES ASSUME NEW k \in 1..Len(q), client[q[k]].app = client[c].app
             PROVE  \E j \in 1..k : q[j] = c
  BY DEF FirstIs, q
<1>2. CASE k < i
  <2>1. k \in 1..Len(p) /\ q[k] = p[k]
    BY <1>1, <1>2
  <2>2. PICK j \in 1..k : p[j] = c
    BY <2>1 DEF FirstIs
  <2>3. j < i /\ j \in 1..Len(p) - 1
    BY <1>1, <1>2, <2>1, <2>2
  <2> QED
    BY <1>1, <2>2, <2>3
<1>3. CASE ~(k < i)
  <2>1. k + 1 \in 1..Len(p) /\ q[k] = p[k + 1]
    BY <1>1, <1>3
  <2>2. PICK j \in 1..k + 1 : p[j] = c
    BY <2>1 DEF FirstIs
  <2>3. CASE j < i
    <3>1. j \in 1..k /\ j \in 1..Len(p) - 1
      BY <1>1, <1>3, <2>3
    <3> QED
      BY <1>1, <2>2, <2>3, <3>1
  <2>4. CASE ~(j < i)
    <3>1. j # i
      BY <2>2
    <3>2. j - 1 \in 1..k /\ j - 1 \in 1..Len(p) - 1 /\ ~(j - 1 < i) /\ j - 1 + 1 = j
      BY <1>1, <1>3, <2>4, <3>1
    <3> QED
      BY <1>1, <2>2, <3>2
  <2> QED
    BY <2>3, <2>4
<1> QED
  BY <1>2, <1>3

LEMMA FirstAppend ==
    ASSUME NEW c, NEW p \in Seq(Clients), NEW d \in Clients,
           \A e \in Clients : In(e, p) /\ client[e].app = client[c].app =>
               \A i \in 1..Len(p) : p[i] = e => \E j \in 1..i : p[j] = c,
           d = c \/ client[d].app # client[c].app
    PROVE  FirstIs(c, Append(p, d))
<1> DEFINE q == Append(p, d)
<1>1. /\ Len(q) = Len(p) + 1 /\ q[Len(p) + 1] = d /\ Len(p) \in Nat
      /\ \A j \in 1..Len(p) : q[j] = p[j] /\ p[j] \in Clients
  OBVIOUS
<1> HIDE DEF q
<1> SUFFICES ASSUME NEW k \in 1..Len(q), client[q[k]].app = client[c].app
             PROVE  \E j \in 1..k : q[j] = c
  BY DEF FirstIs, q
<1>2. CASE k = Len(p) + 1
  <2>1. d = c
    BY <1>1, <1>2
  <2> QED
    BY <1>1, <1>2, <2>1
<1>3. CASE k # Len(p) + 1
  <2>1. k \in 1..Len(p) /\ q[k] = p[k] /\ p[k] \in Clients
    BY <1>1, <1>3
  <2>2. In(p[k], p) /\ client[p[k]].app = client[c].app
    BY <2>1 DEF In
  <2>3. PICK j \in 1..k : p[j] = c
    BY <2>1, <2>2
  <2>4. j \in 1..Len(p)
    BY <1>1, <2>1, <2>3
  <2> QED
    BY <1>1, <2>3, <2>4
<1> QED
  BY <1>2, <1>3

\* The accounts do not change.
LEMMA FirstStays ==
    ASSUME NEW c, NEW p \in Seq(Clients), FirstIs(c, p), client'[c].app = client[c].app,
           \A d \in Clients : In(d, p) => client'[d].app = client[d].app
    PROVE  FirstIs(c, p)'
<1>1. \A i \in 1..Len(p) : p[i] \in Clients /\ In(p[i], p)
  BY DEF In
<1> QED
  BY <1>1 DEF FirstIs

\* Whoever is about to cut or to add was so, or has just searched.
LEMMA RivalBefore ==
    ASSUME ListsKept, Next, NEW d \in Clients, NEW u,
           request'[d].user = u, request'[d].pc \in {"cut", "cutted", "add"}
    PROVE  \/ /\ request[d].user = u /\ request[d].pc \in {"cut", "cutted", "add"}
              /\ client'[d].app = client[d].app
           \/ AppLogin(d) /\ ~Crash /\ request[d].pc = "scan" /\ request'[d] = Found(d)
<1>0. Typed /\ Ranged
  BY DEF ListsKept
<1>1. LoginGoes(d)
  BY <1>0, LoginsGo
<1>2. ~(UserLogin(d) /\ request'[d] = Begun(d))
  <2>1. Begun(d).pc = "scan"
    BY DEF Begun, Idle
  <2> HIDE DEF Begun
  <2> QED
    BY <2>1
<1>3. CASE request[d].pc \in {"cut", "cutted", "add"} /\ request[d].user = u
  <2>1. ~AppLogin(d)
    BY <1>3, Zenon DEF AppLogin
  <2>2. client'[d].app = client[d].app
    BY <2>1, OwnAccount
  <2> QED
    BY <1>3, <2>2
<1> QED
  BY <1>1, <1>2, <1>3 DEF LoginGoes, LoginKeeps

\* The search of another login does not pass by c.
LEMMA SearchFindsFirst ==
    ASSUME ListsKept, Seeing', NEW c \in Clients, NEW u, c \notin seen'.kicked,
           NEW d \in Clients, d # c, AppLogin(d), ~Crash, request[d].user = u,
           request[d].pc = "scan", request'[d] = Found(d), Alone(Work, u),
           \A p \in Shown(arrays, Lists, Work, u) : In(c, p) /\ FirstIs(c, p)
    PROVE  request[d].app # client[c].app
<1>0. Typed /\ Ranged /\ RealWorld
  BY DEF ListsKept, ListsInv
<1> SUFFICES ASSUME request[d].app = client[c].app PROVE FALSE
  OBVIOUS
<1> DEFINE i == LoginIndex(request[d].app, u)
           q == Listed(Of(u))
<1>1. u \in 1..Len(users) /\ request[d] \in RequestType
  BY <1>0 DEF Ranged, RequestsRanged, Typed
<1>2. Finds(q, ByApp(request[d].app), i) /\ i \in Nat
  BY <1>0, <1>1, LoginFinds
<1>3. In(c, q) /\ FirstIs(c, q)
  <2>1. Work[d].op = "on" /\ Work[d].list = u
    BY WorkFields DEF RequestOp, RequestList
  <2>2. d \in Goroutines /\ WorksAt(Work, d, u) /\ Work[d].op \notin Pending
    BY <2>1 DEF Goroutines, WorksAt, Pending
  <2>3. q \in Shown(arrays, Lists, Work, u)
    BY <1>0, <1>1, <2>2, AloneShows, GuestsList DEF Listed
  <2> QED
    BY <2>3
<1>4. Found(d).kick = IF i = 0 \/ q[i] = d THEN None ELSE q[i]
  <2> DEFINE k == IF i = 0 \/ q[i] = d THEN None ELSE q[i]
             pc == IF i = 0 THEN "add" ELSE IF q[i] = d THEN "map" ELSE "cut"
  <2>1. Found(d) = [request[d] EXCEPT !.index = i, !.kick = k, !.pc = pc]
    BY DEF Found
  <2> HIDE DEF i, k, pc, q
  <2>2. Found(d).kick = k
    BY <1>1, <2>1 DEF RequestType
  <2> QED
    BY <2>2 DEF k
<1> HIDE DEF i, q
<1>5. c \in ByApp(request[d].app)
  BY DEF ByApp
<1>6. i \in 1..Len(q) /\ q[i] = c
  <2>1. i # 0 /\ i \in 1..Len(q) /\ q[i] \in ByApp(request[d].app)
        /\ \A j \in 1..i - 1 : q[j] \notin ByApp(request[d].app)
    BY <1>2, <1>3, <1>5 DEF Finds, In
  <2>2. PICK j \in 1..i : q[j] = c
    BY <1>3, <2>1 DEF FirstIs, ByApp
  <2>3. j = i
    BY <1>2, <1>5, <2>1, <2>2
  <2> QED
    BY <2>1, <2>2, <2>3
<1>7. request'[d].kick = c
  BY <1>2, <1>4, <1>6
<1>8. c \in seen'.kicked
  BY <1>7, NoneAssumption DEF Seeing, Now
<1> QED
  BY <1>8

\* Who works at a list has no rival.
LEMMA AloneNoRival ==
    ASSUME NEW c \in Clients, NEW u, Alone(Work, u), request[c].user = u,
           request[c].pc \in {"scan", "add"},
           NEW d \in Clients, d # c, request[d].user = u
    PROVE  request[d].pc \notin {"cut", "cutted", "add"}
<1> SUFFICES ASSUME request[d].pc \in {"cut", "cutted", "add"} PROVE FALSE
  OBVIOUS
<1>1. Work[c].op # "off" /\ Work[c].list = u
  BY WorkFields DEF RequestOp, RequestList
<1>2. Work[d].op # "off" /\ Work[d].list = u
  BY WorkFields DEF RequestOp, RequestList
<1> QED
  BY <1>1, <1>2 DEF Alone, WorksAt, Goroutines

\* Who is listed and not disturbed keeps its account.
LEMMA MembersKeep ==
    ASSUME ListsKept, Seeing, Next, NEW c \in Clients, NEW u, Undisturbed(c, u),
           NEW p, UserIs(c, u, p), NEW d \in Clients, In(d, p), d # c
    PROVE  client'[d].app = client[d].app
<1>0. Typed /\ Ranged
  BY DEF ListsKept
<1>1. CASE ~AppLogin(d) \/ Crash
  BY <1>1, OwnAccount
<1>2. CASE AppLogin(d) /\ ~Crash
  <2>1. /\ client' = [client EXCEPT ![d].user = request[d].user, ![d].app = request[d].app]
        /\ request[d].pc = "scan"
    BY <1>0, <1>2, AppLoginDoes
  <2>2. client'[d].app = request[d].app
    BY <1>0, <2>1 DEF Typed, ClientType
  <2>3. client[d].user = u /\ u # 0
    BY DEF UserIs, UserLists, Undisturbed
  <2>4. <<d, client[d].user>> \notin seen.moved
    BY <2>3 DEF Undisturbed
  <2>5. client[d].app = request[d].app
    BY <2>1, <2>3, <2>4, MovedSeen
  <2> QED
    BY <2>2, <2>5
<1> QED
  BY <1>1, <1>2

LEMMA FirstInvSettled ==
    ASSUME ListsKept, Seeing, Seeing', UserInv, ListedInv, FirstInv, Next,
           NEW c \in Clients, NEW u, Settled(c, u)', Settled(c, u), Undisturbed(c, u),
           ~AppLogin(c) \/ Crash
    PROVE  /\ NoRival(c, u)'
           /\ \A q \in Shown(arrays, Lists, Work, u)' : FirstIs(c, q)'
<1>0. /\ Typed /\ Ranged /\ RealWorld /\ c \in Goroutines
  BY DEF ListsKept, ListsInv, Goroutines
<1>2. /\ u \in DOMAIN Lists /\ Well(u) /\ Alone(Work, u) /\ u # 0
      /\ c \notin seen.kicked /\ c \notin seen'.kicked
  BY SettledBefore DEF Well, Settled
<1>3. /\ NoRival(c, u)
      /\ \A p \in Shown(arrays, Lists, Work, u) :
           p \in Seq(Clients) /\ FirstIs(c, p) /\ In(c, p) /\ UserIs(c, u, p)
  BY <1>0, <1>2 DEF FirstInv, ListedInv, UserInv, Well, Steady
<1>4. client'[c].app = client[c].app
  BY OwnAccount
<1>5. \A p \in Shown(arrays, Lists, Work, u) : \A d \in Clients :
        In(d, p) => client'[d].app = client[d].app
  BY <1>3, <1>4, MembersKeep
<1>6. NoRival(c, u)'
  <2> SUFFICES ASSUME NEW d \in Clients, d # c, request'[d].user = u,
                      request'[d].pc \in {"cut", "cutted", "add"}
               PROVE  client'[d].app # client'[c].app
    BY DEF NoRival
  <2>1. CASE /\ request[d].user = u /\ request[d].pc \in {"cut", "cutted", "add"}
             /\ client'[d].app = client[d].app
    BY <1>3, <1>4, <2>1 DEF NoRival
  <2>2. CASE AppLogin(d) /\ ~Crash /\ request[d].pc = "scan" /\ request'[d] = Found(d)
    <3>1. Found(d).user = request[d].user
      <4>1. request[d] \in RequestType
        BY <1>0 DEF Typed
      <4> QED
        BY <4>1 DEF Found, RequestType
    <3>2. request[d].user = u
      BY <2>2, <3>1
    <3>3. request[d].app # client[c].app
      BY <1>2, <1>3, <2>2, <3>2, SearchFindsFirst
    <3>4. client'[d].app = request[d].app
      <4>1. client' = [client EXCEPT ![d].user = request[d].user, ![d].app = request[d].app]
        BY <1>0, <2>2, AppLoginDoes
      <4> QED
        BY <1>0, <4>1 DEF Typed, ClientType
    <3> QED
      BY <1>4, <3>3, <3>4
  <2> QED
    BY <2>1, <2>2, RivalBefore
<1>7. CASE Same(u)
  <2>1. \A p \in Shown(arrays, Lists, Work, u) : FirstIs(c, p)'
    BY <1>3, <1>4, <1>5, FirstStays
  <2> QED
    BY <1>6, <1>7, <2>1 DEF Same
<1>8. ASSUME NEW p \in Shown(arrays, Lists, Work, u), NEW i \in 1..Len(p), p[i] # c,
             Shown(arrays, Lists, Work, u)' = {WithoutAt(p, i)}
      PROVE  \A q \in Shown(arrays, Lists, Work, u)' : FirstIs(c, q)'
  <2>1. p \in Seq(Clients) /\ FirstIs(c, p)
    BY <1>3
  <2> DEFINE q == WithoutAt(p, i)
  <2>2. q \in Seq(Clients) /\ FirstIs(c, q)
    BY <1>8, <2>1, FirstWithout, WithoutType
  <2>3. \A d \in Clients : In(d, q) => client'[d].app = client[d].app
    BY <1>5, <2>1, WithoutOnly
  <2> HIDE DEF q
  <2>4. FirstIs(c, q)'
    BY <1>4, <2>2, <2>3, FirstStays
  <2> QED
    BY <1>8, <2>4 DEF q
<1>9. ASSUME NEW d \in Clients, request[d].user = u, request[d].pc = "add", LoginAdd(d),
             NEW p \in Shown(arrays, Lists, Work, u),
             Shown(arrays, Lists, Work, u)' = {Append(p, d)}
      PROVE  \A q \in Shown(arrays, Lists, Work, u)' : FirstIs(c, q)'
  <2>1. p \in Seq(Clients) /\ FirstIs(c, p)
    BY <1>3
  <2> DEFINE q == Append(p, d)
  <2>2. d # c
    BY <1>9 DEF Settled
  <2>3. client[d].app # client[c].app
    BY <1>3, <1>9, <2>2 DEF NoRival
  <2>4. \A e \in Clients : In(e, p) /\ client[e].app = client[c].app =>
               \A i \in 1..Len(p) : p[i] = e => \E j \in 1..i : p[j] = c
    BY <2>1 DEF FirstIs
  <2>5. q \in Seq(Clients) /\ FirstIs(c, q)
    BY <2>1, <2>3, <2>4, FirstAppend
  <2> HIDE DEF q
  <2>6. client' = client
    BY <1>9 DEF LoginAdd
  <2>7. FirstIs(c, q)'
    BY <2>5, <2>6 DEF FirstIs
  <2> QED
    BY <1>9, <2>7 DEF q
<1>10. ASSUME NEW p \in Shown(arrays, Lists, Work, u), NEW i \in 1..Len(p), p[i] = hub.client,
              hub'.pc = "store", hub'.client = hub.client,
              Shown(arrays, Lists, Work, u)' = {WithoutAt(p, i)}
       PROVE  \A q \in Shown(arrays, Lists, Work, u)' : FirstIs(c, q)'
  <2>1. hub.client # c
    BY <1>10 DEF Settled
  <2> QED
    BY <1>8, <1>10, <2>1
<1>11. ASSUME NEW d \in Clients,
              NEW p \in Shown(arrays, Lists, Work, u), NEW i \in 1..Len(p), p[i] = request[d].kick,
              Shown(arrays, Lists, Work, u)' = {WithoutAt(p, i)}
       PROVE  \A q \in Shown(arrays, Lists, Work, u)' : FirstIs(c, q)'
  <2>1. request[d].kick # c
    BY <1>2, KickedSeen, NoneAssumption
  <2> QED
    BY <1>8, <1>11, <2>1
<1>12. \A q \in Shown(arrays, Lists, Work, u)' : FirstIs(c, q)'
  BY <1>2, <1>7, <1>9, <1>10, <1>11, UserListSteps
<1> QED
  BY <1>6, <1>12

LEMMA FirstInvStep ==
    ASSUME ListsKept, Seeing, UserInv, ListedInv, FirstInv, Next
    PROVE  FirstInv'
<1>1. SUFFICES ASSUME NEW c \in Clients, NEW u, Settled(c, u)', Undisturbed(c, u)'
               PROVE  /\ NoRival(c, u)'
                      /\ \A q \in Shown(arrays, Lists, Work, u)' : FirstIs(c, q)'
  BY DEF FirstInv
<1>0. /\ Typed /\ Ranged /\ RealWorld /\ ListsInv /\ c \in Goroutines /\ Seeing'
  BY SeeingStep DEF ListsKept, ListsInv, Goroutines
<1>2. /\ u \in DOMAIN Lists /\ Well(u) /\ Alone(Work, u) /\ u # 0
      /\ \/ Settled(c, u)
         \/ AppLogin(c) /\ ~Crash /\ request[c].user = u
         \/ LoginAdd(c) /\ request[c].pc = "add" /\ request[c].user = u
  BY <1>1, SettledBefore DEF Well, Settled
<1>3. Undisturbed(c, u)
  BY <1>1, <1>2, UndisturbedBefore
<1>4. \A p \in Shown(arrays, Lists, Work, u) : p \in Seq(Clients) /\ UserIs(c, u, p)
  BY <1>0, <1>2, <1>3 DEF UserInv, Well, Steady
<1>5. CASE Settled(c, u) /\ (~AppLogin(c) \/ Crash)
  BY <1>0, <1>1, <1>3, <1>5, FirstInvSettled
<1>6. CASE AppLogin(c) /\ ~Crash
  <2>0. /\ client' = [client EXCEPT ![c].user = request[c].user, ![c].app = request[c].app]
        /\ request[c].pc = "scan" /\ request' = [request EXCEPT ![c] = Found(c)]
    BY <1>0, <1>6, AppLoginDoes
  <2>1. /\ client'[c].user = request[c].user /\ client'[c].app = request[c].app
        /\ \A d \in Clients : d # c => client'[d] = client[d] /\ request'[d] = request[d]
    <3> HIDE DEF Found
    <3> QED
      BY <1>0, <2>0 DEF Typed, ClientType
  <2>2. request[c].user = u /\ request'[c].pc \notin {"add", "cut"}
    BY <1>1, <2>1 DEF Settled
  <2>3. NoRival(c, u)'
    <3> SUFFICES ASSUME NEW d \in Clients, d # c, request'[d].user = u,
                        request'[d].pc \in {"cut", "cutted", "add"}
                 PROVE  FALSE
      BY DEF NoRival
    <3> QED
      BY <1>2, <2>0, <2>1, <2>2, AloneNoRival
  <2>4. ASSUME NEW p \in Shown(arrays, Lists, Work, u)
        PROVE  FirstIs(c, p)'
    <3>1. PICK i \in 1..Len(p) :
             p[i] = c /\ \A j \in 1..i - 1 : p[j] \notin ByApp(request[c].app)
      BY <1>2, <1>6, <2>2, <2>4, FoundItself
    <3> SUFFICES ASSUME NEW k \in 1..Len(p), client'[p[k]].app = client'[c].app
                 PROVE  \E j \in 1..k : p[j] = c
      BY DEF FirstIs
    <3>2. Len(p) \in Nat /\ p[k] \in Clients
      BY <1>4, <2>4
    <3>3. CASE p[k] = c
      BY <3>3
    <3>4. CASE p[k] # c
      <4>1. p[k] \in ByApp(request[c].app)
        BY <2>1, <3>2, <3>4 DEF ByApp
      <4>2. i <= k
        BY <3>1, <3>2, <4>1
      <4> QED
        BY <3>1, <4>2
    <3> QED
      BY <3>3, <3>4
  <2>5. Same(u)
    BY <1>0, <1>2, <1>6, AppLoginMoves, StillKeeps
  <2> QED
    BY <2>3, <2>4, <2>5 DEF Same
<1>7. CASE LoginAdd(c) /\ request[c].pc = "add" /\ request[c].user = u
  <2>1. Appending(c, u, c)
    BY <1>0, <1>7, LoginAddMoves
  <2>2. PICK p \in Shown(arrays, Lists, Work, u) :
          Shown(arrays, Lists, Work, u)' = {Append(p, c)}
    BY <1>0, <1>2, <2>1, AppendingKeeps
  <2>3. client' = client /\ \A d \in Clients : d # c => request'[d] = request[d]
    BY <1>0, <1>7, RequestGoes DEF LoginAdd, RequestStep
  <2>4. NoRival(c, u)'
    <3> SUFFICES ASSUME NEW d \in Clients, d # c, request'[d].user = u,
                        request'[d].pc \in {"cut", "cutted", "add"}
                 PROVE  FALSE
      BY DEF NoRival
    <3> QED
      BY <1>2, <1>7, <2>3, AloneNoRival
  <2>5. p \in Seq(Clients) /\ UserIs(c, u, p)
    BY <1>4, <2>2
  <2>6. ASSUME NEW e \in Clients, In(e, p), client[e].app = client[c].app
        PROVE  e = c
    BY <1>7, <2>5, <2>6 DEF UserIs, AddsNew
  <2> DEFINE q == Append(p, c)
  <2>7. FirstIs(c, q)
    <3>1. \A e \in Clients : In(e, p) /\ client[e].app = client[c].app =>
               \A i \in 1..Len(p) : p[i] = e => \E j \in 1..i : p[j] = c
      BY <2>6
    <3> QED
      BY <2>5, <3>1, FirstAppend
  <2> HIDE DEF q
  <2>8. FirstIs(c, q)'
    BY <2>3, <2>7 DEF FirstIs
  <2> QED
    BY <2>2, <2>4, <2>8 DEF q
<1> QED
  BY <1>2, <1>5, <1>6, <1>7

\* The user that is stored for a uid: the one of the login under way, and the
\* one that the clients of the uid have; who is about to be cleaned up has none.
LoginsInv ==
    \A c \in Clients : InLogin(c) /\ request[c].uid \notin seen.uids =>
        stored[request[c].uid] \in {0, request[c].user}
HeldInv ==
    \A c \in Clients : \A u :
        /\ Settled(c, u) /\ users[u].uid \notin seen.uids
        /\ request[c].pc \in {"idle", "scan", "index", "delete", "deleted"}
        => stored[users[u].uid] = u
EmptyAt(u) == \A p \in Shown(arrays, Lists, Work, u) : p = <<>>
GuardInv ==
    guard # NoUid /\ guard \notin seen.uids =>
        \A u \in 1..Len(users) : stored[guard] = u /\ Calm(u) => EmptyAt(u)

\* A user keeps its uid.
LEMMA UidsStay ==
    ASSUME Typed, Ranged, Next, NEW u \in 1..Len(users)
    PROVE  u \in 1..Len(users') /\ users'[u].uid = users[u].uid
<1>1. CASE users' = users
  BY <1>1
<1>2. CASE LogoutStore
  <2>1. hub.user \in 1..Len(users) /\ hub.slice \in Slice /\ users \in Seq(UserType)
    BY <1>2 DEF LogoutStore, Ranged, HubRanged, Typed, HubType
  <2>2. users' = [users EXCEPT ![hub.user].clients = hub.slice]
    BY <1>2 DEF LogoutStore
  <2> QED
    BY <2>1, <2>2, UserStored
<1>3. ASSUME NEW c \in Clients, LoginStore(c)
      PROVE  u \in 1..Len(users') /\ users'[u].uid = users[u].uid
  <2>1. request[c].user \in 1..Len(users) /\ request[c].slice \in Slice /\ users \in Seq(UserType)
    BY <1>3 DEF LoginStore, Ranged, RequestsRanged, Typed, RequestType
  <2>2. users' = [users EXCEPT ![request[c].user].clients = request[c].slice]
    BY <1>3 DEF LoginStore
  <2> QED
    BY <2>1, <2>2, UserStored
<1>4. ASSUME NEW c \in Clients, UserLogin(c)
      PROVE  u \in 1..Len(users') /\ users'[u].uid = users[u].uid
  <2>1. users' = Made(c) /\ client[c].logins # <<>>
    BY <1>4, UserLoginDoes
  <2>2. Made(c)[u] = users[u] /\ Len(users) <= Len(Made(c)) /\ Len(Made(c)) \in Nat /\ Len(users) \in Nat
    BY <2>1, BegunTyped
  <2> QED
    BY <2>1, <2>2
<1>5. \/ users' = users \/ LogoutStore
      \/ \E c \in Clients : LoginStore(c) \/ UserLogin(c)
  <2>1. CASE HubStep
    BY <2>1, Zenon DEF HubStep, Connect, Disconnect, AppendGuest, StoreGuests, AppLogout,
       LogoutCut, CloseGuest, HubFindGuest, HubDeleteGuest, Crash
  <2>2. ASSUME NEW c \in Clients, RequestStep(c), ~LoginStore(c), ~UserLogin(c)
        PROVE  users' = users
    BY <2>2, Zenon DEF RequestStep, AppLogin, LoginCut, LoginAdd, Kick, StoreUser, FindGuest,
       DeleteGuest, StoreDeleted, Crash
  <2>3. CASE GuardStep \/ CastStep
    BY <2>3 DEF GuardStep, GuardFinds, GuardDeletes, CastStep, Broadcast, SendNext,
       EndOfSlice, RangeUsers, Crash
  <2> QED
    BY <2>1, <2>2, <2>3 DEF Next
<1> QED
  BY <1>1, <1>2, <1>3, <1>4, <1>5

\* The steps on Users.
LEMMA StoredGoes ==
    ASSUME Typed, Next, NEW uid \in Uids
    PROVE  \/ stored'[uid] = stored[uid]
           \/ \E d \in Clients : /\ request[d].pc = "map" /\ request[d].uid = uid
                                 /\ stored'[uid] = request[d].user
                                 /\ StoreUser(d)
           \/ guard = uid /\ guard' = NoUid /\ stored'[uid] = 0
<1>1. CASE stored' = stored
  BY <1>1
<1>2. ASSUME NEW d \in Clients, StoreUser(d)
      PROVE  \/ stored'[uid] = stored[uid]
             \/ /\ request[d].pc = "map" /\ request[d].uid = uid
                /\ stored'[uid] = request[d].user
  BY <1>2 DEF StoreUser, Typed
<1>3. CASE GuardDeletes
  BY <1>3 DEF GuardDeletes, Typed
<1>4. \/ stored' = stored \/ GuardDeletes
      \/ \E d \in Clients : StoreUser(d)
  <2>1. CASE HubStep
    BY <2>1, Zenon DEF HubStep, Connect, Disconnect, AppendGuest, StoreGuests, AppLogout,
       LogoutCut, LogoutStore, CloseGuest, HubFindGuest, HubDeleteGuest, Crash
  <2>2. ASSUME NEW c \in Clients, RequestStep(c), ~StoreUser(c)
        PROVE  stored' = stored
    BY <2>2, Zenon DEF RequestStep, UserLogin, AppLogin, LoginCut, LoginAdd, LoginStore, Kick,
       FindGuest, DeleteGuest, StoreDeleted, Crash
  <2>3. CASE GuardStep \/ CastStep
    BY <2>3 DEF GuardStep, GuardFinds, CastStep, Broadcast, SendNext,
       EndOfSlice, RangeUsers, Crash
  <2> QED
    BY <2>1, <2>2, <2>3 DEF Next
<1> QED
  BY <1>1, <1>2, <1>3, <1>4

LEMMA GuardGoes ==
    ASSUME Next
    PROVE  guard' = guard \/ guard' = NoUid \/ GuardFinds
<1>1. CASE HubStep
  BY <1>1, Zenon DEF HubStep, Connect, Disconnect, AppendGuest, StoreGuests, AppLogout,
     LogoutCut, LogoutStore, CloseGuest, HubFindGuest, HubDeleteGuest, Crash
<1>2. ASSUME NEW c \in Clients, RequestStep(c)
      PROVE  guard' = guard
  BY <1>2, Zenon DEF RequestStep, UserLogin, AppLogin, LoginCut, LoginAdd, LoginStore, Kick,
     StoreUser, FindGuest, DeleteGuest, StoreDeleted, Crash
<1>3. CASE GuardStep \/ CastStep
  BY <1>3 DEF GuardStep, GuardDeletes, CastStep, Broadcast, SendNext,
     EndOfSlice, RangeUsers, Crash
<1> QED
  BY <1>1, <1>2, <1>3 DEF Next

\* A uid that is made twice, or cleaned up during a login, is in the history.
LEMMA UidSeen ==
    ASSUME Typed, Seeing, NEW c \in Clients, InLogin(c), request[c].uid \in Uids,
           \/ guard = request[c].uid
           \/ \E d \in Clients : /\ request[d].uid = request[c].uid
                                 /\ request[d].user # request[c].user
    PROVE  request[c].uid \in seen.uids
<1>1. request[c].uid \in Now.uids
  BY DEF Now
<1> QED
  BY <1>1 DEF Seeing

\* A login has a uid.
LEMMA LoginUid ==
    ASSUME Typed, Ranged, NEW c \in Clients, InLogin(c)
    PROVE  /\ request[c].user \in 1..Len(users)
           /\ request[c].uid = users[request[c].user].uid
           /\ request[c].uid \in Uids
<1>1. request[c].user \in 1..Len(users) /\ users[request[c].user].uid = request[c].uid
  BY DEF InLogin, Ranged, RequestsRanged
<1>2. users[request[c].user] \in UserType
  BY <1>1 DEF Typed
<1> QED
  BY <1>1, <1>2 DEF UserType

LEMMA LoginsInvStep ==
    ASSUME ListsKept, Seeing, LoginsInv, Next
    PROVE  LoginsInv'
<1>0. /\ Typed /\ Ranged /\ SeenTyped /\ stored \in [Uids -> Nat]
      /\ Seeing' /\ seen.uids \subseteq seen'.uids
  BY SeeingStep, SeenStep DEF ListsKept, Typed
<1> SUFFICES ASSUME NEW c \in Clients, InLogin(c)', request'[c].uid \notin seen'.uids
             PROVE  stored'[request'[c].uid] \in {0, request'[c].user}
  BY DEF LoginsInv
<1>1. CASE InLogin(c) /\ request'[c].uid = request[c].uid /\ request'[c].user = request[c].user
  <2> DEFINE uid == request[c].uid
  <2>1. uid \in Uids /\ uid \notin seen.uids
    BY <1>0, <1>1, LoginUid
  <2>2. stored[uid] \in {0, request[c].user}
    BY <1>1, <2>1 DEF LoginsInv
  <2>3. ASSUME NEW d \in Clients, request[d].uid = uid
        PROVE  request[d].user = request[c].user
    BY <1>0, <1>1, <2>1, <2>3, UidSeen
  <2> HIDE DEF uid
  <2>4. stored'[uid] \in {0, request[c].user}
    BY <1>0, <2>1, <2>2, <2>3, StoredGoes
  <2> QED
    BY <1>1, <2>4 DEF uid
<1>2. CASE UserLogin(c) /\ request'[c] = Begun(c)
  <2>1. stored' = stored /\ client[c].logins # <<>>
    BY <1>2, UserLoginDoes
  <2>2. Begun(c).uid = Head(client[c].logins).uid /\ Begun(c).user = UserFor(c)
    BY DEF Begun, Idle
  <2> QED
    BY <1>2, <2>1, <2>2 DEF UserFor
<1>3. LoginGoes(c)
  BY <1>0, LoginsGo
<1>4. CASE AppLogin(c) /\ ~Crash /\ request[c].pc = "scan" /\ request'[c] = Found(c)
  <2>1. Found(c).user = request[c].user /\ Found(c).uid = request[c].uid
    BY <1>0, <1>4, FoundTyped DEF ListsKept, ListsInv
  <2> QED
    BY <1>1, <1>4, <2>1 DEF InLogin
<1>5. CASE request'[c] = request[c]
  BY <1>1, <1>5 DEF InLogin
<1>6. CASE LoginKeeps(c) /\ request[c].pc # "idle"
  BY <1>1, <1>6 DEF InLogin, LoginKeeps
<1> QED
  BY <1>2, <1>3, <1>4, <1>5, <1>6 DEF LoginGoes, InLogin

\* A list without a client stays so, unless somebody logs in under its uid.
LEMMA EmptyStays ==
    ASSUME ListsKept, Seeing, Next, NEW u \in 1..Len(users), Well(u), EmptyAt(u),
           guard = users[u].uid, guard \notin seen.uids
    PROVE  EmptyAt(u)'
<1>0. Typed /\ Ranged /\ u \in DOMAIN Lists /\ u # 0
  BY GuestsList DEF ListsKept
<1>1. ASSUME NEW d \in Clients, request[d].user = u, InLogin(d)
      PROVE  FALSE
  BY <1>0, <1>1, LoginUid, UidSeen
<1>2. ASSUME NEW d \in Clients, request[d].user = u, request[d].pc = "add"
      PROVE  FALSE
  BY <1>1, <1>2 DEF InLogin
<1>3. \A p \in Shown(arrays, Lists, Work, u) : 1..Len(p) = {}
  BY DEF EmptyAt
<1>4. Same(u)
  BY <1>0, <1>2, <1>3, UserListSteps
<1> QED
  BY <1>4 DEF EmptyAt, Same

\* guard finds a user without a client.
LEMMA FoundEmpty ==
    ASSUME ListsKept, Seeing', GuardFinds, Next, guard' \notin seen'.uids,
           NEW u \in 1..Len(users), stored[guard'] = u, Well(u)
    PROVE  EmptyAt(u)
<1>0. /\ Typed /\ Ranged /\ RealWorld /\ u \in DOMAIN Lists /\ u # 0 /\ Lists[u] = Of(u)
      /\ Steady(arrays, Lists, Work, u) /\ guard' \in Uids /\ Typed' /\ Ranged'
  <2>1. Typed /\ Ranged /\ RealWorld
    BY DEF ListsKept, ListsInv
  <2> QED
    BY <2>1, GuestsList, TypedStep DEF Well, GuardFinds
<1>1. Of(u).len = 0 /\ users[u].uid = guard' /\ request' = request /\ users' = users
  BY <1>0 DEF GuardFinds, Ranged, StoredRanged
<1>2. Contents(arrays, Lists[u]) = <<>>
  <2>1. Listed(Of(u)) \in Seq(Goroutines) /\ DOMAIN Listed(Of(u)) = 1..0
    BY <1>0, <1>1, UserFacts
  <2>2. Len(Listed(Of(u))) = 0
    BY <2>1
  <2>3. Listed(Of(u)) = <<>>
    BY <2>1, <2>2
  <2> QED
    BY <1>0, <2>3 DEF Listed
<1>3. ASSUME NEW g \in Goroutines, PendsAt(Work, g, u)
      PROVE  FALSE
  <2>1. Work[g].op \in {"adds", "removes"} /\ Work[g].list = u
    BY <1>3 DEF PendsAt, Pending
  <2>2. CASE Work[g].op = "removes"
    <3>1. Contents(arrays, Lists[u]) = Append(Contents(arrays, Work[g].slice), None)
      BY <1>0, <2>1, <2>2 DEF Steady
    <3> DEFINE q == Contents(arrays, Work[g].slice)
    <3>2. q \in Shown(arrays, Lists, Work, u)
      BY <1>3 DEF Shown
    <3>3. q \in Seq(Clients)
      BY <1>0, <3>2 DEF Steady
    <3> HIDE DEF q
    <3>4. Append(q, None) # <<>>
      BY <3>3
    <3> QED
      BY <1>2, <3>1, <3>4 DEF q
  <2>3. CASE Work[g].op = "adds"
    <3>1. g # None
      <4>1. ASSUME g = None PROVE FALSE
        <5>1. hub.pc = "appended"
          BY <2>3, <4>1, WorkFields DEF HubOp
        <5>2. Work[g].list = 0
          BY <4>1, <5>1, WorkFields DEF HubList
        <5> QED
          BY <1>0, <2>1, <5>2
      <4> QED
        BY <4>1
    <3>2. g \in Clients /\ request[g].pc = "added" /\ request[g].user = u
      <4>1. g \in Clients
        BY <3>1 DEF Goroutines
      <4>2. request[g].pc = "added"
        BY <2>3, <4>1, WorkFields DEF RequestOp
      <4> QED
        BY <2>1, <4>1, <4>2, WorkFields DEF RequestList
    <3>3. InLogin(g)' /\ request'[g] = request[g]
      BY <1>1, <3>2 DEF InLogin
    <3>4. request[g].uid = guard'
      BY <1>0, <1>1, <3>2, LoginUid DEF InLogin
    <3>5. request'[g].uid \in Now'.uids
      BY <1>0, <3>2, <3>3, <3>4 DEF Now
    <3> QED
      BY <3>3, <3>4, <3>5 DEF Seeing
  <2> QED
    BY <2>1, <2>2, <2>3
<1>4. Shown(arrays, Lists, Work, u) = {<<>>}
  BY <1>2, <1>3 DEF Shown
<1> QED
  BY <1>4 DEF EmptyAt

LEMMA GuardInvStep ==
    ASSUME ListsKept, Seeing, GuardInv, Next
    PROVE  GuardInv'
<1>0. /\ Typed /\ Ranged /\ SeenTyped /\ Seeing' /\ Typed' /\ Ranged' /\ RealWorld /\ ListsInv
      /\ seen.uids \subseteq seen'.uids /\ seen.lists \subseteq seen'.lists
  BY SeeingStep, SeenStep, TypedStep DEF ListsKept, ListsInv
<1> SUFFICES ASSUME guard' # NoUid, guard' \notin seen'.uids, NEW u \in 1..Len(users'),
                    stored'[guard'] = u, Calm(u)'
             PROVE  EmptyAt(u)'
  BY DEF GuardInv
<1>1. CASE guard' = guard
  <2>1. guard \in Uids /\ guard \notin seen.uids
    BY <1>0, <1>1 DEF Typed
  <2>2. ASSUME NEW d \in Clients, request[d].pc = "map", request[d].uid = guard
        PROVE  FALSE
    BY <1>0, <2>1, <2>2, UidSeen DEF InLogin
  <2>3. stored'[guard] = stored[guard]
    BY <1>0, <1>1, <2>1, <2>2, StoredGoes
  <2>4. stored[guard] = u /\ u \in 1..Len(users)
    <3>1. stored[guard] \in 0..Len(users)
      BY <1>0, <2>1 DEF Ranged, StoredRanged
    <3>2. Len(users) \in Nat
      BY <1>0 DEF Typed
    <3> QED
      BY <1>1, <2>3, <3>1, <3>2
  <2>5. users[u].uid = guard
    BY <1>0, <2>1, <2>4 DEF Ranged, StoredRanged
  <2>6. Calm(u)
    <3>1. u \notin seen.lists
      BY <1>0 DEF Calm
    <3> QED
      BY <1>0, <2>4, <3>1, GuestsList DEF Calm
  <2>7. Well(u) /\ EmptyAt(u)
    BY <1>0, <1>1, <2>1, <2>4, <2>6 DEF ListsInv, GuardInv
  <2> QED
    BY <2>1, <2>4, <2>5, <2>7, EmptyStays
<1>2. CASE GuardFinds
  <2>1. users' = users /\ stored' = stored
    BY <1>2 DEF GuardFinds
  <2>2. u \in 1..Len(users) /\ stored[guard'] = u
    BY <2>1
  <2>3. u \in DOMAIN Lists
    BY <1>0, <2>2, GuestsList
  <2>4. u \notin seen.lists
    BY <1>0 DEF Calm
  <2>5. Well(u)
    BY <1>0, <2>3, <2>4 DEF Calm, ListsInv
  <2>6. EmptyAt(u)
    BY <1>0, <1>2, <2>2, <2>5, FoundEmpty
  <2>7. Still
    BY <1>2, ReadersMove DEF GuardStep
  <2>8. Same(u)
    BY <1>0, <2>3, <2>7, StillKeeps
  <2> QED
    BY <2>6, <2>8 DEF EmptyAt, Same
<1> QED
  BY <1>1, <1>2, GuardGoes

LEMMA HeldInvStep ==
    ASSUME ListsKept, Seeing, ListedInv, LoginsInv, HeldInv, GuardInv, Next
    PROVE  HeldInv'
<1>0. /\ Typed /\ Ranged /\ SeenTyped /\ RealWorld
      /\ seen.uids \subseteq seen'.uids
  BY SeenStep DEF ListsKept, ListsInv
<1>1. SUFFICES ASSUME NEW c \in Clients, NEW u, Settled(c, u)', users'[u].uid \notin seen'.uids,
                      request'[c].pc \in {"idle", "scan", "index", "delete", "deleted"}
               PROVE  stored'[users'[u].uid] = u
  BY DEF HeldInv
<1>2. /\ u \in DOMAIN Lists /\ u \in 1..Len(users) /\ Well(u) /\ Calm(u)
      /\ \/ Settled(c, u)
         \/ AppLogin(c) /\ ~Crash /\ request[c].user = u
         \/ LoginAdd(c) /\ request[c].pc = "add" /\ request[c].user = u
  BY <1>1, SettledBefore
<1> DEFINE uid == users[u].uid
<1>3. uid \in Uids /\ users'[u].uid = uid /\ uid \notin seen.uids
  <2>1. users'[u].uid = uid
    BY <1>0, <1>2, UidsStay
  <2>2. users[u] \in UserType
    BY <1>0, <1>2 DEF Typed
  <2> QED
    BY <1>0, <1>1, <2>1, <2>2 DEF UserType
<1> HIDE DEF uid
<1>4. LoginGoes(c)
  BY <1>0, LoginsGo
<1>5. ~(AppLogin(c) /\ ~Crash)
  <2> SUFFICES ASSUME AppLogin(c), ~Crash PROVE FALSE
    OBVIOUS
  <2>1. request[c].pc = "scan" /\ request' = [request EXCEPT ![c] = Found(c)]
    BY <1>0, AppLoginDoes
  <2>2. request'[c] = Found(c)
    BY <1>0, <2>1, RequestSet
  <2>3. Found(c).pc \in {"add", "map", "cut"}
    BY <1>0, <2>1, FoundTyped
  <2> QED
    BY <1>1, <2>2, <2>3
<1>6. ~LoginAdd(c)
  <2> SUFFICES ASSUME LoginAdd(c) PROVE FALSE
    OBVIOUS
  <2>1. request[c].pc = "add"
    BY DEF LoginAdd
  <2>2. request' = [request EXCEPT ![c].pc = "added",
                            ![c].slice = AppendTo(arrays, Of(request[c].user), <<c>>)]
    BY DEF LoginAdd
  <2>3. request'[c].pc = "added"
    BY <1>0, <2>2 DEF Typed
  <2> QED
    BY <1>1, <2>3
<1>7. Settled(c, u)
  BY <1>2, <1>5, <1>6
<1>8. CASE StoreUser(c) /\ request[c].pc = "map"
  <2>1. client[c].user = request[c].user /\ client[c].user = u
    BY <1>0, <1>7, <1>8 DEF Ranged, RequestsRanged, Settled
  <2>2. request[c].uid = uid
    BY <1>0, <1>8, <2>1, LoginUid DEF InLogin, uid
  <2> QED
    BY <1>0, <1>3, <1>8, <2>1, <2>2 DEF StoreUser, Typed
<1>9. CASE request[c].pc \in {"idle", "scan", "index", "delete", "deleted"}
  <2>1. stored[uid] = u /\ u # 0
    BY <1>3, <1>7, <1>9 DEF HeldInv, uid, Settled
  <2>2. ASSUME NEW d \in Clients, request[d].pc = "map", request[d].uid = uid
        PROVE  request[d].user = u
    <3>1. request[d].user \in 1..Len(users) /\ InLogin(d)
      BY <1>0, <2>2, LoginUid DEF InLogin
    <3>2. stored[uid] \in {0, request[d].user}
      BY <1>3, <2>2, <3>1 DEF LoginsInv
    <3> QED
      BY <2>1, <3>2
  <2>3. guard # uid
    <3> SUFFICES ASSUME guard = uid PROVE FALSE
      OBVIOUS
    <3>1. guard # NoUid
      BY <1>3, NoUidAssumption
    <3>2. EmptyAt(u)
      BY <1>2, <1>3, <2>1, <3>1 DEF GuardInv
    <3>3. \E p : p \in Shown(arrays, Lists, Work, u)
      BY DEF Shown
    <3>4. PICK p : p \in Shown(arrays, Lists, Work, u)
      BY <3>3
    <3>5. p = <<>> /\ In(c, p)
      BY <1>7, <3>2, <3>4 DEF EmptyAt, ListedInv
    <3> QED
      BY <3>5 DEF In
  <2>4. stored'[uid] = u
    BY <1>0, <1>3, <2>1, <2>2, <2>3, StoredGoes
  <2> QED
    BY <1>3, <2>4
<1>10. request[c].pc \in {"idle", "scan", "index", "delete", "deleted"} \/ (StoreUser(c) /\ request[c].pc = "map")
  BY <1>1, <1>4, <1>5 DEF LoginGoes
<1> QED
  BY <1>8, <1>9, <1>10

AccountsKept == UsersKept /\ ListedInv /\ FirstInv /\ LoginsInv /\ HeldInv /\ GuardInv

LEMMA AccountsKeptInit == Init => AccountsKept
<1> SUFFICES ASSUME Init PROVE AccountsKept
  OBVIOUS
<1>1. UsersKept /\ \A c \in Clients : client[c].user = 0
  BY UsersKeptInit DEF Init
<1>2. \A c \in Clients : \A u : ~Settled(c, u)
  BY <1>1 DEF Settled
<1>3. \A c \in Clients : ~InLogin(c)
  BY DEF Init, Idle, InLogin
<1>4. GuardInv
  BY DEF Init, GuardInv
<1> QED
  BY <1>1, <1>2, <1>3, <1>4 DEF AccountsKept, ListedInv, FirstInv, LoginsInv, HeldInv

LEMMA AccountsKeptStep ==
    ASSUME AccountsKept, Next
    PROVE  AccountsKept'
<1>0. ListsKept /\ Seeing /\ UserInv
  BY DEF AccountsKept, UsersKept
<1>1. UsersKept'
  BY UsersKeptStep DEF AccountsKept
<1>2. ListedInv'
  BY <1>0, ListedInvStep DEF AccountsKept
<1>3. FirstInv'
  BY <1>0, FirstInvStep DEF AccountsKept
<1>4. LoginsInv'
  BY <1>0, LoginsInvStep DEF AccountsKept
<1>5. HeldInv'
  BY <1>0, HeldInvStep DEF AccountsKept
<1>6. GuardInv'
  BY <1>0, GuardInvStep DEF AccountsKept
<1> QED
  BY <1>1, <1>2, <1>3, <1>4, <1>5, <1>6 DEF AccountsKept

LEMMA AccountsKeptStutters ==
    ASSUME AccountsKept, UNCHANGED vars
    PROVE  AccountsKept'
<1>1. \A u : Shown(arrays, Lists, Work, u)' = Shown(arrays, Lists, Work, u)
  BY WorkStutters DEF vars
<1>2. UsersKept'
  BY UsersKeptStutters DEF AccountsKept
<1>3. \A c \in Clients : \A u : Settled(c, u)' => Settled(c, u)
  BY DEF vars, Settled
<1>4. \A x, u : /\ Undisturbed(x, u)' => Undisturbed(x, u)
                /\ Calm(u)' => Calm(u)
  BY WorkStutters DEF vars, Undisturbed, Calm
<1>5. ListedInv'
  BY <1>1, <1>3 DEF AccountsKept, ListedInv
<1>6. FirstInv'
  BY <1>1, <1>3, <1>4 DEF AccountsKept, vars, FirstInv, NoRival, FirstIs
<1>7. LoginsInv'
  BY DEF AccountsKept, vars, LoginsInv, InLogin
<1>8. HeldInv'
  BY <1>3 DEF AccountsKept, vars, HeldInv
<1>9. GuardInv'
  BY <1>1, <1>4 DEF AccountsKept, vars, GuardInv, EmptyAt
<1> QED
  BY <1>2, <1>5, <1>6, <1>7, <1>8, <1>9 DEF AccountsKept

LEMMA AccountsAreKept == Spec => []AccountsKept
<1>1. AccountsKept /\ [Next]_vars => AccountsKept'
  BY AccountsKeptStep, AccountsKeptStutters
<1> QED
  BY <1>1, AccountsKeptInit, PTL DEF Spec

\* The search of UserClient comes to c first.
LEMMA FirstFound ==
    ASSUME NEW c \in Clients, NEW L, L \in Seq(Goroutines), NEW p, p \in Seq(Clients),
           \/ L = p
           \/ L = Append(p, None)
           \/ \E d \in Clients : d # c /\ p = Append(L, d),
           In(c, p), FirstIs(c, p), NEW i, Finds(L, ByApp(client[c].app), i)
    PROVE  i # 0 /\ L[i] = c
<1>1. In(c, L) /\ c \in ByApp(client[c].app)
  BY UserListedIn DEF ByApp
<1>2. PICK k \in 1..Len(L) : L[k] = c
  BY <1>1 DEF In
<1>3. i \in 1..Len(L) /\ L[i] \in ByApp(client[c].app)
      /\ \A j \in 1..i - 1 : L[j] \notin ByApp(client[c].app)
  BY <1>1, <1>2 DEF Finds
<1>4. L[i] \in Clients /\ client[L[i]].app = client[c].app
  BY <1>3 DEF ByApp
<1>5. i \in 1..Len(p) /\ \A j \in 1..i : p[j] = L[j]
  <2>1. CASE L = p
    BY <1>3, <2>1
  <2>2. CASE L = Append(p, None)
    <3>1. Len(L) = Len(p) + 1 /\ L[Len(p) + 1] = None /\ \A j \in 1..Len(p) : L[j] = p[j]
      BY <2>2
    <3>2. i # Len(p) + 1
      BY <1>4, <3>1, NoneAssumption
    <3> QED
      BY <1>3, <3>1, <3>2
  <2>3. ASSUME NEW d \in Clients, p = Append(L, d)
        PROVE  i \in 1..Len(p) /\ \A j \in 1..i : p[j] = L[j]
    <3>1. Len(p) = Len(L) + 1 /\ \A j \in 1..Len(L) : L[j] = p[j]
      BY <2>3
    <3> QED
      BY <1>3, <3>1
  <2> QED
    BY <2>1, <2>2, <2>3
<1>6. PICK j \in 1..i : p[j] = c
  BY <1>4, <1>5 DEF FirstIs
<1>7. L[j] = c
  BY <1>5, <1>6
<1>8. ~(j \in 1..i - 1)
  BY <1>1, <1>3, <1>7
<1>9. j = i
  BY <1>3, <1>8
<1> QED
  BY <1>3, <1>7, <1>9

LEMMA LoginFollows ==
    ASSUME AccountsKept
    PROVE  LoginIsFound
<1>0. Typed /\ Ranged /\ RealWorld /\ ListsInv /\ ListsKept
  BY DEF AccountsKept, UsersKept, ListsKept, ListsInv
<1> SUFFICES ASSUME NEW c \in Clients, NEW u, u = client[c].user,
                    u # 0, Quiet(c), ~client[c].closed,
                    u \notin seen.lists, users[u].uid \notin seen.uids, c \notin seen.kicked,
                    \A d \in Clients \ {c} : <<d, u>> \notin seen.moved
             PROVE  UserClient(users[u].uid, client[c].app) = c
  BY DEF LoginIsFound
<1>1. request[c].pc = "idle" /\ hub.client # c
  BY DEF Quiet, InLogin
<1>2. u \in 1..Len(users) /\ u \in DOMAIN Lists
  <2>1. client[c].user \in 0..Len(users) /\ Len(users) \in Nat
    BY <1>0 DEF Typed, Ranged, ClientsRanged
  <2> QED
    BY <1>0, <2>1, GuestsList
<1>3. Settled(c, u) /\ Undisturbed(c, u) /\ Well(u)
  BY <1>0, <1>1, <1>2 DEF Settled, Undisturbed, Calm, ListsInv
<1>4. stored[users[u].uid] = u
  BY <1>1, <1>3 DEF AccountsKept, HeldInv
<1>5. PICK p \in Shown(arrays, Lists, Work, u) :
              /\ p \in Seq(Clients)
              /\ \/ Listed(Of(u)) = p
                 \/ Listed(Of(u)) = Append(p, None)
                 \/ \E d \in Clients : /\ request[d].pc = "added"
                                       /\ p = Append(Listed(Of(u)), d)
  BY <1>0, <1>2, <1>3, UserShown
<1>6. In(c, p) /\ FirstIs(c, p)
  BY <1>3 DEF AccountsKept, ListedInv, FirstInv
<1> DEFINE L == Listed(Of(u))
           app == client[c].app
           i == LoginIndex(app, u)
<1>7. L \in Seq(Goroutines) /\ Finds(L, ByApp(app), i)
  BY <1>0, <1>2, UserFacts, LoginFinds
<1>8. \/ L = p
      \/ L = Append(p, None)
      \/ \E d \in Clients : d # c /\ p = Append(L, d)
  BY <1>1, <1>5
<1>9. UserClient(users[u].uid, app) = IF i = 0 THEN None ELSE L[i]
  <2>1. i = IndexOf(L, LAMBDA d : d # None /\ client[d].app = app)
    BY DEF LoginIndex
  <2> QED
    BY <1>4, <2>1 DEF UserClient
<1> HIDE DEF i, L
<1>10. i # 0 /\ L[i] = c
  BY <1>5, <1>6, <1>7, <1>8, FirstFound
<1> QED
  BY <1>9, <1>10

\* A client that has logged in is the one that UserClient finds for its account
\* until it leaves, whoever else logs in, leaves or is cleaned up in between.
THEOREM LoginCorrect == Spec => []LoginIsFound
<1>1. AccountsKept => LoginIsFound
  BY LoginFollows
<1> QED
  BY <1>1, AccountsAreKept, PTL

-----------------------------------------------------------------------------
(* What a broadcast reaches.                                                 *)

\* append and slices.Delete leave what a slice holds: one that ends before the
\* place of append, and one of another array.
LEMMA AppendsSpare ==
    ASSUME NEW heap, NEW heap2, NEW L, NEW W, NEW W2, NEW g, NEW u, NEW x, NEW s,
           x \in Clients, World(heap, L, W), Appends(heap, heap2, L, W, W2, g, u, x),
           s \in Slice, IsSlice(heap, s), Within(s, L[u])
    PROVE  Contents(heap2, s) = Contents(heap, s)
<1> DEFINE xs == <<x>>
           own == L[u]
<1>0. u \in DOMAIN L /\ heap2 = Appended(heap, own, xs, None)
  BY DEF Appends
<1>1. heap \in Seq(Seq(Goroutines)) /\ own \in Slice /\ IsSlice(heap, own)
  BY <1>0 DEF World
<1>2. xs \in Seq(Goroutines) /\ None \in Goroutines
  BY DEF Goroutines
<1> HIDE DEF xs
<1> QED
  <2>1. Within(s, own)
    OBVIOUS
  <2> HIDE DEF own
  <2> QED
    BY <1>0, <1>1, <1>2, <2>1, AppendSpares

LEMMA DeletesSpare ==
    ASSUME NEW heap, NEW heap2, NEW L, NEW W, NEW W2, NEW g, NEW u, NEW i, NEW s,
           World(heap, L, W), Deletes(heap, heap2, L, W, W2, g, u, i),
           s \in Slice, IsSlice(heap, s), Foreign(s, L[u])
    PROVE  IsSlice(heap2, s) /\ Contents(heap2, s) = Contents(heap, s)
<1> DEFINE own == L[u]
<1>0. u \in DOMAIN L /\ PlaceIn(i, own) /\ heap2 = Deleted(heap, own, i, None)
  BY DEF Deletes
<1>1. heap \in Seq(Seq(Goroutines)) /\ own \in Slice /\ IsSlice(heap, own)
  BY <1>0 DEF World
<1>2. None \in Goroutines
  BY DEF Goroutines
<1>4. s.array # own.array \/ s.array = 0
  BY DEF Foreign
<1> HIDE DEF own
<1>3. heap2 \in Seq(Seq(Goroutines)) /\ Kept(heap, heap2, own.array)
  BY <1>0, <1>1, <1>2, DeleteKeeps
<1>5. Len(heap) \in Nat /\ Len(heap2) \in Nat
  BY <1>1, <1>3
<1> QED
  BY <1>3, <1>4, <1>5, SliceStays

\* What is read stays when a client is taken out of another array.
LEMMA FrozenDeletes ==
    ASSUME NEW heap, NEW heap2, NEW L, NEW W, NEW W2, NEW g, NEW u, NEW i, NEW s,
           g \in Goroutines, World(heap, L, W), Deletes(heap, heap2, L, W, W2, g, u, i),
           Frozen(heap, L, W, s), Foreign(s, L[u])
    PROVE  Frozen(heap2, L, W2, s)
<1>1. s \in Slice /\ IsSlice(heap, s) /\ Contents(heap, s) \in Seq(Clients)
  BY DEF Frozen
<1>2. IsSlice(heap2, s) /\ Contents(heap2, s) = Contents(heap, s)
  BY <1>1, DeletesSpare
<1>3. u \in DOMAIN L /\ L[u] \in Slice
  BY DEF Deletes, World
<1>4. \A v \in DOMAIN L \ {u} : Held(L, W2, v) = Held(L, W, v)
  BY DeleteStep DEF Elsewhere
<1>5. \A t \in Held(L, W2, u) : t \in Held(L, W, u) \/ t = Shorter(L[u])
  <2>1. W2[g].slice = Shorter(L[u]) /\ OthersStay(W, W2, g)
    BY DEF Deletes, Removes
  <2> QED
    BY <2>1 DEF Held, PendsAt, OthersStay
<1>6. Within(s, Shorter(L[u]))
  <2>1. Shorter(L[u]).array = L[u].array /\ Shorter(L[u]).len = L[u].len - 1
    BY <1>3 DEF Shorter, Slice
  <2>2. PlaceIn(i, L[u])
    BY DEF Deletes
  <2>3. L[u].len - 1 >= 0 /\ L[u].len \in Nat
    BY <1>3, <2>2 DEF PlaceIn, Slice
  <2>4. s.array = 0 => s.len = 0
    BY <1>1 DEF IsSlice, CapOf
  <2> QED
    BY <2>1, <2>3, <2>4 DEF Within, Foreign
<1> QED
  BY <1>1, <1>2, <1>3, <1>4, <1>5, <1>6 DEF Frozen

\* What is read stays, unless a client is taken out of its array.
LEMMA ReadStays ==
    ASSUME Typed, Ranged, ListsInv, Next,
           NEW s, Frozen(arrays, Lists, Work, s),
           \A g \in Goroutines : \A u \in DOMAIN Lists : \A i :
               Deleting(g, u, i) => Foreign(s, Lists[u])
    PROVE  /\ Frozen(arrays', Lists', Work', s)
           /\ Contents(arrays', s) = Contents(arrays, s)
<1>1. World(arrays, Lists, Work)
  BY DEF ListsInv, RealWorld
<1>2. s \in Slice /\ IsSlice(arrays, s)
  BY DEF Frozen
<1>3. CASE Still
  BY <1>1, <1>3, FrozenRests DEF Still
<1>4. ASSUME NEW g \in Goroutines, NEW u \in DOMAIN Lists,
             \/ \E x \in Clients : Appending(g, u, x)
             \/ \E i : Deleting(g, u, i)
             \/ Storing(g, u)
      PROVE  /\ Frozen(arrays', Lists', Work', s)
             /\ Contents(arrays', s) = Contents(arrays, s)
  <2>1. ASSUME NEW x \in Clients, Appending(g, u, x)
        PROVE  /\ Frozen(arrays', Lists', Work', s)
               /\ Contents(arrays', s) = Contents(arrays, s)
    <3>1. Appends(arrays, arrays', Lists, Work, Work', g, u, x) /\ Lists' = Lists
      BY <2>1 DEF Appending
    <3>2. Within(s, Lists[u])
      BY DEF Frozen, Held
    <3>3. Contents(arrays', s) = Contents(arrays, s)
      BY <1>1, <1>2, <3>1, <3>2, AppendsSpare
    <3>4. Frozen(arrays', Lists, Work', s)
      BY <1>1, <3>1, FrozenAppends
    <3> QED
      BY <3>1, <3>3, <3>4
  <2>2. ASSUME NEW i, Deleting(g, u, i)
        PROVE  /\ Frozen(arrays', Lists', Work', s)
               /\ Contents(arrays', s) = Contents(arrays, s)
    <3>1. Deletes(arrays, arrays', Lists, Work, Work', g, u, i) /\ Lists' = Lists
      BY <2>2 DEF Deleting
    <3>2. Foreign(s, Lists[u])
      BY <2>2
    <3>3. Contents(arrays', s) = Contents(arrays, s)
      BY <1>1, <1>2, <3>1, <3>2, DeletesSpare
    <3>4. Frozen(arrays', Lists, Work', s)
      BY <1>1, <3>1, <3>2, FrozenDeletes
    <3> QED
      BY <3>1, <3>3, <3>4
  <2>3. CASE Storing(g, u)
    BY <1>1, <2>3, FrozenStores DEF Storing
  <2> QED
    BY <1>4, <2>1, <2>2, <2>3
<1> QED
  BY <1>3, <1>4, AnyStep DEF ListsInv

\* A client that is listed stays so, unless it is taken out.
LEMMA ListedStays ==
    ASSUME ListsKept, Next, NEW u \in DOMAIN Lists, u # 0, Well(u),
           NEW c \in Clients, In(c, Contents(arrays, Lists[u])),
           hub.pc = "cut" => hub.client # c,
           \A d \in Clients : request[d].kick # c
    PROVE  In(c, Contents(arrays', Lists'[u]))
<1> DEFINE L == Contents(arrays, Lists[u])
           after == Contents(arrays', Lists'[u])
<1>0. /\ Typed /\ Ranged /\ RealWorld /\ World(arrays, Lists, Work)
      /\ Lists[u] \in Slice /\ IsSlice(arrays, Lists[u])
      /\ arrays \in Seq(Seq(Goroutines)) /\ L \in Seq(Goroutines)
      /\ c # None /\ None \in Goroutines
  <2>1. Typed /\ Ranged /\ RealWorld
    BY DEF ListsKept, ListsInv
  <2>2. /\ Lists[u] \in Slice /\ IsSlice(arrays, Lists[u]) /\ arrays \in Seq(Seq(Goroutines))
    BY <2>1 DEF RealWorld, World
  <2>3. L \in Seq(Goroutines)
    BY <2>2, ContentsType
  <2> QED
    BY <2>1, <2>2, <2>3, NoneAssumption DEF RealWorld, Goroutines
<1>1. CASE Still
  BY <1>1 DEF Still, Rests
<1>2. ASSUME NEW v \in DOMAIN Lists, v # u
      PROVE  Foreign(Lists[u], Lists[v])
  <2>1. Lists[u] \in Held(Lists, Work, u) /\ Lists[v] \in Held(Lists, Work, v)
    BY DEF Held
  <2> QED
    BY <1>0, <1>2, <2>1 DEF World, Apart
<1>3. ASSUME NEW g \in Goroutines, NEW v \in DOMAIN Lists, NEW x \in Clients, Appending(g, v, x)
      PROVE  In(c, after)
  <2>1. Within(Lists[u], Lists[v])
    <3>1. CASE v = u
      BY <1>0, <3>1 DEF Within, Slice
    <3>2. CASE v # u
      <4>1. Lists[v] \in Slice
        BY <1>0 DEF World
      <4> QED
        BY <1>0, <1>2, <3>2, <4>1 DEF Foreign, Within, IsSlice, CapOf, Slice
    <3> QED
      BY <3>1, <3>2
  <2>2. Appends(arrays, arrays', Lists, Work, Work', g, v, x) /\ Lists' = Lists
    BY <1>3 DEF Appending
  <2>3. Contents(arrays', Lists[u]) = L
    BY <1>0, <2>1, <2>2, AppendsSpare
  <2> QED
    BY <2>2, <2>3
<1>4. ASSUME NEW g \in Goroutines, NEW v \in DOMAIN Lists, NEW i, Deleting(g, v, i)
      PROVE  In(c, after)
  <2>1. Deletes(arrays, arrays', Lists, Work, Work', g, v, i) /\ Lists' = Lists
    BY <1>4 DEF Deleting
  <2>2. CASE v # u
    BY <1>0, <1>2, <2>1, <2>2, DeletesSpare
  <2>3. CASE v = u
    <3>1. PlaceIn(i, Lists[u]) /\ arrays' = Deleted(arrays, Lists[u], i, None)
      BY <2>1, <2>3 DEF Deletes
    <3> DEFINE q == WithoutAt(L, i)
    <3>2. after = Append(q, None)
      BY <1>0, <2>1, <3>1, DeleteKeeps
    <3>3. Work[g].op = "aims" /\ Work[g].list = u /\ Work[g].index = i
      BY <2>1, <2>3 DEF Deletes, Removes
    <3>4. L[i] = Work[g].who
      BY <3>3 DEF Well, Steady
    <3>5. Work[g].who # c
      <4>1. CASE g = None
        <5>1. hub.pc \in {"delete", "cut"} /\ HubList = u
          BY <3>3, <4>1, WorkFields DEF HubOp
        <5>2. hub.pc = "cut"
          BY <5>1 DEF HubList
        <5>3. Work[g] = HubWork
          BY <4>1, WorkIs
        <5> QED
          BY <5>2, <5>3 DEF HubWork
      <4>2. CASE g \in Clients
        <5>1. request[g].pc \in {"delete", "cut"} /\ RequestList(g) = u
          BY <3>3, <4>2, WorkFields DEF RequestOp
        <5>2. request[g].pc = "cut"
          BY <5>1 DEF RequestList
        <5>3. Work[g] = RequestWork(g)
          BY <4>2, WorkIs
        <5> QED
          BY <4>2, <5>2, <5>3 DEF RequestWork
      <4> QED
        BY <4>1, <4>2 DEF Goroutines
    <3>6. i \in 1..Len(L)
      <4>1. Len(L) = Lists[u].len
        BY <1>0, ContentsType
      <4> QED
        BY <3>1, <4>1 DEF PlaceIn
    <3>7. q \in Seq(Goroutines)
      BY <1>0, <3>6, WithoutType
    <3> HIDE DEF L
    <3>8. In(c, q)
      <4>1. In(c, L)
        BY DEF L
      <4> QED
        BY <1>0, <3>4, <3>5, <3>6, <4>1, WithoutIn
    <3> HIDE DEF q
    <3>9. In(c, Append(q, None))
      BY <1>0, <3>7, <3>8, AppendIn
    <3> QED
      BY <3>2, <3>9
  <2> QED
    BY <2>2, <2>3
<1>5. ASSUME NEW g \in Goroutines, NEW v \in DOMAIN Lists, Storing(g, v)
      PROVE  In(c, after)
  <2>1. Stores(Lists, Lists', Work, Work', g, v) /\ arrays' = arrays
    BY <1>5 DEF Storing
  <2>2. CASE v # u
    BY <2>1, <2>2 DEF Stores
  <2>3. CASE v = u
    <3> DEFINE q == Contents(arrays, Work[g].slice)
    <3>1. Lists'[u] = Work[g].slice /\ Work[g].list = u /\ Work[g].op \in {"adds", "removes"}
      BY <2>1, <2>3 DEF Stores, WorksAt, Pending
    <3>2. q \in Seq(Clients)
      <4>1. q \in Shown(arrays, Lists, Work, u)
        BY <3>1 DEF Shown, PendsAt, Pending
      <4> QED
        BY <4>1 DEF Well, Steady
    <3>3. CASE Work[g].op = "removes"
      <4>1. L = Append(q, None)
        BY <3>1, <3>3 DEF Well, Steady
      <4>2. q \in Seq(Goroutines)
        BY <3>2 DEF Goroutines
      <4> HIDE DEF q, L
      <4>3. In(c, Append(q, None))
        BY <4>1 DEF L
      <4>4. In(c, q)
        BY <1>0, <4>2, <4>3, AppendIn
      <4> QED
        BY <2>1, <3>1, <4>4 DEF q
    <3>4. CASE Work[g].op = "adds"
      <4>1. q = Append(L, Work[g].who)
        BY <3>1, <3>4 DEF Well, Steady
      <4> DEFINE x == Work[g].who
      <4> HIDE DEF q, L, x
      <4>2. Append(L, x) = q /\ Len(L) \in Nat /\ \A k \in 1..Len(L) : k \in 1..Len(Append(L, x)) /\ Append(L, x)[k] = L[k]
        BY <1>0, <4>1 DEF x
      <4>3. In(c, L)
        BY DEF L
      <4>4. In(c, q)
        BY <4>2, <4>3 DEF In
      <4> QED
        BY <2>1, <3>1, <4>4 DEF q
    <3> QED
      BY <3>1, <3>3, <3>4
  <2> QED
    BY <2>2, <2>3
<1> QED
  BY <1>0, <1>1, <1>3, <1>4, <1>5, AnyStep

\* The hub closes who has left or was sent to Disconnect; a broadcast begins
\* before anything is noted of it.
Gone(c) == client[c].left \/ c \in seen.kicked
StayInv ==
    /\ \A c \in Clients : client[c].closed => Gone(c)
    /\ hub.pc \notin {"select", "append", "appended"} => Gone(hub.client)
    /\ cast.pc = "idle" => seen.shifted = {}

LEMMA CastBegins ==
    ASSUME Typed, Next, cast'.pc = "idle"
    PROVE  cast.pc = "idle"
<1>0. cast \in CastType
  BY DEF Typed
<1>1. CASE cast' = cast
  BY <1>1
<1>2. CASE Broadcast
  BY <1>0, <1>2 DEF Broadcast, CastType
<1>3. CASE SendNext
  <2>1. CASE Crash
    BY <2>1 DEF Crash
  <2>2. CASE ~Crash
    <3>1. PICK x : cast' = [cast EXCEPT !.at = @ + 1, !.owed = @ \ {x}]
      BY <1>3, <2>2 DEF SendNext
    <3>2. cast'.pc = cast.pc
      BY <3>1, <1>0 DEF CastType
    <3> QED
      BY <3>2
  <2> QED
    BY <2>1, <2>2
<1>4. CASE EndOfSlice
  BY <1>0, <1>4 DEF EndOfSlice, CastType
<1>5. CASE RangeUsers
  <2>1. \/ cast' = [cast EXCEPT !.pc = "done", !.at = 0]
        \/ \E uid \in cast.left :
             \/ cast' = [cast EXCEPT !.left = @ \ {uid}]
             \/ cast' = [cast EXCEPT !.left = @ \ {uid}, !.at = 1,
                                     !.pc = "user", !.slice = Of(stored[uid])]
    BY <1>5 DEF RangeUsers
  <2>2. cast.pc = "range"
    BY <1>5 DEF RangeUsers
  <2>3. cast'.pc \in {"done", "range", "user"}
    BY <1>0, <2>1, <2>2 DEF CastType
  <2> QED
    BY <2>3
<1>6. CASE HubStep \/ (\E c \in Clients : RequestStep(c)) \/ GuardStep
  <2>1. cast' = cast
    BY <1>6, Zenon DEF HubStep, RequestStep, GuardStep, Connect, Disconnect, AppendGuest, StoreGuests,
       AppLogout, LogoutCut, LogoutStore, CloseGuest, HubFindGuest, HubDeleteGuest,
       UserLogin, AppLogin, LoginCut, LoginAdd, LoginStore, Kick, StoreUser, FindGuest,
       DeleteGuest, StoreDeleted, GuardFinds, GuardDeletes, Crash
  <2> QED
    BY <2>1
<1> QED
  BY <1>2, <1>3, <1>4, <1>5, <1>6 DEF Next, CastStep

\* Who is gone stays so.
LEMMA GoneStays ==
    ASSUME Typed, SeenTyped, Next
    PROVE  \A c \in Clients : Gone(c) => Gone(c)'
<1>0. seen.kicked \subseteq seen'.kicked /\ client \in [Clients -> ClientType]
  BY SeenStep DEF Typed
<1>1. \A c \in Clients : client[c].left => client'[c].left
  <2>1. CASE client' = client
    BY <2>1
  <2>2. ASSUME NEW d \in Clients, Disconnect(d) \/ Connect(d)
        PROVE  \A c \in Clients : client[c].left => client'[c].left
    BY <1>0, <2>2 DEF Disconnect, Connect, ClientType
  <2>3. CASE LogoutStore \/ CloseGuest
    BY <1>0, <2>3 DEF LogoutStore, CloseGuest, ClientType
  <2>4. ASSUME NEW d \in Clients, UserLogin(d)
        PROVE  \A c \in Clients : client[c].left => client'[c].left
    <3>1. client' = [client EXCEPT ![d].logins = Tail(@)]
      BY <2>4, UserLoginDoes
    <3> QED
      BY <1>0, <3>1 DEF ClientType
  <2>5. ASSUME NEW d \in Clients, AppLogin(d)
        PROVE  \A c \in Clients : client[c].left => client'[c].left
    <3>1. \/ Crash
          \/ client' = [client EXCEPT ![d].user = request[d].user, ![d].app = request[d].app]
      BY <2>5, AppLoginDoes
    <3> QED
      BY <1>0, <3>1 DEF ClientType, Crash
  <2>6. CASE HubStep
    <3>1. CASE \E d \in Clients : Disconnect(d) \/ Connect(d)
      BY <2>2, <3>1
    <3>2. CASE LogoutStore \/ CloseGuest
      BY <2>3, <3>2
    <3>3. CASE AppendGuest \/ StoreGuests \/ AppLogout \/ LogoutCut \/ HubFindGuest \/ HubDeleteGuest
      BY <2>1, <3>3 DEF AppendGuest, StoreGuests, AppLogout, LogoutCut, HubFindGuest,
         HubDeleteGuest, Crash
    <3> QED
      BY <2>6, <3>1, <3>2, <3>3 DEF HubStep
  <2>7. ASSUME NEW d \in Clients, RequestStep(d)
        PROVE  \A c \in Clients : client[c].left => client'[c].left
    <3>1. CASE UserLogin(d) \/ AppLogin(d)
      BY <2>4, <2>5, <3>1
    <3>2. CASE ~(UserLogin(d) \/ AppLogin(d))
      BY <2>1, <2>7, <3>2 DEF RequestStep, LoginCut, LoginAdd, LoginStore, Kick, StoreUser,
         FindGuest, DeleteGuest, StoreDeleted, Crash
    <3> QED
      BY <3>1, <3>2
  <2>8. CASE GuardStep \/ CastStep
    BY <2>1, <2>8 DEF GuardStep, GuardFinds, GuardDeletes, CastStep, Broadcast, SendNext,
       EndOfSlice, RangeUsers, Crash
  <2> QED
    BY <2>6, <2>7, <2>8 DEF Next
<1> QED
  BY <1>0, <1>1 DEF Gone

\* The hub goes on with its client, or receives one that leaves or is kicked.
LEMMA HubGoesOn ==
    ASSUME Typed, Ranged, SeenTyped, Seeing, Next,
           hub'.pc \notin {"select", "append", "appended"}
    PROVE  \/ hub'.client = hub.client /\ hub.pc \notin {"select", "append", "appended"}
           \/ \E x \in Clients : hub'.client = x /\ Gone(x)'
<1>0. hub \in HubType /\ client \in [Clients -> ClientType] /\ seen.kicked \subseteq seen'.kicked
  BY SeenStep DEF Typed
<1>1. CASE hub' = hub
  BY <1>1
<1>2. ASSUME NEW c \in Clients, Disconnect(c)
      PROVE  \E x \in Clients : hub'.client = x /\ Gone(x)'
  <2>1. hub'.client = c
    BY <1>2, ReceiveTyped DEF Disconnect
  <2>2. client'[c].left
    BY <1>0, <1>2 DEF Disconnect, ClientType
  <2>3. Gone(c)'
    BY <2>2 DEF Gone
  <2> QED
    BY <2>1, <2>3 DEF Gone
<1>3. ASSUME NEW c \in Clients, Kick(c)
      PROVE  \E x \in Clients : hub'.client = x /\ Gone(x)'
  <2>1. request[c].kick # None /\ request[c].kick \in Clients
    BY <1>3 DEF Kick, Ranged, RequestsRanged, Typed, RequestType, Goroutines
  <2>2. hub'.client = request[c].kick
    BY <1>3, <2>1, ReceiveTyped DEF Kick
  <2>3. request[c].kick \in seen'.kicked
    BY <1>0, <2>1, KickedSeen
  <2> QED
    BY <2>1, <2>2, <2>3 DEF Gone
<1>4. ASSUME NEW c \in Clients, Connect(c)
      PROVE  FALSE
  BY <1>0, <1>4 DEF Connect, HubType
<1>5. CASE AppendGuest \/ StoreGuests
  <2>1. CASE AppendGuest
    <3>1. hub'.pc = "appended"
      BY <1>0, <2>1 DEF AppendGuest, HubType
    <3> QED
      BY <3>1
  <2>2. CASE StoreGuests
    BY <2>2 DEF StoreGuests, Resting
  <2> QED
    BY <1>5, <2>1, <2>2
<1>6. CASE AppLogout
  <2> DEFINE u == client[hub.client].user
             i == LogoutIndex(hub.client, u)
  <2>1. \/ Crash
        \/ hub' = IF i = 0 THEN Resting
                  ELSE [hub EXCEPT !.pc = "cut", !.user = u, !.index = i]
    BY <1>6 DEF AppLogout, LogoutIndex
  <2> HIDE DEF u, i
  <2>2. hub' = hub \/ hub' = Resting \/ hub'.client = hub.client
    BY <1>0, <2>1 DEF Crash, HubType
  <2>3. hub.pc = "logout"
    BY <1>6 DEF AppLogout
  <2> QED
    BY <2>2, <2>3 DEF Resting
<1>7. CASE LogoutCut \/ CloseGuest \/ HubDeleteGuest
  <2>1. hub.pc \in {"cut", "close", "delete"}
    BY <1>7 DEF LogoutCut, CloseGuest, HubDeleteGuest
  <2>2. hub'.client = hub.client
    BY <1>0, <1>7 DEF LogoutCut, CloseGuest, HubDeleteGuest, HubType, Crash
  <2> QED
    BY <2>1, <2>2
<1>8. CASE LogoutStore
  BY <1>8 DEF LogoutStore, Resting
<1>9. CASE HubFindGuest
  <2>1. PICK i : hub' = IF i = 0 THEN Resting ELSE [hub EXCEPT !.pc = "delete", !.index = i]
    BY <1>9 DEF HubFindGuest
  <2>2. hub.pc = "index"
    BY <1>9 DEF HubFindGuest
  <2>3. hub' = Resting \/ hub'.client = hub.client
    BY <1>0, <2>1 DEF HubType
  <2> QED
    BY <2>2, <2>3 DEF Resting
<1>10. ASSUME NEW c \in Clients, RequestStep(c), ~Kick(c)
       PROVE  hub' = hub
  BY <1>10, Zenon DEF RequestStep, UserLogin, AppLogin, LoginCut, LoginAdd, LoginStore, StoreUser,
     FindGuest, DeleteGuest, StoreDeleted, Crash
<1>11. CASE GuardStep \/ CastStep
  BY <1>1, <1>11 DEF GuardStep, GuardFinds, GuardDeletes, CastStep, Broadcast, SendNext,
     EndOfSlice, RangeUsers, Crash
<1>12. CASE HubStep
  BY <1>2, <1>4, <1>5, <1>6, <1>7, <1>8, <1>9, <1>12 DEF HubStep
<1> QED
  BY <1>1, <1>3, <1>10, <1>11, <1>12 DEF Next

LEMMA StayInvStep ==
    ASSUME ListsKept, Seeing, StayInv, Next
    PROVE  StayInv'
<1>0. Typed /\ Ranged /\ SeenTyped /\ \A c \in Clients : Gone(c) => Gone(c)'
  BY GoneStays DEF ListsKept
<1>1. ASSUME NEW c \in Clients, client'[c].closed
      PROVE  Gone(c)'
  <2>1. CASE client[c].closed
    BY <1>0, <2>1 DEF StayInv
  <2>2. CASE ~client[c].closed
    <3>1. LogoutStore \/ CloseGuest
      BY <1>0, <1>1, <2>2, ClosedStay
    <3>2. hub.pc \in {"store", "close"} /\ client' = [client EXCEPT ![hub.client].closed = TRUE]
      BY <3>1 DEF LogoutStore, CloseGuest
    <3>3. c = hub.client
      BY <1>0, <1>1, <2>2, <3>2 DEF Typed, ClientType
    <3>4. Gone(c)
      BY <3>2, <3>3 DEF StayInv
    <3> QED
      BY <1>0, <3>4
  <2> QED
    BY <2>1, <2>2
<1>2. ASSUME hub'.pc \notin {"select", "append", "appended"}
      PROVE  Gone(hub.client)'
  <2>1. CASE hub'.client = hub.client /\ hub.pc \notin {"select", "append", "appended"}
    <3>1. PICK x \in Clients : hub.client = x
      BY <1>0, <2>1 DEF Ranged, HubRanged
    <3>2. Gone(x)'
      BY <1>0, <2>1, <3>1 DEF StayInv
    <3> QED
      BY <2>1, <3>1, <3>2 DEF Gone
  <2>2. CASE \E x \in Clients : hub'.client = x /\ Gone(x)'
    BY <2>2 DEF Gone
  <2> QED
    BY <1>0, <1>2, <2>1, <2>2, HubGoesOn
<1>3. ASSUME cast'.pc = "idle"
      PROVE  seen'.shifted = {}
  <2>1. cast.pc = "idle"
    BY <1>0, <1>3, CastBegins
  <2>2. Now'.shifted = {}
    BY <1>3 DEF Now
  <2> QED
    BY <1>0, <2>1, <2>2, SeenStep DEF StayInv
<1> QED
  BY <1>1, <1>2, <1>3 DEF StayInv

\* A client that the broadcast owes its message, as long as nothing has
\* happened that excepts it; it is ahead in the slice that is read, or in the
\* list of a user that Users holds.
Owing(c) == /\ seen.lists = {} /\ seen.uids = {} /\ ~Gone(c)
            /\ seen.shifted \subseteq {c}
Ahead(c) == \E i \in 1..Len(Listed(cast.slice)) :
                i >= cast.at /\ Listed(cast.slice)[i] = c
ServedBy(c, uid) == stored[uid] # 0 /\ In(c, Listed(Of(stored[uid])))

LEMMA OwingBefore ==
    ASSUME Typed, SeenTyped, Next, NEW c \in Clients, Owing(c)'
    PROVE  Owing(c)
  BY GoneStays, SeenStep DEF Owing

\* While a broadcast reads, only a client that has logged in is taken out of an
\* array, of Guests.
Removers ==
    Typed /\ Ranged /\ Seeing /\ StayInv /\ Reading =>
        \A c \in Clients : Owing(c) =>
            /\ \A g \in Goroutines : Work[g].op = "removes" => Work[g].list = 0
            /\ Removed # {} => request[c].pc = "deleted"

LEMMA RemoversAre == Removers
<1> SUFFICES ASSUME Typed, Ranged, Seeing, StayInv, Reading, NEW c \in Clients, Owing(c)
             PROVE  /\ \A g \in Goroutines : Work[g].op = "removes" => Work[g].list = 0
                    /\ Removed # {} => request[c].pc = "deleted"
  BY DEF Removers
<1>1. Removed \subseteq {c}
  <2>1. Removed \subseteq Now.shifted
    BY DEF Now, Reading
  <2> QED
    BY <2>1 DEF Seeing, Owing
<1>2. hub.pc \notin {"deleted", "store"}
  <2> SUFFICES ASSUME hub.pc \in {"deleted", "store"} PROVE FALSE
    OBVIOUS
  <2>1. hub.client \in Removed
    BY DEF Removed
  <2>2. Gone(c)
    BY <1>1, <2>1 DEF StayInv
  <2> QED
    BY <2>2 DEF Owing
<1>3. \A d \in Clients : request[d].pc # "cutted"
  <2> SUFFICES ASSUME NEW d \in Clients, request[d].pc = "cutted" PROVE FALSE
    OBVIOUS
  <2>1. request[d].kick \in Removed
    BY DEF Removed
  <2>2. request[d].kick = c /\ c # None
    BY <1>1, <2>1, NoneAssumption
  <2>3. c \in seen.kicked
    BY <2>2, KickedSeen
  <2> QED
    BY <2>3 DEF Owing, Gone
<1>4. Removed # {} => request[c].pc = "deleted"
  BY <1>1, <1>2, <1>3 DEF Removed
<1>5. ASSUME NEW g \in Goroutines, Work[g].op = "removes"
      PROVE  Work[g].list = 0
  <2>1. CASE g = None
    BY <1>2, <1>5, <2>1, WorkFields DEF HubOp
  <2>2. CASE g \in Clients
    <3>1. request[g].pc = "deleted"
      BY <1>3, <1>5, <2>2, WorkFields DEF RequestOp
    <3> QED
      BY <2>2, <3>1, WorkFields DEF RequestList
  <2> QED
    BY <2>1, <2>2 DEF Goroutines
<1> QED
  BY <1>4, <1>5

LEMMA RemoversAreThen == Removers'
  BY RemoversAre, PTL

\* Who has just been taken out of Guests is listed at its user.
OwnRemoval ==
    AccountsKept /\ StayInv =>
        \A c \in Clients : Owing(c) /\ request[c].pc = "deleted" =>
            \E uid \in Uids : ServedBy(c, uid)

LEMMA OwnRemovalServes == OwnRemoval
<1> SUFFICES ASSUME AccountsKept, StayInv, NEW c \in Clients, Owing(c),
                    request[c].pc = "deleted"
             PROVE  \E uid \in Uids : ServedBy(c, uid)
  BY DEF OwnRemoval
<1>0. Typed /\ Ranged /\ RealWorld /\ ListsInv /\ ListsKept
  BY DEF AccountsKept, UsersKept, ListsKept, ListsInv
<1> DEFINE u == client[c].user
<1>1. u = request[c].user /\ InLogin(c)
  BY <1>0 DEF Ranged, RequestsRanged, InLogin
<1>2. u \in 1..Len(users) /\ u # 0 /\ users[u].uid \in Uids
  BY <1>0, <1>1, LoginUid
<1>3. u \in DOMAIN Lists
  BY <1>0, <1>2, GuestsList
<1>4. Well(u)
  BY <1>0, <1>3 DEF ListsInv, Calm, Owing
<1>5. Settled(c, u)
  <2>1. ~client[c].closed /\ ~(hub.pc = "store" /\ hub.client = c) /\ c \notin seen.kicked
    BY DEF StayInv, Owing, Gone
  <2> QED
    BY <1>2, <2>1 DEF Settled, Owing
<1>6. stored[users[u].uid] = u
  BY <1>5 DEF AccountsKept, HeldInv, Owing
<1> HIDE DEF u
<1>7. PICK p \in Shown(arrays, Lists, Work, u) :
              /\ p \in Seq(Clients)
              /\ \/ Listed(Of(u)) = p
                 \/ Listed(Of(u)) = Append(p, None)
                 \/ \E d \in Clients : /\ request[d].pc = "added"
                                       /\ p = Append(Listed(Of(u)), d)
  BY <1>0, <1>2, <1>4, UserShown
<1>8. In(c, p)
  BY <1>5, <1>7 DEF AccountsKept, ListedInv
<1>9. Listed(Of(u)) \in Seq(Goroutines)
  BY <1>0, <1>2, UserFacts
<1>10. In(c, Listed(Of(u)))
  BY <1>7, <1>8, <1>9, UserListedIn
<1> QED
  BY <1>2, <1>6, <1>10 DEF ServedBy

LEMMA OwnRemovalServesThen == OwnRemoval'
  BY OwnRemovalServes, PTL

\* A client that is listed at a user that Users holds stays so.
LEMMA ServedStays ==
    ASSUME AccountsKept, StayInv, Next, NEW c \in Clients, Owing(c),
           NEW uid \in Uids, ServedBy(c, uid)
    PROVE  ServedBy(c, uid)'
<1>0. Typed /\ Ranged /\ RealWorld /\ ListsInv /\ ListsKept /\ Seeing
  BY DEF AccountsKept, UsersKept, ListsKept, ListsInv
<1> DEFINE u == stored[uid]
<1>1. u \in 1..Len(users) /\ u # 0
  <2>1. u \in 0..Len(users) /\ Len(users) \in Nat
    BY <1>0 DEF Ranged, StoredRanged, Typed
  <2> QED
    BY <2>1 DEF ServedBy
<1>2. u \in DOMAIN Lists /\ Lists[u] = Of(u)
  BY <1>0, <1>1, GuestsList
<1>3. Calm(u) /\ Well(u)
  BY <1>0, <1>2 DEF ListsInv, Calm, Owing
<1>4. Listed(Of(u)) \in Seq(Goroutines) /\ In(c, Listed(Of(u)))
  BY <1>0, <1>1, UserFacts DEF ServedBy
<1> HIDE DEF u
<1>5. guard # uid
  <2> SUFFICES ASSUME guard = uid PROVE FALSE
    OBVIOUS
  <2>1. guard # NoUid
    BY NoUidAssumption
  <2>2. EmptyAt(u)
    BY <1>1, <1>3, <2>1 DEF AccountsKept, GuardInv, Owing, u
  <2>3. PICK p \in Shown(arrays, Lists, Work, u) :
              /\ p \in Seq(Clients)
              /\ \/ Listed(Of(u)) = p
                 \/ Listed(Of(u)) = Append(p, None)
                 \/ \E d \in Clients : /\ request[d].pc = "added"
                                       /\ p = Append(Listed(Of(u)), d)
    BY <1>0, <1>1, <1>3, UserShown
  <2>4. p = <<>>
    BY <2>2, <2>3 DEF EmptyAt
  <2> DEFINE L == Listed(Of(u))
  <2> HIDE DEF L
  <2>5. L \in Seq(Goroutines) /\ In(c, L) /\ c # None
    BY <1>4, NoneAssumption DEF L
  <2>6. CASE L = <<>>
    BY <2>5, <2>6 DEF In
  <2>7. CASE L = Append(p, None)
    <3>1. Len(L) = 1 /\ L[1] = None
      BY <2>4, <2>7
    <3> QED
      BY <2>5, <3>1 DEF In
  <2>8. ASSUME NEW d \in Clients, p = Append(L, d) PROVE FALSE
    <3>1. Len(p) = Len(L) + 1 /\ Len(L) \in Nat
      BY <2>5, <2>8
    <3> QED
      BY <2>4, <3>1
  <2> QED
    BY <2>3, <2>4, <2>6, <2>7, <2>8 DEF L
<1>6. ASSUME NEW d \in Clients, request[d].pc = "map", request[d].uid = uid
      PROVE  request[d].user = u
  <2>1. InLogin(d) /\ uid \notin seen.uids
    BY <1>6 DEF InLogin, Owing
  <2>2. stored[uid] \in {0, request[d].user}
    BY <1>6, <2>1 DEF AccountsKept, LoginsInv
  <2> QED
    BY <1>1, <2>2 DEF u
<1>7. stored'[uid] = u
  BY <1>0, <1>5, <1>6, StoredGoes DEF u
<1>8. hub.pc = "cut" => hub.client # c
  BY DEF StayInv, Owing
<1>9. \A d \in Clients : request[d].kick # c
  BY <1>0, KickedSeen, NoneAssumption DEF Owing, Gone
<1>10. In(c, Contents(arrays', Lists'[u]))
  BY <1>0, <1>1, <1>2, <1>3, <1>4, <1>8, <1>9, ListedStays DEF Listed
<1>11. Lists'[u] = users'[u].clients
  <2>1. u \in 1..Len(users') /\ u \in 0..Len(users')
    BY <1>0, <1>1, UidsStay
  <2> QED
    BY <1>1, <2>1 DEF Lists, Of
<1> QED
  BY <1>1, <1>7, <1>10, <1>11 DEF ServedBy, Listed, Of

\* What a broadcast does in a step.
Begins == /\ cast.pc = "idle" /\ cast'.pc = "guests"
          /\ cast'.slice = guests /\ cast'.at = 1
          /\ cast'.owed = {c \in Clients : InSlice(c, guests) \/ InUsers(c)}
Sends == /\ Reading /\ cast.at <= cast.slice.len
         /\ cast'.pc = cast.pc /\ cast'.slice = cast.slice /\ cast'.at = cast.at + 1
         /\ cast'.left = cast.left
         /\ cast'.owed = cast.owed \ {arrays[cast.slice.array][cast.at]}
Ends == /\ Reading /\ cast.at > cast.slice.len
        /\ cast'.pc = "range" /\ cast'.owed = cast.owed
        /\ cast'.left = IF cast.pc = "guests" THEN Uids ELSE cast.left
Over == /\ cast.pc = "range" /\ cast.left = {}
        /\ cast'.pc = "done" /\ cast'.owed = cast.owed
Skips(uid) == /\ cast.pc = "range" /\ uid \in cast.left /\ stored[uid] = 0
              /\ cast'.pc = "range" /\ cast'.left = cast.left \ {uid} /\ cast'.owed = cast.owed
Reads(uid) == /\ cast.pc = "range" /\ uid \in cast.left /\ stored[uid] # 0
              /\ cast'.pc = "user" /\ cast'.slice = Of(stored[uid]) /\ cast'.at = 1
              /\ cast'.left = cast.left \ {uid} /\ cast'.owed = cast.owed
Casts == Begins \/ Sends \/ Ends \/ Over \/ \E uid \in Uids : Skips(uid) \/ Reads(uid)

LEMMA CastGoes ==
    ASSUME Typed, Next
    PROVE  \/ cast' = cast
           \/ /\ CastStep /\ UNCHANGED <<arrays, guests, stored, users, client, request>>
              /\ Casts
<1>0. cast \in CastType
  BY DEF Typed
<1>1. CASE Crash
  BY <1>1 DEF Crash
<1>2. CASE Broadcast
  <2>1. Begins
    BY <1>0, <1>2 DEF Broadcast, Begins, CastType
  <2> QED
    BY <1>2, <2>1 DEF Broadcast, CastStep, Casts
<1>3. CASE SendNext /\ ~Crash
  <2> DEFINE x == arrays[cast.slice.array][cast.at]
  <2>1. /\ cast' = [cast EXCEPT !.at = @ + 1, !.owed = @ \ {x}]
        /\ Reading /\ cast.at <= cast.slice.len
        /\ UNCHANGED <<arrays, guests, stored, users, client, request>>
    BY <1>3 DEF SendNext, Reading
  <2> HIDE DEF x
  <2>2. Sends
    BY <1>0, <2>1 DEF Sends, CastType, x
  <2> QED
    BY <1>3, <2>1, <2>2 DEF CastStep, Casts
<1>4. CASE EndOfSlice
  <2>1. Ends
    BY <1>0, <1>4 DEF EndOfSlice, Ends, CastType, Reading
  <2> QED
    BY <1>4, <2>1 DEF EndOfSlice, CastStep, Casts
<1>5. CASE RangeUsers
  <2>0. cast.pc = "range" /\ UNCHANGED <<arrays, guests, stored, users, client, request>>
    BY <1>5 DEF RangeUsers
  <2>1. CASE cast.left = {} /\ cast' = [cast EXCEPT !.pc = "done", !.at = 0]
    <3>1. Over
      BY <1>0, <2>0, <2>1 DEF Over, CastType
    <3> QED
      BY <1>5, <2>0, <3>1 DEF CastStep, Casts
  <2>2. ASSUME NEW uid \in cast.left,
               cast' = IF stored[uid] = 0 THEN [cast EXCEPT !.left = @ \ {uid}]
                       ELSE [cast EXCEPT !.left = @ \ {uid}, !.at = 1,
                                         !.pc = "user", !.slice = Of(stored[uid])]
        PROVE  \E v \in Uids : Skips(v) \/ Reads(v)
    <3>1. uid \in Uids
      BY <1>0 DEF CastType
    <3>2. CASE stored[uid] = 0
      BY <1>0, <2>0, <2>2, <3>1, <3>2 DEF Skips, CastType
    <3>3. CASE stored[uid] # 0
      <4>1. cast' = [cast EXCEPT !.left = @ \ {uid}, !.at = 1,
                                         !.pc = "user", !.slice = Of(stored[uid])]
        BY <2>2, <3>3
      <4>2. Reads(uid)
        BY <1>0, <2>0, <3>3, <4>1 DEF Reads, CastType
      <4> QED
        BY <3>1, <4>2
    <3> QED
      BY <3>2, <3>3
  <2> QED
    BY <1>5, <2>0, <2>1, <2>2, Zenon DEF RangeUsers, CastStep, Casts
<1>6. CASE HubStep \/ (\E c \in Clients : RequestStep(c)) \/ GuardStep
  <2>1. cast' = cast
    BY <1>6, Zenon DEF HubStep, RequestStep, GuardStep, Connect, Disconnect, AppendGuest, StoreGuests,
       AppLogout, LogoutCut, LogoutStore, CloseGuest, HubFindGuest, HubDeleteGuest,
       UserLogin, AppLogin, LoginCut, LoginAdd, LoginStore, Kick, StoreUser, FindGuest,
       DeleteGuest, StoreDeleted, GuardFinds, GuardDeletes, Crash
  <2> QED
    BY <2>1
<1> QED
  BY <1>1, <1>2, <1>3, <1>4, <1>5, <1>6 DEF Next, CastStep

\* The slice of a user that is read is not one of Guests.
ApartGuests(s) == /\ s.array \in 0..Len(arrays)
                  /\ \A t \in Held(Lists, Work, 0) : Foreign(s, t)
ApartInv == cast.pc = "user" => ApartGuests(cast.slice)

LEMMA ApartStays ==
    ASSUME Typed, Ranged, ListsInv, Next, NEW s, ApartGuests(s)
    PROVE  ApartGuests(s)'
<1>0. /\ RealWorld /\ World(arrays, Lists, Work) /\ 0 \in DOMAIN Lists
      /\ arrays \in Seq(Seq(Goroutines)) /\ Len(arrays) \in Nat
  <2>1. World(arrays, Lists, Work)
    BY DEF ListsInv, RealWorld
  <2> QED
    BY <2>1, GuestsList DEF World, RealWorld
<1>1. /\ s.array \in 0..Len(arrays) /\ \A t \in Held(Lists, Work, 0) : Foreign(s, t)
      /\ Lists[0] \in Held(Lists, Work, 0)
  BY DEF ApartGuests, Held
<1>2. CASE Still
  <2>1. Held(Lists', Work', 0) = Held(Lists, Work, 0) /\ arrays' = arrays
    BY <1>0, <1>2, RestStep DEF Still
  <2> QED
    BY <1>1, <2>1 DEF ApartGuests
\* What is made at a list is of its array or of a new one.
<1>3. ASSUME NEW g \in Goroutines, NEW u \in DOMAIN Lists, NEW t,
             Len(arrays) <= Len(arrays'), Len(arrays') \in Nat,
             t.array \in {Lists[u].array, Len(arrays) + 1},
             Lists' = Lists, Work'[g].slice = t, OthersStay(Work, Work', g),
             Work'[g].list = u
      PROVE  ApartGuests(s)'
  <2>1. s.array \in 0..Len(arrays')
    BY <1>0, <1>1, <1>3
  <2>2. ASSUME NEW r \in Held(Lists', Work', 0)
        PROVE  Foreign(s, r)
    <3>1. CASE r \in Held(Lists, Work, 0)
      BY <1>1, <3>1
    <3>2. CASE r \notin Held(Lists, Work, 0)
      <4>1. PICK h \in Goroutines : PendsAt(Work', h, 0) /\ r = Work'[h].slice
        BY <1>3, <2>2, <3>2 DEF Held
      <4>2. h = g
        BY <1>3, <3>2, <4>1 DEF Held, PendsAt, OthersStay
      <4>3. u = 0 /\ r = t
        BY <1>3, <4>1, <4>2 DEF PendsAt
      <4>4. Foreign(s, Lists[0])
        BY <1>1
      <4> QED
        BY <1>0, <1>1, <1>3, <4>3, <4>4 DEF Foreign
    <3> QED
      BY <3>1, <3>2
  <2> QED
    BY <2>1, <2>2 DEF ApartGuests
<1>4. ASSUME NEW g \in Goroutines, NEW u \in DOMAIN Lists, NEW x \in Clients, Appending(g, u, x)
      PROVE  ApartGuests(s)'
  <2> DEFINE xs == <<x>>
             own == Lists[u]
             t == AppendTo(arrays, own, xs)
  <2>1. /\ Lists' = Lists /\ arrays' = Appended(arrays, own, xs, None)
        /\ Work'[g].slice = t /\ OthersStay(Work, Work', g) /\ Work'[g].list = u
    BY <1>4 DEF Appending, Appends, Adds
  <2>2. own \in Slice /\ IsSlice(arrays, own)
    BY <1>0 DEF World
  <2>3. xs \in Seq(Goroutines) /\ None \in Goroutines
    BY DEF Goroutines
  <2> HIDE DEF xs
  <2>4. /\ arrays' \in Seq(Seq(Goroutines)) /\ Kept(arrays, arrays', own.array)
        /\ t.array \in {own.array, Len(arrays) + 1}
    BY <1>0, <2>1, <2>2, <2>3, AppendKeeps
  <2>5. Len(arrays) <= Len(arrays') /\ Len(arrays') \in Nat
    BY <2>4 DEF Kept
  <2> HIDE DEF t
  <2> QED
    BY <1>3, <2>1, <2>4, <2>5
<1>5. ASSUME NEW g \in Goroutines, NEW u \in DOMAIN Lists, NEW i, Deleting(g, u, i)
      PROVE  ApartGuests(s)'
  <2> DEFINE own == Lists[u]
             t == Shorter(own)
  <2>1. /\ Lists' = Lists /\ arrays' = Deleted(arrays, own, i, None) /\ PlaceIn(i, own)
        /\ Work'[g].slice = t /\ OthersStay(Work, Work', g) /\ Work'[g].list = u
    BY <1>5 DEF Deleting, Deletes, Removes
  <2>2. own \in Slice /\ IsSlice(arrays, own) /\ None \in Goroutines
    BY <1>0 DEF World, Goroutines
  <2>3. t.array = own.array
    BY <2>2 DEF Shorter, Slice
  <2> HIDE DEF t
  <2>4. arrays' \in Seq(Seq(Goroutines)) /\ Kept(arrays, arrays', own.array)
    <3> HIDE DEF own
    <3> QED
      BY <1>0, <2>1, <2>2, DeleteKeeps
  <2>5. Len(arrays) <= Len(arrays') /\ Len(arrays') \in Nat
    BY <2>4 DEF Kept
  <2> QED
    BY <1>3, <2>1, <2>3, <2>5
<1>6. ASSUME NEW g \in Goroutines, NEW u \in DOMAIN Lists, Storing(g, u)
      PROVE  ApartGuests(s)'
  <2>1. arrays' = arrays /\ Stores(Lists, Lists', Work, Work', g, u)
    BY <1>6 DEF Storing
  <2>2. /\ Held(Lists', Work', u) \subseteq Held(Lists, Work, u)
        /\ Elsewhere(arrays, Lists, Work, arrays, Lists', Work', u)
    BY <1>0, <2>1, StoreStep
  <2>3. Held(Lists', Work', 0) \subseteq Held(Lists, Work, 0)
    BY <1>0, <2>2 DEF Elsewhere
  <2> QED
    BY <1>1, <2>1, <2>3 DEF ApartGuests
<1> QED
  BY <1>0, <1>2, <1>4, <1>5, <1>6, AnyStep

LEMMA ApartInvStep ==
    ASSUME ListsKept, ApartInv, Next
    PROVE  ApartInv'
<1>0. /\ Typed /\ Ranged /\ ListsInv /\ RealWorld /\ World(arrays, Lists, Work)
      /\ 0 \in DOMAIN Lists
  <2>1. Typed /\ Ranged /\ ListsInv
    BY DEF ListsKept
  <2> QED
    BY <2>1, GuestsList DEF ListsInv, RealWorld
<1> SUFFICES ASSUME cast'.pc = "user"
             PROVE  ApartGuests(cast.slice)'
  BY DEF ApartInv
<1>1. ASSUME NEW s, s = cast'.slice, ApartGuests(s)
      PROVE  ApartGuests(cast.slice)'
  <2>1. ApartGuests(s)'
    BY <1>0, <1>1, ApartStays
  <2> QED
    BY <1>1, <2>1 DEF ApartGuests
<1>2. CASE cast.pc = "user" /\ cast'.slice = cast.slice
  <2>1. ApartGuests(cast.slice)
    BY <1>2 DEF ApartInv
  <2> QED
    BY <1>1, <1>2, <2>1
<1>3. ASSUME NEW uid \in Uids, Reads(uid)
      PROVE  ApartGuests(cast.slice)'
  <2> DEFINE u == stored[uid]
  <2>1. u \in 1..Len(users)
    <3>1. u \in 0..Len(users) /\ Len(users) \in Nat
      BY <1>0 DEF Ranged, StoredRanged, Typed
    <3> QED
      BY <1>3, <3>1 DEF Reads
  <2>2. u \in DOMAIN Lists /\ Lists[u] = Of(u) /\ u # 0
    BY <1>0, <2>1, GuestsList
  <2>3. cast'.slice = Lists[u]
    BY <1>3, <2>2 DEF Reads
  <2> HIDE DEF u
  <2>4. Lists[u] \in Held(Lists, Work, u) /\ IsSlice(arrays, Lists[u])
    BY <1>0, <2>2 DEF Held, World
  <2>5. ApartGuests(Lists[u])
    <3>1. Lists[u].array \in 0..Len(arrays)
      BY <2>4 DEF IsSlice
    <3>2. \A t \in Held(Lists, Work, 0) : Foreign(Lists[u], t)
      BY <1>0, <2>2, <2>4 DEF World, Apart
    <3> QED
      BY <3>1, <3>2 DEF ApartGuests
  <2> QED
    BY <1>1, <2>3, <2>5
<1>4. CASE cast' = cast
  BY <1>2, <1>4
<1>5. CASE Casts
  BY <1>2, <1>3, <1>5 DEF Casts, Begins, Sends, Ends, Over, Skips
<1> QED
  BY <1>0, <1>4, <1>5, CastGoes

\* What is known after a step while a broadcast reads and owes.
LEMMA ReadingThen ==
    ASSUME AccountsKept, StayInv, Next, NEW c \in Clients, Owing(c)', Reading'
    PROVE  /\ AccountsKept' /\ StayInv' /\ Owing(c)
           /\ \A g \in Goroutines : Work'[g].op = "removes" => Work'[g].list = 0
           /\ Removed' # {} => request'[c].pc = "deleted"
           /\ \A g \in Goroutines : \A u \in DOMAIN Lists : \A i :
                  Deleting(g, u, i) => u = 0 /\ seen'.shifted # {}
<1>1. Typed /\ SeenTyped /\ ListsKept /\ Seeing
  BY DEF AccountsKept, UsersKept, ListsKept
<1>2. AccountsKept' /\ StayInv'
  BY <1>1, AccountsKeptStep, StayInvStep
<1>3. Typed' /\ Ranged' /\ Seeing'
  BY <1>2 DEF AccountsKept, UsersKept, ListsKept
<1>4. /\ \A g \in Goroutines : Work'[g].op = "removes" => Work'[g].list = 0
      /\ Removed' # {} => request'[c].pc = "deleted"
  BY <1>2, <1>3, RemoversAreThen DEF Removers
<1>5. ASSUME NEW g \in Goroutines, NEW u \in DOMAIN Lists, NEW i, Deleting(g, u, i)
      PROVE  u = 0 /\ seen'.shifted # {}
  <2>1. Work'[g].op = "removes" /\ Work'[g].list = u
    BY <1>5 DEF Deleting, Deletes, Removes
  <2>2. seen'.shifted # {}
    BY <1>1, <2>1, NoRemoves
  <2> QED
    BY <1>4, <2>1, <2>2
<1> QED
  BY <1>1, <1>2, <1>4, <1>5, OwingBefore

\* The slice of a user that is read stays while the broadcast owes.
ReadInv == cast.pc = "user" =>
    \A c \in Clients : Owing(c) => Frozen(arrays, Lists, Work, cast.slice)

LEMMA UserReadStays ==
    ASSUME AccountsKept, StayInv, ApartInv, ReadInv, Next, NEW c \in Clients, Owing(c)',
           cast.pc = "user", cast'.pc = "user", cast'.slice = cast.slice
    PROVE  /\ Frozen(arrays', Lists', Work', cast.slice)
           /\ Contents(arrays', cast.slice) = Contents(arrays, cast.slice)
<1>0. Typed /\ Ranged /\ ListsInv
  BY DEF AccountsKept, UsersKept, ListsKept
<1>1. Reading'
  BY DEF Reading
<1>2. /\ Owing(c)
      /\ \A g \in Goroutines : \A u \in DOMAIN Lists : \A i : Deleting(g, u, i) => u = 0
  BY <1>1, ReadingThen
<1> DEFINE s == cast.slice
<1>3. Frozen(arrays, Lists, Work, s)
  BY <1>2 DEF ReadInv
<1>4. Foreign(s, Lists[0])
  BY DEF ApartInv, ApartGuests, Held
<1> HIDE DEF s
<1>5. \A g \in Goroutines : \A u \in DOMAIN Lists : \A i :
               Deleting(g, u, i) => Foreign(s, Lists[u])
  BY <1>2, <1>4
<1>6. Frozen(arrays', Lists', Work', s) /\ Contents(arrays', s) = Contents(arrays, s)
  BY <1>0, <1>3, <1>5, ReadStays
<1> QED
  BY <1>6 DEF s

LEMMA ReadInvStep ==
    ASSUME AccountsKept, StayInv, ApartInv, ReadInv, Next
    PROVE  ReadInv'
<1>0. /\ Typed /\ Ranged /\ ListsInv /\ ListsKept
  BY DEF AccountsKept, UsersKept, ListsKept
<1> SUFFICES ASSUME cast'.pc = "user", NEW c \in Clients, Owing(c)'
             PROVE  Frozen(arrays', Lists', Work', cast'.slice)
  BY DEF ReadInv
<1>1. Reading'
  BY DEF Reading
<1>2. CASE cast.pc = "user" /\ cast'.slice = cast.slice
  BY <1>2, UserReadStays
<1>3. ASSUME NEW uid \in Uids, Reads(uid), CastStep, NEW u, u = stored[uid]
      PROVE  Frozen(arrays', Lists', Work', cast'.slice)
  <2>1. u \in 1..Len(users)
    <3>1. u \in 0..Len(users) /\ Len(users) \in Nat
      BY <1>0, <1>3 DEF Ranged, StoredRanged, Typed
    <3> QED
      BY <1>3, <3>1 DEF Reads
  <2>2. u \in DOMAIN Lists /\ Lists[u] = Of(u) /\ u # 0
    BY <1>0, <2>1, GuestsList
  <2>3. cast'.slice = Lists[u]
    BY <1>3, <2>2 DEF Reads
  <2>4. /\ AccountsKept' /\ \A g \in Goroutines : Work'[g].op = "removes" => Work'[g].list = 0
    BY <1>1, ReadingThen
  <2>5. ListsInv' /\ seen'.lists = {}
    BY <2>4 DEF AccountsKept, UsersKept, ListsKept, Owing
  <2>6. Still
    BY <1>3, ReadersMove
  <2>7. u \in DOMAIN Lists' /\ Lists'[u] = Lists[u]
    BY <2>2, <2>6 DEF Still, Rests
  <2>8. Calm(u)'
    BY <2>5, <2>7 DEF Calm
  <2>9. World(arrays', Lists', Work') /\ Steady(arrays', Lists', Work', u)
    <3>1. World(arrays', Lists', Work') /\ Well(u)'
      BY <2>5, <2>7, <2>8 DEF ListsInv, RealWorld
    <3> QED
      BY <2>8, <3>1 DEF Well
  <2>10. \A g \in Goroutines : Work'[g].op = "removes" => Work'[g].list # u
    BY <2>2, <2>4
  <2>11. Frozen(arrays', Lists', Work', Lists'[u])
    BY <2>7, <2>9, <2>10, ListFrozen
  <2> QED
    BY <2>3, <2>7, <2>11
<1>4. CASE cast' = cast
  BY <1>2, <1>4
<1>5. CASE Casts /\ CastStep
  BY <1>2, <1>3, <1>5 DEF Casts, Begins, Sends, Ends, Over, Skips
<1> QED
  BY <1>0, <1>4, <1>5, CastGoes

\* Who is owed the message is ahead of the reading, or is going to be.
Serves(c) ==
    /\ cast.pc = "guests" => \/ \E uid \in Uids : ServedBy(c, uid)
                             \/ seen.shifted = {} /\ Ahead(c)
    /\ cast.pc = "range" => \E uid \in cast.left : ServedBy(c, uid)
    /\ cast.pc = "user" => Ahead(c) \/ \E uid \in cast.left : ServedBy(c, uid)
    /\ cast.pc # "done"
ServeInv == \A c \in Clients : Owing(c) /\ c \in cast.owed => Serves(c)

\* Guests goes on to be read as it was, until somebody is taken out of it.
LEMMA GuestsReadStay ==
    ASSUME AccountsKept, StayInv, Next, NEW c \in Clients, Owing(c)', Reading,
           Reading', seen'.shifted = {}
    PROVE  /\ Frozen(arrays, Lists, Work, cast.slice)
           /\ Contents(arrays', cast.slice) = Contents(arrays, cast.slice)
<1>0. Typed /\ Ranged /\ SeenTyped /\ ListsInv /\ CastInv
  BY DEF AccountsKept, UsersKept, ListsKept
<1>1. /\ Owing(c)
      /\ \A g \in Goroutines : \A u \in DOMAIN Lists : \A i :
             Deleting(g, u, i) => u = 0 /\ seen'.shifted # {}
  BY ReadingThen
<1>2. seen.shifted = {}
  BY <1>0, SeenStep
<1> DEFINE s == cast.slice
<1>3. Frozen(arrays, Lists, Work, s)
  BY <1>0, <1>1, <1>2 DEF CastInv, Owing
<1> HIDE DEF s
<1>4. \A g \in Goroutines : \A u \in DOMAIN Lists : \A i :
               Deleting(g, u, i) => Foreign(s, Lists[u])
  BY <1>1
<1>5. Contents(arrays', s) = Contents(arrays, s)
  BY <1>0, <1>3, <1>4, ReadStays
<1> QED
  BY <1>3, <1>5 DEF s

\* Whoever is taken out of Guests is listed at its user from then on.
LEMMA ShiftServes ==
    ASSUME AccountsKept, StayInv, Next, NEW c \in Clients, Owing(c)', Reading',
           seen.shifted = {}, seen'.shifted # {}
    PROVE  \E uid \in Uids : ServedBy(c, uid)'
<1>1. /\ AccountsKept' /\ StayInv' /\ SeenTyped
      /\ Removed' # {} => request'[c].pc = "deleted"
  BY ReadingThen DEF AccountsKept, UsersKept, ListsKept
<1>2. Now'.shifted # {}
  BY <1>1, SeenStep
<1>3. Removed' # {}
  BY <1>2 DEF Now, Reading
<1> QED
  BY <1>1, <1>3, OwnRemovalServesThen DEF OwnRemoval

\* A step that leaves the broadcast where it is.
LEMMA ServesStays ==
    ASSUME AccountsKept, StayInv, ApartInv, ReadInv, Next, NEW c \in Clients,
           Owing(c)', cast' = cast, Serves(c)
    PROVE  Serves(c)'
<1>0. Typed /\ SeenTyped /\ Owing(c) /\ cast \in CastType
  BY OwingBefore DEF AccountsKept, UsersKept, ListsKept, Typed
<1>1. \A uid \in Uids : ServedBy(c, uid) => ServedBy(c, uid)'
  BY <1>0, ServedStays
<1>2. CASE cast.pc = "guests"
  <2>1. CASE \E uid \in Uids : ServedBy(c, uid)
    BY <1>1, <1>2, <2>1 DEF Serves
  <2>2. CASE seen.shifted = {} /\ Ahead(c)
    <3>0. Reading /\ Reading'
      BY <1>2 DEF Reading
    <3>1. CASE seen'.shifted = {}
      <4>1. Contents(arrays', cast.slice) = Contents(arrays, cast.slice)
        BY <3>0, <3>1, GuestsReadStay
      <4>2. Ahead(c)'
        BY <2>2, <4>1 DEF Ahead, Listed
      <4> QED
        BY <1>2, <3>1, <4>2 DEF Serves
    <3>2. CASE seen'.shifted # {}
      <4>1. \E uid \in Uids : ServedBy(c, uid)'
        BY <2>2, <3>0, <3>2, ShiftServes
      <4> QED
        BY <1>2, <4>1 DEF Serves
    <3> QED
      BY <3>1, <3>2
  <2> QED
    BY <1>2, <2>1, <2>2 DEF Serves
<1>3. CASE cast.pc = "range"
  BY <1>0, <1>1, <1>3 DEF Serves, CastType
<1>4. CASE cast.pc = "user"
  <2>1. Contents(arrays', cast.slice) = Contents(arrays, cast.slice)
    BY <1>4, UserReadStays
  <2>2. Ahead(c) => Ahead(c)'
    BY <2>1 DEF Ahead, Listed
  <2> QED
    BY <1>0, <1>1, <1>4, <2>2 DEF Serves, CastType
<1> QED
  BY <1>0, <1>2, <1>3, <1>4 DEF Serves, CastType

\* An element that is sent to is the next one of the slice.
LEMMA SentIs ==
    ASSUME NEW heap \in Seq(Seq(Goroutines)), NEW s \in Slice, IsSlice(heap, s),
           NEW i \in Nat, i >= 1, i <= s.len
    PROVE  heap[s.array][i] = Contents(heap, s)[i]
<1>1. s.array # 0 /\ s.array \in 1..Len(heap) /\ s.len \in 0..Len(heap[s.array])
  BY DEF IsSlice, CapOf, Slice
<1>2. heap[s.array] \in Seq(Goroutines)
  BY <1>1
<1> QED
  BY <1>1, <1>2 DEF Contents

LEMMA CastServed ==
    ASSUME Typed, Next, NEW c \in Clients,
           UNCHANGED <<arrays, guests, stored, users, client, request>>
    PROVE  /\ \A uid \in Uids : ServedBy(c, uid)' <=> ServedBy(c, uid)
           /\ cast'.slice = cast.slice => Listed(cast.slice)' = Listed(cast.slice)
  BY DEF ServedBy, Listed, Of, In

\* A broadcast goes to the next element, to the next slice, or on to the end.
LEMMA SendsServes ==
    ASSUME AccountsKept, StayInv, ReadInv, Next, NEW c \in Clients, Owing(c)',
           c \in cast'.owed, Serves(c), Sends,
           UNCHANGED <<arrays, guests, stored, users, client, request>>
    PROVE  Serves(c)'
<1>0. /\ Typed /\ SeenTyped /\ Owing(c) /\ CastInv /\ cast \in CastType
      /\ arrays \in Seq(Seq(Goroutines))
  BY OwingBefore DEF AccountsKept, UsersKept, ListsKept, Typed, ListsInv, RealWorld, World
<1> DEFINE s == cast.slice
           L == Listed(s)
<1>1. ASSUME Frozen(arrays, Lists, Work, s), Ahead(c)
      PROVE  Ahead(c)'
  <2>1. s \in Slice /\ IsSlice(arrays, s)
    BY <1>1 DEF Frozen
  <2>2. Len(L) = s.len /\ s.len \in Nat
    <3> HIDE DEF s
    <3> QED
      BY <1>0, <2>1, ContentsType DEF Listed, Slice
  <2>3. cast.at \in Nat /\ cast.at >= 1 /\ cast.at <= s.len
    BY <1>0 DEF Sends, CastInv, CastType
  <2>4. arrays[s.array][cast.at] = L[cast.at]
    <3> HIDE DEF s
    <3> QED
      BY <1>0, <2>1, <2>3, SentIs DEF Listed
  <2>5. L[cast.at] # c
    BY <2>4 DEF Sends
  <2>6. PICK i \in 1..Len(L) : i >= cast.at /\ L[i] = c
    BY <1>1 DEF Ahead
  <2>7. i >= cast.at + 1
    BY <2>2, <2>3, <2>5, <2>6
  <2>8. Listed(cast.slice)' = L /\ cast'.at = cast.at + 1
    BY <1>0, CastServed DEF Sends
  <2> HIDE DEF L
  <2> QED
    BY <2>6, <2>7, <2>8 DEF Ahead
<1>2. /\ \A uid \in Uids : ServedBy(c, uid) => ServedBy(c, uid)'
      /\ cast.left \subseteq Uids /\ cast'.left = cast.left /\ cast'.pc = cast.pc
  BY <1>0, CastServed DEF Sends, CastType
<1>3. CASE cast.pc = "guests"
  <2>1. CASE \E uid \in Uids : ServedBy(c, uid)
    BY <1>2, <1>3, <2>1 DEF Serves
  <2>2. CASE seen.shifted = {} /\ Ahead(c)
    <3>0. Reading /\ Reading'
      BY <1>2, <1>3 DEF Reading
    <3>1. CASE seen'.shifted = {}
      <4>1. Frozen(arrays, Lists, Work, s)
        BY <3>0, <3>1, GuestsReadStay
      <4> QED
        BY <1>1, <1>2, <1>3, <2>2, <3>1, <4>1 DEF Serves
    <3>2. CASE seen'.shifted # {}
      <4>1. \E uid \in Uids : ServedBy(c, uid)'
        BY <2>2, <3>0, <3>2, ShiftServes
      <4> QED
        BY <1>2, <1>3, <4>1 DEF Serves
    <3> QED
      BY <3>1, <3>2
  <2> QED
    BY <1>3, <2>1, <2>2 DEF Serves
<1>4. CASE cast.pc = "user"
  <2>1. Frozen(arrays, Lists, Work, s)
    BY <1>0, <1>4 DEF ReadInv
  <2>2. Ahead(c) => Ahead(c)'
    BY <1>1, <2>1
  <2> QED
    BY <1>2, <1>4, <2>2 DEF Serves
<1> QED
  BY <1>3, <1>4 DEF Sends, Reading

LEMMA EndsServes ==
    ASSUME AccountsKept, StayInv, ReadInv, Next, NEW c \in Clients, Owing(c)',
           Serves(c), Ends \/ Over,
           UNCHANGED <<arrays, guests, stored, users, client, request>>
    PROVE  Serves(c)'
<1>0. /\ Typed /\ SeenTyped /\ Owing(c) /\ CastInv /\ cast \in CastType
      /\ arrays \in Seq(Seq(Goroutines))
  BY OwingBefore DEF AccountsKept, UsersKept, ListsKept, Typed, ListsInv, RealWorld, World
<1> DEFINE s == cast.slice
<1>1. /\ \A uid \in Uids : ServedBy(c, uid) => ServedBy(c, uid)'
      /\ cast.left \subseteq Uids
  BY <1>0, CastServed DEF CastType
<1>2. CASE Over
  BY <1>2 DEF Over, Serves
<1>3. ASSUME Ends, Frozen(arrays, Lists, Work, s)
      PROVE  ~Ahead(c)
  <2>1. s \in Slice /\ IsSlice(arrays, s)
    BY <1>3 DEF Frozen
  <2>2. Len(Listed(s)) = s.len /\ s.len \in Nat
    <3> HIDE DEF s
    <3> QED
      BY <1>0, <2>1, ContentsType DEF Listed, Slice
  <2>3. cast.at \in Nat /\ cast.at > s.len
    BY <1>0, <1>3 DEF Ends, CastType
  <2> QED
    BY <2>2, <2>3 DEF Ahead
<1>4. CASE Ends /\ cast.pc = "guests"
  <2>1. cast'.pc = "range" /\ cast'.left = Uids
    BY <1>4 DEF Ends
  <2>2. CASE seen.shifted = {} /\ Ahead(c)
    <3>1. Frozen(arrays, Lists, Work, s)
      BY <1>0, <1>4, <2>2 DEF CastInv, Reading, Owing
    <3> QED
      BY <1>3, <1>4, <2>2, <3>1
  <2> QED
    BY <1>1, <1>4, <2>1, <2>2 DEF Serves
<1>5. CASE Ends /\ cast.pc = "user"
  <2>1. cast'.pc = "range" /\ cast'.left = cast.left
    BY <1>5 DEF Ends
  <2>2. Frozen(arrays, Lists, Work, s)
    BY <1>0, <1>5 DEF ReadInv
  <2>3. ~Ahead(c)
    BY <1>3, <1>5, <2>2
  <2> QED
    BY <1>1, <1>5, <2>1, <2>3 DEF Serves
<1> QED
  BY <1>2, <1>4, <1>5 DEF Ends, Reading

LEMMA BeginsServes ==
    ASSUME AccountsKept, StayInv, Next, NEW c \in Clients, Owing(c)',
           c \in cast'.owed, Begins,
           UNCHANGED <<arrays, guests, stored, users, client, request>>
    PROVE  Serves(c)'
<1>0. /\ Typed /\ Ranged /\ SeenTyped /\ RealWorld /\ seen.shifted = {}
      /\ cast'.pc = "guests" /\ cast'.slice = guests /\ cast'.at = 1
      /\ Reading'
  BY DEF AccountsKept, UsersKept, ListsKept, ListsInv, StayInv, Begins, Reading
<1>1. \A uid \in Uids : ServedBy(c, uid) => ServedBy(c, uid)'
  BY <1>0, CastServed
<1>2. CASE InUsers(c)
  <2>1. PICK uid \in Uids : stored[uid] # 0 /\ InSlice(c, Of(stored[uid]))
    BY <1>2 DEF InUsers
  <2> DEFINE u == stored[uid]
             L == Listed(Of(u))
  <2>2. u \in 1..Len(users)
    <3>1. u \in 0..Len(users) /\ Len(users) \in Nat
      BY <1>0 DEF Ranged, StoredRanged, Typed
    <3> QED
      BY <2>1, <3>1
  <2>3. L \in Seq(Goroutines)
    <3> HIDE DEF u
    <3> QED
      BY <1>0, <2>2, UserFacts
  <2>4. DOMAIN L = 1..Len(L)
    <3> HIDE DEF L
    <3> QED
      BY <2>3
  <2>5. ServedBy(c, uid)
    BY <2>1, <2>4 DEF ServedBy, InSlice, In
  <2> QED
    BY <1>0, <1>1, <2>5 DEF Serves
<1>3. CASE InSlice(c, guests)
  <2>1. CASE seen'.shifted # {}
    <3>1. \E uid \in Uids : ServedBy(c, uid)'
      BY <1>0, <2>1, ShiftServes
    <3> QED
      BY <1>0, <3>1 DEF Serves
  <2>2. CASE seen'.shifted = {}
    <3> DEFINE L == Listed(guests)
    <3>1. L \in Seq(Goroutines)
      <4>1. 0 \in 0..Len(users) /\ Lists[0] = guests
        BY <1>0, GuestsList
      <4> QED
        BY <1>0, <4>1, ListFacts DEF Listed
    <3>2. DOMAIN L = 1..Len(L) /\ Len(L) \in Nat
      <4> HIDE DEF L
      <4> QED
        BY <3>1
    <3>3. PICK i \in 1..Len(L) : L[i] = c
      BY <1>3, <3>2 DEF InSlice
    <3>4. Listed(cast.slice)' = L /\ i >= cast'.at
      BY <1>0, <3>2, <3>3 DEF Listed
    <3> HIDE DEF L
    <3>5. Ahead(c)'
      BY <3>3, <3>4 DEF Ahead
    <3> QED
      BY <1>0, <2>2, <3>5 DEF Serves
  <2> QED
    BY <2>1, <2>2
<1> QED
  BY <1>2, <1>3 DEF Begins

LEMMA ReadsServes ==
    ASSUME AccountsKept, Next, NEW c \in Clients, Owing(c)', Serves(c),
           NEW uid \in Uids, Skips(uid) \/ Reads(uid),
           UNCHANGED <<arrays, guests, stored, users, client, request>>
    PROVE  Serves(c)'
<1>0. /\ Typed /\ Ranged /\ SeenTyped /\ RealWorld /\ cast \in CastType
  BY DEF AccountsKept, UsersKept, ListsKept, ListsInv, Typed
<1>1. /\ \A v \in Uids : ServedBy(c, v) => ServedBy(c, v)'
      /\ cast.left \subseteq Uids /\ cast.pc = "range" /\ cast'.left = cast.left \ {uid}
  BY <1>0, CastServed DEF CastType, Skips, Reads
<1>2. PICK v \in cast.left : ServedBy(c, v)
  BY <1>1 DEF Serves
<1>3. CASE v # uid
  <2>1. v \in cast'.left /\ ServedBy(c, v)' /\ cast'.pc \in {"range", "user"}
    BY <1>1, <1>2, <1>3 DEF Skips, Reads
  <2> QED
    BY <2>1 DEF Serves
<1>4. CASE v = uid
  <2>1. Reads(uid) /\ stored[uid] # 0
    BY <1>2, <1>4 DEF ServedBy, Skips, Reads
  <2> DEFINE L == Listed(Of(stored[uid]))
  <2>2. PICK i \in 1..Len(L) : L[i] = c
    BY <1>2, <1>4 DEF ServedBy, In
  <2>3. Listed(cast.slice)' = L /\ cast'.at = 1 /\ cast'.pc = "user"
    BY <2>1 DEF Reads, Listed
  <2>4. i >= 1
    <3>1. L \in Seq(Goroutines)
      <4>1. stored[uid] \in 0..Len(users) /\ Len(users) \in Nat
        BY <1>0 DEF Ranged, StoredRanged, Typed
      <4>2. stored[uid] \in 1..Len(users)
        BY <2>1, <4>1
      <4> QED
        BY <1>0, <4>2, UserFacts
    <3> HIDE DEF L
    <3> QED
      BY <2>2, <3>1
  <2> HIDE DEF L
  <2>5. Ahead(c)'
    BY <2>2, <2>3, <2>4 DEF Ahead
  <2> QED
    BY <2>3, <2>5 DEF Serves
<1> QED
  BY <1>3, <1>4

LEMMA ServeInvStep ==
    ASSUME AccountsKept, StayInv, ApartInv, ReadInv, ServeInv, Next
    PROVE  ServeInv'
<1>0. Typed /\ SeenTyped
  BY DEF AccountsKept, UsersKept, ListsKept
<1> SUFFICES ASSUME NEW c \in Clients, Owing(c)', c \in cast'.owed
             PROVE  Serves(c)'
  BY DEF ServeInv
<1>1. Owing(c)
  BY <1>0, OwingBefore
<1>2. CASE cast' = cast
  <2>1. Serves(c)
    BY <1>1, <1>2 DEF ServeInv
  <2> QED
    BY <1>2, <2>1, ServesStays
<1>3. CASE Casts /\ UNCHANGED <<arrays, guests, stored, users, client, request>>
  <2>1. CASE Begins
    BY <1>3, <2>1, BeginsServes
  <2>2. CASE ~Begins
    <3>1. c \in cast.owed
      BY <1>3, <2>2 DEF Casts, Sends, Ends, Over, Skips, Reads
    <3>2. Serves(c)
      BY <1>1, <3>1 DEF ServeInv
    <3>3. CASE Sends
      BY <1>3, <3>2, <3>3, SendsServes
    <3>4. CASE Ends \/ Over
      BY <1>3, <3>2, <3>4, EndsServes
    <3>5. CASE \E uid \in Uids : Skips(uid) \/ Reads(uid)
      BY <1>3, <3>2, <3>5, ReadsServes
    <3> QED
      BY <1>3, <2>2, <3>3, <3>4, <3>5 DEF Casts
  <2> QED
    BY <2>1, <2>2
<1> QED
  BY <1>0, <1>2, <1>3, CastGoes

BroadcastKept == AccountsKept /\ StayInv /\ ApartInv /\ ReadInv /\ ServeInv

LEMMA BroadcastKeptInit == Init => BroadcastKept
<1> SUFFICES ASSUME Init PROVE BroadcastKept
  OBVIOUS
<1>1. AccountsKept
  BY AccountsKeptInit
<1>2. /\ cast.pc \in {"idle", "done"} /\ cast.owed = {} /\ seen.shifted = {}
      /\ hub.pc = "select" /\ \A c \in Clients : ~client[c].closed
  BY DEF Init, Resting
<1> QED
  BY <1>1, <1>2 DEF BroadcastKept, StayInv, ApartInv, ReadInv, ServeInv

LEMMA BroadcastKeptStep ==
    ASSUME BroadcastKept, Next
    PROVE  BroadcastKept'
<1>1. AccountsKept /\ StayInv /\ ApartInv /\ ReadInv /\ ServeInv /\ ListsKept /\ Seeing
  BY DEF BroadcastKept, AccountsKept, UsersKept
<1>2. AccountsKept' /\ StayInv' /\ ApartInv'
  BY <1>1, AccountsKeptStep, StayInvStep, ApartInvStep
<1>3. ReadInv' /\ ServeInv'
  BY <1>1, ReadInvStep, ServeInvStep
<1> QED
  BY <1>2, <1>3 DEF BroadcastKept

LEMMA BroadcastKeptStutters ==
    ASSUME BroadcastKept, UNCHANGED vars
    PROVE  BroadcastKept'
<1>1. AccountsKept'
  BY AccountsKeptStutters DEF BroadcastKept
<1>2. /\ Lists' = Lists /\ Work' = Work
      /\ UNCHANGED <<arrays, guests, stored, users, client, request, hub, cast, seen>>
  BY WorkStutters DEF vars
<1>3. StayInv'
  BY <1>2 DEF BroadcastKept, StayInv, Gone
<1>4. \A c \in Clients : /\ Owing(c)' => Owing(c)
                         /\ Ahead(c) => Ahead(c)'
                         /\ \A uid : ServedBy(c, uid) => ServedBy(c, uid)'
  BY <1>2 DEF Owing, Gone, Ahead, ServedBy, Listed, Of
<1>5. ApartInv'
  BY <1>2 DEF BroadcastKept, ApartInv, ApartGuests
<1>6. ReadInv'
  BY <1>2, <1>4 DEF BroadcastKept, ReadInv
<1>7. ServeInv'
  BY <1>2, <1>4 DEF BroadcastKept, ServeInv, Serves
<1> QED
  BY <1>1, <1>3, <1>5, <1>6, <1>7 DEF BroadcastKept

LEMMA BroadcastFollows ==
    ASSUME BroadcastKept
    PROVE  BroadcastReaches
<1> SUFFICES ASSUME cast.pc = "done", seen.lists = {}, seen.uids = {},
                    NEW c \in cast.owed, ~Gone(c), seen.shifted \ {c} = {}
             PROVE  FALSE
  BY DEF BroadcastReaches, Gone
<1>1. c \in Clients
  BY DEF BroadcastKept, AccountsKept, UsersKept, ListsKept, Typed, CastType
<1>2. Owing(c)
  BY DEF Owing
<1> QED
  BY <1>1, <1>2 DEF BroadcastKept, ServeInv, Serves

\* A broadcast reaches every client that was listed when it began and stays,
\* also one that logs in meanwhile: it is at its user before it is taken out of
\* Guests, and only this removal may change what is read.
THEOREM BroadcastCorrect == Spec => []BroadcastReaches
<1>1. BroadcastKept /\ [Next]_vars => BroadcastKept'
  BY BroadcastKeptStep, BroadcastKeptStutters
<1>2. BroadcastKept => BroadcastReaches
  BY BroadcastFollows
<1> QED
  BY <1>1, <1>2, BroadcastKeptInit, PTL DEF Spec
=============================================================================
