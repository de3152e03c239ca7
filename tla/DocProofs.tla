----------------------------- MODULE DocProofs -----------------------------
(***************************************************************************)
(* Runs of `aqi docgen init`, for every source, every number of commits,    *)
(* steps of the user and runs, and every number of snapshots: labels stay,  *)
(* what the snapshots hold has been told, and the documents stand.  Then    *)
(* programs of routes, of all statements and lengths: what is documented of *)
(* their middleware is what they do.                                        *)
(***************************************************************************)
EXTENDS DocPrograms, DocRuns, SequenceTheorems, WellFoundedInduction, TLAPS

-----------------------------------------------------------------------------
(* What is true between any two steps.                                      *)

Entries == [file : DOMAIN documents, label : {"generated", "users"}]
OncePerFile(s) == \A i, j \in DOMAIN s : s[i].file = s[j].file => i = j

\* What the configuration and the viewer list is in docs/.
ListsInv ==
    /\ DOMAIN config = {"groupNames", "appDocuments", "state"}
    /\ config.appDocuments \in Seq(Entries)
    /\ viewer \subseteq DOMAIN documents
    /\ DOMAIN history = {"wentBack", "unsaved", "untold", "shared", "told", "current"}
    /\ ~history.shared => OncePerFile(config.appDocuments)

\* Every prefix of the run's actions has a name.
Named ==
    \A k \in DOMAIN run.routerFiles : \A a \in ToSet(run.routerFiles[k].actions) :
      Parts[a.name][1] \in DOMAIN run.config.groupNames

\* What the run has listed are documents of router files behind it, and as it
\* has written them, unless a later file of the same name took their place.
ListedInv ==
    \A i \in DOMAIN run.listed :
      \E k \in DOMAIN run.routerFiles :
        /\ k \in Nat /\ k < run.next
        /\ run.listed[i].file = DocFile(run.routerFiles[k].fileName, run.format)
        /\ ~SharedFile(run.routerFiles) =>
             documents[run.listed[i].file].groups
               = GroupsShown(run.routerFiles[k].actions, run.config)

RunInv ==
    run # Idle =>
      /\ DOMAIN run = {"pc", "format", "routerFiles", "changelog", "listed",
                       "next", "config"}
      /\ run.pc \in {"load", "changelog", "documents", "template"}
      /\ run.next \in Nat
      /\ run.listed \in Seq(Entries)
      /\ run.pc \in {"load", "changelog"} =>
           run.changelog = NoChange /\ run.listed = <<>>
      /\ run.changelog # NoChange => run.format = "json"
      /\ run.pc \in {"changelog", "documents"} \/ run.listed # <<>> => Named
      /\ ListedInv
      /\ ~SharedFile(run.routerFiles) => OncePerFile(run.listed)
      /\ ~history.shared => ~SharedFile(run.routerFiles)

\* The snapshots are of versions up to the commit, in their order until the
\* repository goes back.
Versions(s) == \A i \in DOMAIN s : s[i].version \in Int
Distinct(s) ==
    \A i, j \in DOMAIN s : s[i].version = s[j].version => i = j
UpTo(s, v) ==
    /\ \A i \in DOMAIN s : s[i].version <= v
    /\ \A i, j \in DOMAIN s : i < j => s[i].version < s[j].version
Latest(s) == IF s = <<>> THEN {} ELSE Last(s).actions

SnapshotsInv ==
    /\ snapshots \in Seq(ToSet(snapshots))
    /\ Len(snapshots) <= MaxSnapshots
    /\ Versions(snapshots) /\ Distinct(snapshots)
    /\ commit \in Int \/ (commit = NoGit /\ snapshots = <<>>)
    /\ ~history.wentBack => UpTo(snapshots, commit)
    /\ ~history.wentBack /\ ~history.unsaved => history.current = Latest(snapshots)

\* What the latest snapshot has was told, or is in the log of changes of a
\* run that is still to write its first document.
ToBeTold(a) ==
    /\ run.pc = "documents" /\ run.listed = <<>>
    /\ run.changelog # NoChange /\ a \in run.changelog.added
ToldInv ==
    ~history.untold =>
      \A a \in Latest(snapshots) : a \in history.told \/ ToBeTold(a)

DocInv == ListsInv /\ RunInv /\ SnapshotsInv /\ ToldInv

-----------------------------------------------------------------------------
(* Numbers and sequences.                                                   *)

\* A set of numbers has a smallest one.
LEMMA Smallest ==
    ASSUME NEW T \in SUBSET Nat, T # {}
    PROVE  \E n \in T : \A m \in T : n <= m
<1>1. PICK n \in T : \A m \in T : ~(<<m, n>> \in OpToRel(<, Nat))
  BY NatLessThanWellFounded, WFMin
<1>2. \A m \in T : ~(m < n)
  BY <1>1 DEF OpToRel
<1> QED
  BY <1>2

\* A sequence of some elements is one of more.
LEMMA SeqOfMore ==
    ASSUME NEW S, NEW T, S \subseteq T, NEW s \in Seq(S)
    PROVE  s \in Seq(T)
<1>1. Len(s) \in Nat /\ s \in [1..Len(s) -> S]
  OBVIOUS
<1>2. s \in [1..Len(s) -> T]
  BY <1>1
<1> QED
  BY <1>1, <1>2

\* A sequence is one of its own elements.
LEMMA SeqOfItsOwn ==
    ASSUME NEW S, NEW s \in Seq(S)
    PROVE  /\ s \in Seq(ToSet(s)) /\ ToSet(s) \subseteq S
           /\ DOMAIN s = 1..Len(s) /\ Len(s) \in Nat
           /\ (s # <<>> <=> Len(s) > 0)
<1>1. Len(s) \in Nat /\ s \in [1..Len(s) -> S] /\ DOMAIN s = 1..Len(s)
  OBVIOUS
<1>2. ToSet(s) \subseteq S /\ s \in [1..Len(s) -> ToSet(s)]
  BY <1>1 DEF ToSet
<1>3. s # <<>> <=> Len(s) > 0
  BY <1>1, EmptySeq
<1> QED
  BY <1>1, <1>2, <1>3

\* r is s with x behind it, and r is s with t behind it.
Appends(S, r, s, x) ==
    /\ r \in Seq(S \cup {x}) /\ Len(r) = Len(s) + 1 /\ Len(s) \in Nat
    /\ DOMAIN r = 1..(Len(s) + 1) /\ DOMAIN s = 1..Len(s)
    /\ \A i \in 1..Len(s) : r[i] = s[i]
    /\ r[Len(s) + 1] = x /\ r # <<>> /\ Last(r) = x
    /\ ToSet(r) = ToSet(s) \cup {x}
Joins(S, r, s, t) ==
    /\ r \in Seq(S) /\ Len(r) = Len(s) + Len(t)
    /\ Len(s) \in Nat /\ Len(t) \in Nat
    /\ DOMAIN r = 1..(Len(s) + Len(t))
    /\ DOMAIN s = 1..Len(s) /\ DOMAIN t = 1..Len(t)
    /\ \A i \in 1..Len(s) : r[i] = s[i]
    /\ \A i \in 1..Len(t) : r[Len(s) + i] = t[i]
    /\ ToSet(r) = ToSet(s) \cup ToSet(t)

LEMMA Appended ==
    ASSUME NEW S, NEW s \in Seq(S), NEW x
    PROVE  Appends(S, Append(s, x), s, x)
<1> DEFINE r == Append(s, x)
<1>1. s \in Seq(S \cup {x})
  BY SeqOfMore
<1>2. /\ r \in Seq(S \cup {x}) /\ Len(r) = Len(s) + 1 /\ Len(s) \in Nat
      /\ \A i \in 1..Len(s) : r[i] = s[i]
      /\ r[Len(s) + 1] = x
  BY <1>1, AppendProperties
<1> HIDE DEF r
<1>3. DOMAIN r = 1..(Len(s) + 1) /\ DOMAIN s = 1..Len(s)
  BY <1>1, <1>2
<1>4. r # <<>> /\ Last(r) = x
  BY <1>2 DEF Last
<1>5. ToSet(r) = ToSet(s) \cup {x}
  <2>1. 1..(Len(s) + 1) = 1..Len(s) \cup {Len(s) + 1}
    BY <1>2
  <2> QED
    BY <1>2, <1>3, <2>1 DEF ToSet
<1> QED
  BY <1>2, <1>3, <1>4, <1>5 DEF Appends, r

LEMMA Concatenated ==
    ASSUME NEW S, NEW s \in Seq(S), NEW t \in Seq(S)
    PROVE  Joins(S, s \o t, s, t)
<1> DEFINE r == s \o t
<1>1. /\ r \in Seq(S) /\ Len(r) = Len(s) + Len(t)
      /\ Len(s) \in Nat /\ Len(t) \in Nat
      /\ \A i \in 1..(Len(s) + Len(t)) :
           r[i] = IF i <= Len(s) THEN s[i] ELSE t[i - Len(s)]
  BY ConcatProperties
<1> HIDE DEF r
<1>2. /\ DOMAIN r = 1..(Len(s) + Len(t))
      /\ DOMAIN s = 1..Len(s) /\ DOMAIN t = 1..Len(t)
  BY <1>1
<1>3. \A i \in 1..Len(s) : i \in 1..(Len(s) + Len(t)) /\ r[i] = s[i]
  BY <1>1
<1>4. \A i \in 1..Len(t) :
        Len(s) + i \in 1..(Len(s) + Len(t)) /\ r[Len(s) + i] = t[i]
  <2>1. ASSUME NEW i \in 1..Len(t)
        PROVE  Len(s) + i \in 1..(Len(s) + Len(t)) /\ r[Len(s) + i] = t[i]
    <3>1. Len(s) + i \in 1..(Len(s) + Len(t)) /\ ~(Len(s) + i <= Len(s))
      BY <1>1
    <3>2. Len(s) + i - Len(s) = i
      BY <1>1
    <3> QED
      BY <1>1, <3>1, <3>2
  <2> QED
    BY <2>1
<1>5. \A i \in 1..(Len(s) + Len(t)) :
        (i \in 1..Len(s) /\ r[i] = s[i])
        \/ (i - Len(s) \in 1..Len(t) /\ r[i] = t[i - Len(s)])
  BY <1>1
<1>6. ToSet(r) = ToSet(s) \cup ToSet(t)
  <2>1. ASSUME NEW x \in ToSet(r) PROVE x \in ToSet(s) \cup ToSet(t)
    <3>1. PICK i \in 1..(Len(s) + Len(t)) : x = r[i]
      BY <1>2 DEF ToSet
    <3> QED
      BY <1>2, <1>5, <3>1 DEF ToSet
  <2>2. ToSet(s) \subseteq ToSet(r) /\ ToSet(t) \subseteq ToSet(r)
    <3>1. \A i \in DOMAIN s : i \in DOMAIN r /\ r[i] = s[i]
      BY <1>2, <1>3
    <3>2. \A i \in DOMAIN t : Len(s) + i \in DOMAIN r /\ r[Len(s) + i] = t[i]
      BY <1>2, <1>4
    <3> QED
      BY <3>1, <3>2 DEF ToSet
  <2> QED
    BY <2>1, <2>2
<1> QED
  BY <1>1, <1>2, <1>3, <1>4, <1>6 DEF Joins, r

-----------------------------------------------------------------------------
(* OnlyIn: the function that it is written with exists, and each of its     *)
(* values is what a beginning of the sequence has of the set.               *)

Filters(f, s, S, n) ==
    f = [i \in 0..n |-> IF i = 0 THEN <<>>
                        ELSE IF s[i] \in S THEN Append(f[i - 1], s[i])
                        ELSE f[i - 1]]

LEMMA FilterExists ==
    ASSUME NEW s, NEW S, NEW N \in Nat
    PROVE  \E f : Filters(f, s, S, N)
<1> DEFINE T == {n \in 0..N : ~\E f : Filters(f, s, S, n)}
<1>1. SUFFICES ASSUME T # {} PROVE FALSE
  OBVIOUS
<1>2. PICK n \in T : \A m \in T : n <= m
  <2>1. T \in SUBSET Nat
    OBVIOUS
  <2> QED
    BY <1>1, <2>1, Smallest
<1>3. n \in 0..N /\ ~\E f : Filters(f, s, S, n)
  BY <1>2
<1>4. CASE n = 0
  <2> DEFINE e == [i \in 0..0 |-> <<>>]
  <2>1. Filters(e, s, S, 0)
    BY DEF Filters
  <2> QED
    BY <1>3, <1>4, <2>1
<1>5. CASE n # 0
  <2>1. n - 1 \in 0..N /\ ~(n <= n - 1)
    BY <1>3, <1>5
  <2>2. PICK f : Filters(f, s, S, n - 1)
    BY <1>2, <2>1
  <2>3. /\ DOMAIN f = 0..(n - 1)
        /\ \A i \in 0..(n - 1) :
             f[i] = IF i = 0 THEN <<>>
                    ELSE IF s[i] \in S THEN Append(f[i - 1], s[i]) ELSE f[i - 1]
    <3> DEFINE F(i) == IF i = 0 THEN <<>>
                       ELSE IF s[i] \in S THEN Append(f[i - 1], s[i]) ELSE f[i - 1]
    <3>1. f = [i \in 0..(n - 1) |-> F(i)]
      BY <2>2 DEF Filters
    <3> HIDE DEF F
    <3>2. DOMAIN f = 0..(n - 1) /\ \A i \in 0..(n - 1) : f[i] = F(i)
      BY <3>1
    <3> QED
      BY <3>2 DEF F
  <2> DEFINE h == [i \in 0..n |-> IF i < n THEN f[i]
                   ELSE IF s[n] \in S THEN Append(f[n - 1], s[n]) ELSE f[n - 1]]
  <2>4. \A i \in 0..n :
          h[i] = IF i = 0 THEN <<>>
                 ELSE IF s[i] \in S THEN Append(h[i - 1], s[i]) ELSE h[i - 1]
    <3>1. ASSUME NEW i \in 0..n
          PROVE  h[i] = IF i = 0 THEN <<>>
                        ELSE IF s[i] \in S THEN Append(h[i - 1], s[i]) ELSE h[i - 1]
      <4>1. CASE i = n
        <5>1. h[n] = IF s[n] \in S THEN Append(f[n - 1], s[n]) ELSE f[n - 1]
          BY <1>3
        <5>2. h[n - 1] = f[n - 1]
          BY <1>3, <1>5
        <5> HIDE DEF h
        <5> QED
          BY <1>5, <4>1, <5>1, <5>2
      <4>2. CASE i # n
        <5>1. i \in 0..(n - 1) /\ h[i] = f[i]
          BY <1>3, <3>1, <4>2
        <5>2. i # 0 => h[i - 1] = f[i - 1]
          BY <1>3, <3>1, <4>2
        <5> HIDE DEF h
        <5> QED
          BY <2>3, <5>1, <5>2
      <4> QED
        BY <4>1, <4>2
    <3> QED
      BY <3>1
  <2>5. DOMAIN h = 0..n /\ h = [i \in 0..n |-> h[i]]
    OBVIOUS
  <2> HIDE DEF h
  <2>6. Filters(h, s, S, n)
    BY <2>4, <2>5 DEF Filters
  <2> QED
    BY <1>3, <2>6
<1> QED
  BY <1>4, <1>5

\* OnlyIn returns the elements that are in the set and no others, once each if
\* each was there once.
LEMMA OnlyInIs ==
    ASSUME NEW V, NEW s \in Seq(V), NEW S, NEW r, r = OnlyIn(s, S)
    PROVE  /\ r \in Seq(V) /\ ToSet(r) = ToSet(s) \cap S
           /\ OncePerFile(s) => OncePerFile(r)
<1>1. Len(s) \in Nat /\ DOMAIN s = 1..Len(s) /\ \A i \in 1..Len(s) : s[i] \in V
  BY SeqOfItsOwn
<1>2. PICK f : Filters(f, s, S, Len(s)) /\ r = f[Len(s)]
  <2>1. PICK g : Filters(g, s, S, Len(s))
    BY <1>1, FilterExists
  <2> DEFINE h == CHOOSE f : Filters(f, s, S, Len(s))
  <2>2. Filters(h, s, S, Len(s))
    BY <2>1
  <2>3. r = h[Len(s)]
    BY DEF OnlyIn, Filters
  <2> QED
    BY <2>2, <2>3
<1>3. \A i \in 0..Len(s) :
        f[i] = IF i = 0 THEN <<>>
               ELSE IF s[i] \in S THEN Append(f[i - 1], s[i]) ELSE f[i - 1]
  <2> DEFINE F(i) == IF i = 0 THEN <<>>
                     ELSE IF s[i] \in S THEN Append(f[i - 1], s[i]) ELSE f[i - 1]
  <2>1. f = [i \in 0..Len(s) |-> F(i)]
    BY <1>2 DEF Filters
  <2> HIDE DEF F
  <2>2. \A i \in 0..Len(s) : f[i] = F(i)
    BY <2>1
  <2> QED
    BY <2>2 DEF F
<1> DEFINE P(n) == /\ f[n] \in Seq(V)
                   /\ ToSet(f[n]) = {s[j] : j \in 1..n} \cap S
                   /\ OncePerFile(s) => OncePerFile(f[n])
           T == {n \in 0..Len(s) : ~P(n)}
<1> HIDE DEF P
<1>4. T = {}
  <2>1. SUFFICES ASSUME T # {} PROVE FALSE
    OBVIOUS
  <2>2. PICK n \in T : \A m \in T : n <= m
    <3>1. T \in SUBSET Nat
      BY <1>1
    <3> QED
      BY <2>1, <3>1, Smallest
  <2>3. n \in 0..Len(s) /\ n \in Nat /\ ~P(n)
    BY <1>1, <2>2
  <2>4. CASE n = 0
    <3>1. f[n] = <<>>
      BY <1>3, <2>3, <2>4
    <3>2. f[n] \in Seq(V) /\ DOMAIN f[n] = {}
      BY <3>1
    <3>3. 1..n = {}
      BY <2>4
    <3>4. ToSet(f[n]) = {s[j] : j \in 1..n} \cap S
      BY <3>2, <3>3 DEF ToSet
    <3>5. OncePerFile(f[n])
      BY <3>2 DEF OncePerFile
    <3> QED
      BY <2>3, <3>2, <3>4, <3>5 DEF P
  <2>5. CASE n # 0
    <3>1. n - 1 \in 0..Len(s) /\ n - 1 \in Nat /\ n \in 1..Len(s)
      BY <2>3, <2>5
    <3>2. P(n - 1)
      BY <2>2, <2>3, <3>1
    <3>3. PICK q, x : q = f[n - 1] /\ x = s[n]
      OBVIOUS
    <3>4. /\ q \in Seq(V) /\ ToSet(q) = {s[j] : j \in 1..(n - 1)} \cap S
          /\ OncePerFile(s) => OncePerFile(q)
      BY <3>2, <3>3 DEF P
    <3>5. {s[j] : j \in 1..n} = {s[j] : j \in 1..(n - 1)} \cup {x}
      <4>1. 1..n = 1..(n - 1) \cup {n}
        BY <3>1, <2>3
      <4> QED
        BY <3>3, <4>1
    <3>6. f[n] = IF x \in S THEN Append(q, x) ELSE q
      BY <1>3, <2>3, <2>5, <3>3
    <3>7. CASE x \notin S
      <4>1. P(n)
        BY <3>4, <3>5, <3>6, <3>7 DEF P
      <4> QED
        BY <2>3, <4>1
    <3>8. CASE x \in S
      <4>1. PICK t : t = Append(q, x)
        OBVIOUS
      <4>2. /\ t \in Seq(V \cup {x}) /\ Len(q) \in Nat
            /\ DOMAIN t = 1..(Len(q) + 1) /\ DOMAIN q = 1..Len(q)
            /\ \A i \in 1..Len(q) : t[i] = q[i]
            /\ t[Len(q) + 1] = x
            /\ ToSet(t) = ToSet(q) \cup {x}
        <5>1. q \in Seq(V)
          BY <3>4
        <5>2. Appends(V, t, q, x)
          BY <4>1, <5>1, Appended
        <5> QED
          BY <5>2 DEF Appends
      <4>3. V \cup {x} = V
        BY <1>1, <3>1, <3>3
      <4>4. ASSUME OncePerFile(s) PROVE OncePerFile(t)
        <5>1. ASSUME NEW i \in 1..Len(q) PROVE q[i].file # x.file
          <6>1. q[i] \in ToSet(q)
            BY <4>2 DEF ToSet
          <6>2. PICK j \in 1..(n - 1) : q[i] = s[j]
            BY <3>4, <6>1
          <6>3. j \in DOMAIN s /\ n \in DOMAIN s /\ j # n
            BY <1>1, <3>1, <6>2
          <6> QED
            BY <3>3, <4>4, <6>2, <6>3 DEF OncePerFile
        <5>2. ASSUME NEW i \in DOMAIN t, NEW j \in DOMAIN t, t[i].file = t[j].file
              PROVE  i = j
          <6>1. (i \in 1..Len(q) \/ i = Len(q) + 1) /\ (j \in 1..Len(q) \/ j = Len(q) + 1)
            BY <4>2
          <6>2. CASE i \in 1..Len(q) /\ j \in 1..Len(q)
            <7>1. q[i].file = q[j].file
              BY <4>2, <5>2, <6>2
            <7> QED
              BY <3>4, <4>2, <4>4, <6>2, <7>1 DEF OncePerFile
          <6>3. CASE i = Len(q) + 1 /\ j \in 1..Len(q)
            BY <4>2, <5>1, <5>2, <6>3
          <6>4. CASE i \in 1..Len(q) /\ j = Len(q) + 1
            BY <4>2, <5>1, <5>2, <6>4
          <6> QED
            BY <6>1, <6>2, <6>3, <6>4
        <5> QED
          BY <5>2 DEF OncePerFile
      <4>5. ToSet(t) = {s[j] : j \in 1..n} \cap S
        BY <3>4, <3>5, <3>8, <4>2
      <4>6. f[n] = t
        BY <3>6, <3>8, <4>1
      <4>7. P(n)
        BY <4>2, <4>3, <4>4, <4>5, <4>6 DEF P
      <4> QED
        BY <2>3, <4>7
    <3> QED
      BY <3>7, <3>8
  <2> QED
    BY <2>4, <2>5
<1>5. P(Len(s))
  BY <1>1, <1>4
<1> QED
  BY <1>1, <1>2, <1>5 DEF P, ToSet

\* The entries of the configuration after a run: those of its format stay, and
\* all are entries that were there or documents of the run.
LEMMA MergedIs ==
    ASSUME NEW V, NEW existing \in Seq(V), NEW docs \in Seq(V), NEW format,
           NEW r, r = MergedDocuments(existing, docs, format)
    PROVE  /\ r \in Seq(V)
           /\ \A d \in ToSet(existing) : HasExt(d, format) => d \in ToSet(r)
           /\ OncePerFile(existing) /\ OncePerFile(docs) => OncePerFile(r)
<1> DEFINE generated == {d.file : d \in ToSet(docs)}
           stays == {d \in ToSet(existing) : d.file \in generated \/ HasExt(d, format)}
           kept == OnlyIn(existing, stays)
           known == {d.file : d \in ToSet(kept)}
           new == {d \in ToSet(docs) : d.file \notin known}
           added == OnlyIn(docs, new)
<1>1. r = kept \o added
  BY DEF MergedDocuments
<1>2. kept \in Seq(V) /\ ToSet(kept) = ToSet(existing) \cap stays
      /\ (OncePerFile(existing) => OncePerFile(kept))
  <2> HIDE DEF stays
  <2> QED
    BY OnlyInIs
<1>3. added \in Seq(V) /\ ToSet(added) = ToSet(docs) \cap new
      /\ (OncePerFile(docs) => OncePerFile(added))
  <2> HIDE DEF new
  <2> QED
    BY OnlyInIs
<1>4. \A d \in ToSet(existing) : HasExt(d, format) => d \in ToSet(kept)
  BY <1>2
<1>5. \A d \in ToSet(kept), e \in ToSet(added) : d.file # e.file
  <2> HIDE DEF kept, added
  <2> QED
    BY <1>3
<1> HIDE DEF kept, added
<1>6. /\ r \in Seq(V)
      /\ Len(kept) \in Nat /\ Len(added) \in Nat
      /\ DOMAIN r = 1..(Len(kept) + Len(added))
      /\ DOMAIN kept = 1..Len(kept) /\ DOMAIN added = 1..Len(added)
      /\ \A i \in 1..Len(kept) : r[i] = kept[i]
      /\ \A i \in 1..Len(added) : r[Len(kept) + i] = added[i]
      /\ ToSet(r) = ToSet(kept) \cup ToSet(added)
  <2>1. kept \in Seq(V) /\ added \in Seq(V)
    BY <1>2, <1>3
  <2>2. Joins(V, r, kept, added)
    BY <1>1, <2>1, Concatenated
  <2> QED
    BY <2>2 DEF Joins
<1>7. ASSUME OncePerFile(kept), OncePerFile(added)
      PROVE  OncePerFile(r)
  <2>1. ASSUME NEW i \in DOMAIN r, NEW j \in DOMAIN r, r[i].file = r[j].file
        PROVE  i = j
    <3>1. /\ i \in DOMAIN kept \/ i - Len(kept) \in DOMAIN added
          /\ j \in DOMAIN kept \/ j - Len(kept) \in DOMAIN added
      BY <1>6
    <3>2. ASSUME NEW m \in DOMAIN r, m - Len(kept) \in DOMAIN added
          PROVE  r[m] = added[m - Len(kept)]
      <4>1. PICK l \in 1..Len(added) : l = m - Len(kept)
        BY <1>6, <3>2
      <4>2. r[Len(kept) + l] = added[l] /\ Len(kept) + l = m
        BY <1>6, <4>1
      <4> QED
        BY <4>1, <4>2
    <3>3. \A l \in DOMAIN kept, m \in DOMAIN added : kept[l].file # added[m].file
      BY <1>5 DEF ToSet
    <3>4. CASE i \in DOMAIN kept /\ j \in DOMAIN kept
      <4>1. kept[i].file = kept[j].file
        BY <1>6, <2>1, <3>4
      <4> QED
        BY <1>7, <3>4, <4>1 DEF OncePerFile
    <3>5. CASE i - Len(kept) \in DOMAIN added /\ j - Len(kept) \in DOMAIN added
      <4>1. added[i - Len(kept)].file = added[j - Len(kept)].file
        BY <2>1, <3>2, <3>5
      <4>2. i - Len(kept) = j - Len(kept)
        BY <1>7, <3>5, <4>1 DEF OncePerFile
      <4> QED
        BY <1>6, <4>2
    <3>6. CASE i \in DOMAIN kept /\ j - Len(kept) \in DOMAIN added
      <4>1. kept[i].file = added[j - Len(kept)].file
        BY <1>6, <2>1, <3>2, <3>6
      <4> QED
        BY <3>3, <3>6, <4>1
    <3>7. CASE j \in DOMAIN kept /\ i - Len(kept) \in DOMAIN added
      <4>1. kept[j].file = added[i - Len(kept)].file
        BY <1>6, <2>1, <3>2, <3>7
      <4> QED
        BY <3>3, <3>7, <4>1
    <3> QED
      BY <3>1, <3>4, <3>5, <3>6, <3>7
  <2> QED
    BY <2>1 DEF OncePerFile
<1> QED
  BY <1>2, <1>3, <1>4, <1>6, <1>7
-----------------------------------------------------------------------------
(* The snapshots of a run.                                                  *)

\* The last ones of a sequence.
Behind(k, s, r) == Len(s) = Len(r) + k /\ \A j \in 1..Len(r) : r[j] = s[j + k]

LEMMA LastOnesAre ==
    ASSUME NEW V, NEW s \in Seq(V), s # <<>>,
           NEW n \in Nat \ {0}, NEW r, r = LastOnes(s, n)
    PROVE  /\ r \in Seq(V) /\ Len(r) <= n /\ r # <<>> /\ Last(r) = Last(s)
           /\ Len(s) \in Nat /\ Len(r) \in Nat
           /\ DOMAIN s = 1..Len(s) /\ DOMAIN r = 1..Len(r)
           /\ \E k \in Nat : Behind(k, s, r)
<1>1. Len(s) \in Nat /\ Len(s) > 0 /\ DOMAIN s = 1..Len(s)
  BY SeqOfItsOwn
<1>2. CASE ~(Len(s) > n)
  <2>1. r = s
    BY <1>2 DEF LastOnes
  <2>2. Behind(0, s, r)
    <3>1. Len(s) = Len(r) + 0 /\ \A j \in 1..Len(r) : j + 0 = j
      BY <1>1, <2>1
    <3> QED
      BY <2>1, <3>1 DEF Behind
  <2> QED
    BY <1>1, <1>2, <2>1, <2>2
<1>3. CASE Len(s) > n
  <2> DEFINE k == Len(s) - n
  <2>1. r = SubSeq(s, k + 1, Len(s))
    BY <1>3 DEF LastOnes
  <2>2. k \in Nat /\ k + 1 \in 1..(Len(s) + 1) /\ Len(s) \in k..Len(s)
        /\ Len(s) - (k + 1) + 1 = n /\ k + 1 <= Len(s)
    BY <1>1, <1>3
  <2>3. /\ r \in Seq(V) /\ Len(r) = n
        /\ \A j \in 1..n : r[j] = s[k + 1 + j - 1]
    <3> HIDE DEF k
    <3>1. /\ SubSeq(s, k + 1, Len(s)) \in Seq(V)
          /\ Len(SubSeq(s, k + 1, Len(s))) = Len(s) - (k + 1) + 1
          /\ \A j \in 1..(Len(s) - (k + 1) + 1) :
               SubSeq(s, k + 1, Len(s))[j] = s[k + 1 + j - 1]
      BY <1>1, <2>2, SubSeqProperties
    <3> QED
      BY <2>1, <2>2, <3>1
  <2>4. \A j \in 1..n : k + 1 + j - 1 = j + k
    BY <2>2
  <2>5. Behind(k, s, r)
    <3>1. Len(s) = Len(r) + k
      BY <1>1, <2>3
    <3> HIDE DEF k
    <3> QED
      BY <2>3, <2>4, <3>1 DEF Behind
  <2>6. Last(r) = Last(s) /\ r # <<>>
    <3>1. n \in 1..n /\ k + 1 + n - 1 = Len(s)
      BY <1>1
    <3> QED
      BY <2>3, <3>1, EmptySeq DEF Last
  <2> HIDE DEF k
  <2>7. DOMAIN r = 1..Len(r) /\ Len(r) \in Nat /\ Len(r) <= n
    BY <2>3
  <2> QED
    BY <1>1, <2>2, <2>3, <2>5, <2>6, <2>7
<1> QED
  BY <1>2, <1>3

\* Among the last ones there are no versions twice, and they are in order, if
\* that is so among all.
LEMMA LastOnesInOrder ==
    ASSUME NEW V, NEW s \in Seq(V), s # <<>>, Versions(s), Distinct(s), NEW r,
           r = LastOnes(s, MaxSnapshots)
    PROVE  /\ r \in Seq(ToSet(r)) /\ Len(r) <= MaxSnapshots
           /\ Versions(r) /\ Distinct(r) /\ Latest(r) = Last(s).actions
           /\ \A v : UpTo(s, v) => UpTo(r, v)
<1>1. /\ r \in Seq(V) /\ Len(r) <= MaxSnapshots /\ r # <<>> /\ Last(r) = Last(s)
      /\ Len(s) \in Nat /\ Len(r) \in Nat
      /\ DOMAIN s = 1..Len(s) /\ DOMAIN r = 1..Len(r)
      /\ \E k \in Nat : Behind(k, s, r)
  BY LastOnesAre, SnapshotsAssumption
<1>2. PICK k \in Nat : /\ Len(s) = Len(r) + k
                       /\ \A j \in 1..Len(r) : r[j] = s[j + k]
  BY <1>1 DEF Behind
<1>3. \A j \in DOMAIN r : j + k \in DOMAIN s /\ r[j] = s[j + k] /\ j \in Int
  BY <1>1, <1>2
<1>4. Versions(r)
  BY <1>3 DEF Versions
<1>5. Distinct(r)
  <2>1. ASSUME NEW i \in DOMAIN r, NEW j \in DOMAIN r, r[i].version = r[j].version
        PROVE  i = j
    <3>1. i + k = j + k
      BY <1>3, <2>1 DEF Distinct
    <3> QED
      BY <1>2, <1>3, <3>1
  <2> QED
    BY <2>1 DEF Distinct
<1>6. ASSUME NEW v, UpTo(s, v)
      PROVE  UpTo(r, v)
  <2>1. \A i \in DOMAIN r : r[i].version <= v
    BY <1>3, <1>6 DEF UpTo
  <2>2. ASSUME NEW i \in DOMAIN r, NEW j \in DOMAIN r, i < j
        PROVE  r[i].version < r[j].version
    <3>1. i + k < j + k
      BY <1>2, <1>3, <2>2
    <3> QED
      BY <1>3, <1>6, <3>1 DEF UpTo
  <2> QED
    BY <2>1, <2>2 DEF UpTo
<1>7. Latest(r) = Last(s).actions
  BY <1>1 DEF Latest
<1> QED
  BY <1>1, <1>4, <1>5, <1>6, <1>7, SeqOfItsOwn

\* What SelectInSeq returns here.
VersionAt(s, v) == SelectInSeq(s, LAMBDA x : x.version = v)

LEMMA VersionFound ==
    ASSUME NEW V, NEW s \in Seq(V), NEW v, NEW i, i = VersionAt(s, v)
    PROVE  \/ i = 0 /\ \A j \in DOMAIN s : s[j].version # v
           \/ i \in DOMAIN s /\ s[i].version = v
<1> DEFINE I == {j \in 1..Len(s) : s[j].version = v}
<1>1. Len(s) \in Nat /\ DOMAIN s = 1..Len(s)
  BY SeqOfItsOwn
<1>2. i = IF I # {} THEN Min(I) ELSE 0
  BY DEF VersionAt, SelectInSeq
<1>3. I # {} => Min(I) \in I
  <2>1. I \in SUBSET Nat
    BY <1>1
  <2> HIDE DEF I
  <2>2. I # {} => \E n \in I : \A m \in I : n <= m
    BY <2>1, Smallest
  <2> QED
    BY <2>2 DEF Min
<1> QED
  BY <1>1, <1>2, <1>3

\* A run's snapshot becomes the latest one, unless an older one had its version.
LEMMA SnapshotsAfterAre ==
    ASSUME NEW s, s \in Seq(ToSet(s)), Versions(s), Distinct(s),
           NEW v \in Int, NEW current, NEW r, r = SnapshotsAfter(v, current, s)
    PROVE  /\ r \in Seq(ToSet(r)) /\ Len(r) <= MaxSnapshots
           /\ Versions(r) /\ Distinct(r)
           /\ Latest(r) = current \/ Latest(r) = Latest(s)
           /\ UpTo(s, v) => UpTo(r, v) /\ Latest(r) = current
<1> DEFINE snapshot == [version |-> v, actions |-> current]
<1>1. PICK i : i = VersionAt(s, v)
  OBVIOUS
<1>2. \/ i = 0 /\ \A j \in DOMAIN s : s[j].version # v
      \/ i \in DOMAIN s /\ s[i].version = v
  BY <1>1, VersionFound
<1>3. r = LastOnes(IF i = 0 THEN Append(s, snapshot)
                   ELSE [s EXCEPT ![i] = snapshot], MaxSnapshots)
  BY <1>1 DEF SnapshotsAfter, VersionAt
<1>4. PICK t : t = snapshot
  OBVIOUS
<1>5. t.version = v /\ t.actions = current
  BY <1>4
<1>6. PICK m : m = IF i = 0 THEN Append(s, t) ELSE [s EXCEPT ![i] = t]
  OBVIOUS
<1>7. r = LastOnes(m, MaxSnapshots)
  BY <1>3, <1>4, <1>6
<1>8. Len(s) \in Nat /\ DOMAIN s = 1..Len(s)
  BY SeqOfItsOwn
<1> HIDE DEF snapshot
<1>9. /\ m \in Seq(ToSet(s) \cup {t}) /\ m # <<>> /\ Versions(m) /\ Distinct(m)
      /\ Last(m).actions = current \/ (s # <<>> /\ Last(m) = Last(s))
      /\ UpTo(s, v) => UpTo(m, v) /\ Last(m).actions = current
  <2>1. CASE i = 0
    <3>1. m = Append(s, t)
      BY <1>6, <2>1
    <3>2. Appends(ToSet(s), m, s, t)
      BY <3>1, Appended
    <3>3. /\ m \in Seq(ToSet(s) \cup {t}) /\ m # <<>> /\ Last(m) = t
          /\ DOMAIN m = 1..(Len(s) + 1)
          /\ \A j \in 1..Len(s) : m[j] = s[j]
          /\ m[Len(s) + 1] = t
      BY <3>2 DEF Appends
    <3>4. \A j \in DOMAIN s : s[j].version # v
      BY <1>2, <1>8, <2>1
    <3>5. \A j \in DOMAIN m : \/ j \in DOMAIN s /\ m[j] = s[j]
                              \/ j = Len(s) + 1 /\ m[j] = t
      BY <1>8, <3>3
    <3>6. Versions(m)
      BY <1>5, <3>5 DEF Versions
    <3>7. Distinct(m)
      BY <1>5, <3>4, <3>5 DEF Distinct
    <3>8. ASSUME UpTo(s, v) PROVE UpTo(m, v)
      <4>1. \A j \in DOMAIN s : s[j].version < v
        BY <3>4, <3>8 DEF UpTo, Versions
      <4>2. \A j \in DOMAIN m : m[j].version <= v
        BY <1>5, <3>5, <3>8 DEF UpTo
      <4>3. \A j, k \in DOMAIN m : j < k => m[j].version < m[k].version
        BY <1>5, <1>8, <3>5, <3>8, <4>1 DEF UpTo
      <4> QED
        BY <4>2, <4>3 DEF UpTo
    <3> QED
      BY <1>5, <3>3, <3>6, <3>7, <3>8
  <2>2. CASE i # 0
    <3>1. m = [s EXCEPT ![i] = t] /\ i \in DOMAIN s /\ s[i].version = v
      BY <1>2, <1>6, <2>2
    <3>2. s \in Seq(ToSet(s) \cup {t})
      BY SeqOfMore
    <3>3. m \in Seq(ToSet(s) \cup {t}) /\ Len(m) = Len(s)
      BY <3>1, <3>2, ExceptSeq
    <3>4. DOMAIN m = DOMAIN s /\ \A j \in DOMAIN s : m[j] = IF j = i THEN t ELSE s[j]
      BY <3>1
    <3>5. \A j \in DOMAIN s : m[j].version = s[j].version
      BY <1>5, <3>1, <3>4
    <3>6. Versions(m) /\ Distinct(m) /\ (UpTo(s, v) => UpTo(m, v))
      BY <3>4, <3>5 DEF Versions, Distinct, UpTo
    <3>7. m # <<>> /\ s # <<>>
      BY <1>8, <3>1, <3>3, EmptySeq
    <3>8. Len(s) \in DOMAIN s /\ Last(m) = m[Len(s)] /\ Last(s) = s[Len(s)]
      BY <1>8, <3>1, <3>3 DEF Last
    <3>9. Last(m).actions = current \/ Last(m) = Last(s)
      BY <1>5, <3>4, <3>8
    <3>10. ASSUME UpTo(s, v) PROVE i = Len(s)
      <4>1. ~(i < Len(s))
        <5>1. SUFFICES ASSUME i < Len(s) PROVE FALSE
          OBVIOUS
        <5>2. s[i].version < s[Len(s)].version /\ s[Len(s)].version <= v
          BY <3>1, <3>8, <3>10, <5>1 DEF UpTo
        <5>3. s[Len(s)].version \in Int
          BY <3>8 DEF Versions
        <5> QED
          BY <3>1, <5>2, <5>3
      <4> QED
        BY <1>8, <3>1, <4>1
    <3>11. UpTo(s, v) => Last(m).actions = current
      BY <1>5, <3>4, <3>8, <3>10
    <3> QED
      BY <3>3, <3>6, <3>7, <3>9, <3>11
  <2> QED
    BY <2>1, <2>2
<1>10. /\ r \in Seq(ToSet(r)) /\ Len(r) <= MaxSnapshots
       /\ Versions(r) /\ Distinct(r) /\ Latest(r) = Last(m).actions
       /\ \A w : UpTo(m, w) => UpTo(r, w)
  BY <1>7, <1>9, LastOnesInOrder
<1>11. s # <<>> => Latest(s) = Last(s).actions
  BY DEF Latest
<1> QED
  BY <1>9, <1>10, <1>11
-----------------------------------------------------------------------------
(* The invariant holds at first, and the user keeps it.                     *)

LEMMA InitInv == RunsInit => DocInv
<1> SUFFICES ASSUME RunsInit PROVE DocInv
  OBVIOUS
<1>1. /\ config = NoConfig /\ snapshots = <<>> /\ viewer = {} /\ run = Idle
      /\ commit \in {NoGit, 1}
      /\ history = [wentBack |-> FALSE, unsaved |-> FALSE, untold |-> FALSE,
                    shared |-> FALSE, told |-> {}, current |-> {}]
  BY DEF RunsInit
<1>2. ListsInv
  <2>1. config.appDocuments = <<>> /\ DOMAIN config = {"groupNames", "appDocuments", "state"}
    BY <1>1 DEF NoConfig
  <2>2. <<>> \in Seq(Entries) /\ OncePerFile(<<>>)
    BY DEF OncePerFile
  <2>3. DOMAIN history = {"wentBack", "unsaved", "untold", "shared", "told", "current"}
    BY <1>1
  <2> QED
    BY <1>1, <2>1, <2>2, <2>3 DEF ListsInv
<1>3. RunInv
  BY <1>1 DEF RunInv
<1>4. SnapshotsInv
  <2>1. snapshots \in Seq(ToSet(snapshots)) /\ Len(snapshots) = 0 /\ DOMAIN snapshots = {}
    BY <1>1
  <2>2. Versions(snapshots) /\ Distinct(snapshots) /\ UpTo(snapshots, commit)
    BY <2>1 DEF Versions, Distinct, UpTo
  <2>3. history.current = Latest(snapshots)
    BY <1>1 DEF Latest
  <2> QED
    BY <1>1, <2>1, <2>2, <2>3, SnapshotsAssumption DEF SnapshotsInv
<1>5. ToldInv
  BY <1>1 DEF ToldInv, Latest
<1> QED
  BY <1>2, <1>3, <1>4, <1>5 DEF DocInv

\* Each part depends on a part of the state only.
LEMMA ListsFrame ==
    ASSUME ListsInv, UNCHANGED <<config, documents, viewer>>,
           DOMAIN history' = DOMAIN history, ~history'.shared => ~history.shared
    PROVE  ListsInv'
  BY DEF ListsInv, Entries, OncePerFile

LEMMA SnapshotsFrame ==
    ASSUME SnapshotsInv, UNCHANGED <<commit, snapshots>>,
           history'.wentBack = history.wentBack, history'.unsaved = history.unsaved,
           history'.current = history.current
    PROVE  SnapshotsInv'
  BY DEF SnapshotsInv, Versions, Distinct, UpTo, Latest, ToSet

LEMMA IdleFrame ==
    ASSUME run' = Idle
    PROVE  RunInv'
  BY DEF RunInv

LEMMA IdleIs ==
    /\ Idle.pc = "idle"
    /\ run = Idle => \A a : ~ToBeTold(a)
  BY DEF Idle, ToBeTold

LEMMA EditSourceInv == ASSUME DocInv, EditSource PROVE DocInv'
<1>1. UNCHANGED <<commit, config, snapshots, documents, viewer, run, history>>
  BY DEF EditSource
<1>2. ListsInv' /\ SnapshotsInv'
  BY <1>1, ListsFrame, SnapshotsFrame DEF DocInv
<1>3. RunInv' /\ ToldInv'
  BY <1>1, IdleIs DEF DocInv, RunInv, ToldInv, ToBeTold, EditSource, Edited
<1> QED
  BY <1>2, <1>3 DEF DocInv

LEMMA CommitInv == ASSUME DocInv, Commit PROVE DocInv'
<1>1. /\ UNCHANGED <<config, snapshots, documents, viewer, run>> /\ run = Idle
      /\ commit # NoGit
      /\ \E c \in 1..MaxCommit : /\ c \in {commit - 1, commit + 1} /\ commit' = c
                                 /\ history' = [history EXCEPT !.wentBack = @ \/ c < commit]
  BY DEF Commit, Edited
<1>2. PICK c \in 1..MaxCommit : /\ c \in {commit - 1, commit + 1} /\ commit' = c
                                /\ history' = [history EXCEPT !.wentBack = @ \/ c < commit]
  BY <1>1
<1>3. DOMAIN history = {"wentBack", "unsaved", "untold", "shared", "told", "current"}
  BY DEF DocInv, ListsInv
<1>4. /\ DOMAIN history' = DOMAIN history /\ history'.shared = history.shared
      /\ history'.unsaved = history.unsaved /\ history'.current = history.current
      /\ history'.untold = history.untold /\ history'.told = history.told
  BY <1>2, <1>3
<1>5. ~history'.wentBack => ~history.wentBack /\ ~(c < commit)
  BY <1>2, <1>3
<1>6. ListsInv'
  BY <1>1, <1>4, ListsFrame DEF DocInv
<1>7. RunInv' /\ ToldInv'
  <2>1. RunInv'
    BY <1>1, IdleFrame
  <2>2. Latest(snapshots)' = Latest(snapshots)
    BY <1>1 DEF Latest
  <2>3. \A a \in Latest(snapshots) : ~history.untold => a \in history.told
    BY <1>1, IdleIs DEF DocInv, ToldInv
  <2> QED
    BY <1>4, <2>1, <2>2, <2>3 DEF ToldInv
<1>8. SnapshotsInv'
  <2>1. commit \in Int /\ c \in Int
    BY <1>1 DEF DocInv, SnapshotsInv
  <2>2. ASSUME ~history'.wentBack PROVE UpTo(snapshots, c)
    <3>1. UpTo(snapshots, commit) /\ commit <= c /\ Versions(snapshots)
      BY <1>5, <2>1, <2>2 DEF DocInv, SnapshotsInv
    <3> QED
      BY <2>1, <3>1 DEF UpTo, Versions
  <2>3. PICK s : s = snapshots
    OBVIOUS
  <2>4. snapshots' = s /\ commit' = c
    BY <1>1, <1>2, <2>3
  <2>5. /\ s \in Seq(ToSet(s)) /\ Len(s) <= MaxSnapshots /\ Versions(s) /\ Distinct(s)
        /\ ~history.wentBack /\ ~history.unsaved => history.current = Latest(s)
        /\ ~history'.wentBack => UpTo(s, c)
    BY <2>2, <2>3 DEF DocInv, SnapshotsInv
  <2> QED
    BY <1>4, <1>5, <2>1, <2>4, <2>5
       DEF SnapshotsInv, Versions, Distinct, UpTo, Latest, ToSet
<1> QED
  BY <1>6, <1>7, <1>8 DEF DocInv

LEMMA EditConfigInv == ASSUME DocInv, EditConfig PROVE DocInv'
<1>1. /\ UNCHANGED <<commit, snapshots, documents, viewer, run, history>>
      /\ run = Idle
  BY DEF EditConfig, Edited
<1>2. SnapshotsInv' /\ RunInv' /\ ToldInv'
  <2>1. SnapshotsInv'
    BY <1>1, SnapshotsFrame DEF DocInv
  <2>2. RunInv'
    BY <1>1, IdleFrame
  <2>3. ToldInv'
    BY <1>1, IdleIs DEF DocInv, ToldInv, ToBeTold, Latest
  <2> QED
    BY <2>1, <2>2, <2>3
<1>3. /\ DOMAIN config = {"groupNames", "appDocuments", "state"}
      /\ config.appDocuments \in Seq(Entries)
      /\ ~history.shared => OncePerFile(config.appDocuments)
  BY DEF DocInv, ListsInv
<1>4. /\ DOMAIN config' = {"groupNames", "appDocuments", "state"}
      /\ config'.appDocuments \in Seq(Entries)
      /\ ~history.shared => OncePerFile(config'.appDocuments)
  <2>1. CASE \E p \in LabelledPrefixes \cap DOMAIN config.groupNames :
               config' = [config EXCEPT !.groupNames[p] = "users"]
    <3>1. config'.appDocuments = config.appDocuments /\ DOMAIN config' = DOMAIN config
      BY <1>3, <2>1
    <3> QED
      BY <1>3, <3>1
  <2>2. CASE \E i \in DOMAIN config.appDocuments :
               config' = [config EXCEPT !.appDocuments[i].label = "users"]
    <3>1. PICK i \in DOMAIN config.appDocuments :
                 config' = [config EXCEPT !.appDocuments[i].label = "users"]
      BY <2>2
    <3>2. PICK s : s = config.appDocuments
      OBVIOUS
    <3>3. PICK e : e = [s[i] EXCEPT !.label = "users"]
      OBVIOUS
    <3>4. s \in Seq(Entries) /\ i \in DOMAIN s /\ DOMAIN s = 1..Len(s)
      BY <1>3, <3>1, <3>2, SeqOfItsOwn
    <3>5. s[i] \in Entries
      BY <3>4
    <3>6. e \in Entries /\ e.file = s[i].file
      <4>1. PICK d, D : d = s[i] /\ D = DOMAIN documents
        OBVIOUS
      <4>2. d \in [file : D, label : {"generated", "users"}] /\ e = [d EXCEPT !.label = "users"]
        BY <3>3, <3>5, <4>1 DEF Entries
      <4>3. e \in [file : D, label : {"generated", "users"}] /\ e.file = d.file
        <5>1. d.file \in D /\ DOMAIN d = {"file", "label"}
              /\ d = [file |-> d.file, label |-> d.label]
          BY <4>2
        <5>2. e = [file |-> d.file, label |-> "users"]
          BY <4>2, <5>1
        <5> QED
          BY <5>1, <5>2
      <4> QED
        BY <4>1, <4>3 DEF Entries
    <3>7. DOMAIN config' = DOMAIN config /\ config'.appDocuments = [s EXCEPT ![i] = e]
      BY <1>3, <3>1, <3>2, <3>3
    <3>8. PICK t : t = [s EXCEPT ![i] = e]
      OBVIOUS
    <3>9. t \in Seq(Entries)
      BY <3>4, <3>6, <3>8, ExceptSeq
    <3>10. DOMAIN t = DOMAIN s /\ \A j \in DOMAIN s : t[j].file = s[j].file
      BY <3>6, <3>8
    <3>11. OncePerFile(s) => OncePerFile(t)
      BY <3>10 DEF OncePerFile
    <3> QED
      BY <1>3, <3>2, <3>7, <3>8, <3>9, <3>11
  <2>3. CASE config' = Corrupt \/ config' = NoConfig
    <3>1. config'.appDocuments = <<>> /\ DOMAIN config' = {"groupNames", "appDocuments", "state"}
      BY <2>3 DEF Corrupt, NoConfig
    <3>2. <<>> \in Seq(Entries) /\ OncePerFile(<<>>)
      BY DEF OncePerFile
    <3> QED
      BY <3>1, <3>2
  <2> QED
    BY <2>1, <2>2, <2>3 DEF EditConfig
<1>5. ListsInv'
  BY <1>1, <1>4 DEF DocInv, ListsInv, Entries, OncePerFile
<1> QED
  BY <1>2, <1>5 DEF DocInv
-----------------------------------------------------------------------------
(* The steps of a run keep the invariant.                                   *)

\* No state of a run is idle.
LEMMA UnderWay ==
    ASSUME RunInv, run.pc # "idle"
    PROVE  /\ run # Idle
           /\ DOMAIN run = {"pc", "format", "routerFiles", "changelog", "listed",
                            "next", "config"}
           /\ run.next \in Nat /\ run.listed \in Seq(Entries)
           /\ run.pc \in {"load", "changelog"} =>
                run.changelog = NoChange /\ run.listed = <<>>
           /\ run.changelog # NoChange => run.format = "json"
           /\ run.pc \in {"changelog", "documents"} \/ run.listed # <<>> => Named
           /\ ListedInv
           /\ ~SharedFile(run.routerFiles) => OncePerFile(run.listed)
           /\ ~history.shared => ~SharedFile(run.routerFiles)
  BY DEF RunInv, Idle

\* Nothing is told, and nothing new is to be.
LEMMA ToldFrame ==
    ASSUME ToldInv, snapshots' = snapshots, history'.told = history.told,
           ~history'.untold => ~history.untold /\ \A a : ~ToBeTold(a)
    PROVE  ToldInv'
<1>1. Latest(snapshots)' = Latest(snapshots)
  BY DEF Latest
<1> QED
  BY <1>1 DEF ToldInv

LEMMA StartRunInv ==
    ASSUME DocInv, NEW format \in {"json", "md"}, StartRun(format)
    PROVE  DocInv'
<1>1. PICK rfs : rfs = RouterFiles
  OBVIOUS
<1>2. /\ run = Idle /\ UNCHANGED <<commit, config, snapshots, documents, viewer>>
      /\ run' = [pc |-> IF Scan.failed \/ Scan.files = <<>> THEN "template" ELSE "load",
                 format |-> format, routerFiles |-> rfs,
                 changelog |-> NoChange, listed |-> <<>>, next |-> 1,
                 config |-> NoConfig]
      /\ history' = [history EXCEPT !.shared = @ \/ SharedFile(rfs)]
  BY <1>1 DEF StartRun, outputs
<1>3. DOMAIN history = {"wentBack", "unsaved", "untold", "shared", "told", "current"}
  BY DEF DocInv, ListsInv
<1>4. /\ DOMAIN history' = DOMAIN history
      /\ history'.wentBack = history.wentBack /\ history'.unsaved = history.unsaved
      /\ history'.current = history.current
      /\ history'.untold = history.untold /\ history'.told = history.told
  BY <1>2, <1>3
<1>5. ~history'.shared => ~history.shared /\ ~SharedFile(rfs)
  BY <1>2, <1>3
<1>6. ListsInv' /\ SnapshotsInv' /\ ToldInv'
  <2>1. ListsInv'
    BY <1>2, <1>4, <1>5, ListsFrame DEF DocInv
  <2>2. SnapshotsInv'
    BY <1>2, <1>4, SnapshotsFrame DEF DocInv
  <2>3. ToldInv'
    BY <1>2, <1>4, IdleIs, ToldFrame DEF DocInv
  <2> QED
    BY <2>1, <2>2, <2>3
<1>7. RunInv'
  <2>1. /\ DOMAIN run' = {"pc", "format", "routerFiles", "changelog", "listed",
                          "next", "config"}
        /\ run'.pc \in {"load", "template"} /\ run'.next = 1 /\ run'.listed = <<>>
        /\ run'.changelog = NoChange /\ run'.routerFiles = rfs
    BY <1>2
  <2>2. ListedInv'
    BY <2>1 DEF ListedInv
  <2>3. OncePerFile(run.listed)' /\ run'.listed \in Seq(Entries')
    BY <2>1 DEF OncePerFile
  <2>4. SharedFile(run.routerFiles)' <=> SharedFile(rfs)
    BY <2>1 DEF SharedFile
  <2> QED
    BY <1>5, <2>1, <2>2, <2>3, <2>4 DEF RunInv
<1> QED
  BY <1>6, <1>7 DEF DocInv

\* LoadCategoryConfig gives the run a configuration that names its prefixes,
\* and leaves the list of documents alone.
LEMMA Loaded ==
    ASSUME ListsInv, NEW rfs, NEW loaded,
           loaded = IF config.state = "missing"
                    THEN Good(generateDefaultConfig(AllActions(rfs)))
                    ELSE WithMissingGroups(config, AllActions(rfs))
    PROVE  /\ DOMAIN loaded = {"groupNames", "appDocuments", "state"}
           /\ loaded.appDocuments = <<>> \/ loaded.appDocuments = config.appDocuments
           /\ \A k \in DOMAIN rfs : \A a \in ToSet(rfs[k].actions) :
                Parts[a.name][1] \in DOMAIN loaded.groupNames
           /\ config.state = "good" =>
                /\ loaded.state = "good" /\ loaded.appDocuments = config.appDocuments
                /\ \A p \in DOMAIN config.groupNames :
                     /\ p \in DOMAIN loaded.groupNames
                     /\ loaded.groupNames[p] = config.groupNames[p]
<1>1. DOMAIN config = {"groupNames", "appDocuments", "state"}
  BY DEF ListsInv
<1>2. PICK P : P = PrefixesOf(AllActions(rfs))
  OBVIOUS
<1>3. \A k \in DOMAIN rfs : \A a \in ToSet(rfs[k].actions) : Parts[a.name][1] \in P
  BY <1>2 DEF PrefixesOf, AllActions
<1>4. CASE config.state = "missing"
  <2>1. loaded = [groupNames |-> [p \in P |-> p], appDocuments |-> <<>>, state |-> "good"]
    BY <1>2, <1>4 DEF Good, generateDefaultConfig
  <2> QED
    BY <1>3, <1>4, <2>1
<1>5. CASE config.state # "missing"
  <2>1. PICK g : g = config.groupNames
    OBVIOUS
  <2>2. loaded = [config EXCEPT !.groupNames =
                    [p \in DOMAIN @ \cup P |-> IF p \in DOMAIN @ THEN @[p] ELSE p]]
    BY <1>2, <1>5 DEF WithMissingGroups
  <2>3. /\ DOMAIN loaded = DOMAIN config /\ loaded.appDocuments = config.appDocuments
        /\ loaded.state = config.state
        /\ loaded.groupNames = [p \in DOMAIN g \cup P |-> IF p \in DOMAIN g THEN g[p] ELSE p]
    BY <1>1, <2>1, <2>2
  <2> QED
    BY <1>1, <1>3, <2>1, <2>3
<1> QED
  BY <1>4, <1>5

LEMMA LoadInv == ASSUME DocInv, LoadCategoryConfig PROVE DocInv'
<1>1. PICK rfs : rfs = run.routerFiles
  OBVIOUS
<1>2. PICK loaded : loaded = IF config.state = "missing"
                             THEN Good(generateDefaultConfig(AllActions(rfs)))
                             ELSE WithMissingGroups(config, AllActions(rfs))
  OBVIOUS
<1>3. /\ run.pc = "load"
      /\ UNCHANGED <<commit, snapshots, documents, viewer, history>>
      /\ config' = config \/ config' = loaded
      /\ \/ run' = [run EXCEPT !.pc = "template"]
         \/ run' = [run EXCEPT !.pc = "changelog", !.config = loaded]
  BY <1>1, <1>2, Zenon DEF LoadCategoryConfig
<1>4. /\ DOMAIN loaded = {"groupNames", "appDocuments", "state"}
      /\ loaded.appDocuments = <<>> \/ loaded.appDocuments = config.appDocuments
      /\ \A k \in DOMAIN rfs : \A a \in ToSet(rfs[k].actions) :
           Parts[a.name][1] \in DOMAIN loaded.groupNames
  <2>1. ListsInv
    BY DEF DocInv
  <2> QED
    BY <1>2, <2>1, Loaded
<1>5. /\ DOMAIN run = {"pc", "format", "routerFiles", "changelog", "listed",
                       "next", "config"}
      /\ run.next \in Nat /\ run.listed \in Seq(Entries)
      /\ run.changelog = NoChange /\ run.listed = <<>>
      /\ ~history.shared => ~SharedFile(run.routerFiles)
  BY <1>3, UnderWay DEF DocInv
<1>6. /\ DOMAIN run' = DOMAIN run /\ run'.pc \in {"template", "changelog"}
      /\ run'.changelog = NoChange /\ run'.listed = <<>> /\ run'.next = run.next
      /\ run'.routerFiles = rfs
      /\ run'.pc = "changelog" => run'.config = loaded
  BY <1>1, <1>3, <1>5
<1>7. ListsInv'
  <2>1. <<>> \in Seq(Entries) /\ OncePerFile(<<>>)
    BY DEF OncePerFile
  <2>2. /\ DOMAIN config' = {"groupNames", "appDocuments", "state"}
        /\ config'.appDocuments = <<>> \/ config'.appDocuments = config.appDocuments
    BY <1>3, <1>4 DEF DocInv, ListsInv
  <2>3. /\ config'.appDocuments \in Seq(Entries)
        /\ ~history.shared => OncePerFile(config'.appDocuments)
    BY <2>1, <2>2 DEF DocInv, ListsInv
  <2> QED
    BY <1>3, <2>2, <2>3 DEF DocInv, ListsInv, Entries, OncePerFile
<1>8. RunInv'
  <2>1. ListedInv' /\ OncePerFile(run.listed)'
    BY <1>6 DEF ListedInv, OncePerFile
  <2>2. run'.listed \in Seq(Entries')
    BY <1>6
  <2>3. run'.pc = "changelog" => Named'
    BY <1>4, <1>6 DEF Named, ToSet
  <2>4. SharedFile(run.routerFiles)' <=> SharedFile(run.routerFiles)
    BY <1>1, <1>6 DEF SharedFile
  <2> QED
    BY <1>3, <1>5, <1>6, <2>1, <2>2, <2>3, <2>4 DEF RunInv
<1>9. SnapshotsInv' /\ ToldInv'
  <2>1. SnapshotsInv'
    BY <1>3, SnapshotsFrame DEF DocInv
  <2>2. \A a : ~ToBeTold(a)
    BY <1>3 DEF ToBeTold
  <2> QED
    BY <1>3, <2>1, <2>2, ToldFrame DEF DocInv
<1> QED
  BY <1>7, <1>8, <1>9 DEF DocInv
\* An entry of the log of changes has what the latest snapshot has not.
LEMMA ChangelogIs ==
    ASSUME NEW v, NEW current, NEW s, NEW e, e = ChangelogOf(v, current, s)
    PROVE  \/ e = NoChange /\ (v = NoGit \/ Latest(s) = current)
           \/ e # NoChange /\ v # NoGit /\ e.added = current \ Latest(s)
<1>1. e = IF v = NoGit \/ Latest(s) = current THEN NoChange
          ELSE [version |-> v, added |-> current \ Latest(s),
                removed |-> Latest(s) \ current]
  BY DEF ChangelogOf, Latest
<1>2. CASE v = NoGit \/ Latest(s) = current
  BY <1>1, <1>2
<1>3. CASE ~(v = NoGit \/ Latest(s) = current)
  <2>1. DOMAIN e = {"version", "added", "removed"} /\ e.added = current \ Latest(s)
    BY <1>1, <1>3
  <2>2. DOMAIN NoChange = {"k"}
    BY DEF NoChange
  <2>3. e # NoChange
    BY <2>1, <2>2
  <2> QED
    BY <1>3, <2>1, <2>3
<1> QED
  BY <1>2, <1>3

LEMMA ChangelogInv == ASSUME DocInv, GenerateGlobalChangelog PROVE DocInv'
<1>1. PICK current : current = NamesIn(run.routerFiles)
  OBVIOUS
<1>2. PICK entry : entry = IF run.format = "json"
                           THEN ChangelogOf(commit, current, snapshots) ELSE NoChange
  OBVIOUS
<1>3. PICK after : after = SnapshotsAfter(commit, current, snapshots)
  OBVIOUS
<1>4. /\ run.pc = "changelog"
      /\ run' = [run EXCEPT !.pc = "documents", !.changelog = entry]
      /\ \/ snapshots' = IF entry = NoChange THEN snapshots ELSE after
         \/ entry # NoChange /\ UNCHANGED snapshots
      /\ history' = IF run.format = "json" /\ commit # NoGit
                    THEN [history EXCEPT !.current = current,
                            !.unsaved = snapshots' = snapshots /\ entry # NoChange]
                    ELSE history
      /\ UNCHANGED <<commit, config, documents, viewer>>
  BY <1>1, <1>2, <1>3, Zenon DEF GenerateGlobalChangelog
<1>5. \/ entry = NoChange /\ (Latest(snapshots) = current \/ commit = NoGit
                              \/ run.format # "json")
      \/ /\ entry # NoChange /\ run.format = "json" /\ commit # NoGit
         /\ entry.added = current \ Latest(snapshots)
  BY <1>2, ChangelogIs
<1>6. DOMAIN history = {"wentBack", "unsaved", "untold", "shared", "told", "current"}
  BY DEF DocInv, ListsInv
<1>7. /\ DOMAIN history' = DOMAIN history /\ history'.shared = history.shared
      /\ history'.wentBack = history.wentBack
      /\ history'.untold = history.untold /\ history'.told = history.told
  BY <1>4, <1>6
<1>8. /\ DOMAIN run = {"pc", "format", "routerFiles", "changelog", "listed",
                       "next", "config"}
      /\ run # Idle
      /\ run.next \in Nat /\ run.listed \in Seq(Entries) /\ run.listed = <<>>
      /\ Named /\ ListedInv
      /\ ~history.shared => ~SharedFile(run.routerFiles)
  BY <1>4, UnderWay DEF DocInv
<1>9. /\ DOMAIN run' = DOMAIN run /\ run'.pc = "documents"
      /\ run'.changelog = entry /\ run'.listed = <<>> /\ run'.next = run.next
      /\ run'.routerFiles = run.routerFiles /\ run'.config = run.config
      /\ run'.format = run.format
  BY <1>4, <1>8
<1>10. ListsInv'
  BY <1>4, <1>7, ListsFrame DEF DocInv
<1>11. RunInv'
  <2>1. ListedInv' /\ OncePerFile(run.listed)'
    BY <1>9 DEF ListedInv, OncePerFile
  <2>2. run'.listed \in Seq(Entries')
    BY <1>9
  <2>3. Named'
    BY <1>8, <1>9 DEF Named, ToSet
  <2>4. SharedFile(run.routerFiles)' <=> SharedFile(run.routerFiles)
    BY <1>9 DEF SharedFile
  <2>5. run'.changelog # NoChange => run'.format = "json"
    BY <1>5, <1>9
  <2> QED
    BY <1>7, <1>8, <1>9, <2>1, <2>2, <2>3, <2>4, <2>5 DEF RunInv
<1>12. \A a : ~ToBeTold(a)
  BY <1>4 DEF ToBeTold
<1>13. CASE entry = NoChange
  <2>1. snapshots' = snapshots
    BY <1>4, <1>13
  <2>2. SnapshotsInv'
    <3>1. CASE run.format = "json" /\ commit # NoGit
      <4>1. history'.current = Latest(snapshots)
        BY <1>4, <1>5, <1>6, <1>13, <3>1
      <4> QED
        BY <1>4, <1>7, <2>1, <4>1
           DEF DocInv, SnapshotsInv, Versions, Distinct, UpTo, Latest, ToSet
    <3>2. CASE ~(run.format = "json" /\ commit # NoGit)
      BY <1>4, <2>1, <3>2, SnapshotsFrame DEF DocInv
    <3> QED
      BY <3>1, <3>2
  <2>3. ToldInv'
    BY <1>7, <1>12, <2>1, ToldFrame DEF DocInv
  <2> QED
    BY <1>10, <1>11, <2>2, <2>3 DEF DocInv
<1>14. CASE entry # NoChange /\ snapshots' = snapshots
  <2>1. history'.unsaved
    BY <1>4, <1>5, <1>6, <1>14
  <2>2. SnapshotsInv'
    BY <1>4, <1>7, <1>14, <2>1
       DEF DocInv, SnapshotsInv, Versions, Distinct, UpTo, Latest, ToSet
  <2>3. ToldInv'
    BY <1>7, <1>12, <1>14, ToldFrame DEF DocInv
  <2> QED
    BY <1>10, <1>11, <2>2, <2>3 DEF DocInv
<1>15. CASE entry # NoChange /\ snapshots' # snapshots
  <2>1. snapshots' = after /\ history'.current = current
        /\ entry.added = current \ Latest(snapshots) /\ commit # NoGit
    BY <1>4, <1>5, <1>6, <1>15
  <2>2. /\ snapshots \in Seq(ToSet(snapshots)) /\ Versions(snapshots)
        /\ Distinct(snapshots) /\ commit \in Int
        /\ ~history.wentBack => UpTo(snapshots, commit)
    BY <2>1 DEF DocInv, SnapshotsInv
  <2>3. /\ after \in Seq(ToSet(after)) /\ Len(after) <= MaxSnapshots
        /\ Versions(after) /\ Distinct(after)
        /\ Latest(after) = current \/ Latest(after) = Latest(snapshots)
        /\ UpTo(snapshots, commit) => UpTo(after, commit) /\ Latest(after) = current
    BY <1>3, <2>2, SnapshotsAfterAre
  <2>4. SnapshotsInv'
    <3>1. /\ ~history'.wentBack => UpTo(after, commit)
          /\ ~history'.wentBack => history'.current = Latest(after)
      BY <1>7, <2>1, <2>2, <2>3
    <3> QED
      BY <1>4, <2>1, <2>2, <2>3, <3>1
         DEF SnapshotsInv, Versions, Distinct, UpTo, Latest, ToSet
  <2>5. ToldInv'
    <3>1. \A a : ToBeTold(a)' <=> a \in entry.added
      BY <1>9, <1>15 DEF ToBeTold
    <3>2. Latest(snapshots)' = Latest(after)
      BY <2>1 DEF Latest
    <3>3. ASSUME ~history.untold, NEW a \in Latest(after)
          PROVE  a \in history.told \/ a \in entry.added
      BY <1>12, <2>1, <2>3, <3>3 DEF DocInv, ToldInv
    <3> QED
      BY <1>7, <3>1, <3>2, <3>3 DEF ToldInv
  <2> QED
    BY <1>10, <1>11, <2>4, <2>5 DEF DocInv
<1> QED
  BY <1>13, <1>14, <1>15
LEMMA DocFileIs ==
    ASSUME NEW a, NEW b, NEW f, DocFile(a, f) = DocFile(b, f)
    PROVE  a = b
  BY DEF DocFile

\* A document that is written shows the groups of its router file; one in JSON
\* tells the changes of the run.
LEMMA WriteInv == ASSUME DocInv, WriteDocument PROVE DocInv'
<1>1. PICK rf, k : rf = run.routerFiles[run.next] /\ k = run.next
  OBVIOUS
<1>2. PICK file : file = DocFile(rf.fileName, run.format)
  OBVIOUS
<1>3. PICK doc : doc = IF run.format = "json"
                       THEN GenerateJSON(rf, run.config, run.changelog)
                       ELSE GenerateMarkdown(rf, run.config)
  OBVIOUS
<1>4. PICK told : told = IF doc.changelog = NoChange THEN {} ELSE doc.changelog.added
  OBVIOUS
<1>5. PICK t : t = [file |-> file, label |-> "generated"]
  OBVIOUS
<1>6. /\ run.pc = "documents" /\ k \in DOMAIN run.routerFiles
      /\ \/ /\ documents' = [f \in DOMAIN documents \cup {file} |->
                               IF f = file THEN doc ELSE documents[f]]
            /\ run' = [run EXCEPT !.next = @ + 1, !.listed = Append(@, t)]
            /\ history' = [history EXCEPT !.told = @ \cup told]
         \/ /\ UNCHANGED documents
            /\ run' = [run EXCEPT !.next = @ + 1]
            /\ UNCHANGED history
      /\ UNCHANGED <<commit, config, snapshots, viewer>>
  BY <1>1, <1>2, <1>3, <1>4, <1>5, Zenon DEF WriteDocument
<1>7. DOMAIN history = {"wentBack", "unsaved", "untold", "shared", "told", "current"}
  BY DEF DocInv, ListsInv
<1>8. /\ DOMAIN history' = DOMAIN history /\ history'.shared = history.shared
      /\ history'.wentBack = history.wentBack /\ history'.unsaved = history.unsaved
      /\ history'.current = history.current /\ history'.untold = history.untold
  BY <1>6, <1>7
<1>9. /\ DOMAIN run = {"pc", "format", "routerFiles", "changelog", "listed",
                       "next", "config"}
      /\ run # Idle
      /\ run.next \in Nat /\ run.listed \in Seq(Entries)
      /\ run.changelog # NoChange => run.format = "json"
      /\ Named /\ ListedInv
      /\ ~SharedFile(run.routerFiles) => OncePerFile(run.listed)
      /\ ~history.shared => ~SharedFile(run.routerFiles)
  BY <1>6, UnderWay DEF DocInv
<1>10. SnapshotsInv'
  BY <1>6, <1>8, SnapshotsFrame DEF DocInv
<1>11. /\ DOMAIN run' = DOMAIN run /\ run'.pc = "documents"
       /\ run'.next = k + 1 /\ run'.changelog = run.changelog
       /\ run'.routerFiles = run.routerFiles /\ run'.config = run.config
       /\ run'.format = run.format
  BY <1>1, <1>6, <1>9
<1>12. Named' /\ (SharedFile(run.routerFiles)' <=> SharedFile(run.routerFiles))
  BY <1>9, <1>11 DEF Named, SharedFile, ToSet
<1>13. CASE UNCHANGED <<documents, history>> /\ run' = [run EXCEPT !.next = @ + 1]
  <2>1. ListsInv'
    BY <1>6, <1>8, <1>13, ListsFrame DEF DocInv
  <2>2. run'.listed = run.listed
    BY <1>9, <1>13
  <2>3. ToldInv'
    <3>1. \A a : ToBeTold(a) => ToBeTold(a)'
      BY <1>11, <2>2 DEF ToBeTold
    <3>2. Latest(snapshots)' = Latest(snapshots)
      BY <1>6 DEF Latest
    <3> QED
      BY <1>13, <3>1, <3>2 DEF DocInv, ToldInv
  <2>4. ListedInv'
    <3>1. ASSUME NEW i \in DOMAIN run.listed, NEW j \in DOMAIN run.routerFiles,
                 j \in Nat, j < run.next
          PROVE  j < run'.next
      BY <1>1, <1>9, <1>11, <3>1
    <3> QED
      BY <1>9, <1>11, <1>12, <1>13, <2>2, <3>1 DEF ListedInv
  <2>5. OncePerFile(run.listed)' <=> OncePerFile(run.listed)
    BY <2>2 DEF OncePerFile
  <2>6. run'.listed \in Seq(Entries')
    BY <1>9, <1>13, <2>2 DEF Entries
  <2>7. RunInv'
    BY <1>1, <1>9, <1>11, <1>12, <1>13, <2>4, <2>5, <2>6 DEF RunInv
  <2> QED
    BY <1>10, <2>1, <2>3, <2>7 DEF DocInv
<1>14. /\ doc.groups = GroupsShown(rf.actions, run.config)
       /\ run.format = "json" => doc.changelog = run.changelog
  BY <1>3 DEF GenerateJSON, GenerateMarkdown
<1>15. CASE /\ documents' = [f \in DOMAIN documents \cup {file} |->
                               IF f = file THEN doc ELSE documents[f]]
            /\ run' = [run EXCEPT !.next = @ + 1, !.listed = Append(@, t)]
            /\ history' = [history EXCEPT !.told = @ \cup told]
  <2>1. /\ DOMAIN documents' = DOMAIN documents \cup {file}
        /\ documents'[file] = doc
        /\ \A f \in DOMAIN documents : f # file => documents'[f] = documents[f]
    BY <1>15
  <2>2. PICK E : E = Entries'
    OBVIOUS
  <2>3. Entries \subseteq E /\ t \in E /\ t.file = file
    BY <1>5, <2>1, <2>2 DEF Entries
  <2>4. ListsInv'
    <3>1. config.appDocuments \in Seq(Entries)
      BY DEF DocInv, ListsInv
    <3>2. config.appDocuments \in Seq(E)
      BY <2>3, <3>1, SeqOfMore
    <3>3. config'.appDocuments \in Seq(Entries')
      BY <1>6, <2>2, <3>2
    <3> QED
      BY <1>6, <1>8, <2>1, <3>3 DEF DocInv, ListsInv, OncePerFile
  <2>5. PICK s, r : s = run.listed /\ r = run'.listed
    OBVIOUS
  <2>6. r = Append(s, t) /\ s \in Seq(Entries)
    BY <1>9, <1>15, <2>5
  <2>7. s \in Seq(E)
    BY <2>3, <2>6, SeqOfMore
  <2>8. Appends(E, r, s, t)
    BY <2>6, <2>7, Appended
  <2>9. /\ r \in Seq(E) /\ Len(s) \in Nat /\ r # <<>>
        /\ DOMAIN r = 1..(Len(s) + 1) /\ DOMAIN s = 1..Len(s)
        /\ \A i \in 1..Len(s) : r[i] = s[i]
        /\ r[Len(s) + 1] = t
    <3>1. E \cup {t} = E
      BY <2>3
    <3> QED
      BY <2>8, <3>1 DEF Appends
  <2>10. \A i \in DOMAIN r : \/ i \in DOMAIN s /\ r[i] = s[i]
                             \/ i = Len(s) + 1 /\ r[i] = t
    BY <2>9
  <2>11. ASSUME NEW i \in DOMAIN s
         PROVE  \E j \in DOMAIN run.routerFiles :
                  /\ j \in Nat /\ j < k
                  /\ s[i].file = DocFile(run.routerFiles[j].fileName, run.format)
                  /\ ~SharedFile(run.routerFiles) =>
                       /\ documents[s[i].file].groups
                            = GroupsShown(run.routerFiles[j].actions, run.config)
                       /\ s[i].file # file
    <3>1. PICK j \in DOMAIN run.routerFiles :
            /\ j \in Nat /\ j < k
            /\ s[i].file = DocFile(run.routerFiles[j].fileName, run.format)
            /\ ~SharedFile(run.routerFiles) =>
                 documents[s[i].file].groups
                   = GroupsShown(run.routerFiles[j].actions, run.config)
      BY <1>1, <1>9, <2>5, <2>11 DEF ListedInv
    <3>2. ASSUME ~SharedFile(run.routerFiles) PROVE s[i].file # file
      <4>1. SUFFICES ASSUME s[i].file = file PROVE FALSE
        OBVIOUS
      <4>2. run.routerFiles[j].fileName = rf.fileName
        BY <1>2, <3>1, <4>1, DocFileIs
      <4>3. j # k
        BY <1>1, <1>9, <3>1
      <4> QED
        BY <1>1, <1>6, <3>1, <3>2, <4>2, <4>3 DEF SharedFile
    <3> QED
      BY <3>1, <3>2
  <2>12. ListedInv'
    <3>1. ASSUME NEW i \in DOMAIN r
          PROVE  \E j \in DOMAIN run.routerFiles :
                   /\ j \in Nat /\ j < k + 1
                   /\ r[i].file = DocFile(run.routerFiles[j].fileName, run.format)
                   /\ ~SharedFile(run.routerFiles) =>
                        documents'[r[i].file].groups
                          = GroupsShown(run.routerFiles[j].actions, run.config)
      <4>1. CASE i \in DOMAIN s /\ r[i] = s[i]
        <5>1. PICK j \in DOMAIN run.routerFiles :
                /\ j \in Nat /\ j < k
                /\ s[i].file = DocFile(run.routerFiles[j].fileName, run.format)
                /\ ~SharedFile(run.routerFiles) =>
                     /\ documents[s[i].file].groups
                          = GroupsShown(run.routerFiles[j].actions, run.config)
                     /\ s[i].file # file
          BY <2>11, <4>1
        <5>2. s[i].file \in DOMAIN documents
          <6>1. s[i] \in Entries
            BY <2>6, <4>1
          <6> QED
            BY <6>1 DEF Entries
        <5>3. j < k + 1
          BY <1>1, <1>9, <5>1
        <5>4. ~SharedFile(run.routerFiles) => documents'[s[i].file] = documents[s[i].file]
          BY <2>1, <5>1, <5>2
        <5> QED
          BY <4>1, <5>1, <5>3, <5>4
      <4>2. CASE i = Len(s) + 1 /\ r[i] = t
        <5>1. k \in Nat /\ k < k + 1
          BY <1>1, <1>9
        <5>2. documents'[r[i].file].groups = GroupsShown(rf.actions, run.config)
          BY <1>14, <2>1, <2>3, <4>2
        <5> QED
          BY <1>1, <1>2, <1>6, <2>3, <4>2, <5>1, <5>2
      <4> QED
        BY <2>10, <4>1, <4>2
    <3> QED
      BY <1>11, <1>12, <2>5, <3>1 DEF ListedInv
  <2>13. ~SharedFile(run.routerFiles) => OncePerFile(r)
    <3>1. ASSUME ~SharedFile(run.routerFiles), NEW i \in DOMAIN r, NEW j \in DOMAIN r,
                 r[i].file = r[j].file
          PROVE  i = j
      <4>1. OncePerFile(s) /\ \A m \in DOMAIN s : s[m].file # file
        BY <1>9, <2>5, <2>11, <3>1
      <4> QED
        BY <2>3, <2>10, <3>1, <4>1 DEF OncePerFile
    <3> QED
      BY <3>1 DEF OncePerFile
  <2>14. OncePerFile(run.listed)' <=> OncePerFile(r)
    BY <2>5 DEF OncePerFile
  <2>15. RunInv'
    <3>1. run'.listed \in Seq(Entries') /\ run'.next \in Nat
      BY <1>1, <1>9, <1>11, <2>2, <2>5, <2>9
    <3> QED
      BY <1>8, <1>9, <1>11, <1>12, <2>12, <2>13, <2>14, <3>1 DEF RunInv
  <2>16. ToldInv'
    <3>1. history'.told = history.told \cup told
      BY <1>7, <1>15
    <3>2. \A a : ToBeTold(a) => a \in told
      BY <1>4, <1>9, <1>14 DEF ToBeTold
    <3>3. Latest(snapshots)' = Latest(snapshots)
      BY <1>6 DEF Latest
    <3> QED
      BY <1>8, <3>1, <3>2, <3>3 DEF DocInv, ToldInv
  <2> QED
    BY <1>10, <2>4, <2>15, <2>16 DEF DocInv
<1> QED
  BY <1>6, <1>13, <1>15
\* What is to be told when a run ends has no document.
LEMMA UntoldIs == \A a : ToBeTold(a) => Untold
  BY DEF ToBeTold, Untold

LEMMA UpdateInv == ASSUME DocInv, UpdateDocuments PROVE DocInv'
<1>1. /\ run.pc = "documents" /\ run' = [run EXCEPT !.pc = "template"]
      /\ history' = [history EXCEPT !.untold = @ \/ Untold]
      /\ \/ config' = UpdateDocumentsInConfig(config, run.listed, run.format)
         \/ config' = config
      /\ UNCHANGED <<commit, snapshots, documents, viewer>>
  BY Zenon DEF UpdateDocuments
<1>2. DOMAIN history = {"wentBack", "unsaved", "untold", "shared", "told", "current"}
  BY DEF DocInv, ListsInv
<1>3. /\ DOMAIN history' = DOMAIN history /\ history'.shared = history.shared
      /\ history'.wentBack = history.wentBack /\ history'.unsaved = history.unsaved
      /\ history'.current = history.current /\ history'.told = history.told
  BY <1>1, <1>2
<1>4. ~history'.untold => ~history.untold /\ ~Untold
  BY <1>1, <1>2
<1>5. /\ DOMAIN run = {"pc", "format", "routerFiles", "changelog", "listed",
                       "next", "config"}
      /\ run # Idle
      /\ run.next \in Nat /\ run.listed \in Seq(Entries)
      /\ run.changelog # NoChange => run.format = "json"
      /\ Named /\ ListedInv
      /\ ~SharedFile(run.routerFiles) => OncePerFile(run.listed)
      /\ ~history.shared => ~SharedFile(run.routerFiles)
  BY <1>1, UnderWay DEF DocInv
<1>6. ListsInv'
  <2>1. CASE config' = config
    BY <1>1, <1>3, <2>1, ListsFrame DEF DocInv
  <2>2. CASE config' = UpdateDocumentsInConfig(config, run.listed, run.format)
    <3>1. /\ DOMAIN config = {"groupNames", "appDocuments", "state"}
          /\ config.appDocuments \in Seq(Entries)
          /\ ~history.shared => OncePerFile(config.appDocuments)
      BY DEF DocInv, ListsInv
    <3>2. PICK s : s = MergedDocuments(config.appDocuments, run.listed, run.format)
      OBVIOUS
    <3>3. /\ s \in Seq(Entries)
          /\ OncePerFile(config.appDocuments) /\ OncePerFile(run.listed) => OncePerFile(s)
      BY <1>5, <3>1, <3>2, MergedIs
    <3>4. config' = [config EXCEPT !.appDocuments = s]
      BY <2>2, <3>2 DEF UpdateDocumentsInConfig
    <3>5. DOMAIN config' = DOMAIN config /\ config'.appDocuments = s
      BY <3>1, <3>4
    <3>6. ~history.shared => OncePerFile(s)
      BY <1>5, <3>1, <3>3
    <3> QED
      BY <1>1, <1>3, <3>1, <3>3, <3>5, <3>6 DEF DocInv, ListsInv, Entries, OncePerFile
  <2> QED
    BY <1>1, <2>1, <2>2
<1>7. RunInv'
  <2>1. /\ DOMAIN run' = DOMAIN run /\ run'.pc = "template"
        /\ run'.listed = run.listed
        /\ run'.next = run.next /\ run'.changelog = run.changelog
        /\ run'.routerFiles = run.routerFiles /\ run'.config = run.config
        /\ run'.format = run.format
    BY <1>1, <1>5
  <2>2. /\ Named' /\ (SharedFile(run.routerFiles)' <=> SharedFile(run.routerFiles))
        /\ OncePerFile(run.listed)' <=> OncePerFile(run.listed)
    BY <1>5, <2>1 DEF Named, SharedFile, ToSet, OncePerFile
  <2>3. ListedInv'
    BY <1>1, <1>5, <2>1, <2>2 DEF ListedInv
  <2>4. run'.listed \in Seq(Entries')
    BY <1>1, <1>5, <2>1 DEF Entries
  <2> QED
    BY <1>3, <1>5, <2>1, <2>2, <2>3, <2>4 DEF RunInv
<1>8. SnapshotsInv'
  BY <1>1, <1>3, SnapshotsFrame DEF DocInv
<1>9. ToldInv'
  BY <1>1, <1>3, <1>4, UntoldIs, ToldFrame DEF DocInv
<1> QED
  BY <1>6, <1>7, <1>8, <1>9 DEF DocInv

LEMMA ViewerInv == ASSUME DocInv, WriteViewer PROVE DocInv'
<1>1. /\ run.pc = "template" /\ run' = Idle
      /\ config' = IF config.state = "missing" THEN TemplateConfig ELSE config
      /\ viewer' = {d.file : d \in ToSet(config'.appDocuments)}
      /\ UNCHANGED <<commit, snapshots, documents, history>>
  BY DEF WriteViewer
<1>2. /\ DOMAIN config' = {"groupNames", "appDocuments", "state"}
      /\ config'.appDocuments = <<>> \/ config'.appDocuments = config.appDocuments
  <2>1. /\ DOMAIN TemplateConfig = {"groupNames", "appDocuments", "state"}
        /\ TemplateConfig.appDocuments = <<>>
    BY DEF TemplateConfig, Good
  <2> QED
    BY <1>1, <2>1 DEF DocInv, ListsInv
<1>3. PICK s : s = config'.appDocuments
  OBVIOUS
<1>4. s \in Seq(Entries) /\ (~history.shared => OncePerFile(s))
  <2>1. <<>> \in Seq(Entries) /\ OncePerFile(<<>>)
    BY DEF OncePerFile
  <2> QED
    BY <1>2, <1>3, <2>1 DEF DocInv, ListsInv
<1>5. viewer' \subseteq DOMAIN documents
  <2>1. ToSet(s) \subseteq Entries
    BY <1>4, SeqOfItsOwn
  <2>2. viewer' = {d.file : d \in ToSet(s)}
    BY <1>1, <1>3
  <2> QED
    BY <2>1, <2>2 DEF Entries
<1>6. ListsInv'
  BY <1>1, <1>2, <1>3, <1>4, <1>5 DEF DocInv, ListsInv, Entries, OncePerFile
<1>7. SnapshotsInv' /\ RunInv'
  BY <1>1, SnapshotsFrame, IdleFrame DEF DocInv
<1>8. ToldInv'
  <2>1. \A a : ~ToBeTold(a)
    BY <1>1 DEF ToBeTold
  <2> QED
    BY <1>1, <2>1, ToldFrame DEF DocInv
<1> QED
  BY <1>6, <1>7, <1>8 DEF DocInv

LEMMA CutOffInv == ASSUME DocInv, CutOff PROVE DocInv'
<1>1. /\ run' = Idle /\ history' = [history EXCEPT !.untold = @ \/ Untold]
      /\ UNCHANGED <<commit, config, snapshots, documents, viewer>>
  BY DEF CutOff, outputs
<1>2. DOMAIN history = {"wentBack", "unsaved", "untold", "shared", "told", "current"}
  BY DEF DocInv, ListsInv
<1>3. /\ DOMAIN history' = DOMAIN history /\ history'.shared = history.shared
      /\ history'.wentBack = history.wentBack /\ history'.unsaved = history.unsaved
      /\ history'.current = history.current /\ history'.told = history.told
  BY <1>1, <1>2
<1>4. ~history'.untold => ~history.untold /\ ~Untold
  BY <1>1, <1>2
<1>5. ListsInv' /\ SnapshotsInv' /\ RunInv'
  BY <1>1, <1>3, ListsFrame, SnapshotsFrame, IdleFrame DEF DocInv
<1>6. ToldInv'
  BY <1>1, <1>3, <1>4, UntoldIs, ToldFrame DEF DocInv
<1> QED
  BY <1>5, <1>6 DEF DocInv

LEMMA DocInvStep == DocInv /\ [RunsNext]_<<dirs, runVars>> => DocInv'
<1> SUFFICES ASSUME DocInv, [RunsNext]_<<dirs, runVars>> PROVE DocInv'
  OBVIOUS
<1>1. CASE EditSource
  BY <1>1, EditSourceInv
<1>2. CASE Commit
  BY <1>2, CommitInv
<1>3. CASE EditConfig
  BY <1>3, EditConfigInv
<1>4. CASE \E format \in {"json", "md"} : StartRun(format)
  BY <1>4, StartRunInv
<1>5. CASE Generate
  <2>1. CASE LoadCategoryConfig
    BY <2>1, LoadInv
  <2>2. CASE GenerateGlobalChangelog
    BY <2>2, ChangelogInv
  <2>3. CASE WriteDocument
    BY <2>3, WriteInv
  <2>4. CASE UpdateDocuments
    BY <2>4, UpdateInv
  <2>5. CASE WriteViewer
    BY <2>5, ViewerInv
  <2> QED
    BY <1>5, <2>1, <2>2, <2>3, <2>4, <2>5 DEF Generate
<1>6. CASE CutOff
  BY <1>6, CutOffInv
<1>7. CASE UNCHANGED <<dirs, runVars>>
  <2>1. UNCHANGED <<commit, config, snapshots, documents, viewer, run, edits, history>>
    BY <1>7 DEF runVars
  <2>2. ListsInv' /\ SnapshotsInv'
    BY <2>1, ListsFrame, SnapshotsFrame DEF DocInv
  <2>3. RunInv'
    BY <2>1 DEF DocInv, RunInv, Entries, Named, ListedInv, OncePerFile, SharedFile, ToSet
  <2>4. ToldInv'
    BY <2>1 DEF DocInv, ToldInv, ToBeTold, Latest
  <2> QED
    BY <2>2, <2>3, <2>4 DEF DocInv
<1> QED
  BY <1>1, <1>2, <1>3, <1>4, <1>5, <1>6, <1>7 DEF RunsNext

-----------------------------------------------------------------------------
(* The properties.                                                          *)

\* Over any number of runs, edits, commits and failures: there is a snapshot
\* for each version, the latest of them is what the last run found, and nothing
\* in it was left unannounced (internal/docgen/generator.go:517).
THEOREM ChangesCorrect == RunsSpec => []ChangesAreTold
<1>1. RunsInit => DocInv
  BY InitInv
<1>2. DocInv /\ [RunsNext]_<<dirs, runVars>> => DocInv'
  BY DocInvStep
<1>3. DocInv => ChangesAreTold
  <2> SUFFICES ASSUME DocInv PROVE ChangesAreTold
    OBVIOUS
  <2>1. SnapshotsAreLatest
    BY DEF DocInv, SnapshotsInv, Distinct, Latest, SnapshotsAreLatest
  <2>2. AddedIsTold
    <3>1. SUFFICES ASSUME run = Idle, ~history.untold, snapshots # <<>>
                   PROVE  Last(snapshots).actions \subseteq history.told
      BY DEF AddedIsTold
    <3>2. \A a \in Latest(snapshots) : a \in history.told
      BY <3>1, IdleIs DEF DocInv, ToldInv
    <3> QED
      BY <3>1, <3>2 DEF Latest
  <2> QED
    BY <2>1, <2>2 DEF ChangesAreTold
<1> QED
  BY <1>1, <1>2, <1>3, PTL DEF RunsSpec

\* A document has every action of its router file, in the group of its prefix.
LEMMA GroupsShowAll ==
    ASSUME NEW actions, NEW c, NEW doc, doc.groups = GroupsShown(actions, c)
    PROVE  /\ ActionsShown(doc) = {a.name : a \in ToSet(actions)}
           /\ \A a \in ToSet(actions) :
                GroupOf(a) \in DOMAIN c.groupNames => \E g \in doc.groups :
                  /\ g.name = c.groupNames[GroupOf(a)]
                  /\ a.name \in {b.name : b \in g.actions}
<1> DEFINE A == ToSet(actions)
           Shown(g) == [name |-> getGroupDisplayName(c, g),
                        actions |-> {buildJSONAction(a) : a \in {b \in A : GroupOf(b) = g}}]
           keys == {GroupOf(a) : a \in A}
<1>1. doc.groups = {Shown(g) : g \in keys}
  <2>1. PICK groups : groups = groupByActionPrefix(actions)
    OBVIOUS
  <2>2. /\ DOMAIN groups = keys
        /\ \A g \in keys : groups[g] = {b \in A : GroupOf(b) = g}
    BY <2>1 DEF groupByActionPrefix
  <2>3. doc.groups = {[name |-> getGroupDisplayName(c, g),
                       actions |-> {buildJSONAction(a) : a \in groups[g]}] :
                      g \in DOMAIN groups}
    BY <2>1 DEF GroupsShown
  <2> HIDE DEF A, keys
  <2> QED
    BY <2>2, <2>3
<1>2. \A a : buildJSONAction(a).name = a.name
  BY DEF buildJSONAction
<1>3. \A g : /\ Shown(g).name = getGroupDisplayName(c, g)
             /\ Shown(g).actions = {buildJSONAction(a) : a \in {b \in A : GroupOf(b) = g}}
  OBVIOUS
<1>4. \A g : {b.name : b \in Shown(g).actions} = {a.name : a \in {b \in A : GroupOf(b) = g}}
  <2> HIDE DEF Shown, A
  <2> QED
    BY <1>2, <1>3
<1>5. ActionsShown(doc) = {a.name : a \in A}
  <2> HIDE DEF Shown, A
  <2>1. ActionsShown(doc) = UNION {{b.name : b \in h.actions} : h \in {Shown(g) : g \in keys}}
    BY <1>1 DEF ActionsShown
  <2>2. \A x : x \in ActionsShown(doc)
                <=> \E g \in keys : x \in {b.name : b \in Shown(g).actions}
    BY <2>1
  <2>3. \A x : x \in ActionsShown(doc)
                <=> \E g \in keys : x \in {a.name : a \in {b \in A : GroupOf(b) = g}}
    BY <1>4, <2>2, Zenon
  <2>4. \A x : x \in ActionsShown(doc) <=> x \in {a.name : a \in A}
    BY <2>3
  <2> QED
    BY <2>4
<1>6. ASSUME NEW a \in A, GroupOf(a) \in DOMAIN c.groupNames
      PROVE  \E g \in doc.groups : /\ g.name = c.groupNames[GroupOf(a)]
                                   /\ a.name \in {b.name : b \in g.actions}
  <2> HIDE DEF Shown, A
  <2>1. Shown(GroupOf(a)) \in doc.groups
    BY <1>1
  <2>2. Shown(GroupOf(a)).name = c.groupNames[GroupOf(a)]
    BY <1>3, <1>6 DEF getGroupDisplayName
  <2>3. a.name \in {b.name : b \in Shown(GroupOf(a)).actions}
    BY <1>4
  <2> QED
    BY <2>1, <2>2, <2>3
<1> QED
  BY <1>5, <1>6

LEMMA PrefixIs ==
    ASSUME NEW a, GroupOf(a) # NoGroup
    PROVE  GroupOf(a) = Parts[a.name][1]
  BY DEF GroupOf

\* The documents of a run are complete, those that the viewer lists are there,
\* and none is listed twice, also after runs that were cut off
\* (internal/cli/cli_docgen.go:362, internal/docgen/parser.go:576).
THEOREM DocumentsCorrect == RunsSpec => []DocumentsStand
<1>1. RunsInit => DocInv
  BY InitInv
<1>2. DocInv /\ [RunsNext]_<<dirs, runVars>> => DocInv'
  BY DocInvStep
<1>3. DocInv => DocumentsStand
  <2> SUFFICES ASSUME DocInv PROVE DocumentsStand
    OBVIOUS
  <2>1. ViewerShowsDocuments
    BY DEF DocInv, ListsInv, OncePerFile, ViewerShowsDocuments
  <2>2. DocumentsComplete
    <3>1. SUFFICES ASSUME run # Idle, ~SharedFile(run.routerFiles),
                          NEW i \in DOMAIN run.listed,
                          NEW rf \in ToSet(run.routerFiles),
                          run.listed[i].file = DocFile(rf.fileName, run.format)
                   PROVE  /\ ActionsShown(documents[run.listed[i].file])
                               = {a.name : a \in ToSet(rf.actions)}
                          /\ \A a \in ToSet(rf.actions) :
                               GroupOf(a) # NoGroup =>
                                 \E g \in documents[run.listed[i].file].groups :
                                   /\ g.name = run.config.groupNames[GroupOf(a)]
                                   /\ a.name \in {b.name : b \in g.actions}
      BY DEF DocumentsComplete
    <3>2. PICK doc : doc = documents[run.listed[i].file]
      OBVIOUS
    <3>3. ListedInv /\ run.listed # <<>> /\ Named
      BY <3>1 DEF DocInv, RunInv
    <3>4. PICK k \in DOMAIN run.routerFiles :
            /\ run.listed[i].file = DocFile(run.routerFiles[k].fileName, run.format)
            /\ doc.groups = GroupsShown(run.routerFiles[k].actions, run.config)
      BY <3>1, <3>2, <3>3 DEF ListedInv
    <3>5. PICK j \in DOMAIN run.routerFiles : rf = run.routerFiles[j]
      BY DEF ToSet
    <3>6. rf = run.routerFiles[k]
      <4>1. run.routerFiles[k].fileName = rf.fileName
        BY <3>1, <3>4, DocFileIs
      <4> QED
        BY <3>1, <3>5, <4>1 DEF SharedFile
    <3>7. doc.groups = GroupsShown(rf.actions, run.config)
      BY <3>4, <3>6
    <3>8. /\ ActionsShown(doc) = {a.name : a \in ToSet(rf.actions)}
          /\ \A a \in ToSet(rf.actions) :
               GroupOf(a) \in DOMAIN run.config.groupNames => \E g \in doc.groups :
                 /\ g.name = run.config.groupNames[GroupOf(a)]
                 /\ a.name \in {b.name : b \in g.actions}
      BY <3>7, GroupsShowAll
    <3>9. \A a \in ToSet(rf.actions) :
            GroupOf(a) # NoGroup => GroupOf(a) \in DOMAIN run.config.groupNames
      BY <3>3, <3>6, PrefixIs DEF Named
    <3> QED
      BY <3>2, <3>8, <3>9
  <2> QED
    BY <2>1, <2>2 DEF DocumentsStand
<1> QED
  BY <1>1, <1>2, <1>3, PTL DEF RunsSpec

\* No step of a run takes a label of the user's away.
LEMMA LabelsStep ==
    ASSUME DocInv, Generate, config.state = "good"
    PROVE  /\ config'.state = "good"
           /\ \A p \in DOMAIN config.groupNames :
                /\ p \in DOMAIN config'.groupNames
                /\ config'.groupNames[p] = config.groupNames[p]
           /\ \A d \in ToSet(config.appDocuments) :
                HasExt(d, run.format) => d \in ToSet(config'.appDocuments)
<1>1. CASE config' = config
  BY <1>1
<1>2. CASE LoadCategoryConfig
  <2>1. PICK rfs : rfs = run.routerFiles
    OBVIOUS
  <2>2. PICK loaded : loaded = IF config.state = "missing"
                               THEN Good(generateDefaultConfig(AllActions(rfs)))
                               ELSE WithMissingGroups(config, AllActions(rfs))
    OBVIOUS
  <2>3. config' = config \/ config' = loaded
    BY <1>2, <2>1, <2>2, Zenon DEF LoadCategoryConfig
  <2>4. ListsInv
    BY DEF DocInv
  <2>5. /\ loaded.state = "good" /\ loaded.appDocuments = config.appDocuments
        /\ \A p \in DOMAIN config.groupNames :
             /\ p \in DOMAIN loaded.groupNames
             /\ loaded.groupNames[p] = config.groupNames[p]
    BY <2>2, <2>4, Loaded
  <2> QED
    BY <1>1, <2>3, <2>5
<1>3. CASE UpdateDocuments
  <2>1. /\ run.pc = "documents"
        /\ \/ config' = UpdateDocumentsInConfig(config, run.listed, run.format)
           \/ config' = config
    BY <1>3, Zenon DEF UpdateDocuments
  <2>2. CASE config' = UpdateDocumentsInConfig(config, run.listed, run.format)
    <3>1. /\ DOMAIN config = {"groupNames", "appDocuments", "state"}
          /\ config.appDocuments \in Seq(Entries) /\ run.listed \in Seq(Entries)
      BY <2>1, UnderWay DEF DocInv, ListsInv
    <3>2. PICK s : s = MergedDocuments(config.appDocuments, run.listed, run.format)
      OBVIOUS
    <3>3. \A d \in ToSet(config.appDocuments) : HasExt(d, run.format) => d \in ToSet(s)
      BY <3>1, <3>2, MergedIs
    <3>4. config' = [config EXCEPT !.appDocuments = s]
      BY <2>2, <3>2 DEF UpdateDocumentsInConfig
    <3>5. /\ config'.appDocuments = s /\ config'.state = config.state
          /\ config'.groupNames = config.groupNames
      BY <3>1, <3>4
    <3> QED
      BY <3>3, <3>5
  <2> QED
    BY <1>1, <2>1, <2>2
<1>4. CASE WriteViewer
  BY <1>1, <1>4 DEF WriteViewer
<1>5. CASE GenerateGlobalChangelog \/ WriteDocument
  BY <1>1, <1>5 DEF GenerateGlobalChangelog, WriteDocument
<1> QED
  BY <1>2, <1>3, <1>4, <1>5 DEF Generate

\* A run never takes the user's labels away (internal/docgen/parser.go:483
\* and 576).
THEOREM LabelsCorrect == RunsSpec => LabelsKept
<1>1. RunsInit => DocInv
  BY InitInv
<1>2. DocInv /\ [RunsNext]_<<dirs, runVars>> => DocInv'
  BY DocInvStep
<1>3. DocInv /\ [RunsNext]_<<dirs, runVars>> =>
        [Generate /\ config.state = "good" =>
           /\ config'.state = "good"
           /\ \A p \in DOMAIN config.groupNames :
                /\ p \in DOMAIN config'.groupNames
                /\ config'.groupNames[p] = config.groupNames[p]
           /\ \A d \in ToSet(config.appDocuments) :
                HasExt(d, run.format) => d \in ToSet(config'.appDocuments)]_runVars
  BY LabelsStep
<1> QED
  BY <1>1, <1>2, <1>3, PTL DEF RunsSpec, LabelsKept

-----------------------------------------------------------------------------
(* What a router file says of its routes, and what the program does.        *)

\* What holds at first and with each number for the next one holds for all.
LEMMA Climbs ==
    ASSUME NEW N \in Nat, NEW T, 0 \in T,
           \A n \in 0..N : n < N /\ n \in T => n + 1 \in T
    PROVE  \A n \in 0..N : n \in T
<1> DEFINE B == {n \in 0..N : n \notin T}
<1>1. SUFFICES ASSUME B # {} PROVE FALSE
  OBVIOUS
<1>2. PICK n \in B : \A m \in B : n <= m
  <2>1. B \in SUBSET Nat
    OBVIOUS
  <2> QED
    BY <1>1, <2>1, Smallest
<1>3. n \in 0..N /\ n \notin T /\ n # 0
  BY <1>2
<1>4. n - 1 \in 0..N /\ n - 1 < N /\ n - 1 + 1 = n /\ ~(n <= n - 1)
  BY <1>3
<1>5. n - 1 \in T
  BY <1>2, <1>4
<1> QED
  BY <1>3, <1>4, <1>5

MapsTo(f, body, n) ==
    f = [i \in 0..n |-> IF i = 0 THEN NoChains ELSE Assigned(f[i - 1], body[i])]
RunsTo(f, body, n) ==
    f = [i \in 0..n |-> IF i = 0 THEN AtFirst ELSE Ran(f[i - 1], body[i])]

LEMMA MapExists ==
    ASSUME NEW body, NEW N \in Nat
    PROVE  \E f : MapsTo(f, body, N)
<1> DEFINE T == {n \in 0..N : \E f : MapsTo(f, body, n)}
<1>1. 0 \in T
  <2> DEFINE e == [i \in 0..0 |-> NoChains]
  <2>1. MapsTo(e, body, 0)
    BY DEF MapsTo
  <2> QED
    BY <2>1
<1>2. ASSUME NEW n \in 0..N, n < N, n \in T PROVE n + 1 \in T
  <2>1. PICK f : MapsTo(f, body, n)
    BY <1>2
  <2> DEFINE F(i) == IF i = 0 THEN NoChains ELSE Assigned(f[i - 1], body[i])
             h == [i \in 0..(n + 1) |-> IF i <= n THEN f[i] ELSE F(n + 1)]
             H(i) == IF i = 0 THEN NoChains ELSE Assigned(h[i - 1], body[i])
  <2>2. DOMAIN f = 0..n /\ \A i \in 0..n : f[i] = F(i)
    <3>1. f = [i \in 0..n |-> F(i)]
      BY <2>1 DEF MapsTo
    <3> HIDE DEF F
    <3> QED
      BY <3>1
  <2>3. \A i \in 0..(n + 1) : h[i] = H(i)
    <3>1. ASSUME NEW i \in 0..(n + 1) PROVE h[i] = H(i)
      <4>1. i = 0 \/ (i - 1 \in 0..n /\ h[i - 1] = f[i - 1])
        BY <1>2, <3>1
      <4>2. H(i) = F(i)
        <5> HIDE DEF h
        <5> QED
          BY <4>1
      <4>3. h[i] = F(i)
        <5> HIDE DEF F
        <5>1. CASE i \in 0..n
          BY <1>2, <2>2, <5>1
        <5>2. CASE i = n + 1
          BY <1>2, <5>2
        <5> QED
          BY <1>2, <3>1, <5>1, <5>2
      <4> QED
        BY <4>2, <4>3
    <3> QED
      BY <3>1
  <2>4. DOMAIN h = 0..(n + 1) /\ h = [i \in 0..(n + 1) |-> h[i]]
    OBVIOUS
  <2> HIDE DEF h
  <2>5. MapsTo(h, body, n + 1)
    BY <2>3, <2>4 DEF MapsTo
  <2>6. n + 1 \in 0..N
    BY <1>2
  <2> QED
    BY <2>5, <2>6
<1> HIDE DEF T
<1>3. N \in T
  BY <1>1, <1>2, Climbs
<1> QED
  BY <1>3 DEF T

LEMMA RunExists ==
    ASSUME NEW body, NEW N \in Nat
    PROVE  \E f : RunsTo(f, body, N)
<1> DEFINE T == {n \in 0..N : \E f : RunsTo(f, body, n)}
<1>1. 0 \in T
  <2> DEFINE e == [i \in 0..0 |-> AtFirst]
  <2>1. RunsTo(e, body, 0)
    BY DEF RunsTo
  <2> QED
    BY <2>1
<1>2. ASSUME NEW n \in 0..N, n < N, n \in T PROVE n + 1 \in T
  <2>1. PICK f : RunsTo(f, body, n)
    BY <1>2
  <2> DEFINE F(i) == IF i = 0 THEN AtFirst ELSE Ran(f[i - 1], body[i])
             h == [i \in 0..(n + 1) |-> IF i <= n THEN f[i] ELSE F(n + 1)]
             H(i) == IF i = 0 THEN AtFirst ELSE Ran(h[i - 1], body[i])
  <2>2. DOMAIN f = 0..n /\ \A i \in 0..n : f[i] = F(i)
    <3>1. f = [i \in 0..n |-> F(i)]
      BY <2>1 DEF RunsTo
    <3> HIDE DEF F
    <3> QED
      BY <3>1
  <2>3. \A i \in 0..(n + 1) : h[i] = H(i)
    <3>1. ASSUME NEW i \in 0..(n + 1) PROVE h[i] = H(i)
      <4>1. i = 0 \/ (i - 1 \in 0..n /\ h[i - 1] = f[i - 1])
        BY <1>2, <3>1
      <4>2. H(i) = F(i)
        <5> HIDE DEF h
        <5> QED
          BY <4>1
      <4>3. h[i] = F(i)
        <5> HIDE DEF F
        <5>1. CASE i \in 0..n
          BY <1>2, <2>2, <5>1
        <5>2. CASE i = n + 1
          BY <1>2, <5>2
        <5> QED
          BY <1>2, <3>1, <5>1, <5>2
      <4> QED
        BY <4>2, <4>3
    <3> QED
      BY <3>1
  <2>4. DOMAIN h = 0..(n + 1) /\ h = [i \in 0..(n + 1) |-> h[i]]
    OBVIOUS
  <2> HIDE DEF h
  <2>5. RunsTo(h, body, n + 1)
    BY <2>3, <2>4 DEF RunsTo
  <2>6. n + 1 \in 0..N
    BY <1>2
  <2> QED
    BY <2>5, <2>6
<1> HIDE DEF T
<1>3. N \in T
  BY <1>1, <1>2, Climbs
<1> QED
  BY <1>3 DEF T

\* The steps of the three functions over a body.
StepsOf(f, body) ==
    /\ f[0] = NoChains
    /\ \A i \in 1..Len(body) : f[i] = Assigned(f[i - 1], body[i])
RunOf(g, body) ==
    /\ g[0] = AtFirst
    /\ \A i \in 1..Len(body) : g[i] = Ran(g[i - 1], body[i])
FilterOf(r, s, S) ==
    /\ r[0] = <<>>
    /\ \A i \in 1..Len(s) :
         r[i] = IF s[i] \in S THEN Append(r[i - 1], s[i]) ELSE r[i - 1]

LEMMA MapIs ==
    ASSUME NEW body, Len(body) \in Nat
    PROVE  \E f : StepsOf(f, body) /\ buildMiddlewareMap(body) = f[Len(body)]
<1>1. PICK g : MapsTo(g, body, Len(body))
  BY MapExists
<1> DEFINE h == CHOOSE f : MapsTo(f, body, Len(body))
<1>2. MapsTo(h, body, Len(body))
  BY <1>1
<1>3. buildMiddlewareMap(body) = h[Len(body)]
  BY DEF buildMiddlewareMap, MapsTo
<1> HIDE DEF h
<1>4. StepsOf(h, body)
  <2> DEFINE F(i) == IF i = 0 THEN NoChains ELSE Assigned(h[i - 1], body[i])
  <2>1. h = [i \in 0..Len(body) |-> F(i)]
    BY <1>2 DEF MapsTo
  <2> HIDE DEF F
  <2>2. \A i \in 0..Len(body) : h[i] = F(i)
    BY <2>1
  <2> QED
    BY <2>2 DEF F, StepsOf
<1> QED
  BY <1>3, <1>4

LEMMA RunIs ==
    ASSUME NEW body, Len(body) \in Nat
    PROVE  \E g : RunOf(g, body) /\ ChainsRun(body) = g[Len(body)].chains
<1>1. PICK g : RunsTo(g, body, Len(body))
  BY RunExists
<1> DEFINE h == CHOOSE f : RunsTo(f, body, Len(body))
<1>2. RunsTo(h, body, Len(body))
  BY <1>1
<1>3. ChainsRun(body) = h[Len(body)].chains
  BY DEF ChainsRun, RunsTo
<1> HIDE DEF h
<1>4. RunOf(h, body)
  <2> DEFINE F(i) == IF i = 0 THEN AtFirst ELSE Ran(h[i - 1], body[i])
  <2>1. h = [i \in 0..Len(body) |-> F(i)]
    BY <1>2 DEF RunsTo
  <2> HIDE DEF F
  <2>2. \A i \in 0..Len(body) : h[i] = F(i)
    BY <2>1
  <2> QED
    BY <2>2 DEF F, RunOf
<1> QED
  BY <1>3, <1>4

LEMMA FilterIs ==
    ASSUME NEW s, NEW S, Len(s) \in Nat
    PROVE  \E r : FilterOf(r, s, S) /\ OnlyIn(s, S) = r[Len(s)]
<1>1. PICK g : Filters(g, s, S, Len(s))
  BY FilterExists
<1> DEFINE h == CHOOSE f : Filters(f, s, S, Len(s))
<1>2. Filters(h, s, S, Len(s))
  BY <1>1
<1>3. OnlyIn(s, S) = h[Len(s)]
  BY DEF OnlyIn, Filters
<1> HIDE DEF h
<1>4. FilterOf(h, s, S)
  <2> DEFINE F(i) == IF i = 0 THEN <<>>
                     ELSE IF s[i] \in S THEN Append(h[i - 1], s[i]) ELSE h[i - 1]
  <2>1. h = [i \in 0..Len(s) |-> F(i)]
    BY <1>2 DEF Filters
  <2> HIDE DEF F
  <2>2. \A i \in 0..Len(s) : h[i] = F(i)
    BY <2>1
  <2> QED
    BY <2>2 DEF F, FilterOf
<1> QED
  BY <1>3, <1>4

\* OnlyIn takes everything when everything is in the set.
LEMMA AllKept ==
    ASSUME NEW V, NEW s \in Seq(V), NEW S, \A i \in DOMAIN s : s[i] \in S
    PROVE  OnlyIn(s, S) = s
<1>1. Len(s) \in Nat /\ DOMAIN s = 1..Len(s) /\ \A i \in 1..Len(s) : s[i] \in V
  BY SeqOfItsOwn
<1>2. PICK r : FilterOf(r, s, S) /\ OnlyIn(s, S) = r[Len(s)]
  BY <1>1, FilterIs
<1> DEFINE P(n) == /\ r[n] \in Seq(V) /\ Len(r[n]) = n
                   /\ \A i \in 1..n : r[n][i] = s[i]
           T == {n \in 0..Len(s) : P(n)}
<1> HIDE DEF P
<1>3. 0 \in T
  <2>1. r[0] = <<>>
    BY <1>2 DEF FilterOf
  <2>2. P(0)
    BY <2>1 DEF P
  <2> QED
    BY <1>1, <2>2
<1>4. ASSUME NEW n \in 0..Len(s), n < Len(s), n \in T PROVE n + 1 \in T
  <2>1. n + 1 \in 1..Len(s) /\ n + 1 \in 0..Len(s) /\ n + 1 - 1 = n /\ n \in Nat
    BY <1>1, <1>4
  <2>2. PICK q, x : q = r[n] /\ x = s[n + 1]
    OBVIOUS
  <2>3. r[n + 1] = Append(q, x)
    <3>1. s[n + 1] \in S
      BY <1>1, <2>1
    <3>2. r[n + 1] = IF s[n + 1] \in S THEN Append(r[n + 1 - 1], s[n + 1])
                     ELSE r[n + 1 - 1]
      <4>1. \A i \in 1..Len(s) :
              r[i] = IF s[i] \in S THEN Append(r[i - 1], s[i]) ELSE r[i - 1]
        BY <1>2 DEF FilterOf
      <4> HIDE DEF T
      <4> QED
        BY <2>1, <4>1
    <3> QED
      BY <2>1, <2>2, <3>1, <3>2
  <2>4. q \in Seq(V) /\ Len(q) = n /\ (\A i \in 1..n : q[i] = s[i]) /\ x \in V
    <3>1. P(n)
      BY <1>4
    <3>2. r[n] \in Seq(V) /\ Len(r[n]) = n /\ \A i \in 1..n : r[n][i] = s[i]
      BY <3>1 DEF P
    <3> HIDE DEF T
    <3> QED
      BY <1>1, <2>1, <2>2, <3>2
  <2>5. PICK t : t = Append(q, x)
    OBVIOUS
  <2>6. /\ t \in Seq(V) /\ Len(t) = n + 1
        /\ (\A i \in 1..n : t[i] = q[i]) /\ t[n + 1] = x
    BY <2>4, <2>5, AppendProperties
  <2>7. P(n + 1)
    BY <2>1, <2>2, <2>3, <2>4, <2>5, <2>6 DEF P
  <2> QED
    BY <2>1, <2>7
<1> HIDE DEF T
<1>5. \A n \in 0..Len(s) : n \in T
  BY <1>1, <1>3, <1>4, Climbs
<1>6. PICK t : t = r[Len(s)]
  OBVIOUS
<1>7. t \in Seq(V) /\ Len(t) = Len(s) /\ \A i \in 1..Len(s) : t[i] = s[i]
  <2>1. Len(s) \in T
    BY <1>1, <1>5
  <2>2. P(Len(s))
    BY <2>1 DEF T
  <2> QED
    BY <1>6, <2>2 DEF P
<1>8. t = s
  BY <1>1, <1>7, SeqEqual
<1> QED
  BY <1>2, <1>6, <1>8

\* The chain that an assignment gives is that of the router it makes.
LEMMA RouterChain ==
    ASSUME NEW chains, NEW e, IsCall(e), e.recv = None, IsSeq(e.args),
           e.name \in {"NewRouter", "Use"},
           \A j \in DOMAIN e.args : IsCall(e.args[j])
    PROVE  RouterOf(chains, e)
             = IF e.name = "Use" THEN ChainIn(chains, e.on) \o extractMiddlewares(e.args)
               ELSE <<>>
<1>1. RouterOf(chains, e) = Applied(ChainIn(chains, e.on), e)
  BY DEF RouterOf, SimpleRouter, IsCall
<1>2. OnlyIn(e.args, {a \in ToSet(e.args) : IsCall(a)}) = e.args
  <2>1. e.args \in Seq(ToSet(e.args))
    BY DEF IsSeq
  <2>2. \A j \in DOMAIN e.args : e.args[j] \in {a \in ToSet(e.args) : IsCall(a)}
    BY DEF ToSet
  <2> QED
    BY <2>1, <2>2, AllKept
<1>3. extractMiddlewares(e.args) = MiddlewareOf(e.args)
  BY <1>2 DEF extractMiddlewares, MiddlewareOf
<1>4. CASE e.name = "Use"
  BY <1>1, <1>3, <1>4 DEF Applied
<1>5. CASE e.name = "NewRouter"
  BY <1>1, <1>5 DEF Applied
<1> QED
  BY <1>4, <1>5

\* After each statement the map has what the variables of the run have.
LEMMA SameChains ==
    ASSUME NEW body, Len(body) \in Nat, DOMAIN body = 1..Len(body), IsBody(body),
           PlainRouters(body), NEW f, StepsOf(f, body), NEW g, RunOf(g, body)
    PROVE  \A n \in 0..Len(body) : /\ DOMAIN g[n] = {"env", "chains"}
                                   /\ g[n].env = f[n]
<1> DEFINE T == {n \in 0..Len(body) : DOMAIN g[n] = {"env", "chains"} /\ g[n].env = f[n]}
<1>1. 0 \in T
  BY DEF StepsOf, RunOf, AtFirst
<1>2. ASSUME NEW n \in 0..Len(body), n < Len(body), n \in T PROVE n + 1 \in T
  <2>1. n + 1 \in DOMAIN body /\ n + 1 \in 0..Len(body) /\ n + 1 - 1 = n
    BY <1>2
  <2>2. PICK m, s : m = g[n] /\ s = body[n + 1]
    OBVIOUS
  <2>3. g[n + 1] = Ran(m, s) /\ f[n + 1] = Assigned(m.env, s)
    BY <1>2, <2>1, <2>2 DEF StepsOf, RunOf
  <2>4. DOMAIN m = {"env", "chains"}
    BY <1>2, <2>2
  <2>5. CASE s.k = "decl"
    <3>1. /\ s.tok = ":=" /\ IsCall(s.value) /\ s.value.name \in {"NewRouter", "Use"}
          /\ s.value.recv = None /\ \A j \in DOMAIN s.value.args : IsCall(s.value.args[j])
      BY <2>1, <2>2, <2>5 DEF PlainRouters, Declarations
    <3>2. IsSeq(s.value.args)
      BY <2>1, <2>2, <2>5, <3>1 DEF IsBody
    <3>3. PICK c : c = RouterOf(m.env, s.value)
      OBVIOUS
    <3>4. c = IF s.value.name = "Use"
              THEN ChainIn(m.env, s.value.on) \o extractMiddlewares(s.value.args)
              ELSE <<>>
      BY <3>1, <3>2, <3>3, RouterChain
    <3>5. Assigned(m.env, s) = WithChain(m.env, s.var, c)
      BY <2>5, <3>1, <3>4 DEF Assigned
    <3>6. Ran(m, s) = [m EXCEPT !.env = WithChain(@, s.var, c)]
      BY <2>5, <3>3 DEF Ran
    <3> QED
      BY <2>1, <2>3, <2>4, <3>5, <3>6
  <2>6. CASE s.k # "decl"
    <3>1. Assigned(m.env, s) = m.env
      BY <2>6 DEF Assigned
    <3>2. DOMAIN Ran(m, s) = DOMAIN m /\ Ran(m, s).env = m.env
      <4>1. CASE s.name = "Add"
        <5>1. PICK q : Ran(m, s) = [m EXCEPT !.chains = q]
          BY <2>6, <4>1 DEF Ran
        <5> QED
          BY <2>4, <5>1
      <4>2. CASE s.name # "Add"
        BY <2>6, <4>2 DEF Ran
      <4> QED
        BY <4>1, <4>2
    <3> QED
      BY <2>1, <2>3, <2>4, <3>1, <3>2
  <2> QED
    BY <2>5, <2>6
<1> HIDE DEF T
<1>3. \A n \in 0..Len(body) : n \in T
  BY <1>1, <1>2, Climbs
<1> QED
  BY <1>3 DEF T

\* A variable that is assigned once keeps the chain it was given.
LEMMA KeepsItsChain ==
    ASSUME NEW body, Len(body) \in Nat, DOMAIN body = 1..Len(body),
           AssignedOnce(body), NEW f, StepsOf(f, body),
           NEW j \in Declarations(body), NEW n \in 0..Len(body), j <= n
    PROVE  ChainIn(f[n], body[j].var) = ChainIn(f[j], body[j].var)
<1> DEFINE v == body[j].var
           T == {i \in 0..Len(body) : j <= i => ChainIn(f[i], v) = ChainIn(f[j], v)}
<1>1. j \in 1..Len(body) /\ body[j].k = "decl"
  BY DEF Declarations
<1>2. 0 \in T
  BY <1>1
<1>3. ASSUME NEW i \in 0..Len(body), i < Len(body), i \in T PROVE i + 1 \in T
  <2>1. i + 1 \in 1..Len(body) /\ i + 1 \in 0..Len(body) /\ i + 1 - 1 = i
    BY <1>3
  <2>2. CASE j <= i
    <3>1. ChainIn(f[i], v) = ChainIn(f[j], v)
      BY <1>3, <2>2
    <3>2. PICK c, s : c = f[i] /\ s = body[i + 1]
      OBVIOUS
    <3>3. f[i + 1] = Assigned(c, s)
      BY <2>1, <3>2 DEF StepsOf
    <3>4. s.k = "decl" => s.var # v
      BY <1>1, <2>1, <2>2, <3>2 DEF AssignedOnce, Declarations
    <3> HIDE DEF v
    <3>5. ChainIn(Assigned(c, s), v) = ChainIn(c, v)
      <4>1. CASE s.k = "decl" /\ s.tok # "var"
        <5>1. PICK x : Assigned(c, s) = WithChain(c, s.var, x)
          BY <4>1 DEF Assigned
        <5> QED
          BY <3>4, <4>1, <5>1 DEF ChainIn, WithChain
      <4>2. CASE ~(s.k = "decl" /\ s.tok # "var")
        BY <4>2 DEF Assigned
      <4> QED
        BY <4>1, <4>2
    <3> QED
      BY <2>1, <3>1, <3>2, <3>3, <3>5
  <2>3. CASE ~(j <= i)
    <3>1. j <= i + 1 => j = i + 1
      BY <1>1, <1>3, <2>3
    <3> QED
      BY <2>1, <3>1
  <2> QED
    BY <2>2, <2>3
<1> HIDE DEF T
<1>4. n \in T
  BY <1>2, <1>3, Climbs
<1> QED
  BY <1>4 DEF T

\* The routes found and the routes registered are the same ones in the same
\* order, and the map at the end has the chains they were registered with.
LEMMA RoutesMatch ==
    ASSUME NEW body, IsBody(body), PlainRouters(body),
           NEW f, StepsOf(f, body), NEW g, RunOf(g, body),
           NEW r, FilterOf(r, body, {n \in ToSet(body) : IsRoute(n)})
    PROVE  \A i \in DOMAIN r[Len(body)] :
             g[Len(body)].chains[i] = ChainIn(f[Len(body)], r[Len(body)][i].on)
<1> DEFINE N == Len(body)
           U == ToSet(body)
           S == {n \in U : IsRoute(n)}
           C == {ChainIn(f[N], x.on) : x \in U}
           Same(q, c) == /\ q \in Seq(U) /\ c \in Seq(C) /\ Len(q) = Len(c)
                         /\ \A i \in 1..Len(q) : c[i] = ChainIn(f[N], q[i].on)
           T == {n \in 0..N : Same(r[n], g[n].chains)}
<1>1. /\ N \in Nat /\ DOMAIN body = 1..N /\ body \in Seq(U)
      /\ \A i \in 1..N : body[i] \in U
  <2>1. body \in Seq(U)
    BY DEF IsBody, IsSeq
  <2>2. N \in Nat /\ DOMAIN body = 1..N
    BY <2>1, SeqOfItsOwn
  <2> QED
    BY <2>1, <2>2 DEF ToSet
<1>2. \A n \in 0..N : DOMAIN g[n] = {"env", "chains"} /\ g[n].env = f[n]
  BY <1>1, SameChains
<1>3. 0 \in T
  <2>1. r[0] = <<>> /\ g[0].chains = <<>>
    BY DEF FilterOf, RunOf, AtFirst
  <2>2. Same(<<>>, <<>>)
    <3>1. PICK e : e = <<>>
      OBVIOUS
    <3>2. e \in Seq(U) /\ e \in Seq(C) /\ Len(e) = 0
      <4> HIDE DEF U, C
      <4> QED
        BY <3>1
    <3>3. \A i \in 1..Len(e) : e[i] = ChainIn(f[N], e[i].on)
      BY <3>2
    <3> HIDE DEF U, C
    <3> QED
      BY <3>1, <3>2, <3>3
  <2> HIDE DEF Same
  <2>3. Same(r[0], g[0].chains)
    BY <2>1, <2>2
  <2> QED
    BY <1>1, <2>3
<1>4. ASSUME NEW n \in 0..N, n < N, n \in T PROVE n + 1 \in T
  <2>1. n + 1 \in 1..N /\ n + 1 \in 0..N /\ n + 1 - 1 = n /\ n \in Nat
    BY <1>1, <1>4
  <2>2. PICK q, m, s : q = r[n] /\ m = g[n] /\ s = body[n + 1]
    OBVIOUS
  <2>3. Same(q, m.chains) /\ DOMAIN m = {"env", "chains"} /\ m.env = f[n] /\ s \in U
    BY <1>1, <1>2, <1>4, <2>1, <2>2
  <2> HIDE DEF Same, C, U
  <2>4. g[n + 1] = Ran(m, s)
    <3>1. g[n + 1] = Ran(g[n + 1 - 1], body[n + 1])
      BY <2>1 DEF RunOf
    <3> QED
      BY <2>1, <2>2, <3>1
  <2>5. r[n + 1] = IF IsRoute(s) THEN Append(q, s) ELSE q
    <3>1. \A i \in 1..N :
            r[i] = IF body[i] \in S THEN Append(r[i - 1], body[i]) ELSE r[i - 1]
      BY DEF FilterOf, U
    <3>2. body[n + 1] \in S <=> IsRoute(s)
      BY <2>2, <2>3
    <3> HIDE DEF S
    <3> QED
      BY <2>1, <2>2, <3>1, <3>2
  <2>6. Same(r[n + 1], g[n + 1].chains)
    <3>1. CASE s.k # "decl" /\ s.name = "Add"
      <4>1. n + 1 \in DOMAIN body \ Declarations(body)
        BY <1>1, <2>1, <2>2, <3>1 DEF Declarations
      <4>2. /\ IsRoute(s) /\ s.recv = None
            /\ \E j \in Declarations(body) : j < n + 1 /\ body[j].var = s.on
        BY <2>2, <3>1, <4>1 DEF PlainRouters
      <4>3. PICK j \in Declarations(body) : j < n + 1 /\ body[j].var = s.on
        BY <4>2
      <4>4. j \in 0..N /\ j <= n /\ j <= N /\ n \in 0..N /\ N \in 0..N
        BY <1>1, <2>1, <4>3 DEF Declarations
      <4>5. AssignedOnce(body)
        BY DEF PlainRouters
      <4>6. /\ ChainIn(f[n], body[j].var) = ChainIn(f[j], body[j].var)
            /\ ChainIn(f[N], body[j].var) = ChainIn(f[j], body[j].var)
        BY <1>1, <4>4, <4>5, KeepsItsChain
      <4>7. PICK x : x = ChainIn(f[N], s.on)
        OBVIOUS
      <4>8. Ran(m, s) = [m EXCEPT !.chains = Append(@, x)]
        BY <2>3, <3>1, <4>2, <4>3, <4>6, <4>7 DEF Ran
      <4>9. PICK c, d, t : c = m.chains /\ d = Append(c, x) /\ t = Append(q, s)
        OBVIOUS
      <4>10. r[n + 1] = t /\ g[n + 1].chains = d
        BY <2>3, <2>4, <2>5, <4>2, <4>8, <4>9
      <4>11. x \in C
        BY <2>3, <4>7 DEF C
      <4>12. Same(q, c)
        BY <2>3, <4>9
      <4>13. /\ q \in Seq(U) /\ c \in Seq(C) /\ Len(q) = Len(c) /\ Len(q) \in Nat
             /\ \A i \in 1..Len(q) : c[i] = ChainIn(f[N], q[i].on)
        BY <4>12 DEF Same
      <4>14. /\ t \in Seq(U) /\ Len(t) = Len(q) + 1 /\ t[Len(q) + 1] = s
             /\ \A i \in 1..Len(q) : t[i] = q[i]
        BY <2>3, <4>9, <4>13, AppendProperties
      <4>15. /\ d \in Seq(C) /\ Len(d) = Len(q) + 1 /\ d[Len(q) + 1] = x
             /\ \A i \in 1..Len(q) : d[i] = c[i]
        BY <4>9, <4>11, <4>13, AppendProperties
      <4>16. \A i \in 1..Len(t) : d[i] = ChainIn(f[N], t[i].on)
        BY <4>7, <4>13, <4>14, <4>15
      <4>17. Same(t, d)
        BY <4>14, <4>15, <4>16 DEF Same
      <4> QED
        BY <4>10, <4>17
    <3>2. CASE s.k # "decl" /\ s.name # "Add"
      <4>1. Ran(m, s) = m /\ ~IsRoute(s)
        BY <3>2 DEF Ran, IsRoute
      <4> QED
        BY <2>3, <2>4, <2>5, <4>1
    <3>3. CASE s.k = "decl"
      <4>1. ~IsRoute(s)
        BY <3>3 DEF IsRoute, IsCall
      <4>2. PICK e : Ran(m, s) = [m EXCEPT !.env = e]
        BY <3>3 DEF Ran
      <4>3. Ran(m, s).chains = m.chains
        BY <2>3, <4>2
      <4> QED
        BY <2>3, <2>4, <2>5, <4>1, <4>3
    <3> QED
      BY <3>1, <3>2, <3>3
  <2> QED
    BY <2>1, <2>6
<1> HIDE DEF T
<1>5. \A n \in 0..N : n \in T
  BY <1>1, <1>3, <1>4, Climbs
<1>6. Same(r[N], g[N].chains)
  <2>1. N \in T
    BY <1>1, <1>5
  <2> QED
    BY <2>1 DEF T
<1>7. DOMAIN r[N] = 1..Len(r[N])
  <2>1. r[N] \in Seq(U)
    BY <1>6
  <2> HIDE DEF U
  <2> QED
    BY <2>1
<1> QED
  BY <1>6, <1>7

\* A route of a plain body is documented with the chain it is run with.
LEMMA PlainChains ==
    ASSUME NEW body, IsBody(body), PlainRouters(body)
    PROVE  \A i \in DOMAIN RoutesIn(body) :
             ChainsRun(body)[i] = ChainIn(buildMiddlewareMap(body), RoutesIn(body)[i].on)
<1>1. Len(body) \in Nat
  <2>1. body \in Seq(ToSet(body))
    BY DEF IsBody, IsSeq
  <2> QED
    BY <2>1, SeqOfItsOwn
<1>2. PICK f : StepsOf(f, body) /\ buildMiddlewareMap(body) = f[Len(body)]
  BY <1>1, MapIs
<1>3. PICK g : RunOf(g, body) /\ ChainsRun(body) = g[Len(body)].chains
  BY <1>1, RunIs
<1> DEFINE S == {n \in ToSet(body) : IsRoute(n)}
<1>4. PICK r : FilterOf(r, body, S) /\ OnlyIn(body, S) = r[Len(body)]
  BY <1>1, FilterIs
<1>5. RoutesIn(body) = r[Len(body)]
  BY <1>4 DEF RoutesIn
<1>6. \A i \in DOMAIN r[Len(body)] :
        g[Len(body)].chains[i] = ChainIn(f[Len(body)], r[Len(body)][i].on)
  BY <1>2, <1>3, <1>4, RoutesMatch
<1> QED
  BY <1>2, <1>3, <1>5, <1>6

\* What is parsed of a directory are files of it.
LEMMA ParsedIs ==
    ASSUME NEW d, IsTree(dirs), NEW r, r = Parsed(d)
    PROVE  /\ IsSeq(r) /\ ToSet(r) \subseteq ToSet(ReadDir(d))
<1>1. ReadDir(d) \in Seq(ToSet(ReadDir(d)))
  <2>1. CASE d \in DOMAIN dirs
    BY <2>1 DEF IsTree, IsSeq, ReadDir
  <2>2. CASE d \notin DOMAIN dirs
    BY <2>2 DEF ReadDir
  <2> QED
    BY <2>1, <2>2
<1>2. PICK D : D = ReadDir(d)
  OBVIOUS
<1>3. D \in Seq(ToSet(D)) /\ r = OnlyIn(D, {f \in ToSet(D) : f.parses})
  BY <1>1, <1>2 DEF Parsed
<1>4. r \in Seq(ToSet(D)) /\ ToSet(r) \subseteq ToSet(D)
  BY <1>3, OnlyInIs
<1>5. r \in Seq(ToSet(r))
  BY <1>4, SeqOfItsOwn
<1> QED
  BY <1>2, <1>4, <1>5 DEF IsSeq

\* The file that is read for the routes is the router file, and the function
\* that is read has a body of statements.
LEMMA RouterFileIs ==
    ASSUME IsTree(dirs), NEW P, P = Parsed(RouterDir),
           NEW files, files = OnlyIn(P, {f \in ToSet(P) : f.name = RouterFile.name}),
           files # <<>>,
           NEW fns, fns = FuncsNamed(files[1], "Actions"), fns # <<>>
    PROVE  files[1] = RouterFile /\ RouterBody = Last(fns).body /\ IsBody(RouterBody)
<1>1. P \in Seq(ToSet(P)) /\ ToSet(P) \subseteq ToSet(ReadDir(RouterDir))
  BY ParsedIs DEF IsSeq
<1> DEFINE S == {f \in ToSet(P) : f.name = RouterFile.name}
<1>2. files \in Seq(ToSet(P)) /\ ToSet(files) = ToSet(P) \cap S
  BY <1>1, OnlyInIs
<1>3. files[1] \in ToSet(files)
  <2>1. 1 \in DOMAIN files
    BY <1>2, SeqOfItsOwn
  <2> QED
    BY <2>1 DEF ToSet
<1>4. files[1] \in ToSet(ReadDir(RouterDir)) /\ files[1].name = RouterFile.name
  BY <1>1, <1>2, <1>3
<1>5. RouterDir \in DOMAIN dirs
  <2>1. SUFFICES ASSUME RouterDir \notin DOMAIN dirs PROVE FALSE
    OBVIOUS
  <2>2. ReadDir(RouterDir) = <<>>
    BY <2>1 DEF ReadDir
  <2>3. ToSet(ReadDir(RouterDir)) = {}
    BY <2>2 DEF ToSet
  <2> QED
    BY <1>4, <2>3
<1>6. PICK i \in DOMAIN dirs[RouterDir] : files[1] = dirs[RouterDir][i]
  BY <1>4, <1>5 DEF ReadDir, ToSet
<1>7. 1 \in DOMAIN dirs[RouterDir]
  <2>1. PICK D : D = dirs[RouterDir]
    OBVIOUS
  <2>2. D \in Seq(ToSet(D)) /\ i \in DOMAIN D
    BY <1>5, <1>6, <2>1 DEF IsTree, IsSeq
  <2>3. DOMAIN D = 1..Len(D) /\ Len(D) \in Nat
    BY <2>2, SeqOfItsOwn
  <2> QED
    BY <2>1, <2>2, <2>3
<1>8. files[1] = RouterFile
  <2>1. dirs[RouterDir][i].name = dirs[RouterDir][1].name
    BY <1>4, <1>6 DEF RouterFile
  <2>2. i = 1
    BY <1>5, <1>6, <1>7, <2>1 DEF IsTree
  <2> QED
    BY <1>6, <2>2 DEF RouterFile
<1>9. IsFile(files[1])
  BY <1>5, <1>6 DEF IsTree
<1>10. PICK F : F = files[1].funcs
  OBVIOUS
<1>11. F \in Seq(ToSet(F)) /\ \A j \in DOMAIN F : IsBody(F[j].body)
  BY <1>9, <1>10 DEF IsFile, IsSeq
<1>12. fns = OnlyIn(F, {fn \in ToSet(F) : fn.name = "Actions"})
  BY <1>10 DEF FuncsNamed
<1>13. fns \in Seq(ToSet(F))
  BY <1>11, <1>12, OnlyInIs
<1>14. Last(fns) \in ToSet(F)
  BY <1>13 DEF Last
<1>15. IsBody(Last(fns).body)
  BY <1>11, <1>14 DEF ToSet
<1> QED
  BY <1>8, <1>15 DEF RouterBody

LEMMA TreeRoutes == ASSUME IsTree(dirs) PROVE RoutesAsRun
<1> SUFFICES ASSUME PlainRouters(RouterBody), NEW i \in DOMAIN DocumentedRoutes
             PROVE  DocumentedRoutes[i].middlewareChain = ChainsRun(RouterBody)[i]
  BY DEF RoutesAsRun, ChainsAsRun
<1>1. PICK P : P = Parsed(RouterDir)
  OBVIOUS
<1>2. PICK files : files = OnlyIn(P, {f \in ToSet(P) : f.name = RouterFile.name})
  OBVIOUS
<1>3. PICK fns : fns = FuncsNamed(files[1], "Actions")
  OBVIOUS
<1> DEFINE body == Last(fns).body
           HandlerOf(j) == parseHandler(RoutesIn(body)[j].args[2], files[1], RouterDir)
           Route(j) ==
             [name |-> extractStringLiteral(RoutesIn(body)[j].args[1]),
              middlewareGroup |-> RoutesIn(body)[j].on,
              middlewareChain |-> ChainIn(buildMiddlewareMap(body), RoutesIn(body)[j].on),
              params |-> HandlerOf(j).params, returns |-> HandlerOf(j).returns,
              description |-> HandlerOf(j).description]
<1>4. DocumentedRoutes = IF files = <<>> \/ fns = <<>> THEN <<>>
                         ELSE [j \in DOMAIN RoutesIn(body) |-> Route(j)]
  BY <1>1, <1>2, <1>3, Zenon DEF DocumentedRoutes, ParseRouterFile
<1> HIDE DEF Route
<1>5. files # <<>> /\ fns # <<>>
  BY <1>4
<1>6. DocumentedRoutes = [j \in DOMAIN RoutesIn(body) |-> Route(j)]
  BY <1>4, <1>5
<1>7. i \in DOMAIN RoutesIn(body) /\ DocumentedRoutes[i] = Route(i)
  BY <1>6
<1>8. RouterBody = body /\ IsBody(body)
  BY <1>1, <1>2, <1>3, <1>5, RouterFileIs
<1> HIDE DEF body
<1>9. ChainsRun(body)[i] = ChainIn(buildMiddlewareMap(body), RoutesIn(body)[i].on)
  BY <1>7, <1>8, PlainChains
<1>10. Route(i).middlewareChain = ChainIn(buildMiddlewareMap(body), RoutesIn(body)[i].on)
  BY DEF Route
<1> QED
  BY <1>7, <1>8, <1>9, <1>10

\* What is written into a body leaves a tree of files.
LEMMA Replaced ==
    ASSUME NEW s, IsSeq(s), NEW k, NEW e, NEW t, t = [s EXCEPT ![k] = e]
    PROVE  /\ IsSeq(t) /\ DOMAIN t = DOMAIN s
           /\ \A i \in DOMAIN s : t[i] = IF i = k THEN e ELSE s[i]
<1>1. DOMAIN s = 1..Len(s) /\ Len(s) \in Nat
  BY SeqOfItsOwn DEF IsSeq
<1>2. DOMAIN t = DOMAIN s /\ \A i \in DOMAIN s : t[i] = IF i = k THEN e ELSE s[i]
  OBVIOUS
<1>3. t = [i \in 1..Len(s) |-> t[i]]
  BY <1>1
<1>4. \A i \in 1..Len(s) : t[i] \in ToSet(t)
  BY <1>1, <1>2 DEF ToSet
<1>5. t \in Seq(ToSet(t))
  <2>1. PICK U : U = ToSet(t)
    OBVIOUS
  <2>2. t \in [1..Len(s) -> U]
    BY <1>3, <1>4, <2>1
  <2>3. t \in Seq(U)
    <3>1. PICK n \in Nat : n = Len(s)
      BY <1>1
    <3>2. t \in [1..n -> U]
      BY <2>2, <3>1
    <3> QED
      BY <3>2, SeqDef
  <2> QED
    BY <2>1, <2>3
<1> QED
  BY <1>2, <1>5 DEF IsSeq

LEMMA BodyGrows ==
    ASSUME NEW a, IsBody(a), NEW b, IsBody(b), NEW r, r = a \o b
    PROVE  IsBody(r)
<1> DEFINE S == ToSet(a) \cup ToSet(b)
<1>1. a \in Seq(S) /\ b \in Seq(S)
  BY SeqOfMore DEF IsBody, IsSeq
<1>2. Joins(S, r, a, b)
  BY <1>1, Concatenated
<1> HIDE DEF S
<1>3. /\ r \in Seq(S) /\ DOMAIN r = 1..(Len(a) + Len(b))
      /\ Len(a) \in Nat /\ Len(b) \in Nat
      /\ DOMAIN a = 1..Len(a) /\ DOMAIN b = 1..Len(b)
      /\ \A i \in 1..Len(a) : r[i] = a[i]
      /\ \A i \in 1..Len(b) : r[Len(a) + i] = b[i]
  BY <1>2 DEF Joins
<1>4. IsSeq(r)
  BY <1>3, SeqOfItsOwn DEF IsSeq
<1>5. ASSUME NEW i \in DOMAIN r, r[i].k = "decl", IsCall(r[i].value)
      PROVE  IsSeq(r[i].value.args)
  <2>1. CASE i \in 1..Len(a)
    <3>1. r[i] = a[i] /\ i \in DOMAIN a
      BY <1>3, <2>1
    <3> QED
      BY <1>5, <3>1 DEF IsBody
  <2>2. CASE i \notin 1..Len(a)
    <3>1. PICK j \in 1..Len(b) : i = Len(a) + j
      <4>1. i - Len(a) \in 1..Len(b) /\ i = Len(a) + (i - Len(a))
        BY <1>3, <2>2
      <4> QED
        BY <4>1
    <3>2. r[i] = b[j] /\ j \in DOMAIN b
      BY <1>3, <3>1
    <3> QED
      BY <1>5, <3>2 DEF IsBody
  <2> QED
    BY <2>1, <2>2
<1> QED
  BY <1>4, <1>5 DEF IsBody

Grown(G, F, k, s) == G = [F EXCEPT !.funcs[k].body = @ \o s]

LEMMA FileGrows ==
    ASSUME NEW F, IsFile(F), NEW k, NEW s, IsBody(s), NEW G, Grown(G, F, k, s)
    PROVE  IsFile(G) /\ G.name = F.name
<1>1. PICK K, b : K = F.funcs /\ b = K[k].body \o s
  OBVIOUS
<1>2. PICK h : h = [K[k] EXCEPT !.body = b]
  OBVIOUS
<1>3. PICK L : L = [K EXCEPT ![k] = h]
  OBVIOUS
<1>4. G = [F EXCEPT !.funcs = L]
  BY <1>1, <1>2, <1>3 DEF Grown
<1>5. IsSeq(K) /\ \A i \in DOMAIN K : "body" \in DOMAIN K[i] /\ IsBody(K[i].body)
  BY <1>1 DEF IsFile
<1>6. /\ IsSeq(L) /\ DOMAIN L = DOMAIN K
      /\ \A i \in DOMAIN K : L[i] = IF i = k THEN h ELSE K[i]
  BY <1>3, <1>5, Replaced
<1>7. {"name", "funcs"} \subseteq DOMAIN F
  BY DEF IsFile
<1>8. DOMAIN G = DOMAIN F /\ G.funcs = L /\ G.name = F.name
  BY <1>4, <1>7
<1>9. ASSUME k \in DOMAIN K PROVE "body" \in DOMAIN h /\ IsBody(h.body)
  <2>1. "body" \in DOMAIN K[k] /\ IsBody(K[k].body)
    BY <1>5, <1>9
  <2>2. DOMAIN h = DOMAIN K[k] /\ h.body = b
    BY <1>2, <2>1
  <2>3. IsBody(b)
    BY <1>1, <2>1, BodyGrows
  <2> QED
    BY <2>1, <2>2, <2>3
<1>10. \A i \in DOMAIN L : "body" \in DOMAIN L[i] /\ IsBody(L[i].body)
  BY <1>5, <1>6, <1>9
<1>11. IsFile(G)
  BY <1>6, <1>7, <1>8, <1>10 DEF IsFile
<1> QED
  BY <1>8, <1>11

\* In every program that is written, whatever the statements are.
ProgramInv == writing \in Writable /\ IsTree(dirs)

LEMMA WriteProgramInv == ASSUME ProgramInv, Write PROVE ProgramInv'
<1>1. writing' = writing
  BY DEF Write
<1>2. PICK s \in Statements(writing) :
        dirs' = [dirs EXCEPT ![writing.dir][writing.file].funcs[writing.func].body
                               = @ \o s]
  BY DEF Write
<1>3. IsBody(s)
  BY ProgramsAssumption DEF ProgramInv
<1>4. PICK d, i, k : d = writing.dir /\ i = writing.file /\ k = writing.func
  OBVIOUS
<1>5. PICK D, F : D = dirs[d] /\ F = D[i]
  OBVIOUS
<1>6. PICK G : Grown(G, F, k, s)
  BY DEF Grown
<1>7. PICK E : E = [D EXCEPT ![i] = G]
  OBVIOUS
<1>8. dirs' = [dirs EXCEPT ![d] = E]
  BY <1>2, <1>4, <1>5, <1>6, <1>7 DEF Grown
<1>9. IsTree(dirs)
  BY DEF ProgramInv
<1>10. DOMAIN dirs' = DOMAIN dirs
  BY <1>8
<1>11. ASSUME NEW c \in DOMAIN dirs
       PROVE  /\ IsSeq(dirs'[c])
              /\ \A j \in DOMAIN dirs'[c] : IsFile(dirs'[c][j])
              /\ \A j, l \in DOMAIN dirs'[c] :
                   dirs'[c][j].name = dirs'[c][l].name => j = l
  <2>1. /\ IsSeq(dirs[c])
        /\ \A j \in DOMAIN dirs[c] : IsFile(dirs[c][j])
        /\ \A j, l \in DOMAIN dirs[c] : dirs[c][j].name = dirs[c][l].name => j = l
    BY <1>9, <1>11 DEF IsTree
  <2>2. CASE c # d
    <3>1. dirs'[c] = dirs[c]
      BY <1>8, <2>2
    <3> QED
      BY <2>1, <3>1
  <2>3. CASE c = d
    <3>1. dirs'[c] = E /\ dirs[c] = D
      BY <1>5, <1>8, <2>3
    <3>2. /\ IsSeq(D) /\ \A j \in DOMAIN D : IsFile(D[j])
          /\ \A j, l \in DOMAIN D : D[j].name = D[l].name => j = l
      BY <2>1, <3>1
    <3>3. /\ IsSeq(E) /\ DOMAIN E = DOMAIN D
          /\ \A j \in DOMAIN D : E[j] = IF j = i THEN G ELSE D[j]
      BY <1>7, <3>2, Replaced
    <3>4. i \in DOMAIN D => IsFile(G) /\ G.name = D[i].name
      <4>1. ASSUME i \in DOMAIN D PROVE IsFile(G) /\ G.name = D[i].name
        <5>1. IsFile(F)
          BY <1>5, <3>2, <4>1
        <5>2. IsFile(G) /\ G.name = F.name
          BY <1>3, <1>6, <5>1, FileGrows
        <5> QED
          BY <1>5, <5>2
      <4> QED
        BY <4>1
    <3>5. \A j \in DOMAIN D : IsFile(E[j]) /\ E[j].name = D[j].name
      BY <3>2, <3>3, <3>4
    <3>6. /\ \A j \in DOMAIN E : IsFile(E[j])
          /\ \A j, l \in DOMAIN E : E[j].name = E[l].name => j = l
      BY <3>2, <3>3, <3>5
    <3> QED
      BY <3>1, <3>3, <3>6
  <2> QED
    BY <2>2, <2>3
<1>12. IsTree(dirs')
  BY <1>10, <1>11 DEF IsTree
<1> QED
  BY <1>1, <1>12 DEF ProgramInv

\* RoutesAsRun: in every plain program, of whatever statements, routers and
\* routes it is written, a route is documented with the middleware it runs
\* behind (internal/docgen/parser.go:170, ws/router.go:28).
THEOREM RoutesCorrect == ProgramSpec => []RoutesAsRun
<1>1. ProgramInit => ProgramInv
  BY ProgramsAssumption DEF ProgramInit, ProgramInv
<1>2. ProgramInv /\ [Write]_<<dirs, writing>> => ProgramInv'
  <2>1. ASSUME ProgramInv, UNCHANGED <<dirs, writing>> PROVE ProgramInv'
    BY <2>1 DEF ProgramInv
  <2> QED
    BY <2>1, WriteProgramInv
<1>3. ProgramInv => RoutesAsRun
  BY TreeRoutes DEF ProgramInv
<1> QED
  BY <1>1, <1>2, <1>3, PTL DEF ProgramSpec
=============================================================================
