-------------------------------- MODULE Trie --------------------------------
(***************************************************************************)
(* The trie of sensitive words (utils/tree).  A node is the string that     *)
(* leads to it: no node has two parents.  Del takes a shortcut: it cuts at  *)
(* the last node that has several children, whatever words end between that *)
(* node and the one to delete, and trusts that the string is in the trie.   *)
(***************************************************************************)
EXTENDS Naturals, Sequences, FiniteSets

CONSTANTS
    Letters,
    MaxWord,   \* bound: the length of a word
    Payloads,
    NoPayload, \* the payload of a node that no word has ended at
    MaxEdits   \* bound: the calls of Insert and Del

ASSUME WordAssumption == MaxWord \in Nat /\ MaxEdits \in Nat

Words == UNION {[1..n -> Letters] : n \in 1..MaxWord}

VARIABLES
    trie,    \* the nodes: Count, IsWord and Payload
    broken,  \* Del has panicked
    told,    \* history: the words that ought to be there, with their payloads
    edits    \* the calls so far
trieVars == <<trie, broken, told, edits>>

NewNode == [count |-> 0, isWord |-> FALSE, payload |-> NoPayload]

TrieInit == /\ trie = [p \in {<<>>} |-> NewNode]
            /\ broken = FALSE /\ told = <<>> /\ edits = 0

Upto(w, i) == SubSeq(w, 1, i)
Extends(w, u) == Len(u) <= Len(w) /\ Upto(w, Len(u)) = u
Children(p) == {q \in DOMAIN trie : Len(q) = Len(p) + 1 /\ Extends(q, p)}

-----------------------------------------------------------------------------
\* Mutant: a child that is there is counted again.
WithPathCounting(w, p) ==
    LET path == {Upto(w, i) : i \in 0..Len(w)}
    IN  [q \in DOMAIN trie \union path |->
           LET node == IF q \in DOMAIN trie THEN trie[q] ELSE NewNode
           IN  IF q = w THEN [node EXCEPT !.payload = p, !.isWord = TRUE]
               ELSE IF q \in path THEN [node EXCEPT !.count = @ + 1] ELSE node]

\* The trie with the nodes of w, made where they are missing.
WithPath(w, p) ==
    LET path == {Upto(w, i) : i \in 0..Len(w)}
    IN  [q \in DOMAIN trie \union path |->
           LET node == IF q \in DOMAIN trie THEN trie[q] ELSE NewNode
           IN  IF q = w THEN [node EXCEPT !.payload = p, !.isWord = TRUE]
               ELSE IF q \in path /\ Upto(w, Len(q) + 1) \notin DOMAIN trie
                    THEN [node EXCEPT !.count = @ + 1] ELSE node]

Insert(w, p) ==
    /\ trie' = WithPath(w, p)
    /\ told' = [u \in DOMAIN told \union {w} |-> IF u = w THEN p ELSE told[u]]
    /\ UNCHANGED broken

\* Mutant: a node with one child is taken for a branch.
LastInner(w) ==
    CHOOSE i \in 0..Len(w) : /\ i = 0 \/ trie[Upto(w, i)].count > 0
                             /\ \A j \in i + 1..Len(w) : trie[Upto(w, j)].count = 0

\* The length of the last node of w, below the root, with several children; 0
\* is the root.
LastBranch(w) ==
    CHOOSE i \in 0..Len(w) : /\ i = 0 \/ trie[Upto(w, i)].count > 1
                             /\ \A j \in i + 1..Len(w) : trie[Upto(w, j)].count <= 1

\* The walk calls a method of a nil node, or reads the letter behind the last.
DelPanics(w) == w \notin DOMAIN trie \/ (w # <<>> /\ LastBranch(w) = Len(w))

Cut(w, i) ==
    [q \in {r \in DOMAIN trie : ~Extends(r, Upto(w, i + 1))} |->
       IF q = Upto(w, i) THEN [trie[q] EXCEPT !.count = @ - 1] ELSE trie[q]]

\* Mutant: the children of a word that is deleted go with it.
WithoutSubtree(w) == Cut(w, LastBranch(w))

\* The trie after Del, which leaves a node with children where it is.
Without(w) == IF trie[w].count > 0 THEN [trie EXCEPT ![w].isWord = FALSE]
              ELSE Cut(w, LastBranch(w))

\* What Del takes away of the words: w, and with a w that no word continues
\* those that end behind the last place where another word turns off.
Taken(w) ==
    IF \E v \in DOMAIN told : v # w /\ Extends(v, w) THEN {w}
    ELSE {u \in DOMAIN told :
            /\ Extends(w, u)
            /\ \A v \in DOMAIN told : Extends(v, u) => Extends(w, v)}

Del(w) ==
    IF DelPanics(w) THEN broken' = TRUE /\ UNCHANGED <<trie, told>>
    ELSE /\ trie' = Without(w)
         /\ told' = [u \in DOMAIN told \ Taken(w) |-> told[u]]
         /\ UNCHANGED broken

TrieNext == /\ ~broken /\ edits < MaxEdits
            /\ edits' = edits + 1
            /\ \E w \in Words : Del(w) \/ \E p \in Payloads : Insert(w, p)

TrieSpec == TrieInit /\ [][TrieNext]_trieVars

-----------------------------------------------------------------------------
(* Find, FindAll                                                            *)

Find(w) == IF w \in DOMAIN trie
           THEN [found |-> trie[w].isWord, payload |-> trie[w].payload]
           ELSE [found |-> FALSE, payload |-> NoPayload]

\* The words whose payloads FindAll collects.
FindAll(prefix) == {w \in DOMAIN trie : Extends(w, prefix) /\ trie[w].isWord}

-----------------------------------------------------------------------------
(* Properties.                                                              *)

TrieTypeOK ==
    /\ DOMAIN trie \subseteq Words \union {<<>>} /\ DOMAIN told \subseteq Words
    /\ trie \in [DOMAIN trie -> [count : Nat, isWord : BOOLEAN,
                                  payload : Payloads \union {NoPayload}]]
    /\ told \in [DOMAIN told -> Payloads]
    /\ broken \in BOOLEAN /\ edits \in Nat

\* After any sequence of calls Find and FindAll know exactly the words that
\* were inserted, with their last payloads, less those that Del has taken:
\* the word itself, and the words that Taken names, which nobody deleted.
FindsWhatWasTold ==
    /\ \A w \in Words :
         IF w \in DOMAIN told THEN Find(w) = [found |-> TRUE, payload |-> told[w]]
                              ELSE ~Find(w).found
    /\ \A p \in Words : FindAll(p) = {w \in DOMAIN told : Extends(w, p)}

\* Count, by which Del finds the place to cut, is the number of children, and
\* every leaf is a word, so that what is cut is never shared with a word that
\* turns off.
CountsAreChildren ==
    \A p \in DOMAIN trie : /\ trie[p].count = Cardinality(Children(p))
                           /\ trie[p].count = 0 /\ p # <<>> => trie[p].isWord

\* Del works for every word that is in the trie, unless two words continue it
\* with different letters: then it reads behind the end of the word.
DelWorksForWords ==
    \A w \in DOMAIN told :
        DelPanics(w) <=> \E u, v \in DOMAIN told :
                            /\ Extends(u, w) /\ Extends(v, w)
                            /\ Len(u) > Len(w) /\ Len(v) > Len(w)
                            /\ u[Len(w) + 1] # v[Len(w) + 1]

\* The trie is the words it was told, through any sequence of calls: finding,
\* counting and deleting agree with them.
TrieIsItsWords == FindsWhatWasTold /\ CountsAreChildren /\ DelWorksForWords
=============================================================================
