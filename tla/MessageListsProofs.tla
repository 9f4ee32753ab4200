------------------------- MODULE MessageListsProofs -------------------------
(***************************************************************************)
(* Theorems about MessageLists, for every window size, any number of       *)
(* messages and any number of reconnects: the pointers stay in order even  *)
(* when the lists are crossed, until then the two lists are well linked    *)
(* and nothing freed is used, and what they hold follows QueueSpec.        *)
(***************************************************************************)
EXTENDS MessageLists, FiniteSetTheorems, SequenceTheorems, TLAPS

LEMMA ConstantTypes == MaxInflight \in Nat /\ MaxCells \in Nat /\ InMids \subseteq Nat
BY SMT, MaxInflightAssumption, ListsAssumption

USE ConstantTypes

\* The states in which a thread may still work on the lists.
Running == pc \in {"loop", "reset_in", "reset_out"}

CellType == [mid : Nat, qos : {1, 2}, state : OutStates \cup {"wait_for_pubrel"},
             next : 0 .. MaxCells]

Typed ==
    /\ heap \in [Cells -> CellType \cup {Unused}]
    /\ \A c \in Cells : Live(c) => c <= allocated /\ heap[c].next <= allocated
    /\ allocated \in 0 .. MaxCells
    /\ last_mid \in 0 .. allocated
    /\ head \in [Directions -> 0 .. allocated]
    /\ last \in [Directions -> 0 .. allocated]
    /\ len \in [Directions -> Int]
    /\ inflight_messages \in Int
    /\ pc \in {"loop", "reset_in", "reset_out", "destroyed", "crashed"}
    /\ message \in 0 .. allocated
    /\ prev \in 0 .. allocated
    /\ crossed \in BOOLEAN

\* The next pointer of a cell leads to a cell handed out later, no two lead to
\* the same one, and none to the first cell of a list; a crossed list keeps to
\* that as well.
Sound(cells, first) ==
    /\ \A c \in Cells : \/ cells[c].next = NULL
                        \/ /\ cells[c].next \in Cells /\ c < cells[c].next
                           /\ cells[cells[c].next] # Unused
    /\ \A c, d \in Cells : cells[c].next = cells[d].next => c = d \/ cells[c].next = NULL
    /\ \A dir \in Directions :
          \/ first[dir] = NULL
          \/ /\ first[dir] \in Cells /\ cells[first[dir]] # Unused
             /\ \A c \in Cells : cells[c].next # first[dir]
    /\ first["in"] = first["out"] => first["in"] = NULL

Pointers == Running => Sound(heap, head)

\* The loop over the incoming messages is at the first cell, or at one that no
\* pointer leads to but that of prev (which a publishing thread may turn away).
Walking ==
    pc = "reset_in" =>
        /\ message # NULL => Live(message)
        /\ prev = NULL => message = head["in"]
        /\ prev # NULL => Live(prev)
        /\ prev # NULL /\ message # NULL =>
              /\ prev < message
              /\ \A c \in Cells : heap[c].next = message => c = prev
              /\ \A dir \in Directions : head[dir] # message

\* The cell at a place of a chain, NULL behind its end.
At(s, i) == IF i \in DOMAIN s THEN s[i] ELSE NULL

\* The outgoing cells that are part way through their flow.
Flow == {c \in Reachable("out") : heap[c].state # "invalid"}

\* Two lists share no cell and hold all that are in use; what an incoming and an
\* outgoing cell holds; the mids tell the outgoing ones apart.
Split ==
    /\ Reachable("in") \cap Reachable("out") = {}
    /\ Reachable("in") \cup Reachable("out") = {c \in Cells : Live(c)}
    /\ \A c \in Reachable("in") : heap[c].qos = 2 /\ heap[c].state = "wait_for_pubrel"
    /\ \A c \in Reachable("out") : heap[c].state \in OutStates /\ heap[c].mid <= last_mid
    /\ \A c, d \in Reachable("out") : heap[c].mid = heap[d].mid => c = d

\* The counters and the last pointers fit the lists, where a reset is not at
\* work on them; where it is, they fit the part it has walked over.
Counted ==
    /\ len["out"] = Len(Chain("out"))
    /\ last["out"] = At(Chain("out"), Len(Chain("out")))
    /\ IF pc = "reset_in"
       THEN /\ len["in"] \in 0 .. Len(Chain("in"))
            /\ prev = At(Chain("in"), len["in"])
            /\ message = At(Chain("in"), len["in"] + 1)
       ELSE /\ len["in"] = Len(Chain("in"))
            /\ last["in"] = At(Chain("in"), Len(Chain("in")))
    /\ pc = "reset_out" => prev = last["in"]
    /\ inflight_messages \in Nat
    /\ Cardinality(Flow) <= inflight_messages

Lists ==
    ~ crossed =>
        /\ pc # "crashed"
        /\ Running => Split /\ Counted
        /\ pc = "destroyed" => /\ \A c \in Cells : ~ Live(c)
                               /\ \A dir \in Directions : head[dir] = NULL
                               /\ len \in [Directions -> Nat]
                               /\ inflight_messages \in Nat

IInv == Typed /\ Pointers /\ Walking /\ Lists

-----------------------------------------------------------------------------
(* Chains of cells.                                                        *)

\* A heap whose next pointers lead to cells handed out later.
Ordered(cells) ==
    \A c \in Cells : cells[c].next = NULL \/ (cells[c].next \in Cells /\ c < cells[c].next)

\* The sequence s is what a walk over these cells visits from the first one.
IsChain(s, cells, first) ==
    /\ s \in Seq(Cells)
    /\ At(s, 1) = first
    /\ \A i \in DOMAIN s : cells[s[i]].next = At(s, i + 1)

\* A set of numbers has a least one.
LEMMA Least ==
    ASSUME NEW T \in SUBSET Nat, T # {}
    PROVE  \E x \in T : \A y \in T : x <= y
<1>1. T # {} /\ T \subseteq Nat
  OBVIOUS
<1>2. \E x \in T : \A y \in T : ~ (<<y, x>> \in OpToRel(<, Nat))
  BY ONLY <1>1, NatLessThanWellFounded, WFMin
<1>3. PICK x \in T : \A y \in T : ~ (<<y, x>> \in OpToRel(<, Nat))
  BY ONLY <1>2
<1>4. ASSUME NEW y \in T  PROVE x <= y
  <2>1. x \in Nat /\ y \in Nat /\ ~ (<<y, x>> \in OpToRel(<, Nat))
    BY ONLY <1>1, <1>3, <1>4
  <2>. QED  BY ONLY <2>1 DEF OpToRel
<1>. QED  BY ONLY <1>3, <1>4

LEMMA NullIsNoCell == NULL = 0 /\ NULL \notin Cells /\ Cells \subseteq Nat /\ MaxCells \in Nat
BY DEF NULL, Cells

\* One step of the recursion of ChainOf, and a function that obeys it on D.  The
\* equation is stated as a membership: the provers would rewrite with it for ever.
Step(cells, from, c) == IF c = NULL THEN <<>> ELSE <<c>> \o from[cells[c].next]
Obeys(cells, D, from) == from \in {[c \in D |-> Step(cells, from, c)]}

LEMMA ObeysValue ==
    ASSUME NEW cells, NEW D, NEW from, Obeys(cells, D, from), NEW c \in D
    PROVE  from[c] = Step(cells, from, c)
BY DEF Obeys

LEMMA ObeysWhen ==
    ASSUME NEW cells, NEW D, NEW R, NEW from \in [D -> R],
           \A c \in D : from[c] = Step(cells, from, c)
    PROVE  Obeys(cells, D, from)
BY DEF Obeys

\* The cells from the k-th last on, and NULL.
LastCells(k) == (MaxCells - k + 1 .. MaxCells) \cup {NULL}

\* The recursive function of ChainOf exists: it is built from the last cell of
\* the memory down to the first.
LEMMA WalkExtends ==
    ASSUME NEW cells, Ordered(cells), NEW k \in Nat, k # 0, k <= MaxCells,
           NEW f, Obeys(cells, LastCells(k - 1), f)
    PROVE  \E g : Obeys(cells, LastCells(k), g)
<1>. DEFINE d == MaxCells - k + 1
            g == [c \in LastCells(k) |-> IF c = d THEN Step(cells, f, d) ELSE f[c]]
<1>1. /\ d \in Cells /\ d # NULL
      /\ LastCells(k) = LastCells(k - 1) \cup {d} /\ d \notin LastCells(k - 1)
  BY NullIsNoCell DEF Cells, LastCells
<1>2. \A c \in LastCells(k) : c # NULL => /\ cells[c].next \in LastCells(k - 1)
                                          /\ cells[c].next # d
  BY NullIsNoCell DEF Ordered, Cells, LastCells
<1>3. ASSUME NEW c \in LastCells(k - 1)  PROVE f[c] = Step(cells, f, c)
  BY ONLY <1>3, ObeysValue, Obeys(cells, LastCells(k - 1), f)
<1>. HIDE DEF d
<1>4. ASSUME NEW c \in LastCells(k)
      PROVE  g[c] = Step(cells, g, c)
  <2>1. g[c] = IF c = d THEN Step(cells, f, d) ELSE f[c]
    BY <1>4
  <2>2. g[c] = Step(cells, f, c)
    BY <1>1, <1>3, <1>4, <2>1
  <2>3. c # NULL => g[cells[c].next] = f[cells[c].next]
    BY <1>1, <1>2, <1>4
  <2>. HIDE DEF g
  <2>4. Step(cells, f, c) = Step(cells, g, c)
    BY <2>3 DEF Step
  <2>. QED  BY <2>2, <2>4
<1>5. \E R : g \in [LastCells(k) -> R]
  <2>. DEFINE R == {IF c = d THEN Step(cells, f, d) ELSE f[c] : c \in LastCells(k)}
  <2>1. g \in [LastCells(k) -> R]
    OBVIOUS
  <2>. HIDE DEF g, R
  <2>. QED  BY <2>1
<1>. HIDE DEF g
<1>. QED  BY <1>4, <1>5, ObeysWhen

LEMMA WalkExists ==
    ASSUME NEW cells, Ordered(cells)
    PROVE  \E from : Obeys(cells, Cells \cup {NULL}, from)
<1>. DEFINE T == {k \in Nat : k <= MaxCells /\ \A f : ~ Obeys(cells, LastCells(k), f)}
<1>1. \E f : Obeys(cells, LastCells(0), f)
  <2>. DEFINE f == [c \in LastCells(0) |-> <<>>]
  <2>1. LastCells(0) = {NULL}
    BY NullIsNoCell DEF LastCells
  <2>2. \A c \in LastCells(0) : c = NULL
    BY <2>1
  <2>. HIDE DEF f
  <2>3. \A c \in LastCells(0) : Step(cells, f, c) = <<>>
    BY <2>2 DEF Step
  <2>4. f \in [LastCells(0) -> {<<>>}] /\ \A c \in LastCells(0) : f[c] = <<>>
    BY DEF f
  <2>5. \A c \in LastCells(0) : f[c] = Step(cells, f, c)
    BY <2>3, <2>4
  <2>6. Obeys(cells, LastCells(0), f)
    BY ONLY <2>4, <2>5, ObeysWhen
  <2>. HIDE DEF f
  <2>. QED  BY <2>6
<1>2. ASSUME T # {}  PROVE FALSE
  <2>0. T \in SUBSET Nat
    OBVIOUS
  <2>1. PICK k \in T : \A j \in T : k <= j
    BY ONLY <1>2, <2>0, Least
  <2>2. k # 0
    BY <1>1, <2>1
  <2>3. k - 1 \in Nat /\ k - 1 <= MaxCells /\ k - 1 \notin T
    BY <2>1, <2>2, NullIsNoCell
  <2>. QED  BY <2>1, <2>2, <2>3, WalkExtends
<1>3. \E f : Obeys(cells, LastCells(MaxCells), f)
  BY <1>2, NullIsNoCell
<1>4. LastCells(MaxCells) = Cells \cup {NULL}
  BY NullIsNoCell DEF Cells, LastCells
<1>. QED  BY <1>3, <1>4

LEMMA ObeysChoice ==
    ASSUME NEW cells, NEW D, \E f : Obeys(cells, D, f)
    PROVE  Obeys(cells, D, CHOOSE f : Obeys(cells, D, f))
BY Zenon

LEMMA ObeysEquation ==
    ASSUME NEW cells, NEW D
    PROVE  (CHOOSE f : Obeys(cells, D, f)) =
           (CHOOSE f : f = [c \in D |-> IF c = NULL THEN <<>>
                                        ELSE <<c>> \o f[cells[c].next]])
<1>1. \A f : Obeys(cells, D, f) <=>
                (f = [c \in D |-> IF c = NULL THEN <<>> ELSE <<c>> \o f[cells[c].next]])
  BY Zenon DEF Obeys, Step
<1>. QED  BY <1>1, Zenon

LEMMA ChainOfChoice ==
    ASSUME NEW cells, NEW first
    PROVE  ChainOf(cells, first) =
           (CHOOSE f : f = [c \in Cells \cup {NULL} |->
                              IF c = NULL THEN <<>> ELSE <<c>> \o f[cells[c].next]])[first]
BY Zenon DEF ChainOf

LEMMA ChainOfWalk ==
    ASSUME NEW cells, Ordered(cells)
    PROVE  \E walk : /\ Obeys(cells, Cells \cup {NULL}, walk)
                     /\ \A first : ChainOf(cells, first) = walk[first]
<1>1. \A first : ChainOf(cells, first) =
                 (CHOOSE f : Obeys(cells, Cells \cup {NULL}, f))[first]
  BY Zenon, ChainOfChoice, ObeysEquation
<1>2. Obeys(cells, Cells \cup {NULL}, CHOOSE f : Obeys(cells, Cells \cup {NULL}, f))
  BY Zenon, ObeysChoice, WalkExists
<1>. QED  BY <1>1, <1>2, Zenon

\* What ChainOf returns, from NULL and from a cell.
LEMMA ChainOfValue ==
    ASSUME NEW cells, Ordered(cells)
    PROVE  /\ ChainOf(cells, NULL) = <<>>
           /\ \A c \in Cells : ChainOf(cells, c) = <<c>> \o ChainOf(cells, cells[c].next)
<1>1. PICK walk : /\ Obeys(cells, Cells \cup {NULL}, walk)
                  /\ \A first : ChainOf(cells, first) = walk[first]
  BY ChainOfWalk
<1>2. \A c \in Cells \cup {NULL} : walk[c] = Step(cells, walk, c)
  BY <1>1, ObeysValue
<1>. QED  BY <1>1, <1>2, NullIsNoCell DEF Step

\* From every cell the walk visits a chain.
LEMMA WalkIsChain ==
    ASSUME NEW cells, Ordered(cells), NEW first \in Cells \cup {NULL}
    PROVE  IsChain(ChainOf(cells, first), cells, first)
<1>. DEFINE T == {k \in Nat : /\ MaxCells - k + 1 \in Cells
                              /\ ~ IsChain(ChainOf(cells, MaxCells - k + 1), cells,
                                           MaxCells - k + 1)}
<1>3. ChainOf(cells, NULL) = <<>> /\ IsChain(<<>>, cells, NULL)
  BY ChainOfValue DEF IsChain, At
<1>4. ASSUME T # {}  PROVE FALSE
  <2>0. T \in SUBSET Nat
    OBVIOUS
  <2>1. PICK k \in T : \A j \in T : k <= j
    BY ONLY <1>4, <2>0, Least
  <2>. DEFINE c == MaxCells - k + 1
              n == cells[c].next
              s == ChainOf(cells, n)
  <2>2. c \in Cells /\ c # NULL /\ ~ IsChain(ChainOf(cells, c), cells, c)
    BY <2>1, NullIsNoCell
  <2>3. n = NULL \/ (n \in Cells /\ c < n)
    BY ONLY Ordered(cells), <2>2 DEF Ordered
  <2>4. IsChain(s, cells, n)
    <3>1. CASE n = NULL
      BY <3>1, <1>3
    <3>2. CASE n # NULL
      <4>. DEFINE j == MaxCells - n + 1
      <4>1. j \in Nat /\ j < k /\ MaxCells - j + 1 = n
        BY <3>2, <2>1, <2>3, NullIsNoCell DEF Cells
      <4>2. j \notin T
        BY <4>1, <2>1
      <4>. QED  BY <4>1, <4>2, <3>2, <2>3
    <3>. QED  BY <3>1, <3>2
  <2>5. ChainOf(cells, c) = <<c>> \o s
    BY <2>2, ChainOfValue
  <2>. HIDE DEF c, n, s
  <2>6. /\ s \in Seq(Cells) /\ <<c>> \o s \in Seq(Cells)
        /\ Len(<<c>> \o s) = Len(s) + 1
        /\ (<<c>> \o s)[1] = c
        /\ \A i \in 2 .. Len(s) + 1 : (<<c>> \o s)[i] = s[i - 1]
    BY <2>2, <2>4 DEF IsChain
  <2>7. ASSUME NEW i \in DOMAIN (<<c>> \o s)
        PROVE  cells[(<<c>> \o s)[i]].next = At(<<c>> \o s, i + 1)
    <3>1. i \in 1 .. Len(s) + 1
      BY <2>6, <2>7
    <3>2. At(<<c>> \o s, i + 1) = At(s, i)
      BY <2>6, <3>1 DEF At
    <3>3. CASE i = 1
      BY <2>4, <2>6, <3>2, <3>3 DEF IsChain, n
    <3>4. CASE i # 1
      <4>1. i - 1 \in DOMAIN s /\ (i - 1) + 1 = i
        BY <2>6, <3>1, <3>4
      <4>2. cells[s[i - 1]].next = At(s, i)
        BY <2>4, <4>1 DEF IsChain
      <4>. QED  BY <2>6, <3>1, <3>2, <3>4, <4>2
    <3>. QED  BY <3>3, <3>4
  <2>8. IsChain(<<c>> \o s, cells, c)
    <3>1. 1 \in DOMAIN (<<c>> \o s)
      BY <2>6
    <3>2. At(<<c>> \o s, 1) = c
      BY <2>6, <3>1 DEF At
    <3>. QED  BY <2>6, <2>7, <3>2 DEF IsChain
  <2>. QED  BY <2>2, <2>5, <2>8
<1>5. ASSUME NEW c \in Cells  PROVE IsChain(ChainOf(cells, c), cells, c)
  <2>. DEFINE k == MaxCells - c + 1
  <2>1. k \in Nat /\ MaxCells - k + 1 = c
    BY NullIsNoCell DEF Cells
  <2>. QED  BY <1>4, <2>1
<1>. QED  BY <1>3, <1>5

\* A heap has one chain from a cell.
LEMMA ChainUnique ==
    ASSUME NEW cells, NEW first, NEW s, NEW t,
           IsChain(s, cells, first), IsChain(t, cells, first)
    PROVE  s = t
<1>. DEFINE T == {i \in Nat : i # 0 /\ At(s, i) # At(t, i)}
<1>1. s \in Seq(Cells) /\ t \in Seq(Cells) /\ DOMAIN s = 1 .. Len(s) /\ DOMAIN t = 1 .. Len(t)
      /\ Len(s) \in Nat /\ Len(t) \in Nat
  BY DEF IsChain
<1>2. /\ \A i \in DOMAIN s : s[i] \in Cells /\ s[i] # NULL
      /\ \A i \in DOMAIN t : t[i] \in Cells /\ t[i] # NULL
  BY <1>1, NullIsNoCell
<1>3. ASSUME T # {}  PROVE FALSE
  <2>0. T \in SUBSET Nat
    OBVIOUS
  <2>1. PICK i \in T : \A j \in T : i <= j
    BY ONLY <1>3, <2>0, Least
  <2>2. i # 1
    BY <2>1 DEF IsChain
  <2>3. i - 1 \in Nat /\ i - 1 # 0 /\ i - 1 \notin T /\ (i - 1) + 1 = i
    BY <2>1, <2>2
  <2>4. At(s, i - 1) = At(t, i - 1)
    BY <2>3
  <2>5. CASE i - 1 \in DOMAIN s
    <3>1. i - 1 \in DOMAIN t /\ s[i - 1] = t[i - 1]
      BY <2>4, <2>5, <1>2 DEF At
    <3>. QED  BY <3>1, <2>1, <2>3, <2>5 DEF IsChain
  <2>6. CASE i - 1 \notin DOMAIN s
    <3>1. i - 1 \notin DOMAIN t
      BY <2>4, <2>6, <1>2 DEF At
    <3>2. i \notin DOMAIN s /\ i \notin DOMAIN t
      BY <1>1, <2>1, <2>3, <2>6, <3>1
    <3>. QED  BY <2>1, <3>2 DEF At
  <2>. QED  BY <2>5, <2>6
<1>4. \A i \in Nat \ {0} : At(s, i) = At(t, i)
  BY <1>3
<1>5. \A i \in Nat \ {0} : /\ i \in DOMAIN s <=> i \in DOMAIN t
                           /\ i \in DOMAIN s => s[i] = t[i]
  BY <1>2, <1>4 DEF At
<1>6. Len(s) = Len(t)
  <2>1. Len(s) > 0 => Len(s) <= Len(t)
    BY <1>1, <1>5
  <2>2. Len(t) > 0 => Len(t) <= Len(s)
    BY <1>1, <1>5
  <2>3. Len(s) \in Nat /\ Len(t) \in Nat
    BY <1>1
  <2>. QED  BY ONLY <2>1, <2>2, <2>3
<1>. QED  BY <1>1, <1>5, <1>6

\* So a sequence that is a chain is the one the walk visits.
LEMMA ChainOfIs ==
    ASSUME NEW cells, Ordered(cells), NEW first \in Cells \cup {NULL},
           NEW s, IsChain(s, cells, first)
    PROVE  ChainOf(cells, first) = s
BY WalkIsChain, ChainUnique

\* A chain climbs, hence visits no cell twice.
LEMMA ChainClimbs ==
    ASSUME NEW cells, Ordered(cells), NEW first, NEW s, IsChain(s, cells, first)
    PROVE  \A i, j \in DOMAIN s : i < j => s[i] < s[j]
<1>. SUFFICES ASSUME NEW i \in DOMAIN s
              PROVE  \A j \in DOMAIN s : i < j => s[i] < s[j]
  OBVIOUS
<1>. DEFINE T == {j \in Nat : j \in DOMAIN s /\ i < j /\ ~ (s[i] < s[j])}
<1>0. s \in Seq(Cells)
  BY DEF IsChain
<1>1. s \in Seq(Cells) /\ DOMAIN s = 1 .. Len(s) /\ Len(s) \in Nat
      /\ \A j \in DOMAIN s : s[j] \in Cells /\ s[j] \in Nat
  <2>1. \A j \in DOMAIN s : s[j] \in Cells
    BY <1>0
  <2>2. DOMAIN s = 1 .. Len(s) /\ Len(s) \in Nat
    BY ONLY <1>0
  <2>3. \A j \in DOMAIN s : s[j] \in Nat
    BY ONLY <2>1, NullIsNoCell
  <2>. QED  BY <1>0, <2>1, <2>2, <2>3
<1>2. ASSUME NEW j \in DOMAIN s, j + 1 \in DOMAIN s  PROVE s[j] < s[j + 1]
  <2>1. cells[s[j]].next = s[j + 1]
    BY <1>2 DEF IsChain, At
  <2>. QED  BY <1>1, <1>2, <2>1, NullIsNoCell DEF Ordered
<1>3. ASSUME T # {}  PROVE FALSE
  <2>0. T \in SUBSET Nat
    OBVIOUS
  <2>1. PICK j \in T : \A k \in T : j <= k
    BY ONLY <1>3, <2>0, Least
  <2>2. j - 1 \in DOMAIN s /\ j - 1 \in Nat /\ (j - 1) + 1 = j /\ j - 1 \notin T
    BY <1>1, <2>1
  <2>3. s[j - 1] < s[j]
    BY <1>2, <2>1, <2>2
  <2>4. CASE j - 1 = i
    BY <2>1, <2>3, <2>4
  <2>5. CASE j - 1 # i
    <3>1. s[i] < s[j - 1]
      BY <1>1, <2>1, <2>2, <2>5
    <3>. QED  BY <1>1, <2>1, <2>2, <2>3, <3>1
  <2>. QED  BY <2>4, <2>5
<1>. QED  BY <1>1, <1>3

\* Taking an entry out of a list shortens it by one and shifts what follows.
LEMMA RemoveAtProperties ==
    ASSUME NEW S, NEW q \in Seq(S), NEW i \in 1 .. Len(q)
    PROVE  /\ RemoveAt(q, i) \in Seq(S)
           /\ Len(RemoveAt(q, i)) = Len(q) - 1
           /\ \A j \in 1 .. Len(q) - 1 :
                RemoveAt(q, i)[j] = IF j < i THEN q[j] ELSE q[j + 1]
<1>. DEFINE l == SubSeq(q, 1, i-1)
            r == SubSeq(q, i+1, Len(q))
<1>1. /\ l \in Seq(S)
      /\ Len(l) = i - 1
      /\ \A j \in 1 .. i-1 : l[j] = q[j]
  BY SubSeqProperties, ElementOfSeq
<1>2. /\ r \in Seq(S)
      /\ Len(r) = Len(q) - i
      /\ \A j \in 1 .. Len(q) - i : r[j] = q[i + j]
  BY SubSeqProperties, ElementOfSeq
<1>3. RemoveAt(q, i) = l \o r
  BY DEF RemoveAt
<1>. HIDE DEF l, r
<1>4. /\ l \o r \in Seq(S)
      /\ Len(l \o r) = Len(l) + Len(r)
      /\ \A j \in 1 .. Len(l) + Len(r) :
            (l \o r)[j] = IF j <= Len(l) THEN l[j] ELSE r[j - Len(l)]
  BY ONLY <1>1, <1>2, ConcatProperties, Zenon
<1>5. /\ Len(l \o r) = Len(q) - 1
      /\ \A j \in 1 .. Len(q) - 1 : (l \o r)[j] = IF j < i THEN q[j] ELSE q[j + 1]
  BY <1>1, <1>2, <1>4
<1>. QED
  BY <1>3, <1>4, <1>5

LEMMA Places ==
    ASSUME NEW n \in Nat, NEW i \in 1 .. n
    PROVE  /\ i + 1 \in 1 .. n <=> i # n
           /\ n # 0
           /\ i # 1 => i - 1 \in 1 .. n /\ i - 1 # n /\ (i - 1) + 1 = i
OBVIOUS

\* What the proofs below use of a chain.
LEMMA ChainFacts ==
    ASSUME NEW cells, Ordered(cells), NEW first, NEW s, IsChain(s, cells, first)
    PROVE  /\ s \in Seq(Cells) /\ Len(s) \in Nat /\ DOMAIN s = 1 .. Len(s)
           /\ \A i \in 1 .. Len(s) : s[i] \in Cells /\ s[i] # NULL
           /\ \A i, j \in 1 .. Len(s) : s[i] = s[j] => i = j
           /\ first = IF Len(s) = 0 THEN NULL ELSE s[1]
           /\ \A i \in 1 .. Len(s) :
                 cells[s[i]].next = IF i = Len(s) THEN NULL ELSE s[i + 1]
<1>0. s \in Seq(Cells)
  BY DEF IsChain
<1>1. Len(s) \in Nat /\ DOMAIN s = 1 .. Len(s)
  BY ONLY <1>0
<1>2. \A i \in 1 .. Len(s) : s[i] \in Cells
  BY ONLY <1>0
<1>3. \A i \in 1 .. Len(s) : s[i] # NULL /\ s[i] \in Nat
  BY ONLY <1>2, NullIsNoCell
<1>4. \A i, j \in 1 .. Len(s) : s[i] = s[j] => i = j
  <2>1. \A i, j \in 1 .. Len(s) : i < j => s[i] < s[j]
    BY <1>1, ChainClimbs
  <2>. QED  BY ONLY <1>1, <1>3, <2>1
<1>5. first = IF Len(s) = 0 THEN NULL ELSE s[1]
  BY <1>1 DEF IsChain, At
<1>6. ASSUME NEW i \in 1 .. Len(s)
      PROVE  cells[s[i]].next = IF i = Len(s) THEN NULL ELSE s[i + 1]
  <2>1. cells[s[i]].next = At(s, i + 1)
    BY <1>1, <1>6 DEF IsChain
  <2>2. i + 1 \in 1 .. Len(s) <=> i # Len(s)
    BY ONLY <1>1, <1>6, Places
  <2>. QED  BY <1>1, <2>1, <2>2 DEF At
<1>. QED  BY <1>0, <1>1, <1>2, <1>3, <1>4, <1>5, <1>6

\* And what makes one.
LEMMA ChainBy ==
    ASSUME NEW cells, NEW first, NEW s \in Seq(Cells),
           first = IF Len(s) = 0 THEN NULL ELSE s[1],
           \A i \in 1 .. Len(s) : cells[s[i]].next = IF i = Len(s) THEN NULL ELSE s[i + 1]
    PROVE  IsChain(s, cells, first)
<1>1. Len(s) \in Nat /\ DOMAIN s = 1 .. Len(s)
  OBVIOUS
<1>2. ASSUME NEW i \in 1 .. Len(s)  PROVE cells[s[i]].next = At(s, i + 1)
  <2>1. i + 1 \in 1 .. Len(s) <=> i # Len(s)
    BY ONLY <1>1, <1>2, Places
  <2>. QED  BY <1>1, <1>2, <2>1 DEF At
<1>3. At(s, 1) = first
  <2>1. 1 \in 1 .. Len(s) <=> Len(s) # 0
    BY ONLY <1>1
  <2>. QED  BY <1>1, <2>1 DEF At
<1>. QED  BY <1>1, <1>2, <1>3 DEF IsChain

\* A chain of a heap is one of every other whose pointers agree along it.
LEMMA ChainSame ==
    ASSUME NEW cells, NEW first, NEW s, IsChain(s, cells, first), NEW other,
           \A i \in DOMAIN s : other[s[i]].next = cells[s[i]].next
    PROVE  IsChain(s, other, first)
BY DEF IsChain

\* Linking a cell behind the last one.
LEMMA ChainAppend ==
    ASSUME NEW cells, Ordered(cells), NEW first, NEW s, IsChain(s, cells, first),
           NEW other, NEW n \in Cells, other[n].next = NULL,
           \A i \in 1 .. Len(s) :
              other[s[i]].next = IF i = Len(s) THEN n ELSE cells[s[i]].next
    PROVE  IsChain(Append(s, n), other, IF Len(s) = 0 THEN n ELSE first)
<1>1. /\ s \in Seq(Cells) /\ Len(s) \in Nat
      /\ first = IF Len(s) = 0 THEN NULL ELSE s[1]
      /\ \A i \in 1 .. Len(s) : cells[s[i]].next = IF i = Len(s) THEN NULL ELSE s[i + 1]
  BY ChainFacts
<1>. DEFINE t == Append(s, n)
<1>2. /\ t \in Seq(Cells) /\ Len(t) = Len(s) + 1
      /\ \A i \in 1 .. Len(s) : t[i] = s[i]
      /\ t[Len(s) + 1] = n
  BY <1>1
<1>. HIDE DEF t
<1>3. \A i \in 1 .. Len(t) : other[t[i]].next = IF i = Len(t) THEN NULL ELSE t[i + 1]
  BY <1>1, <1>2
<1>4. (IF Len(s) = 0 THEN n ELSE first) = IF Len(t) = 0 THEN NULL ELSE t[1]
  BY <1>1, <1>2
<1>5. IsChain(t, other, IF Len(s) = 0 THEN n ELSE first)
  BY <1>2, <1>3, <1>4, ChainBy
<1>. QED  BY <1>5 DEF t

\* Turning the pointer to the k-th cell to the one behind it.
LEMMA ChainRemove ==
    ASSUME NEW cells, Ordered(cells), NEW first, NEW s, IsChain(s, cells, first),
           NEW other, NEW k \in 1 .. Len(s),
           \A i \in 1 .. Len(s) :
              i # k => other[s[i]].next = IF i = k - 1 THEN cells[s[k]].next
                                          ELSE cells[s[i]].next
    PROVE  IsChain(RemoveAt(s, k), other, IF k = 1 THEN cells[s[1]].next ELSE first)
<1>1. /\ s \in Seq(Cells) /\ Len(s) \in Nat
      /\ first = IF Len(s) = 0 THEN NULL ELSE s[1]
      /\ \A i \in 1 .. Len(s) : cells[s[i]].next = IF i = Len(s) THEN NULL ELSE s[i + 1]
  BY ChainFacts
<1>. DEFINE t == RemoveAt(s, k)
<1>2. /\ t \in Seq(Cells) /\ Len(t) = Len(s) - 1
      /\ \A i \in 1 .. Len(s) - 1 : t[i] = IF i < k THEN s[i] ELSE s[i + 1]
  BY <1>1, RemoveAtProperties
<1>. HIDE DEF t
<1>3. ASSUME NEW i \in 1 .. Len(t)
      PROVE  other[t[i]].next = IF i = Len(t) THEN NULL ELSE t[i + 1]
  <2>1. CASE i < k - 1
    BY <1>1, <1>2, <1>3, <2>1
  <2>2. CASE i = k - 1
    BY <1>1, <1>2, <1>3, <2>2
  <2>3. CASE i > k - 1
    <3>1. i + 1 \in 1 .. Len(s) /\ i + 1 # k /\ i + 1 # k - 1 /\ ~ (i < k)
          /\ i \in 1 .. Len(s) - 1
      BY <1>1, <1>2, <1>3, <2>3
    <3>2. t[i] = s[i + 1]
      BY <1>2, <3>1
    <3>3. other[s[i + 1]].next = cells[s[i + 1]].next
      BY <3>1
    <3>4. cells[s[i + 1]].next = IF i + 1 = Len(s) THEN NULL ELSE s[(i + 1) + 1]
      BY <1>1, <3>1
    <3>5. i + 1 # Len(s) => i + 1 \in 1 .. Len(s) - 1 /\ t[i + 1] = s[(i + 1) + 1]
      BY <1>1, <1>2, <3>1
    <3>. QED  BY <1>1, <1>2, <3>1, <3>2, <3>3, <3>4, <3>5
  <2>. QED  BY <1>1, <1>2, <2>1, <2>2, <2>3
<1>4. (IF k = 1 THEN cells[s[1]].next ELSE first) = IF Len(t) = 0 THEN NULL ELSE t[1]
  BY <1>1, <1>2
<1>5. IsChain(t, other, IF k = 1 THEN cells[s[1]].next ELSE first)
  BY <1>2, <1>3, <1>4, ChainBy
<1>. QED  BY <1>5 DEF t

-----------------------------------------------------------------------------
(* Sound heaps.                                                            *)

LEMMA SoundOrdered ==
    ASSUME NEW cells, NEW first, Sound(cells, first)
    PROVE  Ordered(cells) /\ \A dir \in Directions : first[dir] \in Cells \cup {NULL}
BY DEF Sound, Ordered

\* The chain of a list, all of its cells in use.
LEMMA SoundChain ==
    ASSUME NEW cells, NEW first, Sound(cells, first), NEW dir \in Directions
    PROVE  /\ IsChain(ChainOf(cells, first[dir]), cells, first[dir])
           /\ \A i \in DOMAIN ChainOf(cells, first[dir]) :
                 cells[ChainOf(cells, first[dir])[i]] # Unused
<1>. DEFINE s == ChainOf(cells, first[dir])
<1>1. IsChain(s, cells, first[dir])
  BY SoundOrdered, WalkIsChain
<1>2. /\ Len(s) \in Nat /\ DOMAIN s = 1 .. Len(s)
      /\ \A i \in 1 .. Len(s) : s[i] \in Cells /\ s[i] # NULL
      /\ first[dir] = IF Len(s) = 0 THEN NULL ELSE s[1]
      /\ \A i \in 1 .. Len(s) : cells[s[i]].next = IF i = Len(s) THEN NULL ELSE s[i + 1]
  BY <1>1, SoundOrdered, ChainFacts
<1>. HIDE DEF s
<1>3. ASSUME NEW i \in 1 .. Len(s)  PROVE cells[s[i]] # Unused
  <2>1. CASE i = 1
    <3>1. first[dir] = s[i] /\ s[i] # NULL
      BY ONLY <1>2, <1>3, <2>1, Places
    <3>. QED  BY <3>1 DEF Sound
  <2>2. CASE i # 1
    <3>1. i - 1 \in 1 .. Len(s) /\ i - 1 # Len(s) /\ (i - 1) + 1 = i
      BY ONLY <1>2, <1>3, <2>2, Places
    <3>2. cells[s[i - 1]].next = s[i] /\ s[i] # NULL /\ s[i - 1] \in Cells
      BY ONLY <1>2, <1>3, <3>1
    <3>. QED  BY <3>2 DEF Sound
  <2>. QED  BY <2>1, <2>2
<1>. QED  BY <1>1, <1>2, <1>3 DEF s

\* A new cell, linked behind one in use or put at the head of a list.
LEMMA SoundAppend ==
    ASSUME NEW cells, NEW first, Sound(cells, first),
           NEW other, NEW n \in Cells, cells[n] = Unused, NEW tail \in Cells \cup {NULL},
           tail < n, NEW dir \in Directions, NEW heads,
           tail = NULL => \A e \in Directions : heads[e] = IF e = dir THEN n ELSE first[e],
           tail # NULL => \A e \in Directions : heads[e] = first[e],
           other[n] # Unused, other[n].next = NULL,
           \A c \in Cells : c # n =>
              /\ other[c] = Unused <=> cells[c] = Unused
              /\ other[c].next = IF c = tail THEN n ELSE cells[c].next
    PROVE  Sound(other, heads)
<1>0. n # NULL /\ NULL = 0 /\ tail \in Nat /\ n \in Nat
      /\ \A c \in Cells : c \in Nat /\ c # NULL
  BY NullIsNoCell
<1>1. ASSUME NEW c \in Cells  PROVE cells[c].next # n
  BY <1>0 DEF Sound
<1>2. ASSUME NEW e \in Directions  PROVE first[e] # n
  BY <1>0 DEF Sound
<1>3. ASSUME NEW c \in Cells, other[c].next # NULL
      PROVE  /\ other[c].next \in Cells /\ c < other[c].next
             /\ other[other[c].next] # Unused
  <2>1. c # n
    BY <1>3
  <2>2. CASE c = tail
    BY <1>0, <2>1, <2>2
  <2>3. CASE c # tail
    <3>1. other[c].next = cells[c].next /\ cells[c].next # NULL /\ cells[c].next # n
      BY <1>1, <1>3, <2>1, <2>3
    <3>2. cells[c].next \in Cells /\ c < cells[c].next /\ cells[cells[c].next] # Unused
      BY <1>3, <3>1 DEF Sound
    <3>. QED  BY <3>1, <3>2
  <2>. QED  BY <2>2, <2>3
<1>4. ASSUME NEW c \in Cells, NEW d \in Cells, other[c].next = other[d].next,
             other[c].next # NULL
      PROVE  c = d
  <2>1. c # n /\ d # n
    BY <1>4
  <2>2. CASE c = tail
    <3>1. other[d].next = n
      BY <1>4, <2>1, <2>2
    <3>. QED  BY <1>1, <2>1, <2>2, <3>1
  <2>3. CASE d = tail
    <3>1. other[c].next = n
      BY <1>4, <2>1, <2>3
    <3>. QED  BY <1>1, <2>1, <2>3, <3>1
  <2>4. CASE c # tail /\ d # tail
    <3>1. cells[c].next = cells[d].next /\ cells[c].next # NULL
      BY <1>4, <2>1, <2>4
    <3>. QED  BY <3>1 DEF Sound
  <2>. QED  BY <2>2, <2>3, <2>4
<1>5. ASSUME NEW e \in Directions, heads[e] # NULL
      PROVE  /\ heads[e] \in Cells /\ other[heads[e]] # Unused
             /\ \A c \in Cells : other[c].next # heads[e]
  <2>1. CASE heads[e] = first[e]
    <3>1. /\ first[e] # NULL /\ first[e] # n
          /\ first[e] \in Cells /\ cells[first[e]] # Unused
          /\ \A c \in Cells : cells[c].next # first[e]
      BY <1>2, <1>5, <2>1 DEF Sound
    <3>. QED  BY <2>1, <3>1
  <2>2. CASE heads[e] # first[e]
    <3>1. heads[e] = n /\ tail = NULL
      BY <2>2
    <3>2. \A c \in Cells : c # n => other[c].next = cells[c].next
      BY <1>0, <3>1
    <3>. QED  BY <1>0, <1>1, <3>1, <3>2
  <2>. QED  BY <2>1, <2>2
<1>6. heads["in"] = heads["out"] => heads["in"] = NULL
  BY <1>2 DEF Sound, Directions
<1>7. /\ \A c \in Cells : \/ other[c].next = NULL
                          \/ /\ other[c].next \in Cells /\ c < other[c].next
                             /\ other[other[c].next] # Unused
      /\ \A c, d \in Cells : other[c].next = other[d].next => c = d \/ other[c].next = NULL
  BY <1>3, <1>4
<1>. QED  BY <1>5, <1>6, <1>7 DEF Sound

\* A cell freed, that no pointer leads to but that of the cell before it, or
\* that is the head of a list.
LEMMA SoundFree ==
    ASSUME NEW cells, NEW first, Sound(cells, first),
           NEW other, NEW cell \in Cells, NEW before \in Cells \cup {NULL},
           NEW dir \in Directions, NEW heads,
           before = NULL => /\ first[dir] = cell
                            /\ \A e \in Directions :
                                  heads[e] = IF e = dir THEN cells[cell].next ELSE first[e],
           before # NULL => /\ before < cell
                            /\ cells[before] # Unused
                            /\ \A c \in Cells : cells[c].next = cell => c = before
                            /\ \A e \in Directions : first[e] # cell /\ heads[e] = first[e],
           other[cell] = Unused,
           \A c \in Cells : c # cell =>
              /\ other[c] = Unused <=> cells[c] = Unused
              /\ other[c].next = IF c = before THEN cells[cell].next ELSE cells[c].next
    PROVE  Sound(other, heads)
<1>0. other[cell].next = NULL
  BY DEF Unused
<1>1. ASSUME NEW c \in Cells, c # before  PROVE cells[c].next # cell
  BY <1>1, NullIsNoCell DEF Sound
<1>2. /\ cells[cell].next = NULL \/ (cells[cell].next \in Cells /\ cell < cells[cell].next
                                     /\ cells[cells[cell].next] # Unused)
      /\ \A c \in Cells : c # NULL /\ c \in Nat
  BY NullIsNoCell DEF Sound
<1>3. ASSUME NEW c \in Cells, other[c].next # NULL
      PROVE  /\ other[c].next \in Cells /\ c < other[c].next
             /\ other[other[c].next] # Unused
  <2>1. c # cell
    BY <1>0, <1>3
  <2>2. CASE c = before
    <3>1. other[c].next = cells[cell].next /\ before < cell /\ cells[cell].next # NULL
      BY <1>2, <1>3, <2>1, <2>2
    <3>2. cells[cell].next \in Cells /\ cell < cells[cell].next
          /\ cells[cells[cell].next] # Unused
      BY <1>2, <3>1
    <3>3. c < cells[cell].next /\ cells[cell].next # cell
      BY <1>2, <2>2, <3>1, <3>2
    <3>. QED  BY <3>1, <3>2, <3>3
  <2>3. CASE c # before
    <3>1. other[c].next = cells[c].next /\ cells[c].next # NULL /\ cells[c].next # cell
      BY <1>1, <1>3, <2>1, <2>3
    <3>2. cells[c].next \in Cells /\ c < cells[c].next /\ cells[cells[c].next] # Unused
      BY <1>3, <3>1 DEF Sound
    <3>. QED  BY <3>1, <3>2
  <2>. QED  BY <2>2, <2>3
<1>4. ASSUME NEW c \in Cells, NEW d \in Cells, other[c].next = other[d].next,
             other[c].next # NULL
      PROVE  c = d
  <2>0. \A x, y \in Cells : cells[x].next = cells[y].next => x = y \/ cells[x].next = NULL
    BY DEF Sound
  <2>1. c # cell /\ d # cell
    BY <1>0, <1>4
  <2>2. CASE c = before /\ d # before
    <3>1. cells[d].next = cells[cell].next /\ cells[d].next # NULL
      BY <1>4, <2>1, <2>2
    <3>. QED  BY <2>0, <2>1, <3>1
  <2>3. CASE c # before /\ d = before
    <3>1. cells[c].next = cells[cell].next /\ cells[c].next # NULL
      BY <1>4, <2>1, <2>3
    <3>. QED  BY <2>0, <2>1, <3>1
  <2>4. CASE c # before /\ d # before
    <3>1. cells[c].next = cells[d].next /\ cells[c].next # NULL
      BY <1>4, <2>1, <2>4
    <3>. QED  BY <2>0, <3>1
  <2>. QED  BY <2>2, <2>3, <2>4
<1>5. ASSUME NEW e \in Directions, heads[e] # NULL
      PROVE  /\ heads[e] \in Cells /\ other[heads[e]] # Unused
             /\ \A c \in Cells : other[c].next # heads[e]
  <2>1. CASE heads[e] = first[e]
    <3>1. first[e] # cell
      <4>1. before = NULL => e # dir
        BY <1>2, <2>1, <1>5
      <4>. QED  BY <1>5, <2>1, <4>1 DEF Sound, Directions
    <3>2. /\ first[e] \in Cells /\ cells[first[e]] # Unused
          /\ \A c \in Cells : cells[c].next # first[e]
      BY <1>5, <2>1 DEF Sound
    <3>. QED  BY <1>0, <1>5, <2>1, <3>1, <3>2
  <2>2. CASE heads[e] # first[e]
    <3>1. before = NULL /\ e = dir /\ heads[e] = cells[cell].next
      BY <2>2
    <3>2. /\ cells[cell].next \in Cells /\ cells[cell].next # cell
          /\ cells[cells[cell].next] # Unused
      BY <1>2, <1>5, <3>1
    <3>3. ASSUME NEW c \in Cells, other[c].next = heads[e]  PROVE FALSE
      <4>1. c # cell /\ c # before
        BY <1>0, <1>2, <1>5, <3>1, <3>3
      <4>2. cells[c].next = cells[cell].next /\ cells[c].next # NULL
        BY <1>5, <3>1, <3>3, <4>1
      <4>. QED  BY <4>1, <4>2 DEF Sound
    <3>. QED  BY <3>1, <3>2, <3>3
  <2>. QED  BY <2>1, <2>2
<1>6. heads["in"] = heads["out"] => heads["in"] = NULL
  BY <1>0, <1>1, NullIsNoCell DEF Sound, Directions
<1>7. /\ \A c \in Cells : \/ other[c].next = NULL
                          \/ /\ other[c].next \in Cells /\ c < other[c].next
                             /\ other[other[c].next] # Unused
      /\ \A c, d \in Cells : other[c].next = other[d].next => c = d \/ other[c].next = NULL
  BY <1>3, <1>4
<1>. QED  BY <1>5, <1>6, <1>7 DEF Sound

-----------------------------------------------------------------------------
(* Cells and the steps on them.                                            *)

\* Writing a field of a cell.
LEMMA CellFields ==
    ASSUME NEW r \in CellType
    PROVE  /\ r # Unused
           /\ \A n \in 0 .. MaxCells :
                 LET t == [r EXCEPT !.next = n]
                 IN  /\ t \in CellType /\ t.next = n
                     /\ t.mid = r.mid /\ t.qos = r.qos /\ t.state = r.state
           /\ \A st \in OutStates \cup {"wait_for_pubrel"} :
                 LET t == [r EXCEPT !.state = st]
                 IN  /\ t \in CellType /\ t.state = st
                     /\ t.mid = r.mid /\ t.qos = r.qos /\ t.next = r.next
BY DEF CellType, Unused, OutStates

\* A new cell, and one that is not in use.
LEMMA CellValues ==
    ASSUME NEW mid \in Nat, NEW qos \in {1, 2},
           NEW state \in OutStates \cup {"wait_for_pubrel"}
    PROVE  /\ Cell(mid, qos, state) \in CellType
           /\ Cell(mid, qos, state).mid = mid /\ Cell(mid, qos, state).qos = qos
           /\ Cell(mid, qos, state).state = state /\ Cell(mid, qos, state).next = NULL
           /\ Unused.next = NULL /\ Unused.state = "freed" /\ Unused \notin CellType
BY NullIsNoCell DEF Cell, CellType, Unused, OutStates

LEMMA FirstWaits == \A qos : FirstWait(qos) \in OutStates \ {"invalid"}
BY DEF FirstWait, OutStates

\* The heap is typed: a cell is unused, or of CellType.
LEMMA TypedCells ==
    ASSUME Typed, NEW c \in Cells
    PROVE  /\ Live(c) => heap[c] \in CellType /\ c <= allocated
           /\ heap[c].next \in 0 .. allocated
           /\ ~ Live(c) => heap[c].next = NULL
BY NullIsNoCell DEF Typed, CellType, Live, Unused

\* The next cell to hand out.
LEMMA NewCells ==
    ASSUME Typed, NewCell \in Cells
    PROVE  /\ NewCell \in Nat /\ allocated < NewCell /\ NewCell <= MaxCells
           /\ ~ Live(NewCell) /\ NewCell # NULL
           /\ \A c \in 0 .. allocated : c < NewCell
BY TypedCells, NullIsNoCell DEF Typed, NewCell, Cells

\* _mosquitto_message_queue, seen from the cells.
LEMMA QueueStep ==
    ASSUME Typed, NEW dir \in Directions, NEW new \in CellType, new.next = NULL,
           Queue(dir, new)
    PROVE  /\ NewCell \in Cells
           /\ heap' \in [Cells -> CellType \cup {Unused}]
           /\ heap'[NewCell] = new
           /\ \A c \in Cells : c # NewCell =>
                 /\ heap'[c] = Unused <=> heap[c] = Unused
                 /\ heap'[c].mid = heap[c].mid
                 /\ heap'[c].qos = heap[c].qos
                 /\ heap'[c].state = heap[c].state
                 /\ heap'[c].next = IF c = last[dir] /\ Live(c) THEN NewCell
                                    ELSE heap[c].next
           /\ \/ /\ pc' = "crashed" /\ head' = head
                 /\ last[dir] # NULL /\ ~ Live(last[dir])
              \/ /\ pc' = pc
                 /\ last[dir] # NULL => Live(last[dir]) /\ head' = head
                 /\ last[dir] = NULL => head' = [head EXCEPT ![dir] = NewCell]
<1>1. NewCell \in Cells /\ ~ Live(NewCell) /\ NewCell \in 0 .. MaxCells
  BY NewCells DEF Queue
<1>2. last[dir] \in Cells \cup {NULL} /\ heap \in [Cells -> CellType \cup {Unused}]
  BY NullIsNoCell DEF Typed, Cells
<1>. DEFINE added == [heap EXCEPT ![NewCell] = new]
<1>3. /\ added \in [Cells -> CellType \cup {Unused}]
      /\ added[NewCell] = new
      /\ \A c \in Cells : c # NewCell => added[c] = heap[c]
  BY <1>1, <1>2
<1>4. CASE heap' = added /\ (last[dir] # NULL => ~ Live(last[dir]))
  <2>1. \A c \in Cells : c = last[dir] => ~ Live(c)
    BY <1>2, <1>4, NullIsNoCell
  <2>2. \/ /\ pc' = "crashed" /\ head' = head
           /\ last[dir] # NULL /\ ~ Live(last[dir])
        \/ /\ pc' = pc /\ last[dir] = NULL
           /\ head' = [head EXCEPT ![dir] = NewCell]
    BY <1>4 DEF Queue
  <2>3. \A c \in Cells : c # NewCell => heap'[c] = heap[c]
    BY <1>3, <1>4
  <2>4. heap' \in [Cells -> CellType \cup {Unused}] /\ heap'[NewCell] = new
    BY <1>3, <1>4
  <2>. HIDE DEF added
  <2>. QED  BY <1>1, <2>1, <2>2, <2>3, <2>4
<1>5. CASE /\ last[dir] # NULL /\ Live(last[dir])
           /\ heap' = [added EXCEPT ![last[dir]].next = NewCell]
           /\ UNCHANGED <<head, pc>>
  <2>. DEFINE t == last[dir]
  <2>1. t \in Cells /\ heap[t] \in CellType /\ t # NewCell
    BY <1>1, <1>2, <1>5, TypedCells
  <2>2. heap' = [added EXCEPT ![t] = [heap[t] EXCEPT !.next = NewCell]]
    BY <1>3, <1>5, <2>1
  <2>. HIDE DEF added, t
  <2>3. /\ heap' \in [Cells -> CellType \cup {Unused}]
        /\ heap'[t] = [heap[t] EXCEPT !.next = NewCell]
        /\ \A c \in Cells : c # t => heap'[c] = added[c]
    BY <1>1, <1>3, <2>1, <2>2, CellFields
  <2>4. /\ heap'[t] # Unused /\ heap[t] # Unused /\ heap'[t].next = NewCell
        /\ heap'[t].mid = heap[t].mid /\ heap'[t].qos = heap[t].qos
        /\ heap'[t].state = heap[t].state
    BY <1>1, <2>1, <2>3, CellFields
  <2>. QED  BY <1>1, <1>3, <1>5, <2>1, <2>3, <2>4 DEF Live, t
<1>. QED  BY <1>4, <1>5 DEF Queue

\* The heap after a walk that writes states only.
SameLinks(rest) ==
    /\ rest \in [Cells -> CellType \cup {Unused}]
    /\ \A c \in Cells : /\ rest[c] = Unused <=> heap[c] = Unused
                        /\ rest[c].next = heap[c].next
                        /\ rest[c].mid = heap[c].mid
                        /\ rest[c].qos = heap[c].qos

\* The lists of a heap a thread may work on.
LEMMA Here ==
    ASSUME Typed, Sound(heap, head), NEW dir \in Directions
    PROVE  /\ Ordered(heap)
           /\ IsChain(Chain(dir), heap, head[dir])
           /\ Chain(dir) \in Seq(Cells) /\ Len(Chain(dir)) \in Nat
           /\ DOMAIN Chain(dir) = 1 .. Len(Chain(dir))
           /\ \A i \in 1 .. Len(Chain(dir)) :
                 /\ Chain(dir)[i] \in Cells /\ Chain(dir)[i] # NULL /\ Live(Chain(dir)[i])
                 /\ heap[Chain(dir)[i]] \in CellType
                 /\ heap[Chain(dir)[i]].next =
                       IF i = Len(Chain(dir)) THEN NULL ELSE Chain(dir)[i + 1]
           /\ \A i, j \in 1 .. Len(Chain(dir)) : Chain(dir)[i] = Chain(dir)[j] => i = j
           /\ head[dir] = IF Len(Chain(dir)) = 0 THEN NULL ELSE Chain(dir)[1]
<1>1. /\ Ordered(heap) /\ IsChain(Chain(dir), heap, head[dir])
      /\ \A i \in DOMAIN Chain(dir) : Live(Chain(dir)[i])
  BY SoundOrdered, SoundChain DEF Chain, Live
<1>. DEFINE s == Chain(dir)
<1>. HIDE DEF s
<1>2. /\ s \in Seq(Cells) /\ Len(s) \in Nat /\ DOMAIN s = 1 .. Len(s)
      /\ \A i \in 1 .. Len(s) : s[i] \in Cells /\ s[i] # NULL
      /\ \A i, j \in 1 .. Len(s) : s[i] = s[j] => i = j
      /\ head[dir] = IF Len(s) = 0 THEN NULL ELSE s[1]
      /\ \A i \in 1 .. Len(s) :
            heap[s[i]].next = IF i = Len(s) THEN NULL ELSE s[i + 1]
  BY <1>1, ChainFacts DEF s
<1>3. \A i \in 1 .. Len(s) : Live(s[i]) /\ heap[s[i]] \in CellType
  BY <1>1, <1>2, TypedCells DEF s
<1>. QED  BY <1>1, <1>2, <1>3 DEF s

\* _mosquitto_message_remove, seen from the cells.
LEMMA UnlinkStep ==
    ASSUME Typed, Sound(heap, head), NEW dir \in Directions,
           NEW k \in 1 .. Len(Chain(dir)), NEW rest, SameLinks(rest), Unlink(dir, k, rest)
    PROVE  LET cell == Chain(dir)[k]
               before == IF k = 1 THEN NULL ELSE Chain(dir)[k - 1]
           IN  /\ heap' \in [Cells -> CellType \cup {Unused}]
               /\ heap'[cell] = Unused
               /\ \A c \in Cells : c # cell =>
                     /\ heap'[c] = Unused <=> heap[c] = Unused
                     /\ heap'[c].mid = heap[c].mid
                     /\ heap'[c].qos = heap[c].qos
                     /\ heap'[c].state = rest[c].state
                     /\ heap'[c].next = IF c = before THEN heap[cell].next ELSE heap[c].next
               /\ head' = IF k = 1 THEN [head EXCEPT ![dir] = heap[cell].next] ELSE head
               /\ Sound(heap', head')
<1>. DEFINE cell == Chain(dir)[k]
            before == IF k = 1 THEN NULL ELSE Chain(dir)[k - 1]
            next == heap[cell].next
            cleaned == [rest EXCEPT ![cell] = Unused]
<1>1. /\ cell \in Cells /\ heap[cell] \in CellType /\ next \in 0 .. MaxCells /\ cell # NULL
      /\ k = 1 => before = NULL /\ head[dir] = cell
      /\ k # 1 => /\ before \in Cells /\ heap[before] \in CellType /\ before # cell
                  /\ Live(before) /\ heap[before].next = cell
      /\ before \in Cells \cup {NULL}
  <2>1. k # 1 => k - 1 \in 1 .. Len(Chain(dir)) /\ k - 1 # Len(Chain(dir)) /\ k - 1 # k
                 /\ (k - 1) + 1 = k
    BY Here, Places
  <2>2. Len(Chain(dir)) # 0
    BY Here, Places
  <2>3. next \in 0 .. MaxCells
    BY Here DEF CellType
  <2>. QED  BY <2>1, <2>2, <2>3, Here
<1>2. /\ cleaned \in [Cells -> CellType \cup {Unused}]
      /\ cleaned[cell] = Unused
      /\ \A c \in Cells : c # cell => cleaned[c] = rest[c]
  BY <1>1 DEF SameLinks
<1>3. /\ heap' = IF k = 1 THEN cleaned ELSE [cleaned EXCEPT ![before].next = next]
      /\ head' = IF k = 1 THEN [head EXCEPT ![dir] = next] ELSE head
  BY DEF Unlink
<1>. HIDE DEF cell, before, next, cleaned
<1>4. k # 1 => rest[before] \in CellType
  BY <1>1 DEF SameLinks, Live
<1>5. k # 1 => heap' = [cleaned EXCEPT ![before] = [rest[before] EXCEPT !.next = next]]
  BY <1>1, <1>2, <1>3
<1>6. /\ heap' \in [Cells -> CellType \cup {Unused}]
      /\ heap'[cell] = Unused
      /\ \A c \in Cells : c # cell /\ c # before => heap'[c] = rest[c]
      /\ k # 1 => heap'[before] = [rest[before] EXCEPT !.next = next]
  <2>1. CASE k = 1
    BY <1>2, <1>3, <2>1
  <2>2. CASE k # 1
    BY <1>1, <1>2, <1>4, <1>5, <2>2, CellFields
  <2>. QED  BY <2>1, <2>2
<1>7. k # 1 => /\ heap'[before] # Unused /\ heap[before] # Unused
               /\ heap'[before].next = next
               /\ heap'[before].mid = heap[before].mid
               /\ heap'[before].qos = heap[before].qos
               /\ heap'[before].state = rest[before].state
  <2>. SUFFICES ASSUME k # 1
                PROVE  /\ heap'[before] # Unused /\ heap[before] # Unused
                       /\ heap'[before].next = next
                       /\ heap'[before].mid = heap[before].mid
                       /\ heap'[before].qos = heap[before].qos
                       /\ heap'[before].state = rest[before].state
    OBVIOUS
  <2>. DEFINE t == [rest[before] EXCEPT !.next = next]
  <2>1. rest[before] \in CellType /\ next \in 0 .. MaxCells /\ heap'[before] = t
    BY <1>1, <1>4, <1>6
  <2>2. /\ t # Unused /\ t.next = next /\ t.mid = rest[before].mid
        /\ t.qos = rest[before].qos /\ t.state = rest[before].state
    BY ONLY <2>1, CellFields
  <2>. HIDE DEF t
  <2>. QED  BY <1>1, <2>1, <2>2 DEF SameLinks, Live
<1>8. ASSUME NEW c \in Cells, c # cell
      PROVE  /\ heap'[c] = Unused <=> heap[c] = Unused
             /\ heap'[c].mid = heap[c].mid
             /\ heap'[c].qos = heap[c].qos
             /\ heap'[c].state = rest[c].state
             /\ heap'[c].next = IF c = before THEN next ELSE heap[c].next
  <2>1. CASE c = before
    BY <1>1, <1>7, <1>8, <2>1, NullIsNoCell
  <2>2. CASE c # before
    BY <1>6, <1>8, <2>2 DEF SameLinks
  <2>. QED  BY <2>1, <2>2
<1>9. Sound(heap', head')
  <2>1. k # 1 => /\ before < cell /\ before # NULL
                 /\ \A c \in Cells : heap[c].next = cell => c = before
                 /\ \A e \in Directions : head[e] # cell
    BY <1>1, NullIsNoCell DEF Sound, Live
  <2>2. head \in [Directions -> 0 .. allocated]
    BY DEF Typed
  <2>3. k = 1 => \A e \in Directions : head'[e] = IF e = dir THEN next ELSE head[e]
    BY <1>3, <2>2
  <2>4. k # 1 => head' = head
    BY <1>3
  <2>5. before = NULL <=> k = 1
    BY <1>1, NullIsNoCell
  <2>. QED
    BY <1>1, <1>6, <1>7, <1>8, <2>1, <2>3, <2>4, <2>5, SoundFree DEF next
<1>. QED  BY <1>3, <1>6, <1>8, <1>9 DEF cell, before, next

-----------------------------------------------------------------------------
(* The messages on a list.                                                 *)

MessageType == [mid : Nat, qos : {1, 2}, state : OutStates \cup {"wait_for_pubrel"}]

Reads(q, cells, s) ==
    /\ DOMAIN q = 1 .. Len(s) /\ Len(q) = Len(s) /\ Len(s) \in Nat
    /\ \A i \in 1 .. Len(s) :
          /\ q[i] = [mid |-> cells[s[i]].mid, qos |-> cells[s[i]].qos,
                     state |-> cells[s[i]].state]
          /\ q[i].mid = cells[s[i]].mid /\ q[i].qos = cells[s[i]].qos
          /\ q[i].state = cells[s[i]].state

LEMMA MessagesAtFacts ==
    ASSUME NEW cells, NEW s \in Seq(Cells)
    PROVE  /\ Reads(MessagesAt(cells, s), cells, s)
           /\ (\A i \in 1 .. Len(s) : cells[s[i]] \in CellType) =>
                 MessagesAt(cells, s) \in Seq(MessageType)
<1>. DEFINE q == MessagesAt(cells, s)
            m(i) == [mid |-> cells[s[i]].mid, qos |-> cells[s[i]].qos,
                     state |-> cells[s[i]].state]
<1>1. q = [i \in 1 .. Len(s) |-> m(i)] /\ Len(s) \in Nat
  BY DEF MessagesAt
<1>2. \A i \in 1 .. Len(s) : cells[s[i]] \in CellType => m(i) \in MessageType
  BY DEF CellType, MessageType
<1>3. \A i \in 1 .. Len(s) : /\ m(i).mid = cells[s[i]].mid /\ m(i).qos = cells[s[i]].qos
                             /\ m(i).state = cells[s[i]].state
  OBVIOUS
<1>. HIDE DEF m
<1>4. DOMAIN q = 1 .. Len(s) /\ Len(q) = Len(s) /\ \A i \in 1 .. Len(s) : q[i] = m(i)
  BY <1>1
<1>5. (\A i \in 1 .. Len(s) : cells[s[i]] \in CellType) => q \in Seq(MessageType)
  BY <1>1, <1>2
<1>. HIDE DEF q
<1>6. \A i \in 1 .. Len(s) : /\ q[i].mid = cells[s[i]].mid /\ q[i].qos = cells[s[i]].qos
                             /\ q[i].state = cells[s[i]].state
  BY <1>3, <1>4
<1>. QED  BY <1>1, <1>4, <1>5, <1>6 DEF q, m, Reads

\* The messages of the list a thread may work on.
LEMMA ContentsFacts ==
    ASSUME Typed, Sound(heap, head), NEW dir \in Directions
    PROVE  LET q == Contents(dir)
               s == Chain(dir)
           IN  /\ q \in Seq(MessageType) /\ DOMAIN q = 1 .. Len(s) /\ Len(q) = Len(s)
               /\ \A i \in 1 .. Len(s) :
                     /\ q[i].mid = heap[s[i]].mid /\ q[i].qos = heap[s[i]].qos
                     /\ q[i].state = heap[s[i]].state
<1>. DEFINE s == Chain(dir)
            q == MessagesAt(heap, s)
<1>1. s \in Seq(Cells) /\ \A i \in 1 .. Len(s) : heap[s[i]] \in CellType
  BY Here
<1>2. /\ q \in Seq(MessageType) /\ DOMAIN q = 1 .. Len(s) /\ Len(q) = Len(s)
      /\ \A i \in 1 .. Len(s) :
            /\ q[i].mid = heap[s[i]].mid /\ q[i].qos = heap[s[i]].qos
            /\ q[i].state = heap[s[i]].state
  <2>1. /\ Reads(q, heap, s)
        /\ (\A i \in 1 .. Len(s) : heap[s[i]] \in CellType) => q \in Seq(MessageType)
    BY ONLY <1>1, MessagesAtFacts
  <2>. HIDE DEF q, s
  <2>. QED  BY ONLY <1>1, <2>1 DEF Reads
<1>. QED  BY <1>2 DEF Contents

\* Removing an entry and reading the messages commute.
LEMMA RemoveMessage ==
    ASSUME NEW cells, NEW s \in Seq(Cells), NEW k \in 1 .. Len(s),
           \A i \in 1 .. Len(s) : cells[s[i]] \in CellType
    PROVE  RemoveAt(MessagesAt(cells, s), k) = MessagesAt(cells, RemoveAt(s, k))
<1>. DEFINE q == MessagesAt(cells, s)
            m(c) == [mid |-> cells[c].mid, qos |-> cells[c].qos, state |-> cells[c].state]
            l == RemoveAt(q, k)
            r == RemoveAt(s, k)
            t == MessagesAt(cells, r)
<1>0. q \in Seq(MessageType) /\ Reads(q, cells, s)
  BY MessagesAtFacts
<1>. HIDE DEF q
<1>1. q \in Seq(MessageType) /\ Len(q) = Len(s) /\ \A i \in 1 .. Len(s) : q[i] = m(s[i])
  BY <1>0 DEF Reads
<1>2. /\ r \in Seq(Cells) /\ Len(r) = Len(s) - 1
      /\ \A j \in 1 .. Len(s) - 1 : r[j] = IF j < k THEN s[j] ELSE s[j + 1]
  BY RemoveAtProperties
<1>. HIDE DEF r
<1>3. /\ l \in Seq(MessageType) /\ Len(l) = Len(s) - 1
      /\ \A j \in 1 .. Len(s) - 1 : l[j] = IF j < k THEN q[j] ELSE q[j + 1]
  <2>1. k \in 1 .. Len(q)
    BY <1>1
  <2>. QED  BY ONLY <1>1, <2>1, RemoveAtProperties
<1>4. t \in Seq(MessageType) /\ Len(t) = Len(s) - 1 /\ \A j \in 1 .. Len(s) - 1 : t[j] = m(r[j])
  <2>1. \A j \in 1 .. Len(r) : cells[r[j]] \in CellType
    BY <1>2
  <2>. QED  BY <1>2, <2>1, MessagesAtFacts DEF Reads
<1>. HIDE DEF l, t, m
<1>5. ASSUME NEW j \in 1 .. Len(s) - 1  PROVE l[j] = t[j]
  <2>1. j \in 1 .. Len(s) /\ j + 1 \in 1 .. Len(s)
    OBVIOUS
  <2>2. q[j] = m(s[j]) /\ q[j + 1] = m(s[j + 1])
    BY <1>1, <2>1
  <2>3. r[j] = IF j < k THEN s[j] ELSE s[j + 1]
    BY <1>2
  <2>4. l[j] = IF j < k THEN q[j] ELSE q[j + 1]
    BY <1>3
  <2>5. t[j] = m(r[j])
    BY <1>4
  <2>. QED  BY ONLY <2>2, <2>3, <2>4, <2>5
<1>6. l = t
  BY ONLY <1>3, <1>4, <1>5, Len(s) - 1 \in Int, SeqEqual
<1>. QED  BY <1>6 DEF l, q, t, r

\* The list search finds the first entry with a mid the list contains.
LEMMA PositionProperties ==
    ASSUME NEW q, NEW n \in Nat, DOMAIN q = 1 .. n, NEW mid \in MidsOf(q)
    PROVE  Position(q, mid) \in 1 .. n /\ q[Position(q, mid)].mid = mid
<1>. DEFINE T == {i \in Nat : i \in 1 .. n /\ q[i].mid = mid}
<1>1. T # {} /\ T \in SUBSET Nat
  BY DEF MidsOf
<1>2. PICK i \in T : \A j \in T : i <= j
  BY ONLY <1>1, Least
<1>3. i \in DOMAIN q /\ q[i].mid = mid /\ \A j \in 1 .. i - 1 : q[j].mid # mid
  BY <1>2
<1>. QED  BY <1>3 DEF Position

\* The messages a walk starts are held back.
LEMMA StartedFacts ==
    ASSUME NEW k, NEW S \in Started(k)
    PROVE  S \subseteq HeldBack(RemoveAt(Contents("out"), k))
BY DEF Started, FirstHeldBack, StartedAll

-----------------------------------------------------------------------------
(* The pointers stay in order, crossed or not: one lemma a kind of step.   *)

Base == Typed /\ Pointers /\ Walking

States == OutStates \cup {"wait_for_pubrel"}

\* Writing states of cells in use leaves every link alone.
LEMMA StatesOnly ==
    ASSUME Typed, NEW rest, rest = [c \in Cells |-> rest[c]],
           \A c \in Cells : \/ rest[c] = heap[c]
                            \/ /\ Live(c)
                               /\ \E st \in States : rest[c] = [heap[c] EXCEPT !.state = st]
    PROVE  SameLinks(rest)
<1>1. ASSUME NEW c \in Cells
      PROVE  /\ rest[c] \in CellType \cup {Unused}
             /\ rest[c] = Unused <=> heap[c] = Unused
             /\ rest[c].next = heap[c].next
             /\ rest[c].mid = heap[c].mid /\ rest[c].qos = heap[c].qos
  <2>1. CASE rest[c] = heap[c]
    BY <2>1 DEF Typed
  <2>2. CASE rest[c] # heap[c]
    <3>1. PICK st \in States : rest[c] = [heap[c] EXCEPT !.state = st]
      BY <2>2
    <3>2. heap[c] \in CellType
      BY <2>2, TypedCells
    <3>. DEFINE r == heap[c]
                t == [r EXCEPT !.state = st]
    <3>3. /\ r # Unused /\ t \in CellType /\ t # Unused
          /\ t.mid = r.mid /\ t.qos = r.qos /\ t.next = r.next
      <4>. HIDE DEF r
      <4>. QED  BY ONLY <3>2, CellFields, st \in States DEF States, r
    <3>. QED  BY <3>1, <3>3
  <2>. QED  BY <2>1, <2>2
<1>. QED  BY <1>1 DEF SameLinks

LEMMA SameSound ==
    ASSUME NEW first, Sound(heap, first), NEW rest, SameLinks(rest)
    PROVE  Sound(rest, first)
BY DEF Sound, SameLinks

\* A message queued, by Publish or HandlePublish.
LEMMA QueueBase ==
    ASSUME Base, Running, NEW dir \in Directions, NEW new \in CellType, new.next = NULL,
           Queue(dir, new), pc = "reset_in" => dir = "out",
           UNCHANGED <<message, prev, crossed>>,
           last_mid' \in 0 .. allocated + 1, inflight_messages' \in Int
    PROVE  Base'
<1>. USE DEF Base
<1>1. /\ NewCell \in Nat /\ allocated < NewCell /\ NewCell <= MaxCells /\ NewCell # NULL
      /\ ~ Live(NewCell) /\ \A c \in 0 .. allocated : c < NewCell
      /\ NewCell \in Cells /\ NewCell = allocated + 1 /\ allocated' = NewCell
      /\ last' = [last EXCEPT ![dir] = NewCell] /\ len' = [len EXCEPT ![dir] = @ + 1]
  BY NewCells DEF Queue, NewCell
<1>2. /\ allocated \in Nat /\ last[dir] \in 0 .. allocated
      /\ last[dir] \in Cells \cup {NULL}
      /\ last \in [Directions -> 0 .. allocated] /\ head \in [Directions -> 0 .. allocated]
      /\ len \in [Directions -> Int]
      /\ message \in 0 .. allocated /\ prev \in 0 .. allocated
  BY NullIsNoCell DEF Typed, Cells
<1>. DEFINE tail == last[dir]
<1>3. /\ heap' \in [Cells -> CellType \cup {Unused}]
      /\ heap'[NewCell] = new /\ heap'[NewCell] # Unused /\ heap'[NewCell].next = NULL
      /\ \A c \in Cells : c # NewCell =>
            /\ heap'[c] = Unused <=> heap[c] = Unused
            /\ heap'[c].next = IF c = tail /\ Live(c) THEN NewCell ELSE heap[c].next
      /\ \/ /\ pc' = "crashed" /\ head' = head
         \/ /\ pc' = pc
            /\ tail # NULL => Live(tail) /\ head' = head
            /\ tail = NULL => head' = [head EXCEPT ![dir] = NewCell]
  BY QueueStep, CellFields
<1>. HIDE DEF tail
<1>4. head' \in [Directions -> 0 .. allocated']
  BY <1>1, <1>2, <1>3
<1>5. Typed'
  <2>1. ASSUME NEW c \in Cells, heap'[c] # Unused
        PROVE  c <= allocated' /\ heap'[c].next <= allocated'
    <3>1. CASE c = NewCell
      BY <1>1, <1>3, <3>1, NullIsNoCell
    <3>2. CASE c # NewCell
      <4>1. c <= allocated /\ heap[c].next \in 0 .. allocated
        BY <1>3, <2>1, <3>2, TypedCells DEF Live
      <4>2. heap'[c].next = NewCell \/ heap'[c].next = heap[c].next
        BY <1>3, <3>2
      <4>. QED  BY <1>1, <1>2, <4>1, <4>2, NullIsNoCell
    <3>. QED  BY <3>1, <3>2
  <2>2. allocated' \in 0 .. MaxCells /\ last_mid' \in 0 .. allocated'
    BY <1>1, <1>2
  <2>3. last' \in [Directions -> 0 .. allocated'] /\ len' \in [Directions -> Int]
    BY <1>1, <1>2
  <2>4. message' \in 0 .. allocated' /\ prev' \in 0 .. allocated' /\ crossed' \in BOOLEAN
    BY <1>1, <1>2 DEF Typed
  <2>5. pc' \in {"loop", "reset_in", "reset_out", "destroyed", "crashed"}
    BY <1>3 DEF Typed
  <2>. QED  BY <1>3, <1>4, <2>1, <2>2, <2>3, <2>4, <2>5 DEF Typed, Live
<1>6. Pointers'
  <2>1. CASE pc' = "crashed"
    BY <2>1 DEF Pointers, Running
  <2>2. CASE pc' # "crashed"
    <3>1. Sound(heap, head)
      BY DEF Pointers
    <3>2. /\ tail < NewCell /\ tail \in Cells \cup {NULL} /\ heap[NewCell] = Unused
          /\ tail = NULL => \A e \in Directions : head'[e] = IF e = dir THEN NewCell ELSE head[e]
          /\ tail # NULL => \A e \in Directions : head'[e] = head[e]
      BY <1>1, <1>2, <1>3, <2>2 DEF tail, Live
    <3>3. \A c \in Cells : c # NewCell =>
              /\ heap'[c] = Unused <=> heap[c] = Unused
              /\ heap'[c].next = IF c = tail THEN NewCell ELSE heap[c].next
      BY <1>3, <2>2, NullIsNoCell DEF tail
    <3>4. /\ NewCell \in Cells /\ tail \in Cells \cup {NULL} /\ tail < NewCell
          /\ heap[NewCell] = Unused /\ heap'[NewCell] # Unused /\ heap'[NewCell].next = NULL
      BY <1>1, <1>3, <3>2
    <3>5. Sound(heap', head')
      BY ONLY <3>1, <3>2, <3>3, <3>4, dir \in Directions, SoundAppend
    <3>. QED  BY <3>5 DEF Pointers
  <2>. QED  BY <2>1, <2>2
<1>7. Walking'
  <2>. SUFFICES ASSUME pc' = "reset_in"
                PROVE  /\ message # NULL => heap'[message] # Unused
                       /\ prev = NULL => message = head'["in"]
                       /\ prev # NULL => heap'[prev] # Unused
                       /\ prev # NULL /\ message # NULL =>
                              /\ prev < message
                              /\ \A c \in Cells : heap'[c].next = message => c = prev
                              /\ \A e \in Directions : head'[e] # message
    BY DEF Walking, Live
  <2>1. pc = "reset_in" /\ dir = "out"
    BY <1>3
  <2>2. message # NewCell /\ prev # NewCell
    BY <1>1, <1>2
  <2>3. head'["in"] = head["in"]
    BY <1>2, <1>3, <2>1 DEF Directions
  <2>4. message # NULL => message \in Cells /\ Live(message)
    BY <1>2, <2>1, NullIsNoCell DEF Walking, Cells, Typed
  <2>5. prev # NULL => prev \in Cells /\ Live(prev)
    BY <1>2, <2>1, NullIsNoCell DEF Walking, Cells, Typed
  <2>6. ASSUME prev # NULL, message # NULL
        PROVE  /\ prev < message
               /\ \A c \in Cells : heap'[c].next = message => c = prev
               /\ \A e \in Directions : head'[e] # message
    <3>1. /\ prev < message
          /\ \A c \in Cells : heap[c].next = message => c = prev
          /\ \A e \in Directions : head[e] # message
      BY <2>1, <2>6 DEF Walking
    <3>2. ASSUME NEW c \in Cells, heap'[c].next = message  PROVE c = prev
      BY <1>3, <2>2, <2>6, <3>1, <3>2
    <3>3. \A e \in Directions : head'[e] # message
      BY <1>2, <1>3, <2>2, <3>1
    <3>. QED  BY <3>1, <3>2, <3>3
  <2>7. /\ message # NULL => heap'[message] # Unused
        /\ prev # NULL => heap'[prev] # Unused
    BY <1>3, <2>2, <2>4, <2>5 DEF Live
  <2>. QED  BY <2>1, <2>3, <2>6, <2>7 DEF Walking
<1>. QED  BY <1>5, <1>6, <1>7

\* A message unlinked, by HandlePubackcomp or HandlePubrel.
LEMMA UnlinkBase ==
    ASSUME Base, pc = "loop", NEW dir \in Directions, NEW k \in 1 .. Len(Chain(dir)),
           NEW rest, SameLinks(rest), Unlink(dir, k, rest),
           UNCHANGED <<allocated, last_mid, pc, message, prev, crossed>>,
           inflight_messages' \in Int
    PROVE  Base'
<1>. USE DEF Base
<1>0. Sound(heap, head)
  BY DEF Pointers, Running
<1>. DEFINE cell == Chain(dir)[k]
            before == IF k = 1 THEN NULL ELSE Chain(dir)[k - 1]
            next == heap[cell].next
<1>1. /\ heap' \in [Cells -> CellType \cup {Unused}]
      /\ heap'[cell] = Unused
      /\ \A c \in Cells : c # cell =>
            /\ heap'[c] = Unused <=> heap[c] = Unused
            /\ heap'[c].next = IF c = before THEN next ELSE heap[c].next
      /\ head' = IF k = 1 THEN [head EXCEPT ![dir] = next] ELSE head
      /\ Sound(heap', head')
  BY <1>0, UnlinkStep
<1>2. /\ cell \in Cells /\ next \in 0 .. allocated /\ before \in 0 .. allocated
  <2>1. cell \in Cells
    BY <1>0, Here
  <2>2. next \in 0 .. allocated
    BY <2>1, TypedCells
  <2>3. k # 1 => k - 1 \in 1 .. Len(Chain(dir))
    BY <1>0, Here, Places
  <2>4. k # 1 => before \in Cells /\ Live(before)
    BY <1>0, <2>3, Here
  <2>5. k # 1 => before \in 0 .. allocated
    BY <2>4, NullIsNoCell DEF Typed, Cells
  <2>6. 0 \in 0 .. allocated
    BY DEF Typed
  <2>. QED  BY <2>1, <2>2, <2>5, <2>6, NullIsNoCell
<1>3. /\ last' = [last EXCEPT ![dir] = IF next = NULL THEN before
                                       ELSE IF head'[dir] = NULL THEN NULL ELSE @]
      /\ len' = [len EXCEPT ![dir] = @ - 1]
  BY DEF Unlink
<1>. HIDE DEF cell, before, next
<1>4. /\ last \in [Directions -> 0 .. allocated] /\ head \in [Directions -> 0 .. allocated]
      /\ len \in [Directions -> Int] /\ 0 \in 0 .. allocated /\ NULL = 0
  BY NullIsNoCell DEF Typed
<1>5. /\ head' \in [Directions -> 0 .. allocated] /\ last' \in [Directions -> 0 .. allocated]
      /\ len' \in [Directions -> Int]
  BY <1>1, <1>2, <1>3, <1>4
<1>6. ASSUME NEW c \in Cells, heap'[c] # Unused
      PROVE  c <= allocated /\ heap'[c].next <= allocated
  <2>1. c # cell /\ heap[c] # Unused
    BY <1>1, <1>6
  <2>2. c <= allocated /\ heap[c].next <= allocated
    BY <2>1 DEF Typed, Live
  <2>3. heap'[c].next = next \/ heap'[c].next = heap[c].next
    BY <1>1, <2>1
  <2>. QED  BY <1>2, <2>2, <2>3
<1>7. Typed'
  BY <1>1, <1>5, <1>6 DEF Typed, Live
<1>. QED  BY <1>1, <1>7 DEF Pointers, Walking

\* A PUBACK or PUBCOMP finds its message, and the walk starts messages behind it.
WalkHeap(left, S) ==
    [c \in Cells |-> IF \E i \in S : left[i] = c
                     THEN [heap[c] EXCEPT !.state = FirstWait(heap[c].qos)]
                     ELSE heap[c]]

LEMMA InFlowPlace ==
    ASSUME Typed, Sound(heap, head), NEW mid \in InFlowOf(Contents("out"))
    PROVE  /\ mid \in MidsOf(Contents("out"))
           /\ Position(Contents("out"), mid) \in 1 .. Len(Chain("out"))
           /\ heap[Chain("out")[Position(Contents("out"), mid)]].mid = mid
<1>1. mid \in MidsOf(Contents("out"))
  BY DEF InFlowOf, MidsOf, HeldBack
<1>2. "out" \in Directions
  BY DEF Directions
<1>3. /\ DOMAIN Contents("out") = 1 .. Len(Chain("out")) /\ Len(Chain("out")) \in Nat
      /\ \A i \in 1 .. Len(Chain("out")) : Contents("out")[i].mid = heap[Chain("out")[i]].mid
  BY <1>2, ContentsFacts, Here
<1>4. /\ Position(Contents("out"), mid) \in 1 .. Len(Chain("out"))
      /\ Contents("out")[Position(Contents("out"), mid)].mid = mid
  BY ONLY <1>1, <1>3, PositionProperties
<1>. QED  BY <1>1, <1>3, <1>4

\* The places that are left when the k-th is taken out, and the cells there.
LEMMA LeftFacts ==
    ASSUME Typed, Sound(heap, head), NEW dir \in Directions,
           NEW k \in 1 .. Len(Chain(dir))
    PROVE  /\ RemoveAt(Chain(dir), k) \in Seq(Cells)
           /\ DOMAIN RemoveAt(Chain(dir), k) = 1 .. Len(Chain(dir)) - 1
           /\ Len(RemoveAt(Chain(dir), k)) = Len(Chain(dir)) - 1
           /\ \A i \in 1 .. Len(Chain(dir)) - 1 :
                 /\ RemoveAt(Chain(dir), k)[i] =
                       IF i < k THEN Chain(dir)[i] ELSE Chain(dir)[i + 1]
                 /\ RemoveAt(Chain(dir), k)[i] \in Cells
                 /\ Live(RemoveAt(Chain(dir), k)[i])
                 /\ heap[RemoveAt(Chain(dir), k)[i]] \in CellType
                 /\ RemoveAt(Chain(dir), k)[i] # Chain(dir)[k]
           /\ RemoveAt(Contents(dir), k) = MessagesAt(heap, RemoveAt(Chain(dir), k))
           /\ DOMAIN RemoveAt(Contents(dir), k) = 1 .. Len(Chain(dir)) - 1
           /\ \A i \in 1 .. Len(Chain(dir)) - 1 :
                 /\ RemoveAt(Contents(dir), k)[i].state = heap[RemoveAt(Chain(dir), k)[i]].state
                 /\ RemoveAt(Contents(dir), k)[i].qos = heap[RemoveAt(Chain(dir), k)[i]].qos
<1>. DEFINE s == Chain(dir)
            t == RemoveAt(s, k)
            q == RemoveAt(Contents(dir), k)
<1>1. /\ s \in Seq(Cells) /\ Len(s) \in Nat
      /\ \A i \in 1 .. Len(s) : s[i] \in Cells /\ Live(s[i]) /\ heap[s[i]] \in CellType
      /\ \A i, j \in 1 .. Len(s) : s[i] = s[j] => i = j
  BY Here
<1>2. /\ t \in Seq(Cells) /\ Len(t) = Len(s) - 1
      /\ \A i \in 1 .. Len(s) - 1 : t[i] = IF i < k THEN s[i] ELSE s[i + 1]
  BY <1>1, RemoveAtProperties
<1>3. q = MessagesAt(heap, t)
  BY <1>1, RemoveMessage DEF Contents
<1>. HIDE DEF s, t
<1>4. DOMAIN t = 1 .. Len(s) - 1
  BY <1>2
<1>5. Reads(MessagesAt(heap, t), heap, t)
  BY ONLY <1>2, MessagesAtFacts
<1>6. ASSUME NEW i \in 1 .. Len(s) - 1
      PROVE  t[i] \in Cells /\ Live(t[i]) /\ heap[t[i]] \in CellType /\ t[i] # s[k]
  <2>1. i \in 1 .. Len(s) /\ i + 1 \in 1 .. Len(s) /\ k \in 1 .. Len(s)
    BY <1>1, <1>6 DEF s
  <2>2. t[i] = IF i < k THEN s[i] ELSE s[i + 1]
    BY <1>2
  <2>3. i + 1 # k \/ i < k
    BY <2>1
  <2>4. i < k => i # k
    BY <2>1
  <2>. QED  BY <1>1, <2>1, <2>2, <2>3, <2>4
<1>7. /\ DOMAIN q = 1 .. Len(s) - 1
      /\ \A i \in 1 .. Len(s) - 1 : q[i].state = heap[t[i]].state /\ q[i].qos = heap[t[i]].qos
  <2>. HIDE DEF q
  <2>. QED  BY <1>2, <1>3, <1>5 DEF Reads
<1>. QED  BY <1>2, <1>3, <1>4, <1>6, <1>7 DEF s, t

LEMMA WalkHeapFacts ==
    ASSUME Typed, Sound(heap, head), NEW k \in 1 .. Len(Chain("out")),
           NEW S \in Started(k)
    PROVE  /\ SameLinks(WalkHeap(RemoveAt(Chain("out"), k), S))
           /\ S \subseteq 1 .. Len(Chain("out")) - 1
           /\ IsFiniteSet(S) /\ Cardinality(S) \in Nat
<1>. DEFINE t == RemoveAt(Chain("out"), k)
            n == Len(Chain("out")) - 1
            rest == WalkHeap(t, S)
<1>1. "out" \in Directions
  BY DEF Directions
<1>2. S \subseteq 1 .. n
  BY <1>1, LeftFacts, StartedFacts DEF HeldBack
<1>3. \A i \in 1 .. n : t[i] \in Cells /\ Live(t[i])
  BY <1>1, LeftFacts
<1>4. n \in Int
  BY <1>1, Here
<1>5. IsFiniteSet(S) /\ Cardinality(S) \in Nat
  <2>. HIDE DEF n
  <2>1. IsFiniteSet(1 .. n)
    BY <1>4, FS_Interval
  <2>. QED  BY <1>2, <2>1, FS_Subset, FS_CardinalityType
<1>. HIDE DEF t, n
<1>6. rest = [c \in Cells |-> rest[c]]
  BY DEF WalkHeap
<1>7. ASSUME NEW c \in Cells
      PROVE  \/ rest[c] = heap[c]
             \/ /\ Live(c)
                /\ \E st \in States : rest[c] = [heap[c] EXCEPT !.state = st]
  <2>1. FirstWait(heap[c].qos) \in States
    BY FirstWaits DEF States
  <2>2. CASE \E i \in S : t[i] = c
    <3>1. rest[c] = [heap[c] EXCEPT !.state = FirstWait(heap[c].qos)]
      BY <2>2 DEF WalkHeap
    <3>2. Live(c)
      BY <1>2, <1>3, <2>2
    <3>. QED  BY <2>1, <3>1, <3>2
  <2>3. CASE ~ \E i \in S : t[i] = c
    BY <2>3 DEF WalkHeap
  <2>. QED  BY <2>2, <2>3
<1>. HIDE DEF rest
<1>8. SameLinks(rest)
  BY <1>6, <1>7, StatesOnly
<1>. QED  BY <1>2, <1>5, <1>8 DEF rest, t, n

LEMMA PubackcompBase ==
    ASSUME Base, NEW mid \in InFlowOf(Contents("out")), HandlePubackcomp(mid)
    PROVE  Base'
<1>. DEFINE k == Position(Contents("out"), mid)
            left == RemoveAt(Chain("out"), k)
<1>1. pc = "loop" /\ Sound(heap, head) /\ Typed
  BY DEF HandlePubackcomp, Base, Pointers, Running
<1>2. k \in 1 .. Len(Chain("out"))
  BY <1>1, InFlowPlace
<1>3. PICK S \in Started(k) :
         /\ Unlink("out", k, WalkHeap(left, S))
         /\ inflight_messages' = inflight_messages - 1 + Cardinality(S)
  BY DEF HandlePubackcomp, WalkHeap
<1>4. UNCHANGED <<allocated, last_mid, pc, message, prev, crossed>>
  BY DEF HandlePubackcomp
<1>. HIDE DEF k
<1>5. SameLinks(WalkHeap(left, S)) /\ Cardinality(S) \in Nat
  BY <1>1, <1>2, WalkHeapFacts
<1>6. inflight_messages' \in Int
  BY <1>1, <1>3, <1>5 DEF Typed
<1>. HIDE DEF left
<1>. QED  BY <1>1, <1>2, <1>3, <1>4, <1>5, <1>6, UnlinkBase, "out" \in Directions DEF Directions

LEMMA PubrelBase ==
    ASSUME Base, NEW mid, HandlePubrel(mid)
    PROVE  Base'
<1>. DEFINE k == Position(Contents("in"), mid)
<1>1. pc = "loop" /\ Sound(heap, head) /\ Typed /\ mid \in MidsOf(Contents("in"))
      /\ Unlink("in", k, heap) /\ "in" \in Directions
      /\ UNCHANGED <<inflight_messages, allocated, last_mid, pc, message, prev, crossed>>
  BY DEF HandlePubrel, Base, Pointers, Running, Directions
<1>2. DOMAIN Contents("in") = 1 .. Len(Chain("in")) /\ Len(Chain("in")) \in Nat
  BY <1>1, ContentsFacts, Here
<1>3. k \in 1 .. Len(Chain("in"))
  BY ONLY <1>1, <1>2, PositionProperties
<1>4. SameLinks(heap) /\ inflight_messages' \in Int
  BY <1>1 DEF SameLinks, Typed
<1>. HIDE DEF k
<1>. QED  BY <1>1, <1>3, <1>4, UnlinkBase

\* Only states change.
LEMMA StatesBase ==
    ASSUME Base, Running, pc # "reset_in", pc' \in {"loop", "reset_out"}, SameLinks(heap'),
           UNCHANGED <<head, allocated, last_mid>>,
           last' \in [Directions -> 0 .. allocated], len' \in [Directions -> Int],
           inflight_messages' \in Int, message' \in 0 .. allocated,
           prev' \in 0 .. allocated, crossed' \in BOOLEAN
    PROVE  Base'
<1>1. Typed'
  BY DEF Base, Typed, SameLinks, Live
<1>2. Sound(heap', head)
  BY SameSound DEF Base, Pointers
<1>3. Pointers' /\ Walking'
  BY <1>2 DEF Pointers, Walking
<1>. QED  BY <1>1, <1>3 DEF Base

LEMMA PubrecBase ==
    ASSUME Base, NEW mid \in InFlowOf(Contents("out")), HandlePubrec(mid)
    PROVE  Base'
<1>. DEFINE cell == Chain("out")[Position(Contents("out"), mid)]
<1>1. /\ pc = "loop" /\ Sound(heap, head) /\ Typed /\ "out" \in Directions
      /\ UNCHANGED <<head, last, len, inflight_messages, allocated, last_mid, pc, message,
                     prev, resets, crossed>>
      /\ heap' = [heap EXCEPT ![cell].state = "wait_for_pubcomp"]
  BY DEF HandlePubrec, Base, Pointers, Running, Directions
<1>2. cell \in Cells /\ Live(cell)
  BY <1>1, InFlowPlace, Here
<1>. HIDE DEF cell
<1>3. heap \in [Cells -> CellType \cup {Unused}] /\ "wait_for_pubcomp" \in States
  BY <1>1 DEF Typed, States, OutStates
<1>4. heap' = [c \in Cells |-> heap'[c]]
  BY <1>1, <1>3
<1>5. ASSUME NEW c \in Cells
      PROVE  \/ heap'[c] = heap[c]
             \/ /\ Live(c)
                /\ \E st \in States : heap'[c] = [heap[c] EXCEPT !.state = st]
  <2>1. c # cell => heap'[c] = heap[c]
    BY <1>1, <1>3
  <2>2. c = cell => heap'[c] = [heap[c] EXCEPT !.state = "wait_for_pubcomp"]
    BY <1>1, <1>2, <1>3
  <2>. QED  BY <1>2, <1>3, <2>1, <2>2
<1>6. SameLinks(heap')
  BY <1>1, <1>4, <1>5, StatesOnly
<1>. QED  BY <1>1, <1>6, StatesBase DEF Running, Typed

\* The loop over the incoming messages.
LEMMA ResetInBeginBase ==
    ASSUME Base, ResetInBegin
    PROVE  Base'
<1>1. Typed'
  BY NullIsNoCell DEF Base, Typed, ResetInBegin, Live, Directions
<1>2. Sound(heap, head) /\ pc' = "reset_in"
      /\ message' = head["in"] /\ prev' = NULL /\ heap' = heap /\ head' = head
  BY DEF Base, Pointers, Running, ResetInBegin
<1>3. head["in"] # NULL => heap[head["in"]] # Unused
  BY <1>2 DEF Sound, Directions
<1>4. Walking'
  BY <1>2, <1>3 DEF Walking, Live
<1>. QED  BY <1>1, <1>2, <1>4 DEF Base, Pointers

\* Where the loop is.
LEMMA InTurn ==
    ASSUME Base, ResetInTurn
    PROVE  /\ Sound(heap, head) /\ "in" \in Directions /\ NULL = 0 /\ pc = "reset_in"
           /\ message \in Cells /\ message # NULL /\ heap[message] \in CellType
           /\ heap[message] # Unused
           /\ prev = NULL => message = head["in"]
           /\ prev # NULL => /\ prev \in Cells /\ heap[prev] \in CellType
                             /\ heap[prev] # Unused /\ prev < message
                             /\ \A c \in Cells : heap[c].next = message => c = prev
                             /\ \A dir \in Directions : head[dir] # message
           /\ heap[message].next \in 0 .. allocated
           /\ heap[message].next = NULL \/ /\ heap[message].next \in Cells
                                           /\ message < heap[message].next
                                           /\ heap[heap[message].next] # Unused
           /\ len' \in [Directions -> Int]
           /\ UNCHANGED <<last, inflight_messages, allocated, last_mid, resets, crossed>>
<1>1. /\ Sound(heap, head) /\ "in" \in Directions /\ NULL = 0 /\ pc = "reset_in"
      /\ Typed /\ Walking /\ message # NULL
      /\ len' = [len EXCEPT !["in"] = @ + 1]
      /\ UNCHANGED <<last, inflight_messages, allocated, last_mid, resets, crossed>>
  BY NullIsNoCell DEF Base, Pointers, Running, ResetInTurn, Directions
<1>2. message \in Cells /\ (prev # NULL => prev \in Cells) /\ len' \in [Directions -> Int]
  BY <1>1, NullIsNoCell DEF Typed, Cells
<1>3. Live(message) /\ (prev # NULL => Live(prev))
  BY <1>1 DEF Walking
<1>4. heap[message] \in CellType /\ (prev # NULL => heap[prev] \in CellType)
      /\ heap[message].next \in 0 .. allocated
  BY <1>1, <1>2, <1>3, TypedCells
<1>5. heap[message].next = NULL \/ /\ heap[message].next \in Cells
                                   /\ message < heap[message].next
                                   /\ heap[heap[message].next] # Unused
  BY <1>1, <1>2 DEF Sound
<1>. QED  BY <1>1, <1>2, <1>3, <1>4, <1>5 DEF Walking, Live

LEMMA ResetInKeepBase ==
    ASSUME Base, ResetInKeep
    PROVE  Base'
<1>0. ResetInTurn /\ Typed /\ heap' = heap /\ head' = head /\ pc' = pc
      /\ prev' = message /\ message' = heap[message].next
  BY DEF ResetInKeep, Base
<1>1. Typed'
  BY <1>0, InTurn DEF Typed, Live
<1>2. Pointers'
  BY <1>0, InTurn DEF Pointers
<1>3. Walking'
  <2>1. /\ Sound(heap, head) /\ message \in Cells /\ heap[message] # Unused
        /\ message # NULL
        /\ heap[message].next = NULL \/ /\ heap[message].next \in Cells
                                        /\ message < heap[message].next
                                        /\ heap[heap[message].next] # Unused
    BY <1>0, InTurn
  <2>2. \A c \in Cells : heap[c].next = heap[message].next /\ heap[c].next # NULL =>
                            c = message
    BY <2>1 DEF Sound
  <2>3. \A dir \in Directions : heap[message].next # NULL => head[dir] # heap[message].next
    BY <2>1 DEF Sound
  <2>. QED  BY <1>0, <2>1, <2>2, <2>3 DEF Walking, Live
<1>. QED  BY <1>1, <1>2, <1>3 DEF Base

LEMMA ResetInDropBase ==
    ASSUME Base, ResetInDrop
    PROVE  Base'
<1>. DEFINE next == heap[message].next
            cleaned == [heap EXCEPT ![message] = Unused]
<1>0. ResetInTurn /\ Typed /\ head' = head /\ pc' = pc /\ prev' = prev /\ prev # NULL
      /\ message' = next
      /\ heap' = [heap EXCEPT ![message] = Unused, ![prev].next = next]
      /\ heap \in [Cells -> CellType \cup {Unused}]
  BY DEF ResetInDrop, Base, Typed
<1>1. /\ Sound(heap, head) /\ message \in Cells /\ message # NULL /\ "in" \in Directions
      /\ prev \in Cells /\ heap[prev] \in CellType /\ heap[prev] # Unused /\ prev < message
      /\ \A c \in Cells : heap[c].next = message => c = prev
      /\ \A dir \in Directions : head[dir] # message
      /\ next \in 0 .. allocated
      /\ next = NULL \/ (next \in Cells /\ message < next /\ heap[next] # Unused)
      /\ pc = "reset_in" /\ len' \in [Directions -> Int]
      /\ UNCHANGED <<last, inflight_messages, allocated, last_mid, resets, crossed>>
  BY <1>0, InTurn
<1>2. prev # message /\ prev \in Nat /\ message \in Nat /\ next \in 0 .. MaxCells
      /\ Cells \subseteq Nat
  BY <1>0, <1>1, NullIsNoCell DEF Typed
<1>3. /\ cleaned \in [Cells -> CellType \cup {Unused}] /\ cleaned[message] = Unused
      /\ \A c \in Cells : c # message => cleaned[c] = heap[c]
  BY <1>0, <1>1
<1>4. heap' = [cleaned EXCEPT ![prev] = [heap[prev] EXCEPT !.next = next]]
  BY <1>0, <1>1, <1>2, <1>3
<1>. DEFINE r == heap[prev]
            t == [r EXCEPT !.next = next]
<1>. HIDE DEF next, cleaned
<1>5. t \in CellType /\ t # Unused /\ t.next = next
  <2>1. r \in CellType
    BY <1>1
  <2>. HIDE DEF r
  <2>. QED  BY ONLY <1>2, <2>1, CellFields DEF r
<1>. HIDE DEF t
<1>6. heap' = [cleaned EXCEPT ![prev] = t]
  BY <1>4 DEF t
<1>. HIDE DEF r
<1>7. /\ heap' \in [Cells -> CellType \cup {Unused}]
      /\ heap'[message] = Unused
      /\ heap'[prev] = t
      /\ \A c \in Cells : c # message /\ c # prev => heap'[c] = heap[c]
  BY <1>1, <1>2, <1>3, <1>5, <1>6
<1>8. \A c \in Cells : c # message =>
         /\ heap'[c] = Unused <=> heap[c] = Unused
         /\ heap'[c].next = IF c = prev THEN next ELSE heap[c].next
  BY <1>1, <1>5, <1>7
<1>9. Sound(heap', head)
  <2>1. /\ prev = NULL => /\ head["in"] = message
                          /\ \A e \in Directions :
                               head[e] = IF e = "in" THEN heap[message].next ELSE head[e]
        /\ prev # NULL => /\ prev < message /\ heap[prev] # Unused
                          /\ \A c \in Cells : heap[c].next = message => c = prev
                          /\ \A e \in Directions : head[e] # message /\ head[e] = head[e]
        /\ prev \in Cells \cup {NULL} /\ heap'[message] = Unused
        /\ \A c \in Cells : c # message =>
              /\ heap'[c] = Unused <=> heap[c] = Unused
              /\ heap'[c].next = IF c = prev THEN heap[message].next ELSE heap[c].next
    BY <1>0, <1>1, <1>7, <1>8 DEF next
  <2>2. Sound(heap, head) /\ message \in Cells /\ "in" \in Directions
    BY <1>1
  <2>. QED  BY ONLY <2>1, <2>2, SoundFree
<1>10. Typed'
  <2>1. ASSUME NEW c \in Cells, heap'[c] # Unused
        PROVE  c <= allocated /\ heap'[c].next <= allocated
    <3>1. c # message /\ heap[c] # Unused
      BY <1>7, <1>8, <2>1
    <3>2. c <= allocated /\ heap[c].next <= allocated
      BY <1>0, <3>1 DEF Typed, Live
    <3>3. heap'[c].next = next \/ heap'[c].next = heap[c].next
      BY <1>8, <3>1
    <3>. QED  BY <1>1, <3>2, <3>3
  <2>. QED  BY <1>0, <1>1, <1>7, <2>1 DEF Typed, Live
<1>11. next # NULL => /\ heap'[next] # Unused /\ prev < next
                      /\ \A c \in Cells : heap'[c].next = next => c = prev
                      /\ \A dir \in Directions : head[dir] # next
  <2>. SUFFICES ASSUME next # NULL
                PROVE  /\ heap'[next] # Unused /\ prev < next
                       /\ \A c \in Cells : heap'[c].next = next => c = prev
                       /\ \A dir \in Directions : head[dir] # next
    OBVIOUS
  <2>1. /\ next \in Cells /\ next # message /\ message < next /\ heap[next] # Unused
        /\ prev < next
    BY <1>1, <1>2
  <2>2. ASSUME NEW c \in Cells, heap'[c].next = next  PROVE c = prev
    <3>1. c # message
      BY <1>7, <2>2, NullIsNoCell DEF Unused
    <3>2. c # prev => heap[c].next = heap[message].next /\ heap[c].next # NULL
      BY <1>8, <2>2, <3>1 DEF next
    <3>. QED  BY <1>1, <3>1, <3>2 DEF Sound
  <2>3. \A dir \in Directions : head[dir] # next
    BY <1>1 DEF Sound, next
  <2>. QED  BY <1>8, <2>1, <2>2, <2>3
<1>12. Walking'
  <2>1. heap'[prev] # Unused
    BY <1>5, <1>7
  <2>. QED  BY <1>0, <1>11, <2>1 DEF Walking, Live
<1>. QED  BY <1>0, <1>9, <1>10, <1>12 DEF Base, Pointers

LEMMA ResetInDropHeadBase ==
    ASSUME Base, ResetInDropHead
    PROVE  Base'
<1>. DEFINE next == heap[message].next
<1>0. ResetInTurn /\ Typed /\ head' = [head EXCEPT !["in"] = next] /\ prev' = next
      /\ heap' = [heap EXCEPT ![message] = Unused] /\ prev = NULL
      /\ heap \in [Cells -> CellType \cup {Unused}]
      /\ head \in [Directions -> 0 .. allocated]
      /\ \/ next # NULL /\ message' = heap[next].next /\ pc' = pc
         \/ next = NULL /\ message' = NULL /\ pc' = "crashed"
  BY DEF ResetInDropHead, Base, Typed
<1>1. /\ Sound(heap, head) /\ message \in Cells /\ message # NULL /\ message = head["in"]
      /\ heap[message] # Unused /\ "in" \in Directions
      /\ next \in 0 .. allocated
      /\ next = NULL \/ (next \in Cells /\ message < next /\ heap[next] # Unused)
      /\ pc = "reset_in" /\ len' \in [Directions -> Int]
      /\ UNCHANGED <<last, inflight_messages, allocated, last_mid, resets, crossed>>
  BY <1>0, InTurn
<1>. HIDE DEF next
<1>2. /\ heap' \in [Cells -> CellType \cup {Unused}] /\ heap'[message] = Unused
      /\ \A c \in Cells : c # message => heap'[c] = heap[c]
      /\ head' \in [Directions -> 0 .. allocated]
      /\ \A e \in Directions : head'[e] = IF e = "in" THEN next ELSE head[e]
  BY <1>0, <1>1
<1>3. Sound(heap', head')
  <2>1. \A c \in Cells : c # message =>
           /\ heap'[c] = Unused <=> heap[c] = Unused
           /\ heap'[c].next = IF c = NULL THEN heap[message].next ELSE heap[c].next
    BY <1>2, NullIsNoCell
  <2>2. /\ NULL = NULL => /\ head["in"] = message
                          /\ \A e \in Directions :
                               head'[e] = IF e = "in" THEN heap[message].next ELSE head[e]
        /\ NULL \in Cells \cup {NULL} /\ heap'[message] = Unused
        /\ Sound(heap, head) /\ message \in Cells /\ "in" \in Directions
    BY <1>1, <1>2 DEF next
  <2>. QED  BY ONLY <2>1, <2>2, SoundFree
<1>4. message' \in 0 .. allocated
  <2>1. next # NULL => heap[next].next \in 0 .. allocated
    BY <1>0, <1>1, TypedCells
  <2>2. NULL \in 0 .. allocated
    BY <1>0, NullIsNoCell DEF Typed
  <2>. QED  BY <1>0, <2>1, <2>2
<1>5. Typed'
  <2>1. ASSUME NEW c \in Cells, heap'[c] # Unused
        PROVE  c <= allocated /\ heap'[c].next <= allocated
    BY <1>0, <1>2, <2>1 DEF Typed, Live
  <2>2. pc' \in {"reset_in", "crashed"}
    BY <1>0, <1>1
  <2>. QED  BY <1>0, <1>1, <1>2, <1>4, <2>1, <2>2 DEF Typed, Live
<1>6. Walking'
  <2>. SUFFICES ASSUME pc' = "reset_in"  PROVE Walking'
    BY DEF Walking
  <2>1. next # NULL /\ message' = heap[next].next /\ next \in Cells /\ message < next
        /\ heap[next] # Unused /\ next \in Nat /\ message \in Nat
    BY <1>0, <1>1, NullIsNoCell
  <2>2. heap'[next] # Unused
    BY <1>2, <2>1
  <2>3. message' # NULL => /\ message' \in Cells /\ next < message'
                           /\ heap[message'] # Unused
                           /\ \A c \in Cells : heap[c].next = message' => c = next
                           /\ \A dir \in Directions : head[dir] # message'
    BY <1>1, <2>1 DEF Sound
  <2>4. ASSUME message' # NULL
        PROVE  /\ heap'[message'] # Unused
               /\ \A c \in Cells : heap'[c].next = message' => c = next
               /\ \A dir \in Directions : head'[dir] # message'
    <3>1. message' # message /\ message' # next /\ message' \in Nat
      <4>1. message' \in Nat /\ next < message'
        BY <2>3, <2>4, NullIsNoCell
      <4>. QED  BY ONLY <2>1, <4>1
    <3>2. heap'[message].next = NULL
      BY <1>2 DEF Unused
    <3>. QED  BY <1>2, <2>3, <2>4, <3>1, <3>2
  <2>. QED  BY <1>0, <2>1, <2>2, <2>3, <2>4 DEF Walking, Live
<1>. QED  BY <1>3, <1>5, <1>6 DEF Base, Pointers

LEMMA ResetInEndBase ==
    ASSUME Base, ResetInEnd
    PROVE  Base'
<1>1. Typed'
  BY DEF Base, Typed, ResetInEnd, Live, Directions
<1>2. Pointers' /\ Walking'
  BY DEF Base, Pointers, Walking, Running, ResetInEnd
<1>. QED  BY <1>1, <1>2 DEF Base

\* The states the reset of the outgoing list gives.
LEMMA ResetStates ==
    ASSUME NEW q \in Seq(MessageType), NEW i \in DOMAIN q
    PROVE  /\ ReconnectReset(q)[i].state = ResetState(q[i], i)
           /\ ReconnectReset(q)[i].mid = q[i].mid
           /\ ReconnectReset(q)[i].qos = q[i].qos
           /\ ResetState(q[i], i) \in {"invalid", "wait_for_puback", q[i].state}
           /\ q[i].state \in States
<1>1. q[i] \in MessageType
  OBVIOUS
<1>2. ReconnectReset(q)[i] = [q[i] EXCEPT !.state = ResetState(q[i], i)]
  BY DEF ReconnectReset
<1>3. ResetState(q[i], i) \in {"invalid", "wait_for_puback", q[i].state}
  BY DEF ResetState
<1>. DEFINE m == q[i]
            st == ResetState(m, i)
<1>4. [m EXCEPT !.state = st].state = st /\ [m EXCEPT !.state = st].mid = m.mid
      /\ [m EXCEPT !.state = st].qos = m.qos /\ m.state \in States
  <2>. HIDE DEF m, st
  <2>. QED  BY ONLY m \in MessageType, <1>1 DEF MessageType, States, m
<1>. QED  BY <1>2, <1>3, <1>4

LEMMA ResetOutFacts ==
    ASSUME Typed, Sound(heap, head), ResetOut
    PROVE  /\ SameLinks(heap')
           /\ \A i \in 1 .. Len(Chain("out")) :
                 heap'[Chain("out")[i]].state = ResetState(Contents("out")[i], i)
           /\ \A c \in Cells : c \notin Reachable("out") => heap'[c] = heap[c]
<1>. DEFINE cells == Chain("out")
            q == Contents("out")
            place(c) == CHOOSE i \in DOMAIN cells : cells[i] = c
<1>1. "out" \in Directions
  BY DEF Directions
<1>2. /\ DOMAIN cells = 1 .. Len(cells)
      /\ \A i \in 1 .. Len(cells) : cells[i] \in Cells /\ Live(cells[i])
                                    /\ heap[cells[i]] \in CellType
      /\ \A i, j \in 1 .. Len(cells) : cells[i] = cells[j] => i = j
  BY <1>1, Here
<1>3. q \in Seq(MessageType) /\ DOMAIN q = 1 .. Len(cells)
  BY <1>1, ContentsFacts
<1>4. heap' = [c \in Cells |-> IF \E i \in DOMAIN cells : cells[i] = c
                               THEN [heap[c] EXCEPT !.state =
                                       ReconnectReset(q)[place(c)].state]
                               ELSE heap[c]]
  BY DEF ResetOut
<1>. HIDE DEF cells, q
<1>5. ASSUME NEW i \in 1 .. Len(cells)  PROVE place(cells[i]) = i
  BY <1>2
<1>. HIDE DEF place
<1>6. ASSUME NEW i \in 1 .. Len(cells)
      PROVE  /\ heap'[cells[i]] = [heap[cells[i]] EXCEPT !.state = ResetState(q[i], i)]
             /\ ResetState(q[i], i) \in States
  <2>1. ReconnectReset(q)[i].state = ResetState(q[i], i) /\ ResetState(q[i], i) \in States
    BY <1>3, ResetStates DEF States, OutStates
  <2>2. heap'[cells[i]] = [heap[cells[i]] EXCEPT !.state = ReconnectReset(q)[i].state]
    BY <1>2, <1>4, <1>5
  <2>. QED  BY <2>1, <2>2
<1>7. ASSUME NEW c \in Cells, c \notin Reachable("out")  PROVE heap'[c] = heap[c]
  <2>1. ~ \E i \in DOMAIN cells : cells[i] = c
    BY <1>7 DEF Reachable, ToSet, cells
  <2>. QED  BY <1>4, <2>1
<1>8. heap' = [c \in Cells |-> heap'[c]]
  BY <1>4
<1>9. ASSUME NEW c \in Cells
      PROVE  \/ heap'[c] = heap[c]
             \/ /\ Live(c)
                /\ \E st \in States : heap'[c] = [heap[c] EXCEPT !.state = st]
  <2>1. CASE \E i \in 1 .. Len(cells) : cells[i] = c
    <3>1. PICK i \in 1 .. Len(cells) : cells[i] = c
      BY <2>1
    <3>2. heap'[c] = [heap[c] EXCEPT !.state = ResetState(q[i], i)]
          /\ ResetState(q[i], i) \in States /\ Live(c)
      BY <1>2, <1>6, <3>1
    <3>. QED  BY <3>2
  <2>2. CASE ~ \E i \in 1 .. Len(cells) : cells[i] = c
    BY <1>2, <1>4, <2>2
  <2>. QED  BY <2>1, <2>2
<1>10. SameLinks(heap')
  BY <1>8, <1>9, StatesOnly
<1>11. ASSUME NEW i \in 1 .. Len(cells)
       PROVE  heap'[cells[i]].state = ResetState(q[i], i)
  <2>. DEFINE r == heap[cells[i]]
              st == ResetState(q[i], i)
  <2>1. r \in CellType /\ st \in States /\ heap'[cells[i]] = [r EXCEPT !.state = st]
    BY <1>2, <1>6
  <2>. HIDE DEF r, st
  <2>2. [r EXCEPT !.state = st].state = st
    BY ONLY <2>1, CellFields DEF States
  <2>. QED  BY <2>1, <2>2 DEF st
<1>. QED  BY <1>7, <1>10, <1>11 DEF cells, q

LEMMA ResetOutBase ==
    ASSUME Base, ResetOut
    PROVE  Base'
<1>. DEFINE cells == Chain("out")
<1>1. /\ Typed /\ Sound(heap, head) /\ pc = "reset_out" /\ pc' = "loop"
      /\ UNCHANGED <<head, allocated, last_mid, message>> /\ prev' = NULL
      /\ len' = [len EXCEPT !["out"] = Len(cells)] /\ inflight_messages' = Len(cells)
      /\ last' = [last EXCEPT !["out"] = IF cells = <<>> THEN prev ELSE Last(cells)]
      /\ crossed' \in BOOLEAN
  BY DEF Base, Pointers, Running, ResetOut, Occupied, Typed
<1>2. "out" \in Directions /\ SameLinks(heap')
  BY <1>1, ResetOutFacts DEF Directions
<1>3. /\ Len(cells) \in Nat /\ cells \in Seq(Cells)
      /\ \A i \in 1 .. Len(cells) : cells[i] \in Cells /\ Live(cells[i])
  BY <1>1, <1>2, Here
<1>. HIDE DEF cells
<1>4. cells # <<>> => Last(cells) \in 0 .. allocated
  <2>. SUFFICES ASSUME cells # <<>>  PROVE Last(cells) \in 0 .. allocated
    OBVIOUS
  <2>1. Last(cells) = cells[Len(cells)] /\ Len(cells) \in 1 .. Len(cells)
    BY <1>3 DEF Last
  <2>2. Last(cells) \in Cells /\ Live(Last(cells))
    BY <1>3, <2>1
  <2>. QED  BY <1>1, <2>2, NullIsNoCell DEF Typed, Cells
<1>5. last' \in [Directions -> 0 .. allocated] /\ len' \in [Directions -> Int]
      /\ prev' \in 0 .. allocated
  BY <1>1, <1>2, <1>3, <1>4, NullIsNoCell DEF Typed
<1>6. inflight_messages' \in Int /\ message' \in 0 .. allocated
  BY <1>1, <1>3 DEF Typed
<1>. QED  BY <1>1, <1>2, <1>5, <1>6, StatesBase DEF Running

LEMMA CleanupBase ==
    ASSUME Base, CleanupAll
    PROVE  Base'
<1>1. /\ Typed /\ pc' = "destroyed"
      /\ UNCHANGED <<last, len, inflight_messages, allocated, last_mid, message, prev, crossed>>
      /\ head' = [dir \in Directions |-> NULL]
      /\ heap' = [c \in Cells |-> IF \E dir \in Directions : Contains(Chain(dir), c)
                                  THEN Unused ELSE heap[c]]
  BY DEF CleanupAll, Base
<1>2. \A c \in Cells : heap'[c] = Unused \/ heap'[c] = heap[c]
  BY <1>1
<1>3. heap' \in [Cells -> CellType \cup {Unused}]
  BY <1>1 DEF Typed
<1>. HIDE DEF CleanupAll
<1>4. head' \in [Directions -> 0 .. allocated]
  BY <1>1, NullIsNoCell DEF Typed
<1>5. \A c \in Cells : heap'[c] # Unused => c <= allocated /\ heap'[c].next <= allocated
  BY <1>1, <1>2 DEF Typed, Live
<1>6. Typed'
  BY <1>1, <1>3, <1>4, <1>5 DEF Typed, Live
<1>. QED  BY <1>1, <1>6 DEF Base, Pointers, Walking, Running

LEMMA NewMessages ==
    ASSUME Typed, NEW qos \in {1, 2}, NEW room
    PROVE  LET new == Cell(last_mid + 1, qos, IF room THEN FirstWait(qos) ELSE "invalid")
           IN  /\ new \in CellType /\ new.next = NULL /\ new.mid = last_mid + 1
               /\ new.qos = qos
               /\ new.state = IF room THEN FirstWait(qos) ELSE "invalid"
               /\ new.state \in OutStates
<1>. DEFINE st == IF room THEN FirstWait(qos) ELSE "invalid"
<1>1. last_mid + 1 \in Nat /\ st \in OutStates
  BY FirstWaits DEF Typed, OutStates
<1>. HIDE DEF st
<1>2. /\ Cell(last_mid + 1, qos, st) \in CellType
      /\ Cell(last_mid + 1, qos, st).mid = last_mid + 1
      /\ Cell(last_mid + 1, qos, st).qos = qos /\ Cell(last_mid + 1, qos, st).state = st
      /\ Cell(last_mid + 1, qos, st).next = NULL
  BY <1>1, CellValues
<1>. QED  BY <1>1, <1>2 DEF st

LEMMA PublishBase ==
    ASSUME Base, NEW qos \in {1, 2}, Publish(qos)
    PROVE  Base'
<1>. DEFINE room == HasRoom(inflight_messages)
            new == Cell(last_mid + 1, qos, IF room THEN FirstWait(qos) ELSE "invalid")
<1>1. /\ Typed /\ Running /\ "out" \in Directions /\ Queue("out", new)
      /\ inflight_messages' = inflight_messages + (IF room THEN 1 ELSE 0)
      /\ last_mid' = last_mid + 1 /\ UNCHANGED <<message, prev, crossed>>
  BY DEF Publish, Base, Running, Directions
<1>2. inflight_messages' \in Int /\ last_mid' \in 0 .. allocated + 1
  BY <1>1 DEF Typed
<1>3. new \in CellType /\ new.next = NULL
  BY <1>1, NewMessages
<1>. HIDE DEF new
<1>. QED  BY <1>1, <1>2, <1>3, QueueBase

LEMMA HandlePublishBase ==
    ASSUME Base, NEW mid \in InMids, HandlePublish(mid)
    PROVE  Base'
<1>. DEFINE new == Cell(mid, 2, "wait_for_pubrel")
<1>1. /\ Typed /\ pc = "loop" /\ Running /\ "in" \in Directions /\ Queue("in", new)
      /\ UNCHANGED <<inflight_messages, last_mid, message, prev, crossed>>
  BY DEF HandlePublish, Base, Running, Directions
<1>2. inflight_messages' \in Int /\ last_mid' \in 0 .. allocated + 1
  BY <1>1 DEF Typed
<1>3. new \in CellType /\ new.next = NULL
  BY CellValues
<1>. HIDE DEF new
<1>. QED  BY <1>1, <1>2, <1>3, QueueBase

LEMMA BaseInit == Init => Base
<1>. SUFFICES ASSUME Init  PROVE Base
  OBVIOUS
<1>1. Typed
  <2>1. heap \in [Cells -> CellType \cup {Unused}] /\ \A c \in Cells : ~ Live(c)
    BY DEF Init, Live
  <2>2. allocated = 0 /\ last_mid = 0 /\ message = 0 /\ prev = 0 /\ inflight_messages = 0
        /\ allocated \in 0 .. MaxCells /\ NULL = 0
    BY NullIsNoCell DEF Init
  <2>3. /\ head \in [Directions -> 0 .. allocated] /\ last \in [Directions -> 0 .. allocated]
        /\ len \in [Directions -> Int]
    BY <2>2 DEF Init
  <2>4. /\ last_mid \in 0 .. allocated /\ inflight_messages \in Int
        /\ message \in 0 .. allocated /\ prev \in 0 .. allocated
    BY ONLY <2>2
  <2>5. /\ pc \in {"loop", "reset_in", "reset_out", "destroyed", "crashed"}
        /\ crossed \in BOOLEAN
    BY DEF Init
  <2>. QED  BY <2>1, <2>2, <2>3, <2>4, <2>5 DEF Typed
<1>2. Sound(heap, head)
  BY NullIsNoCell DEF Init, Sound, Unused, Directions
<1>. QED  BY <1>1, <1>2 DEF Base, Pointers, Walking, Init

LEMMA BaseStep == Base /\ [Next]_vars => Base'
<1>. SUFFICES ASSUME Base, [Next]_vars  PROVE Base'
  OBVIOUS
<1>1. CASE UNCHANGED vars
  BY <1>1 DEF vars, Base, Typed, Pointers, Running, Walking, Live
<1>2. CASE Next
  BY <1>2, PublishBase, HandlePublishBase, PubrelBase, PubackcompBase, PubrecBase,
     ResetInBeginBase, ResetInKeepBase, ResetInDropBase, ResetInDropHeadBase,
     ResetInEndBase, ResetOutBase, CleanupBase DEF Next
<1>. QED  BY <1>1, <1>2

\* The pointers of both lists stay in order in every run, crossed or not.
THEOREM PointersInOrder == Spec => []Base
BY BaseInit, BaseStep, PTL DEF Spec

-----------------------------------------------------------------------------
(* Until the lists are crossed: what the steps do to the chains.           *)

LEMMA ChainStays ==
    ASSUME Typed, Sound(heap, head), Sound(heap', head'), NEW dir \in Directions,
           head'[dir] = head[dir],
           \A i \in 1 .. Len(Chain(dir)) :
              heap'[Chain(dir)[i]].next = heap[Chain(dir)[i]].next
    PROVE  Chain(dir)' = Chain(dir)
<1>1. IsChain(Chain(dir), heap, head[dir]) /\ DOMAIN Chain(dir) = 1 .. Len(Chain(dir))
  BY Here
<1>2. IsChain(Chain(dir), heap', head[dir])
  BY <1>1, ChainSame
<1>3. Ordered(heap') /\ head'[dir] \in Cells \cup {NULL}
  BY SoundOrdered
<1>4. ChainOf(heap', head'[dir]) = Chain(dir)
  BY <1>2, <1>3, ChainOfIs
<1>. QED  BY <1>4 DEF Chain

LEMMA ChainGrows ==
    ASSUME Typed, Sound(heap, head), Sound(heap', head'), NEW dir \in Directions,
           NEW n \in Cells, heap'[n].next = NULL,
           head'[dir] = IF Len(Chain(dir)) = 0 THEN n ELSE head[dir],
           \A i \in 1 .. Len(Chain(dir)) :
              heap'[Chain(dir)[i]].next =
                 IF i = Len(Chain(dir)) THEN n ELSE heap[Chain(dir)[i]].next
    PROVE  Chain(dir)' = Append(Chain(dir), n)
<1>1. IsChain(Chain(dir), heap, head[dir]) /\ Ordered(heap)
  BY Here
<1>2. IsChain(Append(Chain(dir), n), heap', head'[dir])
  BY <1>1, ChainAppend
<1>3. Ordered(heap') /\ head'[dir] \in Cells \cup {NULL}
  BY SoundOrdered
<1>4. ChainOf(heap', head'[dir]) = Append(Chain(dir), n)
  BY <1>2, <1>3, ChainOfIs
<1>. QED  BY <1>4 DEF Chain

LEMMA ChainShrinks ==
    ASSUME Typed, Sound(heap, head), Sound(heap', head'), NEW dir \in Directions,
           NEW k \in 1 .. Len(Chain(dir)),
           head'[dir] = IF k = 1 THEN heap[Chain(dir)[1]].next ELSE head[dir],
           \A i \in 1 .. Len(Chain(dir)) :
              i # k => heap'[Chain(dir)[i]].next =
                          IF i = k - 1 THEN heap[Chain(dir)[k]].next
                          ELSE heap[Chain(dir)[i]].next
    PROVE  Chain(dir)' = RemoveAt(Chain(dir), k)
<1>1. IsChain(Chain(dir), heap, head[dir]) /\ Ordered(heap)
  BY Here
<1>2. IsChain(RemoveAt(Chain(dir), k), heap', head'[dir])
  BY <1>1, ChainRemove
<1>3. Ordered(heap') /\ head'[dir] \in Cells \cup {NULL}
  BY SoundOrdered
<1>4. ChainOf(heap', head'[dir]) = RemoveAt(Chain(dir), k)
  BY <1>2, <1>3, ChainOfIs
<1>. QED  BY <1>4 DEF Chain

\* The cells of a longer and of a shorter sequence.
LEMMA AppendCells ==
    ASSUME NEW s \in Seq(Cells), NEW n \in Cells
    PROVE  /\ ToSet(Append(s, n)) = ToSet(s) \cup {n}
           /\ Append(s, n) \in Seq(Cells) /\ Len(Append(s, n)) = Len(s) + 1
           /\ At(Append(s, n), Len(s) + 1) = n
<1>. DEFINE t == Append(s, n)
<1>1. /\ t \in Seq(Cells) /\ Len(t) = Len(s) + 1 /\ Len(s) \in Nat
      /\ DOMAIN s = 1 .. Len(s) /\ DOMAIN t = 1 .. Len(s) + 1
      /\ \A i \in 1 .. Len(s) : t[i] = s[i]
      /\ t[Len(s) + 1] = n
  OBVIOUS
<1>. HIDE DEF t
<1>2. ASSUME NEW c  PROVE c \in ToSet(t) <=> c \in ToSet(s) \/ c = n
  <2>1. ASSUME NEW i \in DOMAIN t, t[i] = c  PROVE c \in ToSet(s) \/ c = n
    <3>1. i \in 1 .. Len(s) \/ i = Len(s) + 1
      BY <1>1
    <3>. QED  BY <1>1, <2>1, <3>1 DEF ToSet
  <2>2. ASSUME NEW i \in DOMAIN s, s[i] = c  PROVE c \in ToSet(t)
    <3>1. i \in DOMAIN t /\ t[i] = c
      BY <1>1, <2>2
    <3>. QED  BY <3>1 DEF ToSet
  <2>3. n \in ToSet(t)
    <3>1. Len(s) + 1 \in DOMAIN t
      BY <1>1
    <3>. QED  BY <1>1, <3>1 DEF ToSet
  <2>. QED  BY <2>1, <2>2, <2>3 DEF ToSet
<1>3. At(t, Len(s) + 1) = n
  BY <1>1 DEF At
<1>. QED  BY <1>1, <1>2, <1>3 DEF t

LEMMA RemoveCells ==
    ASSUME NEW s \in Seq(Cells), NEW k \in 1 .. Len(s),
           \A i, j \in 1 .. Len(s) : s[i] = s[j] => i = j
    PROVE  ToSet(RemoveAt(s, k)) = ToSet(s) \ {s[k]}
<1>. DEFINE t == RemoveAt(s, k)
<1>1. /\ t \in Seq(Cells) /\ Len(t) = Len(s) - 1 /\ Len(s) \in Nat
      /\ \A j \in 1 .. Len(s) - 1 : t[j] = IF j < k THEN s[j] ELSE s[j + 1]
  BY RemoveAtProperties
<1>. HIDE DEF t
<1>2. DOMAIN t = 1 .. Len(s) - 1 /\ DOMAIN s = 1 .. Len(s)
  BY <1>1
<1>3. ASSUME NEW c  PROVE c \in ToSet(t) <=> c \in ToSet(s) /\ c # s[k]
  <2>1. ASSUME NEW j \in DOMAIN t, t[j] = c  PROVE c \in ToSet(s) /\ c # s[k]
    <3>1. j \in 1 .. Len(s) /\ j + 1 \in 1 .. Len(s) /\ (j < k => j # k)
          /\ (~ (j < k) => j + 1 # k)
      BY <1>1, <1>2
    <3>2. c = IF j < k THEN s[j] ELSE s[j + 1]
      BY <1>1, <1>2, <2>1
    <3>. QED  BY <1>2, <3>1, <3>2 DEF ToSet
  <2>2. ASSUME NEW i \in DOMAIN s, s[i] = c, c # s[k]  PROVE c \in ToSet(t)
    <3>1. CASE i < k
      <4>1. i \in DOMAIN t /\ t[i] = c
        BY <1>1, <1>2, <2>2, <3>1
      <4>. QED  BY <4>1 DEF ToSet
    <3>2. CASE ~ (i < k)
      <4>1. i # k
        BY <2>2
      <4>2. i - 1 \in DOMAIN t /\ ~ (i - 1 < k) /\ (i - 1) + 1 = i
        BY <1>1, <1>2, <3>2, <4>1
      <4>3. t[i - 1] = c
        BY <1>1, <1>2, <2>2, <4>2
      <4>. QED  BY <4>2, <4>3 DEF ToSet
    <3>. QED  BY <3>1, <3>2
  <2>. QED  BY <2>1, <2>2 DEF ToSet
<1>. QED  BY <1>3 DEF t

\* A list holds cells in use, as many as it is long.
LEMMA ReachableFacts ==
    ASSUME Typed, Sound(heap, head), NEW dir \in Directions
    PROVE  /\ Reachable(dir) \subseteq Cells
           /\ \A c \in Reachable(dir) : Live(c) /\ heap[c] \in CellType
           /\ \A c : c \in Reachable(dir) <=>
                        \E i \in 1 .. Len(Chain(dir)) : Chain(dir)[i] = c
           /\ IsFiniteSet(Reachable(dir))
           /\ Cardinality(Reachable(dir)) <= Len(Chain(dir))
<1>. DEFINE s == Chain(dir)
<1>1. /\ s \in Seq(Cells) /\ Len(s) \in Nat /\ DOMAIN s = 1 .. Len(s)
      /\ \A i \in 1 .. Len(s) : s[i] \in Cells /\ Live(s[i]) /\ heap[s[i]] \in CellType
  BY Here
<1>. HIDE DEF s
<1>2. Reachable(dir) = {s[i] : i \in 1 .. Len(s)}
  BY <1>1 DEF Reachable, ToSet, s
<1>3. IsFiniteSet(1 .. Len(s)) /\ Cardinality(1 .. Len(s)) = Len(s)
  BY <1>1, FS_Interval
<1>4. IsFiniteSet(Reachable(dir)) /\ Cardinality(Reachable(dir)) <= Len(s)
  <2>. DEFINE f == [i \in 1 .. Len(s) |-> s[i]]
  <2>1. f \in Surjection(1 .. Len(s), Reachable(dir))
    BY <1>2 DEF Surjection
  <2>. HIDE DEF f
  <2>. QED  BY <1>3, <2>1, FS_Surjection
<1>. QED  BY <1>1, <1>2, <1>4 DEF s

\* A thread at work on lists that are not crossed.
Linked == IInv /\ ~ crossed /\ Running

LEMMA LinkedFacts ==
    ASSUME Linked
    PROVE  /\ Typed /\ Base /\ Sound(heap, head) /\ Split /\ Counted
           /\ "in" \in Directions /\ "out" \in Directions
           /\ \A c \in Cells : Live(c) <=> c \in Reachable("in") \/ c \in Reachable("out")
           /\ \A dir, other \in Directions : \A c :
                 dir # other => ~ (c \in Reachable(dir) /\ c \in Reachable(other))
           /\ \A dir \in Directions : \A i \in 1 .. Len(Chain(dir)) :
                 Chain(dir)[i] \in Reachable(dir)
           /\ pc # "reset_in" => \A dir \in Directions :
                                    last[dir] = At(Chain(dir), Len(Chain(dir)))
           /\ last["out"] = At(Chain("out"), Len(Chain("out")))
           /\ IsFiniteSet(Flow) /\ Cardinality(Flow) \in Nat
<1>1. /\ Typed /\ Base /\ Sound(heap, head) /\ Split /\ Counted
      /\ "in" \in Directions /\ "out" \in Directions
  BY DEF Linked, IInv, Base, Pointers, Lists, Directions
<1>2. \A c \in Cells : Live(c) <=> c \in Reachable("in") \/ c \in Reachable("out")
  BY <1>1 DEF Split
<1>3. \A dir, other \in Directions : \A c :
         dir # other => ~ (c \in Reachable(dir) /\ c \in Reachable(other))
  BY <1>1 DEF Split, Directions
<1>4. \A dir \in Directions : \A i \in 1 .. Len(Chain(dir)) : Chain(dir)[i] \in Reachable(dir)
  BY <1>1, ReachableFacts
<1>5. /\ pc # "reset_in" => \A dir \in Directions :
                               last[dir] = At(Chain(dir), Len(Chain(dir)))
      /\ last["out"] = At(Chain("out"), Len(Chain("out")))
  BY <1>1 DEF Counted, Directions
<1>6. IsFiniteSet(Flow) /\ Cardinality(Flow) \in Nat
  <2>1. Flow \subseteq Reachable("out") /\ IsFiniteSet(Reachable("out"))
    BY <1>1, ReachableFacts DEF Flow
  <2>. QED  BY <2>1, FS_Subset, FS_CardinalityType
<1>. QED  BY <1>1, <1>2, <1>3, <1>4, <1>5, <1>6

\* Queuing finds the last cell, and puts the new one behind it.
LEMMA QueueChains ==
    ASSUME Linked, Base', NEW dir \in Directions, NEW new \in CellType, new.next = NULL,
           Queue(dir, new), pc = "reset_in" => dir = "out"
    PROVE  /\ NewCell \in Cells /\ ~ Live(NewCell) /\ allocated' = NewCell
           /\ heap'[NewCell] = new
           /\ \A c \in Cells : c # NewCell =>
                 /\ heap'[c] = Unused <=> heap[c] = Unused
                 /\ heap'[c].mid = heap[c].mid
                 /\ heap'[c].qos = heap[c].qos
                 /\ heap'[c].state = heap[c].state
           /\ pc' = pc
           /\ Chain(dir)' = Append(Chain(dir), NewCell)
           /\ \A other \in Directions : other # dir => Chain(other)' = Chain(other)
           /\ last' = [last EXCEPT ![dir] = NewCell] /\ len' = [len EXCEPT ![dir] = @ + 1]
<1>1. Typed /\ Sound(heap, head)
  BY LinkedFacts
<1>. DEFINE s == Chain(dir)
            n == Len(s)
            tail == last[dir]
<1>2. /\ n \in Nat /\ DOMAIN s = 1 .. n
      /\ \A i \in 1 .. n : s[i] \in Cells /\ s[i] # NULL /\ Live(s[i]) /\ s[i] \in Reachable(dir)
      /\ \A i, j \in 1 .. n : s[i] = s[j] => i = j
      /\ head[dir] = IF n = 0 THEN NULL ELSE s[1]
      /\ \A i \in 1 .. n : heap[s[i]].next = IF i = n THEN NULL ELSE s[i + 1]
  BY <1>1, LinkedFacts, Here
<1>3. tail = IF n = 0 THEN NULL ELSE s[n]
  <2>1. tail = At(s, n)
    BY LinkedFacts DEF Directions
  <2>. HIDE DEF s, n, tail
  <2>2. n \in 1 .. n <=> n # 0
    BY <1>2
  <2>. QED  BY <1>2, <2>1, <2>2 DEF At
<1>. HIDE DEF s, n
<1>4. n # 0 => n \in 1 .. n /\ Live(tail) /\ tail # NULL
  BY <1>2, <1>3
<1>5. n = 0 => tail = NULL
  BY <1>3
<1>6. /\ NewCell \in Cells /\ heap'[NewCell] = new
      /\ \A c \in Cells : c # NewCell =>
            /\ heap'[c] = Unused <=> heap[c] = Unused
            /\ heap'[c].mid = heap[c].mid
            /\ heap'[c].qos = heap[c].qos
            /\ heap'[c].state = heap[c].state
            /\ heap'[c].next = IF c = tail /\ Live(c) THEN NewCell ELSE heap[c].next
      /\ \/ /\ pc' = "crashed" /\ head' = head
            /\ tail # NULL /\ ~ Live(tail)
         \/ /\ pc' = pc
            /\ tail # NULL => Live(tail) /\ head' = head
            /\ tail = NULL => head' = [head EXCEPT ![dir] = NewCell]
  BY <1>1, QueueStep
<1>7. /\ ~ Live(NewCell) /\ allocated' = NewCell
      /\ last' = [last EXCEPT ![dir] = NewCell] /\ len' = [len EXCEPT ![dir] = @ + 1]
  BY <1>1, <1>6, NewCells DEF Queue
<1>8. /\ pc' = pc
      /\ n # 0 => head' = head
      /\ n = 0 => head' = [head EXCEPT ![dir] = NewCell]
  BY <1>4, <1>5, <1>6
<1>. HIDE DEF tail
<1>9. head \in [Directions -> 0 .. allocated]
  BY <1>1 DEF Typed
<1>10. Sound(heap', head')
  BY <1>8 DEF Base, Pointers, Linked, Running
<1>11. Chain(dir)' = Append(Chain(dir), NewCell)
  <2>1. head'[dir] = IF n = 0 THEN NewCell ELSE head[dir]
    BY <1>8, <1>9
  <2>2. ASSUME NEW i \in 1 .. n
        PROVE  heap'[s[i]].next = IF i = n THEN NewCell ELSE heap[s[i]].next
    <3>1. s[i] \in Cells /\ s[i] # NewCell /\ Live(s[i]) /\ (s[i] = tail <=> i = n)
      BY <1>2, <1>3, <1>4, <1>7
    <3>. QED  BY <1>6, <3>1
  <2>3. heap'[NewCell].next = NULL
    BY <1>6
  <2>. QED  BY <1>1, <1>6, <1>10, <2>1, <2>2, <2>3, ChainGrows DEF s, n
<1>12. ASSUME NEW other \in Directions, other # dir
       PROVE  Chain(other)' = Chain(other)
  <2>1. head'[other] = head[other]
    BY <1>8, <1>9, <1>12
  <2>2. ASSUME NEW i \in 1 .. Len(Chain(other))
        PROVE  heap'[Chain(other)[i]].next = heap[Chain(other)[i]].next
    <3>. DEFINE c == Chain(other)[i]
    <3>1. c \in Cells /\ Live(c) /\ c \in Reachable(other)
      BY <1>1, LinkedFacts, Here
    <3>2. n # 0 => tail \in Reachable(dir)
      BY <1>2, <1>3, <1>4
    <3>3. c # tail
      BY <1>5, <1>12, <3>1, <3>2, LinkedFacts, NullIsNoCell
    <3>. HIDE DEF c
    <3>4. heap'[c].next = heap[c].next
      BY <1>6, <1>7, <3>1, <3>3
    <3>. QED  BY <3>4 DEF c
  <2>. QED  BY <1>1, <1>10, <2>1, <2>2, ChainStays
<1>. QED  BY <1>6, <1>7, <1>8, <1>11, <1>12

\* Unlinking takes the k-th cell out of its list, and the last pointer along.
LEMMA UnlinkChains ==
    ASSUME Linked, pc = "loop", NEW dir \in Directions, NEW k \in 1 .. Len(Chain(dir)),
           NEW rest, SameLinks(rest), Unlink(dir, k, rest)
    PROVE  LET cell == Chain(dir)[k]
           IN  /\ heap'[cell] = Unused
               /\ \A c \in Cells : c # cell =>
                     /\ heap'[c] = Unused <=> heap[c] = Unused
                     /\ heap'[c].mid = heap[c].mid
                     /\ heap'[c].qos = heap[c].qos
                     /\ heap'[c].state = rest[c].state
               /\ Chain(dir)' = RemoveAt(Chain(dir), k)
               /\ \A other \in Directions : other # dir => Chain(other)' = Chain(other)
               /\ last' = [last EXCEPT ![dir] = At(RemoveAt(Chain(dir), k),
                                                   Len(Chain(dir)) - 1)]
               /\ len' = [len EXCEPT ![dir] = @ - 1]
<1>1. Typed /\ Sound(heap, head)
  BY LinkedFacts
<1>. DEFINE s == Chain(dir)
            n == Len(s)
            cell == s[k]
            before == IF k = 1 THEN NULL ELSE s[k - 1]
            next == heap[cell].next
            t == RemoveAt(s, k)
<1>2. /\ n \in Nat /\ DOMAIN s = 1 .. n
      /\ \A i \in 1 .. n : s[i] \in Cells /\ s[i] # NULL /\ Live(s[i]) /\ s[i] \in Reachable(dir)
      /\ \A i, j \in 1 .. n : s[i] = s[j] => i = j
      /\ head[dir] = IF n = 0 THEN NULL ELSE s[1]
      /\ \A i \in 1 .. n : heap[s[i]].next = IF i = n THEN NULL ELSE s[i + 1]
  BY <1>1, LinkedFacts, Here
<1>3. last[dir] = At(s, n)
  BY LinkedFacts
<1>4. /\ DOMAIN t = 1 .. n - 1
      /\ \A i \in 1 .. n - 1 : t[i] = IF i < k THEN s[i] ELSE s[i + 1]
  BY <1>1, LeftFacts
<1>5. /\ heap'[cell] = Unused
      /\ \A c \in Cells : c # cell =>
            /\ heap'[c] = Unused <=> heap[c] = Unused
            /\ heap'[c].mid = heap[c].mid
            /\ heap'[c].qos = heap[c].qos
            /\ heap'[c].state = rest[c].state
            /\ heap'[c].next = IF c = before THEN next ELSE heap[c].next
      /\ head' = IF k = 1 THEN [head EXCEPT ![dir] = next] ELSE head
      /\ Sound(heap', head')
  BY <1>1, UnlinkStep
<1>6. /\ last' = [last EXCEPT ![dir] = IF next = NULL THEN before
                                       ELSE IF head'[dir] = NULL THEN NULL ELSE @]
      /\ len' = [len EXCEPT ![dir] = @ - 1]
  BY DEF Unlink
<1>7. k \in 1 .. n /\ n \in 1 .. n /\ (k # 1 => k - 1 \in 1 .. n)
      /\ (k # n => k + 1 \in 1 .. n)
  <2>1. k \in 1 .. n
    OBVIOUS
  <2>. HIDE DEF s, n
  <2>. QED  BY ONLY <1>2, <2>1
<1>. HIDE DEF s, n, cell, before, next, t
<1>8. head \in [Directions -> 0 .. allocated] /\ last \in [Directions -> 0 .. allocated]
  BY <1>1 DEF Typed
<1>9. cell \in Cells /\ cell \in Reachable(dir) /\ cell = s[k]
      /\ (k # 1 => before \in Cells /\ before \in Reachable(dir) /\ before = s[k - 1])
      /\ (k = 1 => before = NULL)
      /\ next = (IF k = n THEN NULL ELSE s[k + 1])
  BY <1>2, <1>7 DEF cell, before, next
<1>10. Chain(dir)' = t
  <2>1. head'[dir] = IF k = 1 THEN heap[s[1]].next ELSE head[dir]
    BY <1>5, <1>8 DEF next, cell
  <2>2. ASSUME NEW i \in 1 .. n, i # k
        PROVE  heap'[s[i]].next = IF i = k - 1 THEN heap[s[k]].next ELSE heap[s[i]].next
    <3>1. s[i] \in Cells /\ s[i] # cell
      BY <1>2, <1>7, <1>9, <2>2
    <3>2. s[i] = before <=> i = k - 1
      BY <1>2, <1>7, <1>9, <2>2
    <3>. QED  BY <1>5, <3>1, <3>2 DEF next, cell
  <2>3. k \in 1 .. n
    BY <1>7
  <2>. QED  BY <1>1, <1>5, <2>1, <2>2, <2>3, ChainShrinks DEF s, n, t
<1>11. ASSUME NEW other \in Directions, other # dir
       PROVE  Chain(other)' = Chain(other)
  <2>1. head'[other] = head[other]
    BY <1>5, <1>8, <1>11
  <2>2. ASSUME NEW i \in 1 .. Len(Chain(other))
        PROVE  heap'[Chain(other)[i]].next = heap[Chain(other)[i]].next
    <3>. DEFINE c == Chain(other)[i]
    <3>1. c \in Cells /\ Live(c) /\ c \in Reachable(other)
      BY <1>1, LinkedFacts, Here
    <3>2. c # cell /\ c # before
      BY <1>9, <1>11, <3>1, LinkedFacts, NullIsNoCell
    <3>. HIDE DEF c
    <3>3. heap'[c].next = heap[c].next
      BY <1>5, <3>1, <3>2
    <3>. QED  BY <3>3 DEF c
  <2>. QED  BY <1>1, <1>5, <2>1, <2>2, ChainStays
<1>12. last' = [last EXCEPT ![dir] = At(t, n - 1)]
  <2>1. CASE k = n
    <3>1. next = NULL
      BY <1>9, <2>1
    <3>2. before = At(t, n - 1)
      <4>1. CASE k = 1
        BY <1>4, <1>9, <2>1, <4>1 DEF At
      <4>2. CASE k # 1
        <5>1. n - 1 \in 1 .. n - 1 /\ n - 1 < k /\ n - 1 = k - 1
          BY <1>2, <1>7, <2>1, <4>2
        <5>. QED  BY <1>4, <1>9, <4>2, <5>1 DEF At
      <4>. QED  BY <4>1, <4>2
    <3>. QED  BY <1>6, <1>8, <3>1, <3>2
  <2>2. CASE k # n
    <3>1. next # NULL /\ next = s[k + 1]
      BY <1>2, <1>7, <1>9, <2>2
    <3>2. head'[dir] # NULL
      <4>1. n # 0 /\ 1 \in 1 .. n
        BY <1>2, <1>7
      <4>. QED  BY <1>2, <1>5, <1>8, <3>1, <4>1
    <3>3. last[dir] = At(t, n - 1)
      <4>1. n - 1 \in 1 .. n - 1 /\ ~ (n - 1 < k) /\ (n - 1) + 1 = n
        BY <1>2, <1>7, <2>2
      <4>2. t[n - 1] = s[n]
        BY <1>4, <4>1
      <4>. QED  BY <1>2, <1>3, <1>4, <1>7, <4>1, <4>2 DEF At
    <3>. QED  BY <1>6, <1>8, <3>1, <3>2, <3>3
  <2>. QED  BY <2>1, <2>2
<1>. QED  BY <1>5, <1>6, <1>10, <1>11, <1>12 DEF s, n, cell, t

-----------------------------------------------------------------------------
(* Until the lists are crossed: every step keeps them well linked.         *)

LEMMA QueueSplit ==
    ASSUME Linked, Base', NEW dir \in Directions, NEW new \in CellType, new.next = NULL,
           Queue(dir, new), pc = "reset_in" => dir = "out",
           dir = "in" => /\ new.qos = 2 /\ new.state = "wait_for_pubrel"
                         /\ last_mid' = last_mid,
           dir = "out" => /\ new.state \in OutStates /\ new.mid = last_mid + 1
                          /\ last_mid' = last_mid + 1
    PROVE  /\ Split'
           /\ Reachable(dir)' = Reachable(dir) \cup {NewCell}
           /\ \A other \in Directions : other # dir => Reachable(other)' = Reachable(other)
<1>1. Typed /\ Sound(heap, head) /\ "in" \in Directions /\ "out" \in Directions
  BY LinkedFacts
<1>2. /\ NewCell \in Cells /\ ~ Live(NewCell) /\ heap'[NewCell] = new
      /\ \A c \in Cells : c # NewCell =>
            /\ heap'[c] = Unused <=> heap[c] = Unused
            /\ heap'[c].mid = heap[c].mid
            /\ heap'[c].qos = heap[c].qos
            /\ heap'[c].state = heap[c].state
      /\ Chain(dir)' = Append(Chain(dir), NewCell)
      /\ \A other \in Directions : other # dir => Chain(other)' = Chain(other)
  BY QueueChains
<1>3. Chain(dir) \in Seq(Cells)
  BY <1>1, Here
<1>4. Reachable(dir)' = Reachable(dir) \cup {NewCell}
  BY <1>2, <1>3, AppendCells DEF Reachable
<1>5. \A other \in Directions : other # dir => Reachable(other)' = Reachable(other)
  BY <1>2 DEF Reachable
<1>6. /\ \A d \in Directions : Reachable(d) \subseteq Cells
      /\ \A d \in Directions : NewCell \notin Reachable(d)
  BY <1>1, <1>2, ReachableFacts
<1>7. new # Unused /\ last_mid \in Nat
  BY <1>1, CellFields DEF Typed
<1>8. Split
  BY LinkedFacts
<1>9. CASE dir = "in"
  <2>1. Reachable("in")' = Reachable("in") \cup {NewCell}
        /\ Reachable("out")' = Reachable("out")
    BY <1>1, <1>4, <1>5, <1>9
  <2>2. (Reachable("in") \cap Reachable("out") = {})'
    BY <1>1, <1>6, <1>8, <2>1 DEF Split
  <2>3. (Reachable("in") \cup Reachable("out") = {c \in Cells : Live(c)})'
    BY <1>2, <1>7, <1>8, <2>1 DEF Split, Live
  <2>4. (\A c \in Reachable("in") : heap[c].qos = 2 /\ heap[c].state = "wait_for_pubrel")'
    BY <1>1, <1>2, <1>6, <1>8, <1>9, <2>1 DEF Split
  <2>5. (\A c \in Reachable("out") : heap[c].state \in OutStates /\ heap[c].mid <= last_mid)'
    BY <1>1, <1>2, <1>6, <1>8, <1>9, <2>1 DEF Split
  <2>6. (\A c, d \in Reachable("out") : heap[c].mid = heap[d].mid => c = d)'
    BY <1>1, <1>2, <1>6, <1>8, <2>1 DEF Split
  <2>. QED  BY <1>4, <1>5, <2>2, <2>3, <2>4, <2>5, <2>6 DEF Split
<1>10. CASE dir = "out"
  <2>1. Reachable("out")' = Reachable("out") \cup {NewCell}
        /\ Reachable("in")' = Reachable("in")
    BY <1>1, <1>4, <1>5, <1>10
  <2>2. (Reachable("in") \cap Reachable("out") = {})'
    BY <1>1, <1>6, <1>8, <2>1 DEF Split
  <2>3. (Reachable("in") \cup Reachable("out") = {c \in Cells : Live(c)})'
    BY <1>2, <1>7, <1>8, <2>1 DEF Split, Live
  <2>4. (\A c \in Reachable("in") : heap[c].qos = 2 /\ heap[c].state = "wait_for_pubrel")'
    BY <1>1, <1>2, <1>6, <1>8, <2>1 DEF Split
  <2>5. \A c \in Reachable("out") : /\ c \in Cells /\ c # NewCell
                                    /\ heap'[c].mid = heap[c].mid
                                    /\ heap'[c].state = heap[c].state
                                    /\ heap[c].mid \in Nat /\ heap[c].mid <= last_mid
                                    /\ heap[c].state \in OutStates
    <3>1. \A c \in Reachable("out") : heap[c] \in CellType
      BY <1>1, ReachableFacts
    <3>2. \A c \in Reachable("out") : heap[c].mid \in Nat
      BY <3>1 DEF CellType
    <3>. QED  BY <1>1, <1>2, <1>6, <1>8, <3>2 DEF Split
  <2>6. (\A c \in Reachable("out") : heap[c].state \in OutStates /\ heap[c].mid <= last_mid)'
    <3>1. ASSUME NEW c \in Reachable("out")
          PROVE  heap'[c].state \in OutStates /\ heap'[c].mid <= last_mid'
      BY <1>7, <1>10, <2>5
    <3>2. heap'[NewCell].state \in OutStates /\ heap'[NewCell].mid <= last_mid'
      BY <1>2, <1>7, <1>10
    <3>. QED  BY <2>1, <3>1, <3>2
  <2>7. (\A c, d \in Reachable("out") : heap[c].mid = heap[d].mid => c = d)'
    <3>1. heap'[NewCell].mid = last_mid + 1
      BY <1>2, <1>10
    <3>2. \A c \in Reachable("out") : heap'[c].mid # heap'[NewCell].mid
      BY <1>7, <2>5, <3>1
    <3>3. \A c, d \in Reachable("out") : heap'[c].mid = heap'[d].mid => c = d
      BY <1>8, <2>5 DEF Split
    <3>. QED  BY <2>1, <3>2, <3>3
  <2>. QED  BY <1>4, <1>5, <2>2, <2>3, <2>4, <2>6, <2>7 DEF Split
<1>. QED  BY <1>9, <1>10 DEF Directions

LEMMA PublishLists ==
    ASSUME Linked, Base', NEW qos \in {1, 2}, Publish(qos)
    PROVE  Lists'
<1>. DEFINE room == HasRoom(inflight_messages)
            new == Cell(last_mid + 1, qos, IF room THEN FirstWait(qos) ELSE "invalid")
<1>1. /\ Queue("out", new)
      /\ inflight_messages' = inflight_messages + (IF room THEN 1 ELSE 0)
      /\ last_mid' = last_mid + 1 /\ UNCHANGED <<message, prev, crossed>>
  BY DEF Publish
<1>2. Typed /\ Counted /\ "out" \in Directions /\ "in" \in Directions /\ "in" # "out"
      /\ Sound(heap, head) /\ IsFiniteSet(Flow) /\ Cardinality(Flow) \in Nat
  BY LinkedFacts
<1>3. /\ new \in CellType /\ new.next = NULL /\ new.mid = last_mid + 1
      /\ new.state = (IF room THEN FirstWait(qos) ELSE "invalid")
      /\ new.state \in OutStates
  BY <1>2, NewMessages
<1>. HIDE DEF new
<1>4. /\ Split'
      /\ Reachable("out")' = Reachable("out") \cup {NewCell}
  BY <1>1, <1>2, <1>3, QueueSplit
<1>5. /\ NewCell \in Cells /\ ~ Live(NewCell) /\ heap'[NewCell] = new
      /\ \A c \in Cells : c # NewCell => heap'[c].state = heap[c].state
      /\ pc' = pc
      /\ Chain("out")' = Append(Chain("out"), NewCell)
      /\ Chain("in")' = Chain("in")
      /\ last' = [last EXCEPT !["out"] = NewCell] /\ len' = [len EXCEPT !["out"] = @ + 1]
  BY <1>1, <1>2, <1>3, QueueChains
<1>6. last \in [Directions -> 0 .. allocated] /\ len \in [Directions -> Int]
  BY <1>2 DEF Typed
<1>7. /\ last'["in"] = last["in"] /\ len'["in"] = len["in"]
      /\ last'["out"] = NewCell /\ len'["out"] = len["out"] + 1
  BY <1>2, <1>5, <1>6
<1>8. Chain("out") \in Seq(Cells) /\ Len(Chain("out")) \in Nat
  BY <1>2, Here
<1>9. /\ len'["out"] = Len(Chain("out")')
      /\ last'["out"] = At(Chain("out")', Len(Chain("out")'))
  <2>1. /\ Len(Append(Chain("out"), NewCell)) = Len(Chain("out")) + 1
        /\ At(Append(Chain("out"), NewCell), Len(Chain("out")) + 1) = NewCell
    BY ONLY <1>5, <1>8, AppendCells
  <2>. QED  BY <1>2, <1>5, <1>7, <2>1 DEF Counted
<1>10. inflight_messages' \in Nat /\ Cardinality(Flow') <= inflight_messages'
  <2>1. inflight_messages \in Nat /\ Cardinality(Flow) <= inflight_messages
    BY <1>2 DEF Counted
  <2>2. Flow' = {c \in Reachable("out") \cup {NewCell} : heap'[c].state # "invalid"}
    BY <1>4 DEF Flow
  <2>3. \A c \in Reachable("out") : c \in Cells /\ c # NewCell
    BY <1>2, <1>5, ReachableFacts
  <2>4. CASE room
    <3>1. FirstWait(qos) # "invalid"
      BY FirstWaits
    <3>2. Flow' = Flow \cup {NewCell} /\ NewCell \notin Flow
      BY <1>3, <1>5, <2>2, <2>3, <2>4, <3>1 DEF Flow
    <3>3. Cardinality(Flow') = Cardinality(Flow) + 1
      BY <1>2, <3>2, FS_AddElement
    <3>. QED  BY <1>1, <1>2, <2>1, <2>4, <3>3
  <2>5. CASE ~ room
    <3>1. Flow' = Flow
      BY <1>3, <1>5, <2>2, <2>3, <2>5 DEF Flow
    <3>. QED  BY <1>1, <2>1, <2>5, <3>1
  <2>. QED  BY <2>4, <2>5
<1>11. IF pc' = "reset_in"
       THEN /\ len'["in"] \in 0 .. Len(Chain("in")')
            /\ prev' = At(Chain("in")', len'["in"])
            /\ message' = At(Chain("in")', len'["in"] + 1)
       ELSE /\ len'["in"] = Len(Chain("in")')
            /\ last'["in"] = At(Chain("in")', Len(Chain("in")'))
  BY <1>1, <1>2, <1>5, <1>7 DEF Counted
<1>12. pc' = "reset_out" => prev' = last'["in"]
  BY <1>1, <1>2, <1>5, <1>7 DEF Counted
<1>13. Counted'
  BY <1>9, <1>10, <1>11, <1>12 DEF Counted
<1>. QED  BY <1>4, <1>5, <1>13 DEF Lists, Linked, Running

LEMMA HandlePublishLists ==
    ASSUME Linked, Base', NEW mid \in InMids, HandlePublish(mid)
    PROVE  Lists'
<1>. DEFINE new == Cell(mid, 2, "wait_for_pubrel")
<1>1. /\ pc = "loop" /\ Queue("in", new)
      /\ UNCHANGED <<inflight_messages, last_mid, message, prev, crossed>>
  BY DEF HandlePublish
<1>2. Typed /\ Counted /\ "out" \in Directions /\ "in" \in Directions /\ "in" # "out"
      /\ Sound(heap, head)
  BY LinkedFacts
<1>3. new \in CellType /\ new.next = NULL /\ new.qos = 2 /\ new.state = "wait_for_pubrel"
  BY CellValues
<1>. HIDE DEF new
<1>4. /\ Split'
      /\ Reachable("out")' = Reachable("out")
  BY <1>1, <1>2, <1>3, QueueSplit
<1>5. /\ NewCell \in Cells /\ ~ Live(NewCell)
      /\ \A c \in Cells : c # NewCell => heap'[c].state = heap[c].state
      /\ pc' = pc
      /\ Chain("in")' = Append(Chain("in"), NewCell)
      /\ Chain("out")' = Chain("out")
      /\ last' = [last EXCEPT !["in"] = NewCell] /\ len' = [len EXCEPT !["in"] = @ + 1]
  BY <1>1, <1>2, <1>3, QueueChains
<1>6. last \in [Directions -> 0 .. allocated] /\ len \in [Directions -> Int]
  BY <1>2 DEF Typed
<1>7. /\ last'["out"] = last["out"] /\ len'["out"] = len["out"]
      /\ last'["in"] = NewCell /\ len'["in"] = len["in"] + 1
  BY <1>2, <1>5, <1>6
<1>8. Chain("in") \in Seq(Cells) /\ Len(Chain("in")) \in Nat
  BY <1>2, Here
<1>9. /\ len'["in"] = Len(Chain("in")')
      /\ last'["in"] = At(Chain("in")', Len(Chain("in")'))
  <2>1. /\ Len(Append(Chain("in"), NewCell)) = Len(Chain("in")) + 1
        /\ At(Append(Chain("in"), NewCell), Len(Chain("in")) + 1) = NewCell
    BY ONLY <1>5, <1>8, AppendCells
  <2>. QED  BY <1>1, <1>2, <1>5, <1>7, <2>1 DEF Counted
<1>10. Flow' = Flow
  <2>1. \A c \in Reachable("out") : c \in Cells /\ c # NewCell
    BY <1>2, <1>5, ReachableFacts
  <2>. QED  BY <1>4, <1>5, <2>1 DEF Flow
<1>11. Counted'
  BY <1>1, <1>2, <1>5, <1>7, <1>9, <1>10 DEF Counted
<1>. QED  BY <1>1, <1>4, <1>5, <1>11 DEF Lists, Linked, Running

LEMMA UnlinkSplit ==
    ASSUME Linked, pc = "loop", NEW dir \in Directions, NEW k \in 1 .. Len(Chain(dir)),
           NEW rest, SameLinks(rest), Unlink(dir, k, rest), last_mid' = last_mid,
           \A c \in Reachable("in") : rest[c].state = heap[c].state,
           \A c \in Reachable("out") : rest[c].state \in OutStates
    PROVE  /\ Split'
           /\ Reachable(dir)' = Reachable(dir) \ {Chain(dir)[k]}
           /\ \A other \in Directions : other # dir => Reachable(other)' = Reachable(other)
<1>1. Typed /\ Sound(heap, head) /\ "in" \in Directions /\ "out" \in Directions /\ Split
  BY LinkedFacts
<1>. DEFINE cell == Chain(dir)[k]
<1>2. /\ heap'[cell] = Unused
      /\ \A c \in Cells : c # cell =>
            /\ heap'[c] = Unused <=> heap[c] = Unused
            /\ heap'[c].mid = heap[c].mid
            /\ heap'[c].qos = heap[c].qos
            /\ heap'[c].state = rest[c].state
      /\ Chain(dir)' = RemoveAt(Chain(dir), k)
      /\ \A other \in Directions : other # dir => Chain(other)' = Chain(other)
  BY UnlinkChains
<1>3. /\ Chain(dir) \in Seq(Cells)
      /\ \A i, j \in 1 .. Len(Chain(dir)) : Chain(dir)[i] = Chain(dir)[j] => i = j
      /\ cell \in Cells
  BY <1>1, Here
<1>4. Reachable(dir)' = Reachable(dir) \ {cell}
  BY <1>2, <1>3, RemoveCells DEF Reachable
<1>5. \A other \in Directions : other # dir => Reachable(other)' = Reachable(other)
  BY <1>2 DEF Reachable
<1>6. /\ \A d \in Directions : Reachable(d) \subseteq Cells
      /\ cell \in Reachable(dir)
      /\ \A d \in Directions : d # dir => cell \notin Reachable(d)
  BY <1>1, LinkedFacts, ReachableFacts
<1>. HIDE DEF cell
<1>7. \A d \in Directions : Reachable(d)' = Reachable(d) \ {cell}
  BY <1>4, <1>5, <1>6
<1>8. Reachable("in")' = Reachable("in") \ {cell} /\ Reachable("out")' = Reachable("out") \ {cell}
  BY <1>1, <1>7
<1>9. (Reachable("in") \cap Reachable("out") = {})'
  BY <1>1, <1>8 DEF Split
<1>10. (Reachable("in") \cup Reachable("out") = {c \in Cells : Live(c)})'
  BY <1>1, <1>2, <1>8 DEF Split, Live
<1>11. (\A c \in Reachable("in") : heap[c].qos = 2 /\ heap[c].state = "wait_for_pubrel")'
  BY <1>1, <1>2, <1>6, <1>8 DEF Split
<1>12. (\A c \in Reachable("out") : heap[c].state \in OutStates /\ heap[c].mid <= last_mid)'
  BY <1>1, <1>2, <1>6, <1>8 DEF Split
<1>13. (\A c, d \in Reachable("out") : heap[c].mid = heap[d].mid => c = d)'
  BY <1>1, <1>2, <1>6, <1>8 DEF Split
<1>. QED  BY <1>4, <1>5, <1>9, <1>10, <1>11, <1>12, <1>13 DEF Split, cell

\* The last pointers and lengths after a cell has been unlinked.
LEMMA UnlinkCounts ==
    ASSUME Linked, pc = "loop", NEW dir \in Directions, NEW k \in 1 .. Len(Chain(dir)),
           NEW rest, SameLinks(rest), Unlink(dir, k, rest)
    PROVE  \A d \in Directions : /\ len'[d] = Len(Chain(d)')
                                 /\ last'[d] = At(Chain(d)', Len(Chain(d)'))
<1>1. Typed /\ Sound(heap, head) /\ Counted
  BY LinkedFacts
<1>2. \A d \in Directions : len[d] = Len(Chain(d)) /\ last[d] = At(Chain(d), Len(Chain(d)))
  BY <1>1 DEF Counted, Directions
<1>3. /\ Chain(dir)' = RemoveAt(Chain(dir), k)
      /\ \A other \in Directions : other # dir => Chain(other)' = Chain(other)
      /\ last' = [last EXCEPT ![dir] = At(RemoveAt(Chain(dir), k), Len(Chain(dir)) - 1)]
      /\ len' = [len EXCEPT ![dir] = @ - 1]
  BY UnlinkChains
<1>4. last \in [Directions -> 0 .. allocated] /\ len \in [Directions -> Int]
  BY <1>1 DEF Typed
<1>5. Len(RemoveAt(Chain(dir), k)) = Len(Chain(dir)) - 1
  BY <1>1, LeftFacts
<1>. QED  BY <1>2, <1>3, <1>4, <1>5

\* The message an acknowledgement finds is part way through its flow.
LEMMA InFlowCell ==
    ASSUME Linked, NEW mid \in InFlowOf(Contents("out"))
    PROVE  /\ Position(Contents("out"), mid) \in 1 .. Len(Chain("out"))
           /\ Chain("out")[Position(Contents("out"), mid)] \in Flow
<1>. DEFINE k == Position(Contents("out"), mid)
            s == Chain("out")
            q == Contents("out")
<1>1. Typed /\ Sound(heap, head) /\ "out" \in Directions /\ Split
  BY LinkedFacts
<1>2. /\ k \in 1 .. Len(s)
      /\ heap[s[k]].mid = mid
  BY <1>1, InFlowPlace
<1>3. /\ DOMAIN q = 1 .. Len(s)
      /\ \A i \in 1 .. Len(s) : q[i].mid = heap[s[i]].mid /\ q[i].state = heap[s[i]].state
  BY <1>1, ContentsFacts
<1>4. PICK j \in 1 .. Len(s) : q[j].mid = mid /\ q[j].state # "invalid"
  BY <1>3 DEF InFlowOf, HeldBack
<1>5. s[k] \in Reachable("out") /\ s[j] \in Reachable("out")
  BY <1>1, <1>2, LinkedFacts
<1>. HIDE DEF k, s, q
<1>6. s[k] = s[j]
  BY <1>1, <1>2, <1>3, <1>4, <1>5 DEF Split
<1>. QED  BY <1>2, <1>3, <1>4, <1>5, <1>6 DEF Flow, k, s

\* A set with as many members as a set of places, or fewer.
LEMMA PlacesCardinality ==
    ASSUME NEW S, IsFiniteSet(S), NEW t
    PROVE  /\ IsFiniteSet({t[i] : i \in S})
           /\ Cardinality({t[i] : i \in S}) <= Cardinality(S)
<1>. DEFINE T == {t[i] : i \in S}
            f == [i \in S |-> t[i]]
<1>1. f \in Surjection(S, T)
  BY DEF Surjection
<1>. HIDE DEF f
<1>. QED  BY <1>1, FS_Surjection

LEMMA PubackcompLists ==
    ASSUME Linked, Base', NEW mid \in InFlowOf(Contents("out")), HandlePubackcomp(mid)
    PROVE  Lists'
<1>. DEFINE k == Position(Contents("out"), mid)
            left == RemoveAt(Chain("out"), k)
            cell == Chain("out")[k]
<1>1. /\ pc = "loop" /\ Sound(heap, head) /\ Typed /\ Split /\ Counted /\ "out" \in Directions
      /\ "in" \in Directions
      /\ IsFiniteSet(Flow) /\ Cardinality(Flow) \in Nat
  BY LinkedFacts DEF HandlePubackcomp
<1>2. k \in 1 .. Len(Chain("out")) /\ cell \in Flow
  BY InFlowCell
<1>3. PICK S \in Started(k) :
         /\ Unlink("out", k, WalkHeap(left, S))
         /\ inflight_messages' = inflight_messages - 1 + Cardinality(S)
  BY DEF HandlePubackcomp, WalkHeap
<1>4. UNCHANGED <<allocated, last_mid, pc, message, prev, crossed>>
  BY DEF HandlePubackcomp
<1>. DEFINE rest == WalkHeap(left, S)
            T == {left[i] : i \in S}
<1>. HIDE DEF k
<1>5. /\ SameLinks(rest) /\ IsFiniteSet(S) /\ Cardinality(S) \in Nat
      /\ S \subseteq 1 .. Len(Chain("out")) - 1
  BY <1>1, <1>2, WalkHeapFacts
<1>6. \A i \in 1 .. Len(Chain("out")) - 1 : left[i] \in Cells /\ heap[left[i]] \in CellType
  BY <1>1, <1>2, LeftFacts
<1>. HIDE DEF left, cell
<1>7. \A c \in Cells : /\ c \in T => rest[c] = [heap[c] EXCEPT !.state = FirstWait(heap[c].qos)]
                       /\ c \notin T => rest[c] = heap[c]
  BY DEF WalkHeap
<1>8. T \subseteq Reachable("out")
  <2>0. /\ Chain("out") \in Seq(Cells)
        /\ \A i, j \in 1 .. Len(Chain("out")) : Chain("out")[i] = Chain("out")[j] => i = j
    BY <1>1, Here
  <2>1. ToSet(left) = Reachable("out") \ {cell} /\ DOMAIN left = 1 .. Len(Chain("out")) - 1
    <3>1. ToSet(left) = ToSet(Chain("out")) \ {cell}
      BY ONLY <1>2, <2>0, RemoveCells DEF left, cell
    <3>2. DOMAIN left = 1 .. Len(Chain("out")) - 1
      BY <1>1, <1>2, LeftFacts DEF left
    <3>. QED  BY <3>1, <3>2 DEF Reachable
  <2>. QED  BY <1>5, <2>1 DEF ToSet
<1>9. \A c \in Reachable("out") : c \in Cells /\ heap[c] \in CellType
  BY <1>1, ReachableFacts
<1>. HIDE DEF rest, T
<1>10. \A c \in T : rest[c].state = FirstWait(heap[c].qos)
  <2>1. ASSUME NEW c \in T  PROVE rest[c].state = FirstWait(heap[c].qos)
    <3>. DEFINE r == heap[c]
                st == FirstWait(r.qos)
    <3>1. r \in CellType /\ st \in States /\ rest[c] = [r EXCEPT !.state = st]
      BY <1>7, <1>8, <1>9, <2>1, FirstWaits DEF States
    <3>. HIDE DEF r, st
    <3>2. [r EXCEPT !.state = st].state = st
      BY ONLY <3>1, CellFields DEF States
    <3>. QED  BY <3>1, <3>2 DEF st, r
  <2>. QED  BY <2>1
<1>11. \A c \in Reachable("in") : rest[c].state = heap[c].state
  <2>1. \A c \in Reachable("in") : c \in Cells /\ c \notin T
    BY <1>1, <1>8, ReachableFacts DEF Split
  <2>. QED  BY <1>7, <2>1
<1>12. \A c \in Reachable("out") : rest[c].state \in OutStates
  <2>1. ASSUME NEW c \in Reachable("out")  PROVE rest[c].state \in OutStates
    <3>1. CASE c \in T
      BY <1>10, <3>1, FirstWaits
    <3>2. CASE c \notin T
      BY <1>1, <1>7, <1>9, <3>2 DEF Split
    <3>. QED  BY <3>1, <3>2
  <2>. QED  BY <2>1
<1>13. /\ Split'
       /\ Reachable("out")' = Reachable("out") \ {cell}
  BY <1>1, <1>2, <1>3, <1>4, <1>5, <1>11, <1>12, UnlinkSplit DEF rest, cell
<1>14. \A d \in Directions : /\ len'[d] = Len(Chain(d)')
                             /\ last'[d] = At(Chain(d)', Len(Chain(d)'))
  BY <1>1, <1>2, <1>3, <1>5, UnlinkCounts DEF rest
<1>15. \A c \in Cells : c # cell => heap'[c].state = rest[c].state
  BY <1>1, <1>2, <1>3, <1>5, UnlinkChains DEF rest, cell
<1>16. inflight_messages' \in Nat /\ Cardinality(Flow') <= inflight_messages'
  <2>1. Flow' \subseteq (Flow \ {cell}) \cup T
    <3>1. ASSUME NEW c \in Flow'  PROVE c \in (Flow \ {cell}) \cup T
      <4>1. c \in Reachable("out") /\ c # cell /\ heap'[c].state # "invalid"
        BY <1>13 DEF Flow
      <4>2. c \notin T => heap[c].state # "invalid"
        BY <1>7, <1>9, <1>15, <4>1
      <4>. QED  BY <4>1, <4>2 DEF Flow
    <3>. QED  BY <3>1
  <2>2. IsFiniteSet(T) /\ Cardinality(T) <= Cardinality(S)
    BY <1>5, PlacesCardinality DEF T
  <2>3. IsFiniteSet(Flow \ {cell}) /\ Cardinality(Flow \ {cell}) = Cardinality(Flow) - 1
    BY <1>1, <1>2, FS_RemoveElement
  <2>4. /\ IsFiniteSet((Flow \ {cell}) \cup T)
        /\ Cardinality((Flow \ {cell}) \cup T) =
              Cardinality(Flow \ {cell}) + Cardinality(T) - Cardinality((Flow \ {cell}) \cap T)
    BY <2>2, <2>3, FS_Union
  <2>5. Cardinality((Flow \ {cell}) \cap T) \in Nat
    BY <2>2, FS_Intersection, FS_CardinalityType
  <2>6. /\ IsFiniteSet(Flow')
        /\ Cardinality(Flow') <= Cardinality((Flow \ {cell}) \cup T)
    BY <2>1, <2>4, FS_Subset
  <2>7. Cardinality(T) \in Nat /\ Cardinality(Flow') \in Nat
    BY <2>2, <2>6, FS_CardinalityType
  <2>8. inflight_messages \in Nat /\ Cardinality(Flow) <= inflight_messages
    BY <1>1 DEF Counted
  <2>9. inflight_messages' = inflight_messages - 1 + Cardinality(S)
    BY <1>3
  <2>. QED  BY ONLY <1>1, <1>5, <2>2, <2>3, <2>4, <2>5, <2>6, <2>7, <2>8, <2>9
<1>17. Counted'
  BY <1>1, <1>4, <1>14, <1>16 DEF Counted
<1>. QED  BY <1>1, <1>4, <1>13, <1>17 DEF Lists, Linked, Running

LEMMA PubrelLists ==
    ASSUME Linked, Base', NEW mid, HandlePubrel(mid)
    PROVE  Lists'
<1>. DEFINE k == Position(Contents("in"), mid)
            cell == Chain("in")[k]
<1>1. /\ pc = "loop" /\ mid \in MidsOf(Contents("in")) /\ Unlink("in", k, heap)
      /\ UNCHANGED <<inflight_messages, allocated, last_mid, pc, message, prev, crossed>>
  BY DEF HandlePubrel
<1>2. Sound(heap, head) /\ Typed /\ "in" \in Directions /\ "out" \in Directions
      /\ Split /\ Counted
  BY LinkedFacts
<1>3. DOMAIN Contents("in") = 1 .. Len(Chain("in")) /\ Len(Chain("in")) \in Nat
  BY <1>2, ContentsFacts, Here
<1>4. k \in 1 .. Len(Chain("in"))
  BY ONLY <1>1, <1>3, PositionProperties
<1>5. SameLinks(heap)
  BY <1>2 DEF SameLinks, Typed
<1>. HIDE DEF k
<1>6. /\ Split'
      /\ \A other \in Directions : other # "in" => Reachable(other)' = Reachable(other)
  BY <1>1, <1>2, <1>4, <1>5, UnlinkSplit DEF Split
<1>7. \A d \in Directions : /\ len'[d] = Len(Chain(d)')
                            /\ last'[d] = At(Chain(d)', Len(Chain(d)'))
  BY <1>1, <1>2, <1>4, <1>5, UnlinkCounts
<1>8. \A c \in Cells : c # cell => heap'[c].state = heap[c].state
  BY <1>1, <1>2, <1>4, <1>5, UnlinkChains
<1>9. cell \notin Reachable("out") /\ Reachable("out") \subseteq Cells
  BY <1>2, <1>4, LinkedFacts, ReachableFacts
<1>. HIDE DEF cell
<1>10. Flow' = Flow
  BY <1>2, <1>6, <1>8, <1>9 DEF Flow
<1>11. Counted'
  BY <1>1, <1>2, <1>7, <1>10 DEF Counted
<1>. QED  BY <1>1, <1>6, <1>11 DEF Lists, Linked, Running

\* Where only states change, the chains and their cells stay.
LEMMA SameLinksStay ==
    ASSUME Linked, Base', Running', SameLinks(heap'), head' = head
    PROVE  /\ \A dir \in Directions : Chain(dir)' = Chain(dir)
           /\ \A dir \in Directions : Reachable(dir)' = Reachable(dir)
           /\ \A c \in Cells : /\ heap'[c] = Unused <=> heap[c] = Unused
                               /\ heap'[c].mid = heap[c].mid /\ heap'[c].qos = heap[c].qos
<1>1. Typed /\ Sound(heap, head)
  BY LinkedFacts
<1>2. Sound(heap', head')
  BY DEF Base, Pointers
<1>3. ASSUME NEW dir \in Directions  PROVE Chain(dir)' = Chain(dir)
  <2>1. \A i \in 1 .. Len(Chain(dir)) : Chain(dir)[i] \in Cells
    BY <1>1, Here
  <2>2. \A i \in 1 .. Len(Chain(dir)) :
           heap'[Chain(dir)[i]].next = heap[Chain(dir)[i]].next
    BY <2>1 DEF SameLinks
  <2>. QED  BY <1>1, <1>2, <2>2, ChainStays
<1>. QED  BY <1>3 DEF Reachable, SameLinks

LEMMA StatesSplit ==
    ASSUME Linked, Base', Running', SameLinks(heap'), head' = head, last_mid' = last_mid,
           \A c \in Reachable("in") : heap'[c].state = heap[c].state,
           \A c \in Reachable("out") : heap'[c].state \in OutStates
    PROVE  Split'
<1>1. Typed /\ Sound(heap, head) /\ "in" \in Directions /\ "out" \in Directions /\ Split
  BY LinkedFacts
<1>2. /\ Reachable("in")' = Reachable("in") /\ Reachable("out")' = Reachable("out")
      /\ \A c \in Cells : /\ heap'[c] = Unused <=> heap[c] = Unused
                          /\ heap'[c].mid = heap[c].mid /\ heap'[c].qos = heap[c].qos
  BY <1>1, SameLinksStay
<1>3. Reachable("in") \subseteq Cells /\ Reachable("out") \subseteq Cells
  BY <1>1, ReachableFacts
<1>4. (Reachable("in") \cap Reachable("out") = {})'
  BY <1>1, <1>2 DEF Split
<1>5. (Reachable("in") \cup Reachable("out") = {c \in Cells : Live(c)})'
  BY <1>1, <1>2 DEF Split, Live
<1>6. (\A c \in Reachable("in") : heap[c].qos = 2 /\ heap[c].state = "wait_for_pubrel")'
  BY <1>1, <1>2, <1>3 DEF Split
<1>7. (\A c \in Reachable("out") : heap[c].state \in OutStates /\ heap[c].mid <= last_mid)'
  BY <1>1, <1>2, <1>3 DEF Split
<1>8. (\A c, d \in Reachable("out") : heap[c].mid = heap[d].mid => c = d)'
  BY <1>1, <1>2, <1>3 DEF Split
<1>. QED  BY <1>4, <1>5, <1>6, <1>7, <1>8 DEF Split

LEMMA PubrecLinks ==
    ASSUME Linked, NEW mid \in InFlowOf(Contents("out")), HandlePubrec(mid)
    PROVE  LET cell == Chain("out")[Position(Contents("out"), mid)]
           IN  /\ cell \in Flow /\ cell \in Cells
               /\ SameLinks(heap')
               /\ heap'[cell].state = "wait_for_pubcomp"
               /\ \A c \in Cells : c # cell => heap'[c] = heap[c]
<1>. DEFINE cell == Chain("out")[Position(Contents("out"), mid)]
<1>1. /\ pc = "loop" /\ Sound(heap, head) /\ Typed /\ "out" \in Directions
      /\ heap' = [heap EXCEPT ![cell].state = "wait_for_pubcomp"]
  BY LinkedFacts DEF HandlePubrec
<1>2. cell \in Cells /\ Live(cell) /\ cell \in Flow /\ heap[cell] \in CellType
  BY <1>1, InFlowPlace, InFlowCell, Here
<1>. HIDE DEF cell
<1>3. heap \in [Cells -> CellType \cup {Unused}] /\ "wait_for_pubcomp" \in States
  BY <1>1 DEF Typed, States, OutStates
<1>4. heap' = [c \in Cells |-> heap'[c]]
  BY <1>1, <1>3
<1>5. /\ \A c \in Cells : c # cell => heap'[c] = heap[c]
      /\ heap'[cell] = [heap[cell] EXCEPT !.state = "wait_for_pubcomp"]
  BY <1>1, <1>2, <1>3
<1>6. SameLinks(heap')
  BY <1>1, <1>2, <1>3, <1>4, <1>5, StatesOnly
<1>7. heap'[cell].state = "wait_for_pubcomp"
  <2>. DEFINE r == heap[cell]
              st == "wait_for_pubcomp"
  <2>1. r \in CellType /\ st \in States /\ heap'[cell] = [r EXCEPT !.state = st]
    BY <1>2, <1>3, <1>5
  <2>. HIDE DEF r, st
  <2>2. [r EXCEPT !.state = st].state = st
    BY ONLY <2>1, CellFields DEF States
  <2>. QED  BY <2>1, <2>2 DEF st
<1>. QED  BY <1>2, <1>5, <1>6, <1>7 DEF cell

LEMMA PubrecLists ==
    ASSUME Linked, Base', NEW mid \in InFlowOf(Contents("out")), HandlePubrec(mid)
    PROVE  Lists'
<1>. DEFINE cell == Chain("out")[Position(Contents("out"), mid)]
<1>1. /\ pc = "loop" /\ Sound(heap, head) /\ Typed /\ "out" \in Directions
      /\ "in" \in Directions /\ Split /\ Counted
      /\ UNCHANGED <<head, last, len, inflight_messages, last_mid, pc, message, prev, crossed>>
  BY LinkedFacts DEF HandlePubrec
<1>2. /\ cell \in Flow /\ cell \in Cells /\ SameLinks(heap')
      /\ heap'[cell].state = "wait_for_pubcomp"
      /\ \A c \in Cells : c # cell => heap'[c] = heap[c]
  BY PubrecLinks
<1>. HIDE DEF cell
<1>3. Running'
  BY <1>1 DEF Running
<1>4. Reachable("out")' = Reachable("out") /\ Chain("out")' = Chain("out")
      /\ Chain("in")' = Chain("in")
  BY <1>1, <1>2, <1>3, SameLinksStay
<1>5. /\ \A c \in Reachable("in") : c \in Cells /\ c # cell
      /\ \A c \in Reachable("out") : c \in Cells
  BY <1>1, <1>2, ReachableFacts DEF Split, Flow
<1>6. Split'
  <2>1. \A c \in Reachable("in") : heap'[c].state = heap[c].state
    BY <1>2, <1>5
  <2>2. \A c \in Reachable("out") : heap'[c].state \in OutStates
    BY <1>1, <1>2, <1>5 DEF Split, OutStates
  <2>. QED  BY <1>1, <1>2, <1>3, <2>1, <2>2, StatesSplit
<1>7. Flow' = Flow
  BY <1>2, <1>4, <1>5 DEF Flow
<1>8. Counted'
  BY <1>1, <1>4, <1>7 DEF Counted
<1>. QED  BY <1>1, <1>3, <1>6, <1>8 DEF Lists, Linked, Running

\* A step that leaves the cells and heads alone.
LEMMA LinksStay ==
    ASSUME UNCHANGED <<heap, head, last_mid>>
    PROVE  /\ \A dir : Chain(dir)' = Chain(dir)
           /\ \A dir : Reachable(dir)' = Reachable(dir)
           /\ Split' = Split /\ Flow' = Flow
<1>1. \A dir : Chain(dir)' = Chain(dir) /\ Reachable(dir)' = Reachable(dir)
  BY DEF Chain, Reachable
<1>. QED  BY <1>1 DEF Split, Flow, Live

LEMMA ResetInBeginLists ==
    ASSUME Linked, ResetInBegin
    PROVE  Lists'
<1>1. /\ pc = "loop" /\ pc' = "reset_in" /\ message' = head["in"] /\ prev' = NULL
      /\ len' = [len EXCEPT !["in"] = 0]
      /\ UNCHANGED <<heap, head, last, inflight_messages, last_mid, crossed>>
  BY DEF ResetInBegin
<1>2. /\ Typed /\ Sound(heap, head) /\ Split /\ Counted
      /\ "in" \in Directions /\ "out" \in Directions
  BY LinkedFacts
<1>3. Split' /\ Flow' = Flow /\ Chain("in")' = Chain("in") /\ Chain("out")' = Chain("out")
  BY <1>1, <1>2, LinksStay
<1>4. /\ Len(Chain("in")) \in Nat /\ DOMAIN Chain("in") = 1 .. Len(Chain("in"))
      /\ head["in"] = IF Len(Chain("in")) = 0 THEN NULL ELSE Chain("in")[1]
  BY <1>2, Here
<1>5. At(Chain("in"), 0) = NULL /\ At(Chain("in"), 0 + 1) = head["in"]
  BY <1>4 DEF At
<1>6. len'["in"] = 0 /\ len'["out"] = len["out"]
  BY <1>1, <1>2 DEF Typed
<1>7. Counted'
  BY <1>1, <1>2, <1>3, <1>4, <1>5, <1>6 DEF Counted
<1>. QED  BY <1>1, <1>3, <1>7 DEF Lists, Linked, Running

\* Every message the loop meets is a QoS 2 one, so it drops none.
LEMMA ResetKeeps ==
    ASSUME Linked, ResetInTurn
    PROVE  /\ heap[message].qos = 2
           /\ len["in"] + 1 \in 1 .. Len(Chain("in"))
           /\ message = Chain("in")[len["in"] + 1]
<1>1. /\ Typed /\ Sound(heap, head) /\ Split /\ Counted /\ "in" \in Directions
      /\ pc = "reset_in" /\ message # NULL
  BY LinkedFacts DEF ResetInTurn
<1>2. /\ len["in"] \in 0 .. Len(Chain("in"))
      /\ message = At(Chain("in"), len["in"] + 1)
  BY <1>1 DEF Counted
<1>3. DOMAIN Chain("in") = 1 .. Len(Chain("in"))
  BY <1>1, Here
<1>4. len["in"] + 1 \in 1 .. Len(Chain("in")) /\ message = Chain("in")[len["in"] + 1]
  BY <1>1, <1>2, <1>3 DEF At
<1>5. message \in Reachable("in")
  BY <1>1, <1>4, ReachableFacts
<1>. QED  BY <1>1, <1>4, <1>5 DEF Split

LEMMA ResetInKeepLists ==
    ASSUME Linked, ResetInKeep
    PROVE  Lists'
<1>1. /\ ResetInTurn /\ pc = "reset_in" /\ UNCHANGED <<heap, head, pc>>
      /\ prev' = message /\ message' = heap[message].next
      /\ len' = [len EXCEPT !["in"] = @ + 1]
      /\ UNCHANGED <<last, inflight_messages, last_mid, crossed>>
  BY DEF ResetInKeep, ResetInTurn
<1>2. /\ Typed /\ Sound(heap, head) /\ Split /\ Counted
      /\ "in" \in Directions /\ "out" \in Directions
  BY LinkedFacts
<1>3. Split' /\ Flow' = Flow /\ Chain("in")' = Chain("in") /\ Chain("out")' = Chain("out")
  BY <1>1, <1>2, LinksStay
<1>4. len["in"] + 1 \in 1 .. Len(Chain("in")) /\ message = Chain("in")[len["in"] + 1]
      /\ len["in"] \in Int
  BY <1>1, <1>2, ResetKeeps DEF Typed
<1>5. /\ Len(Chain("in")) \in Nat /\ DOMAIN Chain("in") = 1 .. Len(Chain("in"))
      /\ \A i \in 1 .. Len(Chain("in")) :
            heap[Chain("in")[i]].next =
               IF i = Len(Chain("in")) THEN NULL ELSE Chain("in")[i + 1]
  BY <1>2, Here
<1>6. len'["in"] = len["in"] + 1 /\ len'["out"] = len["out"]
  BY <1>1, <1>2 DEF Typed
<1>7. prev' = At(Chain("in"), len'["in"])
  BY <1>1, <1>4, <1>5, <1>6 DEF At
<1>8. message' = At(Chain("in"), len'["in"] + 1)
  <2>. DEFINE i == len["in"] + 1
  <2>1. i \in 1 .. Len(Chain("in")) /\ message' = heap[Chain("in")[i]].next
        /\ len'["in"] + 1 = i + 1
    BY <1>1, <1>4, <1>6
  <2>. HIDE DEF i
  <2>2. i + 1 \in 1 .. Len(Chain("in")) <=> i # Len(Chain("in"))
    BY ONLY <1>5, <2>1, Places
  <2>. QED  BY <1>5, <2>1, <2>2 DEF At
<1>9. len'["in"] \in 0 .. Len(Chain("in"))
  BY ONLY <1>4, <1>5, <1>6
<1>10. Counted'
  BY <1>1, <1>2, <1>3, <1>6, <1>7, <1>8, <1>9 DEF Counted
<1>. QED  BY <1>1, <1>3, <1>10 DEF Lists, Linked, Running

LEMMA ResetInEndLists ==
    ASSUME Linked, ResetInEnd
    PROVE  Lists'
<1>1. /\ pc = "reset_in" /\ message = NULL /\ pc' = "reset_out"
      /\ last' = [last EXCEPT !["in"] = prev]
      /\ UNCHANGED <<heap, head, len, inflight_messages, last_mid, prev, crossed>>
  BY DEF ResetInEnd
<1>2. /\ Typed /\ Sound(heap, head) /\ Split /\ Counted
      /\ "in" \in Directions /\ "out" \in Directions
  BY LinkedFacts
<1>3. Split' /\ Flow' = Flow /\ Chain("in")' = Chain("in") /\ Chain("out")' = Chain("out")
  BY <1>1, <1>2, LinksStay
<1>4. /\ Len(Chain("in")) \in Nat /\ DOMAIN Chain("in") = 1 .. Len(Chain("in"))
      /\ \A i \in 1 .. Len(Chain("in")) : Chain("in")[i] # NULL
  BY <1>2, Here
<1>5. len["in"] \in 0 .. Len(Chain("in")) /\ prev = At(Chain("in"), len["in"])
      /\ At(Chain("in"), len["in"] + 1) = NULL
  BY <1>1, <1>2 DEF Counted
<1>6. len["in"] = Len(Chain("in"))
  <2>1. len["in"] # Len(Chain("in")) => len["in"] + 1 \in 1 .. Len(Chain("in"))
    BY ONLY <1>4, <1>5
  <2>. QED  BY <1>4, <1>5, <2>1 DEF At
<1>7. last'["in"] = prev /\ last'["out"] = last["out"]
  BY <1>1, <1>2 DEF Typed
<1>8. Counted'
  BY <1>1, <1>2, <1>3, <1>5, <1>6, <1>7 DEF Counted
<1>. QED  BY <1>1, <1>3, <1>8 DEF Lists, Linked, Running

LEMMA ResetOutLists ==
    ASSUME Linked, Base', ResetOut
    PROVE  Lists'
<1>. SUFFICES ASSUME ~ crossed'  PROVE Lists'
  BY DEF Lists
<1>. DEFINE cells == Chain("out")
<1>1. /\ pc = "reset_out" /\ pc' = "loop"
      /\ last' = [last EXCEPT !["out"] = IF cells = <<>> THEN prev ELSE Last(cells)]
      /\ len' = [len EXCEPT !["out"] = Len(cells)] /\ inflight_messages' = Len(cells)
      /\ cells = <<>> => prev = NULL
      /\ UNCHANGED <<head, last_mid>>
  BY DEF ResetOut, Occupied
<1>2. /\ Typed /\ Sound(heap, head) /\ Split /\ Counted
      /\ "in" \in Directions /\ "out" \in Directions
  BY LinkedFacts
<1>3. Running'
  BY <1>1 DEF Running
<1>4. /\ SameLinks(heap')
      /\ \A i \in 1 .. Len(cells) : heap'[cells[i]].state = ResetState(Contents("out")[i], i)
      /\ \A c \in Cells : c \notin Reachable("out") => heap'[c] = heap[c]
  BY <1>2, ResetOutFacts
<1>5. /\ Chain("out")' = cells /\ Chain("in")' = Chain("in")
      /\ Reachable("out")' = Reachable("out")
  BY <1>1, <1>2, <1>3, <1>4, SameLinksStay
<1>6. /\ cells \in Seq(Cells) /\ Len(cells) \in Nat /\ DOMAIN cells = 1 .. Len(cells)
      /\ \A i \in 1 .. Len(cells) : cells[i] \in Reachable("out")
  BY <1>2, Here, LinkedFacts
<1>7. /\ Contents("out") \in Seq(MessageType) /\ DOMAIN Contents("out") = 1 .. Len(cells)
      /\ \A i \in 1 .. Len(cells) : Contents("out")[i].state = heap[cells[i]].state
  BY <1>2, ContentsFacts
<1>8. /\ \A c \in Reachable("in") : c \in Cells /\ c \notin Reachable("out")
      /\ \A c \in Reachable("out") : \E i \in 1 .. Len(cells) : cells[i] = c
      /\ IsFiniteSet(Reachable("out")) /\ Cardinality(Reachable("out")) <= Len(cells)
  BY <1>2, ReachableFacts DEF Split
<1>. HIDE DEF cells
<1>9. Split'
  <2>1. \A c \in Reachable("in") : heap'[c].state = heap[c].state
    BY <1>4, <1>8
  <2>2. ASSUME NEW c \in Reachable("out")  PROVE heap'[c].state \in OutStates
    <3>1. PICK i \in 1 .. Len(cells) : cells[i] = c
      BY <1>8
    <3>2. heap'[c].state = ResetState(Contents("out")[i], i)
      BY <1>4, <3>1
    <3>3. ResetState(Contents("out")[i], i) \in {"invalid", "wait_for_puback", heap[c].state}
      BY <1>7, <3>1, ResetStates
    <3>4. heap[c].state \in OutStates
      BY <1>2 DEF Split
    <3>. QED  BY <3>2, <3>3, <3>4 DEF OutStates
  <2>. QED  BY <1>1, <1>3, <1>4, <2>1, <2>2, StatesSplit
<1>10. Cardinality(Flow') <= inflight_messages' /\ inflight_messages' \in Nat
  <2>1. Flow' \subseteq Reachable("out")
    BY <1>5 DEF Flow
  <2>2. Cardinality(Flow') <= Cardinality(Reachable("out"))
        /\ Cardinality(Flow') \in Nat /\ Cardinality(Reachable("out")) \in Nat
    BY <1>8, <2>1, FS_Subset, FS_CardinalityType
  <2>. QED  BY <1>1, <1>6, <1>8, <2>2
<1>11. /\ len'["out"] = Len(cells) /\ len'["in"] = len["in"]
       /\ last'["in"] = last["in"]
       /\ last'["out"] = IF cells = <<>> THEN prev ELSE Last(cells)
  BY <1>1, <1>2 DEF Typed
<1>12. last'["out"] = At(cells, Len(cells))
  <2>1. CASE cells = <<>>
    BY <1>1, <1>6, <1>11, <2>1 DEF At
  <2>2. CASE cells # <<>>
    <3>1. Len(cells) \in 1 .. Len(cells) /\ Last(cells) = cells[Len(cells)]
      BY <1>6, <2>2 DEF Last
    <3>. QED  BY <1>6, <1>11, <2>2, <3>1 DEF At
  <2>. QED  BY <2>1, <2>2
<1>13. Counted'
  BY <1>1, <1>2, <1>5, <1>10, <1>11, <1>12 DEF Counted
<1>. QED  BY <1>1, <1>9, <1>13 DEF Lists

LEMMA CleanupLists ==
    ASSUME Linked, CleanupAll
    PROVE  Lists'
<1>1. /\ pc = "loop" /\ pc' = "destroyed" /\ UNCHANGED <<len, inflight_messages>>
      /\ head' = [dir \in Directions |-> NULL]
      /\ heap' = [c \in Cells |-> IF \E dir \in Directions : Contains(Chain(dir), c)
                                  THEN Unused ELSE heap[c]]
  BY DEF CleanupAll
<1>2. /\ Typed /\ Sound(heap, head) /\ Split /\ Counted
      /\ "in" \in Directions /\ "out" \in Directions
  BY LinkedFacts
<1>3. ASSUME NEW c \in Cells  PROVE heap'[c] = Unused
  <2>1. CASE heap[c] = Unused
    BY <1>1, <2>1
  <2>2. CASE heap[c] # Unused
    <3>1. PICK dir \in Directions : c \in Reachable(dir)
      BY <1>2, <2>2, LinkedFacts DEF Live
    <3>2. Contains(Chain(dir), c)
      BY <1>2, <3>1, ReachableFacts DEF Contains
    <3>. QED  BY <1>1, <3>2
  <2>. QED  BY <2>1, <2>2
<1>4. Len(Chain("in")) \in Nat /\ Len(Chain("out")) \in Nat
  BY <1>2, Here
<1>5. len \in [Directions -> Nat]
  BY <1>1, <1>2, <1>4 DEF Counted, Typed, Directions
<1>6. inflight_messages \in Nat
  BY <1>2 DEF Counted
<1>. QED  BY <1>1, <1>3, <1>5, <1>6 DEF Lists, Live, Running

LEMMA ListsInit == Init => Lists
<1>. SUFFICES ASSUME Init  PROVE Lists
  OBVIOUS
<1>1. Sound(heap, head) /\ Typed
  BY BaseInit DEF Base, Pointers, Running, Init
<1>2. \A dir \in Directions : head[dir] = NULL /\ last[dir] = NULL /\ len[dir] = 0
  BY DEF Init
<1>3. \A dir \in Directions : Chain(dir) = <<>>
  BY <1>1, <1>2, SoundOrdered, ChainOfValue DEF Chain
<1>4. "in" \in Directions /\ "out" \in Directions
  BY DEF Directions
<1>5. Chain("in") = <<>> /\ Chain("out") = <<>>
  BY <1>3, <1>4
<1>6. Reachable("in") = {} /\ Reachable("out") = {}
  BY <1>5 DEF Reachable, ToSet
<1>7. Split
  <2>1. \A c \in Cells : ~ Live(c)
    BY DEF Init, Live
  <2>. QED  BY <1>6, <2>1 DEF Split
<1>8. Flow = {} /\ Cardinality(Flow) = 0
  <2>1. Flow = {}
    BY <1>6 DEF Flow
  <2>. QED  BY <2>1, FS_EmptySet
<1>9. Counted
  <2>1. At(<<>>, 0) = NULL /\ Len(<<>>) = 0
    BY DEF At
  <2>2. inflight_messages = 0 /\ pc = "loop"
    BY DEF Init
  <2>. QED  BY <1>2, <1>4, <1>5, <1>8, <2>1, <2>2 DEF Counted
<1>. QED  BY <1>7, <1>9 DEF Lists, Init, Running

LEMMA ListsStep == IInv /\ [Next]_vars => Lists'
<1>. SUFFICES ASSUME IInv, [Next]_vars  PROVE Lists'
  OBVIOUS
<1>1. Base'
  BY BaseStep DEF Base, IInv
<1>2. CASE UNCHANGED vars
  <2>1. UNCHANGED <<heap, head, last_mid>>
    BY <1>2 DEF vars
  <2>2. Split' = Split /\ Flow' = Flow /\ Chain("in")' = Chain("in")
        /\ Chain("out")' = Chain("out")
    BY <2>1, LinksStay
  <2>3. Counted' = Counted
    BY <1>2, <2>2 DEF vars, Counted
  <2>. QED  BY <1>2, <2>2, <2>3 DEF vars, IInv, Lists, Running, Live
<1>3. CASE Next
  <2>. SUFFICES ASSUME ~ crossed'  PROVE Lists'
    BY DEF Lists
  <2>0. Running
    BY <1>3 DEF Next, Publish, HandlePublish, HandlePubrel, HandlePubackcomp, HandlePubrec,
       ResetInBegin, ResetInKeep, ResetInDrop, ResetInDropHead, ResetInTurn, ResetInEnd,
       ResetOut, CleanupAll, Running
  <2>1. crossed \in BOOLEAN /\ (crossed => crossed')
    <3>1. crossed \in BOOLEAN
      BY DEF IInv, Typed
    <3>2. (crossed' = crossed) \/ ResetOut
      BY <1>3 DEF Next, Publish, HandlePublish, HandlePubrel, HandlePubackcomp,
         HandlePubrec, ResetInBegin, ResetInKeep, ResetInDrop, ResetInDropHead,
         ResetInTurn, ResetInEnd, CleanupAll
    <3>3. ResetOut => (crossed => crossed')
      BY DEF ResetOut
    <3>. QED  BY <3>1, <3>2, <3>3
  <2>2. Linked
    BY <2>0, <2>1 DEF Linked
  <2>3. ~ ResetInDrop /\ ~ ResetInDropHead
    BY <2>2, ResetKeeps DEF ResetInDrop, ResetInDropHead
  <2>. QED
    BY <1>1, <1>3, <2>2, <2>3, PublishLists, HandlePublishLists, PubrelLists,
       PubackcompLists, PubrecLists, ResetInBeginLists, ResetInKeepLists, ResetInEndLists,
       ResetOutLists, CleanupLists DEF Next
<1>. QED  BY <1>2, <1>3

THEOREM Invariance == Spec => []IInv
<1>1. Init => IInv
  BY BaseInit, ListsInit DEF Base, IInv
<1>2. IInv /\ [Next]_vars => IInv'
  BY BaseStep, ListsStep DEF Base, IInv
<1>. QED  BY <1>1, <1>2, PTL DEF Spec

-----------------------------------------------------------------------------
(* Theorems.                                                               *)

\* No list is empty of live cells that its pointers, counter or the other list
\* would miss: the walk, the last pointer and the counter of each list agree, the
\* two share no cell, and no message is leaked, until a reset crosses them.
LEMMA LinkedImplies == IInv => WellLinked
<1>. SUFFICES ASSUME IInv, ~ crossed  PROVE WellLinked
  BY DEF WellLinked
<1>0. pc # "crashed" /\ (Running \/ pc = "destroyed")
  BY DEF IInv, Lists, Typed, Running
<1>1. CASE Running
  <2>1. /\ Typed /\ Sound(heap, head) /\ Split /\ Counted
        /\ "in" \in Directions /\ "out" \in Directions
    BY <1>1, LinkedFacts DEF Linked
  <2>2. \A dir \in Directions : /\ Len(Chain(dir)) \in Nat
                                /\ DOMAIN Chain(dir) = 1 .. Len(Chain(dir))
                                /\ Chain(dir) \in Seq(Cells)
    BY <2>1, Here
  <2>3. ASSUME NEW dir \in Directions
        PROVE  At(Chain(dir), Len(Chain(dir))) =
                 IF Chain(dir) = <<>> THEN NULL ELSE Last(Chain(dir))
    <3>. DEFINE s == Chain(dir)
    <3>1. Len(s) \in Nat /\ DOMAIN s = 1 .. Len(s) /\ s \in Seq(Cells)
      BY <2>2
    <3>. HIDE DEF s
    <3>2. CASE s = <<>>
      BY <3>1, <3>2 DEF At, s
    <3>3. CASE s # <<>>
      <4>1. Len(s) \in 1 .. Len(s)
        BY <3>1, <3>3
      <4>. QED  BY <3>1, <3>3, <4>1 DEF At, Last, s
    <3>. QED  BY <3>2, <3>3
  <2>4. \A dir \in Directions \ (IF pc = "reset_in" THEN {"in"} ELSE {}) :
           len[dir] = Len(Chain(dir)) /\ last[dir] = At(Chain(dir), Len(Chain(dir)))
    BY <2>1 DEF Counted, Directions
  <2>. QED  BY <2>1, <2>3, <2>4 DEF WellLinked, Split
<1>2. CASE pc = "destroyed"
  <2>1. \A c \in Cells : ~ Live(c)
    BY <1>2 DEF IInv, Lists
  <2>2. head["in"] = NULL /\ head["out"] = NULL
    BY <1>2 DEF IInv, Lists, Directions
  <2>3. Ordered(heap)
    BY <2>1 DEF Ordered, Live, Unused
  <2>4. Chain("in") = <<>> /\ Chain("out") = <<>>
    BY <2>2, <2>3, ChainOfValue DEF Chain
  <2>5. Reachable("in") = {} /\ Reachable("out") = {}
    BY <2>4 DEF Reachable, ToSet
  <2>. QED  BY <1>2, <2>1, <2>5 DEF WellLinked
<1>. QED  BY <1>0, <1>1, <1>2

\* The two lists of messages_mosq.c stay disjoint, end at their last pointers, are
\* as long as their counters say and hold every message that has not been freed,
\* whatever is queued, acknowledged and reset, until a reset crosses them.
THEOREM ListsWellLinked == Spec => []WellLinked
BY Invariance, LinkedImplies, PTL

\* Neither queuing, unlinking nor a reset follows a null pointer or touches freed
\* memory in a run in which no reset has crossed the lists.
THEOREM NoCrash == Spec => []CrashOnlyIfCrossed
<1>1. IInv => CrashOnlyIfCrossed
  BY DEF IInv, Lists, CrashOnlyIfCrossed
<1>. QED  BY <1>1, Invariance, PTL

\* Every pointer leads to a message handed out, also when the lists are crossed; the
\* counters do not turn negative before.
THEOREM ListsTyped == Spec => []ListsTypeOK
<1>1. IInv => ListsTypeOK
  <2>. SUFFICES ASSUME IInv  PROVE ListsTypeOK
    OBVIOUS
  <2>0. Typed
    BY DEF IInv
  <2>1. ASSUME NEW c \in Cells, heap[c] # Unused
        PROVE  /\ c <= allocated
               /\ heap[c].state \in OutStates \cup {"wait_for_pubrel"}
               /\ heap[c].next \in 0 .. allocated
    BY <2>0, <2>1, TypedCells DEF Live, CellType
  <2>2. ASSUME ~ crossed
        PROVE  len \in [Directions -> Nat] /\ inflight_messages \in Nat
    <3>0. Running \/ pc = "destroyed"
      BY <2>2 DEF IInv, Lists, Typed, Running
    <3>1. CASE Running
      <4>1. /\ Typed /\ Sound(heap, head) /\ Counted
            /\ "in" \in Directions /\ "out" \in Directions
        BY <2>2, <3>1, LinkedFacts DEF Linked
      <4>2. Len(Chain("in")) \in Nat /\ Len(Chain("out")) \in Nat
        BY <4>1, Here
      <4>3. len["in"] \in Nat /\ len["out"] \in Nat
        BY <4>1, <4>2 DEF Counted
      <4>. QED  BY <4>1, <4>3 DEF Typed, Directions, Counted
    <3>2. CASE pc = "destroyed"
      BY <2>2, <3>2 DEF IInv, Lists
    <3>. QED  BY <3>0, <3>1, <3>2
  <2>. QED  BY <2>0, <2>1, <2>2 DEF Typed, ListsTypeOK
<1>. QED  BY <1>1, Invariance, PTL

-----------------------------------------------------------------------------
(* The lists implement the two queues of QueueSpec.                        *)

\* The operators of MessageQueue that QueueSpec uses are those used here.
LEMMA SameOperators ==
    /\ \A inflight : Queues!HasRoom(inflight) = HasRoom(inflight)
    /\ \A qos : Queues!FirstWait(qos) = FirstWait(qos)
    /\ \A q : Queues!MidsOf(q) = MidsOf(q)
    /\ \A q, i : Queues!RemoveAt(q, i) = RemoveAt(q, i)
    /\ \A q, mid : Queues!Position(q, mid) = Position(q, mid)
    /\ \A q, inflight : Queues!Room(q, inflight) = Room(q, inflight)
    /\ \A q, n : Queues!FirstHeldBack(q, n) = FirstHeldBack(q, n)
    /\ \A q, S : Queues!Start(q, S) = Start(q, S)
    /\ \A q : Queues!ReconnectReset(q) = ReconnectReset(q)
    /\ \A S : Queues!Cardinality(S) = Cardinality(S)
<1>1. /\ \A inflight : Queues!HasRoom(inflight) = HasRoom(inflight)
      /\ \A qos : Queues!FirstWait(qos) = FirstWait(qos)
  BY Zenon DEF HasRoom, FirstWait, Queues!HasRoom, Queues!FirstWait
<1>2. \A q : Queues!MidsOf(q) = MidsOf(q)
  BY Zenon DEF MidsOf, Queues!MidsOf
<1>3. \A q, i : Queues!RemoveAt(q, i) = RemoveAt(q, i)
  BY Zenon DEF RemoveAt, Queues!RemoveAt
<1>4. \A q, mid : Queues!Position(q, mid) = Position(q, mid)
  BY Zenon DEF Position, Queues!Position
<1>5. \A q, inflight : Queues!Room(q, inflight) = Room(q, inflight)
  BY Zenon DEF Room, Queues!Room
<1>6. \A S : Queues!Cardinality(S) = Cardinality(S)
  BY Zenon DEF Cardinality, Queues!Cardinality
<1>7. \A q, n : Queues!FirstHeldBack(q, n) = FirstHeldBack(q, n)
  BY <1>6, Zenon DEF FirstHeldBack, HeldBack, Queues!FirstHeldBack, Queues!HeldBack
<1>8. \A q, S : Queues!Start(q, S) = Start(q, S)
  BY Zenon DEF Start, FirstWait, Queues!Start, Queues!FirstWait
<1>9. \A q : Queues!ReconnectReset(q) = ReconnectReset(q)
  BY Zenon DEF ReconnectReset, ResetState, HasRoom, FirstWait, Queues!ReconnectReset,
     Queues!ResetState, Queues!HasRoom, Queues!FirstWait
<1>. QED  BY <1>1, <1>2, <1>3, <1>4, <1>5, <1>7, <1>8, <1>9, <1>6

\* The message a cell holds.
Holds(c) == [mid |-> c.mid, qos |-> c.qos, state |-> c.state]

LEMMA MessagesAtIs ==
    ASSUME NEW cells, NEW s \in Seq(Cells)
    PROVE  MessagesAt(cells, s) = [i \in 1 .. Len(s) |-> Holds(cells[s[i]])]
BY DEF MessagesAt, Holds

\* Cells that hold the same messages.
LEMMA MessagesSame ==
    ASSUME NEW cells, NEW other, NEW s \in Seq(Cells),
           \A i \in 1 .. Len(s) : Holds(other[s[i]]) = Holds(cells[s[i]])
    PROVE  MessagesAt(other, s) = MessagesAt(cells, s)
BY MessagesAtIs

\* One more cell, one more message.
LEMMA MessagesAppend ==
    ASSUME NEW cells, NEW other, NEW s \in Seq(Cells), NEW n \in Cells,
           \A i \in 1 .. Len(s) : Holds(other[s[i]]) = Holds(cells[s[i]])
    PROVE  MessagesAt(other, Append(s, n)) = Append(MessagesAt(cells, s), Holds(other[n]))
<1>. DEFINE t == Append(s, n)
            q == MessagesAt(cells, s)
            m == Holds(other[n])
<1>1. /\ t \in Seq(Cells) /\ Len(t) = Len(s) + 1 /\ Len(s) \in Nat
      /\ \A i \in 1 .. Len(s) : t[i] = s[i]
      /\ t[Len(s) + 1] = n
  OBVIOUS
<1>2. q = [i \in 1 .. Len(s) |-> Holds(cells[s[i]])]
  BY MessagesAtIs
<1>. HIDE DEF t, q, m
<1>3. MessagesAt(other, t) = [i \in 1 .. Len(s) + 1 |-> Holds(other[t[i]])]
  <2>1. MessagesAt(other, t) = [i \in 1 .. Len(t) |-> Holds(other[t[i]])]
    BY ONLY <1>1, MessagesAtIs
  <2>. QED  BY <1>1, <2>1
<1>4. Append(q, m) = [i \in 1 .. Len(s) + 1 |-> IF i = Len(s) + 1 THEN m ELSE q[i]]
  <2>. DEFINE U == {Holds(cells[s[i]]) : i \in 1 .. Len(s)} \cup {m}
  <2>1. q \in Seq(U) /\ m \in U /\ Len(q) = Len(s)
    BY <1>1, <1>2
  <2>. DEFINE a == Append(q, m)
  <2>. HIDE DEF U
  <2>2. /\ a \in Seq(U) /\ Len(a) = Len(s) + 1
        /\ \A i \in 1 .. Len(s) + 1 : a[i] = IF i = Len(s) + 1 THEN m ELSE q[i]
    BY <1>1, <2>1
  <2>. HIDE DEF a
  <2>3. a = [i \in 1 .. Len(s) + 1 |-> a[i]]
    BY <2>2
  <2>4. a = [i \in 1 .. Len(s) + 1 |-> IF i = Len(s) + 1 THEN m ELSE q[i]]
    BY <2>2, <2>3
  <2>. QED  BY <2>4 DEF a
<1>5. ASSUME NEW i \in 1 .. Len(s) + 1
      PROVE  Holds(other[t[i]]) = IF i = Len(s) + 1 THEN m ELSE q[i]
  <2>1. CASE i = Len(s) + 1
    BY <1>1, <2>1 DEF m
  <2>2. CASE i # Len(s) + 1
    <3>1. i \in 1 .. Len(s)
      BY <1>1, <2>2
    <3>. QED  BY <1>1, <1>2, <2>2, <3>1
  <2>. QED  BY <2>1, <2>2
<1>6. MessagesAt(other, t) = Append(q, m)
  BY <1>3, <1>4, <1>5
<1>. QED  BY <1>6 DEF t, q, m

\* What a list holds when its chain and the messages of its cells stay.
LEMMA ContentsStay ==
    ASSUME Linked, NEW dir \in Directions, Chain(dir)' = Chain(dir),
           \A c \in Reachable(dir) : /\ heap'[c].mid = heap[c].mid
                                     /\ heap'[c].qos = heap[c].qos
                                     /\ heap'[c].state = heap[c].state
    PROVE  Contents(dir)' = Contents(dir)
<1>1. Typed /\ Sound(heap, head)
  BY LinkedFacts
<1>2. Chain(dir) \in Seq(Cells)
      /\ \A i \in 1 .. Len(Chain(dir)) : Chain(dir)[i] \in Reachable(dir)
  BY <1>1, Here, LinkedFacts
<1>3. \A i \in 1 .. Len(Chain(dir)) :
         Holds(heap'[Chain(dir)[i]]) = Holds(heap[Chain(dir)[i]])
  BY <1>2 DEF Holds
<1>4. MessagesAt(heap', Chain(dir)) = MessagesAt(heap, Chain(dir))
  BY ONLY <1>2, <1>3, MessagesSame
<1>. QED  BY <1>4 DEF Contents

\* What a list holds when a cell is put behind its last.
LEMMA QueueContents ==
    ASSUME Linked, Base', NEW dir \in Directions, NEW new \in CellType, new.next = NULL,
           Queue(dir, new), pc = "reset_in" => dir = "out"
    PROVE  /\ Contents(dir)' = Append(Contents(dir), Holds(new))
           /\ \A other \in Directions : other # dir => Contents(other)' = Contents(other)
<1>1. Typed /\ Sound(heap, head)
  BY LinkedFacts
<1>2. /\ NewCell \in Cells /\ ~ Live(NewCell) /\ heap'[NewCell] = new
      /\ \A c \in Cells : c # NewCell =>
            /\ heap'[c].mid = heap[c].mid
            /\ heap'[c].qos = heap[c].qos
            /\ heap'[c].state = heap[c].state
      /\ Chain(dir)' = Append(Chain(dir), NewCell)
      /\ \A other \in Directions : other # dir => Chain(other)' = Chain(other)
  BY QueueChains
<1>3. \A d \in Directions : \A c \in Reachable(d) : c \in Cells /\ c # NewCell
  BY <1>1, <1>2, ReachableFacts
<1>4. Chain(dir) \in Seq(Cells)
      /\ \A i \in 1 .. Len(Chain(dir)) : Chain(dir)[i] \in Reachable(dir)
  BY <1>1, Here, LinkedFacts
<1>5. \A i \in 1 .. Len(Chain(dir)) :
         Holds(heap'[Chain(dir)[i]]) = Holds(heap[Chain(dir)[i]])
  BY <1>2, <1>3, <1>4 DEF Holds
<1>6. MessagesAt(heap', Append(Chain(dir), NewCell)) =
        Append(MessagesAt(heap, Chain(dir)), Holds(heap'[NewCell]))
  BY ONLY <1>2, <1>4, <1>5, MessagesAppend
<1>7. Contents(dir)' = Append(Contents(dir), Holds(new))
  BY <1>2, <1>6 DEF Contents
<1>8. \A other \in Directions : other # dir => Contents(other)' = Contents(other)
  BY <1>2, <1>3, ContentsStay
<1>. QED  BY <1>7, <1>8

LEMMA PublishQueues ==
    ASSUME Linked, Base', NEW qos \in {1, 2}, Publish(qos)
    PROVE  Queues!Next
<1>. DEFINE room == HasRoom(inflight_messages)
            st == IF room THEN FirstWait(qos) ELSE "invalid"
            new == Cell(last_mid + 1, qos, st)
<1>1. /\ Queue("out", new) /\ "out" \in Directions /\ "in" \in Directions
      /\ inflight_messages' = inflight_messages + (IF room THEN 1 ELSE 0)
      /\ Typed
  BY LinkedFacts DEF Publish
<1>2. /\ new \in CellType /\ new.next = NULL /\ new.mid = last_mid + 1 /\ new.qos = qos
      /\ new.state = st
  BY <1>1, NewMessages
<1>3. Contents("out")' = Append(Contents("out"), Holds(new)) /\ Contents("in")' = Contents("in")
  <2>. HIDE DEF new
  <2>. QED  BY <1>1, <1>2, QueueContents
<1>4. Holds(new) = [mid |-> last_mid + 1, qos |-> qos, state |-> st]
  BY <1>2 DEF Holds
<1>5. last_mid + 1 \in InMids \cup 1 .. MaxCells
  <2>. HIDE DEF new
  <2>1. NewCell \in Cells
    BY <1>1 DEF Queue
  <2>. QED  BY <1>1, <2>1, NullIsNoCell DEF NewCell, Typed, Cells
<1>. HIDE DEF new
<1>6. Queues!PutOut(last_mid + 1, qos)
  BY <1>1, <1>3, <1>4, SameOperators DEF Queues!PutOut
<1>. QED  BY <1>5, <1>6 DEF Queues!Next

LEMMA HandlePublishQueues ==
    ASSUME Linked, Base', NEW mid \in InMids, HandlePublish(mid)
    PROVE  Queues!Next
<1>. DEFINE new == Cell(mid, 2, "wait_for_pubrel")
<1>1. /\ Queue("in", new) /\ "out" \in Directions /\ "in" \in Directions
      /\ inflight_messages' = inflight_messages /\ pc = "loop"
  BY LinkedFacts DEF HandlePublish
<1>2. /\ new \in CellType /\ new.next = NULL /\ new.mid = mid /\ new.qos = 2
      /\ new.state = "wait_for_pubrel"
  BY CellValues
<1>. HIDE DEF new
<1>3. Contents("in")' = Append(Contents("in"), Holds(new)) /\ Contents("out")' = Contents("out")
  BY <1>1, <1>2, QueueContents
<1>4. Holds(new) = [mid |-> mid, qos |-> 2, state |-> "wait_for_pubrel"]
  BY <1>2 DEF Holds
<1>5. Queues!PutIn(mid)
  BY <1>1, <1>3, <1>4 DEF Queues!PutIn
<1>. QED  BY <1>5 DEF Queues!Next

LEMMA PubrelQueues ==
    ASSUME Linked, NEW mid, HandlePubrel(mid)
    PROVE  Queues!Next
<1>. DEFINE k == Position(Contents("in"), mid)
            s == Chain("in")
            cell == s[k]
            t == RemoveAt(s, k)
<1>1. /\ pc = "loop" /\ mid \in MidsOf(Contents("in")) /\ Unlink("in", k, heap)
      /\ inflight_messages' = inflight_messages
  BY DEF HandlePubrel
<1>2. Sound(heap, head) /\ Typed /\ "in" \in Directions /\ "out" \in Directions /\ Split
  BY LinkedFacts
<1>3. DOMAIN Contents("in") = 1 .. Len(s) /\ Len(s) \in Nat
  BY <1>2, ContentsFacts, Here
<1>4. k \in 1 .. Len(s)
  BY ONLY <1>1, <1>3, PositionProperties
<1>5. SameLinks(heap)
  BY <1>2 DEF SameLinks, Typed
<1>. HIDE DEF k
<1>6. /\ Chain("in")' = t /\ Chain("out")' = Chain("out")
      /\ \A c \in Cells : c # cell =>
            /\ heap'[c].mid = heap[c].mid /\ heap'[c].qos = heap[c].qos
            /\ heap'[c].state = heap[c].state
  BY <1>1, <1>2, <1>4, <1>5, UnlinkChains
<1>7. /\ t \in Seq(Cells) /\ Len(t) = Len(s) - 1
      /\ \A i \in 1 .. Len(s) - 1 : t[i] \in Cells /\ t[i] # cell
      /\ RemoveAt(Contents("in"), k) = MessagesAt(heap, t)
  BY <1>2, <1>4, LeftFacts
<1>8. \A c \in Reachable("out") : c \in Cells /\ c # cell
  BY <1>2, <1>4, LinkedFacts, ReachableFacts
<1>. HIDE DEF s, t, cell
<1>9. Contents("out")' = Contents("out")
  BY <1>2, <1>6, <1>8, ContentsStay
<1>10. Contents("in")' = RemoveAt(Contents("in"), k)
  <2>1. \A i \in 1 .. Len(t) : Holds(heap'[t[i]]) = Holds(heap[t[i]])
    BY <1>6, <1>7 DEF Holds
  <2>2. MessagesAt(heap', t) = MessagesAt(heap, t)
    BY ONLY <1>7, <2>1, MessagesSame
  <2>. QED  BY <1>6, <1>7, <2>2 DEF Contents
<1>11. Queues!TakeIn(mid)
  BY <1>1, <1>9, <1>10, SameOperators DEF Queues!TakeIn, Queues!Without, k
<1>. QED  BY <1>1, <1>11, SameOperators DEF Queues!Next

LEMMA PubackcompQueues ==
    ASSUME Linked, NEW mid \in InFlowOf(Contents("out")), HandlePubackcomp(mid)
    PROVE  Queues!Next
<1>. DEFINE k == Position(Contents("out"), mid)
            s == Chain("out")
            left == RemoveAt(s, k)
            cell == s[k]
            rest == RemoveAt(Contents("out"), k)
<1>1. /\ pc = "loop" /\ Sound(heap, head) /\ Typed /\ Split /\ "out" \in Directions
      /\ "in" \in Directions
  BY LinkedFacts DEF HandlePubackcomp
<1>2. k \in 1 .. Len(s) /\ mid \in MidsOf(Contents("out"))
  BY <1>1, InFlowPlace
<1>3. PICK S \in Started(k) :
         /\ Unlink("out", k, WalkHeap(left, S))
         /\ inflight_messages' = inflight_messages - 1 + Cardinality(S)
  BY DEF HandlePubackcomp, WalkHeap
<1>. DEFINE walked == WalkHeap(left, S)
<1>. HIDE DEF k
<1>4. SameLinks(walked) /\ S \subseteq 1 .. Len(s) - 1
  BY <1>1, <1>2, WalkHeapFacts
<1>5. /\ left \in Seq(Cells) /\ Len(left) = Len(s) - 1
      /\ \A i \in 1 .. Len(s) - 1 : left[i] \in Cells /\ left[i] # cell
                                    /\ heap[left[i]] \in CellType
      /\ rest = MessagesAt(heap, left)
  BY <1>1, <1>2, LeftFacts
<1>6. /\ Chain("out")' = left /\ Chain("in")' = Chain("in")
      /\ \A c \in Cells : c # cell =>
            /\ heap'[c].mid = heap[c].mid /\ heap'[c].qos = heap[c].qos
            /\ heap'[c].state = walked[c].state
  BY <1>1, <1>2, <1>3, <1>4, UnlinkChains
<1>7. \A i, j \in 1 .. Len(left) : left[i] = left[j] => i = j
  <2>1. /\ \A i, j \in 1 .. Len(s) : s[i] = s[j] => i = j
        /\ Len(s) \in Nat
    BY <1>1, Here
  <2>2. \A i \in 1 .. Len(s) - 1 : left[i] = IF i < k THEN s[i] ELSE s[i + 1]
    BY <1>1, <1>2, LeftFacts
  <2>3. Len(left) = Len(s) - 1 /\ k \in 1 .. Len(s)
    BY <1>2, <1>5
  <2>. HIDE DEF left, s
  <2>4. ASSUME NEW i \in 1 .. Len(left), NEW j \in 1 .. Len(left), left[i] = left[j]
        PROVE  i = j
    <3>1. i \in 1 .. Len(s) /\ i + 1 \in 1 .. Len(s) /\ j \in 1 .. Len(s)
          /\ j + 1 \in 1 .. Len(s) /\ i \in 1 .. Len(s) - 1 /\ j \in 1 .. Len(s) - 1
      BY <2>1, <2>3, <2>4
    <3>2. (IF i < k THEN s[i] ELSE s[i + 1]) = (IF j < k THEN s[j] ELSE s[j + 1])
      BY <2>2, <2>4, <3>1
    <3>3. (IF i < k THEN i ELSE i + 1) = (IF j < k THEN j ELSE j + 1)
      BY <2>1, <3>1, <3>2
    <3>. QED  BY <2>3, <3>1, <3>3
  <2>. QED  BY <2>4
<1>8. \A c \in Reachable("in") : c \in Cells /\ c # cell /\ walked[c].state = heap[c].state
  <2>1. ASSUME NEW c \in Reachable("in")
        PROVE  c \in Cells /\ c # cell /\ walked[c].state = heap[c].state
    <3>1. c \in Cells /\ c \notin Reachable("out")
      BY <1>1, ReachableFacts DEF Split
    <3>2. \A i \in S : left[i] \in Reachable("out")
      <4>1. \A i \in 1 .. Len(s) : s[i] \in Reachable("out")
        BY <1>1, LinkedFacts
      <4>2. \A i \in 1 .. Len(s) - 1 : left[i] = IF i < k THEN s[i] ELSE s[i + 1]
        BY <1>1, <1>2, LeftFacts
      <4>3. Len(s) \in Nat
        BY <1>1, Here
      <4>. HIDE DEF left, s
      <4>. QED  BY <1>4, <4>1, <4>2, <4>3
    <3>3. cell \in Reachable("out")
      BY <1>1, <1>2, LinkedFacts
    <3>4. walked[c] = heap[c]
      BY <3>1, <3>2 DEF WalkHeap
    <3>. QED  BY <3>1, <3>3, <3>4
  <2>. QED  BY <2>1
<1>9. Contents("in")' = Contents("in")
  <2>. HIDE DEF walked, cell
  <2>. QED  BY <1>1, <1>6, <1>8, ContentsStay
<1>10. ASSUME NEW i \in 1 .. Len(left)
       PROVE  heap'[left[i]].state =
                 IF i \in S THEN FirstWait(heap[left[i]].qos) ELSE heap[left[i]].state
  <2>1. left[i] \in Cells /\ left[i] # cell /\ heap[left[i]] \in CellType
    BY <1>5
  <2>2. heap'[left[i]].state = walked[left[i]].state
    BY <1>6, <2>1
  <2>. HIDE DEF left
  <2>3. CASE i \in S
    <3>. DEFINE r == heap[left[i]]
                st == FirstWait(r.qos)
    <3>1. walked[left[i]] = [r EXCEPT !.state = st]
      BY <2>1, <2>3 DEF WalkHeap
    <3>2. r \in CellType /\ st \in States
      BY <2>1, FirstWaits DEF States
    <3>. HIDE DEF r, st, walked
    <3>3. [r EXCEPT !.state = st].state = st
      BY ONLY <3>2, CellFields DEF States
    <3>. QED  BY <2>2, <2>3, <3>1, <3>3 DEF r, st
  <2>4. CASE i \notin S
    <3>1. ~ \E j \in S : left[j] = left[i]
      BY <1>4, <1>5, <1>7, <2>4
    <3>2. walked[left[i]] = heap[left[i]]
      BY <2>1, <3>1 DEF WalkHeap
    <3>. QED  BY <2>2, <2>4, <3>2
  <2>. QED  BY <2>3, <2>4
<1>11. Contents("out")' = Start(rest, S)
  <2>. HIDE DEF s, rest, left, cell, walked
  <2>1. Contents("out")' = MessagesAt(heap', left)
    BY <1>6 DEF Contents
  <2>2. MessagesAt(heap', left) = [i \in 1 .. Len(left) |-> Holds(heap'[left[i]])]
    BY ONLY <1>5, MessagesAtIs
  <2>3. rest = [i \in 1 .. Len(left) |-> Holds(heap[left[i]])]
    BY ONLY <1>5, MessagesAtIs
  <2>4. ASSUME NEW i \in 1 .. Len(left)
        PROVE  Holds(heap'[left[i]]) =
                 IF i \in S THEN [rest[i] EXCEPT !.state = FirstWait(rest[i].qos)]
                 ELSE rest[i]
    <3>1. rest[i] = Holds(heap[left[i]])
      BY <2>3
    <3>2. heap'[left[i]].mid = heap[left[i]].mid /\ heap'[left[i]].qos = heap[left[i]].qos
      BY <1>5, <1>6
    <3>3. heap'[left[i]].state =
             IF i \in S THEN FirstWait(heap[left[i]].qos) ELSE heap[left[i]].state
      BY <1>10
    <3>. QED  BY <3>1, <3>2, <3>3 DEF Holds
  <2>5. Start(rest, S) = [i \in 1 .. Len(left) |->
           IF i \in S THEN [rest[i] EXCEPT !.state = FirstWait(rest[i].qos)] ELSE rest[i]]
    <3>1. DOMAIN rest = 1 .. Len(left)
      BY <2>3
    <3>. QED  BY <3>1 DEF Start
  <2>. QED  BY <2>1, <2>2, <2>4, <2>5
<1>12. S \in Queues!Walks(Queues!FirstHeldBack(rest, Queues!Room(rest, inflight_messages - 1)))
  <2>1. S \in Queues!Walks(FirstHeldBack(rest, Room(rest, inflight_messages - 1)))
    BY DEF Started, Queues!Walks
  <2>. QED  BY <2>1, SameOperators
<1>13. rest = Queues!Without(Contents("out"), mid)
  BY SameOperators DEF Queues!Without, k
<1>. HIDE DEF rest, s, left, cell, walked
<1>14. Queues!TakeOut(mid)
  BY <1>2, <1>3, <1>9, <1>11, <1>12, <1>13, SameOperators DEF Queues!TakeOut
<1>. QED  BY <1>2, <1>14, SameOperators DEF Queues!Next

LEMMA PubrecQueues ==
    ASSUME Linked, NEW mid \in InFlowOf(Contents("out")), HandlePubrec(mid)
    PROVE  Queues!Next
<1>. DEFINE k == Position(Contents("out"), mid)
            s == Chain("out")
            q == Contents("out")
            cell == s[k]
<1>0. Base' /\ Running'
  <2>1. IInv /\ Base
    BY DEF Linked, IInv, Base
  <2>. QED  BY <2>1, PubrecBase DEF HandlePubrec, Running
<1>1. /\ Sound(heap, head) /\ Typed /\ "out" \in Directions /\ "in" \in Directions /\ Split
      /\ UNCHANGED <<head, inflight_messages>>
  BY LinkedFacts DEF HandlePubrec
<1>2. /\ cell \in Flow /\ cell \in Cells /\ SameLinks(heap')
      /\ heap'[cell].state = "wait_for_pubcomp"
      /\ \A c \in Cells : c # cell => heap'[c] = heap[c]
  BY PubrecLinks
<1>3. k \in 1 .. Len(s) /\ mid \in MidsOf(q)
  BY <1>1, InFlowPlace
<1>4. Chain("out")' = s /\ Chain("in")' = Chain("in")
  BY <1>0, <1>1, <1>2, SameLinksStay
<1>5. /\ s \in Seq(Cells) /\ \A i \in 1 .. Len(s) : s[i] \in Cells
      /\ \A i, j \in 1 .. Len(s) : s[i] = s[j] => i = j
  BY <1>1, Here
<1>6. \A c \in Reachable("in") : c \in Cells /\ c # cell
  BY <1>1, <1>2, ReachableFacts DEF Split, Flow
<1>7. Contents("in")' = Contents("in")
  BY <1>1, <1>2, <1>4, <1>6, ContentsStay
<1>8. q = [i \in 1 .. Len(s) |-> Holds(heap[s[i]])]
  BY <1>5, MessagesAtIs DEF Contents
<1>. HIDE DEF s, k, q
<1>9. Contents("out")' = [i \in 1 .. Len(s) |-> Holds(heap'[s[i]])]
  <2>1. Contents("out")' = MessagesAt(heap', s)
    BY <1>4 DEF Contents
  <2>2. MessagesAt(heap', s) = [i \in 1 .. Len(s) |-> Holds(heap'[s[i]])]
    BY ONLY <1>5, MessagesAtIs
  <2>. QED  BY <2>1, <2>2
<1>10. ASSUME NEW i \in 1 .. Len(s)
       PROVE  Holds(heap'[s[i]]) =
                 IF i = k THEN [q[k] EXCEPT !.state = "wait_for_pubcomp"] ELSE q[i]
  <2>0. q[i] = Holds(heap[s[i]])
    BY <1>8
  <2>1. CASE i = k
    <3>1. heap'[cell].mid = heap[cell].mid /\ heap'[cell].qos = heap[cell].qos
      BY <1>2 DEF SameLinks
    <3>. QED  BY <1>2, <2>0, <2>1, <3>1 DEF Holds
  <2>2. CASE i # k
    <3>1. heap'[s[i]] = heap[s[i]]
      BY <1>2, <1>3, <1>5, <2>2
    <3>. QED  BY <2>0, <2>2, <3>1
  <2>. QED  BY <2>1, <2>2
<1>11. Contents("out")' = [q EXCEPT ![k].state = "wait_for_pubcomp"]
  <2>1. [q EXCEPT ![k].state = "wait_for_pubcomp"] =
           [i \in 1 .. Len(s) |-> IF i = k THEN [q[k] EXCEPT !.state = "wait_for_pubcomp"]
                                  ELSE q[i]]
    BY <1>3, <1>8
  <2>. QED  BY <1>9, <1>10, <2>1
<1>12. Queues!UpdateOut(mid)
  BY <1>1, <1>3, <1>7, <1>11, SameOperators DEF Queues!UpdateOut, q, k
<1>. QED  BY <1>3, <1>12, SameOperators DEF Queues!Next, q

LEMMA ResetOutQueues ==
    ASSUME Linked, Base', ResetOut
    PROVE  Queues!Next
<1>. DEFINE s == Chain("out")
            q == Contents("out")
<1>1. /\ Sound(heap, head) /\ Typed /\ "out" \in Directions /\ "in" \in Directions /\ Split
      /\ head' = head /\ inflight_messages' = Len(s) /\ pc' = "loop"
  BY LinkedFacts DEF ResetOut, Occupied
<1>2. /\ SameLinks(heap')
      /\ \A i \in 1 .. Len(s) : heap'[s[i]].state = ResetState(q[i], i)
      /\ \A c \in Cells : c \notin Reachable("out") => heap'[c] = heap[c]
  BY <1>1, ResetOutFacts
<1>3. Chain("out")' = s /\ Chain("in")' = Chain("in")
  BY <1>1, <1>2, SameLinksStay DEF Running
<1>4. s \in Seq(Cells) /\ (\A i \in 1 .. Len(s) : s[i] \in Cells)
      /\ q \in Seq(MessageType) /\ Len(q) = Len(s)
  BY <1>1, Here, ContentsFacts
<1>5. \A c \in Reachable("in") : c \in Cells /\ heap'[c] = heap[c]
  BY <1>1, <1>2, ReachableFacts DEF Split
<1>6. Contents("in")' = Contents("in")
  BY <1>1, <1>3, <1>5, ContentsStay
<1>7. q = [i \in 1 .. Len(s) |-> Holds(heap[s[i]])]
  BY <1>4, MessagesAtIs DEF Contents
<1>. HIDE DEF s, q
<1>8. Contents("out")' = [i \in 1 .. Len(s) |-> Holds(heap'[s[i]])]
  <2>1. Contents("out")' = MessagesAt(heap', s)
    BY <1>3 DEF Contents
  <2>2. MessagesAt(heap', s) = [i \in 1 .. Len(s) |-> Holds(heap'[s[i]])]
    BY ONLY <1>4, MessagesAtIs
  <2>. QED  BY <2>1, <2>2
<1>9. ASSUME NEW i \in 1 .. Len(s)
      PROVE  Holds(heap'[s[i]]) = [q[i] EXCEPT !.state = ResetState(q[i], i)]
  <2>1. q[i] = Holds(heap[s[i]])
    BY <1>7
  <2>2. heap'[s[i]].mid = heap[s[i]].mid /\ heap'[s[i]].qos = heap[s[i]].qos
    BY <1>2, <1>4 DEF SameLinks
  <2>3. heap'[s[i]].state = ResetState(q[i], i)
    BY <1>2
  <2>. DEFINE st == ResetState(q[i], i)
  <2>. HIDE DEF st
  <2>4. [Holds(heap[s[i]]) EXCEPT !.state = st] =
           [mid |-> heap[s[i]].mid, qos |-> heap[s[i]].qos, state |-> st]
    BY DEF Holds
  <2>. QED  BY <2>1, <2>2, <2>3, <2>4 DEF Holds, st
<1>10. Contents("out")' = ReconnectReset(q)
  <2>1. DOMAIN q = 1 .. Len(s)
    BY <1>7
  <2>. QED  BY <1>8, <1>9, <2>1 DEF ReconnectReset
<1>11. Queues!Reset
  BY <1>1, <1>4, <1>6, <1>10, SameOperators DEF Queues!Reset, q
<1>. QED  BY <1>11 DEF Queues!Next

LEMMA CleanupQueues ==
    ASSUME Linked, CleanupAll
    PROVE  Queues!Next
<1>1. pc' = "destroyed" /\ inflight_messages' = inflight_messages
      /\ head' = [dir \in Directions |-> NULL]
  BY DEF CleanupAll
<1>2. Typed'
  BY LinkedFacts, CleanupBase DEF Base
<1>3. \A c \in Cells : heap'[c] = Unused
  <2>1. Lists' /\ crossed' = crossed
    BY CleanupLists DEF CleanupAll
  <2>. QED  BY <1>1, <2>1 DEF Lists, Live, Linked
<1>4. Ordered(heap')
  BY <1>3 DEF Ordered, Unused
<1>5. ChainOf(heap', NULL) = <<>>
  BY <1>4, ChainOfValue
<1>6. Chain("in")' = <<>> /\ Chain("out")' = <<>>
  BY <1>1, <1>5 DEF Chain, Directions
<1>7. MessagesAt(heap', <<>>) = <<>>
  BY DEF MessagesAt
<1>8. Contents("in")' = <<>> /\ Contents("out")' = <<>>
  BY <1>6, <1>7 DEF Contents
<1>9. Queues!Empty
  BY <1>1, <1>8 DEF Queues!Empty
<1>. QED  BY <1>9 DEF Queues!Next

LEMMA HeapStays ==
    ASSUME UNCHANGED <<heap, head, inflight_messages>>
    PROVE  UNCHANGED Queues!queues
BY DEF Queues!queues, Contents, Chain

LEMMA QueuesStep ==
    ASSUME IInv, [Next]_vars
    PROVE  [crossed \/ Queues!Next]_(Queues!queues)
<1>1. Base'
  BY BaseStep DEF Base, IInv
<1>2. CASE UNCHANGED vars
  BY <1>2, HeapStays DEF vars
<1>3. CASE Next /\ ~ crossed
  <2>1. Linked
    BY <1>3 DEF Next, Publish, HandlePublish, HandlePubrel, HandlePubackcomp, HandlePubrec,
       ResetInBegin, ResetInKeep, ResetInDrop, ResetInDropHead, ResetInTurn, ResetInEnd,
       ResetOut, CleanupAll, Running, Linked
  <2>2. ~ ResetInDrop /\ ~ ResetInDropHead
    BY <2>1, ResetKeeps DEF ResetInDrop, ResetInDropHead
  <2>3. ResetInBegin \/ ResetInKeep \/ ResetInEnd => UNCHANGED Queues!queues
    BY HeapStays DEF ResetInBegin, ResetInKeep, ResetInTurn, ResetInEnd
  <2>. QED
    BY <1>1, <1>3, <2>1, <2>2, <2>3, PublishQueues, HandlePublishQueues, PubrelQueues,
       PubackcompQueues, PubrecQueues, ResetOutQueues, CleanupQueues DEF Next
<1>. QED  BY <1>2, <1>3

\* The linked lists of messages_mosq.c implement the two queues of QueueSpec: first in
\* first out, removal by mid, the window and the reset, until a reset crosses them.
THEOREM ListsRefine == Spec => ImplementsQueues
<1>1. Init => Queues!Init
  <2>. SUFFICES ASSUME Init  PROVE Queues!Init
    OBVIOUS
  <2>1. Ordered(heap) /\ "in" \in Directions /\ "out" \in Directions
    BY DEF Init, Ordered, Unused, Directions
  <2>2. Chain("in") = <<>> /\ Chain("out") = <<>>
    BY <2>1, ChainOfValue DEF Chain, Init
  <2>3. MessagesAt(heap, <<>>) = <<>>
    BY DEF MessagesAt
  <2>. QED  BY <2>2, <2>3 DEF Contents, Init, Queues!Init
<1>2. IInv /\ [Next]_vars => [crossed \/ Queues!Next]_(Queues!queues)
  BY QueuesStep
<1>. QED  BY <1>1, <1>2, Invariance, PTL DEF Spec, ImplementsQueues
=============================================================================
