-------------------------- MODULE OutMessagesProofs --------------------------
(***************************************************************************)
(* Theorems about OutMessages, for every window size, every set of         *)
(* publishing threads and every bound that keeps mids from wrapping.       *)
(* First come the facts about the list operations of MessageQueue, for     *)
(* lists of any length, that those of Session cite as well.                *)
(***************************************************************************)
EXTENDS OutMessages, FiniteSetTheorems, SequenceTheorems, TLAPS

\* The entries of a queue, whatever mids are in use.
Entry(M) == [mid : M, qos : {1, 2}, state : OutStates]

\* Taking an entry out of a list shortens it by one and shifts what follows.
LEMMA RemoveAtProperties ==
    ASSUME NEW S, NEW q \in Seq(S), NEW i \in 1 .. Len(q)
    PROVE  /\ RemoveAt(q, i) \in Seq(S)
           /\ Len(RemoveAt(q, i)) = Len(q) - 1
           /\ \A j \in 1 .. Len(q) - 1 :
                RemoveAt(q, i)[j] = IF j < i THEN q[j] ELSE q[j + 1]
<1>. DEFINE l == SubSeq(q, 1, i-1)
            r == SubSeq(q, i+1, Len(q))
<1>1. /\ l \in Seq(S)
      /\ Len(l) = i - 1
      /\ \A j \in 1 .. i-1 : l[j] = q[j]
  BY SubSeqProperties, ElementOfSeq
<1>2. /\ r \in Seq(S)
      /\ Len(r) = Len(q) - i
      /\ \A j \in 1 .. Len(q) - i : r[j] = q[i + j]
  BY SubSeqProperties, ElementOfSeq
<1>3. RemoveAt(q, i) = l \o r
  BY DEF RemoveAt
<1>. HIDE DEF l, r
<1>4. /\ l \o r \in Seq(S)
      /\ Len(l \o r) = Len(l) + Len(r)
      /\ \A j \in 1 .. Len(l) + Len(r) :
            (l \o r)[j] = IF j <= Len(l) THEN l[j] ELSE r[j - Len(l)]
  BY ONLY <1>1, <1>2, ConcatProperties, Zenon
<1>5. /\ Len(l \o r) = Len(q) - 1
      /\ \A j \in 1 .. Len(q) - 1 : (l \o r)[j] = IF j < i THEN q[j] ELSE q[j + 1]
  BY <1>1, <1>2, <1>4
<1>. QED
  BY <1>3, <1>4, <1>5

\* The list search finds the first entry with a mid the list contains.
LEMMA PositionProperties ==
    ASSUME NEW M, NEW q \in Seq(Entry(M)), NEW mid \in MidsOf(q)
    PROVE  /\ Position(q, mid) \in 1 .. Len(q)
           /\ q[Position(q, mid)].mid = mid
<1>. DEFINE At == {i \in Nat : i \in DOMAIN q /\ q[i].mid = mid}
<1>1. At # {} /\ At \subseteq Nat
  BY DEF MidsOf
<1>2. \E i \in At : \A j \in At : ~ (<<j, i>> \in OpToRel(<, Nat))
  BY <1>1, NatLessThanWellFounded, WFMin
<1>3. PICK i \in At : \A j \in At : ~ (j < i)
  BY <1>2 DEF OpToRel
<1>4. /\ i \in DOMAIN q /\ q[i].mid = mid
      /\ \A j \in 1 .. i-1 : q[j].mid # mid
  BY <1>3
<1>. QED
  BY <1>4 DEF Position

\* A list has at most as many mids as entries.
LEMMA MidsOfFinite ==
    ASSUME NEW M, NEW q \in Seq(Entry(M))
    PROVE  IsFiniteSet(MidsOf(q)) /\ Cardinality(MidsOf(q)) <= Len(q)
<1>. DEFINE f == [i \in 1 .. Len(q) |-> q[i].mid]
<1>1. f \in Surjection(1 .. Len(q), MidsOf(q))
  BY DEF MidsOf, Surjection
<1>. HIDE DEF f
<1>a. Len(q) \in Nat
  OBVIOUS
<1>2. IsFiniteSet(1 .. Len(q)) /\ Cardinality(1 .. Len(q)) = Len(q)
  BY ONLY <1>a, FS_Interval
<1>. QED
  BY <1>1, <1>2, FS_Surjection

\* The same for the mids at some of the positions.
LEMMA MidsAtFinite ==
    ASSUME NEW M, NEW q \in Seq(Entry(M)), NEW S \in SUBSET (1 .. Len(q))
    PROVE  /\ IsFiniteSet(S)
           /\ IsFiniteSet({q[i].mid : i \in S})
           /\ Cardinality({q[i].mid : i \in S}) <= Cardinality(S)
<1>. DEFINE f == [i \in S |-> q[i].mid]
            T == {q[i].mid : i \in S}
<1>1. f \in Surjection(S, T)
  BY DEF Surjection
<1>a. Len(q) \in Nat
  OBVIOUS
<1>b. IsFiniteSet(1 .. Len(q))
  BY ONLY <1>a, FS_Interval
<1>2. IsFiniteSet(S)
  BY ONLY <1>b, S \in SUBSET (1 .. Len(q)), FS_Subset
<1>. HIDE DEF f, T
<1>3. IsFiniteSet(T) /\ Cardinality(T) <= Cardinality(S)
  BY <1>1, <1>2, FS_Surjection
<1>. QED
  BY <1>2, <1>3 DEF T

\* Removing the message a mid names takes exactly this mid out of a list of
\* distinct mids, and out of the messages in flow.
LEMMA RemoveMessage ==
    ASSUME NEW M, NEW q \in Seq(Entry(M)), DistinctMids(q), NEW mid \in MidsOf(q)
    PROVE  LET r == RemoveAt(q, Position(q, mid))
           IN  /\ r \in Seq(Entry(M))
               /\ Len(r) = Len(q) - 1
               /\ DistinctMids(r)
               /\ MidsOf(r) = MidsOf(q) \ {mid}
               /\ InFlowOf(r) = InFlowOf(q) \ {mid}
<1>. DEFINE p == Position(q, mid)
            r == RemoveAt(q, p)
<1>1. p \in 1 .. Len(q) /\ q[p].mid = mid
  BY PositionProperties
<1>. HIDE DEF p
<1>2. /\ r \in Seq(Entry(M))
      /\ Len(r) = Len(q) - 1
      /\ \A j \in 1 .. Len(q) - 1 : r[j] = IF j < p THEN q[j] ELSE q[j + 1]
  BY <1>1, RemoveAtProperties
<1>. HIDE DEF r
<1>3. \A j \in DOMAIN r : \E i \in DOMAIN q : i # p /\ r[j] = q[i]
  <2>. TAKE j \in DOMAIN r
  <2>1. CASE j < p
    BY <1>1, <1>2, <2>1
  <2>2. CASE ~ (j < p)
    <3>1. j + 1 \in DOMAIN q /\ j + 1 # p /\ r[j] = q[j + 1]
      BY <1>1, <1>2, <2>2
    <3>. QED  BY <3>1
  <2>. QED  BY <2>1, <2>2
<1>4. \A i \in DOMAIN q : i # p => \E j \in DOMAIN r : r[j] = q[i]
  <2>. SUFFICES ASSUME NEW i \in DOMAIN q, i # p
                PROVE  \E j \in DOMAIN r : r[j] = q[i]
    OBVIOUS
  <2>1. CASE i < p
    BY <1>1, <1>2, <2>1
  <2>2. CASE ~ (i < p)
    <3>1. i - 1 \in DOMAIN r /\ r[i - 1] = q[i]
      BY <1>1, <1>2, <2>2
    <3>. QED  BY <3>1
  <2>. QED  BY <2>1, <2>2
<1>5. DistinctMids(r)
  <2>. SUFFICES ASSUME NEW i \in DOMAIN r, NEW j \in DOMAIN r, r[i].mid = r[j].mid
                PROVE  i = j
    BY DEF DistinctMids
  <2>. DEFINE old(k) == IF k < p THEN k ELSE k + 1
  <2>1. /\ old(i) \in DOMAIN q /\ old(j) \in DOMAIN q
        /\ r[i] = q[old(i)] /\ r[j] = q[old(j)]
    BY <1>1, <1>2
  <2>2. old(i) = old(j)
    BY <2>1 DEF DistinctMids
  <2>. QED  BY <1>1, <1>2, <2>2
<1>6. \A i \in DOMAIN q : i # p <=> q[i].mid # mid
  BY <1>1 DEF DistinctMids
<1>7. MidsOf(r) = MidsOf(q) \ {mid}
  BY <1>3, <1>4, <1>6 DEF MidsOf
<1>8. InFlowOf(r) = InFlowOf(q) \ {mid}
  BY <1>3, <1>4, <1>6 DEF InFlowOf, HeldBack
<1>. QED
  BY <1>2, <1>5, <1>7, <1>8 DEF r, p

\* The walk starts at most as many messages as the window has room for.
LEMMA FirstHeldBackBound ==
    ASSUME NEW M, NEW q \in Seq(Entry(M)), NEW n \in Int
    PROVE  /\ FirstHeldBack(q, n) \in SUBSET (1 .. Len(q))
           /\ FirstHeldBack(q, n) \subseteq HeldBack(q)
           /\ IsFiniteSet(FirstHeldBack(q, n))
           /\ Cardinality(FirstHeldBack(q, n)) <= IF n > 0 THEN n ELSE 0
<1>. DEFINE H == HeldBack(q)
            upTo(i) == {j \in H : j <= i}
            F == FirstHeldBack(q, n)
            rank == [i \in F |-> Cardinality(upTo(i))]
<1>0. Len(q) \in Nat /\ H \subseteq 1 .. Len(q)
  BY DEF HeldBack
<1>1. IsFiniteSet(1 .. Len(q)) /\ IsFiniteSet(1 .. n)
  BY ONLY <1>0, n \in Int, FS_Interval
<1>2. \A i \in H : IsFiniteSet(upTo(i))
  <2>. SUFFICES ASSUME NEW i \in H  PROVE IsFiniteSet(upTo(i))
    OBVIOUS
  <2>1. upTo(i) \in SUBSET (1 .. Len(q))
    BY <1>0
  <2>. QED  BY ONLY <1>1, <2>1, FS_Subset
<1>3. \A i \in H : Cardinality(upTo(i)) \in Nat /\ Cardinality(upTo(i)) >= 1
  <2>. SUFFICES ASSUME NEW i \in H
                PROVE  Cardinality(upTo(i)) \in Nat /\ Cardinality(upTo(i)) >= 1
    OBVIOUS
  <2>1. i \in upTo(i)
    BY <1>0
  <2>2. Cardinality(upTo(i)) \in Nat
    BY ONLY <1>2, i \in H, FS_CardinalityType
  <2>3. Cardinality(upTo(i)) # 0
    BY ONLY <1>2, <2>1, i \in H, FS_EmptySet
  <2>. QED  BY ONLY <2>2, <2>3
<1>4. \A i, k \in H : i < k => Cardinality(upTo(i)) # Cardinality(upTo(k))
  <2>. SUFFICES ASSUME NEW i \in H, NEW k \in H, i < k
                PROVE  Cardinality(upTo(i)) # Cardinality(upTo(k))
    OBVIOUS
  <2>1. upTo(i) \in SUBSET upTo(k) /\ k \in upTo(k) /\ k \notin upTo(i)
    BY <1>0
  <2>2. Cardinality(upTo(k)) = Cardinality(upTo(i)) => upTo(k) = upTo(i)
    BY ONLY <1>2, <2>1, k \in H, FS_Subset
  <2>. QED  BY ONLY <2>1, <2>2
<1>5. F = {i \in H : Cardinality(upTo(i)) <= n}
  BY DEF FirstHeldBack
<1>. HIDE DEF upTo, F, H
<1>6. rank \in [F -> 1 .. n]
  BY <1>3, <1>5
<1>7. \A i, k \in F : rank[i] = rank[k] => i = k
  BY <1>0, <1>4, <1>5
<1>8. rank \in Injection(F, 1 .. n)
  BY <1>6, <1>7 DEF Injection, IsInjective
<1>. HIDE DEF rank
<1>9. IsFiniteSet(F) /\ Cardinality(F) <= Cardinality(1 .. n)
  BY ONLY <1>1, <1>8, FS_Injection
<1>10. Cardinality(1 .. n) = IF n > 0 THEN n ELSE 0
  <2>1. Cardinality(1 .. n) = IF 1 > n THEN 0 ELSE n - 1 + 1
    BY ONLY n \in Int, FS_Interval
  <2>. QED  BY <2>1
<1>11. F \subseteq H
  BY <1>5
<1>. QED
  BY <1>0, <1>9, <1>10, <1>11 DEF F, H

\* Starting messages changes their states only; they join the ones in flow.
LEMMA StartProperties ==
    ASSUME NEW M, NEW q \in Seq(Entry(M)), NEW S \in SUBSET (1 .. Len(q))
    PROVE  /\ Start(q, S) \in Seq(Entry(M))
           /\ Len(Start(q, S)) = Len(q)
           /\ \A i \in 1 .. Len(q) : Start(q, S)[i].mid = q[i].mid
           /\ DistinctMids(q) => DistinctMids(Start(q, S))
           /\ MidsOf(Start(q, S)) = MidsOf(q)
           /\ InFlowOf(Start(q, S)) = InFlowOf(q) \cup {q[i].mid : i \in S}
<1>. DEFINE t == Start(q, S)
<1>1. /\ t \in Seq(Entry(M))
      /\ Len(t) = Len(q)
      /\ \A i \in 1 .. Len(q) : /\ t[i].mid = q[i].mid
                                /\ i \in S => t[i].state # "invalid"
                                /\ i \notin S => t[i] = q[i]
  <2>1. t = [i \in 1 .. Len(q) |->
               IF i \in S THEN [q[i] EXCEPT !.state = FirstWait(q[i].qos)] ELSE q[i]]
    BY DEF Start
  <2>2. \A i \in 1 .. Len(q) : /\ t[i] \in Entry(M)
                               /\ t[i].mid = q[i].mid
                               /\ i \in S => t[i].state # "invalid"
                               /\ i \notin S => t[i] = q[i]
    <3>. SUFFICES ASSUME NEW i \in 1 .. Len(q)
                  PROVE  /\ t[i] \in Entry(M)
                         /\ t[i].mid = q[i].mid
                         /\ i \in S => t[i].state # "invalid"
                         /\ i \notin S => t[i] = q[i]
      OBVIOUS
    <3>1. q[i] \in Entry(M)
      OBVIOUS
    <3>. HIDE DEF t
    <3>2. CASE i \in S
      <4>1. t[i] = [q[i] EXCEPT !.state = FirstWait(q[i].qos)]
        BY <2>1, <3>2
      <4>. QED  BY <3>1, <3>2, <4>1 DEF Entry, FirstWait, OutStates
    <3>3. CASE i \notin S
      BY <2>1, <3>1, <3>3
    <3>. QED  BY <3>2, <3>3
  <2>. HIDE DEF t
  <2>3. t \in Seq(Entry(M)) /\ Len(t) = Len(q)
    BY <2>1, <2>2
  <2>. QED  BY <2>2, <2>3
<1>. HIDE DEF t
<1>2. MidsOf(t) = MidsOf(q) /\ (DistinctMids(q) => DistinctMids(t))
  BY <1>1 DEF MidsOf, DistinctMids
<1>3. InFlowOf(t) = InFlowOf(q) \cup {q[i].mid : i \in S}
  BY <1>1 DEF InFlowOf, HeldBack
<1>. QED
  BY <1>1, <1>2, <1>3 DEF t

\* The reset keeps every message, and with a window of MaxInflight leaves at
\* most MaxInflight - 1 of them in flow.
LEMMA ResetProperties ==
    ASSUME NEW M, NEW q \in Seq(Entry(M))
    PROVE  /\ ReconnectReset(q) \in Seq(Entry(M))
           /\ Len(ReconnectReset(q)) = Len(q)
           /\ DistinctMids(q) => DistinctMids(ReconnectReset(q))
           /\ MidsOf(ReconnectReset(q)) = MidsOf(q)
           /\ InFlowOf(ReconnectReset(q)) \subseteq MidsOf(q)
           /\ IsFiniteSet(InFlowOf(ReconnectReset(q)))
           /\ MaxInflight > 0 =>
                Cardinality(InFlowOf(ReconnectReset(q))) <= MaxInflight - 1
<1>. USE MaxInflightAssumption
<1>. DEFINE t == ReconnectReset(q)
            first == {i \in 1 .. Len(q) : i < MaxInflight}
            firstMids == {q[i].mid : i \in first}
<1>1. /\ t \in Seq(Entry(M))
      /\ Len(t) = Len(q)
      /\ \A i \in 1 .. Len(q) : /\ t[i].mid = q[i].mid
                                /\ MaxInflight > 0 /\ ~ (i < MaxInflight) => t[i].state = "invalid"
  <2>1. t = [i \in 1 .. Len(q) |-> [q[i] EXCEPT !.state = ResetState(q[i], i)]]
    BY DEF ReconnectReset
  <2>2. \A i \in 1 .. Len(q) :
            /\ t[i] \in Entry(M)
            /\ t[i].mid = q[i].mid
            /\ MaxInflight > 0 /\ ~ (i < MaxInflight) => t[i].state = "invalid"
    <3>. SUFFICES ASSUME NEW i \in 1 .. Len(q)
                  PROVE  /\ t[i] \in Entry(M)
                         /\ t[i].mid = q[i].mid
                         /\ MaxInflight > 0 /\ ~ (i < MaxInflight) => t[i].state = "invalid"
      OBVIOUS
    <3>1. q[i] \in Entry(M)
      OBVIOUS
    <3>2. /\ ResetState(q[i], i) \in OutStates
          /\ MaxInflight > 0 /\ ~ (i < MaxInflight) => ResetState(q[i], i) = "invalid"
      BY <3>1 DEF ResetState, HasRoom, Entry, OutStates
    <3>. HIDE DEF t
    <3>3. t[i] = [q[i] EXCEPT !.state = ResetState(q[i], i)]
      BY <2>1
    <3>. QED  BY <3>1, <3>2, <3>3 DEF Entry
  <2>. HIDE DEF t
  <2>3. t \in Seq(Entry(M)) /\ Len(t) = Len(q)
    BY <2>1, <2>2
  <2>. QED  BY <2>2, <2>3
<1>. HIDE DEF t
<1>2. MidsOf(t) = MidsOf(q) /\ (DistinctMids(q) => DistinctMids(t))
  BY <1>1 DEF MidsOf, DistinctMids
<1>3. InFlowOf(t) \subseteq MidsOf(q)
  BY <1>1 DEF InFlowOf, HeldBack, MidsOf
<1>4. IsFiniteSet(InFlowOf(t))
  BY <1>3, MidsOfFinite, FS_Subset
<1>5. ASSUME MaxInflight > 0
      PROVE  Cardinality(InFlowOf(t)) <= MaxInflight - 1
  <2>1. InFlowOf(t) \subseteq firstMids
    BY <1>1, <1>5 DEF InFlowOf, HeldBack
  <2>2. first \in SUBSET (1 .. Len(q)) /\ first \in SUBSET (1 .. MaxInflight - 1)
    OBVIOUS
  <2>. HIDE DEF first
  <2>3. /\ IsFiniteSet(first) /\ IsFiniteSet(firstMids)
        /\ Cardinality(firstMids) <= Cardinality(first)
    BY ONLY <2>2, q \in Seq(Entry(M)), MidsAtFinite
  <2>4. /\ IsFiniteSet(1 .. MaxInflight - 1)
        /\ Cardinality(1 .. MaxInflight - 1) = MaxInflight - 1
    <3>1. MaxInflight - 1 \in Int
      OBVIOUS
    <3>2. /\ IsFiniteSet(1 .. MaxInflight - 1)
          /\ Cardinality(1 .. MaxInflight - 1) =
                IF 1 > MaxInflight - 1 THEN 0 ELSE MaxInflight - 1 - 1 + 1
      BY ONLY <3>1, FS_Interval
    <3>. QED  BY <3>2, <1>5
  <2>5. Cardinality(first) <= Cardinality(1 .. MaxInflight - 1)
    BY ONLY <2>2, <2>4, FS_Subset
  <2>. HIDE DEF firstMids
  <2>6. Cardinality(InFlowOf(t)) <= Cardinality(firstMids)
    BY ONLY <2>1, <2>3, FS_Subset
  <2>7. /\ Cardinality(InFlowOf(t)) \in Nat /\ Cardinality(firstMids) \in Nat
        /\ Cardinality(first) \in Nat
    BY ONLY <1>4, <2>3, FS_CardinalityType
  <2>. QED
    BY <2>3, <2>4, <2>5, <2>6, <2>7
<1>. QED
  BY <1>1, <1>2, <1>3, <1>4, <1>5 DEF t

-----------------------------------------------------------------------------
USE MaxInflightAssumption, PublishersAssumption, BoundsAssumption

\* Every mid in use was generated, and later ones are still unused.
MidsGenerated ==
    /\ last_mid = published
    /\ \A mid \in MidsOf(out_messages) : mid <= last_mid
    /\ \A p \in Publishers : pending[p].mid <= last_mid
    /\ \A pkt \in sent : pkt.mid <= last_mid
    /\ \A mid \in Mids : mid > last_mid => notified[mid] = 0

\* WindowBound for the messages held back again but still sent or about to be:
\* an acknowledgement of one of them brings it back into its flow.
CoveredBound ==
    MaxInflight > 0 =>
        Cardinality(Covered) <= MaxInflight + Cardinality(Publishers) - 1

\* Without a wrap no two messages of the list have the same mid, so an
\* acknowledgement names one of them.
MidsDistinct == DistinctMids(out_messages)

\* The inductive invariant.
IInv ==
    /\ TypeOK
    /\ MidsGenerated
    /\ MidsDistinct
    /\ InflightCoversFlow
    /\ CoveredBound
    /\ NotifiedOnce

-----------------------------------------------------------------------------
\* Messages are entries over the generated mids.
LEMMA MessageIsEntry == Message = Entry(Mids)
BY DEF Message, Entry

\* The mids the client keeps lie between 1 and MaxMid; 0 stands for none.
LEMMA MidTypes ==
    ASSUME TypeOK
    PROVE  /\ MidsOf(out_messages) \subseteq 1 .. MaxMid
           /\ \A p \in Publishers : pending[p].mid \in 0 .. MaxMid
           /\ \A pkt \in sent : pkt.mid \in 1 .. MaxMid
<1>1. MidsOf(out_messages) \subseteq 1 .. MaxMid
  <2>. SUFFICES ASSUME NEW i \in DOMAIN out_messages
                PROVE  out_messages[i].mid \in 1 .. MaxMid
    BY DEF MidsOf
  <2>1. out_messages[i] \in Message
    BY DEF TypeOK
  <2>. QED  BY <2>1 DEF Message, Mids
<1>2. \A p \in Publishers : pending[p].mid \in 0 .. MaxMid
  <2>. SUFFICES ASSUME NEW p \in Publishers  PROVE pending[p].mid \in 0 .. MaxMid
    OBVIOUS
  <2>1. pending[p] \in Packet \/ pending[p] = NoPacket
    BY DEF TypeOK
  <2>. QED  BY <2>1 DEF Packet, NoPacket, Mids
<1>3. \A pkt \in sent : pkt.mid \in 1 .. MaxMid
  BY DEF TypeOK, Packet, Mids
<1>. QED  BY <1>1, <1>2, <1>3

\* The covered messages are messages of the list, hence finitely many.
LEMMA CoveredFinite ==
    ASSUME TypeOK
    PROVE  /\ Covered \subseteq MidsOf(out_messages)
           /\ IsFiniteSet(Covered)
           /\ Cardinality(Covered) \in Nat
           /\ Cardinality(Covered) <= Len(out_messages)
<1>1. out_messages \in Seq(Entry(Mids))
  BY MessageIsEntry DEF TypeOK
<1>2. Covered \subseteq MidsOf(out_messages)
  BY DEF Covered, InFlow, InFlowOf, Touched, MidsOf
<1>3. /\ IsFiniteSet(MidsOf(out_messages))
      /\ Cardinality(MidsOf(out_messages)) <= Len(out_messages)
  BY ONLY <1>1, MidsOfFinite
<1>4. IsFiniteSet(Covered) /\ Cardinality(Covered) <= Cardinality(MidsOf(out_messages))
  BY ONLY <1>2, <1>3, FS_Subset
<1>5. Cardinality(Covered) \in Nat /\ Cardinality(MidsOf(out_messages)) \in Nat
  BY ONLY <1>3, <1>4, FS_CardinalityType
<1>6. Len(out_messages) \in Nat
  BY <1>1
<1>. QED
  BY ONLY <1>2, <1>3, <1>4, <1>5, <1>6

\* There is at least one publishing thread.
LEMMA PublishersCount == Cardinality(Publishers) \in Nat \ {0}
BY FS_CardinalityType, FS_EmptySet

-----------------------------------------------------------------------------
\* What _mosquitto_message_remove does to the list and the window, however
\* many of the messages it may start it starts, and however many it writes.
LEMMA RemovalStep ==
    ASSUME IInv, NEW mid \in Mids, mid \in MidsOf(out_messages), AckArrives(mid),
           NEW S \in SUBSET Startable(mid), NEW W \in SUBSET S,
           RemoveAndStart(mid, S, W)
    PROVE  /\ out_messages' \in Seq(Message)
           /\ MidsOf(out_messages') = MidsOf(out_messages) \ {mid}
           /\ MidsDistinct'
           /\ inflight_messages' \in Nat
           /\ sent' \subseteq Packet
           /\ \A pkt \in sent' : pkt.mid <= last_mid
           /\ InflightCoversFlow'
           /\ CoveredBound'
<1>. DEFINE q == out_messages
            r == Rest(mid)
            room == Room(r, inflight_messages - 1)
            started == {r[i].mid : i \in S}
<1>. USE DEF IInv
<1>1. q \in Seq(Entry(Mids)) /\ DistinctMids(q)
  BY MessageIsEntry DEF TypeOK, MidsDistinct
<1>2. /\ r \in Seq(Entry(Mids))
      /\ Len(r) = Len(q) - 1
      /\ DistinctMids(r)
      /\ MidsOf(r) = MidsOf(q) \ {mid}
      /\ InFlowOf(r) = InFlowOf(q) \ {mid}
  BY ONLY <1>1, mid \in MidsOf(q), RemoveMessage DEF Rest
<1>. HIDE DEF r
<1>3. Len(r) \in Nat /\ room \in Int
  BY <1>2 DEF TypeOK, Room
<1>4. /\ Startable(mid) \in SUBSET (1 .. Len(r))
      /\ IsFiniteSet(Startable(mid))
      /\ Cardinality(Startable(mid)) <= IF room > 0 THEN room ELSE 0
  BY <1>2, <1>3, FirstHeldBackBound DEF Startable, r
<1>. HIDE DEF room
<1>5. /\ S \in SUBSET (1 .. Len(r))
      /\ IsFiniteSet(S)
      /\ Cardinality(S) <= Cardinality(Startable(mid))
      /\ Cardinality(S) \in Nat
      /\ Cardinality(Startable(mid)) \in Nat
  <2>1. IsFiniteSet(S) /\ Cardinality(S) <= Cardinality(Startable(mid))
    BY ONLY <1>4, S \in SUBSET Startable(mid), FS_Subset
  <2>. QED  BY ONLY <1>4, <2>1, S \in SUBSET Startable(mid),
     FS_CardinalityType
<1>6. /\ IsFiniteSet(started)
      /\ Cardinality(started) <= Cardinality(S)
      /\ Cardinality(started) \in Nat
  <2>1. IsFiniteSet(started) /\ Cardinality(started) <= Cardinality(S)
    BY ONLY <1>2, <1>5, MidsAtFinite
  <2>. HIDE DEF started
  <2>. QED  BY ONLY <2>1, FS_CardinalityType
<1>7. /\ out_messages' \in Seq(Entry(Mids))
      /\ DistinctMids(out_messages')
      /\ MidsOf(out_messages') = MidsOf(q) \ {mid}
      /\ InFlowOf(out_messages') = InFlowOf(r) \cup started
  <2>1. out_messages' = Start(r, S)
    BY DEF RemoveAndStart, r
  <2>. QED  BY <2>1, <1>2, <1>5, StartProperties
<1>8. started \subseteq MidsOf(r)
  BY <1>2, <1>5 DEF MidsOf
<1>9. \A i \in W : /\ PublishOf(r[i]) \in Packet
                   /\ PublishOf(r[i]).mid \in started
  <2>. SUFFICES ASSUME NEW i \in W
                PROVE  /\ PublishOf(r[i]) \in Packet
                       /\ PublishOf(r[i]).mid \in started
    OBVIOUS
  <2>1. i \in S /\ r[i] \in Entry(Mids)
    BY <1>2, <1>5
  <2>2. PublishOf(r[i]) \in Packet /\ PublishOf(r[i]).mid = r[i].mid
    BY <2>1 DEF PublishOf, Packet, Entry
  <2>. QED  BY <2>1, <2>2
<1>10. sent' = sent \cup {PublishOf(r[i]) : i \in W}
  BY DEF RemoveAndStart, r
<1>11. sent' \subseteq Packet
  BY <1>9, <1>10 DEF TypeOK
<1>12. \A pkt \in sent' : pkt.mid <= last_mid
  BY <1>2, <1>8, <1>9, <1>10 DEF MidsGenerated
<1>13. mid \in Covered
  BY DEF AckArrives, Covered, Touched
<1>14. Covered' \subseteq (Covered \ {mid}) \cup started
  <2>1. pending' = pending
    BY DEF RemoveAndStart
  <2>2. InFlow' \subseteq (Covered \ {mid}) \cup started
    BY <1>2, <1>7 DEF InFlow, Covered
  <2>3. Touched' \subseteq (Covered \ {mid}) \cup started
    <3>. SUFFICES ASSUME NEW m \in Touched', m \notin started
                  PROVE  m \in Touched \ {mid}
      BY DEF Covered
    <3>. HIDE DEF started
    <3>1. m \in MidsOf(out_messages')
      BY DEF Touched
    <3>2. m \in MidsOf(q) /\ m # mid
      BY <1>7, <3>1
    <3>3. (\E pkt \in sent : pkt.mid = m) \/ (\E p \in Publishers : pending[p].mid = m)
      BY <1>9, <1>10, <2>1 DEF Touched
    <3>. QED  BY <3>2, <3>3 DEF Touched
  <2>. QED  BY <2>2, <2>3 DEF Covered
<1>15. /\ IsFiniteSet(Covered) /\ Cardinality(Covered) \in Nat
  BY CoveredFinite
<1>. HIDE DEF started
<1>16. /\ Cardinality(Covered') \in Nat
       /\ Cardinality(Covered') <= Cardinality(Covered) - 1 + Cardinality(S)
  <2>. DEFINE C == Covered \ {mid}
  <2>1. IsFiniteSet(C) /\ Cardinality(C) = Cardinality(Covered) - 1
    BY ONLY <1>13, <1>15, FS_RemoveElement
  <2>. HIDE DEF C
  <2>2. /\ IsFiniteSet(C \cup started)
        /\ Cardinality(C \cup started) = Cardinality(C) + Cardinality(started) - Cardinality(C \cap started)
    BY ONLY <2>1, <1>6, FS_Union
  <2>3. IsFiniteSet(C \cap started) /\ Cardinality(C \cap started) \in Nat
    BY ONLY <2>1, FS_Intersection, FS_CardinalityType
  <2>4. Covered' \in SUBSET (C \cup started)
    BY <1>14 DEF C
  <2>5. IsFiniteSet(Covered') /\ Cardinality(Covered') <= Cardinality(C \cup started)
    BY ONLY <2>2, <2>4, FS_Subset
  <2>6. Cardinality(Covered') \in Nat
    BY ONLY <2>5, FS_CardinalityType
  <2>. QED  BY <1>6, <1>5, <1>15, <2>1, <2>2, <2>3, <2>5, <2>6
<1>17. Cardinality(Covered) >= 1
  <2>1. Cardinality(Covered) # 0
    BY ONLY <1>13, <1>15, FS_EmptySet
  <2>. QED  BY <1>15, <2>1
<1>18. inflight_messages' = inflight_messages - 1 + Cardinality(S)
  BY DEF RemoveAndStart
<1>19. inflight_messages' \in Nat /\ InflightCoversFlow'
  BY <1>5, <1>15, <1>16, <1>17, <1>18 DEF TypeOK, InflightCoversFlow
<1>20. CoveredBound'
  <2>. SUFFICES ASSUME MaxInflight > 0
                PROVE  Cardinality(Covered') <= MaxInflight + Cardinality(Publishers) - 1
    BY DEF CoveredBound
  <2>1. room = MaxInflight - (inflight_messages - 1)
    BY DEF room, Room
  <2>. QED
    BY <1>3, <1>4, <1>5, <1>15, <1>16, <2>1, PublishersCount DEF TypeOK,
       InflightCoversFlow, CoveredBound
<1>. QED
  BY <1>7, <1>11, <1>12, <1>19, <1>20, MessageIsEntry DEF MidsDistinct

-----------------------------------------------------------------------------
\* The initial state satisfies the invariant.
LEMMA InitIInv == Init => IInv
<1>. SUFFICES ASSUME Init  PROVE IInv
  OBVIOUS
<1>. USE DEF Init
<1>1. TypeOK
  BY DEF TypeOK, LinkStates, NoPacket, Message
<1>2. MidsOf(out_messages) = {}
  BY DEF MidsOf
<1>3. Covered = {}
  BY CoveredFinite, <1>1, <1>2
<1>4. Cardinality(Covered) = 0
  BY <1>3, FS_EmptySet
<1>5. MidsGenerated
  BY <1>2 DEF MidsGenerated, NoPacket, Mids
<1>6. MidsDistinct /\ NotifiedOnce
  BY <1>2 DEF MidsDistinct, DistinctMids, NotifiedOnce
<1>7. InflightCoversFlow /\ CoveredBound
  BY <1>4, PublishersCount DEF InflightCoversFlow, CoveredBound
<1>. QED  BY <1>1, <1>5, <1>6, <1>7 DEF IInv

\* The steps of the publishing threads.
LEMMA PublishIInv ==
    ASSUME IInv, NoWrap, NEW p \in Publishers, Publish(p)
    PROVE  IInv'
<1>. USE DEF IInv
<1>1. /\ IsFiniteSet(Covered) /\ Cardinality(Covered) \in Nat
      /\ Covered \subseteq MidsOf(out_messages)
  BY CoveredFinite
<1>2. CASE PublishQos0(p)
  <2>1. /\ last_mid' = last_mid + 1 /\ last_mid' \in Mids
        /\ published' = published + 1 /\ published' \in 0 .. MaxPublish
    BY <1>2 DEF PublishQos0, NextMid, TypeOK, MidsGenerated, NoWrap, Mids
  <2>2. /\ notified' \in [Mids -> Nat]
        /\ \A mid \in Mids : notified'[mid] = notified[mid] \/ (mid = last_mid' /\ notified'[mid] = 1)
    BY <1>2, <2>1 DEF PublishQos0, TypeOK, MidsGenerated, Mids
  <2>3. UNCHANGED <<out_messages, inflight_messages, link, pending, sent, reconnects>>
    BY <1>2 DEF PublishQos0
  <2>4. Covered' = Covered
    BY <2>3 DEF Covered, InFlow, Touched
  <2>5. TypeOK'
    BY <2>1, <2>2, <2>3 DEF TypeOK, Mids
  <2>6. MidsGenerated'
    <3>1. last_mid \in Nat
      BY DEF TypeOK
    <3>. QED  BY <2>1, <2>2, <2>3, <3>1, MidTypes DEF MidsGenerated, Mids
  <2>7. NotifiedOnce'
    <3>1. \A mid \in MidsOf(out_messages) : mid # last_mid'
      BY <2>1 DEF MidsGenerated, TypeOK
    <3>. QED  BY <2>2, <2>3, <3>1 DEF NotifiedOnce
  <2>8. MidsDistinct' /\ InflightCoversFlow' /\ CoveredBound'
    BY <2>3, <2>4 DEF MidsDistinct, InflightCoversFlow, CoveredBound
  <2>. QED  BY <2>5, <2>6, <2>7, <2>8
<1>3. CASE PublishSend(p)
  <2>1. /\ pending' \in [Publishers -> Packet \cup {NoPacket}]
        /\ \A t \in Publishers : pending'[t] = pending[t] \/ pending'[t] = NoPacket
    BY <1>3 DEF PublishSend, TypeOK
  <2>2. /\ sent' \subseteq sent \cup {pending[p]}
        /\ sent' \subseteq Packet
    BY <1>3 DEF PublishSend, TypeOK
  <2>3. UNCHANGED <<out_messages, inflight_messages, last_mid, link, notified,
                    published, reconnects>>
    BY <1>3 DEF PublishSend
  <2>4. Covered' \subseteq Covered
    <3>1. \A mid \in MidsOf(out_messages) : mid # 0
      BY MidTypes
    <3>. QED  BY <2>1, <2>2, <2>3, <3>1 DEF Covered, InFlow, Touched, NoPacket
  <2>5. Cardinality(Covered') \in Nat /\ Cardinality(Covered') <= Cardinality(Covered)
    BY <1>1, <2>4, FS_Subset, FS_CardinalityType
  <2>6. TypeOK'
    BY <2>1, <2>2, <2>3 DEF TypeOK
  <2>7. MidsGenerated'
    BY <2>1, <2>2, <2>3 DEF MidsGenerated, NoPacket, TypeOK
  <2>8. InflightCoversFlow' /\ CoveredBound'
    BY <1>1, <2>3, <2>5, PublishersCount DEF InflightCoversFlow, CoveredBound,
       TypeOK
  <2>. QED  BY <2>3, <2>6, <2>7, <2>8 DEF MidsDistinct, NotifiedOnce
<1>4. CASE PublishSendFreed(p)
  <2>1. /\ pending' \in [Publishers -> Packet \cup {NoPacket}]
        /\ \A t \in Publishers : pending'[t] = pending[t] \/ pending'[t] = NoPacket
        /\ link' \in LinkStates
    BY <1>4 DEF PublishSendFreed, TypeOK, LinkStates
  <2>2. UNCHANGED <<out_messages, inflight_messages, last_mid, sent, notified,
                    published, reconnects>>
    BY <1>4 DEF PublishSendFreed
  <2>3. Covered' \subseteq Covered
    <3>1. \A mid \in MidsOf(out_messages) : mid # 0
      BY MidTypes
    <3>. QED  BY <2>1, <2>2, <3>1 DEF Covered, InFlow, Touched, NoPacket
  <2>4. Cardinality(Covered') \in Nat /\ Cardinality(Covered') <= Cardinality(Covered)
    BY <1>1, <2>3, FS_Subset, FS_CardinalityType
  <2>5. TypeOK' /\ MidsGenerated'
    BY <2>1, <2>2 DEF TypeOK, MidsGenerated, NoPacket
  <2>6. InflightCoversFlow' /\ CoveredBound'
    BY <1>1, <2>2, <2>4, PublishersCount DEF InflightCoversFlow, CoveredBound,
       TypeOK
  <2>. QED  BY <2>2, <2>5, <2>6 DEF MidsDistinct, NotifiedOnce
<1>5. ASSUME NEW qos \in {1, 2}, PublishQueue(p, qos)
      PROVE  IInv'
  <2>. DEFINE mid == last_mid + 1
              room == HasRoom(inflight_messages)
              m == [mid |-> mid, qos |-> qos,
                    state |-> IF room THEN FirstWait(qos) ELSE "invalid"]
  <2>1. /\ NextMid(last_mid) = mid /\ mid \in Mids
        /\ last_mid' = mid
        /\ published' = published + 1 /\ published' \in 0 .. MaxPublish
    BY <1>5 DEF PublishQueue, NextMid, TypeOK, MidsGenerated, NoWrap, Mids
  <2>2. /\ out_messages' = Append(out_messages, m)
        /\ inflight_messages' = inflight_messages + (IF room THEN 1 ELSE 0)
        /\ pending' = IF room THEN [pending EXCEPT ![p] = PublishOf(m)] ELSE pending
        /\ UNCHANGED <<link, sent, notified, reconnects>>
    BY <1>5, <2>1 DEF PublishQueue
  <2>3. m \in Message /\ PublishOf(m) \in Packet /\ PublishOf(m).mid = mid
    BY <2>1 DEF Message, PublishOf, Packet, FirstWait, OutStates
  <2>4. m.mid = mid /\ (m.state # "invalid" <=> room)
    BY DEF FirstWait
  <2>. HIDE DEF m
  <2>5. /\ out_messages' \in Seq(Message)
        /\ Len(out_messages') = Len(out_messages) + 1
        /\ DOMAIN out_messages' = 1 .. Len(out_messages) + 1
        /\ \A i \in 1 .. Len(out_messages) : out_messages'[i] = out_messages[i]
        /\ out_messages'[Len(out_messages) + 1] = m
        /\ Len(out_messages) \in Nat
        /\ DOMAIN out_messages = 1 .. Len(out_messages)
    BY <2>2, <2>3 DEF TypeOK
  <2>6. MidsOf(out_messages') = MidsOf(out_messages) \cup {mid}
    BY <2>4, <2>5 DEF MidsOf
  <2>7. mid \notin MidsOf(out_messages)
    BY <2>1 DEF MidsGenerated, TypeOK
  <2>8. MidsDistinct'
    <3>1. \A i \in 1 .. Len(out_messages) : out_messages[i].mid # mid
      BY <2>5, <2>7 DEF MidsOf
    <3>. QED  BY <2>4, <2>5, <3>1 DEF MidsDistinct, DistinctMids
  <2>9. /\ pending' \in [Publishers -> Packet \cup {NoPacket}]
        /\ \A t \in Publishers : pending'[t] = pending[t] \/ (room /\ pending'[t].mid = mid)
    BY <2>2, <2>3 DEF TypeOK
  <2>10. InFlow' = IF room THEN InFlow \cup {mid} ELSE InFlow
    BY <2>4, <2>5 DEF InFlow, InFlowOf, HeldBack
  <2>11. Touched' \subseteq Touched \cup (IF room THEN {mid} ELSE {})
    <3>1. \A pkt \in sent : pkt.mid # mid
      BY <2>1 DEF MidsGenerated, TypeOK
    <3>2. \A t \in Publishers : pending[t].mid # mid
      BY <2>1 DEF MidsGenerated, TypeOK
    <3>. HIDE DEF room
    <3>. QED  BY <2>2, <2>6, <2>9, <3>1, <3>2 DEF Touched
  <2>12. Covered' \subseteq Covered \cup (IF room THEN {mid} ELSE {})
    BY <2>10, <2>11 DEF Covered
  <2>13. /\ Cardinality(Covered') \in Nat
         /\ Cardinality(Covered') <= Cardinality(Covered) + (IF room THEN 1 ELSE 0)
    <3>. HIDE DEF room, mid
    <3>1. CASE room
      <4>1. /\ IsFiniteSet(Covered \cup {mid})
            /\ Cardinality(Covered \cup {mid}) <= Cardinality(Covered) + 1
        <5>1. /\ IsFiniteSet(Covered \cup {mid})
              /\ Cardinality(Covered \cup {mid}) =
                    IF mid \in Covered THEN Cardinality(Covered) ELSE Cardinality(Covered) + 1
          BY ONLY <1>1, FS_AddElement
        <5>. QED  BY <1>1, <5>1
      <4>2. Covered' \in SUBSET (Covered \cup {mid})
        BY <2>12, <3>1
      <4>3. /\ IsFiniteSet(Covered')
            /\ Cardinality(Covered') <= Cardinality(Covered \cup {mid})
        BY ONLY <4>1, <4>2, FS_Subset
      <4>4. Cardinality(Covered') \in Nat /\ Cardinality(Covered \cup {mid}) \in Nat
        BY ONLY <4>1, <4>3, FS_CardinalityType
      <4>. QED  BY <1>1, <3>1, <4>1, <4>3, <4>4
    <3>2. CASE ~ room
      <4>1. Covered' \in SUBSET Covered
        BY <2>12, <3>2
      <4>2. IsFiniteSet(Covered') /\ Cardinality(Covered') <= Cardinality(Covered)
        BY ONLY <1>1, <4>1, FS_Subset
      <4>3. Cardinality(Covered') \in Nat
        BY ONLY <4>2, FS_CardinalityType
      <4>. QED  BY <1>1, <3>2, <4>2, <4>3
    <3>. QED  BY <3>1, <3>2
  <2>14. TypeOK'
    BY <2>1, <2>2, <2>5, <2>9 DEF TypeOK, Mids
  <2>15. MidsGenerated'
    <3>a. last_mid \in Nat
      BY DEF TypeOK
    <3>1. \A k \in MidsOf(out_messages') : k <= last_mid'
      BY <2>1, <2>6, <3>a, MidTypes DEF MidsGenerated
    <3>2. \A t \in Publishers : pending'[t].mid <= last_mid'
      BY <2>1, <2>9, <3>a, MidTypes DEF MidsGenerated
    <3>3. \A pkt \in sent' : pkt.mid <= last_mid'
      BY <2>1, <2>2 DEF MidsGenerated, TypeOK, Packet, Mids
    <3>4. \A k \in Mids : k > last_mid' => notified'[k] = 0
      BY <2>1, <2>2 DEF MidsGenerated, TypeOK, Mids
    <3>. QED  BY <2>1, <3>1, <3>2, <3>3, <3>4 DEF MidsGenerated
  <2>16. NotifiedOnce'
    <3>1. notified[mid] = 0
      BY <2>1 DEF MidsGenerated, TypeOK
    <3>. QED  BY <2>2, <2>6, <3>1 DEF NotifiedOnce
  <2>17. InflightCoversFlow' /\ CoveredBound'
    BY <1>1, <2>2, <2>13, PublishersCount DEF InflightCoversFlow,
       CoveredBound, TypeOK, HasRoom
  <2>. QED  BY <2>8, <2>14, <2>15, <2>16, <2>17
<1>. QED  BY <1>2, <1>3, <1>4, <1>5 DEF Publish

\* The steps of the loop thread that handle an acknowledgement.
LEMMA HandleAckIInv ==
    ASSUME IInv, NEW mid \in Mids, HandleAck(mid)
    PROVE  IInv'
<1>. USE DEF IInv
<1>1. ASSUME mid \in MidsOf(out_messages), AckArrives(mid),
             NEW S \in SUBSET Startable(mid), NEW W \in SUBSET S,
             RemoveAndStart(mid, S, W),
             link' \in LinkStates,
             \/ notified' = [notified EXCEPT ![mid] = @ + 1]
             \/ notified' = notified
      PROVE  IInv'
  <2>1. /\ out_messages' \in Seq(Message)
        /\ MidsOf(out_messages') = MidsOf(out_messages) \ {mid}
        /\ MidsDistinct'
        /\ inflight_messages' \in Nat
        /\ sent' \subseteq Packet
        /\ \A pkt \in sent' : pkt.mid <= last_mid
        /\ InflightCoversFlow'
        /\ CoveredBound'
    BY <1>1, RemovalStep
  <2>2. UNCHANGED <<last_mid, pending, published, reconnects>>
    BY <1>1 DEF RemoveAndStart
  <2>3. TypeOK'
    BY <1>1, <2>1, <2>2 DEF TypeOK
  <2>4. mid <= last_mid
    BY <1>1 DEF MidsGenerated
  <2>5. MidsGenerated'
    BY <1>1, <2>1, <2>2, <2>4 DEF MidsGenerated, TypeOK, Mids
  <2>6. NotifiedOnce'
    BY <1>1, <2>1 DEF NotifiedOnce, TypeOK
  <2>. QED  BY <2>1, <2>3, <2>5, <2>6
<1>2. CASE AckArrives(mid) /\ HandlePubackcomp(mid)
  <2>1. link' \in LinkStates
    BY <1>2 DEF HandlePubackcomp, TypeOK
  <2>. QED  BY <1>1, <1>2, <2>1 DEF HandlePubackcomp
<1>3. CASE AckArrives(mid) /\ HandlePubackcompSendFails(mid)
  <2>1. PICK last \in Startable(mid) :
           RemoveAndStart(mid, {i \in Startable(mid) : i <= last},
                          {i \in Startable(mid) : i <= last} \ {last})
    BY <1>3 DEF HandlePubackcompSendFails
  <2>. DEFINE S == {i \in Startable(mid) : i <= last}
  <2>2. link' \in LinkStates /\ notified' = notified
    BY <1>3 DEF HandlePubackcompSendFails, LinkStates
  <2>3. mid \in MidsOf(out_messages) /\ AckArrives(mid)
    BY <1>3 DEF HandlePubackcompSendFails
  <2>4. S \in SUBSET Startable(mid) /\ S \ {last} \in SUBSET S
    OBVIOUS
  <2>5. RemoveAndStart(mid, S, S \ {last})
    BY <2>1
  <2>. HIDE DEF S
  <2>. QED  BY <1>1, <2>2, <2>3, <2>4, <2>5
<1>4. CASE PubrecArrives(mid) /\ HandlePubrec(mid)
  <2>. DEFINE p == Position(out_messages, mid)
  <2>1. p \in 1 .. Len(out_messages) /\ out_messages[p].mid = mid
    <3>1. out_messages \in Seq(Entry(Mids)) /\ mid \in MidsOf(out_messages)
      BY <1>4, MessageIsEntry DEF HandlePubrec, TypeOK
    <3>. QED  BY ONLY <3>1, PositionProperties
  <2>2. out_messages' = [out_messages EXCEPT ![p].state = "wait_for_pubcomp"]
    BY <1>4 DEF HandlePubrec
  <2>. HIDE DEF p
  <2>3. /\ out_messages' \in Seq(Message)
        /\ Len(out_messages') = Len(out_messages)
        /\ DOMAIN out_messages' = DOMAIN out_messages
        /\ \A i \in DOMAIN out_messages : out_messages'[i].mid = out_messages[i].mid
        /\ \A i \in DOMAIN out_messages : i # p => out_messages'[i] = out_messages[i]
    <3>. DEFINE e == [out_messages[p] EXCEPT !.state = "wait_for_pubcomp"]
    <3>1. out_messages' = [out_messages EXCEPT ![p] = e]
      BY <2>2
    <3>2. out_messages \in Seq(Message) /\ out_messages[p] \in Message
      BY <2>1 DEF TypeOK
    <3>3. e \in Message /\ e.mid = out_messages[p].mid
      BY <3>2 DEF Message, OutStates
    <3>. HIDE DEF e
    <3>. QED  BY <2>1, <3>1, <3>2, <3>3
  <2>4. MidsOf(out_messages') = MidsOf(out_messages) /\ MidsDistinct'
    BY <2>3 DEF MidsOf, MidsDistinct, DistinctMids
  <2>5. UNCHANGED <<inflight_messages, last_mid, pending, notified, published, reconnects>>
    BY <1>4 DEF HandlePubrec
  <2>6. sent' \subseteq sent \cup {PubrelOf(mid)} /\ link' \in LinkStates
    BY <1>4 DEF HandlePubrec, LinkStates
  <2>7. PubrelOf(mid) \in Packet /\ PubrelOf(mid).mid = mid
    BY DEF PubrelOf, Packet
  <2>8. mid \in Covered
    BY <1>4 DEF HandlePubrec, PubrecArrives, Covered, Touched
  <2>9. Covered' \subseteq Covered
    <3>1. InFlow' \subseteq InFlow \cup {mid}
      BY <2>1, <2>3 DEF InFlow, InFlowOf, HeldBack
    <3>2. Touched' \subseteq Touched \cup {mid}
      BY <2>4, <2>5, <2>6, <2>7 DEF Touched
    <3>. QED  BY <2>8, <3>1, <3>2 DEF Covered
  <2>10. /\ Cardinality(Covered) \in Nat
         /\ Cardinality(Covered') \in Nat
         /\ Cardinality(Covered') <= Cardinality(Covered)
    BY <2>9, CoveredFinite, FS_Subset, FS_CardinalityType
  <2>11. TypeOK'
    BY <2>3, <2>5, <2>6, <2>7 DEF TypeOK
  <2>12. MidsGenerated'
    <3>1. mid <= last_mid
      BY <1>4 DEF HandlePubrec, MidsGenerated
    <3>. QED  BY <2>4, <2>5, <2>6, <2>7, <3>1 DEF MidsGenerated
  <2>13. InflightCoversFlow' /\ CoveredBound'
    BY <2>5, <2>10, PublishersCount DEF InflightCoversFlow, CoveredBound,
       TypeOK
  <2>14. NotifiedOnce'
    BY <2>4, <2>5 DEF NotifiedOnce
  <2>. QED  BY <2>4, <2>11, <2>12, <2>13, <2>14
<1>5. CASE PubrecArrives(mid) /\ HandlePubrecUnknown(mid)
  <2>1. UNCHANGED <<out_messages, inflight_messages, last_mid, pending, sent,
                    notified, published, reconnects>>
    BY <1>5 DEF HandlePubrecUnknown
  <2>2. link' \in LinkStates
    BY <1>5 DEF HandlePubrecUnknown, LinkStates
  <2>3. Covered' = Covered
    BY <2>1 DEF Covered, InFlow, Touched
  <2>. QED
    BY <2>1, <2>2, <2>3 DEF TypeOK, MidsGenerated, MidsDistinct,
       InflightCoversFlow, CoveredBound, NotifiedOnce
<1>. QED  BY <1>2, <1>3, <1>4, <1>5 DEF HandleAck

\* A retry pass only writes packets of messages in flow.
LEMMA RetryCheckIInv ==
    ASSUME IInv, NEW S \in SUBSET DOMAIN out_messages, RetryCheck(S)
    PROVE  IInv'
<1>. USE DEF IInv
<1>1. UNCHANGED <<out_messages, inflight_messages, last_mid, link, pending,
                  notified, published, reconnects>>
  BY DEF RetryCheck
<1>2. \A i \in S : /\ ResendOf(out_messages[i]) \in Packet
                   /\ ResendOf(out_messages[i]).mid = out_messages[i].mid
                   /\ out_messages[i].mid \in InFlow
                   /\ out_messages[i].mid \in MidsOf(out_messages)
  <2>. SUFFICES ASSUME NEW i \in S
                PROVE  /\ ResendOf(out_messages[i]) \in Packet
                       /\ ResendOf(out_messages[i]).mid = out_messages[i].mid
                       /\ out_messages[i].mid \in InFlow
                       /\ out_messages[i].mid \in MidsOf(out_messages)
    OBVIOUS
  <2>1. out_messages[i] \in Message
    BY DEF TypeOK
  <2>2. i \in DOMAIN out_messages \ HeldBack(out_messages)
    BY DEF RetryCheck
  <2>. QED
    BY <2>1, <2>2 DEF ResendOf, PubrelOf, PublishOf, Packet, Message, InFlow,
       InFlowOf, MidsOf
<1>3. sent' = sent \cup {ResendOf(out_messages[i]) : i \in S}
  BY DEF RetryCheck
<1>4. sent' \subseteq Packet /\ \A pkt \in sent' : pkt.mid <= last_mid
  BY <1>2, <1>3 DEF TypeOK, MidsGenerated
<1>5. Covered' = Covered
  <2>1. InFlow' = InFlow
    BY <1>1 DEF InFlow
  <2>2. Touched' \subseteq Touched \cup InFlow /\ Touched \subseteq Touched'
    BY <1>1, <1>2, <1>3 DEF Touched
  <2>. QED  BY <2>1, <2>2 DEF Covered
<1>. QED
  BY <1>1, <1>4, <1>5 DEF TypeOK, MidsGenerated, MidsDistinct,
     InflightCoversFlow, CoveredBound, NotifiedOnce

\* The reset counts every message of the list, so the count covers all of them.
LEMMA ReconnectIInv ==
    ASSUME IInv, Reconnect
    PROVE  IInv'
<1>. USE DEF IInv
<1>. DEFINE pendingMids == {pending[p].mid : p \in Publishers}
<1>1. out_messages \in Seq(Entry(Mids))
  BY MessageIsEntry DEF TypeOK
<1>2. /\ out_messages' = ReconnectReset(out_messages)
      /\ inflight_messages' = Len(out_messages)
      /\ sent' = {}
      /\ link' \in LinkStates
      /\ reconnects' \in 0 .. MaxReconnects
      /\ UNCHANGED <<last_mid, pending, notified, published>>
  BY DEF Reconnect, TypeOK, LinkStates
<1>3. /\ out_messages' \in Seq(Entry(Mids))
      /\ Len(out_messages') = Len(out_messages)
      /\ DistinctMids(out_messages) => DistinctMids(out_messages')
      /\ MidsOf(out_messages') = MidsOf(out_messages)
      /\ InFlowOf(out_messages') \subseteq MidsOf(out_messages)
      /\ IsFiniteSet(InFlowOf(out_messages'))
      /\ MaxInflight > 0 => Cardinality(InFlowOf(out_messages')) <= MaxInflight - 1
  BY ONLY <1>1, <1>2, ResetProperties
<1>4. TypeOK'
  BY <1>2, <1>3, MessageIsEntry DEF TypeOK
<1>5. MidsGenerated' /\ NotifiedOnce' /\ MidsDistinct'
  BY <1>2, <1>3 DEF MidsGenerated, NotifiedOnce, MidsDistinct
<1>6. Covered' \subseteq MidsOf(out_messages)
  BY <1>3 DEF Covered, InFlow, Touched
<1>7. Covered' \subseteq InFlowOf(out_messages') \cup pendingMids
  BY <1>2 DEF Covered, InFlow, Touched
<1>8. /\ IsFiniteSet(pendingMids)
      /\ Cardinality(pendingMids) <= Cardinality(Publishers)
      /\ Cardinality(pendingMids) \in Nat
  <2>. DEFINE f == [p \in Publishers |-> pending[p].mid]
  <2>1. f \in Surjection(Publishers, pendingMids)
    BY DEF Surjection
  <2>. HIDE DEF f, pendingMids
  <2>. QED  BY <2>1, FS_Surjection, FS_CardinalityType
<1>. HIDE DEF pendingMids
<1>9. /\ IsFiniteSet(Covered') /\ Cardinality(Covered') \in Nat
      /\ Cardinality(Covered') <= Len(out_messages)
  <2>1. /\ IsFiniteSet(MidsOf(out_messages))
        /\ Cardinality(MidsOf(out_messages)) <= Len(out_messages)
    BY ONLY <1>1, MidsOfFinite
  <2>2. IsFiniteSet(Covered') /\ Cardinality(Covered') <= Cardinality(MidsOf(out_messages))
    BY ONLY <1>6, <2>1, FS_Subset
  <2>3. Cardinality(Covered') \in Nat /\ Cardinality(MidsOf(out_messages)) \in Nat
    BY ONLY <2>1, <2>2, FS_CardinalityType
  <2>4. Len(out_messages) \in Nat
    BY <1>1
  <2>. QED  BY ONLY <2>1, <2>2, <2>3, <2>4
<1>10. InflightCoversFlow'
  BY <1>2, <1>9 DEF InflightCoversFlow
<1>11. CoveredBound'
  <2>. SUFFICES ASSUME MaxInflight > 0
                PROVE  Cardinality(Covered') <= MaxInflight + Cardinality(Publishers) - 1
    BY DEF CoveredBound
  <2>. DEFINE I == InFlowOf(out_messages')
  <2>1. IsFiniteSet(I) /\ Cardinality(I) <= MaxInflight - 1
    BY <1>3
  <2>2. Covered' \in SUBSET (I \cup pendingMids)
    BY <1>7
  <2>. HIDE DEF I
  <2>3. /\ IsFiniteSet(I \cup pendingMids)
        /\ Cardinality(I \cup pendingMids) =
              Cardinality(I) + Cardinality(pendingMids) - Cardinality(I \cap pendingMids)
        /\ IsFiniteSet(I \cap pendingMids)
    BY ONLY <1>8, <2>1, FS_Union, FS_Intersection
  <2>4. Cardinality(Covered') <= Cardinality(I \cup pendingMids)
    BY ONLY <2>2, <2>3, FS_Subset
  <2>5. Cardinality(I) \in Nat /\ Cardinality(I \cap pendingMids) \in Nat
    BY ONLY <2>1, <2>3, FS_CardinalityType
  <2>. QED  BY <1>8, <1>9, <2>1, <2>3, <2>4, <2>5, PublishersCount
<1>. QED  BY <1>4, <1>5, <1>10, <1>11

\* Losing or regaining the connection changes the link only.
LEMMA LinkIInv ==
    ASSUME IInv, LinkBreaks \/ SocketClose \/ SocketConnect
    PROVE  IInv'
<1>1. UNCHANGED <<out_messages, inflight_messages, last_mid, pending, sent,
                  notified, published, reconnects>>
  BY DEF LinkBreaks, SocketClose, SocketConnect
<1>2. link' \in LinkStates
  BY DEF LinkBreaks, SocketClose, SocketConnect, LinkStates
<1>3. Covered' = Covered
  BY <1>1 DEF Covered, InFlow, Touched
<1>. QED
  BY <1>1, <1>2, <1>3 DEF IInv, TypeOK, MidsGenerated, MidsDistinct,
     InflightCoversFlow, CoveredBound, NotifiedOnce

-----------------------------------------------------------------------------
\* Every reachable state satisfies the invariant.
THEOREM Invariance == NoWrap => (Spec => []IInv)
<1>. SUFFICES ASSUME NoWrap  PROVE Spec => []IInv
  OBVIOUS
<1>1. IInv /\ [Next]_vars => IInv'
  <2>. SUFFICES ASSUME IInv, [Next]_vars  PROVE IInv'
    OBVIOUS
  <2>1. ASSUME NEW p \in Publishers, Publish(p)  PROVE IInv'
    BY <2>1, PublishIInv
  <2>2. ASSUME NEW mid \in Mids, HandleAck(mid)  PROVE IInv'
    BY <2>2, HandleAckIInv
  <2>3. ASSUME NEW S \in SUBSET DOMAIN out_messages, RetryCheck(S)  PROVE IInv'
    BY <2>3, RetryCheckIInv
  <2>4. CASE LinkBreaks \/ SocketClose \/ SocketConnect
    BY <2>4, LinkIInv
  <2>5. CASE Reconnect
    BY <2>5, ReconnectIInv
  <2>6. CASE UNCHANGED vars
    <3>1. Covered' = Covered
      BY <2>6 DEF vars, Covered, InFlow, Touched
    <3>. QED
      BY <2>6, <3>1 DEF vars, IInv, TypeOK, MidsGenerated, MidsDistinct,
         InflightCoversFlow, CoveredBound, NotifiedOnce
  <2>. QED  BY <2>1, <2>2, <2>3, <2>4, <2>5, <2>6 DEF Next
<1>. QED  BY <1>1, InitIInv, PTL DEF Spec

\* Type correctness of the outgoing queue; the window count is never negative.
THEOREM TypeCorrect == NoWrap => (Spec => []TypeOK)
<1>1. IInv => TypeOK
  BY DEF IInv
<1>. QED  BY <1>1, Invariance, PTL

\* An acknowledgement never frees a slot that another message occupies.
THEOREM InflightCounted == NoWrap => (Spec => []InflightCoversFlow)
<1>1. IInv => InflightCoversFlow
  BY DEF IInv
<1>. QED  BY <1>1, Invariance, PTL

\* No more than the window plus the other publishing threads are in flow.
THEOREM WindowRespected == NoWrap => (Spec => []WindowBound)
<1>1. IInv => WindowBound
  <2>. SUFFICES ASSUME IInv, MaxInflight > 0
                PROVE  Cardinality(InFlow) <= MaxInflight + Cardinality(Publishers) - 1
    BY DEF WindowBound
  <2>1. IsFiniteSet(Covered) /\ Cardinality(Covered) \in Nat
    BY CoveredFinite DEF IInv
  <2>2. InFlow \in SUBSET Covered
    BY DEF Covered
  <2>3. IsFiniteSet(InFlow) /\ Cardinality(InFlow) <= Cardinality(Covered)
    BY ONLY <2>1, <2>2, FS_Subset
  <2>4. Cardinality(InFlow) \in Nat
    BY ONLY <2>3, FS_CardinalityType
  <2>. QED  BY <2>1, <2>3, <2>4, PublishersCount DEF IInv, CoveredBound
<1>. QED  BY <1>1, Invariance, PTL

\* on_publish runs at most once per message, after the message left the list.
THEOREM NotifiedAtMostOnce == NoWrap => (Spec => []NotifiedOnce)
<1>1. IInv => NotifiedOnce
  BY DEF IInv
<1>. QED  BY <1>1, Invariance, PTL

-----------------------------------------------------------------------------
(* Before the first reconnect.                                             *)

\* Until the first reconnect the window counts the messages in flow exactly,
\* only they can be acknowledged, and one held back means that it is full: an
\* acknowledgement frees one slot and the walk starts one message.
FirstConnection ==
    reconnects = 0 =>
        /\ Touched \subseteq InFlow
        /\ inflight_messages = Cardinality(InFlow)
        /\ HeldBack(out_messages) # {} => MaxInflight > 0
        /\ MaxInflight > 0 =>
              /\ inflight_messages <= MaxInflight
              /\ HeldBack(out_messages) # {} => inflight_messages = MaxInflight

\* A walk with room for one message starts the first one held back.
LEMMA FirstHeldBackOne ==
    ASSUME NEW M, NEW q \in Seq(Entry(M)), HeldBack(q) # {}
    PROVE  \E i \in HeldBack(q) : FirstHeldBack(q, 1) = {i}
<1>. DEFINE H == HeldBack(q)
            upTo(i) == {j \in H : j <= i}
<1>1. H # {} /\ H \subseteq Nat
  BY DEF HeldBack
<1>2. \E i \in H : \A j \in H : ~ (<<j, i>> \in OpToRel(<, Nat))
  BY <1>1, NatLessThanWellFounded, WFMin
<1>. HIDE DEF H
<1>3. PICK i \in H : \A j \in H : ~ (j < i)
  BY <1>1, <1>2 DEF OpToRel
<1>4. \A j \in H : i <= j
  BY <1>1, <1>3
<1>5. upTo(i) = {i}
  <2>1. \A j \in H : j <= i <=> j = i
    BY <1>1, <1>4
  <2>. QED  BY <2>1
<1>6. Cardinality(upTo(i)) = 1
  BY <1>5, FS_Singleton
<1>7. ASSUME NEW j \in H, j # i  PROVE ~ (Cardinality(upTo(j)) <= 1)
  <2>1. Len(q) \in Nat /\ H \subseteq 1 .. Len(q)
    BY DEF H, HeldBack
  <2>2. IsFiniteSet(1 .. Len(q))
    BY <2>1, FS_Interval
  <2>3. upTo(j) \in SUBSET (1 .. Len(q))
    BY <2>1
  <2>4. IsFiniteSet(upTo(j))
    BY ONLY <2>2, <2>3, FS_Subset
  <2>5. {i} \in SUBSET upTo(j) /\ j \in upTo(j) /\ j \notin {i}
    BY <1>1, <1>4, <1>7
  <2>. HIDE DEF upTo
  <2>6. /\ Cardinality({i}) <= Cardinality(upTo(j))
        /\ Cardinality({i}) = Cardinality(upTo(j)) => {i} = upTo(j)
    BY ONLY <2>4, <2>5, FS_Subset
  <2>7. Cardinality({i}) = 1 /\ Cardinality(upTo(j)) \in Nat
    BY ONLY <2>4, FS_Singleton, FS_CardinalityType
  <2>. QED  BY <2>5, <2>6, <2>7
<1>8. FirstHeldBack(q, 1) = {k \in H : Cardinality(upTo(k)) <= 1}
  BY DEF FirstHeldBack, H
<1>. HIDE DEF upTo
<1>9. FirstHeldBack(q, 1) = {i}
  BY <1>6, <1>7, <1>8
<1>. QED  BY <1>3, <1>9 DEF H

\* Taking a message off the list holds none back.
LEMMA HeldBackRemoved ==
    ASSUME NEW M, NEW q \in Seq(Entry(M)), NEW i \in 1 .. Len(q),
           HeldBack(RemoveAt(q, i)) # {}
    PROVE  HeldBack(q) # {}
<1>1. /\ RemoveAt(q, i) \in Seq(Entry(M))
      /\ Len(RemoveAt(q, i)) = Len(q) - 1
      /\ \A j \in 1 .. Len(q) - 1 :
            RemoveAt(q, i)[j] = IF j < i THEN q[j] ELSE q[j + 1]
  BY RemoveAtProperties
<1>2. Len(q) \in Nat /\ DOMAIN RemoveAt(q, i) = 1 .. Len(q) - 1
  BY <1>1
<1>3. PICK j \in 1 .. Len(q) - 1 : RemoveAt(q, i)[j].state = "invalid"
  BY <1>2 DEF HeldBack
<1>4. q[IF j < i THEN j ELSE j + 1].state = "invalid"
  BY <1>1, <1>3
<1>. QED  BY <1>2, <1>4 DEF HeldBack

\* The messages held back that are not started stay so.
LEMMA HeldBackStarted ==
    ASSUME NEW M, NEW q \in Seq(Entry(M)), NEW S \in SUBSET (1 .. Len(q))
    PROVE  HeldBack(Start(q, S)) = HeldBack(q) \ S
<1>1. DOMAIN Start(q, S) = 1 .. Len(q) /\ DOMAIN q = 1 .. Len(q)
  BY DEF Start
<1>2. ASSUME NEW i \in 1 .. Len(q)
      PROVE  Start(q, S)[i].state = "invalid" <=> q[i].state = "invalid" /\ i \notin S
  <2>1. q[i] \in Entry(M)
    OBVIOUS
  <2>2. CASE i \in S
    <3>1. Start(q, S)[i] = [q[i] EXCEPT !.state = FirstWait(q[i].qos)]
      BY <2>2 DEF Start
    <3>. QED  BY <2>1, <2>2, <3>1 DEF Entry, FirstWait
  <2>3. CASE i \notin S
    BY <2>3 DEF Start
  <2>. QED  BY <2>2, <2>3
<1>. QED  BY <1>1, <1>2 DEF HeldBack

\* What a removal does to the window on the first connection: S is empty, or
\* the one message the walk may start.
LEMMA FirstRemoval ==
    ASSUME IInv, FirstConnection, reconnects = 0,
           NEW mid \in Mids, mid \in MidsOf(out_messages), AckArrives(mid),
           NEW S \in SUBSET Startable(mid), NEW W \in SUBSET S,
           S = {} => Startable(mid) = {},
           RemoveAndStart(mid, S, W)
    PROVE  FirstConnection'
<1>. DEFINE q == out_messages
            r == Rest(mid)
            started == {r[i].mid : i \in S}
            room == Room(r, inflight_messages - 1)
<1>1. q \in Seq(Entry(Mids)) /\ DistinctMids(q)
  BY MessageIsEntry DEF IInv, TypeOK, MidsDistinct
<1>2. /\ r \in Seq(Entry(Mids)) /\ Len(r) = Len(q) - 1 /\ DistinctMids(r)
      /\ MidsOf(r) = MidsOf(q) \ {mid}
      /\ InFlowOf(r) = InFlowOf(q) \ {mid}
  BY ONLY <1>1, mid \in MidsOf(q), RemoveMessage DEF Rest
<1>3. HeldBack(r) # {} => HeldBack(q) # {}
  <2>1. Position(q, mid) \in 1 .. Len(q)
    BY ONLY <1>1, mid \in MidsOf(q), PositionProperties
  <2>. QED  BY ONLY <1>1, <2>1, HeldBackRemoved DEF Rest
<1>4. /\ out_messages' = Start(r, S)
      /\ inflight_messages' = inflight_messages - 1 + Cardinality(S)
      /\ sent' = sent \cup {PublishOf(r[i]) : i \in W}
      /\ pending' = pending /\ reconnects' = reconnects
  BY DEF RemoveAndStart, r
<1>5. Startable(mid) = FirstHeldBack(r, room)
  BY DEF Startable, r
<1>. HIDE DEF r
<1>6. Startable(mid) \in SUBSET (1 .. Len(r)) /\ Startable(mid) \subseteq HeldBack(r)
  <2>1. room \in Int
    BY <1>2 DEF IInv, TypeOK, Room
  <2>. HIDE DEF room
  <2>. QED  BY <1>2, <1>5, <2>1, FirstHeldBackBound
<1>7. (S = {} /\ HeldBack(r) = {}) \/ (\E i \in HeldBack(r) : S = {i})
  <2>1. CASE HeldBack(r) = {}
    BY <1>6, <2>1
  <2>2. CASE HeldBack(r) # {}
    <3>1. inflight_messages = MaxInflight /\ MaxInflight > 0
      BY <1>3, <2>2 DEF FirstConnection
    <3>2. room = 1
      BY <3>1 DEF Room
    <3>3. PICK i \in HeldBack(r) : FirstHeldBack(r, 1) = {i}
      BY <1>2, <2>2, FirstHeldBackOne
    <3>4. S \subseteq {i} /\ S # {}
      BY <1>5, <3>2, <3>3
    <3>. QED  BY <3>3, <3>4
  <2>. QED  BY <2>1, <2>2
<1>8. /\ HeldBack(out_messages') = HeldBack(r) \ S
      /\ InFlow' = (InFlow \ {mid}) \cup started
      /\ MidsOf(out_messages') = MidsOf(q) \ {mid}
  <2>1. S \in SUBSET (1 .. Len(r))
    BY <1>6
  <2>. QED  BY <1>2, <1>4, <2>1, HeldBackStarted, StartProperties DEF InFlow
<1>9. mid \in Touched /\ mid \in InFlow
  BY DEF AckArrives, Touched, FirstConnection
<1>10. Touched' \subseteq InFlow'
  <2>. SUFFICES ASSUME NEW m \in Touched', m \notin started
                PROVE  m \in Touched /\ m # mid
    BY <1>8 DEF FirstConnection
  <2>1. m \in MidsOf(q) /\ m # mid
    BY <1>8 DEF Touched
  <2>2. ASSUME NEW i \in W  PROVE PublishOf(r[i]).mid # m
    BY <2>2 DEF PublishOf
  <2>. HIDE DEF started
  <2>3. (\E pkt \in sent : pkt.mid = m) \/ (\E p \in Publishers : pending[p].mid = m)
    BY <1>4, <2>2 DEF Touched
  <2>. QED  BY <2>1, <2>3 DEF Touched
<1>11. IsFiniteSet(InFlow) /\ Cardinality(InFlow) \in Nat /\ Cardinality(InFlow) >= 1
  <2>1. IsFiniteSet(InFlow)
    BY CoveredFinite, FS_Subset DEF IInv, Covered
  <2>2. Cardinality(InFlow) \in Nat /\ Cardinality(InFlow) # 0
    BY ONLY <1>9, <2>1, FS_CardinalityType, FS_EmptySet
  <2>. QED  BY <2>1, <2>2
<1>12. IsFiniteSet(InFlow \ {mid}) /\ Cardinality(InFlow \ {mid}) = Cardinality(InFlow) - 1
  BY ONLY <1>9, <1>11, FS_RemoveElement
<1>13. CASE S = {} /\ HeldBack(r) = {}
  <2>1. Cardinality(S) = 0
    BY <1>13, FS_EmptySet
  <2>2. InFlow' = InFlow \ {mid} /\ HeldBack(out_messages') = {}
    BY <1>8, <1>13
  <2>. QED
    BY <1>4, <1>10, <1>11, <1>12, <2>1, <2>2 DEF FirstConnection
<1>14. ASSUME NEW i \in HeldBack(r), S = {i}  PROVE FirstConnection'
  <2>1. Cardinality(S) = 1
    BY <1>14, FS_Singleton
  <2>2. InFlow' = (InFlow \ {mid}) \cup {r[i].mid}
    BY <1>8, <1>14
  <2>3. r[i].mid \notin InFlow \ {mid}
    BY <1>2, <1>14 DEF InFlow, InFlowOf, HeldBack, DistinctMids
  <2>4. Cardinality(InFlow') = Cardinality(InFlow)
    <3>1. Cardinality((InFlow \ {mid}) \cup {r[i].mid}) = Cardinality(InFlow \ {mid}) + 1
      BY ONLY <1>12, <2>3, FS_AddElement
    <3>. QED  BY <1>11, <1>12, <2>2, <3>1
  <2>5. HeldBack(q) # {}
    BY <1>3, <1>14
  <2>. QED
    BY <1>4, <1>10, <1>11, <2>1, <2>4, <2>5 DEF FirstConnection
<1>. QED  BY <1>7, <1>13, <1>14

\* Each step keeps it.
LEMMA FirstConnectionStep ==
    ASSUME IInv, NoWrap, FirstConnection, [Next]_vars
    PROVE  FirstConnection'
<1>. SUFFICES ASSUME reconnects' = 0  PROVE FirstConnection'
  BY DEF FirstConnection
<1>0. reconnects = 0
  <2>1. reconnects \in Nat
    BY DEF IInv, TypeOK
  <2>2. reconnects' \in {reconnects, reconnects + 1}
    <3>1. ASSUME NEW p \in Publishers, Publish(p)  PROVE reconnects' = reconnects
      BY <3>1 DEF Publish, PublishQos0, PublishQueue, PublishSend,
         PublishSendFreed
    <3>2. ASSUME NEW mid \in Mids, HandleAck(mid)  PROVE reconnects' = reconnects
      BY <3>2 DEF HandleAck, HandlePubackcomp, HandlePubackcompSendFails,
         RemoveAndStart, HandlePubrec, HandlePubrecUnknown
    <3>3. ASSUME NEW S, RetryCheck(S)  PROVE reconnects' = reconnects
      BY <3>3 DEF RetryCheck
    <3>4. CASE LinkBreaks \/ SocketClose \/ SocketConnect \/ UNCHANGED vars
      BY <3>4 DEF LinkBreaks, SocketClose, SocketConnect, vars
    <3>5. CASE Reconnect
      BY <3>5 DEF Reconnect
    <3>. QED  BY <3>1, <3>2, <3>3, <3>4, <3>5 DEF Next
  <2>. QED  BY <2>1, <2>2
<1>. USE <1>0
<1>1. IsFiniteSet(InFlow) /\ Cardinality(InFlow) \in Nat
  BY CoveredFinite, FS_Subset, FS_CardinalityType DEF IInv, Covered
<1>2. ASSUME UNCHANGED <<out_messages, inflight_messages>>,
             Touched' \subseteq Touched \cup InFlow
      PROVE  FirstConnection'
  BY <1>2 DEF FirstConnection, InFlow
<1>3. ASSUME UNCHANGED <<out_messages, inflight_messages, pending, sent>>
      PROVE  FirstConnection'
  BY <1>2, <1>3 DEF Touched
<1>4. ASSUME NEW p \in Publishers, PublishQos0(p)  PROVE FirstConnection'
  BY <1>3, <1>4 DEF PublishQos0
<1>5. ASSUME NEW p \in Publishers, NEW qos \in {1, 2}, PublishQueue(p, qos)
      PROVE  FirstConnection'
  <2>. DEFINE mid == last_mid + 1
              room == HasRoom(inflight_messages)
              m == [mid |-> mid, qos |-> qos,
                    state |-> IF room THEN FirstWait(qos) ELSE "invalid"]
  <2>1. NextMid(last_mid) = mid /\ mid \in Mids
    BY <1>5 DEF PublishQueue, NextMid, IInv, TypeOK, MidsGenerated, NoWrap,
       Mids
  <2>2. /\ out_messages' = Append(out_messages, m)
        /\ inflight_messages' = inflight_messages + (IF room THEN 1 ELSE 0)
        /\ pending' = IF room THEN [pending EXCEPT ![p] = PublishOf(m)] ELSE pending
        /\ sent' = sent
    BY <1>5, <2>1 DEF PublishQueue
  <2>3. m \in Message /\ PublishOf(m).mid = mid
    BY <2>1 DEF Message, PublishOf, FirstWait, OutStates
  <2>4. m.mid = mid /\ (m.state # "invalid" <=> room)
    BY DEF FirstWait
  <2>. HIDE DEF m
  <2>5. /\ out_messages' \in Seq(Message)
        /\ DOMAIN out_messages' = 1 .. Len(out_messages) + 1
        /\ \A i \in 1 .. Len(out_messages) : out_messages'[i] = out_messages[i]
        /\ out_messages'[Len(out_messages) + 1] = m
        /\ Len(out_messages) \in Nat
        /\ DOMAIN out_messages = 1 .. Len(out_messages)
    BY <2>2, <2>3 DEF IInv, TypeOK
  <2>6. mid \notin MidsOf(out_messages) /\ mid \notin InFlow
    <3>1. mid \notin MidsOf(out_messages)
      BY <2>1 DEF IInv, MidsGenerated, TypeOK
    <3>. QED  BY <3>1 DEF InFlow, InFlowOf, MidsOf
  <2>7. InFlow' = IF room THEN InFlow \cup {mid} ELSE InFlow
    BY <2>4, <2>5 DEF InFlow, InFlowOf, HeldBack
  <2>8. HeldBack(out_messages') # {} => HeldBack(out_messages) # {} \/ ~ room
    BY <2>4, <2>5 DEF HeldBack
  <2>9. \A t \in Publishers : pending'[t] = pending[t] \/ (room /\ pending'[t].mid = mid)
    BY <2>2, <2>3 DEF IInv, TypeOK
  <2>10. MidsOf(out_messages') = MidsOf(out_messages) \cup {mid}
    BY <2>4, <2>5 DEF MidsOf
  <2>11. Touched' \subseteq Touched \cup (IF room THEN {mid} ELSE {})
    <3>1. \A pkt \in sent : pkt.mid # mid
      BY <2>1 DEF IInv, MidsGenerated, TypeOK
    <3>2. \A t \in Publishers : pending[t].mid # mid
      BY <2>1 DEF IInv, MidsGenerated, TypeOK
    <3>. HIDE DEF room
    <3>. QED  BY <2>2, <2>9, <2>10, <3>1, <3>2 DEF Touched
  <2>12. CASE room
    <3>1. Cardinality(InFlow') = Cardinality(InFlow) + 1
      BY <1>1, <2>6, <2>7, <2>12, FS_AddElement
    <3>2. Touched' \subseteq InFlow'
      BY <2>7, <2>11, <2>12 DEF FirstConnection
    <3>. QED
      BY <1>1, <2>2, <2>8, <2>12, <3>1, <3>2 DEF FirstConnection, HasRoom,
         IInv, TypeOK
  <2>13. CASE ~ room
    <3>1. Touched' \subseteq InFlow' /\ InFlow' = InFlow
      BY <2>7, <2>11, <2>13 DEF FirstConnection
    <3>. QED
      BY <1>1, <2>2, <2>13, <3>1 DEF FirstConnection, HasRoom, IInv, TypeOK
  <2>. QED  BY <2>12, <2>13
<1>6. ASSUME NEW p \in Publishers, PublishSend(p) \/ PublishSendFreed(p)
      PROVE  FirstConnection'
  <2>1. /\ \A t \in Publishers : pending'[t] = pending[t] \/ pending'[t] = NoPacket
        /\ sent' \subseteq sent \cup {pending[p]}
        /\ UNCHANGED <<out_messages, inflight_messages>>
    BY <1>6 DEF PublishSend, PublishSendFreed, IInv, TypeOK
  <2>2. Touched' \subseteq Touched
    <3>1. \A mid \in MidsOf(out_messages) : mid # 0
      BY MidTypes DEF IInv
    <3>. QED  BY <2>1, <3>1 DEF Touched, NoPacket
  <2>. QED  BY <1>2, <2>1, <2>2
<1>7. ASSUME NEW mid \in Mids, AckArrives(mid), HandlePubackcomp(mid)
      PROVE  FirstConnection'
  <2>1. /\ mid \in MidsOf(out_messages)
        /\ RemoveAndStart(mid, Startable(mid), Startable(mid))
    BY <1>7 DEF HandlePubackcomp
  <2>. QED  BY <1>7, <2>1, FirstRemoval
<1>8. ASSUME NEW mid \in Mids, AckArrives(mid), HandlePubackcompSendFails(mid)
      PROVE  FirstConnection'
  <2>1. PICK last \in Startable(mid) :
           RemoveAndStart(mid, {i \in Startable(mid) : i <= last},
                          {i \in Startable(mid) : i <= last} \ {last})
    BY <1>8 DEF HandlePubackcompSendFails
  <2>. DEFINE S == {i \in Startable(mid) : i <= last}
  <2>2. mid \in MidsOf(out_messages)
    BY <1>8 DEF HandlePubackcompSendFails
  <2>3. S \in SUBSET Startable(mid) /\ S \ {last} \in SUBSET S
    OBVIOUS
  <2>4. S # {}
    <3>1. Startable(mid) \subseteq Nat
      BY DEF Startable, FirstHeldBack, HeldBack, Rest, RemoveAt
    <3>. QED  BY <3>1
  <2>5. RemoveAndStart(mid, S, S \ {last})
    BY <2>1
  <2>. HIDE DEF S
  <2>. QED  BY <1>8, <2>2, <2>3, <2>4, <2>5, FirstRemoval
<1>9. ASSUME NEW mid \in Mids, PubrecArrives(mid), HandlePubrec(mid)
      PROVE  FirstConnection'
  <2>. DEFINE p == Position(out_messages, mid)
  <2>1. p \in 1 .. Len(out_messages) /\ out_messages[p].mid = mid
    <3>1. out_messages \in Seq(Entry(Mids)) /\ mid \in MidsOf(out_messages)
      BY <1>9, MessageIsEntry DEF HandlePubrec, IInv, TypeOK
    <3>. QED  BY ONLY <3>1, PositionProperties
  <2>2. out_messages' = [out_messages EXCEPT ![p].state = "wait_for_pubcomp"]
    BY <1>9 DEF HandlePubrec
  <2>. HIDE DEF p
  <2>3. /\ DOMAIN out_messages' = DOMAIN out_messages
        /\ \A i \in DOMAIN out_messages : out_messages'[i].mid = out_messages[i].mid
        /\ \A i \in DOMAIN out_messages : i # p => out_messages'[i] = out_messages[i]
        /\ out_messages'[p].state = "wait_for_pubcomp"
    <3>1. out_messages \in Seq(Message) /\ out_messages[p] \in Message
      BY <2>1 DEF IInv, TypeOK
    <3>2. out_messages' = [out_messages EXCEPT
                             ![p] = [out_messages[p] EXCEPT !.state = "wait_for_pubcomp"]]
      BY <2>2
    <3>. QED  BY <2>1, <3>1, <3>2 DEF Message
  <2>4. MidsOf(out_messages') = MidsOf(out_messages)
    BY <2>3 DEF MidsOf
  <2>5. UNCHANGED <<inflight_messages, pending>> /\ sent' \subseteq sent \cup {PubrelOf(mid)}
    BY <1>9 DEF HandlePubrec
  <2>6. mid \in Touched
    BY <1>9 DEF HandlePubrec, PubrecArrives, Touched
  <2>7. mid \in InFlow
    BY <2>6 DEF FirstConnection
  <2>8. InFlow' = InFlow
    BY <2>1, <2>3, <2>7 DEF InFlow, InFlowOf, HeldBack
  <2>9. Touched' \subseteq Touched
    BY <2>4, <2>5, <2>6 DEF Touched, PubrelOf
  <2>10. HeldBack(out_messages') \subseteq HeldBack(out_messages)
    BY <2>3 DEF HeldBack
  <2>. QED  BY <2>5, <2>8, <2>9, <2>10 DEF FirstConnection
<1>10. ASSUME NEW mid \in Mids, HandlePubrecUnknown(mid)  PROVE FirstConnection'
  BY <1>3, <1>10 DEF HandlePubrecUnknown
<1>11. ASSUME NEW S \in SUBSET DOMAIN out_messages, RetryCheck(S)  PROVE FirstConnection'
  <2>1. ASSUME NEW i \in S
        PROVE  ResendOf(out_messages[i]).mid \in InFlow
    <3>1. ResendOf(out_messages[i]).mid = out_messages[i].mid
      BY DEF ResendOf, PubrelOf, PublishOf
    <3>2. i \in DOMAIN out_messages \ HeldBack(out_messages)
      BY <1>11, <2>1 DEF RetryCheck
    <3>. QED  BY <3>1, <3>2 DEF InFlow, InFlowOf
  <2>2. /\ UNCHANGED <<out_messages, inflight_messages, pending>>
        /\ sent' = sent \cup {ResendOf(out_messages[i]) : i \in S}
    BY <1>11 DEF RetryCheck
  <2>3. Touched' \subseteq Touched \cup InFlow
    BY <2>1, <2>2 DEF Touched
  <2>. QED  BY <1>2, <2>2, <2>3
<1>12. CASE LinkBreaks \/ SocketClose \/ SocketConnect \/ UNCHANGED vars
  BY <1>3, <1>12 DEF LinkBreaks, SocketClose, SocketConnect, vars
<1>13. CASE Reconnect
  BY <1>13 DEF Reconnect
<1>. QED
  BY <1>4, <1>5, <1>6, <1>7, <1>8, <1>9, <1>10, <1>11, <1>12, <1>13 DEF Next,
     Publish, HandleAck

\* Until the first reconnect a message waits only for a full window of messages
\* part way through their flow, each of which an acknowledgement will follow.
THEOREM HeldBackByTheWindow == NoWrap => (Spec => []HeldBackOnlyWhenFull)
<1>. SUFFICES ASSUME NoWrap  PROVE Spec => []HeldBackOnlyWhenFull
  OBVIOUS
<1>1. Init => FirstConnection
  <2>. SUFFICES ASSUME Init  PROVE FirstConnection
    OBVIOUS
  <2>1. MidsOf(out_messages) = {} /\ InFlow = {} /\ HeldBack(out_messages) = {}
    BY DEF Init, MidsOf, InFlow, InFlowOf, HeldBack
  <2>2. Touched = {} /\ Cardinality(InFlow) = 0
    BY <2>1, FS_EmptySet DEF Touched
  <2>. QED  BY <2>1, <2>2 DEF Init, FirstConnection
<1>2. IInv /\ FirstConnection /\ [Next]_vars => FirstConnection'
  BY FirstConnectionStep
<1>3. IInv /\ FirstConnection => HeldBackOnlyWhenFull
  BY DEF IInv, TypeOK, FirstConnection, HeldBackOnlyWhenFull
<1>4. Spec => []IInv
  BY Invariance
<1>. QED  BY <1>1, <1>2, <1>3, <1>4, PTL DEF Spec
=============================================================================
