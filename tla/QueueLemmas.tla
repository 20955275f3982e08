------------------------------ MODULE QueueLemmas ------------------------------
(***************************************************************************)
(* Queues of messages, seen as the set of what they hold: what sending and *)
(* taking a message do to it.                                              *)
(***************************************************************************)
EXTENDS Naturals, Sequences, TLAPS

Items(q) == {q[i] : i \in 1 .. Len(q)}

\* Nothing is in an empty queue, and something in every other.
LEMMA ItemsEmpty ==
    ASSUME NEW S, NEW q \in Seq(S)
    PROVE  /\ Items(<<>>) = {}
           /\ q # <<>> <=> Items(q) # {}
<1>1. q # <<>> => 1 \in 1 .. Len(q)
    OBVIOUS
<1> QED
    BY <1>1 DEF Items

\* A message that is sent joins the others.
LEMMA ItemsAppend ==
    ASSUME NEW S, NEW q \in Seq(S), NEW e \in S
    PROVE  /\ Append(q, e) \in Seq(S) /\ Append(q, e) # <<>>
           /\ Items(Append(q, e)) = Items(q) \cup {e}
<1>1. /\ Append(q, e) \in Seq(S)
      /\ Len(Append(q, e)) = Len(q) + 1
      /\ \A i \in 1 .. Len(q) : Append(q, e)[i] = q[i]
      /\ Append(q, e)[Len(q) + 1] = e
    OBVIOUS
<1>2. Len(q) \in Nat
    OBVIOUS
<1>3. 1 .. Len(q) + 1 = (1 .. Len(q)) \cup {Len(q) + 1}
    BY <1>2
<1>4. Append(q, e) # <<>>
    BY <1>1, <1>2
<1> QED
    BY <1>1, <1>3, <1>4 DEF Items

\* A message that is taken was there, and the others are what is left.
LEMMA ItemsTail ==
    ASSUME NEW S, NEW q \in Seq(S), q # <<>>
    PROVE  /\ Head(q) \in S /\ Tail(q) \in Seq(S)
           /\ Items(q) = {Head(q)} \cup Items(Tail(q))
<1>1. /\ Len(q) \in Nat \ {0} /\ Len(Tail(q)) = Len(q) - 1
      /\ Tail(q) \in Seq(S) /\ Head(q) = q[1] /\ Head(q) \in S
      /\ \A i \in 1 .. Len(q) - 1 : Tail(q)[i] = q[i + 1]
    OBVIOUS
<1>2. Items(q) \subseteq {Head(q)} \cup Items(Tail(q))
    <2> SUFFICES ASSUME NEW i \in 1 .. Len(q)
                 PROVE  q[i] = Head(q) \/ q[i] \in Items(Tail(q))
      BY DEF Items
    <2>1. CASE i = 1
      BY <1>1, <2>1
    <2>2. CASE i # 1
      <3>1. i - 1 \in 1 .. Len(Tail(q)) /\ q[i] = Tail(q)[i - 1]
        BY <1>1, <2>2
      <3> QED
        BY <3>1 DEF Items
    <2> QED
      BY <2>1, <2>2
<1>3. {Head(q)} \cup Items(Tail(q)) \subseteq Items(q)
    <2>1. Head(q) \in Items(q)
      BY <1>1 DEF Items
    <2>2. ASSUME NEW i \in 1 .. Len(Tail(q))
          PROVE  Tail(q)[i] \in Items(q)
      <3>1. i + 1 \in 1 .. Len(q) /\ Tail(q)[i] = q[i + 1]
        BY <1>1
      <3> QED
        BY <3>1 DEF Items
    <2> QED
      BY <2>1, <2>2 DEF Items
<1> QED
    BY <1>1, <1>2, <1>3

\* What is sent together joins the others, and what is cut off is gone.
LEMMA ItemsConcat ==
    ASSUME NEW S, NEW q \in Seq(S), NEW r \in Seq(S)
    PROVE  q \o r \in Seq(S) /\ Items(q \o r) = Items(q) \cup Items(r)
<1>1. /\ q \o r \in Seq(S) /\ Len(q) \in Nat /\ Len(r) \in Nat
      /\ Len(q \o r) = Len(q) + Len(r)
      /\ \A i \in 1 .. Len(q) : (q \o r)[i] = q[i]
      /\ \A i \in 1 .. Len(r) : (q \o r)[Len(q) + i] = r[i]
    OBVIOUS
<1>2. Items(q \o r) \subseteq Items(q) \cup Items(r)
    <2> SUFFICES ASSUME NEW i \in 1 .. Len(q) + Len(r)
                 PROVE  (q \o r)[i] \in Items(q) \cup Items(r)
      BY <1>1 DEF Items
    <2>1. CASE i <= Len(q)
      <3>1. i \in 1 .. Len(q)
        BY <1>1, <2>1
      <3> QED
        BY <1>1, <3>1 DEF Items
    <2>2. CASE i > Len(q)
      <3>1. i - Len(q) \in 1 .. Len(r) /\ Len(q) + (i - Len(q)) = i
        BY <1>1, <2>2
      <3>2. (q \o r)[i] = r[i - Len(q)]
        BY <1>1, <3>1
      <3> QED
        BY <3>1, <3>2 DEF Items
    <2> QED
      BY <1>1, <2>1, <2>2
<1>3. \A i \in 1 .. Len(q) : q[i] \in Items(q \o r)
    <2> SUFFICES ASSUME NEW i \in 1 .. Len(q) PROVE q[i] \in Items(q \o r)
      OBVIOUS
    <2>1. i \in 1 .. Len(q \o r)
      BY <1>1
    <2> QED
      BY <1>1, <2>1 DEF Items
<1>4. \A i \in 1 .. Len(r) : r[i] \in Items(q \o r)
    <2> SUFFICES ASSUME NEW i \in 1 .. Len(r) PROVE r[i] \in Items(q \o r)
      OBVIOUS
    <2>1. Len(q) + i \in 1 .. Len(q \o r)
      BY <1>1
    <2> QED
      BY <1>1, <2>1 DEF Items
<1> QED
    BY <1>1, <1>2, <1>3, <1>4 DEF Items

LEMMA ItemsPrefix ==
    ASSUME NEW S, NEW q \in Seq(S), NEW n \in 0 .. Len(q)
    PROVE  SubSeq(q, 1, n) \in Seq(S) /\ Items(SubSeq(q, 1, n)) \subseteq Items(q)
<1>1. /\ SubSeq(q, 1, n) \in Seq(S) /\ Len(q) \in Nat
      /\ Len(SubSeq(q, 1, n)) = n
      /\ \A i \in 1 .. n : SubSeq(q, 1, n)[i] = q[i] /\ i \in 1 .. Len(q)
    OBVIOUS
<1> QED
    BY <1>1 DEF Items

\* Queues whose messages carry numbers that never go down.
Ascending(q) == \A i, j \in 1 .. Len(q) : i <= j => q[i].n <= q[j].n

LEMMA AscendingAppend ==
    ASSUME NEW S, NEW q \in Seq(S), NEW e \in S, \A x \in S : x.n \in Nat,
           Ascending(q), \A x \in Items(q) : x.n <= e.n
    PROVE  Ascending(Append(q, e))
<1>1. /\ Len(Append(q, e)) = Len(q) + 1 /\ Len(q) \in Nat
      /\ \A i \in 1 .. Len(q) : Append(q, e)[i] = q[i] /\ q[i] \in Items(q)
      /\ Append(q, e)[Len(q) + 1] = e
    BY DEF Items
<1> SUFFICES ASSUME NEW i \in 1 .. Len(q) + 1, NEW j \in 1 .. Len(q) + 1, i <= j
             PROVE  Append(q, e)[i].n <= Append(q, e)[j].n
    BY <1>1 DEF Ascending
<1>2. CASE j \in 1 .. Len(q)
    BY <1>1, <1>2 DEF Ascending
<1>3. CASE j = Len(q) + 1
    BY <1>1, <1>3
<1> QED
    BY <1>1, <1>2, <1>3

LEMMA AscendingTail ==
    ASSUME NEW S, NEW q \in Seq(S), q # <<>>, Ascending(q)
    PROVE  Ascending(Tail(q)) /\ \A x \in Items(Tail(q)) : Head(q).n <= x.n
<1>1. /\ Len(q) \in Nat \ {0} /\ Len(Tail(q)) = Len(q) - 1 /\ Head(q) = q[1]
      /\ \A i \in 1 .. Len(q) - 1 : Tail(q)[i] = q[i + 1]
    OBVIOUS
<1>2. Ascending(Tail(q))
    BY <1>1 DEF Ascending
<1>3. \A i \in 1 .. Len(Tail(q)) : Head(q).n <= Tail(q)[i].n
    BY <1>1 DEF Ascending
<1> QED
    BY <1>2, <1>3 DEF Items

=============================================================================
