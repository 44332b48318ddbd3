-------------------------- MODULE SessionOpsProofs --------------------------
(***************************************************************************)
(* Facts about sequences that the other proofs rest on, and what the       *)
(* codecs and set_frame() return for every topic, every published state    *)
(* and every argument.                                                     *)
(***************************************************************************)
EXTENDS SessionOps, SequenceTheorems, WellFoundedInduction, TLAPS

-----------------------------------------------------------------------------
(* Sequences *)

\* A function on 1..n is a sequence of length n.
LEMMA FunctionIsSeq ==
  ASSUME NEW S, NEW n \in Nat, NEW f \in [1 .. n -> S]
  PROVE  f \in Seq(S) /\ Len(f) = n /\ DOMAIN f = 1 .. n
<1>1. f \in Seq(S)
  BY SeqDef
<1>2. DOMAIN f = 1 .. n
  OBVIOUS
<1>3. Len(f) \in Nat /\ DOMAIN f = 1 .. Len(f)
  BY <1>1, LenProperties
<1>. QED
  BY <1>1, <1>2, <1>3

\* A set of positions of a sequence has a least and a greatest one.
LEMMA LeastAndGreatest ==
  ASSUME NEW n \in Nat, NEW S, S \subseteq 1 .. n, S # {}
  PROVE  /\ \E x \in S : \A y \in S : x <= y
         /\ \E x \in S : \A y \in S : y <= x
<1>1. ASSUME NEW T, T \subseteq Nat, T # {}
      PROVE  \E x \in T : \A y \in T : x <= y
  <2>1. PICK x \in T : \A y \in T : ~ (<<y, x>> \in OpToRel(<, Nat))
    BY <1>1, WFMin, NatLessThanWellFounded
  <2>2. \A y \in T : ~ (y < x)
    BY <1>1, <2>1, Zenon DEF OpToRel
  <2>3. \A y \in T : x <= y
    BY <1>1, <2>2
  <2>. QED
    BY <2>3
<1>2. \E x \in S : \A y \in S : x <= y
  <2>1. S \subseteq Nat
    OBVIOUS
  <2>. QED
    BY <1>1, <2>1
<1>3. \E x \in S : \A y \in S : y <= x
  <2>. DEFINE T == {n - j : j \in S}
  <2>1. T \subseteq Nat /\ T # {}
    <3>1. \A j \in S : n - j \in Nat
      OBVIOUS
    <3>. QED
      BY <3>1
  <2>2. PICK x \in T : \A y \in T : x <= y
    BY <1>1, <2>1
  <2>3. PICK k \in S : x = n - k
    OBVIOUS
  <2>4. \A j \in S : n - k <= n - j
    BY <2>2, <2>3
  <2>5. \A j \in S : j <= k
    BY <2>4
  <2>. QED
    BY <2>5
<1>. QED
  BY <1>2, <1>3

\* A prefix and the rest of a sequence are sequences of the same set.
LEMMA SplitSeq ==
  ASSUME NEW S, NEW s \in Seq(S), NEW n \in 1 .. Len(s)
  PROVE  SubSeq(s, 1, n) \in Seq(S) /\ SubSeq(s, n + 1, Len(s)) \in Seq(S)
<1>1. Len(s) \in Nat /\ \A i \in 1 .. Len(s) : s[i] \in S
  BY LenProperties, ElementOfSeq
<1>2. (\A i \in 1 .. n : s[i] \in S) /\ (\A i \in n + 1 .. Len(s) : s[i] \in S)
  BY <1>1
<1>. QED
  BY <1>1, <1>2, SubSeqProperties

\* The tail of a sequence is the sequence moved down by one.
LEMMA TailShift ==
  ASSUME NEW S, NEW s \in Seq(S), s # <<>>
  PROVE  /\ 1 \in DOMAIN s /\ Head(s) = s[1]
         /\ \A k \in DOMAIN Tail(s) : k + 1 \in DOMAIN s /\ k + 1 # 1 /\ Tail(s)[k] = s[k + 1]
  BY HeadTailProperties, LenProperties

\* Where an element of a concatenation comes from.
LEMMA ConcatElements ==
  ASSUME NEW S, NEW s \in Seq(S), NEW f \in Seq(S), NEW k \in DOMAIN (s \o f)
  PROVE  \/ k \in DOMAIN s /\ (s \o f)[k] = s[k]
         \/ k - Len(s) \in DOMAIN f /\ (s \o f)[k] = f[k - Len(s)]
<1>1. /\ Len(s) \in Nat /\ Len(f) \in Nat /\ DOMAIN s = 1 .. Len(s) /\ DOMAIN f = 1 .. Len(f)
      /\ s \o f \in Seq(S) /\ Len(s \o f) = Len(s) + Len(f)
      /\ \A j \in 1 .. Len(s) + Len(f) : (s \o f)[j] = IF j <= Len(s) THEN s[j] ELSE f[j - Len(s)]
  BY LenProperties, ConcatProperties
<1>2. k \in 1 .. Len(s) + Len(f)
  BY <1>1, LenProperties
<1>. QED
  BY <1>1, <1>2

\* An element added behind the others.
LEMMA AppendElements ==
  ASSUME NEW S, NEW s \in Seq(S), NEW e \in S
  PROVE  /\ DOMAIN Append(s, e) = DOMAIN s \cup {Len(s) + 1} /\ Len(s) + 1 \notin DOMAIN s
         /\ Append(s, e)[Len(s) + 1] = e
         /\ \A k \in DOMAIN s : Append(s, e)[k] = s[k]
  BY AppendProperties, LenProperties

\* The members of a sequence.
Members(s) == {s[k] : k \in DOMAIN s}

\* Members of a sequence, of an end of it, of its parts and with one more.
LEMMA MembersOf ==
  ASSUME NEW S, NEW s \in Seq(S)
  PROVE  /\ s # <<>> => Head(s) \in Members(s) /\ Members(Tail(s)) \subseteq Members(s)
         /\ \A e \in S : Members(Append(s, e)) = Members(s) \cup {e}
         /\ \A n \in 1 .. Len(s) : /\ Members(SubSeq(s, 1, n)) \subseteq Members(s)
                                   /\ Members(SubSeq(s, n + 1, Len(s))) \subseteq Members(s)
         /\ Members(s) \subseteq S
<1>1. s # <<>> => Head(s) \in Members(s) /\ Members(Tail(s)) \subseteq Members(s)
  BY TailShift DEF Members
<1>2. ASSUME NEW e \in S PROVE Members(Append(s, e)) = Members(s) \cup {e}
  BY AppendElements DEF Members
<1>3. ASSUME NEW n \in 1 .. Len(s)
      PROVE  /\ Members(SubSeq(s, 1, n)) \subseteq Members(s)
             /\ Members(SubSeq(s, n + 1, Len(s))) \subseteq Members(s)
  <2>1. Len(s) \in Nat /\ DOMAIN s = 1 .. Len(s)
    BY LenProperties
  <2>2. Members(SubSeq(s, 1, n)) \subseteq Members(s)
    <3>. DEFINE a == SubSeq(s, 1, n)
    <3>1. a \in Seq(S) /\ Len(a) = n /\ \A i \in 1 .. n : a[i] = s[i]
      BY <2>1, SplitSeq, SubSeqProperties
    <3>2. DOMAIN a = 1 .. n
      BY <3>1, LenProperties
    <3>. HIDE DEF a
    <3>. QED
      BY <2>1, <3>1, <3>2 DEF Members
  <2>3. Members(SubSeq(s, n + 1, Len(s))) \subseteq Members(s)
    <3>. DEFINE b == SubSeq(s, n + 1, Len(s))
    <3>1. \A i \in n + 1 .. Len(s) : s[i] \in S
      BY <2>1, ElementOfSeq
    <3>2. /\ b \in Seq(S) /\ Len(b) = IF n + 1 <= Len(s) THEN Len(s) - (n + 1) + 1 ELSE 0
          /\ \A i \in 1 .. Len(s) - (n + 1) + 1 : b[i] = s[(n + 1) + i - 1]
      BY <2>1, <3>1, SubSeqProperties
    <3>3. DOMAIN b = 1 .. Len(s) - (n + 1) + 1
      BY <2>1, <3>2, LenProperties
    <3>. HIDE DEF b
    <3>4. ASSUME NEW i \in DOMAIN b PROVE b[i] \in Members(s)
      <4>1. (n + 1) + i - 1 \in DOMAIN s
        BY <2>1, <3>3
      <4>2. b[i] = s[(n + 1) + i - 1]
        BY <3>2, <3>3
      <4>. QED
        BY <4>1, <4>2 DEF Members
    <3>. QED
      BY <3>4 DEF Members
  <2>. QED
    BY <2>2, <2>3
<1>4. Members(s) \subseteq S
  BY LenProperties DEF Members
<1>. QED
  BY <1>1, <1>2, <1>3, <1>4

-----------------------------------------------------------------------------
(* Codecs and writes *)

\* An element-wise conversion keeps the length of a sequence.
LEMMA ElementWise ==
  ASSUME NEW s \in Seq(Int), NEW f \in [DOMAIN s -> Int]
  PROVE  /\ f \in Seq(Int)
         /\ Len(f) = Len(s)
         /\ DOMAIN f = DOMAIN s
  BY LenProperties, FunctionIsSeq

\* decode() yields a value for every payload.
LEMMA DecodeType ==
  ASSUME NEW t \in Topics, NEW words \in Seq(Int)
  PROVE  Used(t, words) \in Seq(Int) /\ Decode(t, words) \in Seq(Int)
<1>. DEFINE even == SubSeq(words, 1, Len(words) - (Len(words) % 2))
<1>1. even \in Seq(Int)
  <2>1. Len(words) \in Nat /\ \A i \in 1 .. Len(words) : words[i] \in Int
    BY LenProperties, ElementOfSeq
  <2>2. Len(words) % 2 \in 0 .. 1
    BY <2>1
  <2>3. \A i \in 1 .. Len(words) - (Len(words) % 2) : words[i] \in Int
    BY <2>1, <2>2
  <2>. QED
    BY <2>1, <2>2, <2>3, SubSeqProperties
<1>2. words # <<>> => <<words[1]>> \in Seq(Int)
  BY LenProperties, EmptySeq, ElementOfSeq
<1>3. Used(t, words) \in Seq(Int)
  BY <1>1, <1>2 DEF Used
<1>4. ASSUME NEW s \in Seq(Int)
      PROVE  /\ [i \in DOMAIN s |-> 10 * s[i]] \in Seq(Int)
             /\ [i \in DOMAIN s |-> Truth(s[i])] \in Seq(Int)
  <2>1. \A i \in DOMAIN s : s[i] \in Int
    BY LenProperties
  <2>. QED
    BY <2>1, ElementWise DEF Truth
<1>. QED
  BY <1>3, <1>4 DEF Decode, Each

\* round() is off by half a thousandth at most.
LEMMA RoundNearest ==
  ASSUME NEW x \in Int
  PROVE  /\ Round(x) \in Int
         /\ 10 * Round(x) - x <= 5 /\ x - 10 * Round(x) <= 5
  BY DEF Round

\* encode() yields a payload for every value.
LEMMA EncodeType ==
  ASSUME NEW t \in Topics, NEW value \in Seq(Int)
  PROVE  /\ Encode(t, value) \in Seq(Int)
         /\ Len(Encode(t, value)) = Len(value)
<1>1. /\ [i \in DOMAIN value |-> Round(value[i])] \in Seq(Int)
      /\ Len([i \in DOMAIN value |-> Round(value[i])]) = Len(value)
      /\ [i \in DOMAIN value |-> Truth(value[i])] \in Seq(Int)
      /\ Len([i \in DOMAIN value |-> Truth(value[i])]) = Len(value)
  <2>1. \A i \in DOMAIN value : value[i] \in Int
    BY LenProperties
  <2>2. [i \in DOMAIN value |-> Round(value[i])] \in [DOMAIN value -> Int]
    BY <2>1, RoundNearest
  <2>3. [i \in DOMAIN value |-> Truth(value[i])] \in [DOMAIN value -> Int]
    BY DEF Truth
  <2>. QED
    BY <2>2, <2>3, ElementWise
<1>. QED
  BY <1>1 DEF Encode, Each

\* _coerce yields a value that can be encoded.
LEMMA CoerceType ==
  ASSUME NEW t, NEW v \in Int
  PROVE  Coerce(t, v) \in Int
  BY DEF Coerce, Truth

\* What a SET writes is an array or a scalar of integers.
LEMMA NewValueType ==
  ASSUME NEW values \in [Topics -> Seq(Int)],
         NEW t \in Topics, NEW v \in Int, NEW c \in Nat,
         RefusedBy(values, t, v, c) = "none"
  PROVE  /\ NewValue(values, t, v, c) \in Seq(Int)
         /\ Expected(values, t, v, c) \in Seq(Int)
<1>1. NewValue(values, t, v, c) \in Seq(Int)
  <2>1. CASE t \in PerCompartment
    <3>1. values[t] \in Seq(Int) /\ c + 1 \in 1 .. Len(values[t])
      BY <2>1, LenProperties DEF RefusedBy
    <3>. QED
      BY <2>1, <3>1, CoerceType, ExceptSeq DEF NewValue
  <2>2. CASE t \notin PerCompartment
    BY <2>2, CoerceType, FunctionIsSeq DEF NewValue
  <2>. QED
    BY <2>1, <2>2
<1>. QED
  BY <1>1, DecodeType, EncodeType DEF Expected

\* set_frame() writes the whole array of a per-compartment topic, and every
\* compartment but the named one keeps its last published value
\* (session.py:144-145).
THEOREM OthersKeepPublished ==
  ASSUME NEW values \in [Topics -> Seq(Int)],
         NEW t \in PerCompartment, NEW v \in Int, NEW c \in Nat,
         RefusedBy(values, t, v, c) = "none"
  PROVE  /\ Len(NewValue(values, t, v, c)) = Len(values[t])
         /\ NewValue(values, t, v, c)[c + 1] = Coerce(t, v)
         /\ \A i \in 1 .. Len(values[t]) :
              i # c + 1 => NewValue(values, t, v, c)[i] = values[t][i]
<1>1. values[t] \in Seq(Int) /\ c + 1 \in 1 .. Len(values[t])
  BY LenProperties DEF RefusedBy, PerCompartment, Topics
<1>. QED
  BY <1>1, CoerceType, ExceptSeq DEF NewValue
=============================================================================
