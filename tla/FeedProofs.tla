------------------------------ MODULE FeedProofs ------------------------------
(***************************************************************************)
(* The invariants of FeedSystem, for every stream, however it is cut, and  *)
(* whatever texts are frames.  A session matches what it has consumed: the *)
(* received bytes up to the last terminator before its buffer.  Each turn  *)
(* of the loop consumes one more line and keeps that.                      *)
(***************************************************************************)
EXTENDS FeedSystem, SessionOpsProofs, FiniteSetTheorems

-----------------------------------------------------------------------------
(* Streams and their lines *)

\* The greatest element of a set of numbers is what it looks like.
LEMMA GreatestIs ==
  ASSUME NEW S, S \subseteq Nat, NEW x \in S \cup {0}, \A y \in S : y <= x
  PROVE  Greatest(S) = x
<1>1. \A z \in S \cup {0} : (\A y \in S : y <= z) => z = x
  <2>. SUFFICES ASSUME NEW z \in S \cup {0}, \A y \in S : y <= z PROVE z = x
    OBVIOUS
  <2>1. CASE S = {}
    BY <2>1
  <2>2. CASE x \in S /\ z \in S
    BY <2>2
  <2>3. CASE x = 0 /\ z \in S
    BY <2>3
  <2>4. CASE x \in S /\ z = 0
    BY <2>4
  <2>. QED
    BY <2>1, <2>2, <2>3, <2>4
<1>. QED
  BY <1>1 DEF Greatest

\* A set of places in a stream has a greatest one, if it is not empty.
LEMMA GreatestType ==
  ASSUME NEW n \in Nat, NEW S, S \subseteq 1 .. n
  PROVE  /\ Greatest(S) \in S \cup {0}
         /\ \A y \in S : y <= Greatest(S)
         /\ S # {} => Greatest(S) \in S
<1>1. CASE S = {}
  BY <1>1, GreatestIs
<1>2. CASE S # {}
  <2>1. PICK x \in S : \A y \in S : y <= x
    BY <1>2, LeastAndGreatest
  <2>2. S \subseteq Nat /\ x \in S \cup {0}
    BY <2>1
  <2>3. Greatest(S) = x
    BY <2>1, <2>2, GreatestIs
  <2>. QED
    BY <2>1, <2>3
<1>. QED
  BY <1>1, <1>2

\* The terminators of a stream are places in it.
LEMMA EndsType ==
  ASSUME NEW came \in Seq(Pieces)
  PROVE  /\ Ends(came) \subseteq 1 .. Len(came) /\ Len(came) \in Nat
         /\ IsFiniteSet(Ends(came))
<1>1. Ends(came) \subseteq 1 .. Len(came) /\ Len(came) \in Nat
  BY LenProperties DEF Ends
<1>2. IsFiniteSet(1 .. Len(came))
  BY <1>1, FS_Interval
<1>. QED
  BY <1>1, <1>2, FS_Subset

\* What one more piece of a stream does to its terminators.
LEMMA EndsOfBoth ==
  ASSUME NEW came \in Seq(Pieces), NEW more \in Seq(Pieces)
  PROVE  /\ came \o more \in Seq(Pieces) /\ Len(came \o more) = Len(came) + Len(more)
         /\ Ends(came \o more) = Ends(came) \cup {Len(came) + k : k \in Ends(more)}
<1>1. /\ came \o more \in Seq(Pieces) /\ Len(came \o more) = Len(came) + Len(more)
      /\ DOMAIN (came \o more) = 1 .. Len(came) + Len(more)
      /\ \A k \in 1 .. Len(came) + Len(more) :
           (came \o more)[k] = IF k <= Len(came) THEN came[k] ELSE more[k - Len(came)]
      /\ Len(came) \in Nat /\ Len(more) \in Nat
      /\ DOMAIN came = 1 .. Len(came) /\ DOMAIN more = 1 .. Len(more)
  BY ConcatProperties, LenProperties
<1>2. ASSUME NEW k \in Ends(came \o more)
      PROVE  k \in Ends(came) \cup {Len(came) + j : j \in Ends(more)}
  <2>1. k \in 1 .. Len(came) + Len(more) /\ (came \o more)[k] = CR
    BY <1>1, <1>2 DEF Ends
  <2>2. CASE k <= Len(came)
    BY <1>1, <2>1, <2>2 DEF Ends
  <2>3. CASE k > Len(came)
    <3>1. k - Len(came) \in 1 .. Len(more) /\ k = Len(came) + (k - Len(came))
      BY <1>1, <2>1, <2>3
    <3>2. k - Len(came) \in Ends(more)
      BY <1>1, <2>1, <2>3, <3>1 DEF Ends
    <3>. QED
      BY <3>1, <3>2
  <2>. QED
    BY <1>1, <2>1, <2>2, <2>3
<1>3. Ends(came) \subseteq Ends(came \o more)
  <2>. SUFFICES ASSUME NEW k \in Ends(came) PROVE k \in Ends(came \o more)
    OBVIOUS
  <2>1. k \in 1 .. Len(came) /\ came[k] = CR
    BY <1>1 DEF Ends
  <2>2. k \in 1 .. Len(came) + Len(more) /\ k <= Len(came)
    BY <1>1, <2>1
  <2>. QED
    BY <1>1, <2>1, <2>2 DEF Ends
<1>4. ASSUME NEW j \in Ends(more)
      PROVE  Len(came) + j \in Ends(came \o more)
  <2>1. j \in 1 .. Len(more) /\ more[j] = CR
    BY <1>1 DEF Ends
  <2>2. /\ Len(came) + j \in 1 .. Len(came) + Len(more) /\ ~ Len(came) + j <= Len(came)
        /\ Len(came) + j - Len(came) = j
    BY <1>1, <2>1
  <2>. QED
    BY <1>1, <2>1, <2>2 DEF Ends
<1>. QED
  BY <1>1, <1>2, <1>3, <1>4

\* The lines that a stream has are not changed by what comes after them.
LEMMA LineStays ==
  ASSUME NEW came \in Seq(Pieces), NEW more \in Seq(Pieces), NEW k \in Ends(came)
  PROVE  LineAt(came \o more, k) = LineAt(came, k)
<1>. DEFINE start == Greatest({j \in Ends(came) : j < k})
<1>1. /\ Ends(came) \subseteq 1 .. Len(came) /\ Ends(more) \subseteq 1 .. Len(more)
      /\ Len(came) \in Nat /\ Len(more) \in Nat
  BY EndsType
<1>2. k \in 1 .. Len(came)
  BY <1>1
<1>3. {j \in Ends(came \o more) : j < k} = {j \in Ends(came) : j < k}
  <2>1. \A j \in Ends(more) : ~ Len(came) + j < k
    BY <1>1, <1>2
  <2>. QED
    BY <2>1, EndsOfBoth
<1>4. SubSeq(came \o more, start + 1, k - 1) = SubSeq(came, start + 1, k - 1)
  <2>1. start \in 0 .. k - 1
    <3>1. {j \in Ends(came) : j < k} \subseteq 1 .. Len(came)
      BY <1>1
    <3>2. start \in {j \in Ends(came) : j < k} \cup {0}
      BY <1>1, <3>1, GreatestType
    <3>. QED
      BY <1>1, <1>2, <3>2
  <2>. HIDE DEF start
  <2>2. CASE start + 1 <= k - 1
    <3>1. start + 1 \in 1 .. Len(came) /\ k - 1 \in 1 .. Len(came)
      BY <1>2, <2>1, <2>2
    <3>. QED
      BY <3>1, SubSeqOfConcat1
  <2>3. CASE k - 1 < start + 1
    BY <1>2, <2>1, <2>3, SubSeqEmpty
  <2>. QED
    BY <1>2, <2>1, <2>2, <2>3
<1>. QED
  BY <1>3, <1>4 DEF LineAt

\* A stream that is empty or ends in a terminator.
Whole(done) == done = <<>> \/ Len(done) \in Ends(done)

LEMMA EndOfWhole ==
  ASSUME NEW done \in Seq(Pieces), Whole(done)
  PROVE  Greatest(Ends(done)) = Len(done)
<1>1. Ends(done) \subseteq 1 .. Len(done) /\ Len(done) \in Nat
  BY EndsType
<1>2. CASE done = <<>>
  <2>1. Len(done) = 0 /\ Ends(done) = {}
    BY <1>1, <1>2
  <2>. QED
    BY <2>1, GreatestIs
<1>3. CASE Len(done) \in Ends(done)
  BY <1>1, <1>3, GreatestIs
<1>. QED
  BY <1>2, <1>3 DEF Whole

\* Such a stream with one line behind it.
LEMMA OneLineMore ==
  ASSUME NEW done \in Seq(Pieces), Whole(done),
         NEW more \in Seq(Pieces), Ends(more) = {Len(more)}
  PROVE  LET new == done \o more
             k   == Len(done) + Len(more)
         IN  /\ new \in Seq(Pieces) /\ Whole(new)
             /\ Ends(new) = Ends(done) \cup {k}
             /\ \A j \in Ends(done) : j < k /\ LineAt(new, j) = LineAt(done, j)
             /\ LineAt(new, k) = Strip(SubSeq(more, 1, Len(more) - 1))
<1>. DEFINE new == done \o more
            k   == Len(done) + Len(more)
<1>1. /\ Ends(done) \subseteq 1 .. Len(done) /\ Len(more) \in 1 .. Len(more)
      /\ Len(done) \in Nat /\ Len(more) \in Nat
  BY EndsType
<1>2. /\ new \in Seq(Pieces) /\ Len(new) = k
      /\ Ends(new) = Ends(done) \cup {k}
  <2>1. Ends(new) = Ends(done) \cup {Len(done) + j : j \in Ends(more)}
    BY EndsOfBoth
  <2>2. {Len(done) + j : j \in Ends(more)} = {k}
    OBVIOUS
  <2>. QED
    BY <2>1, <2>2, EndsOfBoth
<1>3. \A j \in Ends(done) : j < k /\ LineAt(new, j) = LineAt(done, j)
  BY <1>1, LineStays
<1>4. {j \in Ends(new) : j < k} = Ends(done)
  BY <1>1, <1>2, <1>3
<1>5. Greatest(Ends(done)) = Len(done)
  BY EndOfWhole
<1>6. SubSeq(new, Len(done) + 1, k - 1) = SubSeq(more, 1, Len(more) - 1)
  <2>1. CASE Len(more) = 1
    <3>1. SubSeq(new, Len(done) + 1, k - 1) = <<>> /\ SubSeq(more, 1, Len(more) - 1) = <<>>
      BY <1>1, <2>1, SubSeqEmpty
    <3>. QED
      BY <3>1
  <2>2. CASE Len(more) > 1
    <3>1. /\ Len(done) + 1 \in Len(done) + 1 .. Len(done) + Len(more)
          /\ k - 1 \in Len(done) + 1 .. Len(done) + Len(more)
          /\ Len(done) + 1 - Len(done) = 1 /\ k - 1 - Len(done) = Len(more) - 1
      BY <1>1, <2>2
    <3>2. SubSeq(new, Len(done) + 1, k - 1) =
            SubSeq(more, Len(done) + 1 - Len(done), k - 1 - Len(done))
      BY <3>1, SubSeqOfConcat2
    <3>. QED
      BY <3>1, <3>2
  <2>. QED
    BY <1>1, <2>1, <2>2
<1>7. LineAt(new, k) = Strip(SubSeq(more, 1, Len(more) - 1))
  BY <1>4, <1>5, <1>6 DEF LineAt
<1>. QED
  BY <1>2, <1>3, <1>7 DEF Whole

\* The first line of a buffer, with its terminator, and the rest.
LEMMA FirstLineOfBuffer ==
  ASSUME NEW buf \in Seq(Pieces), Ends(buf) # {}
  PROVE  LET first == SubSeq(buf, 1, FirstEnd(buf)) IN
           /\ first \in Seq(Pieces) /\ Ends(first) = {Len(first)}
           /\ FirstLine(buf) = Strip(SubSeq(first, 1, Len(first) - 1))
           /\ AfterFirst(buf) \in Seq(Pieces) /\ Len(AfterFirst(buf)) < Len(buf)
           /\ buf = first \o AfterFirst(buf)
<1>. DEFINE e == FirstEnd(buf)
            first == SubSeq(buf, 1, e)
<1>1. Ends(buf) \subseteq 1 .. Len(buf) /\ Len(buf) \in Nat
  BY EndsType
<1>2. e \in Ends(buf) /\ \A j \in Ends(buf) : e <= j
  <2>1. \E x \in Ends(buf) : \A y \in Ends(buf) : x <= y
    BY <1>1, LeastAndGreatest
  <2>. QED
    BY <2>1 DEF FirstEnd
<1>3. e \in 1 .. Len(buf) /\ buf[e] = CR
  BY <1>1, <1>2 DEF Ends
<1>. HIDE DEF e
<1>4. first \in Seq(Pieces) /\ SubSeq(buf, e + 1, Len(buf)) \in Seq(Pieces)
  BY <1>3, SplitSeq
<1>5. /\ Len(first) = e /\ \A i \in 1 .. e : first[i] = buf[i]
  <2>1. \A i \in 1 .. e : buf[i] \in Pieces
    BY <1>1, <1>3, ElementOfSeq
  <2>2. /\ Len(first) = e - 1 + 1
        /\ \A i \in 1 .. e - 1 + 1 : first[i] = buf[1 + i - 1]
    BY <1>3, <2>1, SubSeqProperties
  <2>. QED
    BY <1>3, <2>2
<1>6. Ends(first) = {e}
  <2>1. DOMAIN first = 1 .. e
    BY <1>4, <1>5, LenProperties
  <2>2. \A i \in 1 .. e : first[i] = CR => i = e
    <3>. SUFFICES ASSUME NEW i \in 1 .. e, first[i] = CR PROVE i = e
      OBVIOUS
    <3>1. i \in DOMAIN buf /\ buf[i] = CR
      BY <1>1, <1>3, <1>5, LenProperties
    <3>2. e <= i
      BY <1>2, <3>1 DEF Ends
    <3>. QED
      BY <1>3, <3>2
  <2>. QED
    BY <1>3, <1>5, <2>1, <2>2 DEF Ends
<1>7. SubSeq(first, 1, e - 1) = SubSeq(buf, 1, e - 1)
  <2>1. CASE e = 1
    BY <2>1, SubSeqEmpty
  <2>2. CASE e > 1
    <3>1. /\ 1 \in 1 .. Len(buf) /\ e \in 1 .. Len(buf)
          /\ 1 \in 1 .. e - 1 + 1 /\ e - 1 \in 1 .. e - 1 + 1
          /\ 1 + 1 - 1 = 1 /\ 1 + (e - 1) - 1 = e - 1
      BY <1>1, <1>3, <2>2
    <3>2. SubSeq(SubSeq(buf, 1, e), 1, e - 1) = SubSeq(buf, 1 + 1 - 1, 1 + (e - 1) - 1)
      BY <3>1, SubSeqOfSubSeq
    <3>. QED
      BY <3>1, <3>2
  <2>. QED
    BY <1>3, <2>1, <2>2
<1>8. buf = first \o SubSeq(buf, e + 1, Len(buf))
  <2>1. /\ 1 \in 1 .. Len(buf) + 1 /\ e \in 1 - 1 .. Len(buf) /\ Len(buf) \in e .. Len(buf)
    BY <1>1, <1>3
  <2>2. SubSeq(buf, 1, e) \o SubSeq(buf, e + 1, Len(buf)) = SubSeq(buf, 1, Len(buf))
    BY <2>1, ConcatAdjacentSubSeq
  <2>. QED
    BY <2>2, SubSeqFull
<1>9. Len(SubSeq(buf, e + 1, Len(buf))) < Len(buf)
  <2>1. \A i \in e + 1 .. Len(buf) : buf[i] \in Pieces
    BY <1>1, <1>3, ElementOfSeq
  <2>2. Len(SubSeq(buf, e + 1, Len(buf))) =
          IF e + 1 <= Len(buf) THEN Len(buf) - (e + 1) + 1 ELSE 0
    BY <1>1, <1>3, <2>1, SubSeqProperties
  <2>. QED
    BY <1>1, <1>3, <2>2
<1>. QED
  BY <1>4, <1>5, <1>6, <1>7, <1>8, <1>9 DEF FirstLine, AfterFirst, e

-----------------------------------------------------------------------------
(* One line *)

Stored == [form : {"none", "raw", "value"}, data : Seq(Int)]

Events == [kind : {"Publish", "Nak", "Unhandled"}, address : Addresses, raw : Stored]

Sessions ==
  [values : [Topics -> Stored], raw : [Addresses -> Stored], buf : Seq(Pieces),
   dropped : Nat, events : Seq(Events)]

\* A session that consumed a part of the stream and nothing else.
Consumed(s, done) ==
  /\ s \in Sessions
  /\ done \in Seq(Pieces) /\ Whole(done)
  /\ EventsMatch(s, done)
  /\ ValuesMatch(s, done)

\* The fields of a session.
LEMMA SessionFields ==
  ASSUME NEW s \in Sessions
  PROVE  /\ s = [values |-> s.values, raw |-> s.raw, buf |-> s.buf, dropped |-> s.dropped,
                 events |-> s.events]
         /\ s.values \in [Topics -> Stored] /\ s.raw \in [Addresses -> Stored]
         /\ s.buf \in Seq(Pieces) /\ s.dropped \in Nat /\ s.events \in Seq(Events)
  BY DEF Sessions

\* A session that is put together from fields of the right type.
LEMMA SessionOf ==
  ASSUME NEW v \in [Topics -> Stored], NEW r \in [Addresses -> Stored],
         NEW b \in Seq(Pieces), NEW d \in Nat, NEW e \in Seq(Events)
  PROVE  [values |-> v, raw |-> r, buf |-> b, dropped |-> d, events |-> e] \in Sessions
  BY DEF Sessions

\* What is stored of a payload.
LEMMA StoredType ==
  ASSUME NEW payload \in Payloads
  PROVE  /\ Raw(payload) \in Stored
         /\ \A t \in Topics : Value(t, payload) \in Stored
<1>1. payload.words \in Seq(Int) /\ payload.rest \in Int
  BY DEF Payloads
<1>2. Append(payload.words, payload.rest) \in Seq(Int)
  BY <1>1, AppendProperties
<1>3. Raw(payload) \in Stored
  BY <1>2 DEF Raw, Stored
<1>4. ASSUME NEW t \in Topics
      PROVE  Value(t, payload) \in Stored
  <2>1. Decode(t, payload.words) \in Seq(Int)
    BY <1>1, DecodeType
  <2>2. CASE Scalar(t) /\ payload.words = <<>>
    BY <1>3, <2>2 DEF Value
  <2>3. CASE ~ (Scalar(t) /\ payload.words = <<>>)
    BY <2>1, <2>3 DEF Value, Stored
  <2>. QED
    BY <2>2, <2>3
<1>. QED
  BY <1>3, <1>4

\* The lines of a stream with one line more: a frame, garbage or a blank line.
LEMMA LinesWithOneMore ==
  ASSUME NEW done \in Seq(Pieces), Whole(done),
         NEW more \in Seq(Pieces), Ends(more) = {Len(more)}
  PROVE  LET new  == done \o more
             k    == Len(done) + Len(more)
             line == Strip(SubSeq(more, 1, Len(more) - 1))
         IN  /\ line \in DOMAIN FrameOf =>
                  GoodLines(new) = GoodLines(done) \cup {k} /\ BadLines(new) = BadLines(done)
             /\ line \notin DOMAIN FrameOf /\ line # <<>> =>
                  GoodLines(new) = GoodLines(done) /\ BadLines(new) = BadLines(done) \cup {k}
             /\ line = <<>> =>
                  GoodLines(new) = GoodLines(done) /\ BadLines(new) = BadLines(done)
             /\ k \notin Ends(done) /\ FrameAt(new, k) = FrameOf[line]
             /\ \A j \in Ends(done) : j < k /\ FrameAt(new, j) = FrameAt(done, j)
<1>. DEFINE new  == done \o more
            k    == Len(done) + Len(more)
            line == Strip(SubSeq(more, 1, Len(more) - 1))
<1>1. /\ Ends(new) = Ends(done) \cup {k}
      /\ \A j \in Ends(done) : j < k /\ LineAt(new, j) = LineAt(done, j)
      /\ LineAt(new, k) = line
  BY OneLineMore
<1>2. k \notin Ends(done)
  <2>1. Ends(done) \subseteq Nat /\ k \in Nat
    BY EndsType
  <2>. QED
    BY <1>1, <2>1
<1>3. <<>> \notin DOMAIN FrameOf
  BY PiecesAssumption
<1>. HIDE DEF new, k, line
<1>4. line \in DOMAIN FrameOf =>
        GoodLines(new) = GoodLines(done) \cup {k} /\ BadLines(new) = BadLines(done)
  BY <1>1, <1>2 DEF GoodLines, BadLines
<1>5. line \notin DOMAIN FrameOf /\ line # <<>> =>
        GoodLines(new) = GoodLines(done) /\ BadLines(new) = BadLines(done) \cup {k}
  BY <1>1, <1>2 DEF GoodLines, BadLines
<1>6. line = <<>> => GoodLines(new) = GoodLines(done) /\ BadLines(new) = BadLines(done)
  BY <1>1, <1>2, <1>3 DEF GoodLines, BadLines
<1>7. /\ FrameAt(new, k) = FrameOf[line]
      /\ \A j \in Ends(done) : j < k /\ FrameAt(new, j) = FrameAt(done, j)
  BY <1>1 DEF FrameAt
<1>. QED
  BY <1>2, <1>4, <1>5, <1>6, <1>7 DEF new, k, line

\* The lines and the publications of a stream are places in it.
LEMMA LinesType ==
  ASSUME NEW came \in Seq(Pieces)
  PROVE  /\ GoodLines(came) \subseteq 1 .. Len(came) /\ GoodLines(came) \subseteq Ends(came)
         /\ IsFiniteSet(GoodLines(came)) /\ Cardinality(GoodLines(came)) \in Nat
         /\ BadLines(came) \subseteq Ends(came)
         /\ IsFiniteSet(BadLines(came)) /\ Cardinality(BadLines(came)) \in Nat
         /\ Len(came) \in Nat
         /\ \A a : /\ Published(came, a) \subseteq GoodLines(came)
                   /\ Published(came, a) # {} =>
                        Greatest(Published(came, a)) \in Published(came, a)
<1>1. /\ Ends(came) \subseteq 1 .. Len(came) /\ Len(came) \in Nat /\ IsFiniteSet(Ends(came))
  BY EndsType
<1>2. GoodLines(came) \subseteq Ends(came) /\ BadLines(came) \subseteq Ends(came)
  BY DEF GoodLines, BadLines
<1>3. IsFiniteSet(GoodLines(came)) /\ IsFiniteSet(BadLines(came))
  BY <1>1, <1>2, FS_Subset
<1>4. Cardinality(GoodLines(came)) \in Nat /\ Cardinality(BadLines(came)) \in Nat
  BY <1>3, FS_CardinalityType
<1>5. ASSUME NEW a
      PROVE  /\ Published(came, a) \subseteq GoodLines(came)
             /\ Published(came, a) # {} => Greatest(Published(came, a)) \in Published(came, a)
  <2>1. Published(came, a) \subseteq GoodLines(came)
    BY DEF Published
  <2>2. Published(came, a) \subseteq 1 .. Len(came)
    BY <1>1, <1>2, <2>1
  <2>. QED
    BY <1>1, <2>1, <2>2, GreatestType
<1>. QED
  BY <1>1, <1>2, <1>3, <1>4, <1>5

\* A session that matches a stream matches every other one with the same frames.
LEMMA SameFrames ==
  ASSUME NEW s \in Sessions, NEW done \in Seq(Pieces), NEW new,
         EventsMatch(s, done), ValuesMatch(s, done),
         GoodLines(new) = GoodLines(done),
         \A j \in Ends(done) : FrameAt(new, j) = FrameAt(done, j)
  PROVE  /\ \A t \in Sessions :
              t.events = s.events /\ t.dropped = Cardinality(BadLines(new)) => EventsMatch(t, new)
         /\ \A t \in Sessions : t.values = s.values /\ t.raw = s.raw => ValuesMatch(t, new)
<1>1. \A j \in GoodLines(done) : FrameAt(new, j) = FrameAt(done, j)
  BY LinesType
<1>2. \A a : Published(new, a) = Published(done, a)
  BY <1>1 DEF Published
<1>3. \A a : Published(done, a) # {} => Latest(new, a) = Latest(done, a)
  <2>. SUFFICES ASSUME NEW a, Published(done, a) # {}
                PROVE  Latest(new, a) = Latest(done, a)
    OBVIOUS
  <2>1. Greatest(Published(done, a)) \in GoodLines(done)
    BY LinesType
  <2>. QED
    BY <1>1, <1>2, <2>1 DEF Latest
<1>4. ASSUME NEW t \in Sessions, t.events = s.events, t.dropped = Cardinality(BadLines(new))
      PROVE  EventsMatch(t, new)
  BY <1>1, <1>4 DEF EventsMatch
<1>5. ASSUME NEW t \in Sessions, t.values = s.values, t.raw = s.raw
      PROVE  ValuesMatch(t, new)
  BY <1>2, <1>3, <1>5 DEF ValuesMatch
<1>. QED
  BY <1>4, <1>5

\* What handle() of one frame changes.
LEMMA HandleChanges ==
  ASSUME NEW s \in Sessions, NEW f \in Frames
  PROVE  LET t    == Handle(s, f)
             news == f.action = "PUBLISH"
         IN  /\ t \in Sessions /\ t.buf = s.buf /\ t.dropped = s.dropped
             /\ t.events = Append(s.events, EventOf(f))
             /\ EventOf(f) \in Events
             /\ \A a \in Addresses :
                  t.raw[a] = IF news /\ f.address = a THEN Raw(f.payload) ELSE s.raw[a]
             /\ \A u \in Topics :
                  t.values[u] = IF news /\ f.address = u THEN Value(u, f.payload)
                                                        ELSE s.values[u]
<1>. DEFINE
       t    == Handle(s, f)
       news == f.action = "PUBLISH"
       raw    == IF news THEN [s.raw EXCEPT ![f.address] = Raw(f.payload)] ELSE s.raw
       values == IF news /\ f.address \in Topics
                 THEN [s.values EXCEPT ![f.address] = Value(f.address, f.payload)]
                 ELSE s.values
       events == Append(s.events, EventOf(f))
<1>1. /\ s = [values |-> s.values, raw |-> s.raw, buf |-> s.buf, dropped |-> s.dropped,
              events |-> s.events]
      /\ s.values \in [Topics -> Stored] /\ s.raw \in [Addresses -> Stored]
      /\ s.buf \in Seq(Pieces) /\ s.dropped \in Nat /\ s.events \in Seq(Events)
  BY SessionFields
<1>2. /\ f.address \in Addresses /\ f.payload \in Payloads
      /\ Raw(f.payload) \in Stored
      /\ f.address \in Topics => Value(f.address, f.payload) \in Stored
  BY StoredType DEF Frames
<1>3. EventOf(f) \in Events
  BY <1>2 DEF EventOf, Events
<1>4. events \in Seq(Events)
  BY <1>1, <1>3, AppendProperties
<1>5. raw \in [Addresses -> Stored] /\ values \in [Topics -> Stored]
  BY <1>1, <1>2
<1>6. t = [values |-> values, raw |-> raw, buf |-> s.buf, dropped |-> s.dropped,
           events |-> events]
  <2>. DEFINE published == IF news THEN Publish(s, f) ELSE s
  <2>1. published = [values |-> values, raw |-> raw, buf |-> s.buf, dropped |-> s.dropped,
                     events |-> s.events] => t = [published EXCEPT !.events = events]
    <3>1. t = [published EXCEPT !.events = Append(@, EventOf(f))]
      BY DEF Handle
    <3>2. published = [values |-> values, raw |-> raw, buf |-> s.buf, dropped |-> s.dropped,
                       events |-> s.events] => published.events = s.events
      <4>. HIDE DEF published, values, raw
      <4>. QED
        OBVIOUS
    <3>. HIDE DEF published, t, raw, values
    <3>. QED
      BY <3>1, <3>2
  <2>2. published = [values |-> values, raw |-> raw, buf |-> s.buf, dropped |-> s.dropped,
                     events |-> s.events]
        => [published EXCEPT !.events = events] =
             [values |-> values, raw |-> raw, buf |-> s.buf, dropped |-> s.dropped,
              events |-> events]
    <3>. HIDE DEF published, values, raw, events
    <3>. QED
      OBVIOUS
  <2>3. CASE ~news
    BY <1>1, <2>3, <2>1, <2>2
  <2>4. CASE news /\ f.address \notin Topics
    <3>1. Publish(s, f) = [values |-> s.values, raw |-> raw, buf |-> s.buf,
                           dropped |-> s.dropped, events |-> s.events]
      BY <1>1, <2>4 DEF Publish
    <3>. QED
      BY <2>4, <2>1, <2>2, <3>1
  <2>5. CASE news /\ f.address \in Topics
    <3>1. Publish(s, f) = [values |-> values, raw |-> raw, buf |-> s.buf,
                           dropped |-> s.dropped, events |-> s.events]
      BY <1>1, <2>5 DEF Publish
    <3>. QED
      BY <2>5, <2>1, <2>2, <3>1
  <2>. QED
    BY <2>3, <2>4, <2>5
<1>7. /\ t \in Sessions /\ t.buf = s.buf /\ t.dropped = s.dropped /\ t.events = events
      /\ t.raw = raw /\ t.values = values
  <2>. HIDE DEF events, raw, values, t
  <2>1. [values |-> values, raw |-> raw, buf |-> s.buf, dropped |-> s.dropped,
         events |-> events] \in Sessions
    BY <1>1, <1>4, <1>5, SessionOf
  <2>. QED
    BY <1>6, <2>1
<1>8. \A a \in Addresses :
        raw[a] = IF news /\ f.address = a THEN Raw(f.payload) ELSE s.raw[a]
  BY <1>1
<1>9. \A u \in Topics :
        values[u] = IF news /\ f.address = u THEN Value(u, f.payload) ELSE s.values[u]
  BY <1>1
<1>. QED
  BY <1>3, <1>7, <1>8, <1>9

\* A frame more, and the session that handled it.
LEMMA FrameMore ==
  ASSUME NEW s \in Sessions, NEW done \in Seq(Pieces), NEW new, NEW k \in Nat,
         EventsMatch(s, done), ValuesMatch(s, done),
         GoodLines(new) = GoodLines(done) \cup {k}, BadLines(new) = BadLines(done),
         k \notin Ends(done),
         \A j \in Ends(done) : j < k /\ FrameAt(new, j) = FrameAt(done, j),
         FrameAt(new, k) \in Frames
  PROVE  EventsMatch(Handle(s, FrameAt(new, k)), new) /\ ValuesMatch(Handle(s, FrameAt(new, k)), new)
<1>. DEFINE f == FrameAt(new, k)
            t == Handle(s, f)
            good == GoodLines(done)
<1>1. /\ t.dropped = s.dropped
      /\ t.events = Append(s.events, EventOf(f))
      /\ EventOf(f) \in Events
      /\ \A a \in Addresses :
           t.raw[a] = IF f.action = "PUBLISH" /\ f.address = a THEN Raw(f.payload) ELSE s.raw[a]
      /\ \A u \in Topics :
           t.values[u] = IF f.action = "PUBLISH" /\ f.address = u THEN Value(u, f.payload)
                                                                ELSE s.values[u]
  BY HandleChanges
<1>2. s.events \in Seq(Events) /\ s.dropped \in Nat
  BY SessionFields
<1>3. /\ good \subseteq Ends(done) /\ good \subseteq 1 .. Len(done) /\ Len(done) \in Nat
      /\ IsFiniteSet(good) /\ Cardinality(good) \in Nat
  BY LinesType
<1>4. /\ k \notin good /\ \A j \in good : j < k /\ FrameAt(new, j) = FrameAt(done, j)
  BY <1>3
<1>5. Cardinality(good \cup {k}) = Cardinality(good) + 1
  BY <1>3, <1>4, FS_AddElement
<1>6. EventsMatch(t, new)
  <2>1. Len(s.events) = Cardinality(good) /\ s.dropped = Cardinality(BadLines(done))
    BY DEF EventsMatch
  <2>2. /\ Len(t.events) = Cardinality(good) + 1
        /\ t.events[Cardinality(good) + 1] = EventOf(f)
        /\ \A n \in 1 .. Cardinality(good) : t.events[n] = s.events[n]
    BY <1>1, <1>2, <2>1, AppendProperties
  <2>3. {j \in good \cup {k} : j <= k} = good \cup {k}
    BY <1>3, <1>4
  <2>4. ASSUME NEW j \in good
        PROVE  t.events[Cardinality({i \in good \cup {k} : i <= j})] = EventOf(FrameAt(new, j))
    <3>1. {i \in good \cup {k} : i <= j} = {i \in good : i <= j}
      BY <1>3, <1>4
    <3>2. /\ IsFiniteSet({i \in good : i <= j}) /\ {i \in good : i <= j} # {}
          /\ Cardinality({i \in good : i <= j}) <= Cardinality(good)
      BY <1>3, FS_Subset
    <3>3. Cardinality({i \in good : i <= j}) \in 1 .. Cardinality(good)
      <4>1. Cardinality({i \in good : i <= j}) \in Nat
        BY <3>2, FS_CardinalityType
      <4>2. Cardinality({i \in good : i <= j}) # 0
        BY <3>2, FS_EmptySet
      <4>. QED
        BY <1>3, <3>2, <4>1, <4>2
    <3>4. s.events[Cardinality({i \in good : i <= j})] = EventOf(FrameAt(done, j))
      BY DEF EventsMatch
    <3>. QED
      BY <1>4, <2>2, <3>1, <3>3, <3>4
  <2>. HIDE DEF t, f
  <2>5. \A j \in GoodLines(new) :
          t.events[Cardinality({i \in GoodLines(new) : i <= j})] = EventOf(FrameAt(new, j))
    BY <1>5, <2>2, <2>3, <2>4 DEF f
  <2>. QED
    BY <1>1, <1>5, <2>1, <2>2, <2>5 DEF EventsMatch
<1>7. ASSUME NEW a
      PROVE  /\ f.action = "PUBLISH" /\ f.address = a =>
                  Published(new, a) # {} /\ Latest(new, a) = f.payload
             /\ ~ (f.action = "PUBLISH" /\ f.address = a) =>
                  /\ Published(new, a) = Published(done, a)
                  /\ Published(done, a) # {} => Latest(new, a) = Latest(done, a)
  <2>1. CASE f.action = "PUBLISH" /\ f.address = a
    <3>1. Published(new, a) = Published(done, a) \cup {k}
      BY <1>4, <2>1 DEF Published
    <3>2. Published(done, a) \subseteq good
      BY LinesType
    <3>3. Greatest(Published(new, a)) = k
      <4>1. Published(new, a) \subseteq Nat
        BY <1>3, <3>1, <3>2
      <4>2. k \in Published(new, a) \cup {0} /\ \A j \in Published(new, a) : j <= k
        BY <1>3, <1>4, <3>1, <3>2
      <4>. QED
        BY <4>1, <4>2, GreatestIs
    <3>. QED
      BY <2>1, <3>1, <3>3 DEF Latest
  <2>2. CASE ~ (f.action = "PUBLISH" /\ f.address = a)
    <3>1. Published(new, a) = Published(done, a)
      BY <1>4, <2>2 DEF Published
    <3>2. Published(done, a) # {} => Greatest(Published(done, a)) \in good
      BY LinesType
    <3>. QED
      BY <1>4, <2>2, <3>1, <3>2 DEF Latest
  <2>. QED
    BY <2>1, <2>2
<1>8. ValuesMatch(t, new)
  <2>. HIDE DEF t, f
  <2>1. \A a \in Addresses :
          t.raw[a] = IF Published(new, a) = {} THEN Nothing ELSE Raw(Latest(new, a))
    BY <1>1, <1>7 DEF ValuesMatch
  <2>2. \A u \in Topics :
          t.values[u] = IF Published(new, u) = {} THEN Nothing ELSE Value(u, Latest(new, u))
    BY <1>1, <1>7 DEF ValuesMatch
  <2>. QED
    BY <2>1, <2>2 DEF ValuesMatch
<1>. QED
  BY <1>6, <1>8

\* A turn of the loop consumes the first line of the buffer.
LEMMA TakeLineConsumes ==
  ASSUME NEW s, NEW done, Consumed(s, done), Ends(s.buf) # {}
  PROVE  LET more == SubSeq(s.buf, 1, FirstEnd(s.buf)) IN
           /\ Consumed(TakeLine(s), done \o more)
           /\ more \in Seq(Pieces) /\ s.buf = more \o TakeLine(s).buf
           /\ Len(TakeLine(s).buf) < Len(s.buf)
<1>. DEFINE
       more == SubSeq(s.buf, 1, FirstEnd(s.buf))
       line == FirstLine(s.buf)
       rest == [s EXCEPT !.buf = AfterFirst(@)]
       new  == done \o more
       k    == Len(done) + Len(more)
<1>1. s \in Sessions /\ done \in Seq(Pieces) /\ Whole(done)
      /\ EventsMatch(s, done) /\ ValuesMatch(s, done)
  BY DEF Consumed
<1>2. /\ s = [values |-> s.values, raw |-> s.raw, buf |-> s.buf, dropped |-> s.dropped,
              events |-> s.events]
      /\ s.values \in [Topics -> Stored] /\ s.raw \in [Addresses -> Stored]
      /\ s.buf \in Seq(Pieces) /\ s.dropped \in Nat /\ s.events \in Seq(Events)
  BY <1>1, SessionFields
<1>3. /\ more \in Seq(Pieces) /\ Ends(more) = {Len(more)}
      /\ line = Strip(SubSeq(more, 1, Len(more) - 1))
      /\ AfterFirst(s.buf) \in Seq(Pieces) /\ Len(AfterFirst(s.buf)) < Len(s.buf)
      /\ s.buf = more \o AfterFirst(s.buf)
  BY <1>2, FirstLineOfBuffer
<1>. HIDE DEF more, line
<1>4. /\ rest \in Sessions /\ rest.buf = AfterFirst(s.buf)
      /\ rest.values = s.values /\ rest.raw = s.raw /\ rest.events = s.events
      /\ rest.dropped = s.dropped
  <2>1. rest = [values |-> s.values, raw |-> s.raw, buf |-> AfterFirst(s.buf),
                dropped |-> s.dropped, events |-> s.events]
    BY <1>2
  <2>2. [values |-> s.values, raw |-> s.raw, buf |-> AfterFirst(s.buf),
         dropped |-> s.dropped, events |-> s.events] \in Sessions
    BY <1>2, <1>3, SessionOf
  <2>. QED
    BY <2>1, <2>2
<1>5. /\ new \in Seq(Pieces) /\ Whole(new)
      /\ Ends(new) = Ends(done) \cup {k}
  BY <1>1, <1>3, OneLineMore
<1>6. /\ line \in DOMAIN FrameOf =>
           GoodLines(new) = GoodLines(done) \cup {k} /\ BadLines(new) = BadLines(done)
      /\ line \notin DOMAIN FrameOf /\ line # <<>> =>
           GoodLines(new) = GoodLines(done) /\ BadLines(new) = BadLines(done) \cup {k}
      /\ line = <<>> =>
           GoodLines(new) = GoodLines(done) /\ BadLines(new) = BadLines(done)
      /\ k \notin Ends(done) /\ FrameAt(new, k) = FrameOf[line]
      /\ \A j \in Ends(done) : j < k /\ FrameAt(new, j) = FrameAt(done, j)
  BY <1>1, <1>3, LinesWithOneMore
<1>7. k \in Nat
  BY <1>1, <1>3, EndsType
<1>. HIDE DEF rest, new, k
<1>8. <<>> \notin DOMAIN FrameOf
  BY PiecesAssumption
<1>9. /\ TakeLine(s) \in Sessions /\ TakeLine(s).buf = AfterFirst(s.buf)
      /\ EventsMatch(TakeLine(s), new) /\ ValuesMatch(TakeLine(s), new)
  <2>1. CASE line = <<>>
    <3>1. TakeLine(s) = rest
      BY <2>1 DEF TakeLine, rest, line
    <3>2. rest.dropped = Cardinality(BadLines(new))
      BY <1>1, <1>4, <1>6, <2>1 DEF EventsMatch
    <3>3. GoodLines(new) = GoodLines(done)
      BY <1>6, <2>1
    <3>. QED
      BY <1>1, <1>4, <1>6, <3>1, <3>2, <3>3, SameFrames
  <2>2. CASE line \in DOMAIN FrameOf
    <3>1. TakeLine(s) = Handle(rest, FrameAt(new, k))
      BY <1>6, <1>8, <2>2 DEF TakeLine, rest, line
    <3>2. FrameAt(new, k) \in Frames
      BY <1>6, <2>2, FeedAssumption
    <3>3. TakeLine(s) \in Sessions /\ TakeLine(s).buf = rest.buf
      BY <1>4, <3>1, <3>2, HandleChanges
    <3>4. EventsMatch(rest, done) /\ ValuesMatch(rest, done)
      BY <1>1, <1>4 DEF EventsMatch, ValuesMatch
    <3>5. EventsMatch(TakeLine(s), new) /\ ValuesMatch(TakeLine(s), new)
      BY <1>1, <1>4, <1>6, <1>7, <2>2, <3>1, <3>2, <3>4, FrameMore
    <3>. QED
      BY <1>4, <3>3, <3>5
  <2>3. CASE line \notin DOMAIN FrameOf /\ line # <<>>
    <3>. DEFINE t == [rest EXCEPT !.dropped = @ + 1]
    <3>1. TakeLine(s) = t
      BY <2>3 DEF TakeLine, rest, line
    <3>2. /\ t \in Sessions /\ t.buf = rest.buf /\ t.values = rest.values /\ t.raw = rest.raw
          /\ t.events = rest.events /\ t.dropped = rest.dropped + 1
      <4>1. /\ rest = [values |-> rest.values, raw |-> rest.raw, buf |-> rest.buf,
                       dropped |-> rest.dropped, events |-> rest.events]
            /\ rest.values \in [Topics -> Stored] /\ rest.raw \in [Addresses -> Stored]
            /\ rest.buf \in Seq(Pieces) /\ rest.dropped \in Nat /\ rest.events \in Seq(Events)
        BY <1>4, SessionFields
      <4>2. t = [values |-> rest.values, raw |-> rest.raw, buf |-> rest.buf,
                 dropped |-> rest.dropped + 1, events |-> rest.events]
        BY <4>1
      <4>3. rest.dropped + 1 \in Nat
        BY <4>1
      <4>4. [values |-> rest.values, raw |-> rest.raw, buf |-> rest.buf,
             dropped |-> rest.dropped + 1, events |-> rest.events] \in Sessions
        BY <4>1, <4>3, SessionOf
      <4>. QED
        BY <4>2, <4>4
    <3>3. Cardinality(BadLines(new)) = Cardinality(BadLines(done)) + 1
      <4>1. k \notin BadLines(done) /\ IsFiniteSet(BadLines(done))
        BY <1>1, <1>6, LinesType
      <4>. QED
        BY <1>6, <2>3, <4>1, FS_AddElement
    <3>4. t.dropped = Cardinality(BadLines(new))
      BY <1>1, <1>4, <3>2, <3>3 DEF EventsMatch
    <3>5. GoodLines(new) = GoodLines(done)
      BY <1>6, <2>3
    <3>. HIDE DEF t
    <3>. QED
      BY <1>1, <1>4, <1>6, <3>1, <3>2, <3>4, <3>5, SameFrames
  <2>. QED
    BY <2>1, <2>2, <2>3
<1>. QED
  BY <1>3, <1>5, <1>9 DEF Consumed, new, more

-----------------------------------------------------------------------------
(* The loop of feed() *)

\* Concatenations of pieces of a stream.
LEMMA Regrouped ==
  ASSUME NEW a \in Seq(Pieces), NEW b \in Seq(Pieces), NEW c \in Seq(Pieces)
  PROVE  (a \o b) \o c = a \o (b \o c)
  BY ConcatAssociative

\* A session whose buffer is what it has not consumed of the bytes that came.
Fed(s, came) == \E done : Consumed(s, done) /\ came = done \o s.buf

\* A turn of the loop keeps that, and shortens a buffer that holds a terminator.
LEMMA TurnKeeps ==
  ASSUME NEW s, NEW came, Fed(s, came)
  PROVE  /\ Fed(Turn(s), came) /\ Turn(s).buf \in Seq(Pieces)
         /\ Ends(s.buf) = {} => Turn(s) = s
         /\ Ends(s.buf) # {} => Len(Turn(s).buf) < Len(s.buf)
<1>1. PICK done : Consumed(s, done) /\ came = done \o s.buf
  BY DEF Fed
<1>2. s.buf \in Seq(Pieces) /\ done \in Seq(Pieces)
  BY <1>1, SessionFields DEF Consumed
<1>3. CASE Ends(s.buf) = {}
  BY <1>2, <1>3 DEF Turn
<1>4. CASE Ends(s.buf) # {}
  <2>. DEFINE more == SubSeq(s.buf, 1, FirstEnd(s.buf))
              t == TakeLine(s)
  <2>1. /\ Consumed(t, done \o more) /\ more \in Seq(Pieces) /\ s.buf = more \o t.buf
        /\ Len(t.buf) < Len(s.buf)
    BY <1>1, <1>4, TakeLineConsumes
  <2>2. t.buf \in Seq(Pieces)
    BY <2>1, SessionFields DEF Consumed
  <2>. HIDE DEF more, t
  <2>3. (done \o more) \o t.buf = done \o (more \o t.buf)
    <3>1. done \in Seq(Pieces) /\ more \in Seq(Pieces) /\ t.buf \in Seq(Pieces)
      BY <1>2, <2>1, <2>2
    <3>. QED
      BY <3>1, Regrouped, Zenon
  <2>4. came = (done \o more) \o t.buf
    BY <1>1, <2>1, <2>3
  <2>5. Turn(s) = t
    BY <1>4 DEF Turn, t
  <2>. QED
    BY <1>4, <2>1, <2>2, <2>4, <2>5 DEF Fed
<1>. QED
  BY <1>3, <1>4

\* The recursive function of Drain exists, and Drain is what its turns make of the
\* session.
LEMMA DrainTurnByTurn ==
  ASSUME NEW s, s.buf \in Seq(Pieces)
  PROVE  \E after :
           /\ after[0] = s
           /\ \A n \in 1 .. Len(s.buf) : after[n] = Turn(after[n - 1])
           /\ Drain(s) = after[Len(s.buf)]
<1>. DEFINE
       last == Len(s.buf)
       Step(g, n) == IF n = 0 THEN s ELSE Turn(g[n - 1])
       Upto(g, m) == g = [n \in 0 .. m |-> Step(g, n)]
       Short == {m \in 1 .. last : ~ \E g : Upto(g, m)}
       After == CHOOSE g : Upto(g, last)
<1>1. last \in Nat
  BY LenProperties
<1>2. \E g : Upto(g, 0)
  <2>. DEFINE z == [n \in 0 .. 0 |-> s]
  <2>1. z = [n \in 0 .. 0 |-> Step(z, n)]
    OBVIOUS
  <2>. QED
    BY <2>1
<1>3. \A m \in 1 .. last : m \notin Short => \E g : Upto(g, m)
  OBVIOUS
<1>4. \A m \in Short : m \in 1 .. last /\ ~ \E g : Upto(g, m)
  OBVIOUS
<1>. HIDE DEF Short, last
<1>5. Short = {}
  <2>. SUFFICES ASSUME Short # {} PROVE FALSE
    OBVIOUS
  <2>1. PICK m \in Short : \A n \in Short : m <= n
    <3>1. Short \subseteq 1 .. last
      BY <1>4
    <3>. QED
      BY <1>1, <3>1, LeastAndGreatest
  <2>2. m \in 1 .. last /\ ~ \E g : Upto(g, m)
    BY <1>4, <2>1
  <2>3. PICK g : Upto(g, m - 1)
    <3>1. CASE m = 1
      BY <1>2, <3>1
    <3>2. CASE m > 1
      <4>1. m - 1 \in 1 .. last /\ m - 1 < m
        BY <1>1, <2>2, <3>2
      <4>2. m - 1 \notin Short
        BY <2>1, <2>2, <4>1
      <4>. QED
        BY <1>3, <4>1, <4>2
    <3>. QED
      BY <2>2, <3>1, <3>2
  <2>. DEFINE h == [n \in 0 .. m |-> IF n = m THEN Step(g, m) ELSE g[n]]
  <2>4. \A n \in 0 .. m - 1 : g[n] = Step(g, n)
    BY <2>3
  <2>5. \A n \in 0 .. m : h[n] = Step(h, n)
    <3>. SUFFICES ASSUME NEW n \in 0 .. m PROVE h[n] = Step(h, n)
      OBVIOUS
    <3>1. n = 0 => h[n] = s
      BY <2>2, <2>4
    <3>2. CASE n \in 1 .. m
      <4>1. n - 1 \in 0 .. m - 1 /\ n - 1 # m /\ n # 0
        BY <2>2, <3>2
      <4>2. h[n - 1] = g[n - 1]
        BY <2>2, <4>1
      <4>3. h[n] = Step(g, n)
        BY <2>2, <2>4, <3>2
      <4>. QED
        BY <4>1, <4>2, <4>3
    <3>. QED
      BY <2>2, <3>1, <3>2
  <2>6. h = [n \in 0 .. m |-> Step(h, n)]
    BY <2>5
  <2>. QED
    BY <2>2, <2>6
<1>6. \E g : Upto(g, last)
  <2>1. CASE last = 0
    BY <1>2, <2>1
  <2>2. CASE last > 0
    <3>1. last \in 1 .. last
      BY <1>1, <2>2
    <3>. QED
      BY <1>3, <1>5, <3>1
  <2>. QED
    BY <1>1, <2>1, <2>2
<1>7. Upto(After, last)
  BY <1>6
<1>8. Drain(s) = After[last]
  BY DEF Drain, last
<1>. HIDE DEF After
<1>9. After[0] = s
  BY <1>1, <1>7
<1>10. \A n \in 1 .. last : After[n] = Turn(After[n - 1])
  BY <1>1, <1>7
<1>. QED
  BY <1>8, <1>9, <1>10 DEF last

\* The loop consumes every line, and leaves a buffer without a terminator.
LEMMA DrainKeeps ==
  ASSUME NEW s, NEW came, Fed(s, came)
  PROVE  Fed(Drain(s), came) /\ Ends(Drain(s).buf) = {}
<1>. DEFINE
       last == Len(s.buf)
       Ready(t, n) == /\ Fed(t, came) /\ t.buf \in Seq(Pieces)
                      /\ Ends(t.buf) = {} \/ Len(t.buf) + n <= last
<1>1. s.buf \in Seq(Pieces) /\ last \in Nat
  BY SessionFields, LenProperties DEF Fed, Consumed
<1>2. PICK after :
        /\ after[0] = s
        /\ \A n \in 1 .. last : after[n] = Turn(after[n - 1])
        /\ Drain(s) = after[last]
  BY <1>1, DrainTurnByTurn
<1>. DEFINE Late == {m \in 1 .. last : ~ Ready(after[m], m)}
<1>3. Ready(after[0], 0)
  BY <1>1, <1>2
<1>4. ASSUME NEW t, NEW n \in Nat, Ready(t, n)
      PROVE  Ready(Turn(t), n + 1)
  <2>1. /\ Fed(Turn(t), came) /\ Turn(t).buf \in Seq(Pieces)
        /\ Ends(t.buf) = {} => Turn(t) = t
        /\ Ends(t.buf) # {} => Len(Turn(t).buf) < Len(t.buf)
    BY <1>4, TurnKeeps
  <2>. DEFINE long == Len(t.buf)
              short == Len(Turn(t).buf)
  <2>2. long \in Nat /\ short \in Nat
    BY <1>4, <2>1, LenProperties
  <2>3. CASE Ends(t.buf) = {}
    BY <2>1, <2>3
  <2>4. CASE Ends(t.buf) # {}
    <3>1. long + n <= last /\ short < long
      BY <1>4, <2>1, <2>4
    <3>. HIDE DEF long, short, last
    <3>2. short + (n + 1) <= last
      BY <1>1, <2>2, <3>1
    <3>. QED
      BY <2>1, <3>2 DEF short, last
  <2>. QED
    BY <2>3, <2>4
<1>5. \A m \in 1 .. last : m \notin Late => Ready(after[m], m)
  OBVIOUS
<1>6. \A m \in Late : m \in 1 .. last /\ ~ Ready(after[m], m)
  OBVIOUS
<1>. HIDE DEF Late, Ready, last
<1>7. Late = {}
  <2>. SUFFICES ASSUME Late # {} PROVE FALSE
    OBVIOUS
  <2>1. PICK m \in Late : \A n \in Late : m <= n
    <3>1. Late \subseteq 1 .. last
      BY <1>6
    <3>. QED
      BY <1>1, <3>1, LeastAndGreatest
  <2>2. m \in 1 .. last /\ ~ Ready(after[m], m)
    BY <1>6, <2>1
  <2>3. Ready(after[m - 1], m - 1)
    <3>1. CASE m = 1
      <4>1. m - 1 = 0
        BY <3>1
      <4>. QED
        BY <1>3, <4>1
    <3>2. CASE m > 1
      <4>1. m - 1 \in 1 .. last /\ m - 1 < m
        BY <1>1, <2>2, <3>2
      <4>2. m - 1 \notin Late
        BY <2>1, <2>2, <4>1
      <4>. QED
        BY <1>5, <4>1, <4>2
    <3>. QED
      BY <2>2, <3>1, <3>2
  <2>4. m - 1 \in Nat /\ m - 1 + 1 = m
    BY <1>1, <2>2
  <2>5. Ready(Turn(after[m - 1]), m - 1 + 1)
    BY <1>4, <2>3, <2>4
  <2>. QED
    BY <1>2, <2>2, <2>4, <2>5
<1>8. Ready(after[last], last)
  <2>1. CASE last = 0
    BY <1>3, <2>1
  <2>2. CASE last > 0
    <3>1. last \in 1 .. last /\ last \notin Late
      BY <1>1, <1>7, <2>2
    <3>. QED
      BY <1>5, <3>1
  <2>. QED
    BY <1>1, <2>1, <2>2
<1>9. Fed(after[last], came) /\ Ends(after[last].buf) = {}
  <2>1. /\ Fed(after[last], came) /\ after[last].buf \in Seq(Pieces)
        /\ Ends(after[last].buf) = {} \/ Len(after[last].buf) + last <= last
    BY <1>8 DEF Ready
  <2>2. CASE Len(after[last].buf) + last <= last
    <3>1. Len(after[last].buf) = 0
      BY <1>1, <2>1, <2>2, LenProperties
    <3>2. Ends(after[last].buf) \subseteq 1 .. 0
      BY <2>1, <3>1, EndsType
    <3>. QED
      BY <2>1, <3>2
  <2>. QED
    BY <2>1, <2>2
<1>. QED
  BY <1>2, <1>9

-----------------------------------------------------------------------------
(* The invariant *)

\* The session has consumed all that came but a rest without a terminator.
FeedInv ==
  /\ stream \in Seq(Pieces) /\ received \in Seq(Pieces)
  /\ Fed(session, received)
  /\ Ends(session.buf) = {}

LEMMA FeedInit == Init => FeedInv
<1>. SUFFICES ASSUME Init PROVE FeedInv
  OBVIOUS
<1>. DEFINE none == <<>>
<1>1. none \in Seq(Pieces) /\ Len(none) = 0 /\ Ends(none) = {}
  <2>1. none \in Seq(Pieces) /\ Len(none) = 0
    BY EmptySeq
  <2>2. Ends(none) \subseteq 1 .. 0
    BY <2>1, EndsType
  <2>. QED
    BY <2>1, <2>2
<1>2. session \in Sessions
  <2>1. Nothing \in Stored /\ <<>> \in Seq(Events)
    BY DEF Nothing, Stored
  <2>2. /\ [t \in Topics |-> Nothing] \in [Topics -> Stored]
        /\ [a \in Addresses |-> Nothing] \in [Addresses -> Stored]
    BY <2>1
  <2>. QED
    BY <1>1, <2>1, <2>2, SessionOf DEF Init
<1>3. GoodLines(none) = {} /\ BadLines(none) = {} /\ \A a : Published(none, a) = {}
  BY <1>1 DEF GoodLines, BadLines, Published
<1>4. EventsMatch(session, none)
  BY <1>3, FS_EmptySet DEF EventsMatch, Init
<1>5. ValuesMatch(session, none)
  BY <1>3 DEF ValuesMatch, Init
<1>6. Consumed(session, none)
  BY <1>1, <1>2, <1>4, <1>5 DEF Consumed, Whole
<1>7. session.buf = none /\ received = none /\ none \o none = none
  BY <1>1, ConcatEmptySeq DEF Init
<1>. QED
  BY <1>1, <1>6, <1>7 DEF FeedInv, Fed, Init

\* Bytes that come behind the buffer.
LEMMA ChunkComes ==
  ASSUME NEW s, NEW came, Fed(s, came), NEW chunk \in Seq(Pieces)
  PROVE  /\ came \o chunk \in Seq(Pieces)
         /\ Fed([s EXCEPT !.buf = @ \o chunk], came \o chunk)
<1>1. PICK done : Consumed(s, done) /\ came = done \o s.buf
  BY DEF Fed
<1>. DEFINE t == [s EXCEPT !.buf = @ \o chunk]
<1>2. /\ s \in Sessions /\ done \in Seq(Pieces) /\ Whole(done)
      /\ EventsMatch(s, done) /\ ValuesMatch(s, done)
  BY <1>1 DEF Consumed
<1>3. /\ s = [values |-> s.values, raw |-> s.raw, buf |-> s.buf, dropped |-> s.dropped,
              events |-> s.events]
      /\ s.values \in [Topics -> Stored] /\ s.raw \in [Addresses -> Stored]
      /\ s.buf \in Seq(Pieces) /\ s.dropped \in Nat /\ s.events \in Seq(Events)
  BY <1>2, SessionFields
<1>. DEFINE buf == s.buf \o chunk
<1>4. buf \in Seq(Pieces)
  BY <1>3, ConcatProperties
<1>5. t = [s EXCEPT !.buf = buf]
  OBVIOUS
<1>. HIDE DEF t, buf
<1>6. /\ t \in Sessions /\ t.buf = buf /\ t.values = s.values /\ t.raw = s.raw
      /\ t.dropped = s.dropped /\ t.events = s.events
  <2>1. t = [values |-> s.values, raw |-> s.raw, buf |-> buf,
             dropped |-> s.dropped, events |-> s.events]
    BY <1>3, <1>5
  <2>2. [values |-> s.values, raw |-> s.raw, buf |-> buf,
         dropped |-> s.dropped, events |-> s.events] \in Sessions
    BY <1>3, <1>4, SessionOf
  <2>. QED
    BY <2>1, <2>2
<1>7. Consumed(t, done)
  BY <1>2, <1>6 DEF Consumed, EventsMatch, ValuesMatch
<1>8. came \o chunk = done \o t.buf
  <2>1. done \in Seq(Pieces) /\ s.buf \in Seq(Pieces) /\ chunk \in Seq(Pieces)
    BY <1>2, <1>3
  <2>2. (done \o s.buf) \o chunk = done \o (s.buf \o chunk)
    BY <2>1, Regrouped, Zenon
  <2>. QED
    BY <1>1, <1>6, <2>2, Zenon DEF buf
<1>9. came \o chunk \in Seq(Pieces)
  BY <1>2, <1>4, <1>6, <1>8, ConcatProperties
<1>. QED
  BY <1>7, <1>8, <1>9 DEF Fed, t

LEMMA FeedStep == FeedInv /\ [Next]_vars => FeedInv'
<1>. SUFFICES ASSUME FeedInv, [Next]_vars PROVE FeedInv'
  OBVIOUS
<1>1. /\ stream \in Seq(Pieces) /\ received \in Seq(Pieces)
      /\ Fed(session, received) /\ Ends(session.buf) = {}
  BY DEF FeedInv
<1>2. CASE SendLine
  <2>1. PICK line \in Lines : stream' = stream \o line \o <<CR>>
    BY <1>2 DEF SendLine
  <2>2. line \in Seq(Pieces) /\ <<CR>> \in Seq(Pieces)
    <3>1. line \in Seq(Pieces \ {CR}) /\ CR \in Pieces
      BY FeedAssumption, PiecesAssumption
    <3>2. \A k \in 1 .. Len(line) : line[k] \in Pieces
      BY <3>1, ElementOfSeq
    <3>. QED
      BY <3>1, <3>2
  <2>3. stream' \in Seq(Pieces)
    BY <1>1, <2>1, <2>2, ConcatProperties
  <2>4. received' = received /\ session' = session
    BY <1>2 DEF SendLine
  <2>. QED
    BY <1>1, <2>3, <2>4 DEF FeedInv
<1>3. CASE Feed
  <2>1. PICK n \in 1 .. Len(stream) :
          /\ stream' = SubSeq(stream, n + 1, Len(stream))
          /\ received' = received \o SubSeq(stream, 1, n)
          /\ session' = Drain([session EXCEPT !.buf = @ \o SubSeq(stream, 1, n)])
    BY <1>3 DEF Feed
  <2>2. SubSeq(stream, 1, n) \in Seq(Pieces) /\ stream' \in Seq(Pieces)
    BY <1>1, <2>1, SplitSeq
  <2>3. /\ received' \in Seq(Pieces)
        /\ Fed([session EXCEPT !.buf = @ \o SubSeq(stream, 1, n)], received')
    BY <1>1, <2>1, <2>2, ChunkComes
  <2>4. Fed(session', received') /\ Ends((session').buf) = {}
    BY <2>1, <2>3, DrainKeeps
  <2>. QED
    BY <2>2, <2>3, <2>4 DEF FeedInv
<1>4. CASE UNCHANGED vars
  <2>1. stream' = stream /\ received' = received /\ session' = session
    BY <1>4 DEF vars
  <2>. QED
    BY <1>1, <2>1 DEF FeedInv
<1>. QED
  BY <1>2, <1>3, <1>4 DEF Next

\* The loop leaves no terminator behind, and the session is what the lines before the
\* buffer make of it, in every reachable state.
THEOREM FeedInvariant == Spec => []FeedInv
  BY FeedInit, FeedStep, PTL DEF Spec

-----------------------------------------------------------------------------
(* What is promised of the session *)

\* A rest without a terminator adds no line to what was consumed.
LEMMA SessionMatches ==
  ASSUME FeedInv
  PROVE  /\ received \in Seq(Pieces) /\ session \in Sessions
         /\ EventsMatch(session, received) /\ ValuesMatch(session, received)
         /\ session.buf = SubSeq(received, Greatest(Ends(received)) + 1, Len(received))
<1>1. PICK done : Consumed(session, done) /\ received = done \o session.buf
  BY DEF FeedInv, Fed
<1>. DEFINE buf == session.buf
<1>2. /\ session \in Sessions /\ done \in Seq(Pieces) /\ Whole(done)
      /\ EventsMatch(session, done) /\ ValuesMatch(session, done)
  BY <1>1 DEF Consumed
<1>3. buf \in Seq(Pieces) /\ Ends(buf) = {} /\ received \in Seq(Pieces)
  BY <1>2, SessionFields DEF FeedInv
<1>4. received = done \o buf
  BY <1>1
<1>5. session.events = session.events /\ session.dropped = Cardinality(BadLines(done))
  BY <1>2 DEF EventsMatch
<1>. HIDE DEF buf
<1>6. Ends(received) = Ends(done) /\ Len(received) = Len(done) + Len(buf)
  <2>1. /\ Len(received) = Len(done) + Len(buf)
        /\ Ends(received) = Ends(done) \cup {Len(done) + k : k \in Ends(buf)}
    BY <1>2, <1>3, <1>4, EndsOfBoth
  <2>2. {Len(done) + k : k \in Ends(buf)} = {}
    BY <1>3
  <2>. QED
    BY <2>1, <2>2
<1>7. \A k \in Ends(done) : LineAt(received, k) = LineAt(done, k)
  BY <1>2, <1>3, <1>4, LineStays
<1>8. GoodLines(received) = GoodLines(done) /\ BadLines(received) = BadLines(done)
  BY <1>6, <1>7 DEF GoodLines, BadLines
<1>9. \A j \in Ends(done) : FrameAt(received, j) = FrameAt(done, j)
  BY <1>7 DEF FrameAt
<1>10. EventsMatch(session, received) /\ ValuesMatch(session, received)
  BY <1>2, <1>5, <1>8, <1>9, SameFrames
<1>11. buf = SubSeq(received, Len(done) + 1, Len(received))
  <2>1. Len(done) \in Nat /\ Len(buf) \in Nat
    BY <1>2, <1>3, LenProperties
  <2>2. CASE Len(buf) = 0
    <3>1. buf = <<>>
      BY <1>3, <2>2, EmptySeq
    <3>2. SubSeq(received, Len(done) + 1, Len(done) + Len(buf)) = <<>>
      BY <2>1, <2>2, SubSeqEmpty
    <3>. QED
      BY <1>6, <3>1, <3>2
  <2>3. CASE Len(buf) > 0
    <3>1. /\ Len(done) + 1 \in Len(done) + 1 .. Len(done) + Len(buf)
          /\ Len(done) + Len(buf) \in Len(done) + 1 .. Len(done) + Len(buf)
          /\ Len(done) + 1 - Len(done) = 1 /\ Len(done) + Len(buf) - Len(done) = Len(buf)
      BY <2>1, <2>3
    <3>2. SubSeq(done \o buf, Len(done) + 1, Len(done) + Len(buf)) =
            SubSeq(buf, Len(done) + 1 - Len(done), Len(done) + Len(buf) - Len(done))
      BY <1>2, <1>3, <3>1, SubSeqOfConcat2
    <3>3. SubSeq(buf, 1, Len(buf)) = buf
      BY <1>3, SubSeqFull
    <3>. QED
      BY <1>4, <1>6, <3>1, <3>2, <3>3
  <2>. QED
    BY <2>1, <2>2, <2>3
<1>12. Greatest(Ends(received)) = Len(done)
  BY <1>2, <1>6, EndOfWhole
<1>. QED
  BY <1>2, <1>3, <1>10, <1>11, <1>12 DEF buf

\* However the socket cuts the stream into chunks, every good line gives its event in
\* its place, every other one is counted, and the buffer keeps what is left.
THEOREM ChunksNeverMatter == Spec => []ChunksDoNotMatter
<1>1. FeedInv => ChunksDoNotMatter
  BY SessionMatches DEF ChunksDoNotMatter
<1>. QED
  BY <1>1, FeedInvariant, PTL

\* Five numbers have a greatest one.
LEMMA GreatestOfFive ==
  ASSUME NEW a \in Int, NEW b \in Int, NEW c \in Int, NEW d \in Int, NEW e \in Int
  PROVE  \E n \in {a, b, c, d, e} : \A m \in {a, b, c, d, e} : m <= n
<1>. DEFINE Two(x, y) == IF x <= y THEN y ELSE x
            p == Two(a, b)
            q == Two(p, c)
            r == Two(q, d)
            n == Two(r, e)
<1>1. p \in Int /\ p \in {a, b} /\ a <= p /\ b <= p
  OBVIOUS
<1>2. q \in Int /\ q \in {p, c} /\ p <= q /\ c <= q
  BY <1>1
<1>3. r \in Int /\ r \in {q, d} /\ q <= r /\ d <= r
  BY <1>2
<1>4. n \in Int /\ n \in {r, e} /\ r <= n /\ e <= n
  BY <1>3
<1>. HIDE DEF Two, p, q, r, n
<1>5. n \in {a, b, c, d, e} /\ a <= n /\ b <= n /\ c <= n /\ d <= n /\ e <= n
  BY <1>1, <1>2, <1>3, <1>4
<1>. QED
  BY <1>5

\* What from_values() makes of the array of a topic.
ShownArrays(values) ==
  \A t \in PerCompartment :
    /\ Array(values, t) \in Seq(Seq(Int))
    /\ \A i \in Nat \ {0} :
         Part(t, values[t].data, i) =
           IF i <= Len(Array(values, t)) THEN Array(values, t)[i] ELSE <<>>

LEMMA ArraysShown ==
  ASSUME NEW values \in [Topics -> Stored]
  PROVE  ShownArrays(values)
<1>. SUFFICES ASSUME NEW t \in PerCompartment
              PROVE  /\ Array(values, t) \in Seq(Seq(Int))
                     /\ \A i \in Nat \ {0} :
                          Part(t, values[t].data, i) =
                            IF i <= Len(Array(values, t)) THEN Array(values, t)[i] ELSE <<>>
  BY DEF ShownArrays
<1>. DEFINE d == values[t].data
            array == Array(values, t)
<1>1. d \in Seq(Int)
  BY DEF Stored, PerCompartment, Topics
<1>2. Len(d) \in Nat /\ DOMAIN d = 1 .. Len(d) /\ \A i \in 1 .. Len(d) : d[i] \in Int
  BY <1>1, LenProperties, ElementOfSeq
<1>3. CASE Kind[t] = "milli-pair[]"
  <2>. DEFINE half == Len(d) \div 2
  <2>1. half \in Nat /\ \A i \in Nat : i <= half <=> 2 * i <= Len(d)
    <3>. DEFINE long == Len(d)
    <3>1. long \in Nat
      BY <1>2
    <3>. HIDE DEF long
    <3>2. long \div 2 \in Nat /\ 2 * (long \div 2) <= long /\ long < 2 * (long \div 2) + 2
      BY <3>1
    <3>3. \A i \in Nat : i <= long \div 2 <=> 2 * i <= long
      BY <3>1, <3>2
    <3>. QED
      BY <3>2, <3>3 DEF long
  <2>. HIDE DEF half
  <2>2. \A i \in 1 .. half : SubSeq(d, 2 * i - 1, 2 * i) \in Seq(Int)
    <3>. SUFFICES ASSUME NEW i \in 1 .. half PROVE SubSeq(d, 2 * i - 1, 2 * i) \in Seq(Int)
      OBVIOUS
    <3>1. 2 * i - 1 \in 1 .. Len(d) /\ 2 * i \in 1 .. Len(d)
      <4>1. i \in Nat /\ i >= 1 /\ 2 * i <= Len(d)
        BY <2>1
      <4>. QED
        BY <1>2, <4>1
    <3>2. \A j \in 2 * i - 1 .. 2 * i : d[j] \in Int
      BY <1>2, <3>1
    <3>. QED
      BY <3>1, <3>2, SubSeqProperties
  <2>3. array = [i \in 1 .. half |-> SubSeq(d, 2 * i - 1, 2 * i)]
    BY <1>3 DEF Array, half
  <2>. HIDE DEF array, d
  <2>4. array \in Seq(Seq(Int)) /\ Len(array) = half
    <3>1. array \in [1 .. half -> Seq(Int)]
      BY <2>2, <2>3
    <3>. QED
      BY <2>1, <3>1, FunctionIsSeq
  <2>5. ASSUME NEW i \in Nat \ {0}
        PROVE  Part(t, d, i) = IF i <= Len(array) THEN array[i] ELSE <<>>
    <3>1. Part(t, d, i) = IF 2 * i <= Len(d) THEN SubSeq(d, 2 * (i - 1) + 1, 2 * i) ELSE <<>>
      BY <1>3 DEF Part
    <3>2. 2 * (i - 1) + 1 = 2 * i - 1 /\ (i <= half <=> 2 * i <= Len(d))
      BY <2>1
    <3>3. i <= half => array[i] = SubSeq(d, 2 * i - 1, 2 * i)
      BY <2>1, <2>3
    <3>. QED
      BY <2>4, <3>1, <3>2, <3>3
  <2>. QED
    BY <2>4, <2>5 DEF array, d
<1>4. CASE Kind[t] # "milli-pair[]"
  <2>1. array = [i \in 1 .. Len(d) |-> <<d[i]>>]
    BY <1>2, <1>4 DEF Array
  <2>. HIDE DEF array, d
  <2>2. \A i \in 1 .. Len(d) : <<d[i]>> \in Seq(Int)
    BY <1>2
  <2>3. array \in Seq(Seq(Int)) /\ Len(array) = Len(d)
    BY <1>2, <2>1, <2>2, FunctionIsSeq
  <2>4. ASSUME NEW i \in Nat \ {0}
        PROVE  Part(t, d, i) = IF i <= Len(array) THEN array[i] ELSE <<>>
    <3>1. Part(t, d, i) = IF 1 * i <= Len(d) THEN SubSeq(d, 1 * (i - 1) + 1, 1 * i) ELSE <<>>
      BY <1>4 DEF Part
    <3>2. 1 * i = i /\ 1 * (i - 1) + 1 = i
      OBVIOUS
    <3>3. i <= Len(d) => SubSeq(d, i, i) = <<d[i]>> /\ array[i] = <<d[i]>>
      <4>. SUFFICES ASSUME i <= Len(d) PROVE SubSeq(d, i, i) = <<d[i]>> /\ array[i] = <<d[i]>>
        OBVIOUS
      <4>1. i \in 1 .. Len(d)
        BY <1>2
      <4>. DEFINE one == SubSeq(d, i, i)
      <4>2. one \in Seq(Int) /\ Len(one) = 1 /\ one[1] = d[i]
        <5>1. /\ Len(one) = i - i + 1 /\ one \in Seq(Int)
              /\ \A j \in 1 .. i - i + 1 : one[j] = d[i + j - 1]
          BY <1>1, <1>2, <4>1, SubSeqProperties DEF d
        <5>. QED
          BY <4>1, <5>1
      <4>. HIDE DEF one
      <4>3. one = <<d[i]>>
        BY <1>2, <4>1, <4>2
      <4>. QED
        BY <2>1, <4>1, <4>3 DEF one
    <3>. QED
      BY <2>3, <3>1, <3>2, <3>3
  <2>. QED
    BY <2>3, <2>4 DEF array, d
<1>. QED
  BY <1>3, <1>4

\* from_values() shows as many compartments as the longest array has, or more.
LEMMA ManyCompartments ==
  ASSUME NEW values \in [Topics -> Stored], ShownArrays(values),
         values["nocpt"].form = "value" => values["nocpt"].data # <<>>
  PROVE  /\ CompartmentCount(values) \in Nat
         /\ \A t \in PerCompartment : Len(Array(values, t)) <= CompartmentCount(values)
<1>. DEFINE
       Long(t) == Len(Array(values, t))
       published == IF values["nocpt"].form = "value" THEN values["nocpt"].data[1] ELSE 0
       counts == {Long(t) : t \in PerCompartment} \cup {published}
<1>1. \A t \in PerCompartment : Long(t) \in Nat
  BY LenProperties DEF ShownArrays
<1>2. published \in Int
  <2>1. values["nocpt"].data \in Seq(Int)
    BY DEF Stored, Topics
  <2>2. CASE values["nocpt"].form = "value"
    <3>1. 1 \in 1 .. Len(values["nocpt"].data)
      BY <2>1, <2>2, LenProperties, EmptySeq
    <3>2. values["nocpt"].data[1] \in Int
      BY <2>1, <3>1, ElementOfSeq
    <3>. QED
      BY <2>2, <3>2
  <2>. QED
    BY <2>2
<1>3. /\ CompartmentCount(values) \in Nat
      /\ \A t \in PerCompartment : Long(t) <= CompartmentCount(values)
  <2>1. counts = {Long("csettemp"), Long("cpow"), Long("ctemp"), Long("ctemprng"), published}
    BY DEF PerCompartment
  <2>2. \E n \in counts : \A m \in counts : m <= n
    <3>1. /\ Long("csettemp") \in Int /\ Long("cpow") \in Int
          /\ Long("ctemp") \in Int /\ Long("ctemprng") \in Int
      BY <1>1 DEF PerCompartment
    <3>. HIDE DEF Long, counts, published
    <3>. QED
      BY <1>2, <2>1, <3>1, GreatestOfFive
  <2>3. CompartmentCount(values) = CHOOSE n \in counts : \A m \in counts : m <= n
    BY DEF CompartmentCount
  <2>4. CompartmentCount(values) \in counts /\ \A m \in counts : m <= CompartmentCount(values)
    <3>. HIDE DEF counts
    <3>. QED
      BY <2>2, <2>3
  <2>5. \A t \in PerCompartment : Long(t) <= CompartmentCount(values)
    BY <2>4
  <2>6. CompartmentCount(values) \in Int
    BY <1>1, <1>2, <2>4
  <2>7. Long("cpow") >= 0 /\ Long("cpow") \in Nat /\ Long("cpow") <= CompartmentCount(values)
    BY <1>1, <2>5 DEF PerCompartment
  <2>. HIDE DEF Long
  <2>8. CompartmentCount(values) \in Nat
    BY <2>6, <2>7
  <2>. QED
    BY <2>5, <2>8 DEF Long
<1>. QED
  BY <1>3

\* The last publication of an address has a payload.
LEMMA LatestType ==
  ASSUME NEW came \in Seq(Pieces), NEW a, Published(came, a) # {}
  PROVE  Latest(came, a) \in Payloads
<1>1. Greatest(Published(came, a)) \in GoodLines(came)
  BY LinesType
<1>2. FrameAt(came, Greatest(Published(came, a))) \in Frames
  BY <1>1, FeedAssumption DEF GoodLines, FrameAt
<1>. QED
  BY <1>2 DEF Latest, Frames

\* What is stored for the number of compartments.
LEMMA CountStored ==
  ASSUME NEW payload \in Payloads
  PROVE  LET value == Value("nocpt", payload) IN
           /\ value.form = "value" => value.data # <<>>
           /\ value.form = "raw" /\ value.data # <<0>> <=>
                payload.words = <<>> /\ payload.rest # 0
<1>1. payload.words \in Seq(Int) /\ payload.rest \in Int
  BY DEF Payloads
<1>2. Scalar("nocpt") /\ Kind["nocpt"] = "int32"
  BY DEF Scalar, Kind
<1>3. CASE payload.words = <<>>
  <2>1. Value("nocpt", payload) = [form |-> "raw", data |-> <<payload.rest>>]
    BY <1>1, <1>2, <1>3 DEF Value, Raw
  <2>2. <<payload.rest>> = <<0>> <=> payload.rest = 0
    BY <1>1
  <2>. QED
    BY <1>3, <2>1, <2>2
<1>4. CASE payload.words # <<>>
  <2>1. Value("nocpt", payload) =
          [form |-> "value", data |-> Decode("nocpt", payload.words)]
    BY <1>2, <1>4 DEF Value
  <2>2. Decode("nocpt", payload.words) = <<payload.words[1]>>
    BY <1>2, <1>4 DEF Decode, Used, Scaled, Flag
  <2>3. <<payload.words[1]>> # <<>>
    OBVIOUS
  <2>. QED
    BY <1>4, <2>1, <2>2, <2>3
<1>. QED
  BY <1>3, <1>4

\* values and raw hold the last publication of each address, and the state that is
\* built from them shows every published compartment with what was last published for
\* it, unless a count of compartments was published too short.
THEOREM StateAlwaysLatest == Spec => []StateIsLatest
<1>1. ASSUME FeedInv
      PROVE  StateIsLatest
  <2>. DEFINE
         values == session.values
         short == /\ Published(received, "nocpt") # {}
                  /\ Latest(received, "nocpt").words = <<>>
                  /\ Latest(received, "nocpt").rest # 0
         shown == Compartments(values)
         D(t) == IF Published(received, t) = {} THEN <<>>
                 ELSE Decode(t, Latest(received, t).words)
         n == CompartmentCount(values)
         Parts == \A t \in PerCompartment :
                    /\ \A i \in DOMAIN shown : shown[i][t] = Part(t, D(t), i)
                    /\ Part(t, D(t), Len(shown) + 1) = <<>>
  <2>1. received \in Seq(Pieces) /\ session \in Sessions /\ ValuesMatch(session, received)
    BY <1>1, SessionMatches
  <2>2. values \in [Topics -> Stored]
    BY <2>1, SessionFields
  <2>3. \A t \in Topics :
          values[t] = IF Published(received, t) = {} THEN Nothing
                      ELSE Value(t, Latest(received, t))
    BY <2>1 DEF ValuesMatch
  <2>. HIDE DEF values
  <2>4. \A t \in PerCompartment : values[t].data = D(t)
    <3>. SUFFICES ASSUME NEW t \in PerCompartment PROVE values[t].data = D(t)
      OBVIOUS
    <3>1. t \in Topics /\ ~ Scalar(t)
      BY DEF PerCompartment, Topics, Scalar, Kind
    <3>2. Published(received, t) # {} =>
            Value(t, Latest(received, t)) =
              [form |-> "value", data |-> Decode(t, Latest(received, t).words)]
      BY <3>1 DEF Value
    <3>. QED
      BY <2>3, <3>1, <3>2 DEF Nothing
  <2>5. /\ StateRaises(values) <=> short
        /\ values["nocpt"].form = "value" => values["nocpt"].data # <<>>
    <3>1. "nocpt" \in Topics
      BY DEF Topics
    <3>2. CASE Published(received, "nocpt") = {}
      BY <2>3, <3>1, <3>2 DEF StateRaises, Nothing
    <3>3. CASE Published(received, "nocpt") # {}
      <4>. DEFINE payload == Latest(received, "nocpt")
      <4>1. payload \in Payloads
        BY <2>1, <3>3, LatestType
      <4>2. values["nocpt"] = Value("nocpt", payload)
        BY <2>3, <3>1, <3>3
      <4>. HIDE DEF payload
      <4>3. /\ values["nocpt"].form = "value" => values["nocpt"].data # <<>>
            /\ values["nocpt"].form = "raw" /\ values["nocpt"].data # <<0>> <=>
                 payload.words = <<>> /\ payload.rest # 0
        BY <4>1, <4>2, CountStored
      <4>. QED
        BY <3>3, <4>3 DEF StateRaises, payload
    <3>. QED
      BY <3>2, <3>3
  <2>6. ShownArrays(values)
    BY <2>2, ArraysShown
  <2>7. n \in Nat /\ \A t \in PerCompartment : Len(Array(values, t)) <= n
    BY <2>2, <2>5, <2>6, ManyCompartments
  <2>. HIDE DEF n, D, short
  <2>8. /\ shown = [i \in 1 .. n |-> [t \in PerCompartment |->
                      IF i <= Len(Array(values, t)) THEN Array(values, t)[i] ELSE <<>>]]
        /\ DOMAIN shown = 1 .. n /\ Len(shown) = n
    <3>1. shown = [i \in 1 .. n |-> [t \in PerCompartment |->
                     IF i <= Len(Array(values, t)) THEN Array(values, t)[i] ELSE <<>>]]
      BY DEF Compartments, n
    <3>. DEFINE S == {shown[i] : i \in 1 .. n}
    <3>2. shown \in [1 .. n -> S]
      BY <3>1
    <3>. HIDE DEF shown, S
    <3>3. DOMAIN shown = 1 .. n /\ Len(shown) = n
      BY <2>7, <3>2, FunctionIsSeq
    <3>. QED
      BY <3>1, <3>3
  <2>. HIDE DEF shown
  <2>9. Parts
    <3>. SUFFICES ASSUME NEW t \in PerCompartment
                  PROVE  /\ \A i \in DOMAIN shown : shown[i][t] = Part(t, D(t), i)
                         /\ Part(t, D(t), Len(shown) + 1) = <<>>
      OBVIOUS
    <3>1. /\ Array(values, t) \in Seq(Seq(Int))
          /\ \A i \in Nat \ {0} :
               Part(t, D(t), i) =
                 IF i <= Len(Array(values, t)) THEN Array(values, t)[i] ELSE <<>>
      BY <2>4, <2>6 DEF ShownArrays
    <3>2. ASSUME NEW i \in DOMAIN shown PROVE shown[i][t] = Part(t, D(t), i)
      <4>1. i \in 1 .. n /\ i \in Nat \ {0}
        BY <2>7, <2>8
      <4>2. shown[i][t] = IF i <= Len(Array(values, t)) THEN Array(values, t)[i] ELSE <<>>
        BY <2>8, <4>1
      <4>. QED
        BY <3>1, <4>1, <4>2
    <3>3. Part(t, D(t), Len(shown) + 1) = <<>>
      <4>. DEFINE long == Len(Array(values, t))
      <4>1. n + 1 \in Nat \ {0} /\ long \in Nat /\ long <= n
        BY <2>7, <3>1, LenProperties
      <4>2. ~ (n + 1 <= long)
        BY <2>7, <4>1
      <4>3. Part(t, D(t), n + 1) = <<>>
        BY <3>1, <4>1, <4>2
      <4>. QED
        BY <2>8, <4>3
    <3>. QED
      BY <3>2, <3>3
  <2>. QED
    BY <2>1, <2>5, <2>9 DEF StateIsLatest, values, short, shown, D
<1>. QED
  BY <1>1, FeedInvariant, PTL
=============================================================================
