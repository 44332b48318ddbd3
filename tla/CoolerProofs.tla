----------------------------- MODULE CoolerProofs -----------------------------
(***************************************************************************)
(* That what the cooler makes of a SET confirms it, and what the proofs    *)
(* about both clients rest on: the types of the wire and of the cooler.    *)
(***************************************************************************)
EXTENDS Cooler, SessionOpsProofs

USE CoolerAssumption

-----------------------------------------------------------------------------
(* The echo of a SET *)

\* Rounding to a tenth of a degree what was rounded to a thousandth stays within
\* the tolerance of 0.051 degrees.
LEMMA RoundingWithinTolerance ==
  ASSUME NEW x \in Int
  PROVE  Abs(10 * (100 * ((Round(x) + 50) \div 100)) - x) <= 510
<1>. DEFINE p == Round(x)
            q == (p + 50) \div 100
<1>1. p \in Int /\ 10 * p - x <= 5 /\ x - 10 * p <= 5
  BY RoundNearest
<1>2. q \in Int /\ 100 * q <= p + 50 /\ p + 50 < 100 * q + 100
  BY <1>1
<1>. HIDE DEF p, q
<1>3. 10 * (100 * q) - x <= 510 /\ x - 10 * (100 * q) <= 510
  BY <1>1, <1>2
<1>. QED
  BY <1>2, <1>3 DEF Abs, p, q

\* A decoded flag is 0 or 1.
LEMMA DecodedFlags ==
  ASSUME NEW t \in Topics, Flag(t), NEW words \in Seq(Int)
  PROVE  \A i \in DOMAIN Decode(t, words) : Decode(t, words)[i] \in {0, 1}
  BY DEF Decode, Each, Flag, Scaled, Kind, Truth, Topics

\* If the cooler accepts a SET and publishes what it stores, a set-point rounded
\* to a tenth of a degree included, that publish confirms the write, whatever
\* was asked for and whatever had been published before: no accepted write times
\* out because of rounding or coercion (session.py:147-166, README.md:65-68).
THEOREM EchoConfirms ==
  ASSUME NEW values \in [Topics -> Seq(Int)],
         \A u \in Topics : \E p \in Seq(Int) : values[u] = Decode(u, p),
         NEW t \in Topics, NEW v \in Int, NEW c \in Nat,
         RefusedBy(values, t, v, c) = "none"
  PROVE  LET words == Encode(t, NewValue(values, t, v, c)) IN
           Matches(t, Expected(values, t, v, c), Publication(t, Grain(t, words)))
             = "confirmed"
<1>. DEFINE new == NewValue(values, t, v, c)
            words == Encode(t, new)
            echo == Decode(t, Grain(t, words))
            expected == Expected(values, t, v, c)
<1>1. new \in Seq(Int) /\ words \in Seq(Int) /\ Len(words) = Len(new)
  BY NewValueType, EncodeType
<1>2. t \in Writable
  BY DEF RefusedBy
<1>3. SUFFICES Close(t, echo, expected)
  BY DEF Matches, Publication
<1>4. DOMAIN new = 1 .. Len(new) /\ \A i \in 1 .. Len(new) : new[i] \in Int
  BY <1>1, LenProperties
<1>5. CASE t = "csettemp"
  <2>1. /\ DOMAIN words = 1 .. Len(new)
        /\ \A i \in 1 .. Len(new) : words[i] = Round(new[i])
    BY <1>4, <1>5 DEF Encode, Each, Scaled, Kind
  <2>2. echo = [i \in 1 .. Len(new) |-> 10 * (100 * ((words[i] + 50) \div 100))]
    BY <1>5, <2>1 DEF Grain, Decode, Used, Scalar, Each, Scaled, Kind
  <2>3. \A i \in 1 .. Len(new) : Abs(echo[i] - new[i]) <= 510
    <3>. TAKE i \in 1 .. Len(new)
    <3>1. echo[i] = 10 * (100 * ((Round(new[i]) + 50) \div 100))
      BY <2>1, <2>2
    <3>2. new[i] \in Int
      BY <1>4
    <3>. HIDE DEF new, echo
    <3>. QED
      BY <3>1, <3>2, RoundingWithinTolerance
  <2>4. expected = new /\ Tolerance(t) = 510 /\ Kind[t] # "bool"
    BY <1>5 DEF Expected, PerCompartment, Tolerance, Scaled, Kind
  <2>5. echo \in [1 .. Len(new) -> Int]
    <3>1. \A i \in 1 .. Len(new) : words[i] \in Int
      BY <1>4, <2>1, RoundNearest
    <3>. QED
      BY <2>2, <3>1
  <2>6. Len(echo) = Len(new) /\ DOMAIN echo = 1 .. Len(new)
    BY <1>1, <2>5, LenProperties, FunctionIsSeq
  <2>. QED
    BY <2>3, <2>4, <2>6 DEF Close
<1>6. CASE t # "csettemp"
  <2>1. Grain(t, words) = words /\ Tolerance(t) = 0
    <3>1. Grain(t, words) = words
      BY <1>6 DEF Grain
    <3>2. ~Scaled(t)
      BY <1>2, <1>6 DEF Scaled, Kind, Writable
    <3>. QED
      BY <3>1, <3>2 DEF Tolerance
  <2>2. echo = expected
    <3>1. CASE t = "cpow"
      <4>1. expected = new /\ words = Each(Truth, new) /\ echo = Each(Truth, words)
        BY <2>1, <3>1 DEF Expected, PerCompartment, Encode, Decode, Used, Scalar, Flag, Scaled, Kind
      <4>2. \A i \in 1 .. Len(new) : new[i] \in {0, 1}
        <5>1. values[t] \in Seq(Int) /\ Len(new) = Len(values[t])
              /\ \A i \in 1 .. Len(new) : new[i] = Coerce(t, v) \/ new[i] = values[t][i]
          <6>1. t \in PerCompartment
            BY <3>1 DEF PerCompartment
          <6>2. /\ Len(new) = Len(values[t]) /\ new[c + 1] = Coerce(t, v)
                /\ \A i \in 1 .. Len(values[t]) : i # c + 1 => new[i] = values[t][i]
            BY <6>1, OthersKeepPublished
          <6>. HIDE DEF new
          <6>. QED
            BY <6>2
        <5>2. PICK p \in Seq(Int) : values[t] = Decode(t, p)
          OBVIOUS
        <5>3. \A i \in 1 .. Len(values[t]) : values[t][i] \in {0, 1}
          BY <3>1, <5>1, <5>2, DecodedFlags, LenProperties DEF Flag, Kind
        <5>4. Coerce(t, v) \in {0, 1}
          BY <3>1 DEF Coerce, Flag, Kind, Truth
        <5>. QED
          BY <5>1, <5>3, <5>4
      <4>3. words = new
        <5>1. words = [i \in 1 .. Len(new) |-> new[i]]
          BY <1>4, <4>1, <4>2 DEF Each, Truth
        <5>. QED
          BY <1>4, <5>1, <1>1, LenProperties
      <4>. QED
        BY <4>1, <4>3
    <3>2. CASE t # "cpow"
      BY <1>2, <1>6, <2>1, <3>2 DEF Expected, PerCompartment, Writable
    <3>. QED
      BY <3>1, <3>2
  <2>3. expected \in Seq(Int)
    BY NewValueType
  <2>4. \A i \in DOMAIN expected : Abs(expected[i] - expected[i]) <= 0
    BY <2>3, LenProperties DEF Abs
  <2>5. echo # <<>>
    <3>1. Len(new) > 0
      BY <1>2, OthersKeepPublished, LenProperties DEF NewValue, RefusedBy
    <3>2. words \in Seq(Int) /\ DOMAIN words = 1 .. Len(new) /\ 1 \in DOMAIN words
      BY <1>1, <3>1, LenProperties
    <3>. DEFINE used == Used(t, words)
    <3>3. echo = used \/ echo = Each(Truth, used)
      BY <1>2, <1>6, <2>1 DEF Decode, Scaled, Kind, Writable
    <3>4. 1 \in DOMAIN used
      BY <1>2, <3>2 DEF Used, Kind, Writable
    <3>. HIDE DEF used
    <3>5. DOMAIN echo # {}
      BY <3>3, <3>4 DEF Each
    <3>. QED
      BY <3>5
  <2>. QED
    BY <2>1, <2>2, <2>4, <2>5 DEF Close
<1>. QED
  BY <1>5, <1>6

-----------------------------------------------------------------------------
(* Events in a row *)

\* The publishes of t in a sequence of events.
Held(es, t) == {k \in DOMAIN es : es[k].kind = "PUBLISH" /\ es[k].topic = t}

\* What a callback that got d so far has got for topic t after the events es.
Latest(es, t, d) ==
  IF Held(es, t) = {} THEN d
  ELSE es[CHOOSE k \in Held(es, t) : \A j \in Held(es, t) : j <= k].value

\* The event at position k is the one Latest looks for.
LEMMA LatestAt ==
  ASSUME NEW S, NEW es \in Seq(S), NEW t, NEW d, NEW k \in Held(es, t),
         \A j \in Held(es, t) : j <= k
  PROVE  Latest(es, t, d) = es[k].value
<1>1. Held(es, t) \subseteq Nat
  BY LenProperties DEF Held
<1>2. (CHOOSE i \in Held(es, t) : \A j \in Held(es, t) : j <= i) = k
  BY <1>1
<1>. QED
  BY <1>2 DEF Latest

\* There is such a position unless no event is a publish of t.
LEMMA LatestExists ==
  ASSUME NEW S, NEW es \in Seq(S), NEW t, Held(es, t) # {}
  PROVE  \E k \in Held(es, t) : \A j \in Held(es, t) : j <= k
<1>1. Len(es) \in Nat /\ Held(es, t) \subseteq 1 .. Len(es)
  BY LenProperties DEF Held
<1>. QED
  BY <1>1, LeastAndGreatest

\* An event added counts if it is a publish of t, and changes nothing if not.
LEMMA LatestAppend ==
  ASSUME NEW S, NEW es \in Seq(S), NEW e \in S, NEW t, NEW d
  PROVE  Latest(Append(es, e), t, d) =
           IF e.kind = "PUBLISH" /\ e.topic = t THEN e.value ELSE Latest(es, t, d)
<1>. DEFINE n == Len(es)
            new == Append(es, e)
<1>1. /\ n \in Nat /\ DOMAIN es = 1 .. n /\ DOMAIN new = 1 .. n + 1 /\ new \in Seq(S)
      /\ \A k \in 1 .. n : new[k] = es[k]
      /\ new[n + 1] = e
  BY LenProperties, AppendProperties
<1>. HIDE DEF new
<1>2. CASE e.kind = "PUBLISH" /\ e.topic = t
  <2>1. n + 1 \in Held(new, t) /\ \A j \in Held(new, t) : j <= n + 1
    BY <1>1, <1>2 DEF Held
  <2>2. Latest(new, t, d) = new[n + 1].value
    BY <1>1, <2>1, LatestAt
  <2>. QED
    BY <1>1, <1>2, <2>2 DEF new
<1>3. CASE ~(e.kind = "PUBLISH" /\ e.topic = t)
  <2>1. Held(new, t) = Held(es, t)
    BY <1>1, <1>3 DEF Held
  <2>2. CASE Held(es, t) = {}
    BY <1>3, <2>1, <2>2 DEF Latest, new
  <2>3. CASE Held(es, t) # {}
    <3>1. PICK k \in Held(es, t) : \A j \in Held(es, t) : j <= k
      BY <2>3, LatestExists
    <3>2. Latest(es, t, d) = es[k].value /\ Latest(new, t, d) = new[k].value
      BY <1>1, <2>1, <3>1, LatestAt
    <3>3. new[k] = es[k]
      BY <1>1 DEF Held
    <3>. QED
      BY <1>3, <3>2, <3>3 DEF new
  <2>. QED
    BY <2>2, <2>3
<1>. QED
  BY <1>2, <1>3

\* An event handed over moves from what is to come to what was got.
LEMMA LatestTail ==
  ASSUME NEW S, NEW es \in Seq(S), es # <<>>, NEW t, NEW d
  PROVE  Latest(es, t, d) =
           Latest(Tail(es), t,
                  IF Head(es).kind = "PUBLISH" /\ Head(es).topic = t THEN Head(es).value ELSE d)
<1>. DEFINE n == Len(es)
            rest == Tail(es)
            got == IF Head(es).kind = "PUBLISH" /\ Head(es).topic = t THEN Head(es).value ELSE d
<1>1. /\ n \in Nat \ {0} /\ DOMAIN es = 1 .. n /\ DOMAIN rest = 1 .. n - 1 /\ rest \in Seq(S)
      /\ \A k \in 1 .. n - 1 : rest[k] = es[k + 1]
      /\ es[1] = Head(es)
  BY LenProperties, HeadTailProperties
<1>. HIDE DEF rest
<1>2. CASE Held(rest, t) # {}
  <2>1. PICK k \in Held(rest, t) : \A j \in Held(rest, t) : j <= k
    BY <1>1, <1>2, LatestExists
  <2>2. k \in 1 .. n - 1 /\ k + 1 \in Held(es, t)
    BY <1>1 DEF Held
  <2>3. ASSUME NEW j \in Held(es, t) PROVE j <= k + 1
    <3>1. j \in 1 .. n /\ (j = 1 \/ j - 1 \in Held(rest, t))
      BY <1>1 DEF Held
    <3>. QED
      BY <2>1, <2>2, <3>1
  <2>4. Latest(rest, t, got) = rest[k].value
    BY <1>1, <2>1, LatestAt
  <2>5. Latest(es, t, d) = es[k + 1].value
    BY <2>2, <2>3, LatestAt
  <2>. QED
    BY <1>1, <2>2, <2>4, <2>5 DEF rest
<1>3. CASE Held(rest, t) = {}
  <2>1. Latest(rest, t, got) = got
    BY <1>3 DEF Latest
  <2>2. ASSUME NEW j \in Held(es, t), j # 1 PROVE FALSE
    <3>1. j - 1 \in 1 .. n - 1 /\ es[j] = rest[j - 1]
      BY <1>1, <2>2 DEF Held
    <3>2. j - 1 \in Held(rest, t)
      BY <1>1, <3>1 DEF Held
    <3>. QED
      BY <1>3, <3>2
  <2>3. CASE Head(es).kind = "PUBLISH" /\ Head(es).topic = t
    <3>1. 1 \in Held(es, t)
      BY <1>1, <2>3 DEF Held
    <3>2. Latest(es, t, d) = es[1].value
      BY <2>2, <3>1, LatestAt
    <3>. QED
      BY <1>1, <2>1, <2>3, <3>2 DEF rest
  <2>4. CASE ~(Head(es).kind = "PUBLISH" /\ Head(es).topic = t)
    <3>1. Held(es, t) = {}
      BY <1>1, <2>2, <2>4 DEF Held
    <3>. QED
      BY <2>1, <2>4, <3>1 DEF Latest, rest
  <2>. QED
    BY <2>3, <2>4
<1>. QED
  BY <1>2, <1>3

\* What comes after the events of fs continues what came before them.
LEMMA LatestConcat ==
  ASSUME NEW S, NEW es \in Seq(S), NEW fs \in Seq(S), NEW t, NEW d
  PROVE  Latest(es \o fs, t, d) = Latest(fs, t, Latest(es, t, d))
<1>. DEFINE n == Len(es)
            m == Len(fs)
            all == es \o fs
<1>1. /\ n \in Nat /\ m \in Nat /\ all \in Seq(S)
      /\ DOMAIN es = 1 .. n /\ DOMAIN fs = 1 .. m /\ DOMAIN all = 1 .. n + m
      /\ \A k \in 1 .. n : all[k] = es[k]
      /\ \A k \in 1 .. m : all[n + k] = fs[k]
  <2>1. /\ n \in Nat /\ m \in Nat /\ all \in Seq(S) /\ Len(all) = n + m
        /\ DOMAIN es = 1 .. n /\ DOMAIN fs = 1 .. m
        /\ \A k \in 1 .. Len(all) : all[k] = IF k <= n THEN es[k] ELSE fs[k - n]
    BY LenProperties, ConcatProperties
  <2>2. DOMAIN all = 1 .. n + m
    BY <2>1, LenProperties
  <2>. HIDE DEF all
  <2>. QED
    BY <2>1, <2>2
<1>. HIDE DEF all
<1>2. CASE Held(fs, t) # {}
  <2>1. PICK k \in Held(fs, t) : \A j \in Held(fs, t) : j <= k
    BY <1>2, LatestExists
  <2>2. k \in 1 .. m /\ n + k \in Held(all, t)
    BY <1>1 DEF Held
  <2>3. ASSUME NEW j \in Held(all, t) PROVE j <= n + k
    <3>1. j \in 1 .. n + m
      BY <1>1 DEF Held
    <3>2. CASE j > n
      <4>1. j - n \in 1 .. m /\ all[j] = fs[j - n]
        BY <1>1, <3>1, <3>2
      <4>2. j - n \in Held(fs, t)
        BY <1>1, <4>1 DEF Held
      <4>. QED
        BY <1>1, <2>1, <2>2, <3>1, <4>2
    <3>. QED
      BY <1>1, <2>2, <3>1, <3>2
  <2>4. Latest(all, t, d) = all[n + k].value
    BY <1>1, <2>2, <2>3, LatestAt
  <2>5. Latest(fs, t, Latest(es, t, d)) = fs[k].value
    BY <2>1, LatestAt
  <2>. QED
    BY <1>1, <2>2, <2>4, <2>5 DEF all
<1>3. CASE Held(fs, t) = {}
  <2>1. Held(all, t) = Held(es, t)
    <3>1. ASSUME NEW j \in Held(all, t) PROVE j \in Held(es, t)
      <4>1. j \in 1 .. n + m
        BY <1>1 DEF Held
      <4>2. j - n \notin 1 .. m
        BY <1>1, <1>3, <4>1 DEF Held
      <4>. QED
        BY <1>1, <4>1, <4>2 DEF Held
    <3>2. Held(es, t) \subseteq Held(all, t)
      BY <1>1 DEF Held
    <3>. QED
      BY <3>1, <3>2
  <2>2. CASE Held(es, t) = {}
    BY <1>3, <2>1, <2>2 DEF Latest, all
  <2>3. CASE Held(es, t) # {}
    <3>1. PICK k \in Held(es, t) : \A j \in Held(es, t) : j <= k
      BY <2>3, LatestExists
    <3>2. Latest(es, t, d) = es[k].value
      BY <3>1, LatestAt
    <3>3. Latest(all, t, d) = all[k].value
      <4>1. k \in Held(all, t) /\ \A j \in Held(all, t) : j <= k
        BY <2>1, <3>1
      <4>. QED
        BY <1>1, <4>1, LatestAt
    <3>4. all[k] = es[k]
      BY <1>1 DEF Held
    <3>. QED
      BY <1>3, <3>2, <3>3, <3>4 DEF Latest, all
  <2>. QED
    BY <2>2, <2>3
<1>. QED
  BY <1>2, <1>3

-----------------------------------------------------------------------------
(* The wire and the cooler *)

\* Writing n copies of a frame to a channel.
LEMMA ConcatCopies ==
  ASSUME NEW S, NEW s \in Seq(S), NEW n \in Nat, NEW e \in S
  PROVE  s \o [i \in 1 .. n |-> e] \in Seq(S)
  BY FunctionIsSeq, ConcatProperties

\* The frames the cooler builds are frames to the client.
LEMMA FrameTypes ==
  ASSUME NEW t \in Topics, NEW words \in Seq(Int)
  PROVE  Publication(t, words) \in ToClient /\ Refusal(t) \in ToClient
<1>1. <<>> \in Seq(Int)
  BY EmptySeq
<1>. QED
  BY <1>1 DEF Publication, Refusal, ToClient

\* Storing a set-point in tenths of a degree keeps its payload a payload.
LEMMA GrainType ==
  ASSUME NEW t \in Topics, NEW words \in Seq(Int)
  PROVE  Grain(t, words) \in Seq(Int)
<1>1. [i \in DOMAIN words |-> 100 * ((words[i] + 50) \div 100)] \in Seq(Int)
  <2>1. \A i \in DOMAIN words : words[i] \in Int
    BY LenProperties
  <2>. QED
    BY <2>1, ElementWise
<1>. QED
  BY <1>1 DEF Grain, Each

\* Publishing copies of a frame keeps the channel to the client typed.
LEMMA PublishType ==
  ASSUME CoolerTypeOK, NEW n \in Nat, NEW frame \in ToClient, Publish(n, frame)
  PROVE  toClient' \in Seq(ToClient) /\ line' = line
  BY ConcatCopies DEF CoolerTypeOK, Publish

\* Publishing adds copies of one frame and nothing else.
LEMMA PublishElements ==
  ASSUME CoolerTypeOK, NEW n \in Nat, NEW frame \in ToClient, Publish(n, frame)
  PROVE  \A k \in DOMAIN toClient' :
           toClient'[k] = frame \/ (\E j \in DOMAIN toClient : toClient'[k] = toClient[j])
<1>. DEFINE copies == [i \in 1 .. n |-> frame]
<1>1. copies \in Seq(ToClient) /\ DOMAIN copies = 1 .. n /\ \A i \in 1 .. n : copies[i] = frame
  BY FunctionIsSeq
<1>2. toClient' = toClient \/ toClient' = toClient \o copies
  BY DEF Publish
<1>. HIDE DEF copies
<1>3. \A k \in DOMAIN (toClient \o copies) :
        \/ (toClient \o copies)[k] = frame
        \/ \E j \in DOMAIN toClient : (toClient \o copies)[k] = toClient[j]
  BY <1>1, ConcatElements DEF CoolerTypeOK
<1>. QED
  BY <1>2, <1>3

\* What the cooler reads is a frame, and the rest of the channel stays typed.
LEMMA ReceiveType ==
  ASSUME CoolerTypeOK, NEW action, Receive(action)
  PROVE  /\ toCooler' \in Seq(ToCooler)
         /\ Head(toCooler) \in ToCooler
         /\ Head(toCooler).action = action
         /\ Head(toCooler).topic \in Topics
         /\ Head(toCooler).words \in Seq(Int)
         /\ Head(toCooler).by \in Writers \cup {NoWriter}
<1>1. Head(toCooler) \in ToCooler /\ toCooler' \in Seq(ToCooler)
  BY HeadTailProperties DEF Receive, CoolerTypeOK
<1>. QED
  BY <1>1 DEF ToCooler, Receive

\* Every step of the cooler keeps the types of the wire and of the cooler.
LEMMA CoolerStepType ==
  ASSUME CoolerTypeOK, CoolerNext
  PROVE  CoolerTypeOK'
<1>1. CASE AnswerSubscribe
  <2>. DEFINE t == Head(toCooler).topic
  <2>1. t \in Topics /\ stored[t] \in Seq(Int) /\ toCooler' \in Seq(ToCooler)
    BY <1>1, ReceiveType DEF AnswerSubscribe, CoolerTypeOK
  <2>2. Publish(IF stored[t] = <<>> THEN 0 ELSE 1, Publication(t, stored[t]))
    BY <1>1 DEF AnswerSubscribe
  <2>3. toClient' \in Seq(ToClient) /\ line' = line
    BY <2>1, <2>2, FrameTypes, PublishType
  <2>. QED
    BY <1>1, <2>1, <2>3 DEF AnswerSubscribe, coolerVars, CoolerTypeOK
<1>2. CASE Accept
  <2>. DEFINE set == Head(toCooler)
  <2>1. /\ set \in ToCooler /\ set.topic \in Topics /\ stored[set.topic] \in Seq(Int)
        /\ toCooler' \in Seq(ToCooler)
    BY <1>2, ReceiveType DEF Accept, CoolerTypeOK
  <2>2. PICK n \in Copies : Publish(n, Publication(set.topic, stored[set.topic]))
    BY <1>2 DEF Accept
  <2>3. toClient' \in Seq(ToClient) /\ line' = line
    BY <2>1, <2>2, FrameTypes, PublishType
  <2>4. applying' \in Seq(ToCooler)
    BY <1>2, <2>1, AppendProperties DEF Accept, CoolerTypeOK
  <2>. QED
    BY <1>2, <2>1, <2>3, <2>4 DEF Accept, CoolerTypeOK
<1>3. CASE Refuse
  <2>1. Head(toCooler).topic \in Topics /\ toCooler' \in Seq(ToCooler)
    BY <1>3, ReceiveType DEF Refuse
  <2>2. toClient' \in Seq(ToClient) /\ line' = line
    BY <1>3, <2>1, FrameTypes, EmptySeq, PublishType DEF Refuse
  <2>. QED
    BY <1>3, <2>1, <2>2 DEF Refuse, CoolerTypeOK
<1>4. CASE Ignore
  BY <1>4, ReceiveType DEF Ignore, CoolerTypeOK
<1>5. CASE Apply
  <2>. DEFINE set == Head(applying)
              new == Grain(set.topic, set.words)
  <2>1. set \in ToCooler /\ applying' \in Seq(ToCooler)
    BY <1>5, HeadTailProperties DEF Apply, CoolerTypeOK
  <2>2. set.topic \in Topics /\ new \in Seq(Int)
    BY <2>1, GrainType DEF ToCooler
  <2>3. PICK n \in Copies : Publish(n, Publication(set.topic, new))
    BY <1>5 DEF Apply
  <2>4. toClient' \in Seq(ToClient) /\ line' = line
    BY <2>2, <2>3, FrameTypes, PublishType
  <2>5. stored' \in [Topics -> Seq(Int)]
    BY <1>5, <2>2 DEF Apply, CoolerTypeOK
  <2>6. fate' \in [Writers -> {"none", "accepted", "applied", "refused", "ignored"}]
    BY <1>5 DEF Apply, CoolerTypeOK
  <2>. QED
    BY <1>5, <2>1, <2>4, <2>5, <2>6 DEF Apply, CoolerTypeOK
<1>6. CASE Change
  <2>1. PICK f \in ForeignChanges : /\ stored' = [stored EXCEPT ![f.topic] = f.words]
                                    /\ Publish(1, Publication(f.topic, f.words))
    BY <1>6 DEF Change
  <2>2. f.topic \in Topics /\ f.words \in Seq(Int)
    OBVIOUS
  <2>3. toClient' \in Seq(ToClient) /\ line' = line
    BY <2>1, <2>2, FrameTypes, PublishType
  <2>. QED
    BY <1>6, <2>1, <2>2, <2>3 DEF Change, CoolerTypeOK
<1>7. CASE HangUp
  BY <1>7 DEF HangUp, CoolerTypeOK, coolerVars
<1>8. CASE Discard
  BY <1>8, ReceiveType DEF Discard, CoolerTypeOK, coolerVars
<1>. QED
  BY <1>1, <1>2, <1>3, <1>4, <1>5, <1>6, <1>7, <1>8 DEF CoolerNext
=============================================================================
