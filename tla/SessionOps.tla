----------------------------- MODULE SessionOps -----------------------------
(***************************************************************************)
(* The socket-free part of the library that both clients call: the topic   *)
(* table and the int32 codecs of protocol.py, and the write side of        *)
(* session.Session (set_frame, WriteExpectation.matches).  Everything here *)
(* is an operator without state.                                           *)
(*                                                                         *)
(* A payload is the sequence of the int32 words it holds, <<>> when it is  *)
(* empty; payloads that end in a part of a word are in SessionFeed only.   *)
(* A decoded value is a sequence too: the array of                         *)
(* an array topic, a singleton for a scalar one, and <<>> for anything     *)
(* Python finds falsy in its place (not published, an empty array, the     *)
(* empty bytes kept after a DecodeError).  Words of a temperature are      *)
(* thousandths of a degree; decoded temperatures are ten-thousandths, so   *)
(* that encoding a caller's set-point can lose digits, as it does.         *)
(***************************************************************************)
EXTENDS Integers, Sequences

\* The topics modelled: the five that can be written, the two that guide or
\* feed them, and one read-only scalar.
Topics == {"csettemp", "cpow", "coolerpow", "batprotlvl", "icepow",
           "ctemp", "ctemprng", "nocpt"}

Kind == [csettemp |-> "milli[]", cpow |-> "bool[]", coolerpow |-> "bool",
         batprotlvl |-> "enum", icepow |-> "bool", ctemp |-> "milli[]",
         ctemprng |-> "milli-pair[]", nocpt |-> "int32"]

Writable == {"csettemp", "cpow", "coolerpow", "batprotlvl", "icepow"}

PerCompartment == {"csettemp", "cpow", "ctemp", "ctemprng"}

Scaled(t) == Kind[t] \in {"milli[]", "milli-pair[]"}

Flag(t) == Kind[t] \in {"bool", "bool[]"}

Scalar(t) == Kind[t] \in {"bool", "enum", "int32"}

Truth(x) == IF x # 0 THEN 1 ELSE 0

-----------------------------------------------------------------------------
(* Codecs *)

Each(Op(_), s) == [i \in DOMAIN s |-> Op(s[i])]

\* What a codec reads: a scalar its first word, a pair array an even number of them.
Used(t, words) ==
  IF Scalar(t) /\ words # <<>> THEN <<words[1]>>
  ELSE IF Kind[t] = "milli-pair[]" THEN SubSeq(words, 1, Len(words) - (Len(words) % 2))
  ELSE words

\* decode: an empty scalar raises DecodeError and Session._publish keeps the raw
\* bytes, here <<>>.
Decode(t, words) ==
  IF Scaled(t) THEN Each(LAMBDA x : 10 * x, Used(t, words))
  ELSE IF Flag(t) THEN Each(Truth, Used(t, words))
  ELSE Used(t, words)

\* round() of a tenth: to the nearest integer, a tie to the even one.
Round(x) ==
  LET q == x \div 10 IN
    IF x % 10 > 5 \/ (x % 10 = 5 /\ q % 2 = 1) THEN q + 1 ELSE q

\* encode: rounded to thousandths.
Encode(t, value) ==
  IF Scaled(t) THEN Each(Round, value)
  ELSE IF Flag(t) THEN Each(Truth, value)
  ELSE value

-----------------------------------------------------------------------------
(* Writes *)

Coerce(t, v) == IF Flag(t) THEN Truth(v) ELSE v

\* 0.051 degrees for a temperature: the cooler keeps tenths of a degree.
Tolerance(t) == IF Scaled(t) THEN 510 ELSE 0

Abs(x) == IF x < 0 THEN -x ELSE x

\* _close: bool(b"") is False, so the empty bytes kept of an empty publish equal an
\* expected FALSE.  Bytes kept of a part of a word would equal an expected TRUE; no
\* publish here has them.
Close(t, observed, expected) ==
  IF Kind[t] = "bool" /\ observed = <<>> THEN expected[1] = 0
  ELSE /\ Len(observed) = Len(expected)
       /\ \A i \in DOMAIN observed :
            Abs(observed[i] - expected[i]) <= Tolerance(t)

OutOfRange(ranges, c, v) ==
  /\ 2 * c + 2 <= Len(ranges)
  /\ ~(ranges[2 * c + 1] <= v /\ v <= ranges[2 * c + 2])

\* What set_frame raises, by the guard that raises it.  Compartment None and
\* compartment 0 behave alike, both are 0 here.
RefusedBy(values, t, v, c) ==
  IF t \notin Writable THEN "NotWritable"
  ELSE IF t \notin PerCompartment
       THEN IF c # 0 THEN "ValueError" ELSE "none"
  ELSE IF values[t] = <<>> THEN "StateUnknown"
  ELSE IF c < 0 \/ c >= Len(values[t]) THEN "ValueError"
  ELSE IF t = "csettemp" /\ OutOfRange(values["ctemprng"], c, Coerce(t, v))
       THEN "ValueError"
  ELSE "none"

\* The array or scalar a SET writes: the other compartments come from the last
\* published value.
NewValue(values, t, v, c) ==
  IF t \in PerCompartment THEN [values[t] EXCEPT ![c + 1] = Coerce(t, v)]
                          ELSE <<Coerce(t, v)>>

\* The expectation of an array is the value asked for, before encoding rounds it.
Expected(values, t, v, c) ==
  IF t \in PerCompartment THEN NewValue(values, t, v, c)
                          ELSE Decode(t, Encode(t, NewValue(values, t, v, c)))

\* Mutant: a publish of another value is taken for a refusal.
MatchesStrictly(t, expected, frame) ==
  IF frame.topic # t THEN "none"
  ELSE IF frame.action = "PUBLISH" /\ Close(t, Decode(t, frame.words), expected)
       THEN "confirmed" ELSE "rejected"

\* WriteExpectation.matches: True, False and None.
Matches(t, expected, frame) ==
  IF frame.topic # t THEN "none"
  ELSE IF frame.action = "NAK" THEN "rejected"
  ELSE IF frame.action = "PUBLISH" /\ Close(t, Decode(t, frame.words), expected)
       THEN "confirmed"
  ELSE "none"
=============================================================================
