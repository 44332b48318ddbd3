----------------------------- MODULE SessionFeed -----------------------------
(***************************************************************************)
(* The inbound half of session.Session with its LineDecoder: feed() over a *)
(* stream that the socket cuts into chunks anywhere, and the CoolerState   *)
(* that state() builds from the values.                                    *)
(*                                                                         *)
(* A payload is [words, rest]: whole int32 words, and 0 to 3 bytes more.   *)
(***************************************************************************)
EXTENDS SessionOps, LineDecoder, FiniteSets

CONSTANTS
  Lines,      \* what the cooler may send, without the terminator
  MaxLines    \* bound on the lines of one behaviour

\* TOPIC_BY_ADDRESS lacks one of the addresses.
Addresses == Topics \cup {"unknown"}

Payloads == [words : Seq(Int), rest : 0 .. 3]

Actions == {"HELLO", "ACK", "NAK", "NOP", "PUBLISH", "SET", "SUBSCRIBE", "FRAGMENT", "other"}

Frames == [action : Actions, address : Addresses, payload : Payloads]

ASSUME FeedAssumption ==
  /\ \A text \in DOMAIN FrameOf : FrameOf[text] \in Frames
  /\ Lines \subseteq Seq(Pieces \ {CR}) /\ MaxLines \in Nat

VARIABLES
  stream,     \* sent by the cooler and not received yet
  received,   \* history: everything received
  session     \* values, raw, the buf and the dropped of _decoder; history: the events
              \* returned so far

vars == <<stream, received, session>>

Nothing == [form |-> "none", data |-> <<>>]

Raw(payload) == [form |-> "raw", data |-> Append(payload.words, payload.rest)]

\* The codec's decode(), or the payload itself after a DecodeError.
Value(t, payload) ==
  IF Scalar(t) /\ payload.words = <<>> THEN Raw(payload)
  ELSE [form |-> "value", data |-> Decode(t, payload.words)]

\* Mutant: nothing is stored for a payload that cannot be decoded.
PublishDecoded(s, f) ==
  IF f.address \in Topics /\ Value(f.address, f.payload).form = "value"
  THEN [s EXCEPT !.raw[f.address] = Raw(f.payload),
                 !.values[f.address] = Value(f.address, f.payload)]
  ELSE [s EXCEPT !.raw[f.address] = Raw(f.payload)]

Publish(s, f) ==
  LET kept == [s EXCEPT !.raw[f.address] = Raw(f.payload)]
  IN  IF f.address \in Topics
      THEN [kept EXCEPT !.values[f.address] = Value(f.address, f.payload)]
      ELSE kept

EventOf(f) ==
  [kind |-> CASE f.action = "PUBLISH" -> "Publish"
              [] f.action = "NAK" -> "Nak"
              [] OTHER -> "Unhandled",
   address |-> f.address, raw |-> Raw(f.payload)]

\* One frame of feed().
Handle(s, f) ==
  LET published == IF f.action = "PUBLISH" THEN Publish(s, f) ELSE s
  IN  [published EXCEPT !.events = Append(@, EventOf(f))]

\* The first line leaves the buffer.
TakeLine(s) ==
  LET line == FirstLine(s.buf)
      rest == [s EXCEPT !.buf = AfterFirst(@)]
  IN  IF line = <<>> THEN rest
      ELSE IF line \in DOMAIN FrameOf THEN Handle(rest, FrameOf[line])
      ELSE [rest EXCEPT !.dropped = @ + 1]

\* One turn of the loop, which ends when no terminator is left.
Turn(s) == IF Ends(s.buf) = {} THEN s ELSE TakeLine(s)

\* The loop: no more turns than pieces in the buffer.  A frame is handled as it is
\* found: nothing comes between the list of them and the loop over it.
Drain(s) ==
  LET after[n \in 0 .. Len(s.buf)] == IF n = 0 THEN s ELSE Turn(after[n - 1])
  IN  after[Len(s.buf)]

Feed ==
  \E n \in 1 .. Len(stream) :
    /\ stream' = SubSeq(stream, n + 1, Len(stream))
    /\ received' = received \o SubSeq(stream, 1, n)
    /\ session' = Drain([session EXCEPT !.buf = @ \o SubSeq(stream, 1, n)])

\* The cooler sends a line.
SendLine ==
  /\ Cardinality(Ends(received \o stream)) < MaxLines
  /\ \E line \in Lines : stream' = stream \o line \o <<CR>>
  /\ UNCHANGED <<received, session>>

Init ==
  /\ stream = <<>> /\ received = <<>>
  /\ session = [values  |-> [t \in Topics |-> Nothing],
                raw     |-> [a \in Addresses |-> Nothing],
                buf     |-> <<>>,
                dropped |-> 0,
                events  |-> <<>>]

Next == SendLine \/ Feed

Spec == Init /\ [][Next]_vars

-----------------------------------------------------------------------------
(* CoolerState.from_values *)

\* An array by compartment; one that was not published is empty.
Array(values, t) ==
  LET d == values[t].data
  IN  IF Kind[t] = "milli-pair[]" THEN [i \in 1 .. Len(d) \div 2 |-> SubSeq(d, 2 * i - 1, 2 * i)]
                                  ELSE [i \in DOMAIN d |-> <<d[i]>>]

\* max() of the lengths and of raw bytes raises TypeError, unless they are empty.
StateRaises(values) ==
  values["nocpt"].form = "raw" /\ values["nocpt"].data # <<0>>

CompartmentCount(values) ==
  LET counts == {Len(Array(values, t)) : t \in PerCompartment}
                  \cup {IF values["nocpt"].form = "value" THEN values["nocpt"].data[1] ELSE 0}
  IN  CHOOSE n \in counts : \A m \in counts : m <= n

\* None is <<>>.
Compartments(values) ==
  [i \in 1 .. CompartmentCount(values) |->
     [t \in PerCompartment |->
        IF i <= Len(Array(values, t)) THEN Array(values, t)[i] ELSE <<>>]]
=============================================================================
