------------------------------ MODULE FeedSystem ------------------------------
(***************************************************************************)
(* What SessionFeed promises, stated over the whole stream received so     *)
(* far, without chunks, buffer or loop.                                    *)
(***************************************************************************)
EXTENDS SessionFeed

\* 0 if there is none.
Greatest(S) == CHOOSE x \in S \cup {0} : \A y \in S : y <= x

\* The lines of a stream, by the place of their terminator: those that are frames, and
\* those that are garbage.
LineAt(came, k) ==
  Strip(SubSeq(came, Greatest({j \in Ends(came) : j < k}) + 1, k - 1))

GoodLines(came) == {k \in Ends(came) : LineAt(came, k) \in DOMAIN FrameOf}

BadLines(came) ==
  {k \in Ends(came) : LineAt(came, k) # <<>> /\ LineAt(came, k) \notin DOMAIN FrameOf}

FrameAt(came, k) == FrameOf[LineAt(came, k)]

\* The n-th frame gives the n-th event, and what is no frame is counted.
EventsMatch(s, came) ==
  /\ Len(s.events) = Cardinality(GoodLines(came))
  /\ \A k \in GoodLines(came) :
       s.events[Cardinality({j \in GoodLines(came) : j <= k})] = EventOf(FrameAt(came, k))
  /\ s.dropped = Cardinality(BadLines(came))

\* However the stream is cut, every good line gives its event, in order, every
\* other one that is not blank is counted, and what is left over is kept
\* (protocol.py:119-139, session.py:99-109).
ChunksDoNotMatter ==
  /\ EventsMatch(session, received)
  /\ session.buf = SubSeq(received, Greatest(Ends(received)) + 1, Len(received))

\* The publications of an address, and the payload of the last one.
Published(came, a) ==
  {k \in GoodLines(came) : FrameAt(came, k).action = "PUBLISH" /\ FrameAt(came, k).address = a}

Latest(came, a) == FrameAt(came, Greatest(Published(came, a))).payload

ValuesMatch(s, came) ==
  /\ \A a \in Addresses :
       s.raw[a] = IF Published(came, a) = {} THEN Nothing ELSE Raw(Latest(came, a))
  /\ \A t \in Topics :
       s.values[t] = IF Published(came, t) = {} THEN Nothing ELSE Value(t, Latest(came, t))

\* The elements of the i-th compartment in an array of d elements.
Part(t, d, i) ==
  LET width == IF Kind[t] = "milli-pair[]" THEN 2 ELSE 1
  IN  IF width * i <= Len(d) THEN SubSeq(d, width * (i - 1) + 1, width * i) ELSE <<>>

\* values and raw hold the last publication of each address, and the state shows
\* every published compartment with what was last published for it, nothing from
\* an earlier and longer array (session.py:111-120, models.py:100-140).  The
\* exception is a count of compartments that was published too short.
StateIsLatest ==
  LET short == /\ Published(received, "nocpt") # {}
               /\ Latest(received, "nocpt").words = <<>> /\ Latest(received, "nocpt").rest # 0
      shown == Compartments(session.values)
  IN  /\ ValuesMatch(session, received)
      /\ StateRaises(session.values) <=> short
      /\ ~short =>
           \A t \in PerCompartment :
             LET d == IF Published(received, t) = {} THEN <<>>
                      ELSE Decode(t, Latest(received, t).words)
             IN  /\ \A i \in DOMAIN shown : shown[i][t] = Part(t, d, i)
                 /\ Part(t, d, Len(shown) + 1) = <<>>
=============================================================================
