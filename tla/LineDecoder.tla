----------------------------- MODULE LineDecoder -----------------------------
(***************************************************************************)
(* protocol.LineDecoder: the buffer cut into lines.  A piece stands for    *)
(* some bytes of a line; FrameOf knows which texts base64 and Frame.decode *)
(* make a frame of, any other text is counted as dropped.                  *)
(***************************************************************************)
EXTENDS Integers, Sequences

LOCAL INSTANCE FiniteSetsExt

CONSTANTS
  Pieces,    \* what a stream is made of
  FrameOf    \* the texts that are frames, and the frames they are

CR == "cr"          \* LINE_TERMINATOR
Blank == "blank"    \* what strip() removes

ASSUME PiecesAssumption ==
  /\ {CR, Blank} \subseteq Pieces
  /\ DOMAIN FrameOf \subseteq Seq(Pieces \ {CR}) \ {<<>>}

Strip(line) ==
  LET kept == {k \in DOMAIN line : line[k] # Blank}
  IN  IF kept = {} THEN <<>> ELSE SubSeq(line, Min(kept), Max(kept))

Ends(stream) == {k \in DOMAIN stream : stream[k] = CR}

\* Mutant: the last terminator is looked for.
LastEnd(buf) == CHOOSE k \in Ends(buf) : \A j \in Ends(buf) : j <= k

FirstEnd(buf) == CHOOSE k \in Ends(buf) : \A j \in Ends(buf) : k <= j

\* The line that one turn of the loop of feed() takes, and what it leaves.
FirstLine(buf) == Strip(SubSeq(buf, 1, FirstEnd(buf) - 1))

AfterFirst(buf) == SubSeq(buf, FirstEnd(buf) + 1, Len(buf))
=============================================================================
