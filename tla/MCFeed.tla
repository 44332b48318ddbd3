-------------------------------- MODULE MCFeed --------------------------------
(***************************************************************************)
(* Small instances of FeedSystem.                                          *)
(***************************************************************************)
EXTENDS FeedSystem

MCPieces == {CR, Blank, "temps", "temp", "one", "pair", "count", "short", "empty",
             "other", "nak", "hello", "end", "junk"}

Frame(action, address, words, rest) ==
  [action |-> action, address |-> address, payload |-> [words |-> words, rest |-> rest]]

\* The text of a frame is two pieces.
MCFrameOf ==
  LET text == [
    temps |-> Frame("PUBLISH", "ctemp", <<4000, -18000>>, 0),
    one   |-> Frame("PUBLISH", "ctemp", <<5000>>, 2),
    pair  |-> Frame("PUBLISH", "ctemprng", <<-22000, 10000, 0>>, 0),
    count |-> Frame("PUBLISH", "nocpt", <<2>>, 0),
    short |-> Frame("PUBLISH", "nocpt", <<>>, 1),
    empty |-> Frame("PUBLISH", "nocpt", <<>>, 0),
    other |-> Frame("PUBLISH", "unknown", <<7>>, 0),
    nak   |-> Frame("NAK", "csettemp", <<>>, 0),
    hello |-> Frame("HELLO", "unknown", <<>>, 0)]
  IN  [s \in {<<p, "end">> : p \in DOMAIN text} |-> text[s[1]]]

\* Every frame, one followed by a line feed, a blank line, and garbage.
MCLines ==
  DOMAIN MCFrameOf \cup {<<Blank, "count", "end", Blank>>, <<>>, <<Blank>>,
                         <<"junk">>, <<"count", Blank, "end">>}
=============================================================================
