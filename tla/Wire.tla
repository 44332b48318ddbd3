-------------------------------- MODULE Wire --------------------------------
(***************************************************************************)
(* One TCP connection between a client and the cooler, at the granularity  *)
(* of whole frames: a frame counts as delivered when the line terminator   *)
(* that ends it is.  TCP keeps each direction in order and loses nothing   *)
(* while the connection lasts.                                             *)
(***************************************************************************)
EXTENDS Sequences

VARIABLES
  toCooler,   \* frames written by the client that the cooler has not read
  toClient,   \* frames published by the cooler that the client has not read
  line        \* "up"; "eof": the cooler closed its side; "shut": the client shut
              \* the socket down; "reset": the connection broke

wireVars == <<toCooler, toClient, line>>

WireInit ==
  /\ toCooler = <<>>
  /\ toClient = <<>>
  /\ line = "up"
=============================================================================
