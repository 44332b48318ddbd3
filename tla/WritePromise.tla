---------------------------- MODULE WritePromise ----------------------------
(***************************************************************************)
(* What set() promises its callers, with no wire, reader or timer in it.   *)
(* While somebody listens to the cooler a write may be answered, once.  A  *)
(* connection that was listened to ends in one way only: no answer comes   *)
(* any more, and every caller that still waits is told so.  The one        *)
(* connection that ends without a word is closed before anybody listened   *)
(* (Drop): who waits then has its own timeout only.  A call ends with its  *)
(* answer, or because its caller gave up or the socket failed under it.    *)
(***************************************************************************)
CONSTANTS Writers

VARIABLES
  phase,   \* "unheard": nobody listens yet; "open": answers may come; "ending":
           \* closed, the callers not told yet; "over"; "dropped": closed unheard
  status,  \* "idle", "asked", "leaving" (giving up) or "ended"
  answer,  \* the cooler's answer, or that the connection was lost
  result   \* how the call ended

vars == <<phase, status, answer, result>>

Verdicts == {"confirmed", "rejected"}

LocalErrors == {"NotWritable", "StateUnknown", "ValueError"}

\* New writes are taken.
Accepting == phase \in {"unheard", "open"}

Unanswered(S) == {w \in Writers : status[w] \in S /\ answer[w] = "none"}

Init ==
  /\ phase = "unheard"
  /\ status = [w \in Writers |-> "idle"]
  /\ answer = [w \in Writers |-> "none"]
  /\ result = [w \in Writers |-> "none"]

Ask(w) ==
  /\ Accepting
  /\ status[w] = "idle"
  /\ status' = [status EXCEPT ![w] = "asked"]
  /\ UNCHANGED <<phase, answer, result>>

EndWith(w, r) ==
  /\ status' = [status EXCEPT ![w] = "ended"]
  /\ result' = [result EXCEPT ![w] = r]
  /\ UNCHANGED <<phase, answer>>

Fail(w) ==
  /\ status[w] = "idle"
  /\ \/ \E r \in LocalErrors : EndWith(w, r)
     \/ ~Accepting /\ EndWith(w, "closed")
     \/ Accepting /\ EndWith(w, "oserror")

Listen ==
  /\ phase = "unheard"
  /\ phase' = "open"
  /\ UNCHANGED <<status, answer, result>>

Answer ==
  /\ phase = "open"
  /\ \E S \in SUBSET Unanswered({"asked", "leaving"}) :
       \E f \in [S -> Verdicts] :
         answer' = [w \in Writers |-> IF w \in S THEN f[w] ELSE answer[w]]
  /\ UNCHANGED <<phase, status, result>>

\* The caller closes: no answer comes any more, and the end is still to be told.
Stop ==
  /\ phase = "open"
  /\ phase' = "ending"
  /\ UNCHANGED <<status, answer, result>>

\* The end of a connection that was listened to, told to everyone who waits.
Lose ==
  /\ phase \in {"open", "ending"}
  /\ phase' = "over"
  /\ \E S \in SUBSET Unanswered({"leaving"}) :
       answer' = [w \in Writers |-> IF w \in S \cup Unanswered({"asked"})
                                    THEN "lost" ELSE answer[w]]
  /\ UNCHANGED <<status, result>>

\* The caller closes before anybody listened: nobody is told.
Drop ==
  /\ phase = "unheard"
  /\ phase' = "dropped"
  /\ UNCHANGED <<status, answer, result>>

Leave(w) ==
  /\ status[w] = "asked"
  /\ status' = [status EXCEPT ![w] = "leaving"]
  /\ UNCHANGED <<phase, answer, result>>

End(w) ==
  \/ /\ status[w] = "asked"
     /\ \/ answer[w] # "none" /\ EndWith(w, answer[w])
        \/ EndWith(w, "oserror")
  \/ /\ status[w] = "leaving"
     /\ \E r \in {"timeout", "cancelled"} : EndWith(w, r)

Next ==
  \/ Listen \/ Answer \/ Stop \/ Lose \/ Drop
  \/ \E w \in Writers : Ask(w) \/ Fail(w) \/ Leave(w) \/ End(w)

Spec == Init /\ [][Next]_vars
=============================================================================
