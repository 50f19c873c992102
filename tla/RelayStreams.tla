----------------------------- MODULE RelayStreams -----------------------------
(***************************************************************************)
(* What a proxied session promises: what a peer writes is passed on whole  *)
(* and in order, and the session ends only after one peer stopped writing  *)
(* and everything it wrote was passed on.  The other stream is promised    *)
(* nothing at the end: a session has one life, not one for each direction. *)
(*                                                                         *)
(* ProxyRelay implements this specification (StreamSpec there) when its    *)
(* handlers raise no exception and select() does not fail.                 *)
(***************************************************************************)
EXTENDS Naturals, Sequences

CONSTANTS
  Streams      \* one for each peer: what it writes to the other

VARIABLES
  written,     \* written[s]: how many units were written
  passed,      \* passed[s]: the units passed on to the reader, in order
  finished,    \* the streams that will not be written to any more
  cut,         \* the streams whose reader is gone
  over         \* the session has ended

streamVars == <<written, passed, finished, cut, over>>

Init ==
  /\ written = [s \in Streams |-> 0]
  /\ passed = [s \in Streams |-> <<>>]
  /\ finished = {}
  /\ cut = {}
  /\ over = FALSE

Write(s) ==
  /\ s \notin finished
  /\ written' = [written EXCEPT ![s] = @ + 1]
  /\ UNCHANGED <<passed, finished, cut, over>>

Finish(s) ==
  /\ finished' = finished \cup {s}
  /\ UNCHANGED <<written, passed, cut, over>>

(* A peer goes away: it finishes stream s and no longer reads stream r. *)
Leave(s, r) ==
  /\ s # r
  /\ finished' = finished \cup {s}
  /\ cut' = cut \cup {r}
  /\ UNCHANGED <<written, passed, over>>

(* The next unit of s, and no other, is passed on. *)
Pass(s) ==
  LET next == Len(passed[s]) + 1 IN
  /\ ~over
  /\ s \notin cut
  /\ next <= written[s]
  /\ passed' = [passed EXCEPT ![s] = Append(@, next)]
  /\ UNCHANGED <<written, finished, cut, over>>

End ==
  /\ \E s \in finished : Len(passed[s]) = written[s] \/ s \in cut
  /\ over' = TRUE
  /\ UNCHANGED <<written, passed, finished, cut>>

Next ==
  \/ \E s \in Streams : Write(s) \/ Finish(s) \/ Pass(s)
  \/ \E s, r \in Streams : Leave(s, r)
  \/ End

Spec == Init /\ [][Next]_streamVars
===============================================================================
