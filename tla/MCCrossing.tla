----------------------------- MODULE MCCrossing -----------------------------
(* Small instances of Crossing for TLC: an expiring outside call whose        *)
(* payload is kept, a lasting one, an inbound one, and crossings of bridges.  *)
EXTENDS Crossing

CONSTANTS payload

Http == [ op |-> "http", payload |-> payload, expires_at |-> None, keep |-> FALSE,
          outbound |-> TRUE, remote |-> TRUE ]

Cross == [ Http EXCEPT !.op = "bridge" ]

MCRequests ==
  { Http, [ Http EXCEPT !.keep = TRUE, !.expires_at = 1 ], [ Http EXCEPT !.outbound = FALSE ],
    Cross, [ Cross EXCEPT !.payload = None, !.remote = FALSE ] }

\* A stamp as the clock writes them; one with an offset that reads late, and one that
\* reads early; and words, which sort after every instant.
Canonical(t) == [ means |-> t, reads |-> t ]

MCStamps ==
  { Canonical(1), [ means |-> 0, reads |-> 2 ], [ means |-> 2, reads |-> 0 ],
    [ means |-> None, reads |-> MaxTime + 1 ] }

\* Crossings and authorizations share the clock only: it is enough to let one of
\* the two stand still.
OneSide == (\A a \in Attempts : ask[a] = None) \/ (Filed = {} /\ gate = None)
=============================================================================
