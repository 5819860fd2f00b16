---------------------------- MODULE RecordStore ----------------------------
(***************************************************************************)
(* What the kernel promises its callers: a store of records and a ledger.   *)
(* An operation takes effect at once on all its records, and decides by the *)
(* records themselves, never by an index.  Its event follows before the     *)
(* next operation, unless the process dies first: then there is no event,   *)
(* and of the batch those records may fall back to what they were that were *)
(* not settled yet, but never the one the operation retires.                *)
(***************************************************************************)
EXTENDS KernelRecords

VARIABLES
  store,   \* the records
  ledger,  \* the operations whose event is in the ledger
  owed,    \* the operation that has taken effect and not logged its event
  undo     \* what the records that are not settled yet fall back to

svars == << store, ledger, owed, undo >>

Init ==
  /\ store  = [ f \in Ids |-> Absent ]
  /\ ledger = {}
  /\ owed   = None
  /\ undo   = Nothing

\* Operations are numbered in the order they take effect.
Later(o) == (\A f \in Ids : store[f].by < o) /\ (\A e \in ledger : e < o)

\* The record that an operation retires, or its only one, is settled first.
Leads(b, f) == b[f].status \in { "superseded", "cancelled" } \/ Files(b) = {f}

Unsettled(b) == [ f \in Ids |-> IF f \in Files(b) /\ ~Leads(b, f) THEN store[f] ELSE None ]

Commit(o, b) ==
  /\ owed = None
  /\ Later(o)
  /\ store' = Over(b, store)
  /\ undo' = Unsettled(b)
  /\ owed' = o
  /\ UNCHANGED ledger

New(o, i, d) ==
  /\ store[i].status = "absent"
  /\ d = None \/ store[d].status # "absent"
  /\ Commit(o, NewBatch(i, d, o))

Resolve(o, i) ==
  /\ store[i].status = "open"
  /\ Commit(o, ResolveBatch(store, i, o))

Supersede(o, i, j) ==
  /\ store[i].status \notin { "absent", "superseded" }
  /\ store[j].status = "absent"
  /\ Commit(o, SupersedeBatch(store, i, j, o))

\* All its direct dependents go stale with it.
Cancel(o, i) ==
  /\ store[i].status \in { "open", "resolved", "stale" }
  /\ LET D == { d \in Ids : store[d].depends_on = i /\ Cascades(store[d]) }
     IN  Commit(o, CancelBatch(store, i, D, o))

\* A rebuild of the indexes changes no record.
Claim(o) == Commit(o, Nothing)

Settle(f) ==
  /\ undo[f] # None
  /\ undo' = [ undo EXCEPT ![f] = None ]
  /\ UNCHANGED << store, ledger, owed >>

Log ==
  /\ owed # None
  /\ undo = Nothing
  /\ ledger' = ledger \cup {owed}
  /\ owed' = None
  /\ UNCHANGED << store, undo >>

\* The process dies between its commit and its event.
Die ==
  /\ owed # None
  /\ store' = Over(undo, store)
  /\ undo' = Nothing
  /\ owed' = None
  /\ UNCHANGED ledger

Next ==
  \/ \E o \in 1 .. MaxOps :
       \/ \E i \in Ids, d \in Ids \cup {None} : New(o, i, d)
       \/ \E i \in Ids : Resolve(o, i)
       \/ \E i, j \in Ids : Supersede(o, i, j)
       \/ \E i \in Ids : Cancel(o, i)
       \/ Claim(o)
  \/ \E f \in Ids : Settle(f)
  \/ Log
  \/ Die

Spec == Init /\ [][Next]_svars
=============================================================================
