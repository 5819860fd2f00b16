--------------------------- MODULE KernelRecords ---------------------------
(***************************************************************************)
(* The record files a kernel operation writes, as KernelCommit stages them  *)
(* one by one and RecordStore commits them at once.  RecordGraph models     *)
(* their frontmatter in full; here a record keeps what decides whether a    *)
(* batch of files belongs together: its status, the pointer a supersession  *)
(* writes, one dependency, and the operation that wrote it last.            *)
(***************************************************************************)
EXTENDS Naturals

CONSTANTS
  Ids,      \* ids of records; one file each
  MaxOps,   \* bound: operations begun
  None

ASSUME OpsAssumption  == MaxOps \in Nat
ASSUME NoneAssumption == None \notin Ids \cup 0 .. MaxOps

Statuses == { "absent", "open", "resolved", "stale", "superseded", "cancelled" }

Rec == [ status : Statuses, superseded_by : Ids \cup {None},
         depends_on : Ids \cup {None}, by : 0 .. MaxOps ]

Version(s, p, d, o) == [ status |-> s, superseded_by |-> p, depends_on |-> d, by |-> o ]

Absent == Version("absent", None, None, 0)

ASSUME NoRecAssumption == None \notin Rec

\* A batch gives the new content of the files it writes and None for the others.
Batch == [ Ids -> Rec \cup {None} ]

Nothing == [ f \in Ids |-> None ]

Files(b) == { f \in Ids : b[f] # None }

Over(b, store) == [ f \in Ids |-> IF b[f] = None THEN store[f] ELSE b[f] ]

Fresh(d, o) == Version("open", None, d, o)

Marked(r, s, o) == Version(s, r.superseded_by, r.depends_on, o)

NewBatch(i, d, o) == [ f \in Ids |-> IF f = i THEN Fresh(d, o) ELSE None ]

ResolveBatch(store, i, o) ==
  [ f \in Ids |-> IF f = i THEN Marked(store[i], "resolved", o) ELSE None ]

\* The successor copies the frontmatter of the record it replaces.
SupersedeBatch(store, i, j, o) ==
  [ f \in Ids |-> CASE f = i -> Version("superseded", j, store[i].depends_on, o)
                    [] f = j -> Fresh(store[i].depends_on, o)
                    [] OTHER -> None ]

CancelBatch(store, i, dependents, o) ==
  [ f \in Ids |-> CASE f = i -> Marked(store[i], "cancelled", o)
                    [] f \in dependents \ {i} -> Marked(store[f], "stale", o)
                    [] OTHER -> None ]

\* The dependents a cancellation turns stale.
OpenOnly(r) == r.status = "open"                     \* mutant of Cascades

Cascades(r) == r.status \notin { "absent", "stale", "cancelled" }
=============================================================================
