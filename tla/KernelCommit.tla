---------------------------- MODULE KernelCommit ----------------------------
(***************************************************************************)
(* One process of the kernel and its disk: how an operation decides by the  *)
(* indexes, writes its batch of record files, logs its event and rewrites   *)
(* the indexes, and what a crash between any two of these steps leaves      *)
(* behind (src/src/eightos/_atomic.py, _indexes.py, sdk/ir_ops.py,          *)
(* sdk/reindex_op.py).                                                      *)
(*                                                                         *)
(* The repository admits one writer at a time.  Staging writes temporary    *)
(* files that nothing reads, so the first step anybody can see is the first *)
(* rename.  Of the fifteen indexes, id-to-path and deps-reverse stand for   *)
(* themselves, in the order they are written.                               *)
(***************************************************************************)
EXTENDS KernelRecords

CONSTANTS
  Discipline  \* TRUE: a crash is followed by kernel.reindex before all else

Phases == { "idle", "staged", "rename", "log", "ids", "deps" }

ASSUME DisciplineAssumption == Discipline \in BOOLEAN

VARIABLES
  disk,     \* the record files
  ledger,   \* the operations whose event is in the ledger
  idPath,   \* id-to-path.yml
  depsRev,  \* deps-reverse.yml: pairs of a dependent and what it depends on
  pc,       \* phase of the process
  op,       \* number of the operation begun last
  todo,     \* the files it has still to rename
  wrote,    \* of every operation, the files of its batch
  acked,    \* the operations that returned
  crashed   \* a crash came after the last complete write_all

vars == << disk, ledger, idPath, depsRev, pc, op, todo, wrote, acked, crashed >>

TypeOK ==
  /\ disk    \in [ Ids -> Rec ]
  /\ ledger  \subseteq 1 .. MaxOps
  /\ idPath  \subseteq Ids
  /\ depsRev \subseteq Ids \X Ids
  /\ pc      \in Phases
  /\ op      \in 0 .. MaxOps
  /\ todo    \in Batch
  /\ wrote   \in [ 1 .. MaxOps -> SUBSET Ids ]
  /\ acked   \subseteq 1 .. MaxOps
  /\ crashed \in BOOLEAN

Init ==
  /\ disk    = [ f \in Ids |-> Absent ]
  /\ ledger  = {}
  /\ idPath  = {}
  /\ depsRev = {}
  /\ pc      = "idle"
  /\ op      = 0
  /\ todo    = Nothing
  /\ wrote   = [ o \in 1 .. MaxOps |-> {} ]
  /\ acked   = {}
  /\ crashed = FALSE

-----------------------------------------------------------------------------
(* compute_all *)
OnDisk == { f \in Ids : disk[f].status # "absent" }

WithForward ==                                       \* mutant of IdsOf
  OnDisk \cup { disk[f].superseded_by : f \in { g \in OnDisk : disk[g].superseded_by # None } }

IdsOf == OnDisk

LiveDeps ==                                          \* mutant of DepsOf
  { p \in OnDisk \X Ids : disk[p[1]].depends_on = p[2] /\ disk[p[1]].status = "open" }

DepsOf == { p \in OnDisk \X Ids : disk[p[1]].depends_on = p[2] }

-----------------------------------------------------------------------------
(* The handlers: checks, and the batch they stage *)
Begin(b) ==
  /\ pc = "idle"
  /\ crashed => ~Discipline
  /\ op < MaxOps
  /\ op' = op + 1
  /\ todo' = b
  /\ wrote' = [ wrote EXCEPT ![op + 1] = Files(b) ]
  /\ pc' = "staged"
  /\ UNCHANGED << disk, ledger, idPath, depsRev, acked, crashed >>

\* The id must be in no index and the path free; the dependency in the index.
New(i, d) ==
  /\ i \notin idPath /\ disk[i].status = "absent"
  /\ d \in idPath \cup {None}
  /\ Begin(NewBatch(i, d, op + 1))

Resolvable(r) == r.status = "open"

Resolve(i) ==
  /\ i \in idPath /\ Resolvable(disk[i])
  /\ Begin(ResolveBatch(disk, i, op + 1))

\* The id of the successor is free in the index; its path is not looked at.
Supersede(i, j) ==
  /\ i \in idPath /\ disk[i].status # "superseded"
  /\ j \notin idPath
  /\ Begin(SupersedeBatch(disk, i, j, op + 1))

\* With its default, cascade: true.
Cancel(i) ==
  /\ i \in idPath /\ disk[i].status \notin { "cancelled", "superseded" }
  /\ LET D == { d \in idPath : << d, i >> \in depsRev /\ Cascades(disk[d]) }
     IN  Begin(CancelBatch(disk, i, D, op + 1))

\* kernel.reindex in rebuild mode: indexes, event, indexes again.
Rebuild ==
  /\ pc = "idle"
  /\ op < MaxOps
  /\ op' = op + 1
  /\ pc' = "ids"
  /\ UNCHANGED << disk, ledger, idPath, depsRev, todo, wrote, acked, crashed >>

-----------------------------------------------------------------------------
(* commit_staged, append_jsonl_line, write_all *)

OneLeft(b) == \E f \in Ids : Files(b) \subseteq {f}              \* mutant of AllIn

AllIn(b) == Files(b) = {}

\* The target's own file comes first: the only one of the batch that a
\* supersession or a cancellation retires.
AnyFirst(f) == TRUE                                              \* mutant of First

First(f) == todo[f].status \in { "superseded", "cancelled" } \/ Files(todo) = {f}

Rename(f) ==
  /\ pc \in { "staged", "rename" }
  /\ todo[f] # None
  /\ pc = "staged" => First(f)
  /\ disk' = [ disk EXCEPT ![f] = todo[f] ]
  /\ todo' = [ todo EXCEPT ![f] = None ]
  /\ pc' = IF AllIn(todo') THEN "log" ELSE "rename"
  /\ UNCHANGED << ledger, idPath, depsRev, op, wrote, acked, crashed >>

AppendEvent ==
  /\ pc = "log"
  /\ ledger' = ledger \cup {op}
  /\ pc' = "ids"
  /\ UNCHANGED << disk, idPath, depsRev, op, todo, wrote, acked, crashed >>

WriteIds ==
  /\ pc = "ids"
  /\ idPath' = IdsOf
  /\ pc' = "deps"
  /\ UNCHANGED << disk, ledger, depsRev, op, todo, wrote, acked, crashed >>

\* The last index.  A rebuild has still to log its event and come round again.
WriteDeps ==
  /\ pc = "deps"
  /\ depsRev' = DepsOf
  /\ crashed' = FALSE
  /\ IF op \in ledger THEN pc' = "idle" /\ acked' = acked \cup {op}
                      ELSE pc' = "log" /\ UNCHANGED acked
  /\ UNCHANGED << disk, ledger, idPath, op, todo, wrote >>

\* The process ends, or a rename raises: nothing is rolled back.
Crash ==
  /\ pc # "idle"
  /\ pc' = "idle"
  /\ todo' = Nothing
  /\ crashed' = TRUE
  /\ UNCHANGED << disk, ledger, idPath, depsRev, op, wrote, acked >>

Next ==
  \/ \E i \in Ids, d \in Ids \cup {None} : New(i, d)
  \/ \E i \in Ids : Resolve(i)
  \/ \E i, j \in Ids : Supersede(i, j)
  \/ \E i \in Ids : Cancel(i)
  \/ Rebuild
  \/ \E f \in Ids : Rename(f)
  \/ AppendEvent
  \/ WriteIds
  \/ WriteDeps
  \/ Crash

Spec == Init /\ [][Next]_vars

-----------------------------------------------------------------------------
(* Safety *)

\* The ledger never runs ahead of the records: an event is there only when
\* every file of its operation is, in that version or a later one.
LedgerIsTrue ==
  \A o \in ledger : \A f \in wrote[o] : disk[f].by >= o

\* An operation that returned is in the ledger and found its way into the
\* indexes, unless a crash came since.
AckedIsIndexed ==
  /\ acked \subseteq ledger
  /\ pc = "idle" /\ ~crashed =>
       \A f \in Ids : disk[f].status # "absent" =>
         /\ f \in idPath
         /\ disk[f].depends_on # None => << f, disk[f].depends_on >> \in depsRev

\* An index may miss a record after a crash; it never names one that was not
\* committed, nor a dependency that the record does not have.  This is about ids:
\* expand and collapse, which move files, are not among the operations here.
IndexesNeverAhead ==
  /\ \A f \in idPath : disk[f].status # "absent"
  /\ \A p \in depsRev : disk[p[1]].depends_on = p[2]

\* A cancellation that returned has reached every record that depended on it:
\* none is left live from before.
CascadeReachesAll ==
  \A i, d \in Ids :
    /\ disk[i].status = "cancelled" /\ disk[i].by \in acked
    /\ disk[d].depends_on = i /\ disk[d].status \in { "open", "resolved" }
    => disk[d].by > disk[i].by

-----------------------------------------------------------------------------
(* Refinement: as long as an indexes' rebuild follows every crash, the       *)
(* process is a RecordStore.  The batch takes effect with its first rename,  *)
(* and what the others replace is what a crash between them falls back to.   *)
Held == [ f \in Ids |-> IF pc = "rename" /\ todo[f] # None THEN disk[f] ELSE None ]

Store == INSTANCE RecordStore WITH
  store <- IF pc = "rename" THEN Over(todo, disk) ELSE disk,
  owed  <- IF pc \in { "rename", "log" } THEN op ELSE None,
  undo  <- Held

ImplementsStore == Store!Spec
=============================================================================
