------------------------- MODULE KernelCommitProofs -------------------------
(* Theorems of KernelCommit, for any number of records and operations.      *)
EXTENDS KernelCommit, TLAPS

\* Operation numbers: what is on disk and in the ledger is no later than the
\* operation begun last, and a batch is stamped with its operation.
Stamped ==
  /\ \A f \in Ids : disk[f].by <= op
  /\ ledger \subseteq 1 .. op
  /\ \A f \in Ids : todo[f] # None => todo[f].by = op /\ todo[f].status # "absent"
  /\ pc # "idle" => op \in 1 .. MaxOps

\* Until an operation commits its first file or announces a rebuild, nothing
\* carries its number.
Unseen ==
  pc = "staged" \/ (pc \in { "ids", "deps" } /\ op \notin ledger) =>
    \A f \in Ids : disk[f].by < op

\* What is left to rename, and when the event may be written.
Pending ==
  /\ pc \in { "idle", "log", "ids", "deps" } => todo = Nothing
  /\ pc \in { "staged", "rename", "log" } => op \notin ledger
  /\ pc # "idle" => \A f \in wrote[op] : todo[f] # None \/ disk[f].by = op
  /\ \A o \in 1 .. MaxOps : o > op => wrote[o] = {}

\* deps-reverse never runs ahead of id-to-path, and no batch changes a
\* dependency that is indexed.
Indexed ==
  /\ \A p \in depsRev : p[1] \in idPath
  /\ pc = "deps" => OnDisk \subseteq idPath
  /\ \A f \in idPath : todo[f] # None => todo[f].depends_on = disk[f].depends_on

\* The inductive invariant that holds whatever crashes.
KInv == TypeOK /\ Stamped /\ Unseen /\ Pending /\ Indexed
          /\ LedgerIsTrue /\ AckedIsIndexed /\ IndexesNeverAhead

-----------------------------------------------------------------------------
\* With the indexes rebuilt after every crash, the batch of an operation is
\* the one the records themselves call for.
Legal ==
  \/ \E i \in Ids, d \in Ids \cup {None} :
       /\ disk[i].status = "absent"
       /\ d = None \/ disk[d].status # "absent"
       /\ todo = NewBatch(i, d, op)
  \/ \E i \in Ids : disk[i].status = "open" /\ todo = ResolveBatch(disk, i, op)
  \/ \E i, j \in Ids :
       /\ disk[i].status \notin { "absent", "superseded" }
       /\ disk[j].status = "absent"
       /\ todo = SupersedeBatch(disk, i, j, op)
  \/ \E i \in Ids :
       /\ disk[i].status \in { "open", "resolved", "stale" }
       /\ todo = CancelBatch(disk, i, { d \in Ids : disk[d].depends_on = i /\ Cascades(disk[d]) }, op)

StagedLegal == pc = "staged" => Legal

\* While a cancellation is in flight, every live dependent is in its batch and
\* the batch holds nothing but stale versions; the retired record came first.
Cancelling ==
  /\ \A i \in Ids :
       pc # "idle" /\ disk[i].status = "cancelled" /\ disk[i].by = op =>
         /\ \A f \in Ids : todo[f] # None => todo[f].status = "stale"
         /\ \A d \in Ids : disk[d].depends_on = i /\ disk[d].status \in { "open", "resolved" } =>
                             todo[d] # None
  /\ pc = "rename" => \A f \in Ids : todo[f] # None => todo[f].status # "cancelled"

\* The inductive invariant under the discipline.
DInv == KInv /\ StagedLegal /\ Cancelling /\ CascadeReachesAll

-----------------------------------------------------------------------------
LEMMA RecFields ==
  ASSUME NEW r \in Rec
  PROVE  /\ r.status \in Statuses /\ r.superseded_by \in Ids \cup {None}
         /\ r.depends_on \in Ids \cup {None} /\ r.by \in 0 .. MaxOps /\ r.by \in Nat
  BY OpsAssumption DEF Rec

LEMMA StatusNames ==
  Statuses = { "absent", "open", "resolved", "stale", "superseded", "cancelled" }
  BY DEF Statuses

LEMMA VersionFields ==
  ASSUME NEW s, NEW p, NEW d, NEW o
  PROVE  /\ Version(s, p, d, o).status = s
         /\ Version(s, p, d, o).superseded_by = p
         /\ Version(s, p, d, o).depends_on = d
         /\ Version(s, p, d, o).by = o
  BY DEF Version

LEMMA VersionType ==
  ASSUME NEW s \in Statuses, NEW p \in Ids \cup {None}, NEW d \in Ids \cup {None},
         NEW o \in 0 .. MaxOps
  PROVE  Version(s, p, d, o) \in Rec /\ Version(s, p, d, o) # None
  BY NoRecAssumption DEF Version, Rec

\* What begins an operation keeps: its batch is new, stamped, and changes no
\* indexed dependency.
LEMMA BeginKInv ==
  ASSUME KInv, NEW b \in Batch, Begin(b),
         \A f \in Ids : b[f] # None => b[f].by = op + 1 /\ b[f].status # "absent",
         \A f \in idPath : b[f] # None => b[f].depends_on = disk[f].depends_on
  PROVE  KInv'
  <1>1. op \in Nat /\ op + 1 \in 1 .. MaxOps /\ op' = op + 1 /\ pc' = "staged" /\ todo' = b
    BY OpsAssumption DEF KInv, TypeOK, Begin
  <1>2. UNCHANGED << disk, ledger, idPath, depsRev, acked, crashed >>
    BY DEF Begin
  <1>3. wrote' = [ wrote EXCEPT ![op + 1] = Files(b) ]
    BY DEF Begin
  <1>4. Files(b) \subseteq Ids
    BY DEF Files
  <1>5. TypeOK'
    BY <1>1, <1>2, <1>3, <1>4 DEF KInv, TypeOK, Phases
  <1>6. \A f \in Ids : disk[f].by \in Nat
    BY RecFields DEF KInv, TypeOK
  <1>7. Stamped'
    BY <1>1, <1>2, <1>6 DEF KInv, Stamped
  <1>8. Unseen'
    BY <1>1, <1>2, <1>6 DEF KInv, Stamped, Unseen
  <1>9. op + 1 \notin ledger
    BY <1>1 DEF KInv, Stamped
  <1>10. Pending'
    <2>1. \A f \in wrote'[op'] : todo'[f] # None
      BY <1>1, <1>3 DEF KInv, TypeOK, Files
    <2>2. \A o \in 1 .. MaxOps : o > op' => wrote'[o] = {}
      BY <1>1, <1>3 DEF KInv, TypeOK, Pending
    <2> QED BY <1>1, <1>2, <1>9, <2>1, <2>2 DEF Pending
  <1>11. Indexed' /\ IndexesNeverAhead'
    BY <1>1, <1>2 DEF KInv, Indexed, IndexesNeverAhead, OnDisk
  <1>12. LedgerIsTrue'
    BY <1>1, <1>2, <1>3, <1>9 DEF KInv, TypeOK, LedgerIsTrue
  <1>13. AckedIsIndexed'
    BY <1>1, <1>2 DEF KInv, AckedIsIndexed
  <1> QED BY <1>5, <1>7, <1>8, <1>10, <1>11, <1>12, <1>13 DEF KInv

\* The four batches satisfy what BeginKInv asks for.
LEMMA NewKInv ==
  ASSUME KInv, NEW i \in Ids, NEW d \in Ids \cup {None}, New(i, d)
  PROVE  KInv'
  <1>1. op + 1 \in 0 .. MaxOps
    BY OpsAssumption DEF KInv, TypeOK, New, Begin
  <1>2. Fresh(d, op + 1) \in Rec /\ Fresh(d, op + 1).by = op + 1 /\ Fresh(d, op + 1).status = "open"
    <2>1. "open" \in Statuses
      BY DEF Statuses
    <2>2. None \in Ids \cup {None}
      OBVIOUS
    <2> QED BY <1>1, <2>1, <2>2, VersionType, VersionFields DEF Fresh
  <1>3. NewBatch(i, d, op + 1) \in Batch
    BY <1>2 DEF NewBatch, Batch
  <1> QED BY <1>2, <1>3, BeginKInv DEF New, NewBatch, KInv, TypeOK

LEMMA MarkedType ==
  ASSUME NEW r \in Rec, NEW s \in Statuses, NEW o \in 0 .. MaxOps
  PROVE  /\ Marked(r, s, o) \in Rec
         /\ Marked(r, s, o).by = o /\ Marked(r, s, o).status = s
         /\ Marked(r, s, o).depends_on = r.depends_on
  <1>1. r.superseded_by \in Ids \cup {None} /\ r.depends_on \in Ids \cup {None}
    BY DEF Rec
  <1> QED BY <1>1, VersionType, VersionFields DEF Marked

LEMMA ResolveKInv ==
  ASSUME KInv, NEW i \in Ids, Resolve(i)
  PROVE  KInv'
  <1>1. op + 1 \in 0 .. MaxOps /\ disk[i] \in Rec
    BY OpsAssumption DEF KInv, TypeOK, Resolve, Begin
  <1> DEFINE m == Marked(disk[i], "resolved", op + 1)
  <1>2. m \in Rec /\ m.by = op + 1 /\ m.status = "resolved" /\ m.depends_on = disk[i].depends_on
    <2>1. "resolved" \in Statuses
      BY DEF Statuses
    <2> QED BY <1>1, <2>1, MarkedType
  <1>3. ResolveBatch(disk, i, op + 1) = [ f \in Ids |-> IF f = i THEN m ELSE None ]
    BY DEF ResolveBatch
  <1> HIDE DEF m
  <1>4. ResolveBatch(disk, i, op + 1) \in Batch
    BY <1>2, <1>3 DEF Batch
  <1> QED BY <1>2, <1>3, <1>4, BeginKInv DEF Resolve, KInv, TypeOK

LEMMA SupersedeKInv ==
  ASSUME KInv, NEW i \in Ids, NEW j \in Ids, Supersede(i, j)
  PROVE  KInv'
  <1>1. op + 1 \in 0 .. MaxOps /\ disk[i] \in Rec /\ disk[i].depends_on \in Ids \cup {None}
    BY OpsAssumption, RecFields DEF KInv, TypeOK, Supersede, Begin
  <1> DEFINE old == Version("superseded", j, disk[i].depends_on, op + 1)
             new == Fresh(disk[i].depends_on, op + 1)
  <1>2. /\ old \in Rec /\ old.by = op + 1 /\ old.status = "superseded"
        /\ old.depends_on = disk[i].depends_on
    <2>1. "superseded" \in Statuses
      BY DEF Statuses
    <2> QED BY <1>1, <2>1, VersionType, VersionFields
  <1>3. new \in Rec /\ new.by = op + 1 /\ new.status = "open"
    <2>1. "open" \in Statuses
      BY DEF Statuses
    <2>2. None \in Ids \cup {None}
      OBVIOUS
    <2> QED BY <1>1, <2>1, <2>2, VersionType, VersionFields DEF Fresh
  <1>4. SupersedeBatch(disk, i, j, op + 1) =
          [ f \in Ids |-> CASE f = i -> old [] f = j -> new [] OTHER -> None ]
    BY DEF SupersedeBatch
  <1> HIDE DEF old, new
  <1>5. SupersedeBatch(disk, i, j, op + 1) \in Batch
    BY <1>2, <1>3, <1>4 DEF Batch
  <1>6. j \notin idPath /\ idPath \subseteq Ids
    BY DEF Supersede, KInv, TypeOK
  <1> QED BY <1>2, <1>3, <1>4, <1>5, <1>6, BeginKInv DEF Supersede

\* The batch of a cancellation: one cancelled version, and stale ones.
CancelShape(b, i, D, o) ==
  /\ b \in Batch
  /\ \A f \in Ids : b[f] # None =>
       /\ f = i \/ f \in D
       /\ b[f].by = o
       /\ b[f].depends_on = disk[f].depends_on
       /\ b[f].status = IF f = i THEN "cancelled" ELSE "stale"
  /\ \A f \in D \cup {i} : b[f] # None

LEMMA CancelBatchShape ==
  ASSUME disk \in [ Ids -> Rec ], NEW i \in Ids, NEW D \in SUBSET Ids, NEW o \in 0 .. MaxOps
  PROVE  CancelShape(CancelBatch(disk, i, D, o), i, D, o)
  <1> DEFINE can(f) == Marked(disk[f], "cancelled", o)
             sta(f) == Marked(disk[f], "stale", o)
  <1>1. \A f \in Ids : /\ can(f) \in Rec /\ can(f).by = o /\ can(f).status = "cancelled"
                       /\ can(f).depends_on = disk[f].depends_on
                       /\ sta(f) \in Rec /\ sta(f).by = o /\ sta(f).status = "stale"
                       /\ sta(f).depends_on = disk[f].depends_on
    BY MarkedType DEF Statuses
  <1>2. CancelBatch(disk, i, D, o) =
          [ f \in Ids |-> CASE f = i -> can(i) [] f \in D \ {i} -> sta(f) [] OTHER -> None ]
    BY DEF CancelBatch
  <1> HIDE DEF can, sta
  <1>3. CancelBatch(disk, i, D, o) \in Batch
    BY <1>1, <1>2 DEF Batch
  <1> QED BY <1>1, <1>2, <1>3, NoRecAssumption DEF CancelShape

LEMMA CancelKInv ==
  ASSUME KInv, NEW i \in Ids, Cancel(i)
  PROVE  KInv'
  <1> DEFINE D == { d \in idPath : << d, i >> \in depsRev /\ Cascades(disk[d]) }
             b == CancelBatch(disk, i, D, op + 1)
  <1>1. op + 1 \in 0 .. MaxOps /\ disk \in [ Ids -> Rec ] /\ D \in SUBSET Ids
    BY OpsAssumption DEF KInv, TypeOK, Cancel, Begin
  <1>2. Begin(b)
    BY DEF Cancel
  <1> HIDE DEF D
  <1>3. CancelShape(b, i, D, op + 1)
    BY <1>1, CancelBatchShape
  <1>4. idPath \subseteq Ids
    BY DEF KInv, TypeOK
  <1> HIDE DEF b
  <1> QED BY <1>2, <1>3, <1>4, BeginKInv DEF CancelShape

-----------------------------------------------------------------------------
LEMMA InitKInv == Init => KInv
  <1> SUFFICES ASSUME Init PROVE KInv
    OBVIOUS
  <1>1. Absent \in Rec /\ Absent.by = 0 /\ Absent.status = "absent"
    <2>1. "absent" \in Statuses /\ None \in Ids \cup {None} /\ 0 \in 0 .. MaxOps
      BY OpsAssumption DEF Statuses
    <2> QED BY <2>1, VersionType, VersionFields DEF Absent
  <1>2. TypeOK
    <2>1. disk \in [ Ids -> Rec ] /\ todo \in Batch
      BY <1>1 DEF Init, Batch, Nothing
    <2>2. wrote \in [ 1 .. MaxOps -> SUBSET Ids ] /\ op \in 0 .. MaxOps /\ pc \in Phases
      BY OpsAssumption DEF Init, Phases
    <2> QED BY <2>1, <2>2 DEF Init, TypeOK
  <1>3. Stamped /\ Unseen
    BY <1>1 DEF Init, Stamped, Unseen, Nothing
  <1>4. Pending /\ Indexed
    BY DEF Init, Pending, Indexed, Nothing
  <1>5. LedgerIsTrue /\ AckedIsIndexed /\ IndexesNeverAhead
    BY <1>1 DEF Init, LedgerIsTrue, AckedIsIndexed, IndexesNeverAhead
  <1> QED BY <1>2, <1>3, <1>4, <1>5 DEF KInv

LEMMA RebuildKInv ==
  ASSUME KInv, Rebuild
  PROVE  KInv'
  <1>1. op \in Nat /\ op + 1 \in 1 .. MaxOps /\ op' = op + 1 /\ pc = "idle" /\ pc' = "ids"
    BY OpsAssumption DEF KInv, TypeOK, Rebuild
  <1>2. UNCHANGED << disk, ledger, idPath, depsRev, todo, wrote, acked, crashed >>
    BY DEF Rebuild
  <1>3. \A f \in Ids : disk[f].by \in Nat
    BY RecFields DEF KInv, TypeOK
  <1>4. TypeOK'
    BY <1>1, <1>2 DEF KInv, TypeOK, Phases
  <1>5. todo = Nothing
    BY <1>1 DEF KInv, Pending
  <1>6. Stamped' /\ Unseen'
    BY <1>1, <1>2, <1>3, <1>5 DEF KInv, Stamped, Unseen, Nothing
  <1>7. Pending'
    BY <1>1, <1>2, <1>5 DEF KInv, Pending
  <1>8. Indexed' /\ IndexesNeverAhead'
    BY <1>1, <1>2 DEF KInv, Indexed, IndexesNeverAhead
  <1>9. LedgerIsTrue' /\ AckedIsIndexed'
    BY <1>1, <1>2 DEF KInv, LedgerIsTrue, AckedIsIndexed
  <1> QED BY <1>4, <1>6, <1>7, <1>8, <1>9 DEF KInv

LEMMA RenameKInv ==
  ASSUME KInv, NEW f \in Ids, Rename(f)
  PROVE  KInv'
  <1>1. /\ pc \in { "staged", "rename" } /\ todo[f] # None /\ pc' \in { "log", "rename" }
        /\ disk' = [ disk EXCEPT ![f] = todo[f] ] /\ todo' = [ todo EXCEPT ![f] = None ]
        /\ pc' = "log" => Files(todo') = {}
    BY DEF Rename, AllIn
  <1>2. UNCHANGED << ledger, idPath, depsRev, op, wrote, acked, crashed >>
    BY DEF Rename
  <1>3. disk \in [ Ids -> Rec ] /\ todo \in [ Ids -> Rec \cup {None} ] /\ todo[f] \in Rec
    BY <1>1 DEF KInv, TypeOK, Batch
  <1>4. /\ disk' \in [ Ids -> Rec ] /\ todo' \in [ Ids -> Rec \cup {None} ]
        /\ disk'[f] = todo[f] /\ todo'[f] = None
        /\ \A g \in Ids \ {f} : disk'[g] = disk[g] /\ todo'[g] = todo[g]
    BY <1>1, <1>3
  <1>5. todo[f].by = op /\ todo[f].status # "absent" /\ op \in 1 .. MaxOps /\ op \notin ledger
    BY <1>1 DEF KInv, Stamped, Pending
  <1>6. \A g \in Ids : disk[g].by \in Nat /\ disk[g].by <= op
    BY <1>3, RecFields DEF KInv, Stamped
  <1>7. TypeOK'
    BY <1>1, <1>2, <1>4 DEF KInv, TypeOK, Phases, Batch
  <1>8. Stamped' /\ Unseen'
    BY <1>1, <1>2, <1>4, <1>5, <1>6 DEF KInv, Stamped, Unseen
  <1>9. Pending'
    <2>1. pc' = "log" => todo' = Nothing
      BY <1>1, <1>4 DEF Files, Nothing
    <2>2. wrote[op] \subseteq Ids
      BY <1>5 DEF KInv, TypeOK
    <2>3. \A g \in wrote[op] : todo[g] # None \/ disk[g].by = op
      BY <1>1 DEF KInv, Pending
    <2>4. \A g \in wrote[op] : todo'[g] # None \/ disk'[g].by = op
      BY <1>4, <1>5, <2>2, <2>3
    <2> QED BY <1>1, <1>2, <1>5, <2>1, <2>4 DEF KInv, Pending
  <1>10. Indexed' /\ IndexesNeverAhead'
    <2>1. idPath \subseteq Ids /\ \A p \in depsRev : p[1] \in idPath
      BY DEF KInv, TypeOK, Indexed
    <2>2. \A g \in idPath : disk'[g].depends_on = disk[g].depends_on
      BY <1>1, <1>4, <2>1 DEF KInv, Indexed
    <2>3. \A g \in idPath : disk'[g].status # "absent"
      BY <1>4, <1>5, <2>1 DEF KInv, IndexesNeverAhead
    <2>4. Indexed'
      BY <1>1, <1>2, <1>4, <2>1, <2>2 DEF KInv, Indexed
    <2> QED BY <1>2, <2>1, <2>2, <2>3, <2>4 DEF KInv, IndexesNeverAhead
  <1>11. LedgerIsTrue'
    <2>1. \A o \in ledger : o <= op /\ o \in 1 .. MaxOps
      BY <1>5 DEF KInv, Stamped, TypeOK
    <2>2. \A o \in ledger : wrote[o] \subseteq Ids
      BY <2>1 DEF KInv, TypeOK
    <2> QED BY <1>2, <1>4, <1>5, <2>1, <2>2 DEF KInv, LedgerIsTrue
  <1>12. AckedIsIndexed'
    BY <1>1, <1>2 DEF KInv, AckedIsIndexed
  <1> QED BY <1>7, <1>8, <1>9, <1>10, <1>11, <1>12 DEF KInv

LEMMA AppendKInv ==
  ASSUME KInv, AppendEvent
  PROVE  KInv'
  <1>1. pc = "log" /\ pc' = "ids" /\ ledger' = ledger \cup {op}
    BY DEF AppendEvent
  <1>2. UNCHANGED << disk, idPath, depsRev, op, todo, wrote, acked, crashed >>
    BY DEF AppendEvent
  <1>3. op \in 1 .. MaxOps /\ todo = Nothing /\ \A f \in wrote[op] : todo[f] # None \/ disk[f].by = op
    BY <1>1 DEF KInv, Stamped, Pending
  <1>4. \A f \in wrote[op] : disk[f].by = op
    BY <1>3 DEF KInv, TypeOK, Nothing
  <1>5. TypeOK'
    BY <1>1, <1>2, <1>3 DEF KInv, TypeOK, Phases
  <1>6. Stamped' /\ Unseen'
    BY <1>1, <1>2, <1>3 DEF KInv, Stamped, Unseen
  <1>7. Pending' /\ Indexed' /\ IndexesNeverAhead'
    BY <1>1, <1>2, <1>3 DEF KInv, Pending, Indexed, IndexesNeverAhead
  <1>8. LedgerIsTrue' /\ AckedIsIndexed'
    BY <1>1, <1>2, <1>3, <1>4 DEF KInv, LedgerIsTrue, AckedIsIndexed
  <1> QED BY <1>5, <1>6, <1>7, <1>8 DEF KInv

LEMMA WriteIdsKInv ==
  ASSUME KInv, WriteIds
  PROVE  KInv'
  <1>1. pc = "ids" /\ pc' = "deps" /\ idPath' = OnDisk
    BY DEF WriteIds, IdsOf
  <1>2. UNCHANGED << disk, ledger, depsRev, op, todo, wrote, acked, crashed >>
    BY DEF WriteIds
  <1>3. OnDisk \subseteq Ids /\ OnDisk' = OnDisk /\ todo = Nothing
    BY <1>1, <1>2 DEF OnDisk, KInv, Pending
  <1>4. TypeOK'
    BY <1>1, <1>2, <1>3 DEF KInv, TypeOK, Phases
  <1>5. Stamped' /\ Unseen' /\ Pending'
    BY <1>1, <1>2 DEF KInv, Stamped, Unseen, Pending
  <1>6. idPath \subseteq OnDisk
    BY DEF KInv, TypeOK, IndexesNeverAhead, OnDisk
  <1>7. Indexed'
    BY <1>1, <1>2, <1>3, <1>6 DEF KInv, Indexed, Nothing
  <1>8. IndexesNeverAhead'
    BY <1>1, <1>2 DEF KInv, IndexesNeverAhead, OnDisk
  <1>9. LedgerIsTrue' /\ AckedIsIndexed'
    BY <1>1, <1>2 DEF KInv, LedgerIsTrue, AckedIsIndexed
  <1> QED BY <1>4, <1>5, <1>7, <1>8, <1>9 DEF KInv

LEMMA WriteDepsKInv ==
  ASSUME KInv, WriteDeps
  PROVE  KInv'
  <1>1. /\ pc = "deps" /\ depsRev' = DepsOf /\ crashed' = FALSE
        /\ UNCHANGED << disk, ledger, idPath, op, todo, wrote >>
    BY DEF WriteDeps
  <1>2. \/ op \in ledger /\ pc' = "idle" /\ acked' = acked \cup {op}
        \/ op \notin ledger /\ pc' = "log" /\ acked' = acked
    BY DEF WriteDeps
  <1>3. op \in 1 .. MaxOps /\ todo = Nothing /\ OnDisk \subseteq idPath
    BY <1>1 DEF KInv, Stamped, Pending, Indexed
  <1>4. DepsOf \subseteq OnDisk \X Ids /\ OnDisk \subseteq Ids
    BY DEF DepsOf, OnDisk
  <1>5. \A p \in DepsOf : p[1] \in OnDisk /\ disk[p[1]].depends_on = p[2]
    BY DEF DepsOf
  <1>6. TypeOK'
    BY <1>1, <1>2, <1>3, <1>4 DEF KInv, TypeOK, Phases
  <1>7. Stamped' /\ Unseen'
    BY <1>1, <1>2 DEF KInv, Stamped, Unseen
  <1>8. Pending'
    BY <1>1, <1>2 DEF KInv, Pending
  <1>9. Indexed' /\ IndexesNeverAhead'
    BY <1>1, <1>2, <1>3, <1>5 DEF KInv, Indexed, IndexesNeverAhead
  <1>10. LedgerIsTrue'
    BY <1>1 DEF KInv, LedgerIsTrue
  <1>11. AckedIsIndexed'
    <2>1. acked' \subseteq ledger'
      BY <1>1, <1>2 DEF KInv, AckedIsIndexed
    <2>2. ASSUME NEW f \in Ids, disk[f].status # "absent"
          PROVE  f \in idPath /\ (disk[f].depends_on # None => << f, disk[f].depends_on >> \in DepsOf)
      <3>1. f \in OnDisk /\ disk[f].depends_on \in Ids \cup {None}
        BY <2>2, RecFields DEF OnDisk, KInv, TypeOK
      <3> QED BY <1>3, <3>1 DEF DepsOf
    <2> QED BY <1>1, <2>1, <2>2 DEF AckedIsIndexed
  <1> QED BY <1>6, <1>7, <1>8, <1>9, <1>10, <1>11 DEF KInv

LEMMA CrashKInv ==
  ASSUME KInv, Crash
  PROVE  KInv'
  <1>1. pc' = "idle" /\ todo' = Nothing /\ crashed' = TRUE
        /\ UNCHANGED << disk, ledger, idPath, depsRev, op, wrote, acked >>
    BY DEF Crash
  <1>2. TypeOK'
    BY <1>1 DEF KInv, TypeOK, Phases, Batch, Nothing
  <1>3. Stamped' /\ Unseen' /\ Pending' /\ Indexed'
    BY <1>1 DEF KInv, Stamped, Unseen, Pending, Indexed, Nothing, TypeOK
  <1>4. LedgerIsTrue' /\ AckedIsIndexed' /\ IndexesNeverAhead'
    BY <1>1 DEF KInv, LedgerIsTrue, AckedIsIndexed, IndexesNeverAhead
  <1> QED BY <1>2, <1>3, <1>4 DEF KInv

LEMMA NextKInv == KInv /\ [Next]_vars => KInv'
  <1> SUFFICES ASSUME KInv, [Next]_vars PROVE KInv'
    OBVIOUS
  <1>1. CASE Next
    BY <1>1, NewKInv, ResolveKInv, SupersedeKInv, CancelKInv, RebuildKInv, RenameKInv,
       AppendKInv, WriteIdsKInv, WriteDepsKInv, CrashKInv DEF Next
  <1>2. CASE UNCHANGED vars
    BY <1>2 DEF vars, KInv, TypeOK, Stamped, Unseen, Pending, Indexed, OnDisk, LedgerIsTrue,
                AckedIsIndexed, IndexesNeverAhead
  <1> QED BY <1>1, <1>2

\* KInv is an invariant of the process, whatever crashes and with or without
\* the discipline.
THEOREM KernelInvariant == Spec => []KInv
  BY InitKInv, NextKInv, PTL DEF Spec

\* Files, ledger and indexes keep their types.
THEOREM KernelTypes == Spec => []TypeOK
  BY KernelInvariant, PTL DEF KInv

\* No event precedes the records it speaks of.
THEOREM LedgerNeverAhead == Spec => []LedgerIsTrue
  BY KernelInvariant, PTL DEF KInv

\* An operation that returned is logged, and the indexes are complete unless a
\* crash came since.
THEOREM AcknowledgedIsIndexed == Spec => []AckedIsIndexed
  BY KernelInvariant, PTL DEF KInv

\* No index names a record or a dependency that is not on disk.
THEOREM IndexesBehindRecords == Spec => []IndexesNeverAhead
  BY KernelInvariant, PTL DEF KInv

-----------------------------------------------------------------------------
\* An idle process that did not crash since the last rebuild has exact indexes.
LEMMA ExactWhenIdle ==
  ASSUME KInv, pc = "idle", ~crashed
  PROVE  idPath = OnDisk /\ depsRev = DepsOf
  <1>1. idPath = OnDisk
    BY DEF KInv, TypeOK, AckedIsIndexed, IndexesNeverAhead, OnDisk
  <1>2. ASSUME NEW p \in depsRev PROVE p \in DepsOf
    BY <1>1, <1>2 DEF KInv, TypeOK, Indexed, IndexesNeverAhead, DepsOf
  <1>3. ASSUME NEW p \in DepsOf PROVE p \in depsRev
    <2>1. p[1] \in OnDisk /\ p[2] \in Ids /\ p = << p[1], p[2] >> /\ disk[p[1]].depends_on = p[2]
      BY <1>3 DEF DepsOf
    <2>2. p[1] \in Ids /\ disk[p[1]].status # "absent" /\ p[2] # None
      BY <2>1, NoneAssumption DEF OnDisk
    <2> QED BY <2>1, <2>2 DEF KInv, AckedIsIndexed
  <1> QED BY <1>1, <1>2, <1>3

\* The checks of a handler against exact indexes are checks against the records.
LEMMA BeginLegal ==
  ASSUME KInv, Discipline,
         \/ \E i \in Ids, d \in Ids \cup {None} : New(i, d)
         \/ \E i \in Ids : Resolve(i)
         \/ \E i, j \in Ids : Supersede(i, j)
         \/ \E i \in Ids : Cancel(i)
  PROVE  Legal'
  <1>1. pc = "idle" /\ ~crashed /\ disk' = disk /\ op' = op + 1
    BY DEF New, Resolve, Supersede, Cancel, Begin
  <1>2. idPath = OnDisk /\ depsRev = DepsOf
    BY <1>1, ExactWhenIdle
  <1>3. CASE \E i \in Ids, d \in Ids \cup {None} : New(i, d)
    BY <1>1, <1>2, <1>3 DEF New, Begin, Legal, OnDisk
  <1>4. CASE \E i \in Ids : Resolve(i)
    BY <1>1, <1>2, <1>4 DEF Resolve, Resolvable, Begin, Legal
  <1>5. CASE \E i, j \in Ids : Supersede(i, j)
    <2>1. PICK i \in Ids, j \in Ids : Supersede(i, j)
      BY <1>5
    <2>2. disk[i].status \notin { "absent", "superseded" } /\ disk[j].status = "absent"
      BY <1>2, <2>1 DEF Supersede, OnDisk
    <2>3. todo' = SupersedeBatch(disk, i, j, op + 1)
      BY <2>1 DEF Supersede, Begin
    <2> QED BY <1>1, <2>2, <2>3 DEF Legal
  <1>6. CASE \E i \in Ids : Cancel(i)
    <2>1. PICK i \in Ids : Cancel(i)
      BY <1>6
    <2> DEFINE D == { d \in idPath : << d, i >> \in depsRev /\ Cascades(disk[d]) }
               E == { d \in Ids : disk[d].depends_on = i /\ Cascades(disk[d]) }
    <2>2. disk[i].status \in { "open", "resolved", "stale" }
      <3>1. disk[i].status \in Statuses
        BY RecFields DEF KInv, TypeOK
      <3> QED BY <1>2, <2>1, <3>1, StatusNames DEF Cancel, OnDisk
    <2>3. todo' = CancelBatch(disk, i, D, op + 1)
      BY <2>1 DEF Cancel, Begin
    <2>4. D = E
      BY <1>2 DEF DepsOf, OnDisk, Cascades
    <2>5. todo' = CancelBatch(disk', i, { d \in Ids : disk'[d].depends_on = i /\ Cascades(disk'[d]) }, op')
      BY <1>1, <2>3, <2>4
    <2> QED BY <1>1, <2>2, <2>5 DEF Legal
  <1> QED BY <1>3, <1>4, <1>5, <1>6

\* A legal batch that holds a cancelled version is the batch of a cancellation.
LEMMA LegalCancel ==
  ASSUME KInv, Legal, NEW i \in Ids, todo[i] # None, todo[i].status = "cancelled"
  PROVE  /\ \A f \in Ids \ {i} : todo[f] # None => todo[f].status = "stale"
         /\ \A d \in Ids : disk[d].depends_on = i /\ Cascades(disk[d]) => todo[d] # None
  <1>1. ASSUME NEW k \in Ids, NEW d \in Ids \cup {None}, todo = NewBatch(k, d, op) PROVE FALSE
    BY <1>1, VersionFields DEF NewBatch, Fresh
  <1>2. ASSUME NEW k \in Ids, todo = ResolveBatch(disk, k, op) PROVE FALSE
    BY <1>2, VersionFields DEF ResolveBatch, Marked
  <1>3. ASSUME NEW k \in Ids, NEW j \in Ids, todo = SupersedeBatch(disk, k, j, op) PROVE FALSE
    <2>1. i = k \/ i = j
      BY <1>3 DEF SupersedeBatch
    <2>2. todo[i].status \in { "superseded", "open" }
      BY <1>3, <2>1, VersionFields DEF SupersedeBatch, Fresh
    <2> QED BY <2>2
  <1>4. PICK k \in Ids :
          todo = CancelBatch(disk, k, { d \in Ids : disk[d].depends_on = k /\ Cascades(disk[d]) }, op)
    BY <1>1, <1>2, <1>3 DEF Legal
  <1> DEFINE D == { d \in Ids : disk[d].depends_on = k /\ Cascades(disk[d]) }
  <1>5. CancelShape(todo, k, D, op)
    BY <1>4, CancelBatchShape DEF KInv, TypeOK
  <1>6. i = k
    BY <1>5 DEF CancelShape
  <1> QED BY <1>5, <1>6 DEF CancelShape

LEMMA RenameDInv ==
  ASSUME DInv, NEW f \in Ids, Rename(f)
  PROVE  Cancelling' /\ CascadeReachesAll'
  <1>1. /\ pc \in { "staged", "rename" } /\ todo[f] # None /\ pc' # "idle"
        /\ pc = "staged" => todo[f].status \in { "superseded", "cancelled" } \/ Files(todo) = {f}
        /\ disk' = [ disk EXCEPT ![f] = todo[f] ] /\ todo' = [ todo EXCEPT ![f] = None ]
        /\ op' = op /\ acked' = acked
    BY DEF Rename, First
  <1>2. disk \in [ Ids -> Rec ] /\ todo \in [ Ids -> Rec \cup {None} ] /\ op \in Nat
    BY OpsAssumption DEF DInv, KInv, TypeOK, Batch
  <1>3. /\ disk'[f] = todo[f] /\ todo'[f] = None
        /\ \A g \in Ids \ {f} : disk'[g] = disk[g] /\ todo'[g] = todo[g]
    BY <1>1, <1>2
  <1>4. /\ todo[f].by = op /\ op \notin ledger /\ acked \subseteq ledger
        /\ \A g \in Ids : disk[g].by \in Nat /\ disk[g].by <= op
    BY <1>1, <1>2, RecFields DEF DInv, KInv, Stamped, Pending, AckedIsIndexed
  <1>5. pc = "staged" => \A g \in Ids : disk[g].by < op
    BY DEF DInv, KInv, Unseen
  <1>6. pc = "staged" /\ todo[f].status = "cancelled" =>
          /\ \A g \in Ids \ {f} : todo[g] # None => todo[g].status = "stale"
          /\ \A d \in Ids : disk[d].depends_on = f /\ Cascades(disk[d]) => todo[d] # None
    BY <1>1, LegalCancel DEF DInv, StagedLegal
  <1>7. pc' = "rename" => \A g \in Ids : todo'[g] # None => todo'[g].status # "cancelled"
    <2> SUFFICES ASSUME NEW g \in Ids, todo'[g] # None, todo'[g].status = "cancelled" PROVE FALSE
      OBVIOUS
    <2>1. g # f /\ todo[g] # None /\ todo[g].status = "cancelled"
      BY <1>3
    <2>2. CASE pc = "rename"
      BY <2>1, <2>2 DEF DInv, Cancelling
    <2>3. CASE pc = "staged"
      <3>1. Legal
        BY <2>3 DEF DInv, StagedLegal
      <3>2. todo[f].status = "stale"
        BY <1>1, <2>1, <3>1, LegalCancel DEF DInv
      <3>3. Files(todo) # {f}
        BY <2>1 DEF Files
      <3> QED BY <1>1, <2>3, <3>2, <3>3
    <2> QED BY <1>1, <2>2, <2>3
  <1>8. ASSUME NEW i \in Ids, disk'[i].status = "cancelled", disk'[i].by = op
        PROVE  /\ \A g \in Ids : todo'[g] # None => todo'[g].status = "stale"
               /\ \A d \in Ids : disk'[d].depends_on = i /\ disk'[d].status \in { "open", "resolved" } =>
                                   todo'[d] # None
    <2>1. CASE i = f
      <3>1. pc = "staged"
        BY <1>1, <1>3, <1>8, <2>1 DEF DInv, Cancelling
      <3>2. /\ \A g \in Ids \ {f} : todo[g] # None => todo[g].status = "stale"
            /\ \A d \in Ids : disk[d].depends_on = f /\ Cascades(disk[d]) => todo[d] # None
        BY <1>3, <1>6, <1>8, <2>1, <3>1
      <3> QED BY <1>3, <1>8, <2>1, <3>2 DEF Cascades
    <2>2. CASE i # f
      <3>1. disk[i].status = "cancelled" /\ disk[i].by = op /\ pc = "rename"
        BY <1>1, <1>2, <1>3, <1>5, <1>8, <2>2
      <3>2. /\ \A g \in Ids : todo[g] # None => todo[g].status = "stale"
            /\ \A d \in Ids : disk[d].depends_on = i /\ disk[d].status \in { "open", "resolved" } =>
                                todo[d] # None
        BY <3>1 DEF DInv, Cancelling
      <3> QED BY <1>1, <1>3, <3>2
    <2> QED BY <2>1, <2>2
  <1>9. Cancelling'
    BY <1>1, <1>7, <1>8 DEF Cancelling
  <1>10. CascadeReachesAll'
    <2> SUFFICES ASSUME NEW i \in Ids, NEW d \in Ids,
                        disk'[i].status = "cancelled", disk'[i].by \in acked,
                        disk'[d].depends_on = i, disk'[d].status \in { "open", "resolved" }
                 PROVE  disk'[d].by > disk'[i].by
      BY <1>1 DEF CascadeReachesAll
    <2>1. i # f /\ disk'[i] = disk[i] /\ disk[i].by < op
      BY <1>2, <1>3, <1>4
    <2>2. CASE d = f
      BY <1>3, <1>4, <2>1, <2>2
    <2>3. CASE d # f
      BY <1>3, <2>1, <2>3 DEF DInv, CascadeReachesAll
    <2> QED BY <2>2, <2>3
  <1> QED BY <1>9, <1>10

LEMMA NextDInv ==
  ASSUME Discipline
  PROVE  DInv /\ [Next]_vars => DInv'
  <1> SUFFICES ASSUME DInv, [Next]_vars PROVE DInv'
    OBVIOUS
  <1>1. KInv'
    BY NextKInv DEF DInv
  <1> SUFFICES StagedLegal' /\ Cancelling' /\ CascadeReachesAll'
    BY <1>1 DEF DInv
  <1>2. ASSUME \/ \E i \in Ids, d \in Ids \cup {None} : New(i, d)
               \/ \E i \in Ids : Resolve(i)
               \/ \E i, j \in Ids : Supersede(i, j)
               \/ \E i \in Ids : Cancel(i)
        PROVE  StagedLegal' /\ Cancelling' /\ CascadeReachesAll'
    <2>1. pc' = "staged" /\ op' = op + 1 /\ UNCHANGED << disk, acked >>
      BY <1>2 DEF New, Resolve, Supersede, Cancel, Begin
    <2>2. StagedLegal'
      BY <1>2, BeginLegal DEF StagedLegal, DInv
    <2>3. \A f \in Ids : disk[f].by < op'
      BY <2>1, RecFields, OpsAssumption DEF DInv, KInv, TypeOK, Stamped
    <2> QED BY <2>1, <2>2, <2>3 DEF Cancelling, CascadeReachesAll, DInv
  <1>3. CASE Rebuild
    <2>1. pc' = "ids" /\ op' = op + 1 /\ UNCHANGED << disk, acked >>
      BY <1>3 DEF Rebuild
    <2>2. \A f \in Ids : disk[f].by # op'
      BY <2>1, RecFields, OpsAssumption DEF DInv, KInv, TypeOK, Stamped
    <2>3. StagedLegal' /\ Cancelling'
      BY <2>1, <2>2 DEF StagedLegal, Cancelling
    <2> QED BY <2>1, <2>3 DEF CascadeReachesAll, DInv
  <1>4. ASSUME NEW f \in Ids, Rename(f) PROVE StagedLegal' /\ Cancelling' /\ CascadeReachesAll'
    BY <1>4, RenameDInv DEF Rename, StagedLegal
  <1>5. CASE AppendEvent \/ WriteIds
    BY <1>5 DEF AppendEvent, WriteIds, StagedLegal, Cancelling, CascadeReachesAll, DInv
  <1>6. CASE WriteDeps
    <2>1. /\ pc = "deps" /\ pc' \in { "idle", "log" } /\ acked' \subseteq acked \cup {op}
          /\ UNCHANGED << disk, op, todo >>
      BY <1>6 DEF WriteDeps
    <2>2. \A f \in Ids : todo[f] = None
      BY <2>1 DEF DInv, KInv, Pending, Nothing
    <2>3. CascadeReachesAll'
      BY <2>1, <2>2 DEF DInv, Cancelling, CascadeReachesAll
    <2> QED BY <2>1, <2>3 DEF StagedLegal, Cancelling, DInv
  <1>7. CASE Crash
    BY <1>7 DEF Crash, StagedLegal, Cancelling, CascadeReachesAll, DInv
  <1>8. CASE UNCHANGED vars
    BY <1>8 DEF vars, StagedLegal, Legal, Cancelling, CascadeReachesAll, DInv
  <1> QED BY <1>2, <1>3, <1>4, <1>5, <1>6, <1>7, <1>8 DEF Next

LEMMA InitDInv == Init => DInv
  <1> SUFFICES ASSUME Init PROVE DInv
    OBVIOUS
  <1>1. \A f \in Ids : disk[f].status = "absent"
    <2>1. Absent.status = "absent"
      BY VersionFields DEF Absent
    <2> QED BY <2>1 DEF Init
  <1>2. StagedLegal /\ Cancelling /\ CascadeReachesAll
    BY <1>1 DEF Init, StagedLegal, Cancelling, CascadeReachesAll
  <1> QED BY <1>2, InitKInv DEF DInv

\* With the indexes rebuilt after every crash, a cancellation that returned
\* has reached every live dependent.
THEOREM CascadesAreComplete ==
  ASSUME Discipline
  PROVE  Spec => []CascadeReachesAll
  <1>1. Init => DInv
    BY InitDInv
  <1>2. DInv /\ [Next]_vars => DInv'
    BY NextDInv
  <1>3. DInv => CascadeReachesAll
    BY DEF DInv
  <1> QED BY <1>1, <1>2, <1>3, PTL DEF Spec

-----------------------------------------------------------------------------
(* The refinement.  The records as the callers of RecordStore see them, the  *)
(* operation whose event is owed.                                            *)
Seen == IF pc = "rename" THEN Over(todo, disk) ELSE disk
Owed == IF pc \in { "rename", "log" } THEN op ELSE None

\* The two modules share the batches: their instances are the same operators.
LEMMA SameBatches ==
  /\ \A i, d, o : Store!NewBatch(i, d, o) = NewBatch(i, d, o)
  /\ \A st, i, o : Store!ResolveBatch(st, i, o) = ResolveBatch(st, i, o)
  /\ \A st, i, j, o : Store!SupersedeBatch(st, i, j, o) = SupersedeBatch(st, i, j, o)
  /\ \A st, i, D, o : Store!CancelBatch(st, i, D, o) = CancelBatch(st, i, D, o)
  /\ \A r : Store!Cascades(r) = Cascades(r)
  /\ \A b, st : Store!Over(b, st) = Over(b, st)
  /\ \A b : Store!Files(b) = Files(b)
  /\ Store!Nothing = Nothing
  /\ Store!Absent = Absent
  BY DEF Store!NewBatch, NewBatch, Store!Fresh, Fresh, Store!Version, Version,
         Store!ResolveBatch, ResolveBatch, Store!Marked, Marked,
         Store!SupersedeBatch, SupersedeBatch, Store!CancelBatch, CancelBatch,
         Store!Cascades, Cascades, Store!Over, Over, Store!Nothing, Nothing, Store!Absent, Absent,
         Store!Files, Files

LEMMA SameAbsent == Store!Absent = Absent
  BY DEF Store!Absent, Absent, Store!Version, Version

LEMMA NothingHeld == pc # "rename" => Held = Store!Nothing
  BY DEF Held, Store!Nothing

LEMMA InitStore == Init => Store!Init
  <1> SUFFICES ASSUME Init PROVE Store!Init
    OBVIOUS
  <1>1. pc = "idle" /\ disk = [ f \in Ids |-> Absent ] /\ ledger = {}
    BY DEF Init
  <1>2. disk = [ f \in Ids |-> Store!Absent ]
    BY <1>1, SameAbsent
  <1> QED BY <1>1, <1>2, NothingHeld DEF Store!Init, Held

\* A batch retires one record at most.
LEMMA OneLeader ==
  ASSUME KInv, Legal, NEW f \in Ids, NEW g \in Ids, todo[f] # None, todo[g] # None,
         todo[f].status \in { "superseded", "cancelled" },
         todo[g].status \in { "superseded", "cancelled" }
  PROVE  f = g
  <1>1. ASSUME NEW k \in Ids, NEW d \in Ids \cup {None}, todo = NewBatch(k, d, op) PROVE FALSE
    BY <1>1, VersionFields DEF NewBatch, Fresh
  <1>2. ASSUME NEW k \in Ids, todo = ResolveBatch(disk, k, op) PROVE FALSE
    BY <1>2, VersionFields DEF ResolveBatch, Marked
  <1>3. ASSUME NEW k \in Ids, NEW j \in Ids, todo = SupersedeBatch(disk, k, j, op) PROVE f = g
    <2>1. \A h \in Ids : todo[h] # None /\ h # k => h = j /\ todo[h].status = "open"
      BY <1>3, VersionFields DEF SupersedeBatch, Fresh
    <2> QED BY <2>1
  <1>4. ASSUME NEW k \in Ids,
               todo = CancelBatch(disk, k, { d \in Ids : disk[d].depends_on = k /\ Cascades(disk[d]) }, op)
        PROVE  f = g
    <2> DEFINE D == { d \in Ids : disk[d].depends_on = k /\ Cascades(disk[d]) }
    <2>1. CancelShape(todo, k, D, op)
      BY <1>4, CancelBatchShape DEF KInv, TypeOK
    <2> QED BY <2>1 DEF CancelShape
  <1> QED BY <1>1, <1>2, <1>3, <1>4 DEF Legal

\* The first rename commits the whole batch.
LEMMA FirstRename ==
  ASSUME DInv, NEW f \in Ids, Rename(f), pc = "staged"
  PROVE  Store!Next
  <1>1. /\ todo[f] # None /\ pc' \in { "log", "rename" } /\ op' = op /\ ledger' = ledger
        /\ disk' = [ disk EXCEPT ![f] = todo[f] ] /\ todo' = [ todo EXCEPT ![f] = None ]
        /\ pc' = "log" => Files(todo') = {}
        /\ First(f)
    BY DEF Rename, AllIn
  <1>2. disk \in [ Ids -> Rec ] /\ todo \in [ Ids -> Rec \cup {None} ] /\ op \in 1 .. MaxOps
    BY OpsAssumption DEF DInv, KInv, TypeOK, Stamped, Batch
  <1>3. op \in 1 .. MaxOps
    BY <1>2
  <1>4. Seen = disk
    BY DEF Seen
  <1>5. Seen = disk /\ Owed = None /\ Owed' = op
    BY <1>1 DEF Seen, Owed
  <1>6. Seen' = Over(todo, disk)
    <2>1. CASE pc' = "rename"
      BY <1>1, <1>2, <2>1 DEF Seen, Over
    <2>2. CASE pc' = "log"
      <3>1. \A g \in Ids \ {f} : todo[g] = None
        BY <1>1, <1>2, <2>2 DEF Files
      <3>2. \A g \in Ids : disk'[g] = IF todo[g] = None THEN disk[g] ELSE todo[g]
        BY <1>1, <1>2, <3>1
      <3>3. disk' \in [ Ids -> Rec \cup {None} ]
        BY <1>1, <1>2
      <3>4. disk' = [ g \in Ids |-> disk'[g] ]
        BY <3>3
      <3>5. disk' = Over(todo, disk)
        BY <3>2, <3>4 DEF Over
      <3> QED BY <2>2, <3>5 DEF Seen
    <2> QED BY <1>1, <2>1, <2>2
  <1>7. Store!Later(op)
    <2>1. \A g \in Ids : disk[g].by < op
      BY DEF DInv, KInv, Unseen
    <2>2. \A e \in ledger : e < op
      BY <1>2 DEF DInv, KInv, Stamped, Pending
    <2> QED BY <1>5, <2>1, <2>2 DEF Store!Later, Seen
  <1>8. Legal
    BY DEF DInv, StagedLegal
  <1>9. Held' = [ g \in Ids |-> IF g \in Files(todo) /\ ~Store!Leads(todo, g) THEN disk[g] ELSE None ]
    <2>1. ASSUME NEW g \in Ids, g \in Files(todo) PROVE Store!Leads(todo, g) <=> g = f
      <3>1. f \in Files(todo) /\ todo[g] # None
        BY <1>1, <2>1 DEF Files
      <3>2. Store!Leads(todo, f)
        BY <1>1, SameBatches DEF First, Store!Leads
      <3>3. ASSUME Store!Leads(todo, g), g # f PROVE FALSE
        <4>1. Files(todo) # {g} /\ Files(todo) # {f}
          BY <2>1, <3>1, <3>3
        <4>2. todo[f].status \in { "superseded", "cancelled" }
              /\ todo[g].status \in { "superseded", "cancelled" }
          BY <1>1, <3>3, <4>1, SameBatches DEF First, Store!Leads
        <4> QED BY <1>1, <1>8, <3>1, <3>3, <4>2, OneLeader DEF DInv
      <3> QED BY <3>2, <3>3
    <2>2. \A g \in Ids : pc' = "rename" /\ todo'[g] # None <=> g \in Files(todo) /\ g # f
      <3>1. \A g \in Ids : todo'[g] # None <=> g \in Files(todo) /\ g # f
        BY <1>1, <1>2 DEF Files
      <3>2. pc' # "rename" => \A g \in Ids : todo'[g] = None
        BY <1>1 DEF Files
      <3> QED BY <3>1, <3>2
    <2>3. \A g \in Ids : g # f => disk'[g] = disk[g]
      BY <1>1, <1>2
    <2> QED BY <2>1, <2>2, <2>3 DEF Held
  <1>10. Held = Store!Nothing
    BY NothingHeld
  <1>11. Store!Commit(op, todo)
    BY <1>1, <1>5, <1>6, <1>7, <1>9, SameBatches DEF Store!Commit, Store!Unsettled, Seen, Owed, Held
  <1>12. ASSUME NEW i \in Ids, NEW d \in Ids \cup {None},
               disk[i].status = "absent", d = None \/ disk[d].status # "absent",
               todo = NewBatch(i, d, op)
        PROVE  Store!Next
    <2>1. Store!Commit(op, Store!NewBatch(i, d, op))
      BY <1>11, <1>12, SameBatches
    <2>2. Store!New(op, i, d)
      BY <1>4, <1>12, <2>1 DEF Store!New, Seen
    <2> QED BY <1>3, <2>2 DEF Store!Next
  <1>13. ASSUME NEW i \in Ids, disk[i].status = "open", todo = ResolveBatch(disk, i, op)
        PROVE  Store!Next
    <2>1. Store!Commit(op, Store!ResolveBatch(disk, i, op))
      BY <1>11, <1>13, SameBatches
    <2>2. Store!Resolve(op, i)
      BY <1>4, <1>13, <2>1 DEF Store!Resolve, Seen
    <2> QED BY <1>3, <2>2 DEF Store!Next
  <1>14. ASSUME NEW i \in Ids, NEW j \in Ids,
                disk[i].status \notin { "absent", "superseded" }, disk[j].status = "absent",
                todo = SupersedeBatch(disk, i, j, op)
         PROVE  Store!Next
    <2>1. Store!Commit(op, Store!SupersedeBatch(disk, i, j, op))
      BY <1>11, <1>14, SameBatches
    <2>2. Store!Supersede(op, i, j)
      BY <1>4, <1>14, <2>1 DEF Store!Supersede, Seen
    <2> QED BY <1>3, <2>2 DEF Store!Next
  <1>15. CASE \E i \in Ids :
       /\ disk[i].status \in { "open", "resolved", "stale" }
       /\ todo = CancelBatch(disk, i, { d \in Ids : disk[d].depends_on = i /\ Cascades(disk[d]) }, op)
    <2>1. PICK i \in Ids :
       /\ disk[i].status \in { "open", "resolved", "stale" }
       /\ todo = CancelBatch(disk, i, { d \in Ids : disk[d].depends_on = i /\ Cascades(disk[d]) }, op)
      BY <1>15
    <2>2. { d \in Ids : disk[d].depends_on = i /\ Cascades(disk[d]) }
            = { d \in Ids : disk[d].depends_on = i /\ Store!Cascades(disk[d]) }
      BY SameBatches
    <2> DEFINE D == { d \in Ids : disk[d].depends_on = i /\ Store!Cascades(disk[d]) }
    <2>4. Store!Commit(op, Store!CancelBatch(disk, i, D, op))
      BY <1>11, <2>1, <2>2, SameBatches
    <2>3. Store!Cancel(op, i)
      BY <1>4, <2>1, <2>4 DEF Store!Cancel, Seen
    <2> QED BY <1>3, <2>3 DEF Store!Next
  <1> QED BY <1>8, <1>12, <1>13, <1>14, <1>15 DEF Legal

\* The renames after the first settle a record.
LEMMA LaterRename ==
  ASSUME DInv, NEW f \in Ids, Rename(f), pc = "rename"
  PROVE  Store!Next
  <1>1. /\ todo[f] # None /\ pc' \in { "log", "rename" } /\ op' = op /\ ledger' = ledger
        /\ disk' = [ disk EXCEPT ![f] = todo[f] ] /\ todo' = [ todo EXCEPT ![f] = None ]
        /\ pc' = "log" => Files(todo') = {}
    BY DEF Rename, AllIn
  <1>2. disk \in [ Ids -> Rec ] /\ todo \in [ Ids -> Rec \cup {None} ]
    BY DEF DInv, KInv, TypeOK, Batch
  <1>3. Over(todo', disk') = Over(todo, disk)
    BY <1>1, <1>2 DEF Over
  <1>4. pc' = "log" => \A g \in Ids : todo'[g] = None
    BY <1>1 DEF Files
  <1>5. Seen' = Seen /\ Owed' = Owed
    <2>1. CASE pc' = "rename"
      BY <1>1, <1>3, <2>1 DEF Seen, Owed
    <2>2. CASE pc' = "log"
      <3>1. Over(todo', disk') = disk'
        BY <1>1, <1>2, <1>4, <2>2 DEF Over
      <3> QED BY <1>1, <1>3, <2>2, <3>1 DEF Seen, Owed
    <2> QED BY <1>1, <2>1, <2>2
  <1>6. Held[f] # None
    BY <1>1, <1>2, NoRecAssumption DEF Held
  <1>7. Held' = [ Held EXCEPT ![f] = None ]
    <2>1. \A g \in Ids \ {f} : disk'[g] = disk[g] /\ todo'[g] = todo[g]
      BY <1>1, <1>2
    <2>2. todo'[f] = None
      BY <1>1, <1>2
    <2>3. \A g \in Ids \ {f} : (pc' = "rename" /\ todo'[g] # None) <=> todo[g] # None
      BY <1>1, <1>4, <2>1
    <2>4. Held' = [ g \in Ids |-> IF g # f /\ todo[g] # None THEN disk[g] ELSE None ]
      BY <2>1, <2>2, <2>3 DEF Held
    <2> QED BY <2>4 DEF Held
  <1>8. Store!Settle(f)
    BY <1>1, <1>5, <1>6, <1>7 DEF Store!Settle, Seen, Owed, Held
  <1> QED BY <1>8 DEF Store!Next

\* A rebuild shows itself to the ledger only.
LEMMA RebuildClaims ==
  ASSUME DInv, WriteDeps
  PROVE  Store!Next \/ UNCHANGED << Seen, ledger, Owed, Held >>
  <1>1. pc = "deps" /\ UNCHANGED << disk, ledger, op, todo >>
    BY DEF WriteDeps
  <1>2. CASE op \in ledger
    BY <1>1, <1>2 DEF WriteDeps, Seen, Owed, Held
  <1>3. CASE op \notin ledger
    <2>1. pc' = "log"
      BY <1>3 DEF WriteDeps
    <2>2. Seen = disk /\ Seen' = disk /\ Owed = None /\ Owed' = op
      BY <1>1, <2>1 DEF Seen, Owed
    <2>3. disk \in [ Ids -> Rec ] /\ op \in 1 .. MaxOps
      BY <1>1 DEF DInv, KInv, TypeOK, Stamped
    <2>4. Store!Later(op)
      <3>1. \A g \in Ids : disk[g].by < op
        BY <1>1, <1>3 DEF DInv, KInv, Unseen
      <3>2. \A e \in ledger : e < op
        BY <1>3, <2>3, OpsAssumption DEF DInv, KInv, Stamped
      <3> QED BY <2>2, <3>1, <3>2 DEF Store!Later, Seen
    <2>5. Over(Nothing, disk) = disk
      BY <2>3 DEF Over, Nothing
    <2>7. Held' = [ f \in Ids |-> IF f \in Files(Nothing) /\ ~Store!Leads(Nothing, f) THEN disk[f] ELSE None ]
      BY <2>1 DEF Held, Files, Nothing
    <2>6. Store!Claim(op)
      BY <1>1, <2>2, <2>4, <2>5, <2>7, SameBatches DEF Store!Claim, Store!Commit, Store!Unsettled, Seen, Owed, Held
    <2> QED BY <2>3, <2>6 DEF Store!Next
  <1> QED BY <1>2, <1>3

LEMMA StepMaps ==
  ASSUME Discipline
  PROVE  DInv /\ [Next]_vars => [Store!Next]_<< Seen, ledger, Owed, Held >>
  <1> SUFFICES ASSUME DInv, [Next]_vars PROVE Store!Next \/ UNCHANGED << Seen, ledger, Owed, Held >>
    OBVIOUS
  <1>1. ASSUME \/ \E i \in Ids, d \in Ids \cup {None} : New(i, d)
               \/ \E i \in Ids : Resolve(i)
               \/ \E i, j \in Ids : Supersede(i, j)
               \/ \E i \in Ids : Cancel(i)
               \/ Rebuild
        PROVE  UNCHANGED << Seen, ledger, Owed, Held >>
    <2>1. pc = "idle" /\ pc' \in { "staged", "ids" } /\ UNCHANGED << disk, ledger >>
      BY <1>1 DEF New, Resolve, Supersede, Cancel, Begin, Rebuild
    <2>2. todo' = todo \/ pc' = "staged"
      BY <1>1 DEF New, Resolve, Supersede, Cancel, Begin, Rebuild
    <2> QED BY <2>1, <2>2 DEF Seen, Owed, Held
  <1>2. ASSUME NEW f \in Ids, Rename(f) PROVE Store!Next \/ UNCHANGED << Seen, ledger, Owed, Held >>
    BY <1>2, FirstRename, LaterRename DEF Rename
  <1>3. CASE AppendEvent
    <2>1. pc = "log" /\ pc' = "ids" /\ disk' = disk /\ ledger' = ledger \cup {op}
      BY <1>3 DEF AppendEvent
    <2>2. op # None
      BY <2>1, OpsAssumption, NoneAssumption DEF DInv, KInv, Stamped
    <2>3. Held = Store!Nothing /\ Held' = Held
      BY <2>1, NothingHeld DEF Held
    <2>4. Store!Log
      BY <2>1, <2>2, <2>3 DEF Store!Log, Seen, Owed, Held
    <2> QED BY <2>4 DEF Store!Next
  <1>4. CASE WriteIds
    BY <1>4 DEF WriteIds, Seen, Owed, Held
  <1>5. CASE WriteDeps
    BY <1>5, RebuildClaims
  <1>6. CASE Crash
    <2>1. pc' = "idle" /\ disk' = disk /\ ledger' = ledger /\ todo' = Nothing
      BY <1>6 DEF Crash
    <2>2. Seen' = disk /\ Owed' = None /\ Held' = Store!Nothing
      BY <2>1 DEF Seen, Owed, Held, Store!Nothing
    <2>3. disk \in [ Ids -> Rec ]
      BY DEF DInv, KInv, TypeOK
    <2>4. CASE pc \in { "rename", "log" }
      <3>1. Owed = op /\ op # None
        BY <2>4, OpsAssumption, NoneAssumption DEF DInv, KInv, Stamped, Owed
      <3>2. Over(Held, Seen) = disk
        BY <2>3, <2>4, NoRecAssumption DEF Over, Held, Seen
      <3>3. Store!Die
        BY <2>1, <2>2, <3>1, <3>2, SameBatches DEF Store!Die, Seen, Owed, Held
      <3> QED BY <3>3 DEF Store!Next
    <2>5. CASE pc \notin { "rename", "log" }
      BY <2>1, <2>2, <2>5, NothingHeld DEF Seen, Owed
    <2> QED BY <2>4, <2>5
  <1>7. CASE UNCHANGED vars
    BY <1>7 DEF vars, Seen, Owed, Held
  <1> QED BY <1>1, <1>2, <1>3, <1>4, <1>5, <1>6, <1>7 DEF Next

\* With a rebuild after every crash, callers cannot tell the kernel from a store
\* whose operations take effect at once and are logged, save by a death that undoes
\* what was not settled: the kernel implements RecordStore.
THEOREM KernelImplementsStore ==
  ASSUME Discipline
  PROVE  Spec => ImplementsStore
  <1>1. Init => DInv /\ Store!Init
    BY InitDInv, InitStore
  <1>2. DInv /\ [Next]_vars => DInv'
    BY NextDInv
  <1>3. DInv /\ [Next]_vars => [Store!Next]_<< Seen, ledger, Owed, Held >>
    BY StepMaps
  <1>4. [Store!Next]_<< Seen, ledger, Owed, Held >> => [Store!Next]_(Store!svars)
    BY DEF Store!svars, Seen, Owed, Held
  <1> QED BY <1>1, <1>2, <1>3, <1>4, PTL DEF Spec, ImplementsStore, Store!Spec
=============================================================================
