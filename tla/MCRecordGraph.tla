--------------------------- MODULE MCRecordGraph ---------------------------
(* Small instances of RecordGraph for TLC.  Ids are 1 .. n and None is 0.   *)
EXTENDS RecordGraph

\* Ids are interchangeable, so one naming of every graph is enough: ids are
\* used in the order in which the records are authored.
NamedInOrder == \A x \in OnDisk : authored[x].authored_on = x

\* The lineage run spends its states on supersession and cancellation and
\* leaves every record a plain file.
Flat == \A x \in OnDisk : ~node[x]
=============================================================================
