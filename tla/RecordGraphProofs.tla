------------------------- MODULE RecordGraphProofs -------------------------
(***************************************************************************)
(* Proofs about RecordGraph for every value of its constants.  The          *)
(* inductive invariant IInv joins the invariants the runs check to the one  *)
(* fact none of them says: an id that is not on disk holds nothing yet, so  *)
(* authoring it starts from a blank frontmatter.                            *)
(***************************************************************************)
EXTENDS RecordGraph, WellFoundedInduction, NaturalsInduction, TLAPS

\* Ids without a file have no pointers, no folder and no stamp.
AbsentIsBlank ==
  \A x \in Ids : status[x] = Absent =>
    superseded_by[x] = None /\ expanded_into[x] = None /\ ~node[x] /\ ~cancelled_at[x]

IInv ==
  /\ TypeOK
  /\ AbsentIsBlank
  /\ CausalOrder
  /\ LineagePaired
  /\ LineageAnchored
  /\ LiveIsHead
  /\ StaleHasCause
  /\ RetiredHasEvidence
  /\ FolderTree
  /\ ExpandedMarkInherited

-----------------------------------------------------------------------------
\* The initial graph is empty, so every clause about records on disk is vacuous
\* and the type and blankness clauses hold by the initial values.
LEMMA InitIInv == Init => IInv
<1> SUFFICES ASSUME Init PROVE IInv
  OBVIOUS
<1>1. Blank \in Provenance
  BY RanksAssumption, ScopesAssumption DEF Blank, Provenance
<1>2. TypeOK
  BY <1>1 DEF Init, TypeOK, Statuses, Absent
<1>3. OnDisk = {}
  BY DEF Init, OnDisk
<1>4. AbsentIsBlank
  BY DEF Init, AbsentIsBlank
<1>5. QED
  BY <1>2, <1>3, <1>4 DEF IInv, CausalOrder, LineagePaired, LineageAnchored,
     LiveIsHead, StaleHasCause, RetiredHasEvidence, FolderTree, ExpandedMarkInherited

\* The types of the authored fields, one by one.
LEMMA ProvenanceTypes ==
  ASSUME TypeOK, NEW x \in Ids
  PROVE  /\ authored[x] \in Provenance
         /\ authored[x].scope \in Scopes
         /\ authored[x].depends_on \in SUBSET Ids
         /\ authored[x].parent \in Ids \cup {None}
         /\ authored[x].supersedes \in Ids \cup {None}
         /\ authored[x].authority \in Ranks
         /\ authored[x].authored_on \in Nat
<1>1. authored[x] \in Provenance
  BY DEF TypeOK
<1>2. QED
  BY <1>1 DEF Provenance

\* No record on disk carries a stamp of the future.
LEMMA StampsPast ==
  ASSUME IInv
  PROVE  \A y \in OnDisk : authored[y].authored_on \in Nat /\ authored[y].authored_on <= now
<1> TAKE y \in OnDisk
<1>1. y \in Ids
  BY DEF OnDisk
<1>2. authored[y].authored_on \in Nat
  BY <1>1, ProvenanceTypes DEF IInv
<1>3. authored[y].authored_on <= now
  BY DEF IInv, CausalOrder
<1>4. QED
  BY <1>2, <1>3

-----------------------------------------------------------------------------
\* The three operations that author a record (new, promote, supersede) extend
\* the causal order: the new record is later than everything on disk.
LEMMA AuthorKeepsOrder ==
  ASSUME IInv, NEW x \in Ids, NEW s \in Scopes, NEW r \in Ranks,
         NEW D \in SUBSET OnDisk, NEW p \in OnDisk \cup {None}, NEW o \in OnDisk \cup {None},
         Author(x, s, D, p, o, r),
         OnDisk' = OnDisk \cup {x}
  PROVE  /\ CausalOrder'
         /\ \A y, z \in OnDisk : Earlier(y, z) => Earlier(y, z)'
         /\ \A y \in OnDisk : Earlier(y, x)'
         /\ \A y \in OnDisk : authored'[y] = authored[y]
         /\ x \notin OnDisk
<1>1. /\ D \in SUBSET Ids /\ p \in Ids \cup {None} /\ o \in Ids \cup {None}
      /\ TypeOK
  BY DEF OnDisk, IInv
<1>2. /\ status[x] = Absent
      /\ now' = now + 1 /\ now' \in Nat
      /\ \A y \in Ids \ {x} : authored'[y] = authored[y]
      /\ authored'[x].depends_on = D
      /\ authored'[x].parent = p
      /\ authored'[x].supersedes = o
      /\ authored'[x].authored_on = now + 1
  BY <1>1 DEF TypeOK, Author, Free, Provenance
<1>3. x \notin OnDisk
  BY <1>2 DEF OnDisk
<1>4. \A y \in OnDisk : authored'[y] = authored[y]
  BY <1>2, <1>3 DEF OnDisk
<1>5. \A y \in OnDisk : authored[y].authored_on \in Nat /\ authored[y].authored_on <= now
  BY StampsPast
<1>6. \A y, z \in OnDisk : Earlier(y, z) => Earlier(y, z)'
  BY <1>4 DEF Earlier
<1>7. \A y \in OnDisk : Earlier(y, x)'
  BY <1>1, <1>2, <1>4, <1>5 DEF Earlier, TypeOK
<1>8. ASSUME NEW y \in OnDisk
      PROVE  /\ authored'[y].authored_on <= now'
             /\ \A z \in authored'[y].depends_on : Earlier(z, y)'
             /\ authored'[y].parent # None => Earlier(authored[y].parent, y)'
             /\ authored'[y].supersedes # None => Earlier(authored[y].supersedes, y)'
  <2>1. authored'[y].authored_on <= now'
    BY <1>1, <1>2, <1>4, <1>5 DEF TypeOK
  <2>2. \A z : Earlier(z, y) => Earlier(z, y)'
    BY <1>6 DEF Earlier
  <2>3. QED
    BY <2>1, <2>2, <1>4 DEF CausalOrder, IInv
<1>9. /\ authored'[x].authored_on <= now'
      /\ \A z \in authored'[x].depends_on : Earlier(z, x)'
      /\ authored'[x].parent # None => Earlier(authored[x].parent, x)'
      /\ authored'[x].supersedes # None => Earlier(authored[x].supersedes, x)'
  <2>1. authored'[x].authored_on <= now'
    BY <1>1, <1>2 DEF TypeOK
  <2>2. QED
    BY <2>1, <1>2, <1>7
<1>10. CausalOrder'
  BY <1>8, <1>9 DEF CausalOrder
<1>11. QED
  BY <1>3, <1>4, <1>6, <1>7, <1>10

-----------------------------------------------------------------------------
\* kernel.ir.new keeps the invariant: the new record is open, points only to
\* records on disk, and everything else is untouched.
LEMMA NewIInv ==
  ASSUME IInv, NEW x \in Ids, NEW s \in Scopes, NEW r \in Ranks,
         NEW D \in SUBSET Ids, NEW p \in Ids \cup {None}, NEW o \in Ids \cup {None},
         New(x, s, r, D, p, o)
  PROVE  IInv'
<1> USE DEF IInv
<1>1. Author(x, s, D, p, o, r)
  BY DEF New
<1>2. /\ status[x] = Absent
      /\ authored' \in [ Ids -> Provenance ]
      /\ now' \in Nat
      /\ authored'[x].depends_on = D
      /\ authored'[x].parent = p
      /\ authored'[x].supersedes = o
  BY <1>1 DEF TypeOK, Author, Free, Provenance
<1>3. /\ status' = [ status EXCEPT ![x] = "open" ]
      /\ UNCHANGED << superseded_by, expanded_into, node, cancelled_at, promoted_to >>
      /\ D \in Dependencies /\ p \in Folders /\ o \in Replaceable
  BY DEF New
<1>4. /\ OnDisk' = OnDisk \cup {x}
      /\ status'[x] = "open"
      /\ \A y \in Ids \ {x} : status'[y] = status[y]
  BY <1>2, <1>3 DEF OnDisk, Absent, TypeOK
<1>5. D \in SUBSET OnDisk /\ p \in OnDisk \cup {None} /\ o \in OnDisk \cup {None}
  BY <1>3 DEF Dependencies, Folders, Replaceable
<1>6. /\ CausalOrder'
      /\ \A y, z \in OnDisk : Earlier(y, z) => Earlier(y, z)'
      /\ \A y \in OnDisk : authored'[y] = authored[y]
      /\ x \notin OnDisk
  BY <1>1, <1>3, <1>4, <1>5, AuthorKeepsOrder
<1>7. /\ superseded_by[x] = None /\ expanded_into[x] = None /\ ~node[x]
      /\ \A y \in OnDisk : y \in Ids /\ y # x
  BY <1>2, <1>6 DEF AbsentIsBlank, OnDisk
<1>8. TypeOK'
  BY <1>2, <1>3 DEF TypeOK, Statuses
<1>9. AbsentIsBlank'
  BY <1>3, <1>4 DEF AbsentIsBlank, Absent
<1>10. LineagePaired'
  BY <1>3, <1>4, <1>6, <1>7 DEF LineagePaired
<1>11. LineageAnchored'
  BY <1>2, <1>3, <1>4, <1>6, <1>7 DEF LineageAnchored, Replaceable, RetiredHasEvidence
<1>12. LiveIsHead'
  BY <1>3, <1>4, <1>7 DEF LiveIsHead
<1>13. StaleHasCause'
  BY <1>3, <1>4, <1>6, <1>7 DEF StaleHasCause, CausalOrder, Earlier
<1>14. RetiredHasEvidence'
  BY <1>3, <1>4, <1>7 DEF RetiredHasEvidence
<1>15. FolderTree'
  BY <1>2, <1>3, <1>4, <1>6, <1>7 DEF FolderTree, Folders
<1>16. ExpandedMarkInherited'
  BY <1>3, <1>4, <1>6, <1>7, NoneAssumption DEF ExpandedMarkInherited, Earlier
<1>17. QED
  BY <1>6, <1>8, <1>9, <1>10, <1>11, <1>12, <1>13, <1>14, <1>15, <1>16

\* kernel.ir.promote keeps the invariant: the new record has no pointer at all.
LEMMA PromoteIInv ==
  ASSUME IInv, NEW e \in Events, NEW x \in Ids, NEW s \in Scopes, NEW r \in Ranks,
         Promote(e, x, s, r)
  PROVE  IInv'
<1> USE DEF IInv
<1>1. Author(x, s, {}, None, None, r)
  BY DEF Promote
<1>2. /\ status[x] = Absent
      /\ authored' \in [ Ids -> Provenance ]
      /\ now' \in Nat
      /\ authored'[x].parent = None
      /\ authored'[x].supersedes = None
  BY <1>1 DEF TypeOK, Author, Free, Provenance
<1>3. /\ status' = [ status EXCEPT ![x] = "resolved" ]
      /\ promoted_to' = [ promoted_to EXCEPT ![e] = Marker(e, x) ]
      /\ UNCHANGED << superseded_by, expanded_into, node, cancelled_at >>
  BY DEF Promote
<1>4. /\ OnDisk' = OnDisk \cup {x}
      /\ status'[x] = "resolved"
      /\ \A y \in Ids \ {x} : status'[y] = status[y]
  BY <1>2, <1>3 DEF OnDisk, Absent, TypeOK
<1>5. {} \in SUBSET OnDisk /\ None \in OnDisk \cup {None}
  OBVIOUS
<1>6. /\ CausalOrder'
      /\ \A y, z \in OnDisk : Earlier(y, z) => Earlier(y, z)'
      /\ \A y \in OnDisk : authored'[y] = authored[y]
      /\ x \notin OnDisk
  BY <1>1, <1>4, <1>5, AuthorKeepsOrder
<1>7. /\ superseded_by[x] = None /\ expanded_into[x] = None /\ ~node[x]
      /\ \A y \in OnDisk : y \in Ids /\ y # x
  BY <1>2, <1>6 DEF AbsentIsBlank, OnDisk
<1>8. TypeOK'
  BY <1>2, <1>3 DEF TypeOK, Statuses, Marker
<1>9. AbsentIsBlank'
  BY <1>3, <1>4 DEF AbsentIsBlank, Absent
<1>10. LineagePaired'
  BY <1>3, <1>4, <1>6, <1>7 DEF LineagePaired
<1>11. LineageAnchored'
  BY <1>2, <1>3, <1>4, <1>6, <1>7 DEF LineageAnchored
<1>12. LiveIsHead'
  BY <1>3, <1>4, <1>7 DEF LiveIsHead
<1>13. StaleHasCause'
  BY <1>3, <1>4, <1>6, <1>7 DEF StaleHasCause, CausalOrder, Earlier
<1>14. RetiredHasEvidence'
  BY <1>3, <1>4, <1>7 DEF RetiredHasEvidence
<1>15. FolderTree'
  BY <1>2, <1>3, <1>4, <1>6, <1>7 DEF FolderTree
<1>16. ExpandedMarkInherited'
  BY <1>3, <1>4, <1>6, <1>7, NoneAssumption DEF ExpandedMarkInherited, Earlier
<1>17. QED
  BY <1>6, <1>8, <1>9, <1>10, <1>11, <1>12, <1>13, <1>14, <1>15, <1>16

-----------------------------------------------------------------------------
\* The four operations that author nothing keep every record on disk, its
\* provenance and so the causal order.
LEMMA OrderKept ==
  ASSUME IInv, UNCHANGED << authored, now >>, OnDisk' = OnDisk
  PROVE  /\ CausalOrder'
         /\ \A y, z : Earlier(y, z)' <=> Earlier(y, z)
<1>1. \A y, z : Earlier(y, z)' <=> Earlier(y, z)
  BY DEF Earlier
<1>2. QED
  BY <1>1 DEF IInv, CausalOrder

\* kernel.ir.resolve keeps the invariant: an open record becomes resolved, and
\* both are live.
LEMMA ResolveIInv ==
  ASSUME IInv, NEW x \in Ids, Resolve(x)
  PROVE  IInv'
<1> USE DEF IInv
<1>1. /\ status[x] = "open"
      /\ status' = [ status EXCEPT ![x] = "resolved" ]
      /\ UNCHANGED << authored, superseded_by, expanded_into, node, cancelled_at,
                      promoted_to, now >>
  BY DEF Resolve, Resolvable
<1>2. /\ OnDisk' = OnDisk /\ x \in OnDisk
      /\ status'[x] = "resolved"
      /\ \A y \in Ids \ {x} : status'[y] = status[y]
      /\ \A y \in OnDisk : y \in Ids
  BY <1>1 DEF OnDisk, Absent, TypeOK
<1>3. CausalOrder' /\ \A y, z : Earlier(y, z)' <=> Earlier(y, z)
  BY <1>1, <1>2, OrderKept
<1>4. TypeOK'
  BY <1>1 DEF TypeOK, Statuses
<1>5. AbsentIsBlank'
  BY <1>1, <1>2 DEF AbsentIsBlank, Absent
<1>6. LineagePaired' /\ LineageAnchored' /\ FolderTree' /\ ExpandedMarkInherited'
  BY <1>1, <1>2, <1>3 DEF LineagePaired, LineageAnchored, FolderTree, ExpandedMarkInherited
<1>7. LiveIsHead'
  BY <1>1, <1>2 DEF LiveIsHead
<1>8. StaleHasCause' /\ RetiredHasEvidence'
  BY <1>1, <1>2 DEF StaleHasCause, RetiredHasEvidence
<1>9. QED
  BY <1>3, <1>4, <1>5, <1>6, <1>7, <1>8

\* kernel.ir.expand keeps the invariant: the record gets a folder and says so.
LEMMA ExpandIInv ==
  ASSUME IInv, NEW x \in Ids, Expand(x)
  PROVE  IInv'
<1> USE DEF IInv
<1>1. /\ x \in OnDisk
      /\ node' = [ node EXCEPT ![x] = TRUE ]
      /\ expanded_into' = [ expanded_into EXCEPT ![x] = x ]
      /\ UNCHANGED << status, authored, superseded_by, cancelled_at, promoted_to, now >>
  BY DEF Expand
<1>2. /\ OnDisk' = OnDisk
      /\ node'[x] /\ expanded_into'[x] = x
      /\ \A y \in Ids \ {x} : node'[y] = node[y] /\ expanded_into'[y] = expanded_into[y]
      /\ \A y \in OnDisk : y \in Ids
  BY <1>1 DEF OnDisk, TypeOK
<1>3. CausalOrder' /\ \A y, z : Earlier(y, z)' <=> Earlier(y, z)
  BY <1>1, <1>2, OrderKept
<1>4. TypeOK'
  BY <1>1 DEF TypeOK
<1>5. AbsentIsBlank'
  BY <1>1, <1>2 DEF AbsentIsBlank, OnDisk
<1>6. LineagePaired' /\ LineageAnchored' /\ LiveIsHead' /\ StaleHasCause' /\ RetiredHasEvidence'
  BY <1>1, <1>2 DEF LineagePaired, LineageAnchored, LiveIsHead, StaleHasCause,
     RetiredHasEvidence
<1>7. FolderTree'
  BY <1>1, <1>2 DEF FolderTree, CausalOrder, Earlier
<1>8. ExpandedMarkInherited'
  BY <1>1, <1>2, <1>3, NoneAssumption DEF ExpandedMarkInherited
<1>9. QED
  BY <1>3, <1>4, <1>5, <1>6, <1>7, <1>8

\* kernel.ir.collapse keeps the invariant: only an empty folder goes away, so no
\* record loses the folder it lies in.
LEMMA CollapseIInv ==
  ASSUME IInv, NEW x \in Ids, Collapse(x)
  PROVE  IInv'
<1> USE DEF IInv
<1>1. /\ x \in OnDisk /\ node[x] /\ Folder(x) = {}
      /\ node' = [ node EXCEPT ![x] = FALSE ]
      /\ expanded_into' = [ expanded_into EXCEPT ![x] = None ]
      /\ UNCHANGED << status, authored, superseded_by, cancelled_at, promoted_to, now >>
  BY DEF Collapse
<1>2. /\ OnDisk' = OnDisk
      /\ ~node'[x] /\ expanded_into'[x] = None
      /\ \A y \in Ids \ {x} : node'[y] = node[y] /\ expanded_into'[y] = expanded_into[y]
      /\ \A y \in OnDisk : y \in Ids
  BY <1>1 DEF OnDisk, TypeOK
<1>3. CausalOrder' /\ \A y, z : Earlier(y, z)' <=> Earlier(y, z)
  BY <1>1, <1>2, OrderKept
<1>4. TypeOK'
  BY <1>1 DEF TypeOK
<1>5. AbsentIsBlank'
  BY <1>1, <1>2 DEF AbsentIsBlank, OnDisk
<1>6. LineagePaired' /\ LineageAnchored' /\ LiveIsHead' /\ StaleHasCause' /\ RetiredHasEvidence'
  BY <1>1, <1>2 DEF LineagePaired, LineageAnchored, LiveIsHead, StaleHasCause,
     RetiredHasEvidence
<1>7. FolderTree'
  <2>1. ASSUME NEW y \in OnDisk, authored[y].parent # None
        PROVE  node'[authored[y].parent]
    <3>1. authored[y].parent # x
      BY <1>1 DEF Folder
    <3>2. authored[y].parent \in OnDisk /\ node[authored[y].parent]
      BY <2>1 DEF FolderTree, CausalOrder, Earlier
    <3>3. QED
      BY <3>1, <3>2, <1>2
  <2>2. QED
    BY <2>1, <1>1, <1>2 DEF FolderTree
<1>8. ExpandedMarkInherited'
  BY <1>1, <1>2, <1>3, NoneAssumption DEF ExpandedMarkInherited
<1>9. QED
  BY <1>3, <1>4, <1>5, <1>6, <1>7, <1>8

-----------------------------------------------------------------------------
\* kernel.ir.supersede keeps the invariant: successor and predecessor point at
\* each other, and the successor inherits provenance but not the folder.
LEMMA SupersedeIInv ==
  ASSUME IInv, NEW x \in OnDisk, NEW n \in Ids, Supersede(x, n)
  PROVE  IInv'
<1> USE DEF IInv
<1> DEFINE old == authored[x]
<1>1. /\ Author(n, old.scope, old.depends_on, old.parent, x, old.authority)
      /\ x \in Ids
  BY DEF Supersede, SuccessorDeps, OnDisk
<1>2. /\ old.scope \in Scopes /\ old.depends_on \in SUBSET Ids
      /\ old.parent \in Ids \cup {None} /\ old.authority \in Ranks
  BY <1>1, ProvenanceTypes
<1>3. /\ status[n] = Absent
      /\ authored' \in [ Ids -> Provenance ]
      /\ now' \in Nat
      /\ authored'[n].scope = old.scope
      /\ authored'[n].depends_on = old.depends_on
      /\ authored'[n].parent = old.parent
      /\ authored'[n].supersedes = x
      /\ authored'[n].authority = old.authority
  <2> HIDE DEF old
  <2>1. QED
    BY <1>1, <1>2 DEF TypeOK, Author, Free, Provenance
<1>4. /\ status' = [ status EXCEPT ![x] = "superseded", ![n] = "open" ]
      /\ superseded_by' = [ superseded_by EXCEPT ![x] = n, ![n] = None ]
      /\ expanded_into' = [ expanded_into EXCEPT ![n] = expanded_into[x] ]
      /\ cancelled_at' = [ cancelled_at EXCEPT ![n] = cancelled_at[x] ]
      /\ node' = [ node EXCEPT ![n] = FALSE ]
      /\ UNCHANGED promoted_to
  BY DEF Supersede, SuccessorIsFolder
<1>5. n # x /\ n \notin OnDisk /\ n # None /\ x # None
  BY <1>1, <1>3, NoneAssumption DEF OnDisk
<1>6. /\ OnDisk' = OnDisk \cup {n}
      /\ status'[n] = "open" /\ status'[x] = "superseded"
      /\ superseded_by'[x] = n /\ superseded_by'[n] = None
      /\ expanded_into'[n] = expanded_into[x]
      /\ ~node'[n]
      /\ \A y \in Ids \ {n} : /\ y # x => /\ status'[y] = status[y]
                                          /\ superseded_by'[y] = superseded_by[y]
                              /\ expanded_into'[y] = expanded_into[y]
                              /\ cancelled_at'[y] = cancelled_at[y]
                              /\ node'[y] = node[y]
  BY <1>1, <1>3, <1>4, <1>5 DEF OnDisk, Absent, TypeOK
<1>7. /\ old.depends_on \in SUBSET OnDisk /\ old.parent \in OnDisk \cup {None}
      /\ x \in OnDisk \cup {None}
  BY <1>2 DEF CausalOrder, Earlier
<1>8. /\ CausalOrder'
      /\ \A y, z \in OnDisk : Earlier(y, z) => Earlier(y, z)'
      /\ \A y \in OnDisk : Earlier(y, n)'
      /\ \A y \in OnDisk : authored'[y] = authored[y]
  <2> HIDE DEF old
  <2>1. QED
    BY <1>1, <1>2, <1>6, <1>7, AuthorKeepsOrder
<1>9. \A y \in OnDisk : y \in Ids \ {n}
  BY <1>5 DEF OnDisk
<1>10. \A y \in OnDisk :
         /\ authored[y].depends_on \subseteq OnDisk
         /\ authored[y].parent # None => authored[y].parent \in OnDisk
         /\ authored[y].supersedes # None => authored[y].supersedes \in OnDisk
  BY DEF CausalOrder, Earlier
<1>11. TypeOK'
  BY <1>1, <1>3, <1>4 DEF TypeOK, Statuses
<1>12. AbsentIsBlank'
  BY <1>6, <1>9 DEF AbsentIsBlank, OnDisk
<1>13. LineagePaired'
  <2>1. ASSUME NEW y \in OnDisk, y # x, superseded_by[y] # None
        PROVE  LET m == superseded_by'[y] IN
                 /\ m \in OnDisk'
                 /\ authored'[m].supersedes = y
                 /\ authored'[m].scope = authored'[y].scope
                 /\ authored'[m].depends_on = authored'[y].depends_on
                 /\ authored'[m].parent = authored'[y].parent
                 /\ authored'[m].authority = authored'[y].authority
    BY <2>1, <1>6, <1>8, <1>9 DEF LineagePaired
  <2>2. LET m == superseded_by'[x] IN
          /\ m \in OnDisk'
          /\ authored'[m].supersedes = x
          /\ authored'[m].scope = authored'[x].scope
          /\ authored'[m].depends_on = authored'[x].depends_on
          /\ authored'[m].parent = authored'[x].parent
          /\ authored'[m].authority = authored'[x].authority
    BY <1>3, <1>6, <1>8
  <2>3. QED
    BY <2>1, <2>2, <1>6, <1>9 DEF LineagePaired
<1>14. LineageAnchored'
  BY <1>3, <1>5, <1>6, <1>8, <1>9, <1>10 DEF LineageAnchored
<1>15. LiveIsHead'
  BY <1>6, <1>9 DEF LiveIsHead
<1>16. StaleHasCause'
  BY <1>6, <1>8, <1>9, <1>10 DEF StaleHasCause
<1>17. RetiredHasEvidence'
  BY <1>5, <1>6, <1>9 DEF RetiredHasEvidence
<1>18. FolderTree'
  BY <1>3, <1>6, <1>8, <1>9, <1>10 DEF FolderTree
<1>19. ExpandedMarkInherited'
  <2>1. ASSUME NEW y \in OnDisk
        PROVE  /\ node'[y] <=> expanded_into'[y] = y
               /\ expanded_into'[y] \notin { None, y } =>
                    authored'[y].supersedes # None /\ Earlier(expanded_into[y], y)'
    BY <1>6, <1>8, <1>9 DEF ExpandedMarkInherited, Earlier
  <2>2. expanded_into[x] # None => expanded_into[x] \in OnDisk
    BY DEF ExpandedMarkInherited, Earlier
  <2>3. /\ expanded_into'[n] # n
        /\ expanded_into'[n] # None => Earlier(expanded_into[n], n)'
    BY <2>2, <1>5, <1>6, <1>8
  <2>4. QED
    BY <2>1, <2>3, <1>3, <1>5, <1>6 DEF ExpandedMarkInherited
<1>20. QED
  BY <1>8, <1>11, <1>12, <1>13, <1>14, <1>15, <1>16, <1>17, <1>18, <1>19

-----------------------------------------------------------------------------
\* kernel.ir.cancel keeps the invariant: the cancelled record is stamped, and it
\* is the cause of every record its cascade makes stale.
LEMMA CancelIInv ==
  ASSUME IInv, NEW x \in OnDisk, NEW caller \in Ranks, NEW cascade \in BOOLEAN,
         Cancel(x, caller, cascade)
  PROVE  IInv'
<1> USE DEF IInv
<1>1. /\ status[x] \notin { "cancelled", "superseded" }
      /\ status' = [ d \in Ids |->
                       IF d = x THEN "cancelled"
                       ELSE IF cascade /\ d \in Cascade(x) THEN "stale"
                       ELSE status[d] ]
      /\ cancelled_at' = [ cancelled_at EXCEPT ![x] = TRUE ]
      /\ UNCHANGED << authored, superseded_by, expanded_into, node, promoted_to, now >>
  BY DEF Cancel, Cancellable, Stamped
<1>2. x \in Ids /\ \A y \in OnDisk : y \in Ids
  BY DEF OnDisk
<1>3. /\ status'[x] = "cancelled" /\ cancelled_at'[x]
      /\ \A y \in Ids : cancelled_at[y] => cancelled_at'[y]
      /\ \A y \in Ids \ {x} : \/ status'[y] = status[y]
                              \/ /\ y \in OnDisk /\ status'[y] = "stale"
                                 /\ x \in authored[y].depends_on
                                 /\ authored[y].scope = authored[x].scope
      /\ \A y \in Ids \ {x} : cancelled_at'[y] = cancelled_at[y]
  BY <1>1, <1>2 DEF Cascade, TypeOK
<1>4. OnDisk' = OnDisk
  BY <1>2, <1>3 DEF OnDisk, Absent
<1>5. CausalOrder' /\ \A y, z : Earlier(y, z)' <=> Earlier(y, z)
  BY <1>1, <1>4, OrderKept
<1>6. \A y \in OnDisk : /\ authored[y].depends_on \subseteq OnDisk
                        /\ authored[y].supersedes # None => authored[y].supersedes \in OnDisk
  BY DEF CausalOrder, Earlier
<1>7. TypeOK'
  <2>1. status' \in [ Ids -> Statuses \cup {Absent} ]
    BY <1>1 DEF TypeOK, Statuses
  <2>2. QED
    BY <2>1, <1>1 DEF TypeOK
<1>8. AbsentIsBlank'
  BY <1>1, <1>2, <1>3, <1>4 DEF AbsentIsBlank, OnDisk
<1>9. LineagePaired' /\ FolderTree' /\ ExpandedMarkInherited'
  BY <1>1, <1>4, <1>5 DEF LineagePaired, FolderTree, ExpandedMarkInherited
<1>10. LineageAnchored'
  BY <1>1, <1>2, <1>3, <1>4, <1>6 DEF LineageAnchored
<1>11. LiveIsHead'
  BY <1>1, <1>2, <1>3, <1>4 DEF LiveIsHead
<1>12. StaleHasCause'
  BY <1>1, <1>2, <1>3, <1>4, <1>6 DEF StaleHasCause
<1>13. RetiredHasEvidence'
  BY <1>1, <1>2, <1>3, <1>4 DEF RetiredHasEvidence
<1>14. QED
  BY <1>5, <1>7, <1>8, <1>9, <1>10, <1>11, <1>12, <1>13

-----------------------------------------------------------------------------
\* Every operation of kernel.ir keeps the inductive invariant.
LEMMA NextIInv == IInv /\ [Next]_vars => IInv'
<1> SUFFICES ASSUME IInv, [Next]_vars PROVE IInv'
  OBVIOUS
<1>1. /\ Free \subseteq Ids /\ Folders \subseteq Ids \cup {None}
      /\ Replaceable \subseteq Ids \cup {None} /\ SmallDeps \subseteq SUBSET Ids
  BY DEF OnDisk, Free, Folders, Replaceable, SmallDeps, Dependencies
<1>2. ASSUME NEW x \in Free, NEW s \in Scopes, NEW r \in Ranks,
             NEW D \in SmallDeps, NEW p \in Folders, NEW o \in Replaceable,
             New(x, s, r, D, p, o)
      PROVE  IInv'
  BY <1>1, <1>2, NewIInv
<1>3. ASSUME NEW x \in Ids, Resolve(x) PROVE IInv'
  BY <1>3, ResolveIInv
<1>4. ASSUME NEW x \in Ids, Expand(x) PROVE IInv'
  BY <1>4, ExpandIInv
<1>5. ASSUME NEW x \in Ids, Collapse(x) PROVE IInv'
  BY <1>5, CollapseIInv
<1>6. ASSUME NEW e \in Events, NEW x \in Free, NEW s \in Scopes, NEW r \in Ranks,
             Promote(e, x, s, r)
      PROVE  IInv'
  BY <1>1, <1>6, PromoteIInv
<1>7. ASSUME NEW x \in Ids, NEW n \in Free, Supersede(x, n) PROVE IInv'
  BY <1>1, <1>7, SupersedeIInv DEF Supersede, Supersedable
<1>8. ASSUME NEW x \in Ids, NEW caller \in Ranks, NEW cascade \in BOOLEAN,
             Cancel(x, caller, cascade)
      PROVE  IInv'
  BY <1>8, CancelIInv DEF Cancel, Cancellable
<1>9. CASE UNCHANGED vars
  BY <1>9 DEF vars, IInv, TypeOK, AbsentIsBlank, CausalOrder, Earlier, OnDisk, LineagePaired,
     LineageAnchored, LiveIsHead, StaleHasCause, RetiredHasEvidence, FolderTree,
     ExpandedMarkInherited
<1>10. QED
  BY <1>2, <1>3, <1>4, <1>5, <1>6, <1>7, <1>8, <1>9 DEF Next

\* The inductive invariant holds in every reachable state.
THEOREM GraphInvariant == Spec => []IInv
  BY InitIInv, NextIInv, PTL DEF Spec

\* Every field of every frontmatter keeps its type.
THEOREM GraphTypes == Spec => []TypeOK
  BY GraphInvariant, PTL DEF IInv

\* Dependencies, folders and lineages are acyclic: each points back in time.
THEOREM GraphIsCausal == Spec => []CausalOrder
  BY GraphInvariant, PTL DEF IInv

\* Lineages are doubly linked and anchored.
THEOREM LineagesAreSound == Spec => []LineageSound
<1>1. IInv => LineageSound
  BY DEF IInv, LineageSound
<1> QED BY <1>1, GraphInvariant, PTL

\* A set of numbers has a least one.
LEMMA LeastNumber ==
  ASSUME NEW T \in SUBSET Nat, T # {}
  PROVE  \E m \in T : \A n \in T : m <= n
<1>1. PICK m \in T : \A n \in T : ~(<< n, m >> \in OpToRel(<, Nat))
  BY WFMin, NatLessThanWellFounded
<1>2. ASSUME NEW n \in T PROVE m <= n
  <2>1. n < m => << n, m >> \in OpToRel(<, Nat)
    BY DEF OpToRel
  <2>2. ~(n < m)
    BY <1>1, <2>1, Zenon
  <2> QED BY <2>2
<1> QED BY <1>2

LEMMA OldestPointsOut ==
  ASSUME IInv, NEW S \in SUBSET OnDisk, S # {}
  PROVE  \E y \in S : BackFrom(y) \cap S = {}
<1> DEFINE Stamps == { authored[y].authored_on : y \in S }
<1>1. \A y \in S : y \in Ids /\ authored[y].authored_on \in Nat
  BY StampsPast DEF OnDisk
<1>2. PICK y \in S : \A x \in S : authored[y].authored_on <= authored[x].authored_on
  <2>1. Stamps \in SUBSET Nat /\ Stamps # {}
    BY <1>1
  <2>2. PICK m \in Stamps : \A n \in Stamps : m <= n
    BY <2>1, LeastNumber
  <2> QED BY <2>2
<1>3. ASSUME NEW x \in BackFrom(y), x \in S PROVE FALSE
  <2>1. x # None
    BY <1>1, <1>3, NoneAssumption
  <2>2. Earlier(x, y)
    BY <1>3, <2>1 DEF BackFrom, IInv, CausalOrder
  <2> QED BY <1>1, <1>2, <1>3, <2>2 DEF Earlier
<1> QED BY <1>3

LEMMA NewestLeadsOut ==
  ASSUME IInv, NEW S \in SUBSET OnDisk, S # {}
  PROVE  \E x \in S : superseded_by[x] \notin S
<1> DEFINE Ages == { now - authored[x].authored_on : x \in S }
<1>1. \A x \in S : x \in Ids /\ authored[x].authored_on \in Nat /\ authored[x].authored_on <= now
  BY StampsPast DEF OnDisk
<1>2. PICK x \in S : \A y \in S : authored[y].authored_on <= authored[x].authored_on
  <2>1. now \in Nat
    BY DEF IInv, TypeOK
  <2>2. Ages \in SUBSET Nat /\ Ages # {}
    BY <1>1, <2>1
  <2>3. PICK m \in Ages : \A n \in Ages : m <= n
    BY <2>2, LeastNumber
  <2>4. PICK x \in S : m = now - authored[x].authored_on
    BY <2>3
  <2>5. ASSUME NEW y \in S PROVE authored[y].authored_on <= authored[x].authored_on
    <3>1. m <= now - authored[y].authored_on
      BY <2>3
    <3> QED BY <1>1, <2>1, <2>4, <3>1
  <2> QED BY <2>5
<1>3. superseded_by[x] \notin S
  <2> SUFFICES ASSUME NEW n \in S, n = superseded_by[x] PROVE FALSE
    OBVIOUS
  <2>1. n # None
    BY <1>1, NoneAssumption
  <2>2. authored[n].supersedes = x
    BY <2>1 DEF IInv, LineagePaired
  <2>3. Earlier(x, n)
    BY <1>1, <2>2, NoneAssumption DEF IInv, CausalOrder
  <2> QED BY <1>1, <1>2, <2>3 DEF Earlier
<1> QED BY <1>3

\* Along dependencies, folders, predecessors or successors nobody walks in a circle
\* or for ever, whatever mix of operations built the graph; forward, the walk ends
\* at a record without a successor (ir_ops.py, new, supersede, cancel).
THEOREM WalksAlwaysEnd == Spec => []WalksEnd
<1>1. IInv => WalksEnd
  BY OldestPointsOut, NewestLeadsOut DEF WalksEnd
<1> QED BY <1>1, GraphInvariant, PTL

\* A record that is open or resolved heads its lineage.
THEOREM LiveRecordsLead == Spec => []LiveIsHead
  BY GraphInvariant, PTL DEF IInv

\* A stale record can name the cancellation that made it so.
THEOREM StalenessIsExplained == Spec => []StaleHasCause
  BY GraphInvariant, PTL DEF IInv

\* A retired record carries the stamp or the pointer that retired it.
THEOREM RetirementIsEvident == Spec => []RetiredHasEvidence
  BY GraphInvariant, PTL DEF IInv

\* No operation strands a file or claims a folder it does not have in lineage.
THEOREM FoldersAreSound == Spec => [](FolderTree /\ ExpandedMarkInherited)
  BY GraphInvariant, PTL DEF IInv

-----------------------------------------------------------------------------
\* The seven operations together implement the life cycle table and no more.
THEOREM LifeCycleFollowed == Spec => StatusFollowsLifeCycle
<1>1. ASSUME TypeOK, [Next]_vars, NEW y \in Ids, status'[y] # status[y]
      PROVE  << status[y], status'[y] >> \in LifeCycle
  <2> USE <1>1 DEF TypeOK, Absent
  <2>1. ASSUME NEW x \in Ids, status[x] = Absent,
               \/ status' = [ status EXCEPT ![x] = "open" ]
               \/ status' = [ status EXCEPT ![x] = "resolved" ]
        PROVE  << status[y], status'[y] >> \in LifeCycle
    <3>1. y = x
      BY <2>1
    <3>2. QED
      BY <2>1, <3>1 DEF LifeCycle
  <2>2. ASSUME NEW x \in Free, NEW s \in Scopes, NEW r \in Ranks,
               NEW D \in SmallDeps, NEW p \in Folders, NEW o \in Replaceable,
               New(x, s, r, D, p, o)
        PROVE  << status[y], status'[y] >> \in LifeCycle
    BY <2>1, <2>2 DEF New, Author, Free
  <2>3. ASSUME NEW x \in Ids, Resolve(x)
        PROVE  << status[y], status'[y] >> \in LifeCycle
    BY <2>3 DEF Resolve, Resolvable, LifeCycle
  <2>4. ASSUME NEW e \in Events, NEW x \in Free, NEW s \in Scopes, NEW r \in Ranks,
               Promote(e, x, s, r)
        PROVE  << status[y], status'[y] >> \in LifeCycle
    BY <2>1, <2>4 DEF Promote, Author, Free
  <2>5. ASSUME NEW x \in Ids, NEW n \in Free, Supersede(x, n)
        PROVE  << status[y], status'[y] >> \in LifeCycle
    <3>1. /\ x \in Ids /\ x # n /\ status[n] = "absent" /\ status[x] # "absent"
          /\ status[x] # "superseded"
          /\ status' = [ status EXCEPT ![x] = "superseded", ![n] = "open" ]
      BY <2>5 DEF Supersede, Supersedable, OnDisk, Free
    <3>2. CASE y = n
      BY <3>1, <3>2 DEF LifeCycle
    <3>3. CASE y = x
      BY <3>1, <3>3 DEF LifeCycle, Statuses
    <3>4. QED
      BY <3>1, <3>2, <3>3
  <2>6. ASSUME NEW x \in Ids, NEW caller \in Ranks, NEW cascade \in BOOLEAN,
               Cancel(x, caller, cascade)
        PROVE  << status[y], status'[y] >> \in LifeCycle
    <3>1. CASE y = x
      BY <2>6, <3>1 DEF Cancel, Cancellable, OnDisk, LifeCycle, Statuses
    <3>2. CASE y # x
      BY <2>6, <3>2 DEF Cancel, Cascade, OnDisk, LifeCycle, Statuses
    <3>3. QED
      BY <3>1, <3>2
  <2>7. QED
    BY <2>2, <2>3, <2>4, <2>5, <2>6 DEF Next, Expand, Collapse, vars
<1>2. TypeOK /\ [Next]_vars =>
        [ \A x \in Ids : status'[x] # status[x] =>
            << status[x], status'[x] >> \in LifeCycle ]_vars
  BY <1>1
<1>3. QED
  BY <1>2, GraphTypes, PTL DEF Spec, StatusFollowsLifeCycle

\* Nothing goes stale but the direct, same-scope dependents of the record that
\* is being cancelled in the same step.
THEOREM StalenessIsBounded == Spec => StaleOnlyByDirectCancel
<1>1. ASSUME TypeOK, [Next]_vars, NEW y \in Ids, status[y] # "stale", status'[y] = "stale"
      PROVE  \E d \in authored[y].depends_on :
               /\ status[d] # "cancelled" /\ status'[d] = "cancelled"
               /\ authored[d].scope = authored[y].scope
  <2> USE <1>1 DEF TypeOK
  <2>1. ASSUME NEW x \in Ids, NEW caller \in Ranks, NEW cascade \in BOOLEAN,
               Cancel(x, caller, cascade)
        PROVE  \E d \in authored[y].depends_on :
                 /\ status[d] # "cancelled" /\ status'[d] = "cancelled"
                 /\ authored[d].scope = authored[y].scope
    BY <2>1 DEF Cancel, Cancellable, Cascade, OnDisk
  <2>2. ASSUME NEW x \in Ids, NEW n \in Free, Supersede(x, n)
        PROVE  FALSE
    BY <2>2 DEF Supersede, Free
  <2>3. QED
    BY <2>1, <2>2 DEF Next, New, Resolve, Expand, Collapse, Promote, vars
<1>2. TypeOK /\ [Next]_vars =>
        [ \A x \in Ids : status[x] # "stale" /\ status'[x] = "stale" =>
            \E d \in authored[x].depends_on :
              /\ status[d] # "cancelled" /\ status'[d] = "cancelled"
              /\ authored[d].scope = authored[x].scope ]_vars
  BY <1>1
<1>3. QED
  BY <1>2, GraphTypes, PTL DEF Spec, StaleOnlyByDirectCancel

\* Provenance, lineage pointers and cancellation stamps are never lost.
THEOREM HistoryIsKept == Spec => HistoryKept
<1> DEFINE Kept(x) == status[x] # Absent =>
             /\ status'[x] # Absent
             /\ authored'[x] = authored[x]
             /\ superseded_by[x] # None => superseded_by'[x] # None
             /\ cancelled_at[x] => cancelled_at'[x]
<1>1. ASSUME TypeOK, [Next]_vars, NEW y \in Ids
      PROVE  Kept(y)
  <2> USE <1>1 DEF TypeOK, Absent
  <2>1. ASSUME NEW x \in Free, NEW s \in Scopes, NEW r \in Ranks,
               NEW D \in SmallDeps, NEW p \in Folders, NEW o \in Replaceable,
               New(x, s, r, D, p, o)
        PROVE  Kept(y)
    BY <2>1 DEF New, Author, Free
  <2>2. ASSUME NEW e \in Events, NEW x \in Free, NEW s \in Scopes, NEW r \in Ranks,
               Promote(e, x, s, r)
        PROVE  Kept(y)
    BY <2>2 DEF Promote, Author, Free
  <2>3. ASSUME NEW x \in Ids, NEW n \in Free, Supersede(x, n)
        PROVE  Kept(y)
    BY <2>3, NoneAssumption DEF Supersede, Author, Free
  <2>4. ASSUME NEW x \in Ids, NEW caller \in Ranks, NEW cascade \in BOOLEAN,
               Cancel(x, caller, cascade)
        PROVE  Kept(y)
    BY <2>4 DEF Cancel, Stamped
  <2>5. QED
    BY <2>1, <2>2, <2>3, <2>4 DEF Next, Resolve, Resolvable, Expand, Collapse, vars
<1>2. TypeOK /\ [Next]_vars => [ \A x \in Ids : Kept(x) ]_vars
  BY <1>1
<1>3. QED
  BY <1>2, GraphTypes, PTL DEF Spec, HistoryKept
=============================================================================
