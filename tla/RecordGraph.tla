---------------------------- MODULE RecordGraph ----------------------------
(***************************************************************************)
(* The (I, R) record graph of one repository and the kernel.ir.* operations *)
(* that change it: new, resolve, expand, collapse, promote, supersede,      *)
(* cancel (src/src/eightos/sdk/ir_ops.py).                                  *)
(*                                                                         *)
(* Each operation is one atomic step here: one caller, no crash.  How an    *)
(* operation reaches the disk file by file is the subject of KernelCommit.  *)
(* A call the code rejects changes nothing and is a stuttering step, so     *)
(* only the accepting path of every handler is an action.  The policy and   *)
(* lease phase that new and cancel run first can only reject; what it       *)
(* decides is the subject of PolicyPipeline.  What new does next for a      *)
(* proposal to the calibrator is not part of this module.                   *)
(*                                                                         *)
(* Records are ordinary tier 1 records: the kernel-configuration and tier 2 *)
(* records, which `new` files under ir/_kernel and ir/_ops and which have   *)
(* no child folder, follow the same life cycle without the parent rule.     *)
(***************************************************************************)
EXTENDS Naturals, FiniteSets

CONSTANTS
  Ids,        \* record identifiers (slugs and the .sN names of successors)
  Scopes,     \* declared scopes
  Ranks,      \* ranks of the authority levels in use (_AUTHORITY_RANK)
  Events,     \* tier 3 events already in the ledger, candidates for promotion
  MaxDeps,    \* bound: depends_on of a new record names at most MaxDeps ids
  None        \* the null of a frontmatter field

ASSUME RanksAssumption == Ranks \subseteq 0 .. 2 /\ Ranks # {}
ASSUME ScopesAssumption == Scopes # {}    \* kernel.init declares a primary scope
ASSUME NoneAssumption  == None \notin Ids
ASSUME BoundAssumption == MaxDeps \in Nat

VARIABLES
  status,        \* frontmatter status of every id, "absent" before authoring
  authored,      \* the part of the frontmatter fixed when the id is authored
  superseded_by, \* forward pointer to the successor
  expanded_into, \* self reference written by expand
  node,          \* TRUE iff the file of the record is <folder>/_node.md
  cancelled_at,  \* TRUE iff the frontmatter carries a cancelled_at stamp
  promoted_to,   \* records named by the promotion markers of an event
  now            \* now_iso(), counted in authored records

vars == << status, authored, superseded_by, expanded_into, node,
           cancelled_at, promoted_to, now >>

Absent == "absent"
Statuses == { "open", "resolved", "stale", "superseded", "cancelled" }

\* The fields that no operation rewrites once the record is on disk.
Provenance == [ scope        : Scopes,
                depends_on   : SUBSET Ids,
                parent       : Ids \cup {None},
                supersedes   : Ids \cup {None},
                authority    : Ranks,
                authored_on  : Nat ]

\* Ids the id-to-path index knows: those with a file.
OnDisk == { x \in Ids : status[x] # Absent }

TypeOK ==
  /\ status        \in [ Ids -> Statuses \cup {Absent} ]
  /\ authored      \in [ Ids -> Provenance ]
  /\ superseded_by \in [ Ids -> Ids \cup {None} ]
  /\ expanded_into \in [ Ids -> Ids \cup {None} ]
  /\ node          \in [ Ids -> BOOLEAN ]
  /\ cancelled_at  \in [ Ids -> BOOLEAN ]
  /\ promoted_to   \in [ Events -> SUBSET Ids ]
  /\ now           \in Nat

-----------------------------------------------------------------------------
\* What ids that are not on disk hold; it is never read.
Blank == [ scope       |-> CHOOSE s \in Scopes : TRUE,
           depends_on  |-> {},
           parent      |-> None,
           supersedes  |-> None,
           authority   |-> CHOOSE r \in Ranks : TRUE,
           authored_on |-> 0 ]

\* kernel.init leaves no open work behind.  Its one record in the primary scope
\* is born resolved with no dependencies, like a promoted event, so starting
\* from the empty graph loses nothing.
Init ==
  /\ status        = [ x \in Ids |-> Absent ]
  /\ authored      = [ x \in Ids |-> Blank ]
  /\ superseded_by = [ x \in Ids |-> None ]
  /\ expanded_into = [ x \in Ids |-> None ]
  /\ node          = [ x \in Ids |-> FALSE ]
  /\ cancelled_at  = [ x \in Ids |-> FALSE ]
  /\ promoted_to   = [ e \in Events |-> {} ]
  /\ now           = 0

\* An id is minted at most once, whatever became of its record.
Free == { x \in Ids : status[x] = Absent }

\* The provenance written when x is authored: scope, dependencies, parent,
\* predecessor and authority, stamped with the time.
Author(x, s, D, p, o, r) ==
  /\ x \in Free
  /\ authored' = [ authored EXCEPT ![x] =
       [ scope |-> s, depends_on |-> D, parent |-> p, supersedes |-> o,
         authority |-> r, authored_on |-> now + 1 ] ]
  /\ now' = now + 1

-----------------------------------------------------------------------------
\* kernel.ir.new: the id is unused, dependencies and parent exist, the parent
\* is expanded on disk, a supersedes target is cancelled.
AnyIds == SUBSET Ids                             \* mutant of Dependencies

Dependencies == SUBSET OnDisk

Folders == { None } \cup { p \in OnDisk : node[p] }

Replaceable == { None } \cup { o \in OnDisk : status[o] = "cancelled" }

New(x, s, r, D, p, o) ==
  /\ D \in Dependencies
  /\ p \in Folders
  /\ o \in Replaceable
  /\ Author(x, s, D, p, o, r)
  /\ status' = [ status EXCEPT ![x] = "open" ]
  /\ UNCHANGED << superseded_by, expanded_into, node, cancelled_at, promoted_to >>

\* kernel.ir.resolve: only an open record takes a resolution.
ResolvableOrStale(x) == status[x] \in { "open", "stale" }    \* mutant of Resolvable

Resolvable(x) == status[x] = "open"

Resolve(x) ==
  /\ Resolvable(x)
  /\ status' = [ status EXCEPT ![x] = "resolved" ]
  /\ UNCHANGED << authored, superseded_by, expanded_into, node, cancelled_at,
                  promoted_to, now >>

-----------------------------------------------------------------------------
\* kernel.ir.expand: <slug>.md becomes <slug>/_node.md.  The status of the
\* record is not consulted.
Expand(x) ==
  /\ x \in OnDisk
  /\ ~node[x]
  /\ node' = [ node EXCEPT ![x] = TRUE ]
  /\ expanded_into' = [ expanded_into EXCEPT ![x] = x ]
  /\ UNCHANGED << status, authored, superseded_by, cancelled_at, promoted_to, now >>

\* The files beside _node.md in the folder of x.  A successor of a child is
\* written beside the child, so the parent field tells the folder.
OpenFiles(x) == { c \in OnDisk : authored[c].parent = x /\ status[c] = "open" }    \* mutant of Folder

Folder(x) == { c \in OnDisk : authored[c].parent = x }

\* kernel.ir.collapse: an expanded record whose folder holds nothing else.
Collapse(x) ==
  /\ x \in OnDisk
  /\ node[x]
  /\ Folder(x) = {}
  /\ node' = [ node EXCEPT ![x] = FALSE ]
  /\ expanded_into' = [ expanded_into EXCEPT ![x] = None ]
  /\ UNCHANGED << status, authored, superseded_by, cancelled_at, promoted_to, now >>

-----------------------------------------------------------------------------
\* kernel.ir.promote: a ledger event becomes a record that is born resolved,
\* and a marker naming it is appended to the ledger.
Marker(e, x) == promoted_to[e] \cup {x}

Promote(e, x, s, r) ==
  /\ Author(x, s, {}, None, None, r)
  /\ status' = [ status EXCEPT ![x] = "resolved" ]
  /\ promoted_to' = [ promoted_to EXCEPT ![e] = Marker(e, x) ]
  /\ UNCHANGED << superseded_by, expanded_into, node, cancelled_at >>

-----------------------------------------------------------------------------
\* kernel.ir.supersede: the only status it refuses is "superseded".
Supersedable(x) == x \in OnDisk /\ status[x] # "superseded"

\* The successor n copies the frontmatter of x, expanded_into and the cancelled
\* stamp included, and is written as a plain file beside x.
NoDeps(x) == {}                                  \* mutant of SuccessorDeps

SuccessorDeps(x) == authored[x].depends_on

SameShape(x) == node[x]                          \* mutant of SuccessorIsFolder

SuccessorIsFolder(x) == FALSE

Supersede(x, n) ==
  /\ Supersedable(x)
  /\ Author(n, authored[x].scope, SuccessorDeps(x), authored[x].parent,
            x, authored[x].authority)
  /\ status' = [ status EXCEPT ![x] = "superseded", ![n] = "open" ]
  /\ superseded_by' = [ superseded_by EXCEPT ![x] = n, ![n] = None ]
  /\ expanded_into' = [ expanded_into EXCEPT ![n] = expanded_into[x] ]
  /\ cancelled_at' = [ cancelled_at EXCEPT ![n] = cancelled_at[x] ]
  /\ node' = [ node EXCEPT ![n] = SuccessorIsFolder(x) ]
  /\ UNCHANGED promoted_to

-----------------------------------------------------------------------------
\* kernel.ir.cancel: neither cancelled nor superseded, and the bridge of the
\* caller conveys at least the authority of the record.
Cancellable(x, caller) ==
  /\ x \in OnDisk
  /\ status[x] \notin { "cancelled", "superseded" }
  /\ caller >= authored[x].authority

\* The cascade: one hop along deps-reverse, records that see the scope of x
\* (visible_to is the record's own scope), skipping stale and cancelled ones.
CascadeEverywhere(x) ==                          \* mutant of Cascade: no visibility bound
  { d \in OnDisk : x \in authored[d].depends_on /\ status[d] \notin { "stale", "cancelled" } }

CascadeTwoHops(x) ==                             \* mutant of Cascade: transitive
  { d \in OnDisk : /\ \/ x \in authored[d].depends_on
                      \/ \E e \in authored[d].depends_on : x \in authored[e].depends_on
                   /\ status[d] \notin { "stale", "cancelled" }
                   /\ authored[d].scope = authored[x].scope }

Cascade(x) ==
  { d \in OnDisk : /\ x \in authored[d].depends_on
                   /\ status[d] \notin { "stale", "cancelled" }
                   /\ authored[d].scope = authored[x].scope }

Stamped(x) == [ cancelled_at EXCEPT ![x] = TRUE ]

Cancel(x, caller, cascade) ==
  /\ Cancellable(x, caller)
  /\ status' = [ d \in Ids |->
                   IF d = x THEN "cancelled"
                   ELSE IF cascade /\ d \in Cascade(x) THEN "stale"
                   ELSE status[d] ]
  /\ cancelled_at' = Stamped(x)
  /\ UNCHANGED << authored, superseded_by, expanded_into, node, promoted_to, now >>

-----------------------------------------------------------------------------
SmallDeps == { D \in Dependencies : Cardinality(D) <= MaxDeps }

Next ==
  \/ \E x \in Free, s \in Scopes, r \in Ranks, D \in SmallDeps, p \in Folders,
        o \in Replaceable : New(x, s, r, D, p, o)
  \/ \E x \in Ids : Resolve(x)
  \/ \E x \in Ids : Expand(x)
  \/ \E x \in Ids : Collapse(x)
  \/ \E e \in Events, x \in Free, s \in Scopes, r \in Ranks : Promote(e, x, s, r)
  \/ \E x \in Ids, n \in Free : Supersede(x, n)
  \/ \E x \in Ids, caller \in Ranks, cascade \in BOOLEAN : Cancel(x, caller, cascade)

Spec == Init /\ [][Next]_vars

-----------------------------------------------------------------------------
(* Safety *)

\* Causal order (spec 14.3): every id a record points back to, in depends_on,
\* parent or supersedes, was authored before it.  So dependencies, folders and
\* lineages are all acyclic, whatever mix of new, promote and supersede built
\* them, and a walk along any of them ends.
Earlier(x, y) == x \in OnDisk /\ authored[x].authored_on < authored[y].authored_on

CausalOrder ==
  \A y \in OnDisk :
    /\ authored[y].authored_on <= now
    /\ \A x \in authored[y].depends_on : Earlier(x, y)
    /\ authored[y].parent # None => Earlier(authored[y].parent, y)
    /\ authored[y].supersedes # None => Earlier(authored[y].supersedes, y)

\* A forward pointer always has its back pointer: the successor a record names
\* exists, names that record in supersedes, and lives in the same scope with
\* the same dependencies, folder and authority.
LineagePaired ==
  \A x \in OnDisk : superseded_by[x] # None =>
    LET n == superseded_by[x] IN
      /\ n \in OnDisk
      /\ authored[n].supersedes = x
      /\ authored[n].scope = authored[x].scope
      /\ authored[n].depends_on = authored[x].depends_on
      /\ authored[n].parent = authored[x].parent
      /\ authored[n].authority = authored[x].authority

\* A back pointer is never idle: its target was retired by a cancellation
\* (new with supersedes) or by a supersession.
LineageAnchored ==
  \A x \in OnDisk : authored[x].supersedes # None =>
    LET o == authored[x].supersedes IN
      cancelled_at[o] \/ superseded_by[o] # None

\* Every pointer of a lineage, forward or back, can be followed and was earned.
LineageSound == LineagePaired /\ LineageAnchored

\* A record that still answers for its intention, open or resolved, is the end
\* of its lineage: nothing has replaced it.  It holds although a superseded
\* record may go stale, because resolve refuses stale records.
LiveIsHead ==
  \A x \in OnDisk : status[x] \in { "open", "resolved" } => superseded_by[x] = None

\* A stale record is stale for a reason that can still be found: one of its own
\* dependencies, in its own scope, carries the stamp of a cancellation.
StaleHasCause ==
  \A x \in OnDisk : status[x] = "stale" =>
    \E d \in authored[x].depends_on :
      cancelled_at[d] /\ authored[d].scope = authored[x].scope

\* Retired records carry the evidence of it: what reindex check demands of
\* cancelled records, and a successor for every superseded one.
RetiredHasEvidence ==
  \A x \in OnDisk :
    /\ status[x] = "cancelled"  => cancelled_at[x]
    /\ status[x] = "superseded" => superseded_by[x] # None

\* No operation strands a file: a record with a parent lies in the folder of a
\* record that is still expanded.
FolderTree ==
  \A x \in OnDisk : authored[x].parent # None => node[authored[x].parent]

\* An expanded record points to itself; a plain file points to itself never or,
\* once superseded into being, to an ancestor of its lineage that was expanded
\* when the mark was copied (ir_ops.py:1626).  The walker takes any mark for that
\* of a folder and passes over such a successor for ever.
ExpandedMarkInherited ==
  \A x \in OnDisk :
    /\ node[x] <=> expanded_into[x] = x
    /\ expanded_into[x] \notin { None, x } =>
         authored[x].supersedes # None /\ Earlier(expanded_into[x], x)

\* Proved of every repository: walks end.  Whatever set of records a reader stays
\* in, one of them points back to none of the set, by dependency, folder or
\* predecessor, and one of them has no successor in it.
BackFrom(y) == authored[y].depends_on \cup { authored[y].parent, authored[y].supersedes }

WalksEnd ==
  \A S \in SUBSET OnDisk : S # {} =>
    /\ \E y \in S : BackFrom(y) \cap S = {}
    /\ \E x \in S : superseded_by[x] \notin S

-----------------------------------------------------------------------------
(* What a step may never do *)

\* The life cycle the seven operations implement together.  It is the table of
\* spec 5.2 without its two revalidation rows (resolve refuses stale records)
\* and with the two last rows, which the table forbids and supersede and the
\* cascade of cancel nevertheless take.
LifeCycle ==
  { << "absent",     "open"       >>, << "absent",     "resolved"   >>,
    << "open",       "resolved"   >>, << "open",       "stale"      >>,
    << "open",       "superseded" >>, << "open",       "cancelled"  >>,
    << "resolved",   "stale"      >>, << "resolved",   "superseded" >>,
    << "resolved",   "cancelled"  >>, << "stale",      "superseded" >>,
    << "stale",      "cancelled"  >>, << "cancelled",  "superseded" >>,
    << "superseded", "stale"      >> }

StatusFollowsLifeCycle ==
  [][ \A x \in Ids : status'[x] # status[x] =>
                       << status[x], status'[x] >> \in LifeCycle ]_vars

\* Staleness appears only in the step that cancels a direct dependency in the
\* same scope: the cascade is one hop, bounded by visibility, and nothing else
\* ever marks a record stale.
StaleOnlyByDirectCancel ==
  [][ \A x \in Ids : status[x] # "stale" /\ status'[x] = "stale" =>
        \E d \in authored[x].depends_on :
          /\ status[d] # "cancelled" /\ status'[d] = "cancelled"
          /\ authored[d].scope = authored[x].scope ]_vars

\* History is append-only: what a record was authored with never changes, a
\* lineage pointer or a cancellation stamp once written is never erased, and
\* no id that has been used goes back to being free.
HistoryKept ==
  [][ \A x \in Ids : status[x] # Absent =>
        /\ status'[x] # Absent
        /\ authored'[x] = authored[x]
        /\ superseded_by[x] # None => superseded_by'[x] # None
        /\ cancelled_at[x] => cancelled_at'[x] ]_vars

-----------------------------------------------------------------------------
(* What the documents say and the code does not do *)

\* reindex check: no record may have superseded_by pointing to a cancelled one.
ReindexLineageValid ==
  \A x \in OnDisk : superseded_by[x] # None => status[superseded_by[x]] # "cancelled"
=============================================================================
