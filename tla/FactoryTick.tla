---------------------------- MODULE FactoryTick ----------------------------
(***************************************************************************)
(* The factory: one driver that calls tick again and again on a scope, next *)
(* to people and other sessions that author, cancel, supersede, resolve,    *)
(* expand and collapse records of the scope meanwhile                       *)
(* (src/src/eightos/factory/tick.py, walker.py, materializer.py,            *)
(* dispatcher.py, sdk/selector_op.py, calibration.py).                      *)
(*                                                                         *)
(* A tick walks the scope once and then works off the leaves it found, one  *)
(* by one and without looking again.  Between any two of its steps lies a   *)
(* call of a resolver, which may take minutes.  Kernel operations are       *)
(* atomic here; KernelCommit looks inside them.                             *)
(***************************************************************************)
EXTENDS Integers, Sequences, FiniteSets, Functions

CONSTANTS
  Ids,          \* ids of work records of the scope; names sort as numbers
  Policies,     \* active calibration policies
  PolicyOf,     \* find_active_policy of every record, or None
  Counted,      \* records dispatched under the domain that their policy names
  GraphSpecs,   \* what a graph-producing resolver may answer
  Cycle,        \* 1 / holdout_rate
  MaxFailures,  \* bound: answers that bring the leaf no further
  MaxEdits,     \* bound: what people do to records that exist
  None

Node == [ id : Ids, deps : SUBSET Ids ]

ASSUME IdsAssumption    == Ids \subseteq Nat /\ None \notin Ids
ASSUME PolicyAssumption == PolicyOf \in [ Ids -> Policies \cup {None} ] /\ None \notin Policies
ASSUME SpecAssumption   == GraphSpecs \subseteq Seq(Node)
ASSUME CycleAssumption  == Cycle \in Nat \ {0}
ASSUME BoundAssumption  == MaxFailures \in Nat /\ MaxEdits \in Nat

VARIABLES
  status, deps, parent,  \* frontmatter of every record
  form,       \* "file": expanded_into is null; "folder": <id>/_node.md;
              \* "copy": a file that has the expanded_into of its predecessor
  predicted,  \* records for which a prediction is on disk
  counts,     \* selection events that count for a policy
  pc, batch, marker, cur, holdout, spec, todo,     \* the tick: see TypeOK
  missed,     \* history: leaves of the batch without a counted selection
  done,       \* history: records that were resolved at some time
  outcome,    \* history: what a dispatch of the factory made of a record
  failures, edits

records == << status, deps, parent, form >>
stream  == << predicted, counts, missed >>
bounds  == << failures, edits >>
vars == << records, stream, pc, batch, marker, cur, holdout, spec, todo, done, outcome, bounds >>

TypeOK ==
  /\ status    \in [ Ids -> { "absent", "open", "resolved", "stale", "superseded", "cancelled" } ]
  /\ deps      \in [ Ids -> SUBSET Ids ]
  /\ parent    \in [ Ids -> Ids \cup {None} ]
  /\ form      \in [ Ids -> { "file", "folder", "copy" } ]
  /\ predicted \subseteq Ids
  /\ counts    \in [ Policies -> Nat ]
  /\ pc        \in { "between", "select", "run", "resolve", "expand", "author" }
  /\ batch     \subseteq Ids                    \* leaves of the walk still to come
  /\ marker    \in [ Ids -> BOOLEAN ]           \* holdout_decisions of the batch
  /\ cur       \in Ids \cup {None}              \* the leaf under dispatch
  /\ holdout   \in BOOLEAN                      \* what its selection decided
  /\ spec      \in Seq(Node)                    \* the graph to materialize
  /\ todo      \in Seq(Node)                    \* its nodes still to author, in order
  /\ missed    \subseteq Ids
  /\ done      \subseteq Ids
  /\ outcome   \in [ Ids -> { "none", "value", "graph" } ]
  /\ failures  \in 0 .. MaxFailures
  /\ edits     \in 0 .. MaxEdits

Init ==
  /\ status    = [ r \in Ids |-> "absent" ]
  /\ deps      = [ r \in Ids |-> {} ]
  /\ parent    = [ r \in Ids |-> None ]
  /\ form      = [ r \in Ids |-> "file" ]
  /\ predicted = {}
  /\ counts    = [ p \in Policies |-> 0 ]
  /\ pc        = "between"
  /\ batch     = {}
  /\ marker    = [ r \in Ids |-> FALSE ]
  /\ cur       = None
  /\ holdout   = FALSE
  /\ spec      = <<>>
  /\ todo      = <<>>
  /\ missed    = {}
  /\ done      = {}
  /\ outcome   = [ r \in Ids |-> "none" ]
  /\ failures  = 0
  /\ edits     = 0

Present == { r \in Ids : status[r] # "absent" }

-----------------------------------------------------------------------------
(* The walk *)

NoneOpen(r) == \A d \in deps[r] : status[d] # "open"    \* mutant of Unblocked

Unblocked(r) == \A d \in deps[r] : status[d] = "resolved"

OpenAndUnblocked(r) == status[r] = "open" /\ Unblocked(r)    \* mutant of Leaf

\* _is_dispatchable_leaf.  A dependency that is not in the scope would have
\* status "absent".
Leaf(r) == status[r] = "open" /\ form[r] = "file" /\ Unblocked(r)

\* should_holdout
Holdout(counter) == counter % Cycle = 0

AnyPosition(leaves, r) == Cardinality({ k \in leaves : k < r })    \* mutant of Position

\* The position of a leaf among the leaves of its policy.
Position(leaves, r) == Cardinality({ k \in leaves : k < r /\ PolicyOf[k] = PolicyOf[r] })

\* _compute_batch_holdouts
Holdouts(leaves) ==
  [ r \in Ids |-> r \in leaves /\ PolicyOf[r] # None
                    /\ Holdout(counts[PolicyOf[r]] + Position(leaves, r)) ]

Walk ==
  /\ pc = "between" /\ batch = {}
  /\ batch' = { r \in Ids : Leaf(r) }
  /\ marker' = Holdouts(batch')
  /\ missed' = {}
  /\ UNCHANGED << records, predicted, counts, pc, cur, holdout, spec, todo, done, outcome, bounds >>

-----------------------------------------------------------------------------
(* The dispatch of one leaf *)

\* _dispatch_one returns, and tick goes on to the next leaf.
Return ==
  /\ pc' = "between" /\ cur' = None /\ holdout' = FALSE /\ spec' = <<>> /\ todo' = <<>>
  /\ UNCHANGED << batch, marker >>

\* Something on the way raised an exception or led nowhere.
Miscarry == failures < MaxFailures /\ failures' = failures + 1 /\ UNCHANGED edits

\* tick goes through the leaves in the order of their ids.
NextLeaf(l) == pc = "between" /\ l \in batch /\ \A k \in batch : l =< k

\* The predictor answers and _author_prediction authors its prediction; a leaf
\* without a policy has no predictor.
Begin(l) ==
  /\ NextLeaf(l)
  /\ batch' = batch \ {l}
  /\ cur' = l
  /\ pc' = "select"
  /\ predicted' = IF PolicyOf[l] = None THEN predicted ELSE predicted \cup {l}
  /\ UNCHANGED << records, counts, missed, marker, holdout, spec, todo, done, outcome, bounds >>

PredictorFails(l) ==
  /\ NextLeaf(l)
  /\ PolicyOf[l] # None
  /\ batch' = batch \ {l}
  /\ missed' = missed \cup {l}
  /\ Miscarry
  /\ UNCHANGED << records, predicted, counts, marker, pc, cur, holdout, spec, todo, done, outcome >>

\* kernel.selector.select of a leaf with a policy and a prediction: the value
\* of information may call for any strategy, a holdout for the ground truth.
\* Picking the predictor means to resolve with the prediction.  The event counts
\* for the policy if it carries the domain that the policy names.
Consult ==
  /\ pc = "select" /\ cur \in predicted /\ PolicyOf[cur] # None
  /\ holdout' = Holdout(counts[PolicyOf[cur]])
  /\ pc' \in { "run", "resolve" }
  /\ holdout' => pc' = "run"
  /\ IF cur \in Counted
       THEN counts' = [ counts EXCEPT ![PolicyOf[cur]] = @ + 1 ] /\ UNCHANGED missed
       ELSE missed' = missed \cup {cur} /\ UNCHANGED counts
  /\ UNCHANGED << records, predicted, batch, marker, cur, spec, todo, done, outcome, bounds >>

\* kernel.selector.select by fitness alone.
SelectByFitness ==
  /\ pc = "select" /\ PolicyOf[cur] = None
  /\ pc' = "run"
  /\ UNCHANGED << records, stream, batch, marker, cur, holdout, spec, todo, done, outcome, bounds >>

NoResolver ==
  /\ pc = "select" /\ PolicyOf[cur] = None
  /\ Miscarry /\ Return
  /\ UNCHANGED << records, stream, done, outcome >>

\* dispatch: the resolver, or the bridge it is behind, answers with a value.
AnswerValue ==
  /\ pc = "run"
  /\ pc' = "resolve"
  /\ UNCHANGED << records, stream, batch, marker, cur, holdout, spec, todo, done, outcome, bounds >>

AnswerGraph(s) ==
  /\ pc = "run" /\ s # <<>>
  /\ spec' = s
  /\ pc' = "expand"
  /\ UNCHANGED << records, stream, batch, marker, cur, holdout, todo, done, outcome, bounds >>

\* materialize of a graph without nodes does nothing, and dispatch reports ok.
AnswerNothing ==
  /\ pc = "run" /\ <<>> \in GraphSpecs
  /\ Miscarry /\ Return
  /\ UNCHANGED << records, stream, done, outcome >>

AnswerFails ==
  /\ pc = "run"
  /\ Miscarry /\ Return
  /\ UNCHANGED << records, stream, done, outcome >>

\* kernel.ir.resolve, with the answer or with the prediction.
Resolve ==
  /\ pc = "resolve" /\ status[cur] = "open"
  /\ status' = [ status EXCEPT ![cur] = "resolved" ]
  /\ done' = done \cup {cur}
  /\ outcome' = [ outcome EXCEPT ![cur] = "value" ]
  /\ Return
  /\ UNCHANGED << deps, parent, form, stream, bounds >>

\* Somebody resolved, cancelled or superseded the record since the walk, or a
\* cascade made it stale.
ResolveRefused ==
  /\ pc = "resolve" /\ status[cur] # "open"
  /\ Return
  /\ UNCHANGED << records, stream, done, outcome, bounds >>

-----------------------------------------------------------------------------
(* Materialization *)

NodeIds(s, S) == { s[i].id : i \in S }

\* The ids are distinct, and every dependency is a node of the graph.
WellFormed(s) ==
  /\ \A i, j \in DOMAIN s : s[i].id = s[j].id => i = j
  /\ \A i \in DOMAIN s : s[i].deps \subseteq NodeIds(s, DOMAIN s)

AnyNode(s, out) == DOMAIN s \ out                  \* mutant of ReadyNodes

\* When the nodes of out are emitted, the others that wait for none but these.
ReadyNodes(s, out) == { i \in DOMAIN s \ out : s[i].deps \subseteq NodeIds(s, out) }

\* Kahn's loop: of the ready nodes the first in the source is emitted.
Emitted(s) ==
  LET upTo[n \in 0 .. Len(s)] ==
        IF n = 0 THEN <<>>
        ELSE LET ready == ReadyNodes(s, Range(upTo[n - 1]))
             IN  IF ready = {} THEN upTo[n - 1]
                 ELSE Append(upTo[n - 1], CHOOSE i \in ready : \A j \in ready : i =< j)
  IN  upTo[Len(s)]

\* _toposort raises unless it emits all nodes of a well-formed graph.
Orderable(s) == WellFormed(s) /\ Len(Emitted(s)) = Len(s)

Ordered(s) == [ k \in DOMAIN Emitted(s) |-> s[Emitted(s)[k]] ]

Untouched(r) == form                               \* mutant of Expanded

\* kernel.ir.expand, which does not look at the status.
Expanded(r) == [ form EXCEPT ![r] = "folder" ]

\* _ensure_parent_expanded, whatever became of the record since the walk, and
\* only then _toposort.
Expand ==
  /\ pc = "expand"
  /\ form' = Expanded(cur)
  /\ IF Orderable(spec)
       THEN /\ pc' = "author" /\ todo' = Ordered(spec)
            /\ UNCHANGED << batch, marker, cur, holdout, spec >>
       ELSE Return
  /\ UNCHANGED << status, deps, parent, stream, done, outcome, bounds >>

\* kernel.ir.new of a child: its id is free, its dependencies exist and its
\* parent is expanded.
Acceptable(n) ==
  /\ status[n.id] = "absent"
  /\ n.deps \subseteq Present
  /\ form[cur] = "folder"

NewChild ==
  /\ pc = "author" /\ Acceptable(Head(todo))
  /\ status' = [ status EXCEPT ![Head(todo).id] = "open" ]
  /\ deps' = [ deps EXCEPT ![Head(todo).id] = Head(todo).deps ]
  /\ parent' = [ parent EXCEPT ![Head(todo).id] = cur ]
  /\ IF Len(todo) = 1
       THEN outcome' = [ outcome EXCEPT ![cur] = "graph" ] /\ Return
       ELSE /\ todo' = Tail(todo)
            /\ UNCHANGED << outcome, pc, batch, marker, cur, holdout, spec >>
  /\ UNCHANGED << form, stream, done, bounds >>

ChildRefused ==
  /\ pc = "author" /\ ~Acceptable(Head(todo))
  /\ Return
  /\ UNCHANGED << records, stream, done, outcome, bounds >>

\* A policy or a lease forbids the record.
ChildForbidden ==
  /\ pc = "author"
  /\ Miscarry /\ Return
  /\ UNCHANGED << records, stream, done, outcome >>

-----------------------------------------------------------------------------
(* People and other sessions *)

factory == << predicted, counts, missed, pc, batch, marker, cur, holdout, spec, todo, outcome, failures >>

Edit == edits < MaxEdits /\ edits' = edits + 1

\* kernel.ir.new
Author(r, D, p) ==
  /\ r \notin Present
  /\ D \subseteq Present
  /\ p # None => p \in Present /\ form[p] = "folder"
  /\ status' = [ status EXCEPT ![r] = "open" ]
  /\ deps' = [ deps EXCEPT ![r] = D ]
  /\ parent' = [ parent EXCEPT ![r] = p ]
  /\ UNCHANGED << form, done, edits, factory >>

\* kernel.ir.resolve by somebody else.
ResolveByHand(r) ==
  /\ Edit
  /\ status[r] = "open"
  /\ status' = [ status EXCEPT ![r] = "resolved" ]
  /\ done' = done \cup {r}
  /\ UNCHANGED << deps, parent, form, factory >>

\* kernel.ir.cancel with its cascade to those who depend on the record.
Cancel(r) ==
  /\ Edit
  /\ status[r] \in { "open", "resolved", "stale" }
  /\ status' = [ d \in Ids |->
       IF d = r THEN "cancelled"
       ELSE IF r \in deps[d] /\ status[d] \notin { "absent", "cancelled" } THEN "stale"
       ELSE status[d] ]
  /\ UNCHANGED << deps, parent, form, done, factory >>

\* kernel.ir.supersede: the successor inherits all but the resolution.
Supersede(r, n) ==
  /\ Edit
  /\ status[r] \notin { "absent", "superseded" }
  /\ n \notin Present
  /\ status' = [ status EXCEPT ![r] = "superseded", ![n] = "open" ]
  /\ deps' = [ deps EXCEPT ![n] = deps[r] ]
  /\ parent' = [ parent EXCEPT ![n] = parent[r] ]
  /\ form' = [ form EXCEPT ![n] = IF form[r] = "file" THEN "file" ELSE "copy" ]
  /\ UNCHANGED << done, factory >>

\* kernel.ir.expand of a record that need not be a leaf.
ExpandByHand(r) ==
  /\ Edit
  /\ r \in Present
  /\ form[r] # "folder"
  /\ form' = [ form EXCEPT ![r] = "folder" ]
  /\ UNCHANGED << status, deps, parent, done, factory >>

\* kernel.ir.collapse of a record whose folder holds no child.
Collapse(r) ==
  /\ Edit
  /\ form[r] = "folder"
  /\ \A c \in Ids : parent[c] # r
  /\ form' = [ form EXCEPT ![r] = "file" ]
  /\ UNCHANGED << status, deps, parent, done, factory >>

-----------------------------------------------------------------------------
Tick ==
  \/ Walk
  \/ \E l \in Ids : Begin(l)
  \/ \E l \in Ids : PredictorFails(l)
  \/ Consult
  \/ SelectByFitness
  \/ NoResolver
  \/ AnswerValue
  \/ \E s \in GraphSpecs : AnswerGraph(s)
  \/ AnswerNothing
  \/ AnswerFails
  \/ Resolve
  \/ ResolveRefused
  \/ Expand
  \/ NewChild
  \/ ChildRefused
  \/ ChildForbidden

Others ==
  \/ \E r \in Ids, D \in SUBSET Ids, p \in Ids \cup {None} : Author(r, D, p)
  \/ \E r \in Ids : ResolveByHand(r)
  \/ \E r \in Ids : Cancel(r)
  \/ \E r, n \in Ids : Supersede(r, n)
  \/ \E r \in Ids : ExpandByHand(r)
  \/ \E r \in Ids : Collapse(r)

Next == Tick \/ Others

Spec == Init /\ [][Next]_vars

\* The driver calls tick again as long as there are leaves, and every call of a
\* resolver returns.
FairSpec == Spec /\ WF_vars(Tick)

-----------------------------------------------------------------------------
(* Safety *)

\* The factory resolves or decomposes no record before everything that it
\* depends on was resolved, whatever was cancelled, superseded or expanded since
\* the walk.
InOrder == \A r \in Ids : outcome[r] # "none" => deps[r] \subseteq done

\* Once a dispatch resolved or decomposed a record, the factory never pays for
\* another dispatch of it.
NeverTwice ==
  /\ \A l \in batch : outcome[l] = "none"
  /\ cur # None => outcome[cur] = "none"

\* Materialization never stumbles over its own order: there is a next child, and
\* whatever it depends on is on disk.
PredecessorsFirst == pc = "author" => todo # <<>> /\ Head(todo).deps \subseteq Present

\* The holdout decision of a selection is the one the batch marker announced,
\* unless an earlier leaf of the same policy had no selection that counts.
MarkerExplained ==
  pc \notin { "between", "select" } /\ holdout # marker[cur] =>
    \E l \in missed \ {cur} : PolicyOf[l] = PolicyOf[cur]

(* Liveness *)

\* Every leaf is worked off in the end, or something else became of it: the
\* loop of the driver ends.
LeavesEnd == \A r \in Ids : Leaf(r) ~> ~Leaf(r)
=============================================================================
