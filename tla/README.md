# A verification development of the 8os kernel

8os keeps the work of a repository as *intention/resolution records*: one
markdown file per record under `ir/`, an append-only ledger of events under
`.8os/events/`, and a set of indexes under `.8os/index/` that every operation
decides by. This directory models the parts of it whose correctness depends on
the order in which things happen, checks them with TLC on small instances and
proves the central facts with TLAPS for every size. Paths in this file are
relative to the repository; most code is under `src/eightos/`.

Run `tlc -config X.cfg MCModule` for a run and `tlapm XProofs.tla` for a proof
module. `PROJECT.json` lists the runs, the lines every definition stands for,
a mutation of the code per property that makes the property fail, the hazards
and the theorems.

## 1. Inventory of the system

| Part | State it keeps | Operations | Talks to | What is hard | What makes it correct |
|---|---|---|---|---|---|
| Record graph, `sdk/ir_ops.py` | frontmatter of each record: status, dependencies, parent, lineage, expansion | `kernel.ir.new resolve expand collapse promote supersede cancel` | policy phase, atomic batches, ledger, indexes | long sequences of legal calls; one-hop cascades; copied frontmatter | the graph is acyclic, lineages are paired, live records are heads, staleness has a cause, folders are a tree |
| Atomic batches, `_atomic.py` | temporary files, record files | `commit_staged`, `append_jsonl_line`, `atomic_write_text` | the file system | renames are separate steps, a crash falls between them | a batch is there in full or not at all |
| Ledger, `_events.py` | `.8os/events/*.jsonl` | append, scan | everything that commits | the event follows the commit | no event without its records, no record without its event |
| Indexes and reindex, `_indexes.py`, `sdk/reindex_op.py` | fifteen YAML files and a checksum | `compute_all`, `write_all`, `check_drift`, `kernel.reindex` | records and ledger | written one at a time; stale after a crash or as time passes | an index never names what is not there, and holds whatever was acknowledged |
| Policy phase, `op_pipeline.py` | policies, roles, policy-evaluation records | `evaluate_op_pre_commit`, `read_cached_evaluation`, `invalidate_cache_for_policy` | new, cancel, outside.http; authorizations | a cache next to its source of truth, invalidated after the commit | what is admitted was neither denied nor deferred by what was consulted; a retired policy decides nothing unless two things failed |
| Leases, `op_pipeline.py`, `_indexes.py` | lease records, lease-holders index, the clock | acquire (new), release (supersede, cancel), expiry, `_check_leases` | indexes, the cascade of cancel | expiry races the check; the index is stale; a cascade changes the status of leases | nobody writes through an acknowledged foreign lease; what ended revives in known ways only; every lease ends |
| Authorizations and gatekeeper, `sdk/authorize_op.py`, `sdk/gatekeeper_op.py` | authorization records with an expiry | `kernel.authorize`, `gatekeeper.check` | bridges, policy phase | times are compared as texts, check before use, only the latest authorization is judged | an answer is explained by the authorizations on file when it is given |
| Crossing, `sdk/outside_http_op.py`, `sdk/bridge_ops.py` | none of its own; appends events | `kernel.outside.http`, `kernel.bridge.cross` | policy phase, gatekeeper, the outside | the call comes before the event that records it; expiry, failures of the write, uncaught exceptions, retries | what the ledger says has happened, what is answered is true |
| Factory tick, `factory/*.py` | selection counters; the records it dispatches | walk, route, dispatch, materialize, recompose | record graph, selector, resolvers | a list of leaves used while the batch changes it; partial decompositions | nothing before what it depends on, nothing paid for twice, leaves run out |
| Calibrator, `calibration.py`, parts of `ir_ops.py` | calibration policies, proposals, predictions, corpus | dispatch inside `new`, proposal approval | authorizations, indexes | two proposals against one policy, a proposal that sets fields of the lineage, a dispatch of three commits, a corpus one operation old | every change was proposed and granted, what is approved is applied, what stays pending has a reason |
| Resolver selection, `sdk/selector_op.py` | selection records | `kernel.select` | factory | holdout sampling by counter | holdout frequency, deterministic choice |
| Predicates, value of information: `predicates.py`, `voi.py` | none | pure evaluation | policies, visibility | three-valued outcomes | agree with their reference definition |
| Bootstrap and migrations, `sdk/init_op.py`, `scripts/migrate-*.py` | `.8os/version`, vendored types, resolvers and bodies; every record of people | `kernel.init` fresh, upgrade, refresh; two scripts | one another, by what they leave on disk | many files and one version, deaths in between, what a run remembers, records passed over with a warning | a version means that the work is done but for known exceptions; nothing is lost; references hold |
| Projections, codecs, entry points, resolvers, bridges, workloads | none that changes after start | | | I/O and text | outside this development |

One process of the kernel runs at a time: `_atomic.py:43` relies on it ("single
writer") and section 13 of the specification leaves concurrent writers open. So
what interleaves here is not threads but *calls* of several callers, the
*steps* of one call with a crash, and the *clock* with all of them.

## 2. The modules

| Module | Models | Composes |
|---|---|---|
| `RecordGraph` | the seven `kernel.ir.*` operations as whole steps over the frontmatter | |
| `PolicyPipeline` | the policy phase: matching, decision, evaluation cache, invalidation, deferral | |
| `Leases` | leases, their index, the lease check, expiry, crashes | |
| `KernelRecords` | record files and batches, shared by the next two | |
| `RecordStore` | the abstract store: an operation takes effect at once and decides by the records | `KernelRecords` |
| `KernelCommit` | one process and its disk: stage, rename, log, index, crash, reindex | `KernelRecords`, refines `RecordStore` |
| `FactoryTick` | the driver loop, one dispatch after another, holdouts, materialization, and people who edit the scope meanwhile | |
| `Crossing` | authorization, gatekeeper, `outside.http` and `bridge.cross` step by step, the outside, failures, crashes | |
| `Calibrator` | calibration policies and their succession, proposals, standing authorizations, dispatch, corpus | |
| `Bootstrap` | init and the two migrations, file by file, with deaths | |
| `MC*` | instances for TLC: constraints, symmetry, contents | |
| `RecordGraphProofs`, `LeasesProofs`, `KernelCommitProofs`, `PolicyPipelineProofs`, `FactoryTickProofs`, `CrossingProofs`, `CalibratorProofs`, `BootstrapProofs` | theorems | |

### RecordGraph

Variables are the fields of the frontmatter: `status`, `authored` (the part that
is written once: scope, dependencies, parent, predecessor, authority and time),
`superseded_by`, `expanded_into`, `cancelled_at`, and besides them `node` (is the
file `<slug>/_node.md`) and `promoted_to` (promotion markers in the ledger). One
action per operation: `New Resolve Expand Collapse Promote Supersede Cancel`.
Guards are the handlers' checks; a refused call is a stutter. `Supersede` copies
what `dict(old_rec.frontmatter)` copies. `Cancel` carries the cascade in the same
step, because the handler stages it in the same batch. Texts, summaries,
projections and stakes are left out.

### PolicyPipeline

A call is one input by one caller. A policy is its status, what it says
(`content`: decision, the calls it applies to, the role memberships under which
its condition holds, the role it defers to), what it depends on and when it was
authored. `evals` are the policy-evaluation records. The three outcomes of
`evaluate_op_pre_commit` are three actions: no policy in force
(`CallUngoverned`), answered from the cache (`CallCached`), evaluated and stored
(`CallEvaluated`); `last` remembers what the last call got. Superseding a policy
walks the cache after its commit, and a crash in between skips the walk
(`crash`). The clock is a count of ten-second windows, because that is all the
id of an evaluation keeps of it. `walk`, whether a superseded policy has had its walk, is
history.

### Leases

`status`, `claim` and `through` (the `valid_through`, which resolving a lease may set)
are the lease records, `known` is id-to-path, `index` is lease-holders, `cancelled` the
records that are; `last` is the last accepted write, and `acked` the leases that a call
which returned has made active. `CancelRecord` and `CancelLease` carry the cascade:
leases that depend on what is cancelled go stale, superseded ones too, and a stale lease
counts as live for the check and for the index (`Active`). Which of the dependents it
reaches is a choice, as that is up to `cascade`, visibility and `deps-reverse`. Every
operation that commits ends in `WriteAll` or in `Crashed`, which leaves either both
indexes old or only id-to-path new, the order of `INDEX_NAMES`. The lease check
(`Refused`) reads the index and revalidates what it finds, as
`read_active_leases_for_target` does. `OutsideCall` rewrites no index. `UncheckedWrite`
stands for the five operations that never call `_check_leases` where no lease is
concerned; the lease that they are about has `ResolveLease` and `SupersedeLease`.
Expansion and promotion of leases are left out.

### KernelCommit and RecordStore

`pc` walks through the phases of an operation: `idle`, `staged` (temporary files
written, nothing visible), `rename`, `log`, `ids`, `deps`. The handlers read
`idPath` and `depsRev`, never the set of files; `todo` is the part of the batch
still to be renamed. `Crash` drops the process in any phase, between two renames too.
`kernel.reindex` is `Rebuild`: indexes, event, indexes again.
`Discipline = TRUE` means that after a crash the next operation is a reindex,
which is what the comment in `commit_staged` prescribes; `FALSE` lets callers go
on. Records are reduced to a status, the successor, one dependency and the
number of the operation that wrote them; they lie in one scope, and
cancellations cascade, as they do by default. Expand and collapse, which move files, are
not among the operations: `idPath` is about ids, and says nothing of a path that is stale
until the next `write_all`.

`RecordStore` is what a caller would like to be talking to: a map of records and a
ledger, where `New Resolve Supersede Cancel` take effect in one step, decide by
the records themselves, and owe one event each. A process may die between its commit and
its event (`Die`): of the records that are not settled, each falls back to what `undo`
keeps of it, but never the one that the operation retires. `ImplementsStore` says that
`KernelCommit` is one, under the mapping that counts a batch as committed from
its first rename, each further rename settling a record. Staging and index writes are
stutters.

### FactoryTick

One driver calls `tick` on one scope for ever, as `scripts/run-scan-dogfood.py` does.
`Walk` is `find_dispatchable_leaves` with the batch marker; `batch` are its leaves still
to come, which nothing looks at again. A dispatch goes through `pc`: `select` (`Begin`:
the predictor has answered), `run` or `resolve` (`Consult`, `SelectByFitness`), `expand`
(`AnswerGraph`), `author` (`Expand`, which runs the toposort, then one `NewChild` per
node of `todo`), and is back at `between` with `Return`, which is also where every
exception ends: `_dispatch_one` catches all. Between any two of these steps people may
author, resolve, cancel, supersede, expand or collapse records; these actions are those
of `RecordGraph` reduced to `status`, `deps`, `parent` and `form`. Kernel operations are
atomic here.

`PolicyOf` fixes which calibration policy is active for a record, and policies
name a registered predictor and ground truth; `Counted` are the records whose
dispatch carries the domain the policy names, because `count_prior_decisions`
compares the event's domain with the policy's while `find_active_policy` also
accepts the default of the scope. The recommendation of the value of information is a
choice, the fitness score likewise; predictions and selection records are
reduced to `predicted` and `counts`. All ids belong to the scope and to work
records; cancellations cascade. `done`, `outcome` and `missed` are history.

### Crossing

An attempt is one call of `outside.http` or `bridge.cross`. Functions over attempts say
what was asked (`ask`), what has become of it outside (`outside`), when the outside was
asked (`asked_at`), what the caller was told (`told`), which payload files were written
(`files`) and which events (`ledger`). `pc` is the phase of the one call under way:
refused or let in at the entry, in the policy phase, serving (past the last look at the
clock, before the request is sent), waiting for the outside, answered, indexing. Every
write may fail and the process may die between any two steps; the outside may act after
nobody waits any longer. `Raise` stands for the exceptions that nothing catches: before the outside is asked an unreadable index or a URL that is none
(`outside_http_op.py:398`), after it has acted the text of an answer that is none
(`:449`), a payload file that cannot be written or the index that is read for the event
(`:256`). `by_hash` is `payload-hash-to-events`, rewritten by
`bridge.cross` and by other operations. `auth` are the authorization records, `Check` is
`kernel.gatekeeper.check`, and `gate` its last answer with what was on file. A
`valid_through` is any string, and the gatekeeper compares its text with the clock's: a
stamp has the instant that it `means` and the instant as which it `reads`, and only
`reads` is compared. Retries are attempts with the same request. What policies decide is
`PolicyPipeline`; here a verdict is a choice.

### Calibrator

An id is the sequence of its suffixes, `<<1, 2>>` for `1.s2`, since the calibrator
names a successor after the policy it replaces and the count of its supersessions.
`policy` and `proposal` are the records on disk; `pc` and `todo` the dispatch that
`kernel.ir.new` runs when a proposal is authored: find a matching standing
authorization, author the successor and retire the policy in one batch, approve the
proposal in another, append the event, write the indexes. A process may die between
any two of these steps, and `Tear` stops a batch between its renames. People author,
supersede and cancel policies by hand, author replacements of cancelled ones (which stay
cancelled, without a pointer), grant and propose. A proposal may set any field of the
successor, since `ir_ops.py:606` applies its changes last: content, status,
`supersedes`, `superseded_by`, `authored_on`, the scope, and the id, after which the record
cannot be found under the name of its file (`named`). On the side of the corpus
there is a subject with a prediction, resolved, expanded, collapsed and promoted
while `WriteAll` pairs predictions with actual values through the paths that the
previous `WriteAll` knew. `died torn lost moved behind`, and `on_file` and `found`
of a proposal, are history.

### Bootstrap

Each program is a sequence of phases. Entering a phase it computes from the disk which
files are left to write, `todo`, and then writes one per step: the version, a vendored
body, a record, the removal of an old file, the rewriting of a record of people, an
event, the indexes. `Die` ends it between any two and forgets `todo` and what it had
renamed. What a script passes over with a warning stays as it is (`Stays`, `Moves`): a
field whose place is taken by another value, a record whose types disagree about their
directory, lies in the folder of an expanded one, or has a file in its way. References
are the five fields that the script follows (parent, expanded_into, supersedes,
superseded_by, depends_on); ids in other fields, as `authorizes.for_ir` or those in
events, it leaves alone, and they are no references here. Neither are files that cannot
be parsed records. `Repositories` are what there may be at first: anything that a kernel
of one of the four versions left behind, all its operations ended (`IsComplete`). TLC
starts from none at all, a v0.1 repository with configuration files and three records
that refer to one another (two have ids that lose a suffix; one may be an expanded
`_node.md`, or in another somebody has added the new field by hand), a v0.2 and a v1.0
repository that lack a type, the second with records in and out of their place, whose
place may be taken or unclear, and a current one with a body that the binary amended.
What records say is reduced to the fields that the phases test. `climbed` (which program
raised the version, and from which), `halfway`, `torn`, `left` and the `means` of a
record are history.

## 3. The runs

| Run | Bounds | Distinct states | Shows |
|---|---|---|---|
| `record_graph` | 3 records, 2 scopes, up to 2 dependencies, 1 event | 290k | acyclicity, reach and cause of staleness, the folder tree, where an expansion mark points |
| `record_lineage` | 4 records, 2 authority ranks | 278k | pairing and anchoring of lineages, live records are heads |
| `policy_cache` | 4 policies in one window or 2 in two, 1 role | 405k | cache transparency, what it takes for a retired policy to decide, the only two excuses for a divergence |
| `policy_deferral` | 2 policies, 2 roles, 2 callers | 835k | no admission past a denial or an unlifted deferral |
| `leases` | 2 leases, 2 writers, a record and its scope, 2 instants | 333k | acknowledged leases are found, checked writes are free, what revives a lease, every lease ends |
| `kernel_commit` | 3 records, 6 operations, crashes in any phase | 592k | what survives a crash in any phase, and the refinement |
| `factory_tick` | 3 records, 1 policy, every 2nd decision a holdout, 1 unproductive answer, 1 edit | 288k | order, no repetition, the batch marker, leaves run out |
| `crossing` | 2 attempts of 5 requests, 2 bridges, 2 authorizations, 4 stamps, 3 instants | 804k | what an answer, an exception, an event and an index entry prove about the outside, what the gatekeeper's answer means |
| `calibrator` | 2 proposals of 3 changes, 3 policies, 2 authorizations, one crash of a dispatch; or one subject | 231k | changes are granted, approvals applied, pending proposals explained, lineages and names kept, corpus explained |
| `bootstrap` | 3 records, 2 types, 4 configuration files, 2 deaths | 379k | nothing is lost, what a version means, references, what init refuses and passes over, no old version for ever |
| `doc_ReindexLineageValid` | as small as the counterexample allows | up to 5k | a statement of the repository that the code does not keep, section 6 |
| `doc_OnlyHolderSupersedes` | that of `leases` | up to 1k | another one |

Why the bounds are enough. A supersession, a cancellation and its cascade touch a
record, its successor and a dependent: three records meet all of them, and the fourth of
the lineage run gives a chain with a fork in it. Ids are interchangeable; `NamedInOrder`
and `InOrder` keep one naming of each state (ids are used in the order of authoring),
which loses no behaviour up to renaming. `Flat` turns expansion off in the lineage run,
`OneDependency` and `TwoPurposes` drop what the operations treat alike (`shared` as
`read`, `exclusive` as `write`). Two instants suffice for leases because only the order
of expiry and check matters. The two leases of that run are one of a fixed holder and
one that competes with it, is read-only, or depends on it (`FewClaims`). Four policies
of the cache run are one that is depended on, one that depends on it, and a successor
for each; the other bounds of that run drop what makes no difference (`Unassisted`,
`Held`) or keep one cancellation at a time. In the commit run, six operations hold an
interrupted operation, its rebuild, and a supersession or cancellation built on both. In
the factory run, records 1 and 3 are under the policy, 2 is not and 3 does not count:
that separates the position of a leaf from its position among the leaves of its policy.
One edit and one unproductive answer hit every step of a dispatch; graphs have up to two
nodes, ordered against their dependency, cyclic or none at all. Authoring records costs
no edit. Two attempts hold a call and its retry, or a call with an authorization that
changes under it; three instants put an expiry before, at and after a look at the clock;
the stamps are one in the form of the clock, one that reads late, one that reads early
and one that means nothing. The run of the calibrator explores the policies and the
subject one at a time (`OneSide`), as no action reads both; two proposals against one
lineage meet every fork; `FewRecords`, `FewCrashes` and `FewOddities` (a proposal that
sets more than content, a replacement of a cancelled policy and a death are met one at a
time) are part of its steps. Two deaths hit a migration and its repetition, or a
migration and the init that comes after it. SYMMETRY is used in the commit runs and for
proposals and authorizations of the calibrator, whose properties are safety.

Counters (`MaxOps`, `MaxTime`, `MaxWindow`, `MaxDeaths`) and ids are finite, so every
instance eventually has nothing left to do: all runs set `CHECK_DEADLOCK FALSE`.
The kernel itself has no blocking operation.

Fairness: weak fairness of `Tick` in `Leases` (the clock of the machine runs
whatever callers do), for `LeaseEnds`, where no caller is assumed to return,
release or retry; and weak fairness of `Tick` in `FactoryTick`, for `LeavesEnd`. The
second says that somebody keeps calling `tick` while there are leaves, which is the
loop of the dogfood script (it gives up after a failing tick and is started again
by hand), and that every call of a resolver returns. Which of the possible answers
it gives is not assumed; that at most `MaxFailures` answers are unproductive is,
since a resolver that always fails keeps its leaf for ever. In `Bootstrap` it is weak
fairness of `Run`: whoever has begun a migration runs it again until it is through.
Nobody is assumed to begin an init or not to.

## 4. What is proved

All theorems hold for any number of records, policies, leases, writers and
operations, and for any graphs a resolver may answer. Every invariant and action
property that a run checks is stated by one of them. Liveness (`LeaseEnds`,
`LeavesEnd`, `EventuallyMigrated`) is model-checked only, as the prover does not do
fairness. The induction theorems of the library take an operator and cannot be used, so
where a fact needs induction over numbers it is stated for sets, from the
well-foundedness of `<` (`LeastNumber`, `Induction`).

* **RecordGraph.** `IInv` joins the type invariant and all checked state
  invariants with `AbsentIsBlank`: an id without a file has no pointer, folder or
  stamp. It is needed because `Supersede` and `New` write only part of a fresh
  frontmatter. One lemma per operation. The action properties follow from `IInv`
  in the state before the step. `WalksAlwaysEnd`: as what a record points to is older and
  its successor is newer, no set of records is closed under either. Assumptions: at
  least one scope and one rank, `None` is not an id.
* **Leases.** `LInv` adds `KnownIsOnDisk` (acknowledged leases are in id-to-path,
  which names only leases on disk): without it a crash between two index files
  could hide a lease from the revalidating read. `RevivalsExplained` goes through the
  actions: only a resolution, and the cascade of a cancellation, make a lease active that
  was not, and the clock never does.
* **KernelCommit, whatever crashes.** `KInv` adds how operation numbers relate to
  files and ledger (`Stamped`, `Unseen`), what is still to be renamed in each phase
  (`Pending`), and that indexes follow each other (`Indexed`).
* **KernelCommit under the discipline.** `DInv` adds `StagedLegal` (a staged batch
  is the one the records themselves call for, because the indexes agree with the
  disk) and `Cancelling` (the batch of a cancellation holds every live
  dependent). From it, `CascadesAreComplete`, and `KernelImplementsStore`: whatever
  crashes, between two renames too, every step is a step of `RecordStore` or a stutter.
  A rename settles one record of `undo`, and a crash is the store's `Die`.
* **PolicyPipeline.** `PInv`: the order of authoring is total
  and names only what was authored (`Ordered`), what was not authored depends on
  nothing (`Blank`), and a recorded evaluation consulted existing policies that
  apply to its call (`Faithful`). A verdict depends only on what policies say and the
  order in which they were authored, neither of which a step changes for an existing
  policy (`VerdictKept`), and consulting again what was consulted changes nothing
  (`ConsultedAgain`), so `CacheTransparent` is inductive beside them.
  `AdmissionJustified` and `DivergenceExplained` then follow from the evaluation that
  answered. `RetiredNeedsTwoFailures` adds `Walked`: a policy once superseded is never in
  force again, and after its walk no evaluation that consulted it is unexpired.
* **FactoryTick.** `FInv` has two parts besides the types. `WorkInv` says what the
  records tell of the past: what a record depends on was resolved when the factory
  resolved or decomposed it, and a decomposed record keeps its folder because a
  child lies in it (people can collapse empty folders only), so the walk never
  takes it for a leaf again. `TickInv` says what a tick may rely on without looking
  again: its leaves exist, are untouched by the factory and had their dependencies
  resolved, and what a node to come depends on is on disk or comes before it
  (`InTurn`). `InOrder`, `NeverTwice` and `PredecessorsFirst` follow. That `InTurn` holds
  at first is a fact about the toposort: `KahnOrders` shows by induction over its
  iterations (`Kept`) that of a graph with distinct ids and no dangling dependency the
  loop returns every node, and each after those it depends on, unless there is a cycle;
  and that it raises exactly then, where `Acyclic` says that every part of the graph has
  a node that waits for none of it.
  `MarkInv` is for `MarkerExplained`: the marker of a leaf that still waits is what the
  count of its policy will say when the earlier leaves of the policy have been counted
  (`PositionWithout`), as long as none of them was missed.
* **Crossing.** `Sound(a)` relates, for one attempt, what was told, asked, written and
  logged; `Progress` says the same of the call under way, phase by phase. Only the
  current attempt is disturbed by a step, the outside apart. `GateStaysExplained` needs
  that among matching authorizations there is a latest (`LastTime`, `FoundIsLatest`). The
  clock's bound, the requests and what the stamps mean and read as are arbitrary.
* **Calibrator.** `CInv` joins five of the checked invariants with what they rest on.
  The index of policies names only policies on disk (`KnownExist`). While a dispatch
  matches, the index names all of them and none is from its proposal yet; while it
  approves, the policy that it made is there (`UnderWay`). A policy of the calibrator's
  stems from a proposal on disk whose target is too (`Sourced`); unless a proposal has set
  it otherwise, a successor is named after its predecessor and dated no later than now
  (`Lineage`) and a pointer leads to such a name (`PointerNames`); what bears another id than
  its file stems from a proposal that asked for it (`Titled`); and a name that people
  do not give counts no more successors than there are (`Numbered`): hence
  `NamesAreFresh`, and the branches of a lineage never mix. A policy that is not in
  `lost` says what it said (`StaysOrLost`), so what was granted stays granted.
  `PathsFollow` and `TuplesTell` describe the indexes after each possible death;
  `CorpusIsExplained` follows. Assumptions: `Ids` is finite and the empty sequence is no
  name.
* **Bootstrap.** `BInv` relates the plan under way to the disk. `Ordered`, `Fits` and
  `Aimed` say what a phase may still have to write, in which order, and under which
  version; `Climbed` that no program takes a version back. The other parts say of each
  phase that what it is for is on disk or still in the plan, and of the phases after it,
  and of the version that the program writes at its end, that it is on disk (`Raised`,
  `Configuration`, `Content`, `Form`, `Bodies101`, `Records101`, the two `Logged`); so
  the version means what `VersionMeansDone` says. `Born`, `Whole` and `IndexLast` are for
  init, which writes the version first. `Becomes` and `Pointing` are for references: a
  record under rewriting becomes what renaming makes of it, and a reference points to the
  id that its record has or is about to have, unless a death tore it. There is a lemma
  for every effect, for the entry into every phase and for a death. A plan is selected from a
  list by position; that a selection holds the elements it should, in order, is an
  induction over the length of the list (`SelectedElements`).
  Assumptions: the repositories at first are complete (`IsComplete`); ids of vendored types and
  resolvers are none of the kernel's other records or of configuration
  (`FileAssumption`); a stripped id has no suffix (`NameAssumption`).

## 5. What each property is about

* `CausalOrder`, `FolderTree`: no cycle and no stranded file whatever the order of
  calls; the factory's walk relies on both.
* `LineageSound`, `LiveIsHead`: forward and backward pointers of a lineage agree
  and only its end is live, although the code writes them in different operations and
  a superseded record can go stale.
* `StaleHasCause`, `StaleOnlyByDirectCancel`: the cascade reaches direct dependents in
  the same scope, once, and nothing else does.
* `ExpandedMarkInherited`: the successor of an expanded record is a plain file that
  carries the mark of a folder, and the walker of the factory passes over it for ever;
  nothing else carries a mark that is not its own.
* Proved, and not among the runs: `RetiredHasEvidence`, `StatusFollowsLifeCycle`,
  `HistoryKept` (provenance is never rewritten, ids are never reused), `WalksEnd`.
* `CacheTransparent`, `DivergenceExplained`: the cache can be wrong only by not having
  heard of a newer policy, or by having heard one that went stale.
* `RetiredNeedsTwoFailures`: a policy that was cancelled or ever superseded decides a call
  only if a crash lost the walk over the cache and a cascade made it stale besides.
* `AdmissionJustified`: what can never be admitted. It speaks of the deferral that the
  evaluation returned: an older transform or follow-up that hides a deferral is permitted.
* `AckedIsIndexed` (Leases), `CheckedWriteIsFree`, `RevivalsExplained`, `LeaseEnds`: what a
  lease gives its holder, in spite of crashes, how an ended one can come back, and that
  none is active for ever. Writes that no check looks at are not spoken of.
* `LedgerIsTrue`, `AckedIsIndexed`, `IndexesNeverAhead` (KernelCommit): how far
  records, ledger and indexes can be apart. The ledger has no event without its
  records; the converse, records without an event after a crash, is what the store's `Die`
  allows.
* `ImplementsStore`: what is left of an operation that died is some of its batch, the
  record that it retires for certain, and no event.
* `CascadeReachesAll`: a cancellation that returned has left no older live
  dependent. It holds under the discipline; without it the same run finds a
  dependent whose own index update was interrupted.

* `InOrder`: a dependency can be cancelled, superseded or staled between the walk
  and the dispatch, and a record may be expanded, but it was resolved once.
* `NeverTwice`: resolvers cost money; what one has settled is not given to another.
* `PredecessorsFirst`: `kernel.ir.new` refuses a child whose dependency is missing,
  and by then the parent is expanded and earlier children are written.
* `MarkerExplained`: the marker at the head of a batch predicts the holdouts of the
  selections that follow it, and can be wrong only after a leaf of the same policy
  made no selection that counts.
* `LeavesEnd`: no leaf is walked again and again for ever.
* `AnswersAreTrue`: what a caller is told (refused, unserved, event lost, served, an
  exception) says what is outside, in the ledger and on disk, although the answer comes
  after writes that can fail. An exception that nothing caught says least: the outside
  may not have been asked, or have done it all.
* `LedgerIsReal`: an event stands for something the outside did, and the files it refers
  to are there.
* `HitsAreSent`: a payload found in the index was sent, and its call not reported as
  failed. The converse fails: a sent payload is missing until the next `write_all`.
* `GateIsExplained`: what the gatekeeper says follows from the authorizations on file,
  the latest of which may hide older ones, and from what they mean unless they are written
  in another form than the clock's: one in another zone may permit too long or too short.
* `ChangesAreGranted`: a policy of the calibrator's differs from its predecessor by the
  change of its proposal and nothing else, and an authorization on disk grants it, that is,
  the conditions which it makes of the fields that it names hold.
* `ApprovalsAreApplied`, `PendingIsExplained`: the three commits of a dispatch are cut
  apart by deaths only, and what stays pending was granted by nothing on file.
* `PointersLead`: where lineages fork, the pointer follows the newest branch; a cancelled
  policy may have replacements to which no pointer leads. What a proposal has set in its
  own successor is excepted.
* `NamesAreFresh`: of all records, the calibrator overwrites only those to which a person
  gave the name of a successor to come, and its own earlier ones whose id a proposal
  changed, as these are not counted any more.
* `CorpusIsExplained`: when the corpus has an actual for a prediction, and when it has one
  without a value.
* `NothingIsLost`, `VersionMeansDone`, `ReferencesHold`, `InitIsHonest`: after any
  deaths, what is on disk is complete but for the exceptions that the properties name.
* `EventuallyMigrated`: a repository does not stay for ever at a version a migration
  starts from.

## 6. Where the documents and the code disagree

Two runs exhibit statements of the repository that its code does not keep.
`doc_ReindexLineageValid`: the check mode of reindex demands that no
`superseded_by` points to a cancelled record (`reindex_op.py:39`); superseding a
record and cancelling its successor are both accepted, and the check rejects the
result. `doc_OnlyHolderSupersedes`: who is refused by a lease is told that only the holder
may supersede it (`op_pipeline.py:277`), while `kernel.ir.supersede` asks nobody who he is.

Others were met while modelling. They are built into the actions, and no run is spent on
them: a call is denied if any applicable policy denies it (`op_pipeline.py:663`), but
the cached evaluation answers before a newer policy is consulted (`:704`); `write` and
`exclusive` leases exclude each other (spec v1.2, line 1146), but acquisition is exempt
from the lease check (`op_pipeline.py:219`); reindex recovers from a crash between two
renames (`_atomic.py:86`), but it rebuilds indexes, and half a supersession stays; a
superseded record that a cascade made stale is superseded again, though the message of
cancel calls the chain forward-only and superseded terminal (`ir_ops.py:1787`); if it is
a lease, the cascade makes it block again; supersede accepts cancelled records and
expand reads no status (spec v1.2, sections 5.2 and 3.8); the cascade takes a superseded
dependent to stale; the successor of an expanded record is marked expanded and is a
plain file; an event can be promoted twice (18.1); an older transform or follow-up hides
a matching deferral (8.4); a stale policy still decides through the cache; a
re-evaluation within ten seconds replaces the expired evaluation; superseding a role
leaves deferrals to it unliftable (8.7); resolve, expand, collapse, promote and
supersede check no lease (13.5), though the body of the lease type says that every write
does (`init_op.py:1028`); resolving a lease can extend it; the successor of a lease has
no term, that is, does not hold; a crash between commit and event leaves records the
ledger never heard of (3.2). Section 5.2 permits stale to resolved, which section 3.3
and the code reject; on stale to cancelled the code follows 5.2 against 18.1.

Of the factory: sequential dispatch is said to compute the decisions of the batch marker
(`tick.py:109`), which it does unless a predictor fails or a dispatch does not count
(`MarkerExplained`); records whose domain comes from their scope never advance the
counter of a policy with a domain, so if the counter starts at zero every one of their
decisions is a holdout. A graph without nodes is reported as a success, leaves its leaf
unexpanded, and the leaf is dispatched again (`tick.py:210` says it is not). A cyclic
graph leaves an expanded parent without children, as the expansion comes before the
sort. "No leaves; workload complete" is also printed when dependents of an expanded
parent wait for ever, as nothing in the factory resolves an expanded parent. A child
authored by hand under an expanded parent that still waits is dispatched: the walk looks
at the record's own dependencies only.

Of crossings: an outside call can be sent after its `expires_at`, since the request is built
and connected between the last look at the clock and the send (spec
v1.2, section 12.3); exceptions other than the kernel's errors reach the caller, also
after the outside has acted; expiry of an authorization is a comparison of strings
(`gatekeeper_op.py:129`), so that one with an offset holds too long or too short and
words hold for ever. An authorization that has expired hides an older one that is still
good, because only the latest is judged (`gatekeeper_op.py:60`). `bridge.cross` raises
whatever the append raised, where the specification (v1.2, line 679) promises
`EVENT_WRITE_FAILED_AFTER_CROSSING`. The kernel is to verify by `gatekeeper.check`
before it sends (line 1608); the crossing operations look only whether an authorization
is named.

Of the calibrator: a broader authorization granted later never reaches a pending
proposal (spec v1.0, line 258). A cancelled policy stays active, cancelled and superseded
authorizations still grant, and a proposal against a superseded policy is accepted
and forks its lineage. The conditions of an authorization restrict the fields that
they name; other changes of the same proposal ride along, fields of the lineage and the
id among them, which override what the dispatch has just set (`ir_ops.py:606`). A policy
that got another id is not counted when the next successor is named, which is then
written over it. A successor is written over a
record that a person named `p.s2`. A new proposal of the calibrator does not supersede its
older ones (line 224). Right after expand, collapse or promote the corpus can have
a time without a value, so that the check mode of reindex reports drift after a legal
call; and the corpus ignores the default domain of a scope.

Of bootstrap: a re-run of init is to be idempotent (spec v1.0, line 415), and the
version its last write; a fresh init writes it first, and after a crash the next init is
refused for ever or passes over a repository without its bootstrap record, event or
indexes. A refresh that dies is never logged. The migrations call themselves safe to
re-run, but the map of renamed ids lives in the process, so references that a dead run
did not reach dangle. `_node.md` records are never migrated to v0.2, and records that a
script passes over with a warning stay as they are; the version is raised all the same.
Both scripts are over as soon as the version says so, whatever work is left, and
`reindex_op.py:147` suggests one of them after init has raised the version.

## 7. What is not modelled

Concurrent writers (outside the documented assumption; two processes that author one id
at a time would both pass its check); `promote`'s own order of steps and the folder
moves of expand and collapse at the level of the disk; that a promoted event is hidden
in id-to-path by its marker; expansion and promotion of leases; the indexes that serve
only reads; the read operations; visibility predicates, `predicates.py` and `voi.py`,
which are pure functions of their arguments; in the factory, several scopes at once,
changes of policies under way, the filter on projection types and the texts that are
exchanged; in the calibrator, the fallback for a successor's name already taken in
`supersede`, proposals superseded by hand, and proposals that set a field nothing reads,
another projection type or an id that another record bears already; in the bootstrap,
templates, schemas, purged v0.1 bodies, files that cannot be parsed, ambiguous suffixes,
references outside the five fields and collisions of stripped ids; schema rendering,
codecs, entry points, resolvers, bridges and workloads, which are I/O and text.

## 8. Plan

Done, in this order: `RecordGraph`, `PolicyPipeline`, `Leases`, `KernelCommit` with
`RecordStore`, `FactoryTick`, `Crossing`, `Calibrator`, `Bootstrap`.

1. `promote`, `expand` and `collapse` at the level of the disk, in `KernelCommit`: a path
   that the index has and the disk has not any more.
2. `Predicates` as a recursive function against a reference definition; an
   abstract specification of the factory (evaluation of a dependency graph in
   some topological order) that `FactoryTick` implements.
