------------------------------- MODULE Leases -------------------------------
(***************************************************************************)
(* Leases on one scope and its records: how a lease is acquired, indexed,   *)
(* checked by the operations that check leases, and how it ends             *)
(* (src/src/eightos/op_pipeline.py, _indexes.py, sdk/ir_ops.py).            *)
(*                                                                         *)
(* One process runs at a time and may crash after committing a record and   *)
(* before the indexes are rewritten: id-to-path is written first, the       *)
(* lease-holders index last.  A refused call changes nothing and is a       *)
(* stuttering step.  What an accepted write does to a record is the         *)
(* subject of RecordGraph; here a write is the fact that it was accepted,   *)
(* and what it does to leases: a cancellation makes leases stale that       *)
(* depend on what it cancels, and a stale lease counts as a live one.       *)
(***************************************************************************)
EXTENDS Naturals

CONSTANTS
  Leases,     \* ids of _kernel.lease records
  Writers,    \* caller identities, as held_by names them
  Records,    \* records of the scope
  Scope,      \* the scope
  MaxTerm,    \* bound: longest term of a lease
  MaxTime,    \* bound: the clock stops
  None

Targets  == Records \cup {Scope}
Purposes == { "write", "exclusive", "read", "shared" }

ASSUME ScopeAssumption == Scope \notin Records
ASSUME LeaseAssumption == Leases \cap Records = {}
ASSUME NoneAssumption  == None \notin Writers
ASSUME TimeAssumption  == MaxTerm \in Nat /\ MaxTime \in Nat

VARIABLES
  status,   \* of every lease
  claim,    \* its frontmatter that is fixed when it is authored
  through,  \* its valid_through, 0 for null
  cancelled, \* records that were cancelled
  known,    \* the leases in id-to-path.yml
  index,    \* lease-holders.yml: the leases of every target
  acked,    \* history: leases that became active last by a call that returned
  now,      \* wall clock
  last      \* the write that passed the lease check just now, or None

leases == << status, claim, through >>
vars   == << leases, cancelled, known, index, acked, now, last >>

Statuses == { "absent", "open", "resolved", "stale", "superseded", "cancelled" }

Claim == [ lease_for : Targets, held_by : Writers \cup {None}, lease_purpose : Purposes,
           depends_on : SUBSET (Records \cup Leases) ]

\* What ids that are not on disk hold; it is never read.
Blank == [ lease_for |-> Scope, held_by |-> None, lease_purpose |-> "read",
           depends_on |-> {} ]

Write == [ writer : Writers, targets : SUBSET Targets ]

TypeOK ==
  /\ status  \in [ Leases -> Statuses ]
  /\ claim   \in [ Leases -> Claim ]
  /\ through \in [ Leases -> Nat ]
  /\ cancelled \subseteq Records
  /\ known   \subseteq Leases
  /\ index   \in [ Targets -> SUBSET Leases ]
  /\ acked   \subseteq Leases
  /\ now     \in Nat
  /\ last    \in Write \cup {None}

Init ==
  /\ status  = [ l \in Leases |-> "absent" ]
  /\ claim   = [ l \in Leases |-> Blank ]
  /\ through = [ l \in Leases |-> 0 ]
  /\ cancelled = {}
  /\ known   = {}
  /\ index   = [ t \in Targets |-> {} ]
  /\ acked   = {}
  /\ now     = 0
  /\ last    = None

-----------------------------------------------------------------------------
\* Neither superseded nor cancelled, and valid_through lies strictly ahead.
Ended == { "absent", "superseded", "cancelled" }

Perpetual(l) == status[l] \notin Ended                 \* mutant of Active

Active(l) == status[l] \notin Ended /\ through[l] > now

\* compute_all: the lease-holders index of the leases on disk.
FirstHolder ==                                     \* mutant of LeaseHolders
  [ t \in Targets |->
      LET on == { l \in Leases : Active(l) /\ claim[l].lease_for = t }
      IN  IF on = {} THEN {} ELSE { CHOOSE l \in on : TRUE } ]

LeaseHolders == [ t \in Targets |-> { l \in Leases : Active(l) /\ claim[l].lease_for = t } ]

OnDisk == { l \in Leases : status[l] # "absent" }

\* The leases that a step makes active: acquired, or active again.
Begun == { l \in Leases : ~Active(l) /\ Active(l)' }

\* write_all, at the end of every operation that commits a record.
WriteAll == known' = OnDisk' /\ index' = LeaseHolders' /\ acked' = acked \cup Begun

\* A crash before write_all or between two of its files.
Crashed == index' = index /\ known' \in { known, OnDisk' } /\ acked' = acked \ Begun

\* read_active_leases_for_target: the index, revalidated against the records
\* that id-to-path finds.
ReadActive(t) == { l \in index[t] \cap known : Active(l) }

\* _check_leases
Refused(w, T) ==
  \E t \in T : \E l \in ReadActive(t) :
    claim[l].held_by # w /\ claim[l].lease_purpose \in { "write", "exclusive" }

\* _extract_lease_targets: the record and its scope.
RecordOnly(r) == {r}                               \* mutant of Around

Around(r) == { r, Scope }

-----------------------------------------------------------------------------
Unused(l) == status[l] = "absent"

Accept(w, T) == last' = [ writer |-> w, targets |-> T ]

\* kernel.ir.new of a lease skips the lease check.
Acquire(l, x, v) ==
  /\ Unused(l)
  /\ x.depends_on \subseteq Records \cup known
  /\ status'  = [ status EXCEPT ![l] = "open" ]
  /\ claim'   = [ claim EXCEPT ![l] = x ]
  /\ through' = [ through EXCEPT ![l] = v ]
  /\ UNCHANGED << cancelled, now >>
  /\ (WriteAll \/ Crashed)
  /\ last' = None

\* kernel.ir.new in the scope.
NewRecord(w) ==
  /\ ~Refused(w, {Scope})
  /\ Accept(w, {Scope})
  /\ UNCHANGED << leases, cancelled, now >>
  /\ (WriteAll \/ Crashed)

\* kernel.outside.http for a record: it appends its event and rewrites no index.
OutsideCall(w, r) ==
  /\ ~Refused(w, Around(r))
  /\ Accept(w, { r, Scope })
  /\ UNCHANGED << leases, cancelled, known, index, acked, now >>

\* resolve, expand, collapse, promote and supersede check no lease.
UncheckedWrite ==
  /\ last' = None
  /\ UNCHANGED << leases, cancelled, now >>
  /\ (WriteAll \/ Crashed)

\* kernel.ir.resolve of a lease, by anyone, gives it another valid_through.
ResolveLease(l, v) ==
  /\ l \in known /\ status[l] = "open"
  /\ status'  = [ status EXCEPT ![l] = "resolved" ]
  /\ through' = [ through EXCEPT ![l] = v ]
  /\ UNCHANGED << claim, cancelled, now >>
  /\ (WriteAll \/ Crashed)
  /\ last' = None

\* kernel.ir.supersede of a lease, by anyone.  The successor is a lease that copies
\* its claim, without its valid_through; a crash may come before it is renamed in.
SupersedeLease(l, n, w) ==
  /\ l \in known /\ status[l] # "superseded"
  /\ n \notin known /\ Unused(n)
  /\ last' = None
  /\ UNCHANGED << cancelled, now >>
  /\ \/ /\ status'  = [ status EXCEPT ![l] = "superseded", ![n] = "open" ]
        /\ claim'   = [ claim EXCEPT ![n] = claim[l] ]
        /\ through' = [ through EXCEPT ![n] = 0 ]
        /\ (WriteAll \/ Crashed)
     \/ /\ status'  = [ status EXCEPT ![l] = "superseded" ]
        /\ UNCHANGED << claim, through >>
        /\ Crashed

\* The cascade of a cancellation passes over what is stale or cancelled already.
CascadesOver(d) == status[d] \notin { "absent", "stale" }          \* mutant of Cascades

Cascades(d) == status[d] \notin { "absent", "stale", "cancelled" }

Dependents(x) == { d \in known : x \in claim[d].depends_on /\ Cascades(d) }

\* Which of them the cascade reaches is up to the caller, to visible_to and to
\* deps-reverse (see RecordGraph, KernelCommit), and to a crash amid the batch.
Cascade(D, by) ==
  status' = [ l \in Leases |-> IF l = by THEN "cancelled" ELSE IF l \in D THEN "stale" ELSE status[l] ]

\* kernel.ir.cancel of a record.
CancelRecord(w, r, D) ==
  /\ r \notin cancelled
  /\ ~Refused(w, Around(r))
  /\ D \subseteq Dependents(r)
  /\ Cascade(D, r)
  /\ cancelled' = cancelled \cup {r}
  /\ Accept(w, { r, Scope })
  /\ UNCHANGED << claim, through, now >>
  /\ (WriteAll \/ Crashed)

\* kernel.ir.cancel of a lease, which is itself a write to the scope.
CancelLease(l, w, D) ==
  /\ l \in known
  /\ status[l] \notin Ended
  /\ ~Refused(w, {Scope})
  /\ D \subseteq Dependents(l)
  /\ Cascade(D, l)
  /\ Accept(w, {Scope})
  /\ UNCHANGED << claim, through, cancelled, now >>
  /\ (WriteAll \/ Crashed)

\* kernel.reindex in rebuild mode.
Reindex ==
  /\ UNCHANGED << leases, cancelled, now >>
  /\ (WriteAll \/ Crashed)
  /\ last' = None

Tick ==
  /\ now < MaxTime
  /\ now' = now + 1
  /\ last' = None
  /\ UNCHANGED << leases, cancelled, known, index, acked >>

Terms == { v \in 0 .. now + MaxTerm : v <= MaxTime }

Claims == [ lease_for : Targets, held_by : Writers, lease_purpose : Purposes,
            depends_on : SUBSET (Records \cup known) ]

Next ==
  \/ \E l \in Leases, x \in Claims, v \in Terms : Acquire(l, x, v)
  \/ \E w \in Writers : NewRecord(w)
  \/ \E w \in Writers, r \in Records : OutsideCall(w, r)
  \/ UncheckedWrite
  \/ \E l \in Leases, v \in Terms : ResolveLease(l, v)
  \/ \E l, n \in Leases, w \in Writers : SupersedeLease(l, n, w)
  \/ \E w \in Writers, r \in Records, D \in SUBSET known : CancelRecord(w, r, D)
  \/ \E l \in Leases, w \in Writers, D \in SUBSET known : CancelLease(l, w, D)
  \/ Reindex
  \/ Tick

Spec == Init /\ [][Next]_vars

\* The clock of the machine runs whatever the callers do.
FairSpec == Spec /\ WF_vars(Tick)

-----------------------------------------------------------------------------
(* Safety *)

\* A lease that became active by a call that returned can be relied on: as long as
\* it is active, every lease check on its target finds it, however many crashes,
\* releases, revivals and rebuilds lie between (_indexes.py:103-123,
\* op_pipeline.py:140-168).
AckedIsIndexed ==
  \A l \in acked : Active(l) => l \in ReadActive(claim[l].lease_for)

\* A write that passes the lease check meets no acknowledged write or exclusive
\* lease of somebody else, on the record or on its scope.  It may revive one
\* (op_pipeline.py:246-294).
ForeignHold(l, w, T) ==
  /\ Active(l)
  /\ claim[l].lease_for \in T
  /\ claim[l].held_by # w
  /\ claim[l].lease_purpose \in { "write", "exclusive" }

CheckedWriteIsFree ==
  [][ last' # None =>
        ~ \E l \in acked : ForeignHold(l, last'.writer, last'.targets) ]_vars

\* Somebody resolves the lease to a later date (ir_ops.py:1331).
Prolonged(l) == status[l] = "open" /\ status'[l] = "resolved" /\ through'[l] > through[l]

\* The cancellation of something it depends on makes the lease stale (ir_ops.py:1876-1890).
Dragged(l) ==
  /\ status[l] = "superseded" /\ status'[l] = "stale" /\ through'[l] = through[l]
  /\ \E x \in claim[l].depends_on :
       \/ x \in cancelled' \ cancelled
       \/ x \in Leases /\ status[x] # "cancelled" /\ status'[x] = "cancelled"

\* A lease that was cancelled is gone for good, and one that ended by the clock or
\* by supersession blocks again in two ways only: somebody resolves it, if it was
\* never resolved before, to a later date; or it was superseded before its term was
\* over, and a cascade makes it stale, which counts as live (op_pipeline.py:163).
RevivalsExplained ==
  [][ \A l \in Leases : status[l] # "absent" /\ l \in Begun => Prolonged(l) \/ Dragged(l) ]_vars

\* What the refusal of a write tells its caller: "only the holder may supersede"
\* the lease (op_pipeline.py:277).
OnlyHolderSupersedes ==
  [][ \A l, n \in Leases, w \in Writers :
        SupersedeLease(l, n, w) => w = claim[l].held_by ]_vars

(* Liveness *)

\* No lease locks a target for ever, even if its holder never returns.
LeaseEnds == \A l \in Leases : Active(l) ~> ~Active(l)

=============================================================================
