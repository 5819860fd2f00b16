---------------------------- MODULE LeasesProofs ----------------------------
(* Theorems of Leases, for any number of leases, writers and records.       *)
EXTENDS Leases, TLAPS

\* id-to-path names the leases on disk, or fewer after a crash, and never loses
\* an acknowledged one.  Without it a crash could hide a lease from the check.
KnownIsOnDisk == acked \subseteq known /\ known \subseteq OnDisk

\* The inductive invariant.
LInv == TypeOK /\ KnownIsOnDisk /\ AckedIsIndexed

\* A write the lease check lets pass meets no acknowledged foreign lease.
LEMMA NotRefusedIsFree ==
  ASSUME LInv, NEW w \in Writers, NEW T \in SUBSET Targets, ~Refused(w, T)
  PROVE  ~ \E l \in acked : ForeignHold(l, w, T)
  <1> SUFFICES ASSUME NEW l \in acked, ForeignHold(l, w, T) PROVE FALSE
    OBVIOUS
  <1>1. l \in ReadActive(claim[l].lease_for) /\ claim[l].lease_for \in T
    BY DEF LInv, AckedIsIndexed, ForeignHold
  <1> QED BY <1>1 DEF Refused, ForeignHold

LEMMA InitLInv == Init => LInv
  <1> SUFFICES ASSUME Init PROVE LInv
    OBVIOUS
  <1>1. Blank \in Claim
    BY DEF Blank, Claim, Targets, Purposes
  <1>2. TypeOK
    BY <1>1 DEF Init, TypeOK, Statuses
  <1>3. KnownIsOnDisk /\ AckedIsIndexed
    BY DEF Init, KnownIsOnDisk, AckedIsIndexed
  <1> QED BY <1>2, <1>3 DEF LInv

\* What every operation preserves that rewrites the indexes or crashes: it removes
\* no lease from the disk and leaves the claims of those that are there alone.
LEMMA RefreshLInv ==
  ASSUME LInv, status' \in [ Leases -> Statuses ], claim' \in [ Leases -> Claim ],
         through' \in [ Leases -> Nat ], cancelled' \subseteq Records, now' = now,
         OnDisk \subseteq OnDisk', \A l \in OnDisk : claim'[l] = claim[l],
         last' \in Write \cup {None}, WriteAll \/ Crashed
  PROVE  LInv'
  <1>1. \A l \in Leases : claim'[l].lease_for \in Targets
    BY DEF Claim
  <1>2. Begun \subseteq OnDisk' /\ Begun \subseteq Leases
    BY DEF Begun, Active, Ended, OnDisk
  <1>3. CASE WriteAll
    <2>1. known' = OnDisk' /\ index' = LeaseHolders' /\ acked' = acked \cup Begun
      BY <1>3 DEF WriteAll
    <2>2. index' \in [ Targets -> SUBSET Leases ]
      BY <2>1 DEF LeaseHolders
    <2>3. TypeOK' /\ KnownIsOnDisk'
      BY <1>2, <2>1, <2>2 DEF LInv, TypeOK, KnownIsOnDisk, OnDisk
    <2>4. AckedIsIndexed'
      <3> SUFFICES ASSUME NEW l \in Leases, Active(l)'
                   PROVE  l \in ReadActive(claim[l].lease_for)'
        BY <2>3 DEF AckedIsIndexed, TypeOK
      <3>1. l \in OnDisk'
        BY DEF Active, Ended, OnDisk
      <3>2. l \in index'[claim'[l].lease_for]
        BY <1>1, <2>1 DEF LeaseHolders
      <3> QED BY <2>1, <3>1, <3>2 DEF ReadActive
    <2> QED BY <2>3, <2>4 DEF LInv
  <1>4. CASE Crashed
    <2>1. index' = index /\ known' \in { known, OnDisk' } /\ acked' = acked \ Begun
      BY <1>4 DEF Crashed
    <2>2. TypeOK' /\ KnownIsOnDisk' /\ known \subseteq known'
      BY <2>1 DEF LInv, TypeOK, KnownIsOnDisk, OnDisk
    <2>3. AckedIsIndexed'
      <3> SUFFICES ASSUME NEW l \in acked', Active(l)'
                   PROVE  l \in ReadActive(claim[l].lease_for)'
        BY DEF AckedIsIndexed
      <3>1. l \in acked /\ l \in Leases /\ l \in OnDisk /\ Active(l)
        BY <2>1 DEF LInv, TypeOK, KnownIsOnDisk, Begun
      <3>2. l \in index[claim[l].lease_for] /\ l \in known
        BY <3>1 DEF LInv, AckedIsIndexed, ReadActive
      <3> QED BY <2>1, <2>2, <3>1, <3>2 DEF ReadActive
    <2> QED BY <2>2, <2>3 DEF LInv
  <1> QED BY <1>3, <1>4

\* A cascade leaves every lease on disk.
LEMMA CascadeKeeps ==
  ASSUME LInv, NEW x, x \in Records \/ x \in known, NEW D \in SUBSET Dependents(x), Cascade(D, x)
  PROVE  status' \in [ Leases -> Statuses ] /\ OnDisk \subseteq OnDisk'
  <1>1. status' \in [ Leases -> Statuses ]
    BY DEF Cascade, LInv, TypeOK, Statuses
  <1>2. \A l \in OnDisk : status'[l] # "absent"
    BY DEF Cascade, OnDisk
  <1> QED BY <1>1, <1>2 DEF OnDisk

LEMMA NextLInv == LInv /\ [Next]_vars => LInv'
  <1> SUFFICES ASSUME LInv, [Next]_vars PROVE LInv'
    OBVIOUS
  <1>1. ASSUME NEW l \in Leases, NEW x \in Claims, NEW v \in Terms, Acquire(l, x, v) PROVE LInv'
    <2>1. x \in Claim /\ v \in Nat
      BY TimeAssumption DEF Claims, Terms, Claim, LInv, TypeOK
    <2>2. /\ status' \in [ Leases -> Statuses ] /\ claim' \in [ Leases -> Claim ]
          /\ through' \in [ Leases -> Nat ] /\ l \notin OnDisk /\ OnDisk \subseteq OnDisk'
      BY <1>1, <2>1 DEF Acquire, Unused, OnDisk, LInv, TypeOK, Statuses
    <2>3. \A k \in OnDisk : claim'[k] = claim[k]
      BY <1>1, <2>2 DEF Acquire, OnDisk, LInv, TypeOK
    <2> QED BY <1>1, <2>2, <2>3, RefreshLInv DEF Acquire, LInv, TypeOK
  <1>2. ASSUME NEW w \in Writers, NewRecord(w) PROVE LInv'
    <2>1. last' \in Write
      BY <1>2 DEF NewRecord, Accept, Write, Targets
    <2> QED BY <1>2, <2>1, RefreshLInv DEF NewRecord, leases, LInv, TypeOK, OnDisk
  <1>3. ASSUME NEW w \in Writers, NEW r \in Records, OutsideCall(w, r) PROVE LInv'
    <2>1. last' \in Write
      BY <1>3 DEF OutsideCall, Accept, Write, Targets
    <2> QED BY <1>3, <2>1 DEF OutsideCall, leases, LInv, TypeOK, KnownIsOnDisk, AckedIsIndexed,
                              OnDisk, ReadActive, Active
  <1>4. ASSUME UncheckedWrite PROVE LInv'
    BY <1>4, RefreshLInv DEF UncheckedWrite, leases, LInv, TypeOK, OnDisk
  <1>5. ASSUME NEW l \in Leases, NEW v \in Terms, ResolveLease(l, v) PROVE LInv'
    <2>1. v \in Nat
      BY TimeAssumption DEF Terms, LInv, TypeOK
    <2>2. /\ status' \in [ Leases -> Statuses ] /\ through' \in [ Leases -> Nat ]
          /\ OnDisk \subseteq OnDisk'
      BY <1>5, <2>1 DEF ResolveLease, OnDisk, LInv, TypeOK, Statuses
    <2> QED BY <1>5, <2>2, RefreshLInv DEF ResolveLease, LInv, TypeOK
  <1>6. ASSUME NEW l \in Leases, NEW n \in Leases, NEW w \in Writers, SupersedeLease(l, n, w)
        PROVE  LInv'
    <2>1. /\ status' \in [ Leases -> Statuses ] /\ claim' \in [ Leases -> Claim ]
          /\ through' \in [ Leases -> Nat ] /\ n \notin OnDisk /\ OnDisk \subseteq OnDisk'
      BY <1>6 DEF SupersedeLease, Unused, OnDisk, LInv, TypeOK, Statuses
    <2>2. \A k \in OnDisk : claim'[k] = claim[k]
      BY <1>6, <2>1 DEF SupersedeLease, OnDisk, LInv, TypeOK
    <2> QED BY <1>6, <2>1, <2>2, RefreshLInv DEF SupersedeLease, LInv, TypeOK
  <1>7. ASSUME NEW w \in Writers, NEW r \in Records, NEW D \in SUBSET known, CancelRecord(w, r, D)
        PROVE  LInv'
    <2>1. last' \in Write /\ cancelled' \subseteq Records
      BY <1>7 DEF CancelRecord, Accept, Write, Targets, LInv, TypeOK
    <2>2. status' \in [ Leases -> Statuses ] /\ OnDisk \subseteq OnDisk'
      BY <1>7, CascadeKeeps DEF CancelRecord
    <2> QED BY <1>7, <2>1, <2>2, RefreshLInv DEF CancelRecord, LInv, TypeOK
  <1>8. ASSUME NEW l \in Leases, NEW w \in Writers, NEW D \in SUBSET known, CancelLease(l, w, D)
        PROVE  LInv'
    <2>1. last' \in Write
      BY <1>8 DEF CancelLease, Accept, Write, Targets
    <2>2. status' \in [ Leases -> Statuses ] /\ OnDisk \subseteq OnDisk'
      BY <1>8, CascadeKeeps DEF CancelLease
    <2> QED BY <1>8, <2>1, <2>2, RefreshLInv DEF CancelLease, LInv, TypeOK
  <1>9. ASSUME Reindex PROVE LInv'
    BY <1>9, RefreshLInv DEF Reindex, leases, LInv, TypeOK, OnDisk
  <1>10. ASSUME Tick PROVE LInv'
    <2>1. TypeOK' /\ KnownIsOnDisk'
      BY <1>10 DEF Tick, leases, LInv, TypeOK, KnownIsOnDisk, OnDisk
    <2>2. AckedIsIndexed'
      <3> SUFFICES ASSUME NEW l \in acked, Active(l)' PROVE l \in ReadActive(claim[l].lease_for)'
        BY <1>10 DEF Tick, leases, AckedIsIndexed
      <3>1. through[l] \in Nat /\ Active(l)
        BY <1>10 DEF Tick, leases, Active, LInv, TypeOK
      <3> QED BY <1>10, <3>1 DEF Tick, leases, LInv, AckedIsIndexed, ReadActive
    <2> QED BY <2>1, <2>2 DEF LInv
  <1>11. CASE UNCHANGED vars
    BY <1>11 DEF vars, leases, LInv, TypeOK, KnownIsOnDisk, OnDisk, AckedIsIndexed, ReadActive,
                 Active
  <1> QED BY <1>1, <1>2, <1>3, <1>4, <1>5, <1>6, <1>7, <1>8, <1>9, <1>10, <1>11 DEF Next

\* LInv is an invariant of the leases.
THEOREM LeaseInvariant == Spec => []LInv
  BY InitLInv, NextLInv, PTL DEF Spec

\* Leases, index and clock keep their types.
THEOREM LeaseTypes == Spec => []TypeOK
  BY LeaseInvariant, PTL DEF LInv

\* A lease that became active by a call that returned is found by every lease check
\* on its target as long as it is active, whatever crashed since.
THEOREM AcknowledgedLeasesAreIndexed == Spec => []AckedIsIndexed
  BY LeaseInvariant, PTL DEF LInv

\* No write passes the lease check against somebody else's acknowledged lease, not
\* even the write that cancels the lease itself.
THEOREM CheckedWritesAreFree == Spec => CheckedWriteIsFree
  <1> DEFINE Free == last' # None =>
                       ~ \E l \in acked : ForeignHold(l, last'.writer, last'.targets)
  <1>1. LInv /\ [Next]_vars => [Free]_vars
    <2> SUFFICES ASSUME LInv, Next, last' # None PROVE Free
      OBVIOUS
    <2>1. ASSUME NEW w \in Writers, NEW T \in SUBSET Targets, Accept(w, T), ~Refused(w, T)
          PROVE  Free
      BY <2>1, NotRefusedIsFree DEF Accept
    <2>2. \A r \in Records : Around(r) = { r, Scope } /\ { r, Scope } \in SUBSET Targets
      BY DEF Around, Targets
    <2>3. {Scope} \in SUBSET Targets
      BY DEF Targets
    <2>4. ASSUME NEW w \in Writers, NewRecord(w) PROVE Free
      BY <2>1, <2>3, <2>4 DEF NewRecord
    <2>5. ASSUME NEW w \in Writers, NEW r \in Records, OutsideCall(w, r) PROVE Free
      BY <2>1, <2>2, <2>5 DEF OutsideCall
    <2>6. ASSUME NEW w \in Writers, NEW r \in Records, NEW D \in SUBSET known,
                 CancelRecord(w, r, D)
          PROVE  Free
      BY <2>1, <2>2, <2>6 DEF CancelRecord
    <2>7. ASSUME NEW l \in Leases, NEW w \in Writers, NEW D \in SUBSET known, CancelLease(l, w, D)
          PROVE  Free
      BY <2>1, <2>3, <2>7 DEF CancelLease
    <2> QED BY <2>4, <2>5, <2>6, <2>7
            DEF Next, Acquire, UncheckedWrite, ResolveLease, SupersedeLease, Reindex, Tick
  <1> QED BY <1>1, LeaseInvariant, PTL DEF Spec, CheckedWriteIsFree

\* An ended lease blocks again only because somebody resolved it to a later date, or
\* because it was superseded within its term and a cascade then made it stale.  In
\* particular a cancelled lease never does.
THEOREM RevivalsAreExplained == Spec => RevivalsExplained
  <1>1. LInv /\ [Next]_vars =>
          [ \A l \in Leases : status[l] # "absent" /\ l \in Begun => Prolonged(l) \/ Dragged(l) ]_vars
    <2> SUFFICES ASSUME LInv, Next, NEW l \in Leases, status[l] # "absent", ~Active(l), Active(l)'
                 PROVE  Prolonged(l) \/ Dragged(l)
      BY DEF Begun
    <2>1. through[l] \in Nat /\ now \in Nat /\ status[l] \in Statuses
      BY DEF LInv, TypeOK
    <2>2. CASE Tick
      BY <2>1, <2>2 DEF Tick, leases, Active
    <2>3. CASE UncheckedWrite \/ Reindex
      BY <2>3 DEF UncheckedWrite, Reindex, leases, Active
    <2>4. ASSUME NEW w \in Writers, NEW r \in Records, OutsideCall(w, r)
          PROVE  FALSE
      BY <2>4 DEF OutsideCall, leases, Active
    <2>5. ASSUME NEW w \in Writers, NewRecord(w) PROVE FALSE
      BY <2>5 DEF NewRecord, leases, Active
    <2>6. ASSUME NEW k \in Leases, NEW x \in Claims, NEW v \in Terms, Acquire(k, x, v) PROVE FALSE
      BY <2>6 DEF Acquire, Unused, Active, LInv, TypeOK
    <2>7. ASSUME NEW k \in Leases, NEW v \in Terms, ResolveLease(k, v) PROVE Prolonged(l)
      <3>1. l = k
        BY <2>7 DEF ResolveLease, Active, LInv, TypeOK
      <3>2. status[l] = "open" /\ status'[l] = "resolved" /\ through'[l] = v /\ now' = now
        BY <2>7, <3>1 DEF ResolveLease, LInv, TypeOK
      <3>3. v \in Nat /\ v > now /\ ~(through[l] > now)
        BY <3>2, TimeAssumption DEF Active, Ended, Terms, LInv, TypeOK
      <3> QED BY <2>1, <3>2, <3>3 DEF Prolonged
    <2>8. ASSUME NEW k \in Leases, NEW n \in Leases, NEW w \in Writers, SupersedeLease(k, n, w)
          PROVE  FALSE
      BY <2>8 DEF SupersedeLease, Unused, Active, Ended, LInv, TypeOK
    <2>9. ASSUME NEW x, NEW D \in SUBSET Dependents(x), Cascade(D, x),
                 UNCHANGED << claim, through, now >>
          PROVE  status[l] = "superseded" /\ status'[l] = "stale" /\ x \in claim[l].depends_on
      <3>1. status'[l] # status[l] /\ status'[l] # "cancelled"
        BY <2>9 DEF Active, Ended
      <3>2. l \in D /\ status'[l] = "stale"
        BY <2>9, <3>1 DEF Cascade
      <3>3. x \in claim[l].depends_on /\ Cascades(l)
        BY <3>2 DEF Dependents
      <3> QED BY <2>1, <2>9, <3>2, <3>3 DEF Cascades, Active, Ended, Statuses
    <2>10. ASSUME NEW w \in Writers, NEW r \in Records, NEW D \in SUBSET known,
                  CancelRecord(w, r, D)
           PROVE  Dragged(l)
      <3>1. r \in cancelled' \ cancelled
        BY <2>10 DEF CancelRecord
      <3> QED BY <2>9, <2>10, <3>1 DEF CancelRecord, Dragged
    <2>11. ASSUME NEW k \in Leases, NEW w \in Writers, NEW D \in SUBSET known,
                  CancelLease(k, w, D)
           PROVE  Dragged(l)
      <3>1. status[k] # "cancelled" /\ status'[k] = "cancelled"
        BY <2>11 DEF CancelLease, Cascade, Ended
      <3> QED BY <2>9, <2>11, <3>1 DEF CancelLease, Dragged
    <2> QED BY <2>2, <2>3, <2>4, <2>5, <2>6, <2>7, <2>8, <2>10, <2>11 DEF Next
  <1> QED BY <1>1, LeaseInvariant, PTL DEF Spec, RevivalsExplained
=============================================================================
