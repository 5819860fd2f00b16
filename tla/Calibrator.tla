----------------------------- MODULE Calibrator -----------------------------
(***************************************************************************)
(* Calibration policies, the proposals that change them and the corpus that *)
(* is computed by them (src/src/eightos/calibration.py, the dispatch inside *)
(* kernel.ir.new in sdk/ir_ops.py, _indexes.py).                            *)
(*                                                                         *)
(* Authoring a proposal looks for a standing authorization at once; if one  *)
(* grants it, the same call supersedes the target policy and then the      *)
(* proposal.  Both are batches of two renames followed by a rewrite of the  *)
(* indexes, and the process may die between any two of these steps.         *)
(*                                                                         *)
(* The policies apply to one scope, as the match of scopes is exact, but    *)
(* for what a proposal sends "elsewhere".  A successor is named after what  *)
(* it supersedes: <<1, 2>> is the record "1.s2".                            *)
(*                                                                         *)
(* A proposal may set any field of the successor, those of its lineage      *)
(* included.  Left out are fields that nothing here reads, another          *)
(* projection type, and an id that another record bears already; an id that *)
(* was asked for sorts like the name of its file.                           *)
(***************************************************************************)
EXTENDS Integers, Sequences, FiniteSets

CONSTANTS
  Ids,        \* names of policies: bounds how often a policy is superseded
  HandIds,    \* the names people give, a subset of Ids
  Proposals, Auths, Subjects,
  Contents,   \* what people write into policies
  Changes,    \* what proposals ask for
  Grants,     \* what authorizations grant
  Domains, Resolvers,
  Default,    \* domain_default of the scope, or None
  MaxTime,    \* bound: the clock stops
  None

Times == 0 .. MaxTime

\* What a policy applies to: one domain of the scope, None for all of them, or
\* another scope.
AppliesTo == Domains \cup { None, "elsewhere" }

Content == [ value : Int, domain : AppliesTo, truth : Resolvers \cup {None} ]

Statuses == { "live", "superseded", "cancelled" }

\* None leaves a field as it is; renames asks for another id.
Change == [ value : Int \cup {None}, domain : AppliesTo, truth : Resolvers \cup {None},
            status : Statuses \cup {None}, supersedes : Ids \cup {None},
            superseded_by : Ids \cup {None}, authored_on : Times \cup {None},
            renames : BOOLEAN, observations : Nat ]

\* within and observations are conditions of an authorization, None for a
\* condition that it does not make.
Grant == [ subjects : SUBSET Ids, within : Nat \cup {None}, observations : Nat \cup {None} ]

ASSUME IdAssumption      == /\ HandIds \subseteq Ids /\ IsFiniteSet(Ids)
                            /\ Ids \subseteq Seq(Nat) \ { << >> }
ASSUME ContentAssumption == /\ Contents \subseteq Content
                            /\ Changes \subseteq Change
                            /\ Grants \subseteq Grant
ASSUME DefaultAssumption == Default \in Domains \cup {None}
ASSUME TimeAssumption    == MaxTime \in Nat

\* named: the record bears the id that its file is named after.
Policy == [ says : Content, status : Statuses,
            supersedes : Ids \cup {None}, superseded_by : Ids \cup {None},
            by : Proposals \cup { "new", "supersede" }, authored_on : Times,
            named : BOOLEAN ]

\* on_file and found are history: what the search could see.
Proposal == [ target : Ids, change : Changes, state : { "pending", "torn", "approved" },
              effective : Ids \cup {None}, on_file : SUBSET Auths, found : BOOLEAN ]

Subject == [ domain : Domains \cup {None}, predicted : BOOLEAN,
             resolver : Resolvers \cup {None},      \* None while it is open
             path : { "file", "folder" } ]

ASSUME NoneAssumption ==
  None \notin Int \cup Domains \cup Resolvers \cup Ids \cup Policy \cup Proposal
              \cup Subject \cup Grant \cup Auths \cup Proposals \cup Statuses
              \cup { "file", "folder", "elsewhere" }
ASSUME NameAssumption == /\ { "new", "supersede" } \cap Proposals = {}
                         /\ "elsewhere" \notin Domains

VARIABLES
  now,        \* wall clock, in milliseconds
  policy,     \* calibration policies on disk
  proposal,   \* proposals on disk, each with the record that approves it
  auth,       \* standing authorizations on disk; nobody reads their status
  subject,    \* records that predictions are about
  known,      \* id-to-path.yml, the policies in it
  paths,      \* id-to-path.yml, the path of every subject in it
  corpus,     \* calibration-corpus.yml, the tuple of every subject
  pc, cur,    \* the proposal being dispatched
  made,       \* the policy that step 1 of its dispatch made
  died,       \* history: proposals whose authoring was cut short
  torn,       \* history: policies of which only the first rename happened
  lost,       \* history: names at which a record was overwritten
  moved,      \* history: subjects whose path changed since the corpus knew it
  behind      \* history: a process died and left the indexes old

records  == << policy, proposal, auth, subject >>
indexes  == << known, paths, corpus, moved, behind >>
dispatch == << pc, cur, made >>
vars     == << now, records, indexes, dispatch, died, torn, lost >>

Init ==
  /\ now = 0
  /\ policy   = [ p \in Ids |-> None ]
  /\ proposal = [ r \in Proposals |-> None ]
  /\ auth     = [ u \in Auths |-> None ]
  /\ subject  = [ s \in Subjects |-> None ]
  /\ known = {} /\ paths = [ s \in Subjects |-> None ]
  /\ corpus = [ s \in Subjects |-> "none" ]
  /\ pc = "idle" /\ cur = None /\ made = None
  /\ died = {} /\ torn = {} /\ lost = {} /\ moved = {} /\ behind = FALSE

-----------------------------------------------------------------------------
(***************************************************************************)
(* Which policy is in force                                                *)
(***************************************************************************)
OnDisk(pol) == { p \in Ids : pol[p] # None }

\* What can be found by the id that its file is named after.
Bearing(pol) == { p \in OnDisk(pol) : pol[p].named }

Extends(q, p) == Len(q) > Len(p) /\ SubSeq(q, 1, Len(p)) = p

\* The order of the names as strings, for successors numbered below ten.
NameBefore(p, q) ==
  \/ Extends(q, p)
  \/ \E i \in 1 .. Len(p) :
       /\ i <= Len(q) /\ SubSeq(p, 1, i - 1) = SubSeq(q, 1, i - 1)
       /\ p[i] < q[i]

\* Sorted by authored_on and id, the last one.
Before(pol, p, q) ==
  \/ pol[p].authored_on < pol[q].authored_on
  \/ pol[p].authored_on = pol[q].authored_on /\ NameBefore(p, q)

Latest(pol, S) == { p \in S : \A q \in S \ {p} : Before(pol, q, p) }

\* Only superseded policies are passed over.
InForce(pol, domain) ==
  Latest(pol, { p \in OnDisk(pol) : /\ pol[p].status # "superseded"
                                    /\ pol[p].says.domain \in { None, domain } })

\* find_active_policy, which falls back on the domain of the scope.
ActiveFor(s) ==
  InForce(policy, IF subject[s].domain = None THEN Default ELSE subject[s].domain)

-----------------------------------------------------------------------------
(***************************************************************************)
(* The indexes                                                             *)
(***************************************************************************)
\* The corpus asks for the domain of the subject itself, and reads the actual
\* value where the id-to-path.yml on disk says the subject is.
Filled(pol, sub) ==
  /\ sub.resolver # None
  /\ \E p \in InForce(pol, sub.domain) : pol[p].says.truth = sub.resolver

TupleByAnyone(pol, sub, at) ==                     \* mutant of Tuple
  IF sub = None THEN "none"
  ELSE IF ~sub.predicted THEN "none"
  ELSE IF sub.resolver = None THEN "open"
  ELSE IF at = sub.path THEN "actual"
  ELSE "valueless"

Tuple(pol, sub, at) ==
  IF sub = None THEN "none"
  ELSE IF ~sub.predicted THEN "none"
  ELSE IF ~Filled(pol, sub) THEN "open"
  ELSE IF at = sub.path THEN "actual"
  ELSE "valueless"

PathsOf(sub) == [ s \in Subjects |-> IF sub[s] = None THEN None ELSE sub[s].path ]

WriteIds ==
  /\ known' = Bearing(policy')
  /\ paths' = PathsOf(subject')

\* write_all, at the end of an operation that gave the subjects in "those" a path.
WriteAll(those) ==
  /\ WriteIds
  /\ corpus' = [ s \in Subjects |-> Tuple(policy', subject'[s], paths[s]) ]
  /\ moved' = (IF behind THEN moved ELSE {}) \cup those
  /\ behind' = FALSE

\* The process dies before it has written the last index that changes.
WriteSome(those) ==
  /\ WriteIds \/ UNCHANGED << known, paths >>
  /\ UNCHANGED corpus
  /\ moved' = (IF behind THEN moved ELSE {}) \cup those
  /\ behind' = TRUE

\* The end of an operation: it returns, or dies.
Finish(those) == WriteAll(those) \/ WriteSome(those)

\* Likewise for an operation that changes none of these indexes by itself.
Interrupt == IF behind THEN WriteSome({}) ELSE UNCHANGED indexes

Stay == UNCHANGED << dispatch, died, torn, lost >>

OtherWriteAll ==
  /\ pc = "idle" /\ behind
  /\ Stay /\ UNCHANGED << now, records >>
  /\ WriteAll({})

-----------------------------------------------------------------------------
(***************************************************************************)
(* People                                                                  *)
(***************************************************************************)
Clock == now' \in { now, now + 1 } \cap Times

\* What kernel.ir.new, kernel.ir.supersede and the calibrator write first.
Written(c, t, by) ==
  [ says |-> c, status |-> "live", supersedes |-> t, superseded_by |-> None,
    by |-> by, authored_on |-> now', named |-> TRUE ]

\* The new policy may replace a cancelled one, which stays as it is.
AuthorPolicy(p, c, t) ==
  /\ pc = "idle" /\ p \in HandIds \ known /\ policy[p] = None
  /\ t # None => t \in known /\ policy[t].status = "cancelled"
  /\ Clock
  /\ policy' = [ policy EXCEPT ![p] = Written(c, t, "new") ]
  /\ Stay /\ UNCHANGED << proposal, auth, subject >>
  /\ Finish({})

\* _count_supersessions counts whatever is named after t.
Named(t) == { p \in known : Extends(p, t) }

NextIdOfLive(t) ==                                 \* mutant of NextId
  Append(t, Cardinality({ p \in Named(t) : policy[p].status = "live" }) + 1)

NextId(t) == Append(t, Cardinality(Named(t)) + 1)

\* The first rename of a supersession.
RetiredOnce(t, q) ==                               \* mutant of Retired
  [ policy EXCEPT ![t].status = "superseded",
                  ![t].superseded_by = IF @ = None THEN q ELSE @ ]

Retired(t, q) ==
  [ policy EXCEPT ![t].status = "superseded", ![t].superseded_by = q ]

Succeed(t, q, new) == policy' = [ Retired(t, q) EXCEPT ![q] = new ]

Tear(t, q) ==
  /\ policy' = Retired(t, q)
  /\ torn' = torn \cup {t}
  /\ UNCHANGED << known, paths, corpus >>
  /\ moved' = (IF behind THEN moved ELSE {})
  /\ behind' = TRUE

\* kernel.ir.supersede copies what the policy says.  It takes another name when
\* NextId is in use, which the model leaves out.
SupersedeByHand(t) ==
  LET q == NextId(t) IN
  /\ pc = "idle" /\ t \in known /\ policy[t].status # "superseded"
  /\ q \in Ids \ known /\ policy[q] = None
  /\ Clock /\ UNCHANGED << proposal, auth, subject, dispatch, died, lost >>
  /\ \/ /\ Succeed(t, q, Written(policy[t].says, t, "supersede"))
        /\ Finish({})
        /\ UNCHANGED torn
     \/ Tear(t, q)

CancelPolicy(t) ==
  /\ pc = "idle" /\ t \in known /\ policy[t].status = "live"
  /\ policy' = [ policy EXCEPT ![t].status = "cancelled" ]
  /\ Stay /\ UNCHANGED << now, proposal, auth, subject >>
  /\ WriteAll({}) \/ Interrupt

Authorize(u, g) ==
  /\ pc = "idle" /\ auth[u] = None
  /\ auth' = [ auth EXCEPT ![u] = g ]
  /\ Stay /\ UNCHANGED << now, policy, proposal, subject >>
  /\ WriteAll({}) \/ Interrupt

-----------------------------------------------------------------------------
(***************************************************************************)
(* Proposals                                                               *)
(***************************************************************************)
\* The first half of kernel.ir.new.
Propose(r, t, ch) ==
  /\ pc = "idle" /\ proposal[r] = None
  /\ proposal' = [ proposal EXCEPT ![r] =
       [ target |-> t, change |-> ch, state |-> "pending", effective |-> None,
         on_file |-> { u \in Auths : auth[u] # None }, found |-> t \in Bearing(policy) ] ]
  /\ UNCHANGED << now, policy, auth, subject, made, torn, lost >>
  /\ \/ /\ WriteAll({})
        /\ pc' = "matching" /\ cur' = r
        /\ UNCHANGED died
     \/ /\ Interrupt
        /\ died' = died \cup {r}
        /\ UNCHANGED << pc, cur >>

Distance(a, b) == IF a < b THEN b - a ELSE a - b

\* _conditions_pass, against the target as the proposal names it, in force or
\* not.  A minimum of observations and a p-value are the same comparison.  A
\* condition is about one field, and all others may change along with it.
ConditionsPass(g, t, ch) ==
  /\ g.within # None =>
       /\ t \in Bearing(policy) /\ ch.value # None
       /\ Distance(ch.value, policy[t].says.value) <= g.within
  /\ g.observations # None => ch.observations >= g.observations

CoversLineage(g, t, ch) ==                         \* mutant of Covers
  /\ \E p \in g.subjects : p = t \/ Extends(t, p)
  /\ ConditionsPass(g, t, ch)

Covers(g, t, ch) == t \in g.subjects /\ ConditionsPass(g, t, ch)

MatchingUnlessOneFails ==                          \* mutant of Matching
  { u \in Auths :
      \A v \in { u } \cup { w \in Auths : auth[w] # None /\ proposal[cur].target \in auth[w].subjects } :
        auth[v] # None /\ Covers(auth[v], proposal[cur].target, proposal[cur].change) }

Matching ==
  { u \in Auths : /\ auth[u] # None
                  /\ Covers(auth[u], proposal[cur].target, proposal[cur].change) }

Return == pc' = "idle" /\ cur' = None /\ made' = None

\* Nothing matches, and the proposal stays pending: or the target is not a record,
\* and the call raises.
Decline ==
  /\ pc = "matching"
  /\ Matching = {} \/ proposal[cur].target \notin known
  /\ Return
  /\ UNCHANGED << now, records, indexes, died, torn, lost >>

Or(new, old) == IF new = None THEN old ELSE new

Changed(c, ch) ==
  [ value |-> Or(ch.value, c.value), domain |-> Or(ch.domain, c.domain), truth |-> Or(ch.truth, c.truth) ]

\* Every key of the proposed changes is set, after the fields of the lineage.
Proposed(new, ch) ==
  [ new EXCEPT !.says          = Changed(@, ch),
               !.status        = Or(ch.status, @),
               !.supersedes    = Or(ch.supersedes, @),
               !.superseded_by = Or(ch.superseded_by, @),
               !.authored_on   = Or(ch.authored_on, @),
               !.named         = ~ch.renames ]

\* _author_policy_supersession.  What lies at its new path is replaced.
Apply ==
  LET t == proposal[cur].target
      q == NextId(t)
  IN
  /\ pc = "matching" /\ Matching # {} /\ t \in known /\ q \in Ids
  /\ Clock /\ UNCHANGED << proposal, auth, subject >>
  /\ \/ /\ Succeed(t, q, Proposed(Written(policy[t].says, t, cur), proposal[cur].change))
        /\ lost' = lost \cup ({q} \cap OnDisk(policy))
        /\ UNCHANGED torn
        /\ \/ /\ WriteAll({})
              /\ pc' = "approving" /\ made' = q
              /\ UNCHANGED << cur, died >>
           \/ /\ WriteSome({})
              /\ died' = died \cup {cur}
              /\ Return
     \/ /\ Tear(t, q)
        /\ died' = died \cup {cur}
        /\ Return
        /\ UNCHANGED lost

\* What the approval names: step 1 returned it.
EffectiveRecounted ==                              \* mutant of Effective
  NextId(proposal[cur].target)

Effective == made

\* _author_proposal_approval_supersession.
Approve ==
  /\ pc = "approving"
  /\ UNCHANGED << now, policy, auth, subject, torn, lost >>
  /\ \/ /\ proposal' = [ proposal EXCEPT ![cur].state = "approved", ![cur].effective = Effective ]
        /\ WriteAll({}) \/ Interrupt
        /\ UNCHANGED died
     \/ /\ proposal' = [ proposal EXCEPT ![cur].state = "torn" ]
        /\ UNCHANGED indexes
        /\ died' = died \cup {cur}
  /\ Return

\* The process dies, or raises, between two steps.
Die ==
  /\ pc # "idle"
  /\ died' = died \cup {cur}
  /\ Return
  /\ UNCHANGED << now, records, indexes, torn, lost >>

-----------------------------------------------------------------------------
(***************************************************************************)
(* The subjects of predictions                                             *)
(***************************************************************************)
Put(s, rec, those) ==
  /\ pc = "idle"
  /\ subject' = [ subject EXCEPT ![s] = rec ]
  /\ Stay /\ UNCHANGED << now, policy, proposal, auth >>
  /\ Finish(those)

AuthorSubject(s, d) ==
  /\ subject[s] = None
  /\ Put(s, [ domain |-> d, predicted |-> FALSE, resolver |-> None, path |-> "file" ], {s})

\* A promoted event is resolved from the start, by whoever the event names.
PromoteTo(s, v) ==
  /\ subject[s] = None
  /\ Put(s, [ domain |-> None, predicted |-> FALSE, resolver |-> v, path |-> "file" ], {s})

Predict(s) ==
  /\ subject[s] # None /\ ~subject[s].predicted
  /\ Put(s, [ subject[s] EXCEPT !.predicted = TRUE ], {})

ResolveSubject(s, v) ==
  /\ subject[s] # None /\ paths[s] = subject[s].path
  /\ subject[s].resolver = None
  /\ Put(s, [ subject[s] EXCEPT !.resolver = v ], {})

ExpandSubject(s) ==
  /\ subject[s] # None /\ paths[s] = subject[s].path
  /\ subject[s].path = "file"
  /\ Put(s, [ subject[s] EXCEPT !.path = "folder" ], {s})

CollapseSubject(s) ==
  /\ subject[s] # None /\ paths[s] = subject[s].path
  /\ subject[s].path = "folder"
  /\ Put(s, [ subject[s] EXCEPT !.path = "file" ], {s})

Next ==
  \/ \E p \in Ids, c \in Contents, t \in Ids \cup {None} : AuthorPolicy(p, c, t)
  \/ \E t \in Ids : SupersedeByHand(t) \/ CancelPolicy(t)
  \/ \E u \in Auths, g \in Grants : Authorize(u, g)
  \/ \E r \in Proposals, t \in Ids, ch \in Changes : Propose(r, t, ch)
  \/ Decline \/ Apply \/ Approve \/ Die \/ OtherWriteAll
  \/ \E s \in Subjects, d \in Domains \cup {None} : AuthorSubject(s, d)
  \/ \E s \in Subjects, v \in Resolvers : PromoteTo(s, v) \/ ResolveSubject(s, v)
  \/ \E s \in Subjects : Predict(s) \/ ExpandSubject(s) \/ CollapseSubject(s)

Spec == Init /\ [][Next]_vars

-----------------------------------------------------------------------------
(***************************************************************************)
(* Properties                                                              *)
(***************************************************************************)
TypeOK ==
  /\ now      \in Times
  /\ policy   \in [ Ids -> Policy \cup {None} ]
  /\ proposal \in [ Proposals -> Proposal \cup {None} ]
  /\ auth     \in [ Auths -> Grant \cup {None} ]
  /\ subject  \in [ Subjects -> Subject \cup {None} ]
  /\ known \subseteq Ids
  /\ paths    \in [ Subjects -> { "file", "folder", None } ]
  /\ corpus   \in [ Subjects -> { "none", "open", "valueless", "actual" } ]
  /\ pc \in { "idle", "matching", "approving" }
  /\ cur \in Proposals \cup {None} /\ made \in Ids \cup {None}
  /\ died \subseteq Proposals /\ torn \subseteq Ids /\ lost \subseteq Ids
  /\ moved \subseteq Subjects /\ behind \in BOOLEAN

\* Whatever a policy of the calibrator's says differs from what the target of its
\* proposal says by the change that the proposal asked for, and a standing
\* authorization on disk grants that change for that very target; and it names
\* another predecessor than that only if the proposal asked for one.  It has to
\* survive forks, crashes and proposals against policies that are no longer in
\* force (calibration.py:254-325, ir_ops.py:556-611).
ChangesAreGranted ==
  \A q \in OnDisk(policy) : policy[q].by \in Proposals =>
    LET r == policy[q].by
        t == proposal[r].target
    IN  /\ policy[q].supersedes = Or(proposal[r].change.supersedes, t)
        /\ t \notin lost =>
             /\ policy[q].says = Changed(policy[t].says, proposal[r].change)
             /\ \E u \in Auths :
                  /\ auth[u] # None /\ t \in auth[u].subjects
                  /\ ConditionsPass(auth[u], t, proposal[r].change)

\* An approval names a policy that was made from that proposal, and that bears
\* the name unless the proposal asked for another; and a proposal that made a
\* policy is approved, unless its authoring was cut short or is still under way
\* (ir_ops.py:518-554).
ApprovalsAreApplied ==
  \A r \in Proposals : proposal[r] # None =>
    LET q == proposal[r].effective
    IN  /\ proposal[r].state = "approved" =>
             /\ q \in OnDisk(policy)
             /\ q \notin lost =>
                  policy[q].by = r /\ (policy[q].named \/ proposal[r].change.renames)
        /\ (r \notin died \cup {cur} /\ \E p \in OnDisk(policy) : policy[p].by = r) =>
             proposal[r].state = "approved"

\* A proposal whose authoring returned and that is still pending was granted by no
\* authorization that was on disk then.  One that is authored later is not taken
\* into account, and nobody looks at the proposal again (ir_ops.py:486-493).
PendingIsExplained ==
  \A r \in { x \in Proposals \ (died \cup {cur}) : proposal[x] # None } :
    (proposal[r].state = "pending" /\ proposal[r].found /\ proposal[r].target \notin lost) =>
       \A u \in proposal[r].on_file : ~Covers(auth[u], proposal[r].target, proposal[r].change)

\* Policies whose lineage, status, date or name a proposal has set.
SetsControl(ch) ==
  \/ ch.renames \/ ch.status # None \/ ch.authored_on # None
  \/ ch.supersedes # None \/ ch.superseded_by # None

SetByProposal ==
  { q \in OnDisk(policy) : policy[q].by \in Proposals /\ SetsControl(proposal[policy[q].by].change) }

\* A superseded policy points to the last of its successors, which points back:
\* proposals against one policy fork its lineage, and the pointer follows the
\* newest branch.  A policy that is not superseded has no successors, but for
\* those that people author to replace a cancelled one: to these no pointer
\* leads.  Excepted is a policy that a crash left between its two renames, and
\* whatever a proposal has set in its own successor (ir_ops.py:208-241, 569-643).
PointersLead ==
  \A p \in OnDisk(policy) \ (torn \cup lost \cup SetByProposal) :
    LET next == { q \in OnDisk(policy) \ SetByProposal : policy[q].supersedes = p }
        to   == policy[p].superseded_by
    IN  IF policy[p].status = "superseded"
          THEN \/ to \in SetByProposal
               \/ /\ to \in next
                  /\ \A q \in next : policy[q].authored_on <= policy[to].authored_on
          ELSE \A q \in next : policy[p].status = "cancelled" /\ policy[q].by = "new"

\* A proposal, against t or what is named after it, that asks for another id: its
\* record is not counted when the next name after t is chosen.
Uncounted(t) ==
  \E r \in Proposals :
    /\ proposal[r] # None /\ proposal[r].change.renames
    /\ proposal[r].target = t \/ Extends(proposal[r].target, t)

\* The calibrator writes its policies to paths it does not look at.  It never
\* overwrites a record, whatever index a crash left behind, but where people have
\* used a name of the form it uses itself, or where a proposal has changed an id
\* (ir_ops.py:582-583, 605-607, 2071-2074).
NamesAreFresh ==
  \A p \in lost : \/ p \in HandIds /\ Len(p) > 1
                  \/ \E t \in Ids : Extends(p, t) /\ Uncounted(t)

\* The corpus holds an actual for a prediction exactly if the subject is resolved
\* by the ground truth of the policy that find_active_policy finds for it, as
\* long as the domain of the scope plays no part; and the value itself is missing
\* only if the path of the subject has changed since the last rewrite of the
\* indexes (_indexes.py:435-553, calibration.py:64-93).
CorpusIsExplained ==
  ~behind => \A s \in Subjects :
    LET resolved == \E p \in ActiveFor(s) : policy[p].says.truth = subject[s].resolver
    IN  /\ (subject[s] # None /\ subject[s].predicted
             /\ (subject[s].domain # None \/ Default = None)) =>
               (corpus[s] \in { "valueless", "actual" } <=>
                  (subject[s].resolver # None /\ resolved))
        /\ corpus[s] = "valueless" => s \in moved
=============================================================================
