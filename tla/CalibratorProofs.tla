-------------------------- MODULE CalibratorProofs --------------------------
(***************************************************************************)
(* Proofs about Calibrator.  CInv joins the types, five of the checked      *)
(* invariants and what they rest on: where the index of policies stands     *)
(* (KnownExist), what the dispatch under way may rely on (UnderWay), where  *)
(* policies come from (Sourced), how a lineage is named and dated           *)
(* (Lineage, PointerNames, Titled), that numbers of successors grow         *)
(* (Numbered), what a proposal saw (SawAuths) and what the indexes tell of  *)
(* subjects (PathsFollow, TuplesTell).  CorpusIsExplained, the sixth,       *)
(* follows from the last.                                                   *)
(***************************************************************************)
EXTENDS Calibrator, SequenceTheorems, FiniteSetTheorems, TLAPS

KnownExist == known \subseteq OnDisk(policy)

\* The dispatch under way is of a proposal of its own; while it matches, the
\* index names every policy and none is from it yet.
UnderWay ==
  /\ pc = "idle" => cur = None
  /\ pc # "idle" => cur \in Proposals /\ proposal[cur] # None /\ proposal[cur].state = "pending"
  /\ pc = "matching" => /\ known = Bearing(policy)
                        /\ \A p \in OnDisk(policy) : policy[p].by # cur
  /\ pc = "approving" => made \in OnDisk(policy) /\ policy[made].by = cur

\* A policy of the calibrator's stems from a proposal on disk whose target is too.
Sourced ==
  \A q \in OnDisk(policy) : policy[q].by \in Proposals =>
    proposal[policy[q].by] # None /\ proposal[policy[q].by].target \in OnDisk(policy)

\* Unless a proposal has set it otherwise, a successor has its predecessor beside
\* it, is named after it if the code named it, and does not date from the future.
Lineage ==
  \A q \in OnDisk(policy) \ SetByProposal :
    /\ policy[q].authored_on <= now
    /\ policy[q].supersedes # None =>
         /\ policy[q].supersedes \in OnDisk(policy)
         /\ policy[q].by # "new" => \E n \in Nat : q = Append(policy[q].supersedes, n)

\* Likewise, a pointer leads to a name that the code made.
PointerNames ==
  \A p \in OnDisk(policy) \ SetByProposal : policy[p].status = "superseded" =>
    \E n \in Nat : policy[p].superseded_by = Append(p, n)

\* What bears another id is the successor of a proposal that asked for one.
Titled ==
  \A q \in OnDisk(policy) : policy[q].named \/
    /\ policy[q].by \in Proposals /\ proposal[policy[q].by].change.renames
    /\ \E n \in Nat : q = Append(proposal[policy[q].by].target, n)

Heirs(t) == { p \in OnDisk(policy) : Extends(p, t) }

\* A name that people do not give was given when there were fewer successors.
Numbered ==
  \A t \in Ids, n \in Nat : Append(t, n) \in OnDisk(policy) \ HandIds => n <= Cardinality(Heirs(t))

\* What a proposal saw, authorizations and its target, is still there.
SawAuths ==
  \A r \in Proposals : proposal[r] # None =>
    /\ \A u \in proposal[r].on_file : auth[u] # None
    /\ proposal[r].found =>
         /\ proposal[r].target \in OnDisk(policy)
         /\ proposal[r].target \notin lost => policy[proposal[r].target].named

\* The path in the index is wrong only for what has moved under an old index.
PathsFollow ==
  \A s \in Subjects : (subject[s] # None /\ paths[s] # subject[s].path) => behind /\ s \in moved

TuplesTell ==
  ~behind => \A s \in Subjects :
    /\ corpus[s] = "none" <=> (subject[s] = None \/ ~subject[s].predicted)
    /\ corpus[s] \in { "valueless", "actual" } => Filled(policy, subject[s])
    /\ corpus[s] = "open" => ~Filled(policy, subject[s])
    /\ corpus[s] = "valueless" => s \in moved

CInv ==
  /\ TypeOK /\ KnownExist /\ UnderWay /\ Sourced /\ Lineage /\ PointerNames /\ Titled
  /\ Numbered /\ SawAuths
  /\ PathsFollow /\ TuplesTell
  /\ ChangesAreGranted /\ ApprovalsAreApplied /\ PendingIsExplained /\ PointersLead
  /\ NamesAreFresh

-----------------------------------------------------------------------------
(***************************************************************************)
(* Names                                                                   *)
(***************************************************************************)
LEMMA Appended ==
  ASSUME NEW t \in Seq(Nat), NEW n \in Nat
  PROVE  /\ Append(t, n) \in Seq(Nat) /\ Append(t, n) # t
         /\ Len(Append(t, n)) = Len(t) + 1
         /\ Append(t, n)[Len(t) + 1] = n
         /\ SubSeq(Append(t, n), 1, Len(t)) = t
         /\ Extends(Append(t, n), t)
<1>1. /\ Append(t, n) \in Seq(Nat)
      /\ Len(Append(t, n)) = Len(t) + 1
      /\ Append(t, n)[Len(t) + 1] = n
  OBVIOUS
<1>2. SubSeq(Append(t, n), 1, Len(t)) = t
  <2>1. Len(t) \in Nat /\ t \in Seq(Nat) /\ \A i \in 1 .. Len(t) : Append(t, n)[i] = t[i] /\ t[i] \in Nat
    OBVIOUS
  <2>2. /\ SubSeq(Append(t, n), 1, Len(t)) \in Seq(Nat)
        /\ Len(SubSeq(Append(t, n), 1, Len(t))) = IF 1 <= Len(t) THEN Len(t) - 1 + 1 ELSE 0
        /\ \A i \in 1 .. (Len(t) - 1 + 1) : SubSeq(Append(t, n), 1, Len(t))[i] = Append(t, n)[1 + i - 1]
    BY <2>1, SubSeqProperties
  <2>3. Len(SubSeq(Append(t, n), 1, Len(t))) = Len(t)
    BY <2>1, <2>2
  <2>4. \A i \in 1 .. Len(t) : SubSeq(Append(t, n), 1, Len(t))[i] = t[i]
    BY <2>1, <2>2
  <2> QED BY <2>1, <2>2, <2>3, <2>4, SeqEqual
<1>3. Len(t) \in Nat
  OBVIOUS
<1>4. Append(t, n) # t
  <2> SUFFICES ASSUME Append(t, n) = t PROVE FALSE
    OBVIOUS
  <2>1. Len(Append(t, n)) = Len(t)
    OBVIOUS
  <2> QED BY <2>1, <1>1, <1>3
<1>5. Len(Append(t, n)) > Len(t)
  BY <1>1, <1>3
<1> QED BY <1>1, <1>2, <1>4, <1>5 DEF Extends

LEMMA SameAppended ==
  ASSUME NEW t \in Seq(Nat), NEW n \in Nat, NEW u \in Seq(Nat), NEW m \in Nat,
         Append(t, n) = Append(u, m)
  PROVE  t = u /\ n = m
<1>1. Len(t) = Len(u)
  BY Appended, Len(t) \in Nat, Len(u) \in Nat
<1> QED BY <1>1, Appended

LEMMA Names == Ids \subseteq Seq(Nat) /\ HandIds \subseteq Ids /\ IsFiniteSet(Ids) /\ \A t \in Ids : Len(t) >= 1
<1>1. ASSUME NEW t \in Ids PROVE Len(t) >= 1
  <2>1. t \in Seq(Nat) /\ t # << >>
    BY IdAssumption
  <2> QED BY <2>1
<1> QED BY <1>1, IdAssumption

LEMMA Counted ==
  ASSUME NEW S \in SUBSET Ids
  PROVE  IsFiniteSet(S) /\ Cardinality(S) \in Nat
BY Names, FS_Subset, FS_CardinalityType

LEMMA Fresh ==
  ASSUME NEW t \in Ids, TypeOK
  PROVE  /\ NextId(t) = Append(t, Cardinality(Named(t)) + 1)
         /\ Cardinality(Named(t)) \in Nat
         /\ NextId(t) # t /\ Extends(NextId(t), t)
<1>1. Named(t) \in SUBSET Ids
  BY DEF Named, TypeOK
<1>2. Cardinality(Named(t)) \in Nat /\ t \in Seq(Nat)
  BY <1>1, Counted, Names
<1> QED BY <1>2, Appended DEF NextId

-----------------------------------------------------------------------------
(***************************************************************************)
(* Steps                                                                   *)
(***************************************************************************)
\* Steps that leave policies, proposals and authorizations alone.
SubjectStep ==
  \/ \E s \in Subjects, d \in Domains \cup {None} : AuthorSubject(s, d)
  \/ \E s \in Subjects, v \in Resolvers : PromoteTo(s, v) \/ ResolveSubject(s, v)
  \/ \E s \in Subjects : Predict(s) \/ ExpandSubject(s) \/ CollapseSubject(s)

Other == SubjectStep \/ OtherWriteAll \/ UNCHANGED vars

LEMMA OtherLeaves ==
  Other => UNCHANGED << now, policy, proposal, auth, dispatch, died, torn, lost >>
BY DEF Other, SubjectStep, OtherWriteAll, AuthorSubject, PromoteTo, ResolveSubject, Predict,
       ExpandSubject, CollapseSubject, Put, Stay, records, vars

LEMMA StepKinds ==
  ASSUME [Next]_vars
  PROVE  \/ \E p \in Ids, c \in Contents, old \in Ids \cup {None} : AuthorPolicy(p, c, old)
         \/ \E t \in Ids : SupersedeByHand(t)
         \/ \E t \in Ids : CancelPolicy(t)
         \/ \E u \in Auths, g \in Grants : Authorize(u, g)
         \/ \E r \in Proposals, t \in Ids, ch \in Changes : Propose(r, t, ch)
         \/ Decline
         \/ Apply
         \/ Approve
         \/ Die
         \/ Other
BY DEF Next, Other, SubjectStep

\* Whatever a step writes into the index of policies.
LEMMA KnownStep ==
  ASSUME [Next]_vars
  PROVE  known' = known \/ known' = Bearing(policy')
<1> USE DEF WriteAll, WriteSome, WriteIds, Finish, Interrupt, Tear, indexes
<1>1. ASSUME Other PROVE known' = known \/ known' = Bearing(policy')
  BY <1>1 DEF Other, SubjectStep, OtherWriteAll, AuthorSubject, PromoteTo, ResolveSubject, Predict,
              ExpandSubject, CollapseSubject, Put, vars
<1> QED BY <1>1, StepKinds DEF AuthorPolicy, SupersedeByHand, CancelPolicy, Authorize, Propose,
                               Decline, Apply, Approve, Die

LEMMA Nothing ==
  /\ None \notin Policy /\ None \notin Proposal /\ None \notin Subject /\ None \notin Grant
  /\ None \notin Ids /\ None \notin Proposals /\ None \notin Resolvers /\ None \notin Int
  /\ None # "file" /\ None # "folder"
  /\ "new" \notin Proposals /\ "supersede" \notin Proposals
BY NoneAssumption, NameAssumption

LEMMA Existing ==
  ASSUME TypeOK
  PROVE  /\ \A p \in Ids : policy[p] # None => policy[p] \in Policy
         /\ \A r \in Proposals : proposal[r] # None => proposal[r] \in Proposal
         /\ \A u \in Auths : auth[u] # None => auth[u] \in Grant
         /\ \A s \in Subjects : subject[s] # None => subject[s] \in Subject
BY DEF TypeOK

\* A new policy beside the others.
LEMMA Authored ==
  ASSUME TypeOK, KnownExist, NEW p \in Ids, NEW c \in Contents, NEW old \in Ids \cup {None},
         AuthorPolicy(p, c, old)
  PROVE  /\ p \in HandIds /\ policy[p] = None
         /\ now' \in Times /\ now <= now'
         /\ policy'[p].by = "new" /\ policy'[p].supersedes = old /\ policy'[p].authored_on = now'
         /\ policy'[p].status = "live" /\ policy'[p].says = c /\ policy'[p].named
         /\ old # None => old \in OnDisk(policy) /\ policy[old].status = "cancelled"
         /\ \A x \in Ids \ {p} : policy'[x] = policy[x]
         /\ OnDisk(policy') = OnDisk(policy) \cup {p}
         /\ policy' \in [ Ids -> Policy \cup {None} ]
         /\ UNCHANGED << proposal, auth, subject, dispatch, died, torn, lost >>
<1>1. PICK f : f = Written(c, old, "new")
  OBVIOUS
<1>2. now' \in Times /\ now <= now'
  BY TimeAssumption DEF AuthorPolicy, Clock, Times, TypeOK
<1>3. c \in Content
  BY ContentAssumption
<1>4. policy' = [ policy EXCEPT ![p] = f ]
  BY <1>1 DEF AuthorPolicy
<1>5. /\ f \in Policy /\ f # None
      /\ f.says = c /\ f.status = "live" /\ f.supersedes = old
      /\ f.by = "new" /\ f.authored_on = now' /\ f.named
  <2>1. f \in Policy
    BY <1>1, <1>2, <1>3 DEF Written, Policy, Statuses
  <2> QED BY <1>1, <2>1, Nothing DEF Written
<1> HIDE <1>1
<1>6. policy'[p] = f /\ policy' \in [ Ids -> Policy \cup {None} ]
  BY <1>4, <1>5 DEF TypeOK
<1>7. OnDisk(policy') = OnDisk(policy) \cup {p} /\ \A x \in Ids \ {p} : policy'[x] = policy[x]
  BY <1>4, <1>5 DEF OnDisk, TypeOK
<1>8. old # None => old \in OnDisk(policy) /\ policy[old].status = "cancelled"
  BY DEF AuthorPolicy, KnownExist
<1> QED BY <1>2, <1>5, <1>6, <1>7, <1>8 DEF AuthorPolicy, Stay

LEMMA RetiredOne ==
  ASSUME TypeOK, NEW t \in OnDisk(policy), NEW q \in Ids, q # t
  PROVE  /\ Retired(t, q) \in [ Ids -> Policy \cup {None} ]
         /\ \A p \in Ids \ {t} : Retired(t, q)[p] = policy[p]
         /\ Retired(t, q)[t] \in Policy
         /\ Retired(t, q)[t].status = "superseded" /\ Retired(t, q)[t].superseded_by = q
         /\ Retired(t, q)[t].says = policy[t].says
         /\ Retired(t, q)[t].supersedes = policy[t].supersedes
         /\ Retired(t, q)[t].by = policy[t].by
         /\ Retired(t, q)[t].authored_on = policy[t].authored_on
         /\ Retired(t, q)[t].named = policy[t].named
         /\ OnDisk(Retired(t, q)) = OnDisk(policy)
<1>1. t \in Ids /\ policy[t] \in Policy
  BY Existing DEF OnDisk
<1>2. PICK f : f = [ policy[t] EXCEPT !.status = "superseded", !.superseded_by = q ]
  OBVIOUS
<1>3. /\ f \in Policy /\ f.status = "superseded" /\ f.superseded_by = q
      /\ f.says = policy[t].says /\ f.supersedes = policy[t].supersedes
      /\ f.by = policy[t].by /\ f.authored_on = policy[t].authored_on /\ f.named = policy[t].named
  BY <1>1, <1>2 DEF Policy, Statuses
<1>4. Retired(t, q) = [ policy EXCEPT ![t] = f ]
  BY <1>1, <1>2 DEF Retired, TypeOK
<1> HIDE <1>2
<1>5. f # None
  BY <1>3, Nothing
<1> QED BY <1>1, <1>3, <1>4, <1>5 DEF OnDisk, TypeOK

\* Both renames of a supersession.
LEMMA Succeeded ==
  ASSUME TypeOK, NEW t \in OnDisk(policy), NEW q \in Ids, q # t,
         NEW f \in Policy, Succeed(t, q, f)
  PROVE  /\ policy' \in [ Ids -> Policy \cup {None} ]
         /\ policy'[q] = f
         /\ \A p \in Ids \ {t, q} : policy'[p] = policy[p]
         /\ policy'[t].status = "superseded" /\ policy'[t].superseded_by = q
         /\ policy'[t].says = policy[t].says
         /\ policy'[t].supersedes = policy[t].supersedes
         /\ policy'[t].by = policy[t].by
         /\ policy'[t].authored_on = policy[t].authored_on
         /\ policy'[t].named = policy[t].named
         /\ OnDisk(policy') = OnDisk(policy) \cup {q}
<1>1. PICK old : old = Retired(t, q)
  OBVIOUS
<1>2. t \in Ids
  BY DEF OnDisk
<1>3. f # None
  BY Nothing
<1>4. policy' = [ old EXCEPT ![q] = f ]
  BY <1>1 DEF Succeed
<1>5. /\ old \in [ Ids -> Policy \cup {None} ]
      /\ \A p \in Ids \ {t} : old[p] = policy[p]
      /\ old[t].status = "superseded" /\ old[t].superseded_by = q
      /\ old[t].says = policy[t].says /\ old[t].supersedes = policy[t].supersedes
      /\ old[t].by = policy[t].by /\ old[t].authored_on = policy[t].authored_on
      /\ old[t].named = policy[t].named
      /\ OnDisk(old) = OnDisk(policy)
  BY <1>1, RetiredOne
<1> HIDE <1>1
<1>6. OnDisk(policy') = OnDisk(old) \cup {q}
  BY <1>3, <1>4, <1>5 DEF OnDisk
<1>7. policy'[q] = f /\ policy'[t] = old[t] /\ \A p \in Ids \ {q} : policy'[p] = old[p]
  BY <1>2, <1>4, <1>5
<1>8. policy' \in [ Ids -> Policy \cup {None} ]
  BY <1>3, <1>4, <1>5
<1> QED BY <1>5, <1>6, <1>7, <1>8

LEMMA ChangedIsContent ==
  ASSUME NEW c \in Content, NEW ch \in Change
  PROVE  Changed(c, ch) \in Content
<1>1. /\ c.value \in Int /\ c.domain \in AppliesTo /\ c.truth \in Resolvers \cup {None}
      /\ ch.value \in Int \cup {None} /\ ch.domain \in AppliesTo
      /\ ch.truth \in Resolvers \cup {None}
  BY DEF Content, Change
<1>2. /\ Or(ch.value, c.value) \in Int /\ Or(ch.domain, c.domain) \in AppliesTo
      /\ Or(ch.truth, c.truth) \in Resolvers \cup {None}
  BY <1>1 DEF Or
<1> QED BY <1>2 DEF Changed, Content

\* A record as a proposal sets it.
LEMMA ProposedIsPolicy ==
  ASSUME NEW c \in Content, NEW t \in Ids, NEW by \in Proposals, NEW ch \in Change,
         now' \in Times, NEW f, f = Proposed(Written(c, t, by), ch)
  PROVE  /\ f \in Policy /\ f.by = by
         /\ f.says = Changed(c, ch) /\ f.supersedes = Or(ch.supersedes, t)
         /\ f.named = ~ch.renames
         /\ ~SetsControl(ch) => /\ f.status = "live" /\ f.supersedes = t
                                /\ f.authored_on = now' /\ f.named
<1>1. PICK w : w = Written(c, t, by)
  OBVIOUS
<1>2. /\ w \in Policy /\ w.says = c /\ w.status = "live" /\ w.supersedes = t /\ w.superseded_by = None
      /\ w.by = by /\ w.authored_on = now' /\ w.named = TRUE
  <2>1. w \in Policy
    BY <1>1 DEF Written, Policy, Statuses
  <2> QED BY <1>1, <2>1 DEF Written
<1>3. /\ ch.status \in Statuses \cup {None} /\ ch.supersedes \in Ids \cup {None}
      /\ ch.superseded_by \in Ids \cup {None} /\ ch.authored_on \in Times \cup {None}
      /\ ch.renames \in BOOLEAN
  BY DEF Change
<1>4. Changed(c, ch) \in Content
  BY ChangedIsContent
<1>5. f = [ w EXCEPT !.says = Changed(c, ch), !.status = Or(ch.status, w.status),
                     !.supersedes = Or(ch.supersedes, w.supersedes),
                     !.superseded_by = Or(ch.superseded_by, w.superseded_by),
                     !.authored_on = Or(ch.authored_on, w.authored_on), !.named = ~ch.renames ]
  BY <1>1, <1>2 DEF Proposed, Policy
<1>6. PICK says, status, supersedes, superseded_by, authored_on, named :
        /\ says = Changed(c, ch) /\ status = Or(ch.status, "live") /\ supersedes = Or(ch.supersedes, t)
        /\ superseded_by = Or(ch.superseded_by, None) /\ authored_on = Or(ch.authored_on, now')
        /\ named = ~ch.renames
  OBVIOUS
<1>7. /\ says \in Content /\ status \in Statuses /\ supersedes \in Ids \cup {None}
      /\ superseded_by \in Ids \cup {None} /\ authored_on \in Times /\ named \in BOOLEAN
  BY <1>3, <1>4, <1>6 DEF Or, Statuses
<1>8. f = [ w EXCEPT !.says = says, !.status = status, !.supersedes = supersedes,
                     !.superseded_by = superseded_by, !.authored_on = authored_on, !.named = named ]
  BY <1>2, <1>5, <1>6
<1>9. /\ f \in Policy /\ f.by = by /\ f.says = says /\ f.status = status /\ f.supersedes = supersedes
      /\ f.authored_on = authored_on /\ f.named = named
  BY <1>2, <1>7, <1>8 DEF Policy
<1>10. ~SetsControl(ch) => status = "live" /\ supersedes = t /\ authored_on = now' /\ named
  BY <1>3, <1>6 DEF SetsControl, Or
<1> QED BY <1>6, <1>9, <1>10

\* What people can do to a policy by supersession.
LEMMA ByHand ==
  ASSUME TypeOK, KnownExist, NEW t \in Ids, SupersedeByHand(t)
  PROVE  /\ pc = "idle" /\ t \in OnDisk(policy)
         /\ NextId(t) \in Ids /\ NextId(t) # t /\ policy[NextId(t)] = None
         /\ now' \in Times /\ now <= now'
         /\ UNCHANGED << proposal, auth, subject, dispatch, died, lost >>
         /\ \/ Succeed(t, NextId(t), Written(policy[t].says, t, "supersede")) /\ UNCHANGED torn
            \/ Tear(t, NextId(t))
<1>1. now' \in Times /\ now <= now'
  BY TimeAssumption DEF SupersedeByHand, Clock, Times, TypeOK
<1> QED BY <1>1, Fresh DEF SupersedeByHand, KnownExist

\* What the calibrator does to one.
LEMMA ByProposal ==
  ASSUME TypeOK, KnownExist, UnderWay, Apply,
         NEW t, t = proposal[cur].target, NEW q, q = NextId(t)
  PROVE  /\ cur \in Proposals /\ proposal[cur] \in Proposal
         /\ t \in OnDisk(policy) /\ q \in Ids /\ q # t
         /\ policy[t].says \in Content /\ proposal[cur].change \in Change
         /\ now' \in Times /\ now <= now'
         /\ UNCHANGED << proposal, auth, subject >>
         /\ \/ /\ Succeed(t, q, Proposed(Written(policy[t].says, t, cur), proposal[cur].change))
               /\ lost' = lost \cup ({q} \cap OnDisk(policy))
               /\ UNCHANGED torn
               /\ \/ WriteAll({}) /\ pc' = "approving" /\ made' = q /\ UNCHANGED << cur, died >>
                  \/ WriteSome({}) /\ died' = died \cup {cur} /\ Return
            \/ Tear(t, q) /\ died' = died \cup {cur} /\ Return /\ UNCHANGED lost
<1>1. now' \in Times /\ now <= now'
  BY TimeAssumption DEF Apply, Clock, Times, TypeOK
<1>2. cur \in Proposals /\ proposal[cur] \in Proposal
  BY Existing DEF Apply, UnderWay
<1>3. t \in OnDisk(policy) /\ t \in Ids /\ q \in Ids
  BY DEF Apply, KnownExist, OnDisk
<1>4. q # t
  BY <1>3, Fresh
<1>5. policy[t].says \in Content
  BY <1>3, Existing DEF OnDisk, Policy
<1>6. proposal[cur].change \in Change
  BY <1>2, ContentAssumption DEF Proposal
<1> QED BY <1>1, <1>2, <1>3, <1>4, <1>5, <1>6 DEF Apply

-----------------------------------------------------------------------------
(***************************************************************************)
(* Types                                                                   *)
(***************************************************************************)
PolicyTypes   == policy \in [ Ids -> Policy \cup {None} ] /\ now \in Times
IndexTypes    == /\ known \subseteq Ids
                 /\ paths  \in [ Subjects -> { "file", "folder", None } ]
                 /\ corpus \in [ Subjects -> { "none", "open", "valueless", "actual" } ]
                 /\ moved \subseteq Subjects /\ behind \in BOOLEAN
SubjectTypes  == subject \in [ Subjects -> Subject \cup {None} ]
RemainingTypes ==
  /\ proposal \in [ Proposals -> Proposal \cup {None} ]
  /\ auth     \in [ Auths -> Grant \cup {None} ]
  /\ pc \in { "idle", "matching", "approving" }
  /\ cur \in Proposals \cup {None} /\ made \in Ids \cup {None}
  /\ died \subseteq Proposals /\ torn \subseteq Ids /\ lost \subseteq Ids

LEMMA TypeParts ==
  /\ TypeOK  <=> PolicyTypes /\ IndexTypes /\ SubjectTypes /\ RemainingTypes
  /\ TypeOK' <=> PolicyTypes' /\ IndexTypes' /\ SubjectTypes' /\ RemainingTypes'
BY DEF TypeOK, PolicyTypes, IndexTypes, SubjectTypes, RemainingTypes

LEMMA IndexesTyped ==
  ASSUME TypeOK, SubjectTypes', NEW those \in SUBSET Subjects,
         \/ WriteAll(those)
         \/ WriteSome(those)
         \/ UNCHANGED indexes
         \/ /\ UNCHANGED << known, paths, corpus >>
            /\ moved' = (IF behind THEN moved ELSE {})
            /\ behind' = TRUE
  PROVE  IndexTypes'
<1>1. Bearing(policy') \subseteq Ids
  BY DEF Bearing, OnDisk
<1>2. \A s \in Subjects : Tuple(policy', subject'[s], paths[s]) \in { "none", "open", "valueless", "actual" }
  BY DEF Tuple
<1>3. PathsOf(subject') \in [ Subjects -> { "file", "folder", None } ]
  BY DEF PathsOf, SubjectTypes, Subject
<1>4. WriteIds => known' \subseteq Ids /\ paths' \in [ Subjects -> { "file", "folder", None } ]
  BY <1>1, <1>3 DEF WriteIds
<1> QED BY <1>2, <1>4 DEF WriteAll, WriteSome, indexes, IndexTypes, TypeOK

LEMMA PutTyped ==
  ASSUME TypeOK, NEW s \in Subjects, NEW rec \in Subject, NEW those \in SUBSET Subjects,
         Put(s, rec, those)
  PROVE  TypeOK'
<1>1. SubjectTypes'
  BY DEF Put, SubjectTypes, TypeOK
<1>2. IndexTypes'
  BY <1>1, IndexesTyped DEF Put, Finish
<1>3. PolicyTypes' /\ RemainingTypes'
  BY DEF Put, Stay, dispatch, PolicyTypes, RemainingTypes, TypeOK
<1> QED BY <1>1, <1>2, <1>3, TypeParts

LEMMA OtherTyped ==
  ASSUME TypeOK, Other
  PROVE  TypeOK'
<1>1. CASE UNCHANGED vars
  BY <1>1 DEF TypeOK, vars, records, indexes, dispatch
<1>2. CASE OtherWriteAll
  <2>1. PolicyTypes' /\ SubjectTypes' /\ RemainingTypes'
    BY <1>2 DEF OtherWriteAll, Stay, records, dispatch, PolicyTypes, SubjectTypes, RemainingTypes, TypeOK
  <2>2. {} \in SUBSET Subjects /\ WriteAll({})
    BY <1>2 DEF OtherWriteAll
  <2>3. SubjectTypes'
    BY <2>1
  <2>4. IndexTypes'
    BY <2>2, <2>3, IndexesTyped
  <2> QED BY <2>1, <2>4, TypeParts
<1>3. CASE SubjectStep
  <2>1. ASSUME NEW s \in Subjects, NEW d \in Domains \cup {None}, AuthorSubject(s, d) PROVE TypeOK'
    <3>1. [ domain |-> d, predicted |-> FALSE, resolver |-> None, path |-> "file" ] \in Subject
      BY DEF Subject
    <3> QED BY <2>1, <3>1, PutTyped DEF AuthorSubject
  <2>2. ASSUME NEW s \in Subjects, NEW v \in Resolvers, PromoteTo(s, v) PROVE TypeOK'
    <3>1. [ domain |-> None, predicted |-> FALSE, resolver |-> v, path |-> "file" ] \in Subject
      BY DEF Subject
    <3> QED BY <2>2, <3>1, PutTyped DEF PromoteTo
  <2>3. ASSUME NEW s \in Subjects, NEW v \in Resolvers, ResolveSubject(s, v) PROVE TypeOK'
    <3>1. [ subject[s] EXCEPT !.resolver = v ] \in Subject
      BY <2>3, Existing DEF ResolveSubject, Subject
    <3> QED BY <2>3, <3>1, PutTyped DEF ResolveSubject
  <2>4. ASSUME NEW s \in Subjects, Predict(s) PROVE TypeOK'
    <3>1. [ subject[s] EXCEPT !.predicted = TRUE ] \in Subject
      BY <2>4, Existing DEF Predict, Subject
    <3> QED BY <2>4, <3>1, PutTyped DEF Predict
  <2>5. ASSUME NEW s \in Subjects, ExpandSubject(s) PROVE TypeOK'
    <3>1. [ subject[s] EXCEPT !.path = "folder" ] \in Subject
      BY <2>5, Existing DEF ExpandSubject, Subject
    <3> QED BY <2>5, <3>1, PutTyped DEF ExpandSubject
  <2>6. ASSUME NEW s \in Subjects, CollapseSubject(s) PROVE TypeOK'
    <3>1. [ subject[s] EXCEPT !.path = "file" ] \in Subject
      BY <2>6, Existing DEF CollapseSubject, Subject
    <3> QED BY <2>6, <3>1, PutTyped DEF CollapseSubject
  <2> QED BY <1>3, <2>1, <2>2, <2>3, <2>4, <2>5, <2>6 DEF SubjectStep
<1> QED BY <1>1, <1>2, <1>3 DEF Other

LEMMA StepTyped ==
  ASSUME TypeOK, KnownExist, UnderWay, [Next]_vars
  PROVE  TypeOK'
<1>1. CASE \E p \in Ids, c \in Contents, old \in Ids \cup {None} : AuthorPolicy(p, c, old)
  <2>1. PICK p \in Ids, c \in Contents, old \in Ids \cup {None} : AuthorPolicy(p, c, old)
    BY <1>1
  <2>2. PolicyTypes' /\ SubjectTypes' /\ RemainingTypes'
    BY <2>1, Authored DEF PolicyTypes, SubjectTypes, RemainingTypes, TypeOK, dispatch
  <2>3. {} \in SUBSET Subjects /\ (WriteAll({}) \/ WriteSome({}))
    BY <2>1 DEF AuthorPolicy, Finish
  <2>4. IndexTypes'
    BY <2>2, <2>3, IndexesTyped
  <2> QED BY <2>2, <2>4, TypeParts
<1>2. CASE \E t \in Ids : SupersedeByHand(t)
  <2>1. PICK t \in Ids : SupersedeByHand(t)
    BY <1>2
  <2>2. PICK q : q = NextId(t)
    OBVIOUS
  <2>3. /\ t \in OnDisk(policy) /\ q \in Ids /\ q # t /\ now' \in Times
        /\ UNCHANGED << proposal, auth, subject, dispatch, died, lost >>
        /\ \/ Succeed(t, q, Written(policy[t].says, t, "supersede")) /\ UNCHANGED torn
           \/ Tear(t, q)
    BY <2>1, <2>2, ByHand
  <2>4. Written(policy[t].says, t, "supersede") \in Policy
    <3>1. policy[t].says \in Content
      BY <2>3, Existing DEF OnDisk, Policy
    <3> QED BY <2>3, <3>1 DEF Written, Policy, Statuses
  <2>5. PolicyTypes' /\ torn' \subseteq Ids
    <3>1. CASE Succeed(t, q, Written(policy[t].says, t, "supersede")) /\ UNCHANGED torn
      BY <2>3, <2>4, <3>1, Succeeded DEF PolicyTypes, TypeOK
    <3>2. CASE Tear(t, q)
      BY <2>1, <2>3, <3>2, RetiredOne DEF Tear, PolicyTypes, TypeOK
    <3> QED BY <2>3, <3>1, <3>2
  <2>6. SubjectTypes' /\ RemainingTypes'
    BY <2>3, <2>5 DEF SubjectTypes, RemainingTypes, TypeOK, dispatch
  <2>7. \/ WriteAll({}) \/ WriteSome({})
        \/ /\ UNCHANGED << known, paths, corpus >>
           /\ moved' = (IF behind THEN moved ELSE {})
           /\ behind' = TRUE
    BY <2>1 DEF SupersedeByHand, Finish, Tear
  <2>8. IndexTypes'
    BY <2>6, <2>7, {} \in SUBSET Subjects, IndexesTyped
  <2> QED BY <2>5, <2>6, <2>8, TypeParts
<1>3. CASE \E t \in Ids : CancelPolicy(t)
  <2>1. PICK t \in Ids : CancelPolicy(t)
    BY <1>3
  <2>2. policy[t] \in Policy
    BY <2>1, Existing DEF CancelPolicy, KnownExist, OnDisk
  <2>3. [ policy[t] EXCEPT !.status = "cancelled" ] \in Policy
    BY <2>2 DEF Policy, Statuses
  <2>4. PolicyTypes'
    BY <2>1, <2>3 DEF CancelPolicy, PolicyTypes, TypeOK
  <2>5. SubjectTypes' /\ RemainingTypes'
    BY <2>1 DEF CancelPolicy, Stay, SubjectTypes, RemainingTypes, TypeOK, dispatch
  <2>6. IndexTypes'
    BY <2>1, <2>5, {} \in SUBSET Subjects, IndexesTyped DEF CancelPolicy, Interrupt
  <2> QED BY <2>4, <2>5, <2>6, TypeParts
<1>4. CASE \E u \in Auths, g \in Grants : Authorize(u, g)
  <2>1. PICK u \in Auths, g \in Grants : Authorize(u, g)
    BY <1>4
  <2>2. g \in Grant
    BY ContentAssumption
  <2>3. PolicyTypes' /\ SubjectTypes' /\ RemainingTypes'
    BY <2>1, <2>2 DEF Authorize, Stay, PolicyTypes, SubjectTypes, RemainingTypes, TypeOK, dispatch
  <2>4. IndexTypes'
    BY <2>1, <2>3, {} \in SUBSET Subjects, IndexesTyped DEF Authorize, Interrupt
  <2> QED BY <2>3, <2>4, TypeParts
<1>5. CASE \E r \in Proposals, t \in Ids, ch \in Changes : Propose(r, t, ch)
  <2>1. PICK r \in Proposals, t \in Ids, ch \in Changes : Propose(r, t, ch)
    BY <1>5
  <2>2. PICK f : f = [ target |-> t, change |-> ch, state |-> "pending", effective |-> None,
                       on_file |-> { u \in Auths : auth[u] # None }, found |-> t \in Bearing(policy) ]
    OBVIOUS
  <2>3. f \in Proposal
    BY <2>2 DEF Proposal
  <2>4. proposal' = [ proposal EXCEPT ![r] = f ]
    BY <2>1, <2>2 DEF Propose
  <2>5. proposal' \in [ Proposals -> Proposal \cup {None} ]
    BY <2>3, <2>4 DEF TypeOK
  <2>6. PolicyTypes' /\ SubjectTypes' /\ RemainingTypes'
    BY <2>1, <2>5 DEF Propose, PolicyTypes, SubjectTypes, RemainingTypes, TypeOK
  <2>7. IndexTypes'
    BY <2>1, <2>6, {} \in SUBSET Subjects, IndexesTyped DEF Propose, Interrupt
  <2> QED BY <2>6, <2>7, TypeParts
<1>6. CASE Decline
  <2>1. PolicyTypes' /\ SubjectTypes' /\ RemainingTypes'
    BY <1>6 DEF Decline, Return, records, PolicyTypes, SubjectTypes, RemainingTypes, TypeOK
  <2>2. IndexTypes'
    BY <1>6 DEF Decline, indexes, IndexTypes, TypeOK
  <2> QED BY <2>1, <2>2, TypeParts
<1>7. CASE Apply
  <2>1. PICK t : t = proposal[cur].target
    OBVIOUS
  <2>2. PICK q : q = NextId(t)
    OBVIOUS
  <2>3. PICK f : f = Proposed(Written(policy[t].says, t, cur), proposal[cur].change)
    OBVIOUS
  <2>4. /\ cur \in Proposals /\ t \in OnDisk(policy) /\ q \in Ids /\ q # t
        /\ policy[t].says \in Content /\ proposal[cur].change \in Change
        /\ now' \in Times
        /\ UNCHANGED << proposal, auth, subject >>
        /\ \/ /\ Succeed(t, q, f)
              /\ lost' = lost \cup ({q} \cap OnDisk(policy))
              /\ UNCHANGED torn
              /\ \/ WriteAll({}) /\ pc' = "approving" /\ made' = q /\ UNCHANGED << cur, died >>
                 \/ WriteSome({}) /\ died' = died \cup {cur} /\ Return
           \/ Tear(t, q) /\ died' = died \cup {cur} /\ Return /\ UNCHANGED lost
    BY <1>7, <2>1, <2>2, <2>3, ByProposal
  <2>5. t \in Ids
    BY <2>4 DEF OnDisk
  <2>6. f \in Policy
    BY <2>3, <2>4, <2>5, ProposedIsPolicy
  <2>7. SubjectTypes'
    BY <2>4 DEF SubjectTypes, TypeOK
  <2>8. PolicyTypes' /\ torn' \subseteq Ids /\ lost' \subseteq Ids
    <3>1. CASE /\ Succeed(t, q, f) /\ UNCHANGED torn
               /\ lost' = lost \cup ({q} \cap OnDisk(policy))
      BY <2>4, <2>6, <3>1, Succeeded DEF PolicyTypes, TypeOK
    <3>2. CASE Tear(t, q) /\ UNCHANGED lost
      BY <2>4, <2>5, <3>2, RetiredOne DEF Tear, PolicyTypes, TypeOK
    <3> QED BY <2>4, <3>1, <3>2
  <2>9. RemainingTypes'
    BY <2>4, <2>8 DEF Return, RemainingTypes, TypeOK
  <2>10. \/ WriteAll({}) \/ WriteSome({})
        \/ /\ UNCHANGED << known, paths, corpus >>
           /\ moved' = (IF behind THEN moved ELSE {})
           /\ behind' = TRUE
    BY <2>4 DEF Tear
  <2>11. IndexTypes'
    BY <2>7, <2>10, {} \in SUBSET Subjects, IndexesTyped
  <2> QED BY <2>7, <2>8, <2>9, <2>11, TypeParts
<1>8. CASE Approve
  <2>1. cur \in Proposals /\ proposal[cur] \in Proposal /\ made \in Ids
    BY <1>8, Existing DEF Approve, UnderWay, OnDisk
  <2>2. PICK f : f = [ proposal[cur] EXCEPT !.state = "approved", !.effective = Effective ]
    OBVIOUS
  <2>3. PICK g : g = [ proposal[cur] EXCEPT !.state = "torn" ]
    OBVIOUS
  <2>4. f \in Proposal /\ g \in Proposal
    BY <2>1, <2>2, <2>3 DEF Proposal, Effective
  <2>5. proposal' = [ proposal EXCEPT ![cur] = f ] \/ proposal' = [ proposal EXCEPT ![cur] = g ]
    BY <1>8, <2>1, <2>2, <2>3 DEF Approve, TypeOK
  <2>6. proposal' \in [ Proposals -> Proposal \cup {None} ]
    BY <2>4, <2>5 DEF TypeOK
  <2>7. PolicyTypes' /\ SubjectTypes' /\ RemainingTypes'
    BY <1>8, <2>1, <2>6 DEF Approve, Return, PolicyTypes, SubjectTypes, RemainingTypes, TypeOK
  <2>8. IndexTypes'
    BY <1>8, <2>7, {} \in SUBSET Subjects, IndexesTyped DEF Approve, Interrupt
  <2> QED BY <2>7, <2>8, TypeParts
<1>9. CASE Die
  <2>1. PolicyTypes' /\ SubjectTypes' /\ RemainingTypes'
    BY <1>9 DEF Die, Return, records, UnderWay, PolicyTypes, SubjectTypes, RemainingTypes, TypeOK
  <2>2. IndexTypes'
    BY <1>9 DEF Die, indexes, IndexTypes, TypeOK
  <2> QED BY <2>1, <2>2, TypeParts
<1> QED BY <1>1, <1>2, <1>3, <1>4, <1>5, <1>6, <1>7, <1>8, <1>9, OtherTyped, StepKinds

-----------------------------------------------------------------------------
(***************************************************************************)
(* What steps do to policies                                               *)
(***************************************************************************)
\* Every field of t but the two that a first rename writes.
KeepsRest(t) ==
  /\ policy'[t].says = policy[t].says /\ policy'[t].supersedes = policy[t].supersedes
  /\ policy'[t].by = policy[t].by /\ policy'[t].authored_on = policy[t].authored_on
  /\ policy'[t].named = policy[t].named

Retires(t, q) ==
  /\ t \in OnDisk(policy) /\ t \in Ids /\ q \in Ids /\ q # t
  /\ q = Append(t, Cardinality(Named(t)) + 1) /\ Cardinality(Named(t)) \in Nat
  /\ now' \in Times /\ now <= now'
  /\ policy'[t].status = "superseded" /\ policy'[t].superseded_by = q
  /\ KeepsRest(t)

Follows(t, q, f) ==
  /\ Retires(t, q)
  /\ policy'[q] = f /\ f \in Policy
  /\ \A p \in Ids \ {t, q} : policy'[p] = policy[p]
  /\ OnDisk(policy') = OnDisk(policy) \cup {q}
  /\ UNCHANGED torn

Tears(t, q) ==
  /\ Retires(t, q)
  /\ \A p \in Ids \ {t} : policy'[p] = policy[p]
  /\ OnDisk(policy') = OnDisk(policy)
  /\ torn' = torn \cup {t} /\ UNCHANGED lost

Handed(f, t) ==
  /\ f.by = "supersede" /\ f.supersedes = t /\ f.status = "live" /\ f.authored_on = now' /\ f.named

LEMMA HandEffect ==
  ASSUME TypeOK, KnownExist, NEW t \in Ids, SupersedeByHand(t)
  PROVE  /\ pc = "idle" /\ UNCHANGED << proposal, auth, subject, dispatch, died, lost >>
         /\ \E q \in Ids :
              /\ policy[q] = None
              /\ \/ \E f : Follows(t, q, f) /\ Handed(f, t)
                 \/ Tears(t, q)
<1>1. PICK q : q = NextId(t)
  OBVIOUS
<1>2. PICK f : f = Written(policy[t].says, t, "supersede")
  OBVIOUS
<1>3. /\ pc = "idle" /\ t \in OnDisk(policy) /\ q \in Ids /\ q # t /\ policy[q] = None
      /\ now' \in Times /\ now <= now'
      /\ UNCHANGED << proposal, auth, subject, dispatch, died, lost >>
      /\ \/ Succeed(t, q, f) /\ UNCHANGED torn
         \/ Tear(t, q)
  BY <1>1, <1>2, ByHand
<1>4. q = Append(t, Cardinality(Named(t)) + 1) /\ Cardinality(Named(t)) \in Nat
  BY <1>1, Fresh
<1>5. f \in Policy /\ Handed(f, t)
  <2>1. policy[t].says \in Content
    BY <1>3, Existing DEF OnDisk, Policy
  <2>2. f \in Policy
    BY <1>2, <1>3, <2>1 DEF Written, Policy, Statuses
  <2> QED BY <1>2, <2>2 DEF Handed, Written
<1>6. ASSUME Succeed(t, q, f), UNCHANGED torn PROVE Follows(t, q, f)
  BY <1>3, <1>4, <1>5, <1>6, Succeeded DEF Follows, Retires, KeepsRest
<1>7. ASSUME Tear(t, q) PROVE Tears(t, q)
  <2>1. policy' = Retired(t, q) /\ torn' = torn \cup {t}
    BY <1>7 DEF Tear
  <2> QED BY <1>3, <1>4, <2>1, RetiredOne DEF Tears, Retires, KeepsRest
<1> QED BY <1>3, <1>5, <1>6, <1>7

\* The record that the calibrator makes for the proposal r against t.
Granted(f, t, r) ==
  LET ch == proposal[r].change IN
  /\ f.by = r /\ f.supersedes = Or(ch.supersedes, t) /\ f.says = Changed(policy[t].says, ch)
  /\ f.named = ~ch.renames
  /\ ~SetsControl(ch) => f.status = "live" /\ f.supersedes = t /\ f.authored_on = now' /\ f.named

LEMMA ApplyEffect ==
  ASSUME TypeOK, KnownExist, UnderWay, Apply
  PROVE  LET t == proposal[cur].target IN
         /\ cur \in Proposals /\ proposal[cur] \in Proposal
         /\ UNCHANGED << proposal, auth, subject >>
         /\ \E q \in Ids :
              \/ /\ \E f : Follows(t, q, f) /\ Granted(f, t, cur)
                 /\ lost' = lost \cup ({q} \cap OnDisk(policy))
                 /\ \/ WriteAll({}) /\ pc' = "approving" /\ made' = q /\ UNCHANGED << cur, died >>
                    \/ WriteSome({}) /\ died' = died \cup {cur} /\ Return
              \/ Tears(t, q) /\ died' = died \cup {cur} /\ Return
<1>1. PICK t : t = proposal[cur].target
  OBVIOUS
<1>2. PICK q : q = NextId(t)
  OBVIOUS
<1>3. PICK f : f = Proposed(Written(policy[t].says, t, cur), proposal[cur].change)
  OBVIOUS
<1>4. /\ cur \in Proposals /\ proposal[cur] \in Proposal
      /\ t \in OnDisk(policy) /\ q \in Ids /\ q # t
      /\ policy[t].says \in Content /\ proposal[cur].change \in Change
      /\ now' \in Times /\ now <= now'
      /\ UNCHANGED << proposal, auth, subject >>
      /\ \/ /\ Succeed(t, q, f)
            /\ lost' = lost \cup ({q} \cap OnDisk(policy))
            /\ UNCHANGED torn
            /\ \/ WriteAll({}) /\ pc' = "approving" /\ made' = q /\ UNCHANGED << cur, died >>
               \/ WriteSome({}) /\ died' = died \cup {cur} /\ Return
         \/ Tear(t, q) /\ died' = died \cup {cur} /\ Return /\ UNCHANGED lost
  BY <1>1, <1>2, <1>3, ByProposal
<1>5. t \in Ids
  BY <1>4 DEF OnDisk
<1>6. q = Append(t, Cardinality(Named(t)) + 1) /\ Cardinality(Named(t)) \in Nat
  BY <1>2, <1>5, Fresh
<1>7. f \in Policy /\ Granted(f, t, cur)
  BY <1>3, <1>4, <1>5, ProposedIsPolicy DEF Granted
<1>8. ASSUME Succeed(t, q, f), UNCHANGED torn PROVE Follows(t, q, f)
  BY <1>4, <1>5, <1>6, <1>7, <1>8, Succeeded DEF Follows, Retires, KeepsRest
<1>9. ASSUME Tear(t, q), UNCHANGED lost PROVE Tears(t, q)
  <2>1. policy' = Retired(t, q) /\ torn' = torn \cup {t}
    BY <1>9 DEF Tear
  <2> QED BY <1>4, <1>5, <1>6, <1>9, <2>1, RetiredOne DEF Tears, Retires, KeepsRest
<1> QED BY <1>1, <1>4, <1>7, <1>8, <1>9

LEMMA CancelEffect ==
  ASSUME TypeOK, KnownExist, NEW t \in Ids, CancelPolicy(t)
  PROVE  /\ pc = "idle" /\ t \in OnDisk(policy)
         /\ policy[t].status = "live" /\ policy'[t].status = "cancelled"
         /\ policy'[t].superseded_by = policy[t].superseded_by
         /\ KeepsRest(t)
         /\ \A p \in Ids \ {t} : policy'[p] = policy[p]
         /\ OnDisk(policy') = OnDisk(policy)
         /\ UNCHANGED << now, proposal, auth, subject, dispatch, died, torn, lost >>
<1>1. t \in OnDisk(policy) /\ policy[t] \in Policy
  BY Existing DEF CancelPolicy, KnownExist, OnDisk
<1>2. PICK f : f = [ policy[t] EXCEPT !.status = "cancelled" ]
  OBVIOUS
<1>3. /\ f \in Policy /\ f.status = "cancelled" /\ f.superseded_by = policy[t].superseded_by
      /\ f.says = policy[t].says /\ f.supersedes = policy[t].supersedes
      /\ f.by = policy[t].by /\ f.authored_on = policy[t].authored_on /\ f.named = policy[t].named
  BY <1>1, <1>2 DEF Policy, Statuses
<1>4. policy' = [ policy EXCEPT ![t] = f ]
  BY <1>2 DEF CancelPolicy, TypeOK
<1> HIDE <1>2
<1>5. f # None
  BY <1>3, Nothing
<1> QED BY <1>1, <1>3, <1>4, <1>5 DEF CancelPolicy, Stay, KeepsRest, OnDisk, TypeOK

\* The steps once more, each by what it does to policies and proposals.
Proposes(r) ==
  /\ pc = "idle" /\ proposal[r] = None
  /\ \E t \in Ids, ch \in Changes :
       proposal'[r] = [ target |-> t, change |-> ch, state |-> "pending", effective |-> None,
                        on_file |-> { u \in Auths : auth[u] # None }, found |-> t \in Bearing(policy) ]
  /\ \A x \in Proposals \ {r} : proposal'[x] = proposal[x]
  /\ \/ pc' = "matching" /\ cur' = r /\ known' = Bearing(policy) /\ UNCHANGED died
     \/ died' = died \cup {r} /\ UNCHANGED << pc, cur >>
  /\ UNCHANGED << now, policy, auth, subject, made, torn, lost >>

LEMMA ProposeEffect ==
  ASSUME TypeOK, NEW r \in Proposals, NEW t \in Ids, NEW ch \in Changes, Propose(r, t, ch)
  PROVE  Proposes(r)
<1>1. PICK f : f = [ target |-> t, change |-> ch, state |-> "pending", effective |-> None,
                     on_file |-> { u \in Auths : auth[u] # None }, found |-> t \in Bearing(policy) ]
  OBVIOUS
<1>2. proposal' = [ proposal EXCEPT ![r] = f ]
  BY <1>1 DEF Propose
<1>3. proposal'[r] = f /\ \A x \in Proposals \ {r} : proposal'[x] = proposal[x]
  BY <1>2 DEF TypeOK
<1>4. WriteAll({}) /\ UNCHANGED policy => known' = Bearing(policy)
  BY DEF WriteAll, WriteIds
<1> QED BY <1>1, <1>3, <1>4 DEF Propose, Proposes

\* Keeps what the proposal asks and saw.
SameRequest(r) ==
  /\ proposal'[r] # None
  /\ proposal'[r].target = proposal[r].target /\ proposal'[r].change = proposal[r].change
  /\ proposal'[r].on_file = proposal[r].on_file /\ proposal'[r].found = proposal[r].found

LEMMA ApproveEffect ==
  ASSUME TypeOK, UnderWay, Approve
  PROVE  /\ pc = "approving" /\ cur \in Proposals /\ SameRequest(cur)
         /\ \/ /\ proposal'[cur].state = "approved" /\ proposal'[cur].effective = made
               /\ UNCHANGED died
            \/ proposal'[cur].state = "torn" /\ died' = died \cup {cur}
         /\ \A x \in Proposals \ {cur} : proposal'[x] = proposal[x]
         /\ Return
         /\ UNCHANGED << now, policy, auth, subject, torn, lost >>
<1>1. cur \in Proposals /\ proposal[cur] \in Proposal
  BY Existing DEF Approve, UnderWay
<1>2. PICK f : f = [ proposal[cur] EXCEPT !.state = "approved", !.effective = Effective ]
  OBVIOUS
<1>3. PICK g : g = [ proposal[cur] EXCEPT !.state = "torn" ]
  OBVIOUS
<1>4. /\ f # None /\ f.state = "approved" /\ f.effective = made
      /\ f.target = proposal[cur].target /\ f.change = proposal[cur].change
      /\ f.on_file = proposal[cur].on_file /\ f.found = proposal[cur].found
  <2>1. made \in Ids
    BY DEF Approve, UnderWay, OnDisk
  <2>2. f \in Proposal
    BY <1>1, <1>2, <2>1 DEF Proposal, Effective
  <2> QED BY <1>1, <1>2, <2>2, Nothing DEF Proposal, Effective
<1>5. /\ g # None /\ g.state = "torn"
      /\ g.target = proposal[cur].target /\ g.change = proposal[cur].change
      /\ g.on_file = proposal[cur].on_file /\ g.found = proposal[cur].found
  <2>1. g \in Proposal
    BY <1>1, <1>3 DEF Proposal
  <2> QED BY <1>1, <1>3, <2>1, Nothing DEF Proposal
<1>6. \/ proposal' = [ proposal EXCEPT ![cur] = f ] /\ UNCHANGED died
      \/ proposal' = [ proposal EXCEPT ![cur] = g ] /\ died' = died \cup {cur}
  BY <1>1, <1>2, <1>3 DEF Approve, TypeOK
<1> HIDE <1>2, <1>3
<1>7. \/ proposal'[cur] = f /\ UNCHANGED died
      \/ proposal'[cur] = g /\ died' = died \cup {cur}
  BY <1>1, <1>6 DEF TypeOK
<1>8. \A x \in Proposals \ {cur} : proposal'[x] = proposal[x]
  BY <1>1, <1>6 DEF TypeOK
<1> QED BY <1>1, <1>4, <1>5, <1>7, <1>8 DEF Approve, SameRequest

-----------------------------------------------------------------------------
(***************************************************************************)
(* What the invariants rest on                                             *)
(***************************************************************************)
\* The steps that write policies, or nothing that matters here.
Bystander ==
  /\ UNCHANGED << now, policy, torn, lost >>
  /\ \/ UNCHANGED proposal
     \/ \E r \in Proposals : Proposes(r)
     \/ cur \in Proposals /\ proposal[cur] # None /\ SameRequest(cur)
        /\ \A x \in Proposals \ {cur} : proposal'[x] = proposal[x]
  /\ \A u \in Auths : auth[u] # None => auth'[u] = auth[u]

Applies(t, q) ==
  /\ \E f : Follows(t, q, f) /\ Granted(f, t, cur)
  /\ lost' = lost \cup ({q} \cap OnDisk(policy))
  /\ (pc' = "approving" /\ cur' = cur) \/ (cur \in died' /\ cur' = None)

Granting ==
  \E t \in Ids, q \in Ids :
    /\ cur \in Proposals /\ proposal[cur] \in Proposal /\ t = proposal[cur].target /\ pc = "matching"
    /\ Matching # {}
    /\ UNCHANGED << proposal, auth >>
    /\ Applies(t, q) \/ Tears(t, q)

LEMMA Effects ==
  ASSUME TypeOK, KnownExist, UnderWay, [Next]_vars
  PROVE  \/ Bystander
         \/ \E p \in Ids, c \in Contents, old \in Ids \cup {None} : AuthorPolicy(p, c, old)
         \/ \E t \in Ids : SupersedeByHand(t)
         \/ \E t \in Ids : CancelPolicy(t)
         \/ Granting
<1>1. ASSUME NEW u \in Auths, NEW g \in Grants, Authorize(u, g) PROVE Bystander
  <2>1. \A x \in Auths : auth[x] # None => auth'[x] = auth[x]
    BY <1>1 DEF Authorize, TypeOK
  <2> QED BY <1>1, <2>1 DEF Authorize, Bystander, Stay
<1>2. ASSUME NEW r \in Proposals, NEW t \in Ids, NEW ch \in Changes, Propose(r, t, ch) PROVE Bystander
  <2>1. Proposes(r)
    BY <1>2, ProposeEffect
  <2> QED BY <2>1 DEF Bystander, Proposes
<1>3. Decline => Bystander
  BY DEF Decline, records, Bystander
<1>4. Die => Bystander
  BY DEF Die, records, Bystander
<1>5. Approve => Bystander
  BY ApproveEffect DEF Bystander, UnderWay
<1>6. Other => Bystander
  BY OtherLeaves DEF Bystander
<1>7. Apply => Granting
  <2> SUFFICES ASSUME Apply PROVE Granting
    OBVIOUS
  <2>1. PICK t : t = proposal[cur].target
    OBVIOUS
  <2>2. /\ cur \in Proposals /\ proposal[cur] \in Proposal
        /\ UNCHANGED << proposal, auth >>
        /\ \E q \in Ids : Applies(t, q) \/ Tears(t, q)
    BY <2>1, ApplyEffect DEF Applies, Return
  <2>3. t \in Ids
    BY <2>1, <2>2 DEF Proposal
  <2>4. pc = "matching" /\ Matching # {}
    BY DEF Apply
  <2> QED BY <2>1, <2>2, <2>3, <2>4 DEF Granting
<1> QED BY <1>1, <1>2, <1>3, <1>4, <1>5, <1>6, <1>7, StepKinds

LEMMA PoliciesStay ==
  ASSUME TypeOK, KnownExist, UnderWay, [Next]_vars
  PROVE  OnDisk(policy) \subseteq OnDisk(policy') /\ OnDisk(policy') \subseteq Ids /\ now <= now'
<1>1. now \in Nat
  BY DEF TypeOK, Times
<1>2. OnDisk(policy') \subseteq Ids
  BY DEF OnDisk
<1>3. Bystander => OnDisk(policy) = OnDisk(policy') /\ now <= now'
  BY <1>1 DEF Bystander
<1>4. ASSUME NEW p \in Ids, NEW c \in Contents, NEW old \in Ids \cup {None}, AuthorPolicy(p, c, old)
      PROVE  OnDisk(policy) \subseteq OnDisk(policy') /\ now <= now'
  BY <1>4, Authored
<1>5. ASSUME NEW t \in Ids, SupersedeByHand(t)
      PROVE  OnDisk(policy) \subseteq OnDisk(policy') /\ now <= now'
  BY <1>5, HandEffect DEF Follows, Tears, Retires
<1>6. ASSUME NEW t \in Ids, CancelPolicy(t)
      PROVE  OnDisk(policy) \subseteq OnDisk(policy') /\ now <= now'
  BY <1>1, <1>6, CancelEffect
<1>7. Granting => OnDisk(policy) \subseteq OnDisk(policy') /\ now <= now'
  BY DEF Granting, Applies, Follows, Tears, Retires
<1> QED BY <1>2, <1>3, <1>4, <1>5, <1>6, <1>7, Effects

LEMMA KnownStays ==
  ASSUME TypeOK, KnownExist, UnderWay, [Next]_vars
  PROVE  KnownExist'
BY PoliciesStay, KnownStep DEF KnownExist, Bearing

LEMMA UnderWayStep ==
  ASSUME TypeOK, KnownExist, UnderWay, Sourced, [Next]_vars
  PROVE  UnderWay'
<1>1. ASSUME pc' = "idle", cur' = None PROVE UnderWay'
  BY <1>1 DEF UnderWay
<1>2. ASSUME pc = "idle", UNCHANGED dispatch PROVE UnderWay'
  BY <1>1, <1>2 DEF UnderWay, dispatch
<1>3. ASSUME NEW p \in Ids, NEW c \in Contents, NEW old \in Ids \cup {None}, AuthorPolicy(p, c, old) PROVE UnderWay'
  BY <1>2, <1>3, Authored DEF AuthorPolicy
<1>4. ASSUME NEW t \in Ids, SupersedeByHand(t) PROVE UnderWay'
  BY <1>2, <1>4, HandEffect
<1>5. ASSUME NEW t \in Ids, CancelPolicy(t) PROVE UnderWay'
  BY <1>2, <1>5, CancelEffect
<1>6. ASSUME NEW u \in Auths, NEW g \in Grants, Authorize(u, g) PROVE UnderWay'
  BY <1>2, <1>6 DEF Authorize, Stay
<1>7. ASSUME NEW r \in Proposals, NEW t \in Ids, NEW ch \in Changes, Propose(r, t, ch) PROVE UnderWay'
  <2>1. Proposes(r)
    BY <1>7, ProposeEffect
  <2>2. CASE pc' = "matching" /\ cur' = r /\ known' = Bearing(policy)
    <3>1. proposal'[r] # None /\ proposal'[r].state = "pending"
      <4>1. PICK x \in Ids, y \in Changes :
               proposal'[r] = [ target |-> x, change |-> y, state |-> "pending", effective |-> None,
                                on_file |-> { u \in Auths : auth[u] # None }, found |-> x \in Bearing(policy) ]
        BY <2>1 DEF Proposes
      <4>2. proposal'[r] \in Proposal
        BY <4>1 DEF Proposal
      <4> QED BY <4>1, <4>2, Nothing
    <3>2. \A p \in OnDisk(policy) : policy[p].by # r
      BY <2>1 DEF Proposes, Sourced
    <3>3. policy' = policy
      BY <2>1 DEF Proposes
    <3> QED BY <2>2, <3>1, <3>2, <3>3 DEF UnderWay
  <2>3. CASE UNCHANGED << pc, cur >>
    BY <1>1, <2>1, <2>3 DEF Proposes, UnderWay
  <2> QED BY <2>1, <2>2, <2>3 DEF Proposes
<1>8. ASSUME Decline \/ Die \/ Approve PROVE UnderWay'
  BY <1>1, <1>8 DEF Decline, Die, Approve, Return
<1>9. ASSUME Apply PROVE UnderWay'
  <2>1. PICK t : t = proposal[cur].target
    OBVIOUS
  <2>2. /\ cur \in Proposals /\ UNCHANGED proposal
        /\ \E q \in Ids :
              \/ /\ \E f : Follows(t, q, f) /\ Granted(f, t, cur)
                 /\ \/ pc' = "approving" /\ made' = q /\ UNCHANGED << cur, died >>
                    \/ Return
              \/ Return
    BY <1>9, <2>1, ApplyEffect
  <2>3. pc = "matching"
    BY <1>9 DEF Apply
  <2>4. ASSUME NEW q \in Ids, NEW f, Follows(t, q, f), Granted(f, t, cur),
               pc' = "approving", made' = q, UNCHANGED cur
        PROVE UnderWay'
    <3>1. q \in OnDisk(policy') /\ policy'[q].by = cur
      BY <2>4 DEF Follows, Granted
    <3> QED BY <2>2, <2>3, <2>4, <3>1 DEF UnderWay
  <2> QED BY <1>1, <2>2, <2>4 DEF Return
<1>10. ASSUME Other PROVE UnderWay'
  <2>1. UNCHANGED << policy, proposal, dispatch >>
    BY <1>10, OtherLeaves
  <2>2. pc = "matching" => known' = Bearing(policy')
    BY <2>1, KnownStep DEF UnderWay
  <2> QED BY <2>1, <2>2 DEF UnderWay, dispatch
<1> QED BY <1>3, <1>4, <1>5, <1>6, <1>7, <1>8, <1>9, <1>10, StepKinds

-----------------------------------------------------------------------------
(***************************************************************************)
(* What stays, and where a policy comes from                               *)
(***************************************************************************)
LEMMA RequestsStay ==
  ASSUME TypeOK, KnownExist, UnderWay, [Next]_vars, NEW r \in Proposals, proposal[r] # None
  PROVE  SameRequest(r)
<1>1. proposal' = proposal => SameRequest(r)
  BY DEF SameRequest
<1>2. Bystander => SameRequest(r)
  BY <1>1 DEF Bystander, Proposes, SameRequest
<1> QED BY <1>1, <1>2, Effects, Authored, HandEffect, CancelEffect DEF Granting

LEMMA AuthsStay ==
  ASSUME TypeOK, KnownExist, UnderWay, [Next]_vars, NEW u \in Auths, auth[u] # None
  PROVE  auth'[u] = auth[u]
BY Effects, Authored, HandEffect, CancelEffect DEF Granting, Bystander

LEMMA LostGrows ==
  ASSUME TypeOK, KnownExist, UnderWay, [Next]_vars
  PROVE  lost \subseteq lost' /\ torn \subseteq torn'
<1>1. Bystander => lost \subseteq lost' /\ torn \subseteq torn'
  BY DEF Bystander
<1>2. Granting => lost \subseteq lost' /\ torn \subseteq torn'
  BY DEF Granting, Applies, Tears, Follows
<1>3. ASSUME NEW t \in Ids, SupersedeByHand(t) PROVE lost \subseteq lost' /\ torn \subseteq torn'
  BY <1>3, HandEffect DEF Tears, Follows
<1> QED BY <1>1, <1>2, <1>3, Effects, Authored, CancelEffect

\* Where a policy that is on disk after a step comes from.
Inherited(x) == x \in OnDisk(policy) /\ KeepsRest(x)
ByPeople(x)  == /\ x \notin OnDisk(policy)
                /\ policy'[x].by \notin Proposals /\ policy'[x].status = "live"
                /\ policy'[x].named /\ policy'[x].authored_on = now' /\ now' \in Times
                /\ policy'[x].supersedes # None =>
                     /\ policy'[x].supersedes \in OnDisk(policy)
                     /\ policy'[x].by # "new" => \E n \in Nat : x = Append(policy'[x].supersedes, n)
ByGrant(x)   == \E t \in Ids :
                   /\ cur \in Proposals /\ proposal[cur] \in Proposal /\ t = proposal[cur].target
                   /\ pc = "matching" /\ Matching # {}
                   /\ UNCHANGED << proposal, auth >>
                   /\ Applies(t, x)

LEMMA Origin ==
  ASSUME TypeOK, KnownExist, UnderWay, [Next]_vars, NEW x \in OnDisk(policy')
  PROVE  Inherited(x) \/ ByPeople(x) \/ ByGrant(x)
<1>0. x \in Ids
  BY DEF OnDisk
<1>1. Bystander => Inherited(x)
  BY DEF Bystander, Inherited, KeepsRest
<1>2. ASSUME NEW p \in Ids, NEW c \in Contents, NEW old \in Ids \cup {None}, AuthorPolicy(p, c, old) PROVE Inherited(x) \/ ByPeople(x)
  <2>1. CASE x = p
    BY <1>2, <2>1, Authored, Nothing DEF ByPeople, OnDisk
  <2>2. CASE x # p
    <3>1. OnDisk(policy') = OnDisk(policy) \cup {p} /\ \A y \in Ids \ {p} : policy'[y] = policy[y]
      BY <1>2, Authored
    <3>2. policy'[x] = policy[x] /\ x \in OnDisk(policy)
      BY <1>0, <2>2, <3>1
    <3> QED BY <3>2 DEF Inherited, KeepsRest
  <2> QED BY <2>1, <2>2
<1>3. ASSUME NEW t \in Ids, NEW q \in Ids, Tears(t, q) PROVE Inherited(x)
  BY <1>0, <1>3 DEF Tears, Retires, Inherited, KeepsRest
<1>4. ASSUME NEW t \in Ids, NEW q \in Ids, NEW f, Follows(t, q, f), x # q PROVE Inherited(x)
  BY <1>0, <1>4 DEF Follows, Retires, Inherited, KeepsRest
<1>5. ASSUME NEW t \in Ids, SupersedeByHand(t) PROVE Inherited(x) \/ ByPeople(x)
  <2>1. PICK q \in Ids : /\ policy[q] = None
                         /\ (\E f : Follows(t, q, f) /\ Handed(f, t)) \/ Tears(t, q)
    BY <1>5, HandEffect
  <2>2. ASSUME NEW f, Follows(t, q, f), Handed(f, t), x = q PROVE ByPeople(x)
    <3>1. /\ policy'[x].by = "supersede" /\ policy'[x].status = "live" /\ policy'[x].named
          /\ policy'[x].authored_on = now' /\ policy'[x].supersedes = t
      BY <2>2 DEF Follows, Handed
    <3>2. t \in OnDisk(policy) /\ now' \in Times /\ \E n \in Nat : x = Append(t, n)
      BY <2>2 DEF Follows, Retires
    <3> QED BY <2>1, <2>2, <3>1, <3>2, Nothing DEF ByPeople, OnDisk
  <2> QED BY <1>3, <1>4, <2>1, <2>2
<1>6. ASSUME NEW t \in Ids, CancelPolicy(t) PROVE Inherited(x)
  BY <1>0, <1>6, CancelEffect DEF Inherited, KeepsRest
<1>7. ASSUME Granting PROVE Inherited(x) \/ ByGrant(x)
  <2>1. PICK t \in Ids, q \in Ids :
          /\ cur \in Proposals /\ proposal[cur] \in Proposal /\ t = proposal[cur].target /\ pc = "matching"
          /\ Matching # {}
          /\ UNCHANGED << proposal, auth >>
          /\ Applies(t, q) \/ Tears(t, q)
    BY <1>7 DEF Granting
  <2>2. CASE Applies(t, q) /\ x = q
    BY <2>1, <2>2 DEF ByGrant
  <2>3. CASE Applies(t, q) /\ x # q
    BY <1>4, <2>3 DEF Applies
  <2> QED BY <1>3, <2>1, <2>2, <2>3
<1> QED BY <1>1, <1>2, <1>5, <1>6, <1>7, Effects

\* A policy that was not overwritten says what it said.
LEMMA StaysOrLost ==
  ASSUME TypeOK, KnownExist, UnderWay, [Next]_vars, NEW x \in OnDisk(policy), x \notin lost'
  PROVE  Inherited(x) /\ x \notin lost
<1>1. x \in OnDisk(policy')
  BY PoliciesStay
<1>2. ~ByPeople(x)
  BY DEF ByPeople
<1>3. ~ByGrant(x)
  BY DEF ByGrant, Applies
<1> QED BY <1>1, <1>2, <1>3, Origin, LostGrows

LEMMA SourcedStep ==
  ASSUME TypeOK, KnownExist, UnderWay, Sourced, [Next]_vars
  PROVE  Sourced'
<1> SUFFICES ASSUME NEW x \in OnDisk(policy'), NEW r \in Proposals, r = policy'[x].by
             PROVE  proposal'[r] # None /\ proposal'[r].target \in OnDisk(policy')
  BY DEF Sourced
<1>1. CASE Inherited(x)
  <2>1. proposal[r] # None /\ proposal[r].target \in OnDisk(policy)
    BY <1>1 DEF Inherited, KeepsRest, Sourced
  <2> QED BY <2>1, RequestsStay, PoliciesStay DEF SameRequest
<1>2. CASE ByPeople(x)
  BY <1>2 DEF ByPeople
<1>3. CASE ByGrant(x)
  <2>1. PICK t \in Ids : /\ cur \in Proposals /\ proposal[cur] \in Proposal /\ t = proposal[cur].target
                         /\ UNCHANGED proposal /\ Applies(t, x)
    BY <1>3 DEF ByGrant
  <2>2. policy'[x].by = cur /\ t \in OnDisk(policy)
    BY <2>1 DEF Applies, Follows, Retires, Granted
  <2> QED BY <2>1, <2>2, Nothing, PoliciesStay
<1> QED BY <1>1, <1>2, <1>3, Origin

\* Whether a proposal has set a policy's lineage is settled when it is made.
LEMMA SetStays ==
  ASSUME TypeOK, KnownExist, UnderWay, Sourced, [Next]_vars,
         NEW x \in OnDisk(policy), x \in OnDisk(policy'), policy'[x].by = policy[x].by
  PROVE  x \in SetByProposal' <=> x \in SetByProposal
<1>1. CASE policy[x].by \in Proposals
  <2>1. PICK r \in Proposals : r = policy[x].by
    BY <1>1
  <2>2. proposal[r] # None
    BY <2>1 DEF Sourced
  <2>3. proposal'[r].change = proposal[r].change
    BY <2>2, RequestsStay DEF SameRequest
  <2>4. PICK ch : ch = proposal[r].change
    OBVIOUS
  <2>5. (x \in SetByProposal <=> SetsControl(ch)) /\ (x \in SetByProposal' <=> SetsControl(ch))
    BY <2>1, <2>3, <2>4 DEF SetByProposal, SetsControl
  <2> QED BY <2>5
<1>2. CASE policy[x].by \notin Proposals
  BY <1>2 DEF SetByProposal
<1> QED BY <1>1, <1>2

LEMMA LineageStep ==
  ASSUME TypeOK, KnownExist, UnderWay, Sourced, Lineage, [Next]_vars
  PROVE  Lineage'
<1> SUFFICES ASSUME NEW x \in OnDisk(policy'), x \notin SetByProposal'
             PROVE  /\ policy'[x].authored_on <= now'
                    /\ policy'[x].supersedes # None =>
                         /\ policy'[x].supersedes \in OnDisk(policy')
                         /\ policy'[x].by # "new" => \E n \in Nat : x = Append(policy'[x].supersedes, n)
  BY DEF Lineage
<1>0. OnDisk(policy) \subseteq OnDisk(policy') /\ now <= now' /\ now \in Int /\ now' \in Int
  BY PoliciesStay, StepTyped DEF TypeOK, Times
<1>1. CASE Inherited(x)
  <2>1. x \in OnDisk(policy) /\ x \notin SetByProposal
    BY <1>1, SetStays DEF Inherited, KeepsRest
  <2>2. policy[x].authored_on \in Int
    BY <2>1, Existing DEF OnDisk, Policy, Times
  <2> QED BY <1>0, <1>1, <2>1, <2>2 DEF Inherited, KeepsRest, Lineage
<1>2. CASE ByPeople(x)
  BY <1>0, <1>2 DEF ByPeople
<1>3. CASE ByGrant(x)
  <2>0. PICK t \in Ids : /\ cur \in Proposals /\ UNCHANGED proposal
                         /\ \E f : Follows(t, x, f) /\ Granted(f, t, cur)
    BY <1>3 DEF ByGrant, Applies
  <2>1. PICK f : Follows(t, x, f) /\ Granted(f, t, cur)
    BY <2>0
  <2>2. policy'[x] = f /\ f.by = cur
    BY <2>1 DEF Follows, Granted
  <2>3. ~SetsControl(proposal[cur].change)
    <3>1. SetsControl(proposal[cur].change) => x \in SetByProposal'
      BY <2>0, <2>2 DEF SetByProposal, SetsControl
    <3> QED BY <3>1
  <2>4. f.supersedes = t /\ f.authored_on = now'
    BY <2>1, <2>3 DEF Granted
  <2>5. t \in OnDisk(policy) /\ \E n \in Nat : x = Append(t, n)
    BY <2>1 DEF Follows, Retires
  <2> QED BY <1>0, <2>2, <2>4, <2>5
<1> QED BY <1>1, <1>2, <1>3, Origin

LEMMA TitledStep ==
  ASSUME TypeOK, KnownExist, UnderWay, Sourced, Titled, [Next]_vars
  PROVE  Titled'
<1> SUFFICES ASSUME NEW x \in OnDisk(policy'), ~policy'[x].named, NEW r, r = policy'[x].by
             PROVE  /\ r \in Proposals /\ proposal'[r].change.renames
                    /\ \E n \in Nat : x = Append(proposal'[r].target, n)
  BY DEF Titled
<1>1. CASE Inherited(x)
  <2>1. /\ r \in Proposals /\ proposal[r].change.renames
        /\ \E n \in Nat : x = Append(proposal[r].target, n)
    BY <1>1 DEF Inherited, KeepsRest, Titled
  <2>2. proposal[r] # None
    BY <1>1, <2>1 DEF Inherited, KeepsRest, Sourced
  <2> QED BY <2>1, <2>2, RequestsStay DEF SameRequest
<1>2. CASE ByPeople(x)
  BY <1>2 DEF ByPeople
<1>3. CASE ByGrant(x)
  <2>0. PICK t \in Ids : /\ cur \in Proposals /\ proposal[cur] \in Proposal /\ t = proposal[cur].target
                         /\ UNCHANGED proposal
                         /\ \E f : Follows(t, x, f) /\ Granted(f, t, cur)
    BY <1>3 DEF ByGrant, Applies
  <2>1. PICK f : Follows(t, x, f) /\ Granted(f, t, cur)
    BY <2>0
  <2>2. policy'[x] = f /\ f.by = cur /\ f.named = ~proposal[cur].change.renames
    BY <2>1 DEF Follows, Granted
  <2>3. \E n \in Nat : x = Append(t, n)
    BY <2>1 DEF Follows, Retires
  <2>4. proposal[cur].change \in Change
    BY <2>0, ContentAssumption DEF Proposal
  <2>5. proposal[cur].change.renames \in BOOLEAN
    BY <2>4 DEF Change
  <2> QED BY <2>0, <2>2, <2>3, <2>5
<1> QED BY <1>1, <1>2, <1>3, Origin

LEMMA PointerNamesStep ==
  ASSUME TypeOK, KnownExist, UnderWay, Sourced, PointerNames, [Next]_vars
  PROVE  PointerNames'
<1> SUFFICES ASSUME NEW p \in OnDisk(policy'), p \notin SetByProposal', policy'[p].status = "superseded"
             PROVE  \E n \in Nat : policy'[p].superseded_by = Append(p, n)
  BY DEF PointerNames
<1> DEFINE Goal == \E n \in Nat : policy'[p].superseded_by = Append(p, n)
<1>0. p \in Ids
  BY DEF OnDisk
<1>1. ASSUME p \in OnDisk(policy), policy'[p] = policy[p] PROVE Goal
  BY <1>1, SetStays DEF PointerNames
<1>2. ASSUME NEW t \in Ids, NEW q \in Ids, Retires(t, q), p = t PROVE Goal
  BY <1>2 DEF Retires
<1>3. ASSUME NEW t \in Ids, NEW q \in Ids, Tears(t, q) PROVE Goal
  <2>1. p # t => p \in OnDisk(policy) /\ policy'[p] = policy[p]
    BY <1>0, <1>3 DEF Tears
  <2> QED BY <1>1, <1>2, <1>3, <2>1 DEF Tears
<1>4. ASSUME NEW t \in Ids, NEW q \in Ids, NEW f, Follows(t, q, f), p # q PROVE Goal
  <2>1. p # t => p \in OnDisk(policy) /\ policy'[p] = policy[p]
    BY <1>0, <1>4 DEF Follows
  <2> QED BY <1>1, <1>2, <1>4, <2>1 DEF Follows
<1>5. ByPeople(p) => Goal
  BY DEF ByPeople
<1>6. ASSUME NEW x \in Ids, NEW c \in Contents, NEW old \in Ids \cup {None}, AuthorPolicy(x, c, old) PROVE Goal
  <2>1. CASE p = x
    BY <1>6, <2>1, Authored
  <2>2. CASE p # x
    BY <1>0, <1>1, <1>6, <2>2, Authored
  <2> QED BY <2>1, <2>2
<1>7. ASSUME NEW t \in Ids, CancelPolicy(t) PROVE Goal
  <2>1. p # t
    BY <1>7, CancelEffect
  <2> QED BY <1>0, <1>1, <1>7, <2>1, CancelEffect
<1>8. ASSUME NEW t \in Ids, SupersedeByHand(t) PROVE Goal
  <2>1. PICK q \in Ids : (\E f : Follows(t, q, f) /\ Handed(f, t)) \/ Tears(t, q)
    BY <1>8, HandEffect
  <2>2. ASSUME NEW f, Follows(t, q, f), Handed(f, t) PROVE p # q
    BY <2>2 DEF Follows, Handed
  <2> HIDE DEF Goal
  <2> QED BY <1>3, <1>4, <2>1, <2>2
<1>9. ASSUME Granting PROVE Goal
  <2>1. PICK t \in Ids, q \in Ids : /\ cur \in Proposals /\ UNCHANGED proposal
                                    /\ (\E f : Follows(t, q, f) /\ Granted(f, t, cur)) \/ Tears(t, q)
    BY <1>9 DEF Granting, Applies
  <2>2. ASSUME NEW f, Follows(t, q, f), Granted(f, t, cur) PROVE p # q
    <3> SUFFICES ASSUME p = q PROVE FALSE
      OBVIOUS
    <3>1. policy'[p] = f /\ f.by = cur
      BY <2>2 DEF Follows, Granted
    <3>2. SetsControl(proposal[cur].change)
      BY <2>2, <3>1 DEF Granted
    <3> QED BY <2>1, <3>1, <3>2 DEF SetByProposal, SetsControl
  <2> HIDE DEF Goal
  <2> QED BY <1>3, <1>4, <2>1, <2>2
<1>10. Bystander => Goal
  BY <1>1 DEF Bystander
<1> HIDE DEF Goal
<1>11. Goal
  BY <1>6, <1>7, <1>8, <1>9, <1>10, Effects
<1> QED BY <1>11 DEF Goal

LEMMA SawAuthsStep ==
  ASSUME TypeOK, KnownExist, UnderWay, SawAuths, [Next]_vars
  PROVE  SawAuths'
<1>1. \A u \in Auths : auth[u] # None => auth'[u] # None
  BY Effects, Authored, HandEffect, CancelEffect DEF Bystander, Granting
<1>2. ASSUME NEW r \in Proposals, proposal'[r] # None
      PROVE  \/ /\ proposal[r] # None /\ proposal'[r].on_file = proposal[r].on_file
                /\ proposal'[r].found = proposal[r].found /\ proposal'[r].target = proposal[r].target
             \/ /\ proposal'[r].on_file = { u \in Auths : auth[u] # None }
                /\ proposal'[r].found => proposal'[r].target \in Bearing(policy)
  <2>1. proposal' = proposal \/ Bystander
    BY Effects, Authored, HandEffect, CancelEffect DEF Granting
  <2>2. CASE proposal' = proposal
    BY <1>2, <2>2
  <2>3. CASE \E x \in Proposals : Proposes(x)
    <3>1. PICK x \in Proposals : Proposes(x)
      BY <2>3
    <3>2. CASE x = r
      <4>1. PICK t \in Ids, ch \in Changes :
              proposal'[r] = [ target |-> t, change |-> ch, state |-> "pending", effective |-> None,
                               on_file |-> { u \in Auths : auth[u] # None }, found |-> t \in Bearing(policy) ]
        BY <3>1, <3>2 DEF Proposes
      <4>2. /\ proposal'[r].on_file = { u \in Auths : auth[u] # None }
            /\ proposal'[r].found = (t \in Bearing(policy)) /\ proposal'[r].target = t
        BY <4>1
      <4> QED BY <4>2
    <3>3. CASE x # r
      BY <1>2, <3>1, <3>3 DEF Proposes
    <3> QED BY <3>2, <3>3
  <2>4. CASE cur \in Proposals /\ proposal[cur] # None /\ SameRequest(cur)
             /\ \A x \in Proposals \ {cur} : proposal'[x] = proposal[x]
    <3>1. CASE r = cur
      BY <2>4, <3>1 DEF SameRequest
    <3>2. CASE r # cur
      BY <1>2, <2>4, <3>2
    <3> QED BY <3>1, <3>2
  <2> QED BY <2>1, <2>2, <2>3, <2>4 DEF Bystander
<1>3. ASSUME NEW r \in Proposals, proposal[r] # None PROVE proposal[r].on_file \subseteq Auths
  BY <1>3, Existing DEF Proposal
<1>4. OnDisk(policy) \subseteq OnDisk(policy')
  BY PoliciesStay
<1>5. ASSUME NEW t \in OnDisk(policy), policy[t].named, t \notin lost' PROVE policy'[t].named
  BY <1>5, StaysOrLost DEF Inherited, KeepsRest
<1>6. lost \subseteq lost'
  BY LostGrows
<1>7. Bearing(policy) \subseteq OnDisk(policy) /\ \A t \in Bearing(policy) : policy[t].named
  BY DEF Bearing
<1> QED BY <1>1, <1>2, <1>3, <1>4, <1>5, <1>6, <1>7 DEF SawAuths

LEMMA Larger ==
  ASSUME NEW S \in SUBSET Ids, NEW T \in SUBSET Ids, S \subseteq T
  PROVE  Cardinality(S) \in Nat /\ Cardinality(T) \in Nat /\ Cardinality(S) <= Cardinality(T)
BY Counted, FS_Subset

\* The name of a successor counts no more successors than there are then.
LEMMA CountsHeirs ==
  ASSUME TypeOK, KnownExist, UnderWay, Numbered, NEW t \in Ids, NEW q \in Ids,
         Retires(t, q), q \notin OnDisk(policy) \/ q \notin HandIds,
         OnDisk(policy') = OnDisk(policy) \cup {q}
  PROVE  Cardinality(Named(t)) + 1 <= Cardinality(Heirs(t)')
<1>1. Heirs(t) \subseteq Heirs(t)' /\ Heirs(t)' \subseteq Ids /\ Heirs(t) \subseteq Ids
  BY DEF Heirs, OnDisk
<1>2. Named(t) \subseteq Heirs(t)
  BY DEF Named, Heirs, KnownExist
<1>3. q = Append(t, Cardinality(Named(t)) + 1) /\ Cardinality(Named(t)) \in Nat
  BY DEF Retires
<1>4. CASE q \in OnDisk(policy)
  <2>1. Cardinality(Named(t)) + 1 <= Cardinality(Heirs(t))
    BY <1>3, <1>4 DEF Numbered
  <2>2. /\ Cardinality(Heirs(t)) \in Nat /\ Cardinality(Heirs(t)') \in Nat
        /\ Cardinality(Heirs(t)) <= Cardinality(Heirs(t)')
    BY <1>1, Larger
  <2> QED BY <1>3, <2>1, <2>2
<1>5. CASE q \notin OnDisk(policy)
  <2>1. q \notin Named(t) /\ IsFiniteSet(Named(t)) /\ Named(t) \subseteq Ids
    BY <1>1, <1>2, <1>5, Counted DEF Heirs
  <2>2. Cardinality(Named(t) \cup {q}) = Cardinality(Named(t)) + 1
    BY <2>1, FS_AddElement
  <2>3. Extends(q, t)
    BY <1>3, Names, Appended
  <2>4. Named(t) \cup {q} \subseteq Heirs(t)'
    BY <1>1, <1>2, <2>3 DEF Heirs
  <2>5. Cardinality(Named(t) \cup {q}) <= Cardinality(Heirs(t)')
    BY <1>1, <2>1, <2>4, Larger
  <2> QED BY <2>2, <2>5
<1> QED BY <1>4, <1>5

LEMMA NumberedStep ==
  ASSUME TypeOK, KnownExist, UnderWay, Numbered, [Next]_vars
  PROVE  Numbered'
<1>1. ASSUME NEW t \in Ids, NEW n \in Nat, Append(t, n) \in OnDisk(policy) \ HandIds
      PROVE  n <= Cardinality(Heirs(t)')
  <2>1. Heirs(t) \subseteq Heirs(t)' /\ Heirs(t)' \subseteq Ids /\ Heirs(t) \subseteq Ids
    BY PoliciesStay DEF Heirs, OnDisk
  <2>2. /\ Cardinality(Heirs(t)) \in Nat /\ Cardinality(Heirs(t)') \in Nat
        /\ Cardinality(Heirs(t)) <= Cardinality(Heirs(t)')
    BY <2>1, Larger
  <2> QED BY <1>1, <2>2 DEF Numbered
<1>2. ASSUME OnDisk(policy') \subseteq OnDisk(policy) \cup HandIds
      PROVE  Numbered'
  BY <1>1, <1>2 DEF Numbered
<1>3. ASSUME NEW t \in Ids, NEW q \in Ids, Retires(t, q), OnDisk(policy') = OnDisk(policy) \cup {q}
      PROVE  Numbered'
  <2>1. CASE q \in OnDisk(policy) \/ q \in HandIds
    BY <1>2, <1>3, <2>1
  <2>2. CASE q \notin OnDisk(policy) /\ q \notin HandIds
    <3>1. Cardinality(Named(t)) + 1 <= Cardinality(Heirs(t)')
      BY <1>3, <2>2, CountsHeirs
    <3>2. q = Append(t, Cardinality(Named(t)) + 1) /\ Cardinality(Named(t)) \in Nat
      BY <1>3 DEF Retires
    <3>3. ASSUME NEW u \in Ids, NEW n \in Nat, Append(u, n) = q PROVE n <= Cardinality(Heirs(u)')
      <4>1. u = t /\ n = Cardinality(Named(t)) + 1
        BY <3>2, <3>3, Names, SameAppended
      <4> QED BY <3>1, <4>1
    <3> QED BY <1>1, <1>3, <3>3 DEF Numbered
  <2> QED BY <2>1, <2>2
<1>4. Bystander => Numbered'
  BY <1>2 DEF Bystander
<1>5. ASSUME NEW p \in Ids, NEW c \in Contents, NEW old \in Ids \cup {None}, AuthorPolicy(p, c, old) PROVE Numbered'
  BY <1>2, <1>5, Authored
<1>6. ASSUME NEW t \in Ids, NEW q \in Ids, Tears(t, q) PROVE Numbered'
  BY <1>2, <1>6 DEF Tears
<1>7. ASSUME NEW t \in Ids, NEW q \in Ids, NEW f, Follows(t, q, f) PROVE Numbered'
  BY <1>3, <1>7 DEF Follows
<1>8. ASSUME NEW t \in Ids, CancelPolicy(t) PROVE Numbered'
  BY <1>2, <1>8, CancelEffect
<1>9. ASSUME NEW t \in Ids, SupersedeByHand(t) PROVE Numbered'
  BY <1>6, <1>7, <1>9, HandEffect
<1>10. Granting => Numbered'
  BY <1>6, <1>7 DEF Granting, Applies
<1> QED BY <1>4, <1>5, <1>8, <1>9, <1>10, Effects

-----------------------------------------------------------------------------
(***************************************************************************)
(* NamesAreFresh                                                           *)
(***************************************************************************)
LEMMA ExtendsFront ==
  ASSUME NEW u \in Seq(Nat), NEW t \in Seq(Nat), NEW n \in Nat, Extends(Append(u, n), t)
  PROVE  u = t \/ Extends(u, t)
<1>1. /\ Len(u) \in Nat /\ Len(t) \in Nat /\ Len(Append(u, n)) = Len(u) + 1
      /\ Append(u, n) \in Seq(Nat)
  BY Appended
<1>2. Len(t) <= Len(u) /\ SubSeq(Append(u, n), 1, Len(t)) = t
  BY <1>1 DEF Extends
<1>3. \A i \in 1 .. Len(t) : t[i] = u[i]
  <2>1. \A i \in 1 .. Len(t) : Append(u, n)[i] = u[i] /\ u[i] \in Nat /\ Append(u, n)[i] \in Nat
    BY <1>1, <1>2
  <2>2. \A i \in 1 .. (Len(t) - 1 + 1) : SubSeq(Append(u, n), 1, Len(t))[i] = Append(u, n)[1 + i - 1]
    BY <1>1, <1>2, <2>1, SubSeqProperties
  <2> QED BY <1>1, <1>2, <2>1, <2>2
<1>4. CASE Len(t) = Len(u)
  BY <1>3, <1>4, SeqEqual
<1>5. CASE Len(t) < Len(u)
  <2>1. \A i \in 1 .. Len(t) : u[i] \in Nat
    BY <1>1, <1>5
  <2>2. /\ SubSeq(u, 1, Len(t)) \in Seq(Nat)
        /\ Len(SubSeq(u, 1, Len(t))) = IF 1 <= Len(t) THEN Len(t) - 1 + 1 ELSE 0
        /\ \A i \in 1 .. (Len(t) - 1 + 1) : SubSeq(u, 1, Len(t))[i] = u[1 + i - 1]
    BY <1>1, <2>1, SubSeqProperties
  <2>3. Len(SubSeq(u, 1, Len(t))) = Len(t)
    BY <1>1, <2>2
  <2>4. \A i \in 1 .. Len(t) : SubSeq(u, 1, Len(t))[i] = t[i]
    BY <1>1, <1>3, <2>1, <2>2
  <2>5. SubSeq(u, 1, Len(t)) = t
    BY <2>2, <2>3, <2>4, SeqEqual
  <2> QED BY <1>1, <1>5, <2>5 DEF Extends
<1> QED BY <1>1, <1>2, <1>4, <1>5

\* A record that is not counted after t comes from a proposal that renames.
LEMMA UncountedHeir ==
  ASSUME TypeOK, Sourced, Titled, NEW t \in Ids, NEW h \in Heirs(t), ~policy[h].named
  PROVE  Uncounted(t)
<1>1. PICK r \in Proposals, n \in Nat :
        r = policy[h].by /\ proposal[r].change.renames /\ h = Append(proposal[r].target, n)
  BY DEF Titled, Heirs
<1>2. proposal[r] # None
  BY <1>1 DEF Sourced, Heirs
<1>3. proposal[r].target \in Ids
  BY <1>2, Existing DEF Proposal
<1>4. proposal[r].target = t \/ Extends(proposal[r].target, t)
  BY <1>1, <1>3, Names, ExtendsFront DEF Heirs
<1> QED BY <1>1, <1>2, <1>4 DEF Uncounted

LEMMA UncountedStays ==
  ASSUME TypeOK, KnownExist, UnderWay, [Next]_vars, NEW t, Uncounted(t)
  PROVE  Uncounted(t)'
BY RequestsStay DEF Uncounted, SameRequest

LEMMA NamesStayFresh ==
  ASSUME TypeOK, KnownExist, UnderWay, Sourced, Titled, Numbered, NamesAreFresh, [Next]_vars
  PROVE  NamesAreFresh'
<1> SUFFICES ASSUME NEW p \in lost'
             PROVE  \/ p \in HandIds /\ Len(p) > 1
                    \/ \E t \in Ids : Extends(p, t) /\ Uncounted(t)'
  BY DEF NamesAreFresh
<1>1. CASE p \in lost
  BY <1>1, UncountedStays DEF NamesAreFresh
<1>2. CASE p \notin lost
  <2>1. Granting
    BY <1>2, Effects, Authored, HandEffect, CancelEffect DEF Bystander
  <2>2. PICK t \in Ids : pc = "matching" /\ Retires(t, p) /\ p \in OnDisk(policy)
    BY <1>2, <2>1 DEF Granting, Applies, Follows, Tears
  <2>3. p = Append(t, Cardinality(Named(t)) + 1) /\ Cardinality(Named(t)) \in Nat
    BY <2>2 DEF Retires
  <2>4. Len(p) = Len(t) + 1 /\ Len(t) >= 1 /\ Len(t) \in Nat /\ Extends(p, t)
    BY <2>3, Names, Appended
  <2>5. ASSUME p \notin HandIds PROVE Uncounted(t)'
    <3>1. Cardinality(Named(t)) + 1 <= Cardinality(Heirs(t))
      BY <2>2, <2>3, <2>5 DEF Numbered
    <3>2. Named(t) # Heirs(t)
      BY <2>3, <3>1
    <3>3. PICK h \in Heirs(t) : ~policy[h].named
      BY <2>2, <3>2 DEF Named, Heirs, UnderWay, Bearing
    <3> QED BY <3>3, UncountedHeir, UncountedStays
  <2> QED BY <2>4, <2>5
<1> QED BY <1>1, <1>2

-----------------------------------------------------------------------------
(***************************************************************************)
(* ChangesAreGranted                                                       *)
(***************************************************************************)
\* ConditionsPass among the policies pol.
PassesIn(pol, g, t, ch) ==
  /\ g.within # None =>
       /\ t \in Bearing(pol) /\ ch.value # None
       /\ Distance(ch.value, pol[t].says.value) <= g.within
  /\ g.observations # None => ch.observations >= g.observations

LEMMA ConditionsStay ==
  ASSUME NEW t \in OnDisk(policy), t \in OnDisk(policy'), policy'[t].says = policy[t].says,
         policy'[t].named = policy[t].named, NEW g, NEW ch
  PROVE  PassesIn(policy', g, t, ch) <=> PassesIn(policy, g, t, ch)
BY DEF PassesIn, Bearing

LEMMA ChangesStayGranted ==
  ASSUME TypeOK, KnownExist, UnderWay, Sourced, ChangesAreGranted, [Next]_vars
  PROVE  ChangesAreGranted'
<1> SUFFICES ASSUME NEW x \in OnDisk(policy'), NEW r \in Proposals, policy'[x].by = r,
                    NEW t, t = proposal'[r].target
             PROVE  /\ policy'[x].supersedes = Or(proposal'[r].change.supersedes, t)
                    /\ t \notin lost' =>
                         /\ policy'[x].says = Changed(policy'[t].says, proposal'[r].change)
                         /\ \E u \in Auths :
                              /\ auth'[u] # None /\ t \in auth'[u].subjects
                              /\ PassesIn(policy', auth'[u], t, proposal'[r].change)
  BY DEF ChangesAreGranted, ConditionsPass, PassesIn
<1>1. CASE Inherited(x)
  <2>1. x \in OnDisk(policy) /\ policy[x].by = r
    BY <1>1 DEF Inherited, KeepsRest
  <2>2. proposal[r] # None /\ proposal[r].target \in OnDisk(policy)
    BY <2>1 DEF Sourced
  <2>3. t = proposal[r].target /\ proposal'[r].change = proposal[r].change
    BY <2>2, RequestsStay DEF SameRequest
  <2>4. policy'[x].supersedes = Or(proposal'[r].change.supersedes, t)
    BY <1>1, <2>1, <2>3 DEF Inherited, KeepsRest, ChangesAreGranted
  <2>5. ASSUME t \notin lost'
        PROVE  /\ policy'[x].says = Changed(policy'[t].says, proposal'[r].change)
               /\ \E u \in Auths :
                    /\ auth'[u] # None /\ t \in auth'[u].subjects
                    /\ PassesIn(policy', auth'[u], t, proposal'[r].change)
    <3>1. t \in OnDisk(policy) /\ t \in OnDisk(policy') /\ policy'[t].says = policy[t].says
          /\ policy'[t].named = policy[t].named /\ t \notin lost
      BY <2>2, <2>3, <2>5, StaysOrLost, PoliciesStay DEF Inherited, KeepsRest
    <3>2. PICK ch : ch = proposal[r].change
      OBVIOUS
    <3>3. /\ policy[x].says = Changed(policy[t].says, ch)
          /\ \E u \in Auths : auth[u] # None /\ t \in auth[u].subjects /\ PassesIn(policy, auth[u], t, ch)
      BY <2>1, <2>3, <3>1, <3>2 DEF ChangesAreGranted, ConditionsPass, PassesIn
    <3>4. policy'[x].says = Changed(policy'[t].says, ch)
      BY <1>1, <3>1, <3>3 DEF Inherited, KeepsRest
    <3>5. PICK u \in Auths : auth[u] # None /\ t \in auth[u].subjects /\ PassesIn(policy, auth[u], t, ch)
      BY <3>3
    <3>6. PICK g : g = auth[u]
      OBVIOUS
    <3>7. auth'[u] = g
      BY <3>5, <3>6, AuthsStay
    <3>8. PassesIn(policy', g, t, ch)
      BY <3>1, <3>5, <3>6, ConditionsStay
    <3> QED BY <2>3, <3>2, <3>4, <3>5, <3>6, <3>7, <3>8
  <2> QED BY <2>4, <2>5
<1>2. CASE ByPeople(x)
  BY <1>2 DEF ByPeople
<1>3. CASE ByGrant(x)
  <2>1. PICK s \in Ids :
          /\ cur \in Proposals /\ proposal[cur] \in Proposal /\ s = proposal[cur].target
          /\ pc = "matching" /\ Matching # {}
          /\ UNCHANGED << proposal, auth >>
          /\ Applies(s, x)
    BY <1>3 DEF ByGrant
  <2>2. PICK ch : ch = proposal[cur].change
    OBVIOUS
  <2>3. /\ policy'[x].by = cur /\ policy'[x].supersedes = Or(ch.supersedes, s)
        /\ policy'[x].says = Changed(policy[s].says, ch)
        /\ s \in OnDisk(policy) /\ s \in OnDisk(policy') /\ policy'[s].says = policy[s].says
        /\ policy'[s].named = policy[s].named
    BY <2>1, <2>2 DEF Applies, Follows, Retires, KeepsRest, Granted
  <2>4. r = cur /\ t = s /\ proposal'[r].change = ch
    BY <2>1, <2>2, <2>3
  <2>5. PICK u \in Auths : auth[u] # None /\ Covers(auth[u], s, ch)
    BY <2>1, <2>2 DEF Matching
  <2>6. PICK g : g = auth[u]
    OBVIOUS
  <2>7. s \in g.subjects /\ PassesIn(policy, g, s, ch)
    BY <2>5, <2>6 DEF Covers, ConditionsPass, PassesIn
  <2>8. PassesIn(policy', g, s, ch)
    BY <2>3, <2>7, ConditionsStay
  <2>9. auth'[u] = g /\ g # None
    BY <2>1, <2>5, <2>6
  <2>10. policy'[x].says = Changed(policy'[s].says, ch)
    BY <2>3
  <2> QED BY <2>3, <2>4, <2>7, <2>8, <2>9, <2>10
<1> QED BY <1>1, <1>2, <1>3, Origin

-----------------------------------------------------------------------------
(***************************************************************************)
(* ApprovalsAreApplied and PendingIsExplained                              *)
(***************************************************************************)
\* How a dispatch ends: without a match, with an approval, or cut short.
LEMMA Ends ==
  ASSUME TypeOK, KnownExist, UnderWay, [Next]_vars
  PROVE  /\ died \subseteq died'
         /\ \A r \in Proposals : r = cur /\ r # cur' /\ r \notin died' =>
              \/ Decline
              \/ proposal'[cur].state = "approved"
<1>1. UNCHANGED << cur, died >> => died \subseteq died' /\ cur' = cur
  OBVIOUS
<1>2. Decline => died \subseteq died'
  BY DEF Decline
<1>3. Die => died \subseteq died' /\ cur \in died'
  BY DEF Die
<1>4. Approve => died \subseteq died' /\ (proposal'[cur].state = "approved" \/ cur \in died')
  BY ApproveEffect
<1>5. Apply => died \subseteq died' /\ (cur' = cur \/ cur \in died')
  BY ApplyEffect
<1>6. ASSUME NEW r \in Proposals, NEW t \in Ids, NEW ch \in Changes, Propose(r, t, ch)
      PROVE  died \subseteq died' /\ cur = None
  <2>1. Proposes(r)
    BY <1>6, ProposeEffect
  <2> QED BY <2>1 DEF Proposes, UnderWay
<1>7. Other => UNCHANGED << cur, died >>
  BY OtherLeaves DEF dispatch
<1>8. ASSUME NEW p \in Ids, NEW c \in Contents, NEW old \in Ids \cup {None}, AuthorPolicy(p, c, old) PROVE UNCHANGED << cur, died >>
  BY <1>8, Authored DEF dispatch
<1>9. ASSUME NEW t \in Ids, SupersedeByHand(t) PROVE UNCHANGED << cur, died >>
  BY <1>9, HandEffect DEF dispatch
<1>10. ASSUME NEW t \in Ids, CancelPolicy(t) PROVE UNCHANGED << cur, died >>
  BY <1>10, CancelEffect DEF dispatch
<1>11. ASSUME NEW u \in Auths, NEW g \in Grants, Authorize(u, g) PROVE UNCHANGED << cur, died >>
  BY <1>11 DEF Authorize, Stay, dispatch
<1> QED BY <1>1, <1>2, <1>3, <1>4, <1>5, <1>6, <1>7, <1>8, <1>9, <1>10, <1>11, Nothing, StepKinds

\* What happens to the record of a proposal.
LEMMA ProposalStep ==
  ASSUME TypeOK, KnownExist, UnderWay, [Next]_vars, NEW r \in Proposals, proposal'[r] # None
  PROVE  \/ proposal'[r] = proposal[r]
         \/ /\ proposal[r] = None /\ proposal'[r].state = "pending" /\ proposal'[r].effective = None
            /\ cur' = r \/ r \in died'
         \/ /\ Approve /\ r = cur
<1>1. ASSUME NEW u \in Auths, NEW g \in Grants, Authorize(u, g) PROVE proposal' = proposal
  BY <1>1 DEF Authorize
<1>2. ASSUME NEW x \in Proposals, NEW t \in Ids, NEW ch \in Changes, Propose(x, t, ch), x = r
      PROVE  /\ proposal[r] = None /\ proposal'[r].state = "pending" /\ proposal'[r].effective = None
             /\ cur' = r \/ r \in died'
  <2>1. Proposes(r)
    BY <1>2, ProposeEffect
  <2>2. PICK s \in Ids, y \in Changes :
          proposal'[r] = [ target |-> s, change |-> y, state |-> "pending", effective |-> None,
                           on_file |-> { u \in Auths : auth[u] # None }, found |-> s \in Bearing(policy) ]
    BY <2>1 DEF Proposes
  <2>3. proposal'[r].state = "pending" /\ proposal'[r].effective = None
    BY <2>2
  <2> QED BY <2>1, <2>3 DEF Proposes
<1>3. ASSUME NEW x \in Proposals, NEW t \in Ids, NEW ch \in Changes, Propose(x, t, ch), x # r
      PROVE  proposal'[r] = proposal[r]
  <2>1. Proposes(x)
    BY <1>3, ProposeEffect
  <2> QED BY <1>3, <2>1 DEF Proposes
<1>4. Decline \/ Die => proposal' = proposal
  BY DEF Decline, Die, records
<1>5. Approve => r = cur \/ proposal'[r] = proposal[r]
  BY ApproveEffect
<1>6. Apply => proposal' = proposal
  BY ApplyEffect
<1>7. Other => proposal' = proposal
  BY OtherLeaves
<1>8. ASSUME NEW p \in Ids, NEW c \in Contents, NEW old \in Ids \cup {None}, AuthorPolicy(p, c, old) PROVE proposal' = proposal
  BY <1>8, Authored
<1>9. ASSUME NEW t \in Ids, SupersedeByHand(t) PROVE proposal' = proposal
  BY <1>9, HandEffect
<1>10. ASSUME NEW t \in Ids, CancelPolicy(t) PROVE proposal' = proposal
  BY <1>10, CancelEffect
<1> QED BY <1>1, <1>2, <1>3, <1>4, <1>5, <1>6, <1>7, <1>8, <1>9, <1>10, StepKinds

LEMMA ApprovalsStayApplied ==
  ASSUME TypeOK, KnownExist, UnderWay, Sourced, Titled, ApprovalsAreApplied, [Next]_vars
  PROVE  ApprovalsAreApplied'
<1> SUFFICES ASSUME NEW r \in Proposals, proposal'[r] # None
             PROVE  LET q == proposal'[r].effective
                    IN  /\ proposal'[r].state = "approved" =>
                             /\ q \in OnDisk(policy')
                             /\ q \notin lost' =>
                                  policy'[q].by = r /\ (policy'[q].named \/ proposal'[r].change.renames)
                        /\ (r \notin died' \cup {cur'} /\ \E p \in OnDisk(policy') : policy'[p].by = r) =>
                             proposal'[r].state = "approved"
  BY DEF ApprovalsAreApplied
<1>1. ASSUME proposal'[r].state = "approved", NEW q, q = proposal'[r].effective
      PROVE  /\ q \in OnDisk(policy')
             /\ q \notin lost' =>
                  policy'[q].by = r /\ (policy'[q].named \/ proposal'[r].change.renames)
  <2>1. CASE proposal'[r] = proposal[r]
    <3>1. /\ q \in OnDisk(policy)
          /\ q \notin lost => policy[q].by = r /\ (policy[q].named \/ proposal[r].change.renames)
      BY <1>1, <2>1 DEF ApprovalsAreApplied
    <3>2. q \in OnDisk(policy')
      BY <3>1, PoliciesStay
    <3>3. q \notin lost' => /\ policy'[q].by = policy[q].by /\ policy'[q].named = policy[q].named
                            /\ q \notin lost
      BY <3>1, StaysOrLost DEF Inherited, KeepsRest
    <3> QED BY <2>1, <3>1, <3>2, <3>3
  <2>2. CASE proposal'[r].state = "pending"
    BY <1>1, <2>2
  <2>3. CASE Approve /\ r = cur
    <3>1. q = made /\ policy' = policy /\ pc = "approving" /\ proposal'[r].change = proposal[r].change
      BY <1>1, <2>3, ApproveEffect DEF SameRequest
    <3>2. q \in OnDisk(policy) /\ policy[q].by = r
      BY <2>3, <3>1 DEF UnderWay
    <3>3. policy[q].named \/ proposal[r].change.renames
      BY <3>2 DEF Titled
    <3> QED BY <3>1, <3>2, <3>3
  <2> QED BY <2>1, <2>2, <2>3, ProposalStep
<1>2. ASSUME r \notin died' \cup {cur'}, NEW p \in OnDisk(policy'), policy'[p].by = r
      PROVE  proposal'[r].state = "approved"
  <2>1. ~ByPeople(p)
    BY <1>2 DEF ByPeople
  <2>2. ~ByGrant(p)
    <3> SUFFICES ASSUME ByGrant(p) PROVE FALSE
      OBVIOUS
    <3>1. policy'[p].by = cur /\ (cur' = cur \/ cur \in died')
      BY DEF ByGrant, Applies, Follows, Granted
    <3> QED BY <1>2, <3>1
  <2>3. p \in OnDisk(policy) /\ policy[p].by = r
    BY <1>2, <2>1, <2>2, Origin DEF Inherited, KeepsRest
  <2>4. proposal[r] # None
    BY <2>3 DEF Sourced
  <2>5. CASE r = cur
    <3>1. ~Decline
      BY <2>3, <2>5 DEF Decline, UnderWay
    <3> QED BY <1>2, <2>5, <3>1, Ends
  <2>6. CASE r # cur
    <3>1. r \notin died
      BY <1>2, Ends
    <3>2. proposal[r].state = "approved"
      BY <2>3, <2>4, <2>6, <3>1 DEF ApprovalsAreApplied
    <3>3. proposal'[r] = proposal[r]
      BY <2>4, <2>6, ProposalStep
    <3> QED BY <3>2, <3>3
  <2> QED BY <2>5, <2>6
<1> QED BY <1>1, <1>2

CoversIn(pol, g, t, ch) == t \in g.subjects /\ PassesIn(pol, g, t, ch)

LEMMA PendingStaysExplained ==
  ASSUME TypeOK, KnownExist, UnderWay, SawAuths, PendingIsExplained, [Next]_vars
  PROVE  PendingIsExplained'
<1> SUFFICES ASSUME NEW r \in Proposals, r \notin died' \cup {cur'}, proposal'[r] # None,
                    proposal'[r].state = "pending", proposal'[r].found,
                    NEW t, t = proposal'[r].target, t \notin lost',
                    NEW u \in proposal'[r].on_file
             PROVE  ~CoversIn(policy', auth'[u], t, proposal'[r].change)
  BY DEF PendingIsExplained, Covers, CoversIn, ConditionsPass, PassesIn
<1>1. ~(Approve /\ r = cur)
  <2> SUFFICES ASSUME Approve, r = cur PROVE FALSE
    OBVIOUS
  <2> QED BY ApproveEffect
<1>2. proposal'[r] = proposal[r] /\ proposal[r] # None
  BY <1>1, ProposalStep
<1>3. PICK ch : ch = proposal[r].change
  OBVIOUS
<1>4. PICK g : g = auth[u]
  OBVIOUS
<1>5. u \in Auths /\ g # None /\ auth'[u] = g /\ t \in Bearing(policy)
  <2>1. proposal[r] \in Proposal
    BY <1>2, Existing
  <2>2. u \in Auths
    BY <1>2, <2>1 DEF Proposal
  <2>3. auth[u] # None /\ t \in Bearing(policy)
    BY <1>2, LostGrows DEF SawAuths, Bearing
  <2> QED BY <1>4, <2>2, <2>3, AuthsStay
<1>6. CoversIn(policy', g, t, ch) <=> CoversIn(policy, g, t, ch)
  <2>1. /\ t \in OnDisk(policy) /\ t \in OnDisk(policy') /\ policy'[t].says = policy[t].says
        /\ policy'[t].named = policy[t].named
    BY <1>5, PoliciesStay, StaysOrLost DEF Inherited, KeepsRest, Bearing
  <2> QED BY <2>1, ConditionsStay DEF CoversIn
<1>7. ~CoversIn(policy, g, t, ch)
  <2>1. CASE r = cur
    <3>1. Decline
      BY <1>2, <2>1, Ends
    <3>2. t \in known
      BY <1>5, <3>1 DEF Decline, UnderWay
    <3>3. Matching = {}
      BY <1>2, <2>1, <3>1, <3>2 DEF Decline
    <3>4. ~Covers(g, t, ch)
      BY <1>2, <1>3, <1>4, <1>5, <2>1, <3>3 DEF Matching
    <3> QED BY <3>4 DEF Covers, CoversIn, ConditionsPass, PassesIn
  <2>2. CASE r # cur
    <3>1. r \notin died /\ t \notin lost
      BY Ends, LostGrows
    <3>2. ~Covers(g, t, ch)
      BY <1>2, <1>3, <1>4, <2>2, <3>1 DEF PendingIsExplained
    <3> QED BY <3>2 DEF Covers, CoversIn, ConditionsPass, PassesIn
  <2> QED BY <2>1, <2>2
<1> QED BY <1>2, <1>3, <1>5, <1>6, <1>7

-----------------------------------------------------------------------------
(***************************************************************************)
(* PointersLead                                                            *)
(***************************************************************************)
Successors(pol, set, p) == { q \in OnDisk(pol) \ set : pol[q].supersedes = p }

Leads(pol, set, p) ==
  IF pol[p].status = "superseded"
    THEN \/ pol[p].superseded_by \in set
         \/ /\ pol[p].superseded_by \in Successors(pol, set, p)
            /\ \A q \in Successors(pol, set, p) : pol[q].authored_on <= pol[pol[p].superseded_by].authored_on
    ELSE \A q \in Successors(pol, set, p) : pol[p].status = "cancelled" /\ pol[q].by = "new"

LEMMA LeadsAsBefore ==
  ASSUME NEW p, NEW old, NEW new, Leads(policy, old, p), policy'[p].status = policy[p].status,
         policy'[p].superseded_by = policy[p].superseded_by,
         policy[p].superseded_by \in old => policy[p].superseded_by \in new,
         Successors(policy', new, p) \subseteq Successors(policy, old, p),
         policy[p].status = "superseded" /\ policy[p].superseded_by \in Successors(policy, old, p) =>
           policy[p].superseded_by \in Successors(policy', new, p),
         \A q \in Successors(policy', new, p) :
           policy'[q].authored_on = policy[q].authored_on /\ policy'[q].by = policy[q].by
  PROVE  Leads(policy', new, p)
<1> QED BY DEF Leads

LEMMA PointersStay ==
  ASSUME TypeOK, KnownExist, UnderWay, Sourced, Lineage, PointerNames, PointersLead, [Next]_vars
  PROVE  PointersLead'
<1> DEFINE set == SetByProposal
           new == SetByProposal'
<1>0. /\ PointersLead  <=> \A p \in OnDisk(policy) \ (torn \cup lost \cup set) : Leads(policy, set, p)
      /\ PointersLead' <=> \A p \in OnDisk(policy') \ (torn' \cup lost' \cup new) : Leads(policy', new, p)
  BY DEF PointersLead, Leads, Successors
<1>1. torn \subseteq torn' /\ lost \subseteq lost' /\ Lineage' /\ TypeOK'
  BY LostGrows, LineageStep, StepTyped
<1>2. /\ OnDisk(policy) \subseteq OnDisk(policy') /\ OnDisk(policy) \subseteq Ids /\ OnDisk(policy') \subseteq Ids
      /\ set \subseteq OnDisk(policy) /\ new \subseteq OnDisk(policy')
  BY PoliciesStay DEF OnDisk, SetByProposal
<1>3. \A x \in OnDisk(policy) : policy'[x].by = policy[x].by => (x \in new <=> x \in set)
  BY <1>2, SetStays
<1> HIDE DEF set, new
<1> SUFFICES ASSUME NEW p \in OnDisk(policy'), p \notin torn', p \notin lost', p \notin new
             PROVE  Leads(policy', new, p)
  BY <1>0
<1>4. p \in Ids
  BY <1>2
<1>5. p \in OnDisk(policy) /\ policy'[p].by = policy[p].by => Leads(policy, set, p) /\ p \notin set
  BY <1>0, <1>1, <1>3
\* Nothing that is not on disk has a successor.
<1>6. p \notin OnDisk(policy) => Successors(policy, set, p) = {}
  BY <1>4, Nothing DEF Successors, Lineage, set
\* A step that changes neither p nor the lineage of others.
<1>7. ASSUME p \in OnDisk(policy), policy'[p].status = policy[p].status, KeepsRest(p),
             policy'[p].superseded_by = policy[p].superseded_by,
             OnDisk(policy') = OnDisk(policy), \A x \in OnDisk(policy) : KeepsRest(x)
      PROVE  Leads(policy', new, p)
  <2>1. Leads(policy, set, p)
    BY <1>5, <1>7 DEF KeepsRest
  <2>2. \A x \in OnDisk(policy) : (x \in new <=> x \in set) /\ policy'[x].supersedes = policy[x].supersedes
    BY <1>3, <1>7 DEF KeepsRest
  <2>3. Successors(policy', new, p) = Successors(policy, set, p)
    BY <1>7, <2>2 DEF Successors
  <2>4. policy[p].superseded_by \in set => policy[p].superseded_by \in new
    BY <1>2, <2>2
  <2>5. \A q \in Successors(policy', new, p) :
           policy'[q].authored_on = policy[q].authored_on /\ policy'[q].by = policy[q].by
    BY <1>7 DEF Successors, KeepsRest
  <2> QED BY <1>7, <2>1, <2>3, <2>4, <2>5, LeadsAsBefore
<1>8. ASSUME Bystander PROVE Leads(policy', new, p)
  <2>1. policy' = policy
    BY <1>8 DEF Bystander
  <2> QED BY <1>7, <2>1 DEF KeepsRest
<1>9. ASSUME NEW t \in Ids, NEW q \in Ids, Tears(t, q) PROVE Leads(policy', new, p)
  <2>1. p # t /\ policy'[p] = policy[p] /\ p \in OnDisk(policy)
    BY <1>4, <1>9 DEF Tears
  <2>2. OnDisk(policy') = OnDisk(policy) /\ \A x \in OnDisk(policy) : KeepsRest(x)
    BY <1>9 DEF Tears, Retires, KeepsRest, OnDisk
  <2> QED BY <1>7, <2>1, <2>2
<1>10. ASSUME NEW t \in Ids, CancelPolicy(t) PROVE Leads(policy', new, p)
  <2>1. /\ OnDisk(policy') = OnDisk(policy) /\ p \in OnDisk(policy)
        /\ \A x \in OnDisk(policy) : KeepsRest(x)
    BY <1>10, CancelEffect DEF KeepsRest, OnDisk
  <2>2. CASE p = t
    <3>1. policy[p].status = "live" /\ policy'[p].status = "cancelled"
      BY <1>10, <2>2, CancelEffect
    <3>2. Successors(policy, set, p) = {}
      BY <1>5, <2>1, <3>1 DEF Leads, KeepsRest
    <3>3. Successors(policy', new, p) = {}
      BY <1>3, <2>1, <3>2 DEF Successors, KeepsRest
    <3> QED BY <3>1, <3>3 DEF Leads
  <2>3. CASE p # t
    <3>1. policy'[p] = policy[p]
      BY <1>4, <1>10, <2>3, CancelEffect
    <3> QED BY <1>7, <2>1, <3>1
  <2> QED BY <2>2, <2>3
<1>11. ASSUME NEW x \in Ids, NEW c \in Contents, NEW old \in Ids \cup {None}, AuthorPolicy(x, c, old)
       PROVE  Leads(policy', new, p)
  <2>1. /\ OnDisk(policy') = OnDisk(policy) \cup {x} /\ x \notin OnDisk(policy)
        /\ policy'[x].supersedes = old /\ policy'[x].status = "live" /\ policy'[x].by = "new"
        /\ old # None => old \in OnDisk(policy) /\ policy[old].status = "cancelled"
    BY <1>11, Authored DEF OnDisk
  <2>2. \A y \in OnDisk(policy) : y # x /\ policy'[y] = policy[y] /\ (y \in new <=> y \in set)
    BY <1>2, <1>3, <1>11, <2>1, Authored
  <2>3. Successors(policy', new, p) \subseteq Successors(policy, set, p) \cup { y \in {x} : old = p }
    BY <2>1, <2>2 DEF Successors
  <2>4. Successors(policy, set, p) \subseteq Successors(policy', new, p)
    BY <2>1, <2>2 DEF Successors
  <2>5. CASE p = x
    <3>1. Successors(policy', new, p) = {}
      BY <1>4, <1>6, <2>1, <2>3, <2>5, Nothing
    <3> QED BY <2>1, <2>5, <3>1 DEF Leads
  <2>6. CASE p # x /\ old # p
    <3>1. p \in OnDisk(policy) /\ policy'[p] = policy[p]
      BY <2>1, <2>2, <2>6
    <3>2. Successors(policy', new, p) = Successors(policy, set, p)
      BY <2>3, <2>4, <2>6
    <3>3. \A q \in Successors(policy', new, p) :
             policy'[q].authored_on = policy[q].authored_on /\ policy'[q].by = policy[q].by
      BY <2>2, <3>2 DEF Successors
    <3>4. policy[p].superseded_by \in set => policy[p].superseded_by \in new
      BY <1>2, <2>2
    <3> QED BY <1>5, <3>1, <3>2, <3>3, <3>4, LeadsAsBefore
  <2>7. CASE p # x /\ old = p
    <3>1. p \in OnDisk(policy) /\ policy'[p] = policy[p] /\ policy[p].status = "cancelled"
      BY <1>4, <2>1, <2>2, <2>7, Nothing
    <3>2. \A q \in Successors(policy, set, p) : policy[q].by = "new"
      BY <1>5, <3>1 DEF Leads
    <3>3. \A q \in Successors(policy', new, p) : policy'[q].by = "new"
      BY <2>1, <2>2, <2>3, <3>2 DEF Successors
    <3> QED BY <3>1, <3>3 DEF Leads
  <2> QED BY <2>5, <2>6, <2>7
<1>12. ASSUME NEW t \in Ids, NEW q \in Ids, NEW f, Follows(t, q, f),
              q \notin OnDisk(policy) \/ q \in lost',
              q \notin new => f.supersedes = t /\ f.authored_on = now' /\ f.status = "live"
       PROVE  Leads(policy', new, p)
  <2>1. /\ OnDisk(policy') = OnDisk(policy) \cup {q} /\ t \in OnDisk(policy) /\ q # t
        /\ policy'[q] = f
        /\ policy'[t].status = "superseded" /\ policy'[t].superseded_by = q
        /\ q = Append(t, Cardinality(Named(t)) + 1) /\ Cardinality(Named(t)) \in Nat
    BY <1>12 DEF Follows, Retires
  <2>2. \A x \in OnDisk(policy) : x # q => KeepsRest(x) /\ (x \in new <=> x \in set)
    BY <1>2, <1>3, <1>12 DEF Follows, Retires, KeepsRest
  <2>3. CASE p = t
    <3>1. q \notin new => q \in Successors(policy', new, p)
      BY <1>12, <2>1, <2>3 DEF Successors
    <3>2. \A x \in Successors(policy', new, p) : policy'[x].authored_on <= now'
      BY <1>1 DEF Successors, Lineage, new
    <3>3. q \notin new => policy'[q].authored_on = now'
      BY <1>12, <2>1
    <3> QED BY <2>1, <2>3, <3>1, <3>2, <3>3 DEF Leads
  <2>4. CASE p = q
    <3>1. q \notin OnDisk(policy) /\ q \notin new
      BY <1>12, <2>4
    <3>2. Successors(policy', new, p) = {}
      BY <1>6, <1>12, <2>1, <2>2, <2>4, <3>1 DEF Successors, KeepsRest
    <3> QED BY <1>12, <2>1, <2>4, <3>1, <3>2 DEF Leads
  <2>5. CASE p # t /\ p # q
    <3>1. policy'[p] = policy[p] /\ p \in OnDisk(policy)
      BY <1>4, <1>12, <2>1, <2>5 DEF Follows
    <3>2. p \notin set /\ Leads(policy, set, p)
      BY <1>5, <3>1
    <3>3. policy[p].status = "superseded" => policy[p].superseded_by # q
      <4> SUFFICES ASSUME policy[p].status = "superseded", policy[p].superseded_by = q PROVE FALSE
        OBVIOUS
      <4>1. PICK n \in Nat : q = Append(p, n)
        BY <3>1, <3>2 DEF PointerNames, set
      <4>2. PICK m \in Nat : q = Append(t, m)
        BY <2>1
      <4>3. p \in Seq(Nat) /\ t \in Seq(Nat)
        BY <1>4, Names
      <4>4. p = t
        BY <4>1, <4>2, <4>3, SameAppended
      <4> QED BY <2>5, <4>4
    <3>4. q \notin Successors(policy', new, p)
      BY <1>12, <2>1, <2>5 DEF Successors
    <3>5. /\ Successors(policy', new, p) \subseteq Successors(policy, set, p)
          /\ \A x \in Successors(policy, set, p) : x # q => x \in Successors(policy', new, p)
      BY <2>1, <2>2, <3>4 DEF Successors, KeepsRest
    <3>6. \A x \in Successors(policy', new, p) :
             policy'[x].authored_on = policy[x].authored_on /\ policy'[x].by = policy[x].by
      BY <2>1, <2>2, <3>4 DEF Successors, KeepsRest
    <3>7. CASE policy[p].status = "superseded"
      <4>1. policy[p].superseded_by \in set => policy[p].superseded_by \in new
        BY <1>2, <2>2, <3>3, <3>7
      <4> QED BY <3>1, <3>2, <3>3, <3>5, <3>6, <3>7, <4>1, LeadsAsBefore
    <3>8. CASE policy[p].status # "superseded"
      BY <3>1, <3>2, <3>5, <3>6, <3>8 DEF Leads
    <3> QED BY <3>7, <3>8
  <2> QED BY <2>3, <2>4, <2>5
<1>13. ASSUME NEW t \in Ids, SupersedeByHand(t) PROVE Leads(policy', new, p)
  <2>1. PICK q \in Ids : policy[q] = None /\ ((\E f : Follows(t, q, f) /\ Handed(f, t)) \/ Tears(t, q))
    BY <1>13, HandEffect
  <2>2. ASSUME NEW f, Follows(t, q, f), Handed(f, t) PROVE Leads(policy', new, p)
    BY <1>12, <2>1, <2>2 DEF OnDisk, Handed
  <2> QED BY <1>9, <2>1, <2>2
<1>14. ASSUME Granting PROVE Leads(policy', new, p)
  <2>1. PICK t \in Ids, q \in Ids : /\ cur \in Proposals /\ UNCHANGED proposal
                                    /\ Applies(t, q) \/ Tears(t, q)
    BY <1>14 DEF Granting
  <2>2. ASSUME NEW f, Follows(t, q, f), Granted(f, t, cur), q \notin new
        PROVE  f.supersedes = t /\ f.authored_on = now' /\ f.status = "live"
    <3>1. q \in OnDisk(policy') /\ policy'[q].by = cur
      BY <2>2 DEF Follows, Granted
    <3>2. ~SetsControl(proposal[cur].change)
      BY <2>1, <2>2, <3>1 DEF SetByProposal, SetsControl, new
    <3> QED BY <2>2, <3>2 DEF Granted
  <2>3. ASSUME Applies(t, q) PROVE Leads(policy', new, p)
    <3>1. PICK f : Follows(t, q, f) /\ Granted(f, t, cur)
      BY <2>3 DEF Applies
    <3>2. q \notin OnDisk(policy) \/ q \in lost'
      BY <2>3 DEF Applies
    <3> QED BY <1>12, <2>2, <3>1, <3>2
  <2> QED BY <1>9, <2>1, <2>3
<1> QED BY <1>8, <1>10, <1>11, <1>13, <1>14, Effects

-----------------------------------------------------------------------------
(***************************************************************************)
(* CorpusIsExplained                                                       *)
(***************************************************************************)
Tidy(pol, sub, cor, mov) ==
  \A s \in Subjects :
    /\ cor[s] = "none" <=> (sub[s] = None \/ ~sub[s].predicted)
    /\ cor[s] \in { "valueless", "actual" } => Filled(pol, sub[s])
    /\ cor[s] = "open" => ~Filled(pol, sub[s])
    /\ cor[s] = "valueless" => s \in mov

Followed(sub, pths, mov, beh) ==
  \A s \in Subjects : (sub[s] # None /\ pths[s] # sub[s].path) => beh /\ s \in mov

LEMMA IndexInvariants ==
  /\ PathsFollow  <=> Followed(subject, paths, moved, behind)
  /\ PathsFollow' <=> Followed(subject', paths', moved', behind')
  /\ TuplesTell   <=> (~behind => Tidy(policy, subject, corpus, moved))
  /\ TuplesTell'  <=> (~behind' => Tidy(policy', subject', corpus', moved'))
BY DEF PathsFollow, TuplesTell, Followed, Tidy, Filled

\* Paths change only for the subjects in those.
Moves(those) ==
  \A s \in Subjects \ those :
    subject'[s] # None => subject[s] # None /\ subject'[s].path = subject[s].path

LEMMA AfterWriteAll ==
  ASSUME TypeOK, PathsFollow, SubjectTypes', NEW those \in SUBSET Subjects, Moves(those), WriteAll(those)
  PROVE  PathsFollow' /\ TuplesTell'
<1>1. \A s \in Subjects : subject'[s] # None => paths'[s] = subject'[s].path
  BY DEF WriteAll, WriteIds, PathsOf
<1>2. PathsFollow'
  BY <1>1 DEF PathsFollow
<1>3. ASSUME NEW s \in Subjects
      PROVE  /\ corpus'[s] = "none" <=> (subject'[s] = None \/ ~subject'[s].predicted)
             /\ corpus'[s] \in { "valueless", "actual" } => Filled(policy', subject'[s])
             /\ corpus'[s] = "open" => ~Filled(policy', subject'[s])
             /\ corpus'[s] = "valueless" => s \in moved'
  <2>1. corpus'[s] = Tuple(policy', subject'[s], paths[s])
    BY DEF WriteAll
  <2>2. ASSUME corpus'[s] = "valueless" PROVE s \in moved'
    <3>1. subject'[s] # None /\ paths[s] # subject'[s].path
      BY <2>1, <2>2 DEF Tuple
    <3>2. CASE s \in those
      BY <3>2 DEF WriteAll
    <3>3. CASE s \notin those
      <4>1. subject[s] # None /\ paths[s] # subject[s].path
        BY <3>1, <3>3 DEF Moves
      <4> QED BY <4>1 DEF PathsFollow, WriteAll
    <3> QED BY <3>2, <3>3
  <2> QED BY <2>1, <2>2 DEF Tuple
<1> QED BY <1>2, <1>3, IndexInvariants DEF Tidy

LEMMA AfterWriteSome ==
  ASSUME TypeOK, PathsFollow, NEW those \in SUBSET Subjects, Moves(those), WriteSome(those)
  PROVE  PathsFollow' /\ TuplesTell'
<1>1. behind' /\ TuplesTell'
  BY DEF WriteSome, TuplesTell
<1>2. ASSUME NEW s \in Subjects, subject'[s] # None, paths'[s] # subject'[s].path
      PROVE  s \in moved'
  <2>1. WriteIds => paths'[s] = subject'[s].path
    BY <1>2 DEF WriteIds, PathsOf
  <2>2. paths'[s] = paths[s]
    BY <1>2, <2>1 DEF WriteSome
  <2>3. CASE s \in those
    BY <2>3 DEF WriteSome
  <2>4. CASE s \notin those
    <3>1. subject[s] # None /\ paths[s] # subject[s].path
      BY <1>2, <2>2, <2>4 DEF Moves
    <3> QED BY <3>1 DEF PathsFollow, WriteSome
  <2> QED BY <2>3, <2>4
<1> QED BY <1>1, <1>2 DEF PathsFollow

\* A step may leave the indexes alone if the policies in force are as they were.
LEMMA AfterNothing ==
  ASSUME TypeOK, PathsFollow, TuplesTell, UNCHANGED << indexes, subject >>,
         ~behind => \A s \in Subjects : subject[s] # None =>
                      (Filled(policy', subject[s]) <=> Filled(policy, subject[s]))
  PROVE  PathsFollow' /\ TuplesTell'
<1>1. PathsFollow'
  BY IndexInvariants DEF indexes
<1>2. ASSUME ~behind, NEW s \in Subjects, corpus[s] \in { "valueless", "actual", "open" }
      PROVE  subject[s] # None
  BY <1>2, IndexInvariants DEF Tidy
<1>3. ~behind => Tidy(policy', subject, corpus, moved)
  BY <1>2, IndexInvariants DEF Tidy
<1> QED BY <1>1, <1>3, IndexInvariants DEF indexes

LEMMA AfterTear ==
  ASSUME TypeOK, PathsFollow, NEW t, NEW q, Tear(t, q), UNCHANGED subject
  PROVE  PathsFollow' /\ TuplesTell'
<1>1. /\ behind' = TRUE /\ paths' = paths /\ subject' = subject
      /\ moved' = IF behind THEN moved ELSE {}
  BY DEF Tear
<1>2. TuplesTell'
  BY <1>1 DEF TuplesTell
<1>3. PathsFollow'
  BY <1>1 DEF PathsFollow
<1> QED BY <1>2, <1>3

LEMMA SameInForce ==
  ASSUME TypeOK, NEW d, OnDisk(policy') = OnDisk(policy),
         \A x \in OnDisk(policy) : /\ KeepsRest(x)
                                   /\ policy'[x].status = "superseded" <=> policy[x].status = "superseded"
  PROVE  InForce(policy', d) = InForce(policy, d)
<1> DEFINE Fit(pol) == { p \in OnDisk(pol) : pol[p].status # "superseded" /\ pol[p].says.domain \in { None, d } }
<1>1. Fit(policy') = Fit(policy)
  BY DEF KeepsRest
<1>2. ASSUME NEW p \in Fit(policy), NEW q \in Fit(policy)
      PROVE  Before(policy', p, q) <=> Before(policy, p, q)
  BY <1>2 DEF Before, KeepsRest
<1>3. InForce(policy', d) = Latest(policy', Fit(policy')) /\ InForce(policy, d) = Latest(policy, Fit(policy))
  BY DEF InForce
<1> HIDE DEF Fit
<1> QED BY <1>1, <1>2, <1>3 DEF Latest

LEMMA CancelKeepsFilled ==
  ASSUME TypeOK, KnownExist, NEW t \in Ids, CancelPolicy(t), NEW sub
  PROVE  Filled(policy', sub) <=> Filled(policy, sub)
<1>1. /\ OnDisk(policy') = OnDisk(policy)
      /\ \A x \in OnDisk(policy) : /\ KeepsRest(x)
                                   /\ policy'[x].status = "superseded" <=> policy[x].status = "superseded"
  BY CancelEffect DEF KeepsRest, OnDisk
<1>2. InForce(policy', sub.domain) = InForce(policy, sub.domain)
  BY <1>1, SameInForce
<1>3. InForce(policy, sub.domain) \subseteq OnDisk(policy)
  BY DEF InForce, Latest
<1> QED BY <1>1, <1>2, <1>3 DEF Filled, KeepsRest

LEMMA PutMoves ==
  ASSUME TypeOK, NEW s \in Subjects, NEW rec, NEW those \in SUBSET Subjects, Put(s, rec, those),
         s \in those \/ (subject[s] # None /\ rec.path = subject[s].path)
  PROVE  Moves(those)
<1>1. subject' = [ subject EXCEPT ![s] = rec ]
  BY DEF Put
<1> QED BY <1>1 DEF Moves, TypeOK

LEMMA AfterPut ==
  ASSUME TypeOK, PathsFollow, TypeOK', NEW s \in Subjects, NEW rec, NEW those \in SUBSET Subjects,
         Put(s, rec, those),
         s \in those \/ (subject[s] # None /\ rec.path = subject[s].path)
  PROVE  PathsFollow' /\ TuplesTell'
<1>1. Moves(those)
  BY PutMoves
<1>2. WriteAll(those) \/ WriteSome(those)
  BY DEF Put, Finish
<1>3. SubjectTypes'
  BY TypeParts
<1> QED BY <1>1, <1>2, <1>3, AfterWriteAll, AfterWriteSome

LEMMA IndexesStay ==
  ASSUME TypeOK, KnownExist, UnderWay, PathsFollow, TuplesTell, [Next]_vars
  PROVE  PathsFollow' /\ TuplesTell'
<1> DEFINE Goal == PathsFollow' /\ TuplesTell'
<1>1. TypeOK' /\ SubjectTypes' /\ {} \in SUBSET Subjects
  BY StepTyped, TypeParts
<1>2. ASSUME UNCHANGED subject, WriteAll({}) \/ WriteSome({}) PROVE Goal
  <2>1. Moves({})
    BY <1>2 DEF Moves
  <2> QED BY <1>1, <1>2, <2>1, AfterWriteAll, AfterWriteSome
<1>3. ASSUME UNCHANGED << subject, policy, indexes >> PROVE Goal
  BY <1>3, AfterNothing
<1>4. ASSUME NEW p \in Ids, NEW c \in Contents, NEW old \in Ids \cup {None}, AuthorPolicy(p, c, old) PROVE Goal
  <2>1. UNCHANGED subject /\ (WriteAll({}) \/ WriteSome({}))
    BY <1>4 DEF AuthorPolicy, Finish
  <2> QED BY <1>2, <2>1
<1>5. ASSUME NEW t \in Ids, SupersedeByHand(t) PROVE Goal
  <2>1. UNCHANGED subject /\ (WriteAll({}) \/ WriteSome({}) \/ Tear(t, NextId(t)))
    BY <1>5 DEF SupersedeByHand, Finish
  <2> QED BY <1>2, <2>1, AfterTear
<1>6. ASSUME NEW t \in Ids, CancelPolicy(t) PROVE Goal
  <2>1. UNCHANGED subject /\ (WriteAll({}) \/ WriteSome({}) \/ UNCHANGED indexes)
    BY <1>6 DEF CancelPolicy, Interrupt
  <2>2. \A s \in Subjects : Filled(policy', subject[s]) <=> Filled(policy, subject[s])
    BY <1>6, CancelKeepsFilled
  <2>3. UNCHANGED << indexes, subject >> => Goal
    BY <2>2, AfterNothing
  <2> QED BY <1>2, <2>1, <2>3
<1>7. ASSUME NEW u \in Auths, NEW g \in Grants, Authorize(u, g) PROVE Goal
  <2>1. UNCHANGED << subject, policy >> /\ (WriteAll({}) \/ WriteSome({}) \/ UNCHANGED indexes)
    BY <1>7 DEF Authorize, Interrupt
  <2> QED BY <1>2, <1>3, <2>1
<1>8. ASSUME NEW r \in Proposals, NEW t \in Ids, NEW ch \in Changes, Propose(r, t, ch) PROVE Goal
  <2>1. UNCHANGED << subject, policy >> /\ (WriteAll({}) \/ WriteSome({}) \/ UNCHANGED indexes)
    BY <1>8 DEF Propose, Interrupt
  <2> QED BY <1>2, <1>3, <2>1
<1>9. ASSUME Decline \/ Die PROVE Goal
  BY <1>3, <1>9 DEF Decline, Die, records
<1>10. ASSUME Approve PROVE Goal
  <2>1. UNCHANGED << subject, policy >> /\ (WriteAll({}) \/ WriteSome({}) \/ UNCHANGED indexes)
    BY <1>10 DEF Approve, Interrupt
  <2> QED BY <1>2, <1>3, <2>1
<1>11. ASSUME Apply PROVE Goal
  <2>1. PICK t, q : UNCHANGED subject /\ (WriteAll({}) \/ WriteSome({}) \/ Tear(t, q))
    BY <1>11 DEF Apply
  <2> QED BY <1>2, <2>1, AfterTear
<1>12. ASSUME Other PROVE Goal
  <2>1. CASE UNCHANGED vars
    BY <1>3, <2>1 DEF vars, records
  <2>2. CASE OtherWriteAll
    BY <1>2, <2>2 DEF OtherWriteAll, records
  <2>3. CASE SubjectStep
    <3>1. ASSUME NEW s \in Subjects, NEW d \in Domains \cup {None}, AuthorSubject(s, d) PROVE Goal
      BY <1>1, <3>1, AfterPut, {s} \in SUBSET Subjects, s \in {s} DEF AuthorSubject
    <3>2. ASSUME NEW s \in Subjects, NEW v \in Resolvers, PromoteTo(s, v) PROVE Goal
      BY <1>1, <3>2, AfterPut, {s} \in SUBSET Subjects, s \in {s} DEF PromoteTo
    <3>3. ASSUME NEW s \in Subjects, NEW v \in Resolvers, ResolveSubject(s, v) PROVE Goal
      <4>1. subject[s] # None /\ [ subject[s] EXCEPT !.resolver = v ].path = subject[s].path
        BY <3>3, Existing DEF ResolveSubject, Subject
      <4>2. Put(s, [ subject[s] EXCEPT !.resolver = v ], {})
        BY <3>3 DEF ResolveSubject
      <4> QED BY <1>1, <4>1, <4>2, AfterPut
    <3>4. ASSUME NEW s \in Subjects, Predict(s) PROVE Goal
      <4>1. subject[s] # None /\ [ subject[s] EXCEPT !.predicted = TRUE ].path = subject[s].path
        BY <3>4, Existing DEF Predict, Subject
      <4>2. Put(s, [ subject[s] EXCEPT !.predicted = TRUE ], {})
        BY <3>4 DEF Predict
      <4> QED BY <1>1, <4>1, <4>2, AfterPut
    <3>5. ASSUME NEW s \in Subjects, ExpandSubject(s) PROVE Goal
      BY <1>1, <3>5, AfterPut, {s} \in SUBSET Subjects, s \in {s} DEF ExpandSubject
    <3>6. ASSUME NEW s \in Subjects, CollapseSubject(s) PROVE Goal
      BY <1>1, <3>6, AfterPut, {s} \in SUBSET Subjects, s \in {s} DEF CollapseSubject
    <3> QED BY <2>3, <3>1, <3>2, <3>3, <3>4, <3>5, <3>6 DEF SubjectStep
  <2> QED BY <1>12, <2>1, <2>2, <2>3 DEF Other
<1> HIDE DEF Goal
<1>13. Goal
  BY <1>4, <1>5, <1>6, <1>7, <1>8, <1>9, <1>10, <1>11, <1>12, StepKinds
<1> QED BY <1>13 DEF Goal

LEMMA CorpusFollows ==
  ASSUME TypeOK, TuplesTell
  PROVE  CorpusIsExplained
<1> SUFFICES ASSUME ~behind, NEW s \in Subjects
             PROVE  LET resolved == \E p \in ActiveFor(s) : policy[p].says.truth = subject[s].resolver
                    IN  /\ (subject[s] # None /\ subject[s].predicted
                             /\ (subject[s].domain # None \/ Default = None)) =>
                               (corpus[s] \in { "valueless", "actual" } <=>
                                  (subject[s].resolver # None /\ resolved))
                        /\ corpus[s] = "valueless" => s \in moved
  BY DEF CorpusIsExplained
<1>1. /\ corpus[s] = "none" <=> (subject[s] = None \/ ~subject[s].predicted)
      /\ corpus[s] \in { "valueless", "actual" } => Filled(policy, subject[s])
      /\ corpus[s] = "open" => ~Filled(policy, subject[s])
      /\ corpus[s] = "valueless" => s \in moved
  BY IndexInvariants DEF Tidy
<1>2. corpus[s] \in { "none", "open", "valueless", "actual" }
  BY DEF TypeOK
<1>3. subject[s].domain # None \/ Default = None => ActiveFor(s) = InForce(policy, subject[s].domain)
  BY DEF ActiveFor
<1> QED BY <1>1, <1>2, <1>3 DEF Filled

-----------------------------------------------------------------------------
(***************************************************************************)
(* The theorems                                                            *)
(***************************************************************************)
LEMMA InitCInv ==
  ASSUME Init
  PROVE  CInv
<1>1. TypeOK
  <2>1. now \in Times
    BY TimeAssumption DEF Init, Times
  <2>2. /\ policy   \in [ Ids -> Policy \cup {None} ]
        /\ proposal \in [ Proposals -> Proposal \cup {None} ]
        /\ auth     \in [ Auths -> Grant \cup {None} ]
        /\ subject  \in [ Subjects -> Subject \cup {None} ]
    BY DEF Init
  <2>3. IndexTypes
    BY DEF Init, IndexTypes
  <2>4. /\ pc \in { "idle", "matching", "approving" }
        /\ cur \in Proposals \cup {None} /\ made \in Ids \cup {None}
        /\ died \subseteq Proposals /\ torn \subseteq Ids /\ lost \subseteq Ids
    BY DEF Init
  <2> QED BY <2>1, <2>2, <2>3, <2>4, TypeParts DEF PolicyTypes, SubjectTypes, RemainingTypes
<1>2. OnDisk(policy) = {}
  BY DEF Init, OnDisk
<1>3. KnownExist /\ UnderWay /\ SawAuths /\ NamesAreFresh
  BY DEF Init, KnownExist, UnderWay, SawAuths, NamesAreFresh
<1>4. Sourced /\ Lineage /\ PointerNames /\ Titled /\ Numbered /\ ChangesAreGranted /\ PointersLead
  BY <1>2 DEF Sourced, Lineage, PointerNames, Titled, Numbered, ChangesAreGranted, PointersLead
<1>5. ApprovalsAreApplied /\ PendingIsExplained
  BY DEF Init, ApprovalsAreApplied, PendingIsExplained
<1>6. PathsFollow /\ TuplesTell
  BY DEF Init, PathsFollow, TuplesTell
<1> QED BY <1>1, <1>3, <1>4, <1>5, <1>6 DEF CInv

LEMMA StepCInv ==
  ASSUME CInv, [Next]_vars
  PROVE  CInv'
<1> USE DEF CInv
<1>1. TypeOK' /\ KnownExist' /\ UnderWay' /\ Sourced' /\ Lineage' /\ Numbered' /\ SawAuths'
  BY StepTyped, KnownStays, UnderWayStep, SourcedStep, LineageStep, NumberedStep, SawAuthsStep
<1>2. PointerNames' /\ Titled'
  BY PointerNamesStep, TitledStep
<1>3. PathsFollow' /\ TuplesTell'
  BY IndexesStay
<1>4. ChangesAreGranted' /\ ApprovalsAreApplied' /\ PendingIsExplained'
  BY ChangesStayGranted, ApprovalsStayApplied, PendingStaysExplained
<1>5. PointersLead' /\ NamesAreFresh'
  BY PointersStay, NamesStayFresh
<1> QED BY <1>1, <1>3, <1>4, <1>5, <1>2

\* CInv is inductive: every step of people, calibrator or death keeps it.
THEOREM AlwaysCInv == Spec => []CInv
<1>1. Init => CInv
  BY InitCInv
<1>2. CInv /\ [Next]_vars => CInv'
  BY StepCInv
<1> QED BY <1>1, <1>2, PTL DEF Spec

\* Types hold: whoever dies between which steps, no history, index or pointer
\* takes a value that the code does not write.
THEOREM CalibratorTypes == Spec => []TypeOK
<1>1. CInv => TypeOK
  BY DEF CInv
<1> QED BY <1>1, AlwaysCInv, PTL

\* No change of a policy lacks an authorization for the very target of its
\* proposal, and none sets another predecessor unasked, whatever forks, crashes
\* and changes of the lineage's own fields come between (calibration.py:254-325,
\* ir_ops.py:556-611).
THEOREM ChangesAreAlwaysGranted == Spec => []ChangesAreGranted
<1>1. CInv => ChangesAreGranted
  BY DEF CInv
<1> QED BY <1>1, AlwaysCInv, PTL

\* An approval names the policy made from it, and none is missing
\* (ir_ops.py:518-554).
THEOREM ApprovalsAreAlwaysApplied == Spec => []ApprovalsAreApplied
<1>1. CInv => ApprovalsAreApplied
  BY DEF CInv
<1> QED BY <1>1, AlwaysCInv, PTL

\* What stays pending was granted by nothing that was on file (ir_ops.py:486-493).
THEOREM PendingIsAlwaysExplained == Spec => []PendingIsExplained
<1>1. CInv => PendingIsExplained
  BY DEF CInv
<1> QED BY <1>1, AlwaysCInv, PTL

\* The pointer of a superseded policy follows the newest branch, for any number of
\* forks, and only a cancelled policy that people replaced has a successor without
\* one, but for what a proposal or a crash has set (ir_ops.py:208-241, 569-643).
THEOREM PointersAlwaysLead == Spec => []PointersLead
<1>1. CInv => PointersLead
  BY DEF CInv
<1> QED BY <1>1, AlwaysCInv, PTL

\* Numbers of successors grow, so that only names of people are ever written over,
\* and what follows a record whose id a proposal changed (ir_ops.py:605-607,
\* 2071-2074).
THEOREM NamesAreAlwaysFresh == Spec => []NamesAreFresh
<1>1. CInv => NamesAreFresh
  BY DEF CInv
<1> QED BY <1>1, AlwaysCInv, PTL

\* After a complete rewrite of the indexes the corpus says what the policies in
\* force make of the records (_indexes.py:435-553).
THEOREM CorpusIsAlwaysExplained == Spec => []CorpusIsExplained
<1>1. CInv => CorpusIsExplained
  BY CorpusFollows DEF CInv
<1> QED BY <1>1, AlwaysCInv, PTL
=============================================================================
