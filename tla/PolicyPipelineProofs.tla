------------------------ MODULE PolicyPipelineProofs ------------------------
(***************************************************************************)
(* Theorems of PolicyPipeline, for any number of policies, roles, callers   *)
(* and calls: what the cache holds is what its consulted policies decide,   *)
(* when an answer from it may differ from a fresh one, and what no call is  *)
(* admitted past.                                                           *)
(*                                                                         *)
(* The evaluation loop is described by CHOOSE over the order of authoring,  *)
(* so everything rests on that order being total and finite among the      *)
(* policies authored so far.                                                *)
(***************************************************************************)
EXTENDS PolicyPipeline, FiniteSetTheorems, WellFoundedInduction, TLAPS

Authored == { p \in Policies : policy[p] # "absent" }

\* No two policies are authored at the same time.
Ordered ==
  /\ IsFiniteSet(Authored)
  /\ \A p \in Authored : authored_on[p] \in 1 .. Cardinality(Authored)
  /\ \A p, q \in Authored : p # q => authored_on[p] # authored_on[q]

\* An evaluation consulted policies that exist and apply to its call.
Faithful ==
  \A e \in evals : \A p \in e.consulted : p \in Authored /\ e.call \in content[p].applies

\* Only an authored policy depends on anything.
Blank == \A p \in Policies : policy[p] = "absent" => depends_on[p] = {}

PInv == TypeOK /\ Ordered /\ Blank /\ Faithful /\ CacheTransparent

-----------------------------------------------------------------------------
(* The oldest and the newest of some policies *)

LEMMA FirstTime ==
  ASSUME NEW T \in SUBSET Nat, T # {}
  PROVE  \E m \in T : \A n \in T : m <= n
  <1>1. PICK m \in T : \A n \in T : ~(<< n, m >> \in OpToRel(<, Nat))
    BY WFMin, NatLessThanWellFounded
  <1>2. ASSUME NEW n \in T PROVE m <= n
    <2>1. n < m => << n, m >> \in OpToRel(<, Nat)
      BY DEF OpToRel
    <2>2. ~(n < m)
      BY <1>1, <2>1, Zenon
    <2> QED BY <2>2
  <1> QED BY <1>2

LEMMA LastTime ==
  ASSUME NEW N \in Nat, NEW T \in SUBSET (0 .. N), T # {}
  PROVE  \E m \in T : \A n \in T : n <= m
  <1> DEFINE D == { N - t : t \in T }
  <1>1. D \in SUBSET Nat /\ D # {}
    OBVIOUS
  <1>2. PICK d \in D : \A e \in D : d <= e
    BY <1>1, FirstTime
  <1>3. PICK m \in T : d = N - m
    BY <1>2
  <1>4. ASSUME NEW n \in T PROVE n <= m
    <2>1. d <= N - n
      BY <1>2
    <2> QED BY <1>3, <2>1
  <1> QED BY <1>4

\* Policies differ in their times, so each set has one oldest and one newest.
LEMMA Extremes ==
  ASSUME TypeOK, Ordered, NEW P \in SUBSET Authored, P # {}
  PROVE  /\ \E p \in P : \A q \in P \ {p} : Before(p, q)
         /\ \E p \in P : \A q \in P \ {p} : Before(q, p)
  <1> DEFINE N == Cardinality(Authored)
             T == { authored_on[p] : p \in P }
  <1>1. N \in Nat
    BY FS_CardinalityType DEF Ordered
  <1>2. T \in SUBSET (0 .. N) /\ T # {}
    BY <1>1 DEF Ordered
  <1>3. T \in SUBSET Nat
    BY <1>1, <1>2
  <1>4. \A p, q \in P : p # q => authored_on[p] # authored_on[q]
    BY DEF Ordered
  <1> HIDE DEF N
  <1>5. \E p \in P : \A q \in P \ {p} : Before(p, q)
    <2>1. PICK m \in T : \A n \in T : m <= n
      BY <1>2, <1>3, FirstTime
    <2>2. PICK p \in P : m = authored_on[p]
      BY <2>1
    <2>3. ASSUME NEW q \in P \ {p} PROVE Before(p, q)
      <3>1. authored_on[q] \in T /\ authored_on[p] \in Nat /\ authored_on[q] \in Nat
        BY <1>3, <2>2
      <3> QED BY <1>4, <2>1, <2>2, <3>1 DEF Before
    <2> QED BY <2>3
  <1>6. \E p \in P : \A q \in P \ {p} : Before(q, p)
    <2>1. PICK m \in T : \A n \in T : n <= m
      BY <1>1, <1>2, LastTime
    <2>2. PICK p \in P : m = authored_on[p]
      BY <2>1
    <2>3. ASSUME NEW q \in P \ {p} PROVE Before(q, p)
      <3>1. authored_on[q] \in T /\ authored_on[p] \in Nat /\ authored_on[q] \in Nat
        BY <1>3, <2>2
      <3> QED BY <1>4, <2>1, <2>2, <3>1 DEF Before
    <2> QED BY <2>3
  <1> QED BY <1>5, <1>6

LEMMA OldestFound ==
  ASSUME TypeOK, Ordered, NEW P \in SUBSET Authored, P # {}
  PROVE  Oldest(P) \in P /\ \A q \in P \ {Oldest(P)} : Before(Oldest(P), q)
  BY Extremes DEF Oldest

LEMMA NewestFound ==
  ASSUME TypeOK, Ordered, NEW P \in SUBSET Authored, P # {}
  PROVE  Newest(P) \in P /\ \A q \in P \ {Newest(P)} : Before(q, Newest(P))
  BY Extremes DEF Newest

\* A choice that only one policy satisfies survives what leaves its order alone.
LEMMA SameOldest ==
  ASSUME NEW f, NEW g, NEW P, \A p \in P : f[p] = g[p] /\ f[p] \in Nat,
         \E p \in P : \A q \in P \ {p} : f[p] < f[q]
  PROVE  (CHOOSE p \in P : \A q \in P \ {p} : f[p] < f[q])
           = (CHOOSE p \in P : \A q \in P \ {p} : g[p] < g[q])
  <1> DEFINE a == CHOOSE p \in P : \A q \in P \ {p} : f[p] < f[q]
             b == CHOOSE p \in P : \A q \in P \ {p} : g[p] < g[q]
  <1>1. a \in P /\ \A q \in P \ {a} : f[a] < f[q]
    OBVIOUS
  <1>2. b \in P /\ \A q \in P \ {b} : g[b] < g[q]
    BY <1>1
  <1> HIDE DEF a, b
  <1>3. a = b
    <2> SUFFICES ASSUME a # b PROVE FALSE
      OBVIOUS
    <2>1. f[a] < f[b] /\ g[b] < g[a]
      BY <1>1, <1>2
    <2> QED BY <1>1, <1>2, <2>1
  <1> QED BY <1>3 DEF a, b

LEMMA SameNewest ==
  ASSUME NEW f, NEW g, NEW P, \A p \in P : f[p] = g[p] /\ f[p] \in Nat,
         \E p \in P : \A q \in P \ {p} : f[q] < f[p]
  PROVE  (CHOOSE p \in P : \A q \in P \ {p} : f[q] < f[p])
           = (CHOOSE p \in P : \A q \in P \ {p} : g[q] < g[p])
  <1> DEFINE a == CHOOSE p \in P : \A q \in P \ {p} : f[q] < f[p]
             b == CHOOSE p \in P : \A q \in P \ {p} : g[q] < g[p]
  <1>1. a \in P /\ \A q \in P \ {a} : f[q] < f[a]
    OBVIOUS
  <1>2. b \in P /\ \A q \in P \ {b} : g[q] < g[b]
    BY <1>1
  <1> HIDE DEF a, b
  <1>3. a = b
    <2> SUFFICES ASSUME a # b PROVE FALSE
      OBVIOUS
    <2>1. f[b] < f[a] /\ g[a] < g[b]
      BY <1>1, <1>2
    <2> QED BY <1>1, <1>2, <2>1
  <1> QED BY <1>3 DEF a, b

LEMMA OldestKept ==
  ASSUME TypeOK, Ordered, NEW Q \in SUBSET Authored, Q # {},
         \A p \in Q : authored_on'[p] = authored_on[p]
  PROVE  Oldest(Q)' = Oldest(Q) /\ Oldest(Q) \in Q
  <1>1. Oldest(Q) \in Q /\ \A q \in Q \ {Oldest(Q)} : Before(Oldest(Q), q)
    BY OldestFound
  <1>2. \E p \in Q : \A q \in Q \ {p} : authored_on[p] < authored_on[q]
    BY <1>1 DEF Before
  <1>3. \A p \in Q : authored_on[p] = authored_on'[p] /\ authored_on[p] \in Nat
    BY DEF TypeOK, Authored
  <1>4. (CHOOSE p \in Q : \A q \in Q \ {p} : authored_on[p] < authored_on[q])
          = (CHOOSE p \in Q : \A q \in Q \ {p} : authored_on'[p] < authored_on'[q])
    BY <1>2, <1>3, SameOldest
  <1> QED BY <1>1, <1>4 DEF Oldest, Before

LEMMA NewestKept ==
  ASSUME TypeOK, Ordered, NEW Q \in SUBSET Authored, Q # {},
         \A p \in Q : authored_on'[p] = authored_on[p]
  PROVE  Newest(Q)' = Newest(Q) /\ Newest(Q) \in Q
  <1>1. Newest(Q) \in Q /\ \A q \in Q \ {Newest(Q)} : Before(q, Newest(Q))
    BY NewestFound
  <1>2. \E p \in Q : \A q \in Q \ {p} : authored_on[q] < authored_on[p]
    BY <1>1 DEF Before
  <1>3. \A p \in Q : authored_on[p] = authored_on'[p] /\ authored_on[p] \in Nat
    BY DEF TypeOK, Authored
  <1>4. (CHOOSE p \in Q : \A q \in Q \ {p} : authored_on[q] < authored_on[p])
          = (CHOOSE p \in Q : \A q \in Q \ {p} : authored_on'[q] < authored_on'[p])
    BY <1>2, <1>3, SameNewest
  <1> QED BY <1>1, <1>4 DEF Newest, Before

-----------------------------------------------------------------------------
(* The evaluation loop *)

\* What the loop consults it was given, denial or not.
LEMMA ConsultedSubset ==
  ASSUME NEW P, NEW R
  PROVE  Consulted(P, R) \subseteq P
  BY DEF Consulted

\* To consult again what was consulted changes nothing: the first denial is still
\* the first, and nothing comes after it.
LEMMA ConsultedAgain ==
  ASSUME TypeOK, Ordered, NEW P \in SUBSET Authored, NEW R
  PROVE  Consulted(Consulted(P, R), R) = Consulted(P, R)
  <1> DEFINE D == Deciding(P, R, "deny")
             C == Consulted(P, R)
             E == Deciding(C, R, "deny")
  <1>1. CASE D = {}
    <2>1. C = P
      BY <1>1 DEF Consulted
    <2> QED BY <2>1
  <1>2. CASE D # {}
    <2>1. D \in SUBSET Authored
      BY DEF Deciding
    <2>2. Oldest(D) \in D /\ \A q \in D \ {Oldest(D)} : Before(Oldest(D), q)
      BY <1>2, <2>1, OldestFound
    <2>3. C = { p \in P : ~Before(Oldest(D), p) }
      BY <1>2 DEF Consulted
    <2>4. E = { Oldest(D) }
      <3>1. Oldest(D) \in Authored /\ ~Before(Oldest(D), Oldest(D))
        BY <2>1, <2>2 DEF Before, TypeOK, Authored
      <3>2. Oldest(D) \in E
        BY <2>2, <2>3, <3>1 DEF Deciding
      <3>3. E \subseteq D
        BY <2>3 DEF Deciding
      <3> QED BY <2>2, <2>3, <3>2, <3>3 DEF Deciding
    <2>5. Oldest(E) = Oldest(D)
      <3>1. E \in SUBSET Authored /\ E # {}
        BY <2>1, <2>2, <2>4
      <3> QED BY <2>4, <3>1, OldestFound
    <2>6. Consulted(C, R) = { p \in C : ~Before(Oldest(E), p) }
      BY <2>4 DEF Consulted
    <2> QED BY <2>3, <2>5, <2>6
  <1> QED BY <1>1, <1>2

\* So an evaluation can be checked against the policies that it consulted.
LEMMA VerdictAgain ==
  ASSUME TypeOK, Ordered, NEW P \in SUBSET Authored, NEW R
  PROVE  Verdict(Verdict(P, R).consulted, R) = Verdict(P, R)
  <1>1. Verdict(P, R).consulted = Consulted(P, R)
    BY DEF Verdict
  <1> QED BY <1>1, ConsultedAgain DEF Verdict

\* A verdict depends on what the policies say and on their order, and on nothing else.
LEMMA VerdictKept ==
  ASSUME TypeOK, Ordered, NEW P \in SUBSET Authored, NEW R,
         \A p \in P : content'[p] = content[p] /\ authored_on'[p] = authored_on[p]
  PROVE  Verdict(P, R)' = Verdict(P, R)
  <1>1. ASSUME NEW Q \in SUBSET P, NEW d
        PROVE  Deciding(Q, R, d)' = Deciding(Q, R, d)
    BY DEF Deciding
  <1>2. ASSUME NEW p \in P, NEW q \in P PROVE Before(p, q)' <=> Before(p, q)
    BY DEF Before
  <1>3. ASSUME NEW Q \in SUBSET P, Q # {} PROVE Oldest(Q)' = Oldest(Q) /\ Oldest(Q) \in Q
    BY <1>3, OldestKept
  <1>4. ASSUME NEW Q \in SUBSET P, Q # {} PROVE Newest(Q)' = Newest(Q) /\ Newest(Q) \in Q
    BY <1>4, NewestKept
  <1>5. Consulted(P, R)' = Consulted(P, R)
    <2> DEFINE D == Deciding(P, R, "deny")
    <2>1. D' = D /\ D \in SUBSET P
      BY <1>1 DEF Deciding
    <2>2. CASE D = {}
      BY <2>1, <2>2 DEF Consulted
    <2>3. CASE D # {}
      <3>1. Oldest(D)' = Oldest(D) /\ Oldest(D) \in P
        BY <1>3, <2>1, <2>3
      <3> QED BY <1>2, <2>1, <2>3, <3>1 DEF Consulted
    <2> QED BY <2>2, <2>3
  <1> DEFINE heard     == Consulted(P, R)
             denials   == Deciding(heard, R, "deny")
             deferrals == Deciding(heard, R, "defer")
             actions   == Deciding(heard, R, "transform") \cup Deciding(heard, R, "follow-up")
             decisive  == deferrals \cup actions
  <1>6. heard' = heard /\ heard \in SUBSET P
    BY <1>5, ConsultedSubset
  <1>7. /\ denials' = denials /\ deferrals' = deferrals /\ actions' = actions
        /\ deferrals \in SUBSET P /\ decisive \in SUBSET P
    BY <1>1, <1>6 DEF Deciding
  <1>8. deferrals # {} => content'[Newest(deferrals)'] = content[Newest(deferrals)]
    BY <1>4, <1>7
  <1>9. decisive # {} => content'[Oldest(decisive)'] = content[Oldest(decisive)]
    BY <1>3, <1>7
  <1> QED BY <1>6, <1>7, <1>8, <1>9 DEF Verdict

-----------------------------------------------------------------------------
(* What each action keeps *)

LEMMA SignatureIs ==
  ASSUME NEW c
  PROVE  Signature(c)[1] = c /\ Signature(c)[2] = RolesOf(Caller[c])
  BY DEF Signature

LEMMA VerdictTypes ==
  ASSUME TypeOK, Ordered, NEW P \in SUBSET Authored, NEW R
  PROVE  /\ Verdict(P, R).consulted \in SUBSET P
         /\ Verdict(P, R).decision \in Decisions
         /\ Verdict(P, R).defer_to \in Roles \cup {None}
         /\ Verdict(P, R).actions \in SUBSET Policies
  <1> DEFINE heard     == Consulted(P, R)
             denials   == Deciding(heard, R, "deny")
             deferrals == Deciding(heard, R, "defer")
             actions   == Deciding(heard, R, "transform") \cup Deciding(heard, R, "follow-up")
             decisive  == deferrals \cup actions
  <1>1. heard \in SUBSET P
    BY ConsultedSubset
  <1>2. deferrals \in SUBSET Authored /\ decisive \in SUBSET Authored /\ actions \in SUBSET Policies
    BY <1>1 DEF Deciding, Authored
  <1> HIDE DEF heard, denials, deferrals, actions, decisive
  <1>3. \A p \in Authored : content[p].decision \in Decisions /\ content[p].defer_to \in Roles \cup {None}
    BY DEF TypeOK, Content, Authored
  <1>4. decisive # {} => content[Oldest(decisive)].decision \in Decisions
    BY <1>2, <1>3, OldestFound
  <1>5. deferrals # {} => content[Newest(deferrals)].defer_to \in Roles \cup {None}
    BY <1>2, <1>3, NewestFound
  <1>6. Verdict(P, R) =
          [ consulted |-> heard,
            decision  |-> IF denials # {} THEN "deny"
                          ELSE IF decisive = {} THEN "allow"
                          ELSE content[Oldest(decisive)].decision,
            defer_to  |-> IF deferrals = {} THEN None
                          ELSE content[Newest(deferrals)].defer_to,
            actions   |-> actions ]
    BY DEF Verdict, heard, denials, deferrals, actions, decisive
  <1>7. (IF denials # {} THEN "deny"
         ELSE IF decisive = {} THEN "allow"
         ELSE content[Oldest(decisive)].decision) \in Decisions
    BY <1>4 DEF Decisions
  <1> QED BY <1>1, <1>2, <1>5, <1>6, <1>7

LEMMA FreshTypes ==
  ASSUME TypeOK, Ordered, NEW c \in Calls
  PROVE  /\ Fresh(c) \in Evaluation
         /\ Fresh(c).call = c /\ Fresh(c).roles = RolesOf(Caller[c])
         /\ Fresh(c).consulted \in SUBSET InForce(c)
         /\ InForce(c) \in SUBSET Authored
  <1> DEFINE P == InForce(c)
             R == RolesOf(Caller[c])
             v == Verdict(P, R)
  <1>1. P \in SUBSET Authored /\ Authored \in SUBSET Policies /\ R \in SUBSET Roles
    BY DEF InForce, Authored, RolesOf
  <1>2. /\ v.consulted \in SUBSET P /\ v.decision \in Decisions
        /\ v.defer_to \in Roles \cup {None} /\ v.actions \in SUBSET Policies
    BY <1>1, VerdictTypes
  <1>3. Fresh(c) = [ call |-> c, roles |-> R, window |-> window, consulted |-> v.consulted,
                     decision |-> v.decision, defer_to |-> v.defer_to,
                     actions |-> v.actions, expired |-> FALSE ]
    BY SignatureIs DEF Fresh
  <1>4. window \in Nat
    BY DEF TypeOK
  <1> HIDE DEF P, R, v
  <1>5. Fresh(c) \in Evaluation
    BY <1>1, <1>2, <1>3, <1>4 DEF Evaluation
  <1> QED BY <1>1, <1>2, <1>3, <1>5 DEF P, R

\* A new policy is authored after all others, so the order stays total.
LEMMA AuthoringKeepsOrder ==
  ASSUME TypeOK, Ordered, NEW n \in Policies, policy[n] = "absent",
         policy' \in [ Policies -> { "absent", "live", "stale", "superseded", "cancelled" } ],
         policy'[n] = "live",
         \A q \in Policies \ {n} : policy[q] = "absent" <=> policy'[q] = "absent",
         authored_on' = [ authored_on EXCEPT ![n] =
                            Cardinality({ q \in Policies : policy[q] # "absent" }) + 1 ]
  PROVE  Ordered' /\ authored_on' \in [ Policies -> Nat ]
  <1> DEFINE N == Cardinality(Authored)
  <1>1. n \notin Authored /\ Authored' = Authored \cup {n}
    BY DEF Authored
  <1>2. N \in Nat /\ IsFiniteSet(Authored') /\ Cardinality(Authored') = N + 1
    BY <1>1, FS_CardinalityType, FS_AddElement DEF Ordered
  <1>3. authored_on' = [ authored_on EXCEPT ![n] = N + 1 ]
    BY DEF Authored
  <1> HIDE DEF N
  <1>4. authored_on' \in [ Policies -> Nat ]
    BY <1>2, <1>3 DEF TypeOK
  <1>5. \A p \in Authored : authored_on'[p] = authored_on[p] /\ authored_on[p] \in 1 .. N
    BY <1>1, <1>3 DEF TypeOK, Ordered, Authored, N
  <1>6. authored_on'[n] = N + 1
    BY <1>3 DEF TypeOK
  <1>7. \A p \in Authored' : authored_on'[p] \in 1 .. (N + 1)
    <2>1. ASSUME NEW p \in Authored PROVE authored_on'[p] \in 1 .. (N + 1)
      <3>1. authored_on'[p] \in 1 .. N
        BY <1>5
      <3> QED BY <1>2, <3>1
    <2>2. authored_on'[n] \in 1 .. (N + 1)
      BY <1>2, <1>6
    <2> QED BY <1>1, <2>1, <2>2
  <1>8. \A p, q \in Authored' : p # q => authored_on'[p] # authored_on'[q]
    BY <1>1, <1>2, <1>5, <1>6 DEF Ordered
  <1> QED BY <1>2, <1>4, <1>7, <1>8 DEF Ordered

\* If policies change in status only, and none appears, the order stays.
LEMMA StatusKeepsOrder ==
  ASSUME Ordered, Authored' = Authored, authored_on' = authored_on
  PROVE  Ordered'
  BY DEF Ordered

\* What is in the cache stays faithful and transparent while the policies that it
\* heard keep what they say and their places.
LEMMA CacheKept ==
  ASSUME PInv, evals' = evals,
         \A p \in Authored : p \in Authored' /\ content'[p] = content[p] /\ authored_on'[p] = authored_on[p]
  PROVE  Faithful' /\ CacheTransparent'
  <1>1. ASSUME NEW e \in evals'
        PROVE  /\ \A p \in e.consulted : p \in Authored' /\ e.call \in content'[p].applies
               /\ Verdict(e.consulted, e.roles)' = Verdict(e.consulted, e.roles)
    <2>1. e \in evals /\ e.consulted \in SUBSET Authored
      BY <1>1 DEF PInv, Faithful
    <2>2. Verdict(e.consulted, e.roles)' = Verdict(e.consulted, e.roles)
      BY <2>1, VerdictKept DEF PInv
    <2> QED BY <2>1, <2>2 DEF PInv, Faithful
  <1>2. Faithful'
    BY <1>1 DEF Faithful
  <1>3. CacheTransparent'
    BY <1>1 DEF CacheTransparent, PInv
  <1> QED BY <1>2, <1>3

\* An authored policy keeps what it says; a fresh evaluation replaces at most one
\* of its own signature and window.
LEMMA EvaluatedPInv ==
  ASSUME PInv, NEW c \in Calls, NEW granter \in Callers \cup {None}, CallEvaluated(c, granter)
  PROVE  PInv'
  <1> DEFINE e == Fresh(c)
  <1> USE DEF PInv
  <1>1. /\ e \in Evaluation /\ e.call = c /\ e.roles = RolesOf(Caller[c])
        /\ e.consulted \in SUBSET InForce(c) /\ InForce(c) \in SUBSET Authored
    BY FreshTypes
  <1>2. evals' = Store(e) /\ UNCHANGED << records, walk, window >> /\ Return(c, granter, e, FALSE)
    BY DEF CallEvaluated
  <1>3. \A f \in evals' : f \in evals \/ f = e
    BY <1>2 DEF Store
  <1>4. TypeOK'
    <2>1. evals' \subseteq Evaluation
      BY <1>1, <1>3 DEF TypeOK
    <2>2. last' \in Outcome
      <3>1. /\ e.consulted \in SUBSET Policies /\ e.decision \in Decisions
            /\ Admits(e, granter) \in BOOLEAN
        BY <1>1 DEF Evaluation, Admits
      <3> QED BY <1>2, <3>1 DEF Return, Outcome
    <2> QED BY <1>2, <2>1, <2>2 DEF TypeOK, records
  <1>5. Ordered'
    BY <1>2, StatusKeepsOrder DEF records, Authored
  <1>6. ASSUME NEW f \in evals'
        PROVE  /\ \A p \in f.consulted : p \in Authored' /\ f.call \in content'[p].applies
               /\ LET v == Verdict(f.consulted, f.roles)
                  IN  /\ f.decision = v.decision /\ f.defer_to = v.defer_to
                      /\ f.actions = v.actions /\ f.consulted = v.consulted
               /\ Verdict(f.consulted, f.roles)' = Verdict(f.consulted, f.roles)
    <2>1. /\ \A p \in f.consulted : p \in Authored /\ f.call \in content[p].applies
          /\ LET v == Verdict(f.consulted, f.roles)
             IN  /\ f.decision = v.decision /\ f.defer_to = v.defer_to
                 /\ f.actions = v.actions /\ f.consulted = v.consulted
      <3>1. CASE f \in evals
        BY <3>1 DEF Faithful, CacheTransparent
      <3>2. CASE f = e
        <4> DEFINE v == Verdict(InForce(c), RolesOf(Caller[c]))
        <4>1. /\ e.consulted = v.consulted /\ e.decision = v.decision
              /\ e.defer_to = v.defer_to /\ e.actions = v.actions
          BY DEF Fresh
        <4>2. Verdict(e.consulted, e.roles) = v
          BY <1>1, <4>1, VerdictAgain
        <4>3. \A p \in e.consulted : p \in Authored /\ c \in content[p].applies
          BY <1>1 DEF InForce
        <4> HIDE DEF e, v
        <4> QED BY <1>1, <3>2, <4>1, <4>2, <4>3
      <3> QED BY <1>3, <3>1, <3>2
    <2>2. content' = content /\ authored_on' = authored_on /\ Authored' = Authored
      BY <1>2 DEF records, Authored
    <2>3. Verdict(f.consulted, f.roles)' = Verdict(f.consulted, f.roles)
      <3>1. f.consulted \in SUBSET Authored
        BY <2>1
      <3> QED BY <2>2, <3>1, VerdictKept
    <2> QED BY <2>1, <2>2, <2>3
  <1>7. Faithful'
    BY <1>6 DEF Faithful
  <1>8. CacheTransparent'
    BY <1>6 DEF CacheTransparent
  <1>9. Blank'
    BY <1>2 DEF records, Blank
  <1> QED BY <1>4, <1>5, <1>7, <1>8, <1>9

\* The other calls leave the disk as it is.
LEMMA OtherCallPInv ==
  ASSUME PInv, NEW c \in Calls, NEW granter \in Callers \cup {None},
         CallUngoverned(c, granter) \/ CallCached(c, granter)
  PROVE  PInv'
  <1> USE DEF PInv
  <1>1. UNCHANGED << records, evals, walk, window >>
    BY DEF CallUngoverned, CallCached
  <1>2. last' \in Outcome
    <2>1. CASE CallUngoverned(c, granter)
      BY <2>1 DEF CallUngoverned, Outcome, Decisions
    <2>2. CASE CallCached(c, granter)
      <3>1. PICK e \in evals : Return(c, granter, e, TRUE)
        BY <2>2 DEF CallCached, Cached, Indexed
      <3>2. /\ e.consulted \in SUBSET Policies /\ e.decision \in Decisions
            /\ Admits(e, granter) \in BOOLEAN
        BY DEF TypeOK, Evaluation, Admits
      <3> QED BY <3>1, <3>2 DEF Return, Outcome
    <2> QED BY <2>1, <2>2
  <1>3. TypeOK'
    BY <1>1, <1>2 DEF TypeOK, records
  <1>4. Ordered'
    BY <1>1, StatusKeepsOrder DEF records, Authored
  <1>5. Faithful' /\ CacheTransparent'
    BY <1>1, CacheKept DEF records, Authored
  <1>6. Blank'
    BY <1>1 DEF records, Blank
  <1> QED BY <1>3, <1>4, <1>5, <1>6

LEMMA AuthorPInv ==
  ASSUME PInv, NEW n \in Policies, NEW x \in Contents,
         NEW D \in SUBSET { q \in Policies : policy[q] # "absent" }, AuthorPolicy(n, x, D)
  PROVE  PInv'
  <1> USE DEF PInv
  <1>1. /\ policy' \in [ Policies -> { "absent", "live", "stale", "superseded", "cancelled" } ]
        /\ policy'[n] = "live"
        /\ \A q \in Policies \ {n} : policy'[q] = policy[q]
    BY DEF AuthorPolicy, TypeOK
  <1>2. Ordered' /\ authored_on' \in [ Policies -> Nat ]
    BY <1>1, AuthoringKeepsOrder DEF AuthorPolicy
  <1>3. TypeOK'
    BY <1>1, <1>2, ContentsAssumption DEF AuthorPolicy, TypeOK
  <1>4. \A p \in Authored : p \in Authored' /\ content'[p] = content[p] /\ authored_on'[p] = authored_on[p]
    BY <1>1 DEF Authored, AuthorPolicy, TypeOK
  <1>5. Faithful' /\ CacheTransparent'
    BY <1>4, CacheKept DEF AuthorPolicy
  <1>6. Blank'
    BY <1>1 DEF Blank, AuthorPolicy, TypeOK
  <1> QED BY <1>2, <1>3, <1>5, <1>6

\* The walk over the cache expires evaluations and changes nothing else in them.
LEMMA SupersedePInv ==
  ASSUME PInv, NEW p \in Policies, NEW n \in Policies, NEW crash \in BOOLEAN,
         SupersedePolicy(p, n, crash)
  PROVE  PInv'
  <1> USE DEF PInv
  <1>1. /\ policy' \in [ Policies -> { "absent", "live", "stale", "superseded", "cancelled" } ]
        /\ p # n /\ policy'[n] = "live" /\ policy[n] = "absent"
        /\ \A q \in Policies \ {n} : policy[q] = "absent" <=> policy'[q] = "absent"
    BY DEF SupersedePolicy, TypeOK
  <1>2. Ordered' /\ authored_on' \in [ Policies -> Nat ]
    BY <1>1, AuthoringKeepsOrder DEF SupersedePolicy
  <1>3. ASSUME NEW f \in evals'
        PROVE  \E e \in evals : f = e \/ f = [ e EXCEPT !.expired = TRUE ]
    BY <1>3 DEF SupersedePolicy, Invalidated
  <1>4. ASSUME NEW f \in evals'
        PROVE  /\ f \in Evaluation
               /\ \E e \in evals : /\ f.call = e.call /\ f.roles = e.roles
                                   /\ f.consulted = e.consulted /\ f.decision = e.decision
                                   /\ f.defer_to = e.defer_to /\ f.actions = e.actions
    <2>1. PICK e \in evals : f = e \/ f = [ e EXCEPT !.expired = TRUE ]
      BY <1>3
    <2>2. e \in Evaluation
      BY DEF TypeOK
    <2> QED BY <2>1, <2>2 DEF Evaluation
  <1>5. TypeOK'
    <2>1. evals' \subseteq Evaluation
      BY <1>4
    <2>2. /\ content' \in [ Policies -> Content ] /\ depends_on' \in [ Policies -> SUBSET Policies ]
          /\ last' = NoCall /\ UNCHANGED << role, holders, window >>
          /\ walk' \in [ Policies -> { "none", "done", "lost" } ]
      BY DEF SupersedePolicy, TypeOK
    <2> QED BY <1>1, <1>2, <2>1, <2>2 DEF TypeOK
  <1>6. \A q \in Authored : q \in Authored' /\ content'[q] = content[q] /\ authored_on'[q] = authored_on[q]
    BY <1>1 DEF Authored, SupersedePolicy, TypeOK
  <1>7. ASSUME NEW f \in evals'
        PROVE  /\ \A q \in f.consulted : q \in Authored' /\ f.call \in content'[q].applies
               /\ LET v == Verdict(f.consulted, f.roles)'
                  IN  /\ f.decision = v.decision /\ f.defer_to = v.defer_to
                      /\ f.actions = v.actions /\ f.consulted = v.consulted
    <2>1. PICK e \in evals : /\ f.call = e.call /\ f.roles = e.roles
                             /\ f.consulted = e.consulted /\ f.decision = e.decision
                             /\ f.defer_to = e.defer_to /\ f.actions = e.actions
      BY <1>4
    <2>2. e.consulted \in SUBSET Authored
      BY DEF Faithful
    <2>3. Verdict(e.consulted, e.roles)' = Verdict(e.consulted, e.roles)
      BY <1>6, <2>2, VerdictKept
    <2>4. LET v == Verdict(e.consulted, e.roles)
          IN  /\ e.decision = v.decision /\ e.defer_to = v.defer_to
              /\ e.actions = v.actions /\ e.consulted = v.consulted
      BY DEF CacheTransparent
    <2>5. \A q \in e.consulted : q \in Authored' /\ e.call \in content'[q].applies
      BY <1>6 DEF Faithful
    <2> QED BY <2>1, <2>3, <2>4, <2>5
  <1>8. Faithful'
    BY <1>7 DEF Faithful
  <1>9. CacheTransparent'
    BY <1>7 DEF CacheTransparent
  <1>10. Blank'
    BY <1>1 DEF Blank, SupersedePolicy, TypeOK
  <1> QED BY <1>2, <1>5, <1>8, <1>9, <1>10

\* Cancelling a policy, what happens to roles, and the clock leave the cache alone.
LEMMA OtherPInv ==
  ASSUME PInv,
         \/ \E p \in Policies, cascade \in BOOLEAN : CancelPolicy(p, cascade)
         \/ \E r \in Roles, H \in SUBSET Callers : AuthorRole(r, H)
         \/ \E r, n \in Roles : SupersedeRole(r, n)
         \/ \E r \in Roles : CancelRole(r)
         \/ Tick
         \/ UNCHANGED vars
  PROVE  PInv'
  <1> USE DEF PInv
  <1>1. /\ UNCHANGED << content, depends_on, authored_on, evals >>
        /\ policy' \in [ Policies -> { "absent", "live", "stale", "superseded", "cancelled" } ]
        /\ \A q \in Policies : policy[q] = "absent" <=> policy'[q] = "absent"
    <2>1. ASSUME NEW p \in Policies, NEW cascade \in BOOLEAN, CancelPolicy(p, cascade)
          PROVE  /\ policy' \in [ Policies -> { "absent", "live", "stale", "superseded", "cancelled" } ]
                 /\ \A q \in Policies : policy[q] = "absent" <=> policy'[q] = "absent"
      BY <2>1 DEF CancelPolicy, TypeOK, Blank
    <2>2. CASE \E p \in Policies, cascade \in BOOLEAN : CancelPolicy(p, cascade)
      BY <2>1, <2>2 DEF CancelPolicy
    <2>3. CASE \/ \E r \in Roles, H \in SUBSET Callers : AuthorRole(r, H)
               \/ \E r, n \in Roles : SupersedeRole(r, n)
               \/ \E r \in Roles : CancelRole(r)
               \/ Tick
               \/ UNCHANGED vars
      BY <2>3 DEF AuthorRole, SupersedeRole, CancelRole, Tick, vars, records, TypeOK
    <2> QED BY <2>2, <2>3
  <1>2. /\ role' \in [ Roles -> { "absent", "live", "superseded", "cancelled" } ]
        /\ holders' \in [ Roles -> SUBSET Callers ] /\ window' \in Nat /\ last' \in Outcome \cup {NoCall}
        /\ walk' = walk
    BY DEF CancelPolicy, AuthorRole, SupersedeRole, CancelRole, Tick, vars, records, TypeOK
  <1>3. TypeOK'
    BY <1>1, <1>2 DEF TypeOK
  <1>4. Authored' = Authored
    BY <1>1 DEF Authored
  <1>5. Ordered'
    BY <1>1, <1>4, StatusKeepsOrder
  <1>6. Faithful' /\ CacheTransparent'
    BY <1>1, <1>4, CacheKept
  <1>7. Blank'
    BY <1>1 DEF Blank
  <1> QED BY <1>3, <1>5, <1>6, <1>7

LEMMA InitPInv == Init => PInv
  <1> SUFFICES ASSUME Init PROVE PInv
    OBVIOUS
  <1>1. TypeOK
    <2>1. (CHOOSE x \in Contents : TRUE) \in Content
      BY ContentsAssumption
    <2> QED BY <2>1 DEF Init, TypeOK
  <1>2. Authored = {}
    BY DEF Init, Authored
  <1>3. Ordered
    BY <1>2, FS_EmptySet DEF Ordered
  <1> QED BY <1>1, <1>3 DEF Init, PInv, Blank, Faithful, CacheTransparent

LEMMA NextPInv == PInv /\ [Next]_vars => PInv'
  <1> SUFFICES ASSUME PInv, [Next]_vars PROVE PInv'
    OBVIOUS
  <1> QED BY EvaluatedPInv, OtherCallPInv, AuthorPInv, SupersedePInv, OtherPInv DEF Next

\* Every field keeps its type.
THEOREM PipelineTypes == Spec => []TypeOK
  <1> QED BY InitPInv, NextPInv, PTL DEF Spec, PInv

\* What the cache remembers is what its consulted policies decide.
THEOREM CacheStaysTransparent == Spec => []CacheTransparent
  <1> QED BY InitPInv, NextPInv, PTL DEF Spec, PInv

-----------------------------------------------------------------------------
(* What a call is told *)

\* Every other action forgets the last call.
Silent ==
  \/ \E p \in Policies, x \in Contents, D \in SUBSET { q \in Policies : policy[q] # "absent" } :
       AuthorPolicy(p, x, D)
  \/ \E p, n \in Policies, crash \in BOOLEAN : SupersedePolicy(p, n, crash)
  \/ \E p \in Policies, cascade \in BOOLEAN : CancelPolicy(p, cascade)
  \/ \E r \in Roles, H \in SUBSET Callers : AuthorRole(r, H)
  \/ \E r, n \in Roles : SupersedeRole(r, n)
  \/ \E r \in Roles : CancelRole(r)
  \/ Tick

LEMMA SilentForgets ==
  ASSUME Silent
  PROVE  last' = NoCall
  BY DEF Silent, AuthorPolicy, SupersedePolicy, CancelPolicy, AuthorRole, SupersedeRole,
     CancelRole, Tick

\* The evaluation that answers a call was made for that call and for the roles that
\* its caller has now, and says what its policies decide.
Answers(e, c, granter, cached) ==
  /\ Return(c, granter, e, cached)
  /\ e.consulted \in SUBSET Authored
  /\ \A p \in e.consulted : c \in content[p].applies
  /\ LET v == Verdict(e.consulted, RolesOf(Caller[c]))
     IN  e.decision = v.decision /\ e.defer_to = v.defer_to /\ e.consulted = v.consulted

LEMMA CachedAnswers ==
  ASSUME PInv, NEW c \in Calls, NEW granter \in Callers \cup {None}, CallCached(c, granter)
  PROVE  \E e : Answers(e, c, granter, TRUE) /\ Valid(e)
  <1>1. PICK e \in Cached(c) : Return(c, granter, e, TRUE)
    BY DEF CallCached
  <1>2. e \in evals /\ Valid(e) /\ << e.call, e.roles >> = Signature(c)
    BY DEF Cached, Indexed
  <1>3. e.call = c /\ e.roles = RolesOf(Caller[c])
    BY <1>2 DEF Signature
  <1>4. Answers(e, c, granter, TRUE)
    BY <1>1, <1>2, <1>3 DEF Answers, PInv, Faithful, CacheTransparent
  <1> QED BY <1>2, <1>4

LEMMA FreshAnswers ==
  ASSUME PInv, NEW c \in Calls, NEW granter \in Callers \cup {None}, CallEvaluated(c, granter)
  PROVE  Answers(Fresh(c), c, granter, FALSE)
  <1> DEFINE v == Verdict(InForce(c), RolesOf(Caller[c]))
  <1>1. /\ Fresh(c).consulted \in SUBSET InForce(c)
        /\ InForce(c) \in SUBSET Authored
    BY FreshTypes DEF PInv
  <1>2. /\ Fresh(c).consulted = v.consulted /\ Fresh(c).decision = v.decision
        /\ Fresh(c).defer_to = v.defer_to
    BY DEF Fresh
  <1>3. Verdict(Fresh(c).consulted, RolesOf(Caller[c])) = v
    BY <1>1, <1>2, VerdictAgain DEF PInv
  <1> HIDE DEF v
  <1>4. \A p \in Fresh(c).consulted : c \in content[p].applies
    BY <1>1 DEF InForce
  <1> QED BY <1>1, <1>2, <1>3, <1>4 DEF Answers, CallEvaluated

\* A verdict that is no denial heard none, and one that defers names the role of
\* the newest deferral.
LEMMA VerdictReads ==
  ASSUME TypeOK, Ordered, NEW P \in SUBSET Authored, NEW R, Verdict(P, R).consulted = P
  PROVE  LET deferrals == Deciding(P, R, "defer")
         IN  /\ Verdict(P, R).decision # "deny" => Deciding(P, R, "deny") = {}
             /\ Verdict(P, R).decision = "defer" =>
                  deferrals # {} /\ Verdict(P, R).defer_to = content[Newest(deferrals)].defer_to
  <1> DEFINE denials   == Deciding(P, R, "deny")
             deferrals == Deciding(P, R, "defer")
             actions   == Deciding(P, R, "transform") \cup Deciding(P, R, "follow-up")
             decisive  == deferrals \cup actions
  <1>1. Consulted(P, R) = P
    BY DEF Verdict
  <1>2. /\ Verdict(P, R).decision =
             (IF denials # {} THEN "deny" ELSE IF decisive = {} THEN "allow"
              ELSE content[Oldest(decisive)].decision)
        /\ Verdict(P, R).defer_to =
             (IF deferrals = {} THEN None ELSE content[Newest(deferrals)].defer_to)
    BY <1>1 DEF Verdict
  <1>3. decisive # {} => Oldest(decisive) \in decisive
    BY OldestFound DEF Deciding
  <1>4. Verdict(P, R).decision = "defer" => deferrals # {}
    BY <1>2, <1>3 DEF Deciding
  <1> QED BY <1>2, <1>4

\* What the last call heard is on disk, and where it deferred it heard a deferral.
LastIsAuthored ==
  last # NoCall =>
    /\ last.consulted \subseteq Authored
    /\ last.decision = "defer" =>
         Deciding(last.consulted, RolesOf(Caller[last.call]), "defer") # {}

LEMMA StepAdmission ==
  ASSUME PInv, AdmissionJustified, LastIsAuthored, [Next]_vars
  PROVE  AdmissionJustified' /\ LastIsAuthored'
  <1> DEFINE Goal == AdmissionJustified' /\ LastIsAuthored'
  <1>1. ASSUME NEW c \in Calls, NEW granter \in Callers \cup {None}, NEW e, NEW cached \in BOOLEAN,
               Answers(e, c, granter, cached), UNCHANGED records
        PROVE  Goal
    <2>1. PICK R : R = RolesOf(Caller[c])
      OBVIOUS
    <2>2. PICK D : D = Deciding(e.consulted, R, "defer")
      OBVIOUS
    <2>3. /\ e.consulted \in SUBSET Authored /\ Verdict(e.consulted, R).consulted = e.consulted
          /\ e.decision = Verdict(e.consulted, R).decision
          /\ e.defer_to = Verdict(e.consulted, R).defer_to
      BY <1>1, <2>1 DEF Answers
    <2>4. /\ e.decision # "deny" => Deciding(e.consulted, R, "deny") = {}
          /\ e.decision = "defer" => D # {} /\ e.defer_to = content[Newest(D)].defer_to
      BY <2>2, <2>3, VerdictReads DEF PInv
    <2>5. /\ last'.call = c /\ last'.granter = granter /\ last'.consulted = e.consulted
          /\ last'.decision = e.decision /\ last'.admitted = Admits(e, granter)
      BY <1>1 DEF Answers, Return
    <2>6. Admits(e, granter) =>
            /\ e.decision # "deny"
            /\ e.decision = "defer" => e.defer_to \in RolesOf(granter)
      BY DEF Admits, Satisfies
    <2>7. /\ RolesOf(Caller[c])' = R /\ RolesOf(granter)' = RolesOf(granter)
          /\ Deciding(e.consulted, R, "deny")' = Deciding(e.consulted, R, "deny")
          /\ Deciding(e.consulted, R, "defer")' = D
      BY <1>1, <2>1, <2>2 DEF RolesOf, Deciding, records
    <2>8. D # {} => content'[Newest(D)'] = content[Newest(D)]
      <3>1. D \in SUBSET Authored
        BY <2>2, <2>3 DEF Deciding
      <3>2. D # {} => Newest(D)' = Newest(D)
        BY <1>1, <3>1, NewestKept DEF PInv, records
      <3> QED BY <1>1, <3>2 DEF records
    <2>9. LastIsAuthored'
      BY <1>1, <2>3, <2>4, <2>5, <2>7 DEF LastIsAuthored, Authored, records
    <2> QED BY <2>4, <2>5, <2>6, <2>7, <2>8, <2>9 DEF AdmissionJustified
  <1>2. ASSUME NEW c \in Calls, NEW granter \in Callers \cup {None}, CallUngoverned(c, granter)
        PROVE  Goal
    <2>1. last'.consulted = {} /\ last'.decision = "allow"
      BY <1>2 DEF CallUngoverned
    <2> QED BY <2>1 DEF AdmissionJustified, LastIsAuthored, Deciding
  <1>3. ASSUME NEW c \in Calls, NEW granter \in Callers \cup {None}, CallCached(c, granter)
        PROVE  Goal
    BY <1>1, <1>3, CachedAnswers DEF CallCached
  <1>4. ASSUME NEW c \in Calls, NEW granter \in Callers \cup {None}, CallEvaluated(c, granter)
        PROVE  Goal
    BY <1>1, <1>4, FreshAnswers DEF CallEvaluated
  <1>5. CASE Silent
    BY <1>5, SilentForgets DEF AdmissionJustified, LastIsAuthored
  <1>6. CASE UNCHANGED vars
    <2> SUFFICES ASSUME last # NoCall, last.admitted PROVE Goal
      BY <1>6 DEF vars, AdmissionJustified, LastIsAuthored, records, Authored, RolesOf, Deciding
    <2>1. PICK R : R = RolesOf(Caller[last.call])
      OBVIOUS
    <2>2. PICK D : D = Deciding(last.consulted, R, "defer")
      OBVIOUS
    <2>3. /\ Deciding(last.consulted, R, "deny") = {}
          /\ last.decision = "defer" => \E r \in RolesOf(last.granter) : r = content[Newest(D)].defer_to
      BY <2>1, <2>2 DEF AdmissionJustified
    <2>4. /\ last' = last /\ content' = content
          /\ RolesOf(Caller[last.call])' = R /\ RolesOf(last.granter)' = RolesOf(last.granter)
          /\ Deciding(last.consulted, R, "deny")' = Deciding(last.consulted, R, "deny")
          /\ Deciding(last.consulted, R, "defer")' = D
      BY <1>6, <2>1, <2>2 DEF vars, records, RolesOf, Deciding
    <2>5. LastIsAuthored'
      BY <1>6 DEF LastIsAuthored, vars, records, Authored, RolesOf, Deciding
    <2>6. CASE D = {}
      <3>1. last.decision # "defer"
        BY <2>1, <2>2, <2>6 DEF LastIsAuthored
      <3> QED BY <2>3, <2>4, <2>6, <2>5, <3>1 DEF AdmissionJustified
    <2>7. CASE D # {}
      <3>1. D \in SUBSET Authored
        BY <2>2 DEF Deciding, LastIsAuthored
      <3>2. Newest(D)' = Newest(D)
        BY <1>6, <2>7, <3>1, NewestKept DEF PInv, vars, records
      <3> QED BY <2>3, <2>4, <2>5, <3>2 DEF AdmissionJustified
    <2> QED BY <2>6, <2>7
  <1> QED BY <1>2, <1>3, <1>4, <1>5, <1>6 DEF Next, Silent

\* With the records as they are, the policies in force decide as before.
LEMMA InForceKept ==
  ASSUME PInv, UNCHANGED records, NEW c
  PROVE  /\ InForce(c)' = InForce(c) /\ InForce(c) \in SUBSET Authored
         /\ RolesOf(Caller[c])' = RolesOf(Caller[c])
         /\ Verdict(InForce(c), RolesOf(Caller[c]))' = Verdict(InForce(c), RolesOf(Caller[c]))
  <1>1. PICK P : P = InForce(c)
    OBVIOUS
  <1>2. PICK R : R = RolesOf(Caller[c])
    OBVIOUS
  <1>3. InForce(c)' = P /\ RolesOf(Caller[c])' = R /\ P \in SUBSET Authored
    BY <1>1, <1>2 DEF InForce, RolesOf, records, Authored
  <1>4. Verdict(P, R)' = Verdict(P, R)
    BY <1>3, VerdictKept DEF PInv, records
  <1> QED BY <1>1, <1>2, <1>3, <1>4

LEMMA StepDivergence ==
  ASSUME PInv, DivergenceExplained, [Next]_vars
  PROVE  DivergenceExplained'
  <1>1. ASSUME NEW c \in Calls, NEW granter \in Callers \cup {None}, NEW e,
               Answers(e, c, granter, TRUE), Valid(e), UNCHANGED records
        PROVE  DivergenceExplained'
    <2> DEFINE P == InForce(c)
               R == RolesOf(Caller[c])
    <2>1. /\ last'.call = c /\ last'.cached = TRUE /\ last'.consulted = e.consulted
          /\ last'.decision = e.decision
      BY <1>1 DEF Answers, Return
    <2>2. P' = P /\ R' = R /\ Verdict(P, R)' = Verdict(P, R)
      BY <1>1, InForceKept
    <2>3. ASSUME P \subseteq e.consulted, \A p \in e.consulted : policy[p] # "stale"
          PROVE  e.decision = Verdict(P, R).decision
      <3>1. \A p \in e.consulted : p \in Policies /\ policy[p] = "live" /\ c \in content[p].applies
        BY <1>1, <2>3 DEF Answers, Valid, Authored, PInv, TypeOK
      <3>2. e.consulted = P
        BY <2>3, <3>1 DEF InForce
      <3> QED BY <1>1, <3>2 DEF Answers
    <2>4. policy' = policy
      BY <1>1 DEF records
    <2> HIDE DEF P, R
    <2>5. last'.decision # Verdict(P, R).decision =>
            ~(P \subseteq last'.consulted) \/ \E p \in last'.consulted : policy'[p] = "stale"
      BY <2>1, <2>3, <2>4
    <2> QED BY <2>1, <2>2, <2>5 DEF DivergenceExplained, P, R
  <1>2. ASSUME NEW c \in Calls, NEW granter \in Callers \cup {None}, CallUngoverned(c, granter)
        PROVE  DivergenceExplained'
    <2>1. InForce(c)' = {} /\ last'.call = c /\ last'.decision = "allow"
      BY <1>2 DEF CallUngoverned, InForce, records
    <2>2. \A R : Verdict({}, R)'.decision = "allow"
      BY DEF Verdict, Consulted, Deciding
    <2> QED BY <2>1, <2>2 DEF DivergenceExplained
  <1>3. ASSUME NEW c \in Calls, NEW granter \in Callers \cup {None}, CallCached(c, granter)
        PROVE  DivergenceExplained'
    BY <1>1, <1>3, CachedAnswers DEF CallCached
  <1>4. ASSUME NEW c \in Calls, NEW granter \in Callers \cup {None}, CallEvaluated(c, granter)
        PROVE  DivergenceExplained'
    <2>1. UNCHANGED records /\ last'.call = c /\ last'.decision = Fresh(c).decision
      BY <1>4 DEF CallEvaluated, Return
    <2>2. Fresh(c).decision = Verdict(InForce(c), RolesOf(Caller[c])).decision
      BY DEF Fresh
    <2>3. Verdict(InForce(c), RolesOf(Caller[c]))' = Verdict(InForce(c), RolesOf(Caller[c]))
      BY <2>1, InForceKept
    <2> QED BY <2>1, <2>2, <2>3 DEF DivergenceExplained
  <1>5. CASE Silent
    BY <1>5, SilentForgets DEF DivergenceExplained
  <1>6. CASE UNCHANGED vars
    <2>1. UNCHANGED records /\ last' = last /\ policy' = policy
      BY <1>6 DEF vars, records
    <2>2. PICK c : c = last.call
      OBVIOUS
    <2>3. /\ InForce(c)' = InForce(c)
          /\ Verdict(InForce(c), RolesOf(Caller[c]))' = Verdict(InForce(c), RolesOf(Caller[c]))
      BY <2>1, InForceKept
    <2> QED BY <2>1, <2>2, <2>3 DEF DivergenceExplained
  <1> QED BY <1>2, <1>3, <1>4, <1>5, <1>6 DEF Next, Silent

-----------------------------------------------------------------------------
\* No call is admitted past a denial that it heard, and a deferral is lifted only by
\* one who holds the role that the newest deferral names.
THEOREM AdmissionsAreJustified == Spec => []AdmissionJustified
  <1>1. Init => AdmissionJustified /\ LastIsAuthored
    BY DEF Init, AdmissionJustified, LastIsAuthored
  <1>2. PInv /\ AdmissionJustified /\ LastIsAuthored /\ [Next]_vars
          => AdmissionJustified' /\ LastIsAuthored'
    BY StepAdmission
  <1> QED BY <1>1, <1>2, InitPInv, NextPInv, PTL DEF Spec

\* A call is decided otherwise than the policies in force decide it only from the
\* cache, by an evaluation that missed one of them or heard a stale one.
THEOREM DivergencesAreExplained == Spec => []DivergenceExplained
  <1>1. Init => DivergenceExplained
    BY DEF Init, DivergenceExplained
  <1>2. PInv /\ DivergenceExplained /\ [Next]_vars => DivergenceExplained'
    BY StepDivergence
  <1> QED BY <1>1, <1>2, InitPInv, NextPInv, PTL DEF Spec

-----------------------------------------------------------------------------
(* Retired policies *)

\* A fresh evaluation consults policies in force only.
LEMMA FreshInForce ==
  ASSUME NEW c
  PROVE  /\ Fresh(c).consulted \subseteq InForce(c)
         /\ \A p \in Fresh(c).consulted : policy[p] = "live"
  <1>1. Fresh(c).consulted = Consulted(InForce(c), RolesOf(Caller[c]))
    BY DEF Fresh, Verdict
  <1> QED BY <1>1, ConsultedSubset DEF InForce

\* A superseded policy never comes back into force, and once the walk over the cache
\* has followed, nothing there that consulted it is unexpired.
Walked ==
  /\ \A p \in Policies : walk[p] # "none" => policy[p] \notin { "absent", "live" }
  /\ \A p \in Policies : walk[p] = "done" => \A e \in evals : p \in e.consulted => e.expired

LEMMA StepWalked ==
  ASSUME PInv, Walked, [Next]_vars
  PROVE  Walked'
  <1>1. ASSUME NEW c \in Calls, NEW granter \in Callers \cup {None}, CallEvaluated(c, granter)
        PROVE  Walked'
    <2>1. policy' = policy /\ walk' = walk /\ evals' = Store(Fresh(c))
      BY <1>1 DEF CallEvaluated, records
    <2>2. \A e \in evals' : e \in evals \/ e = Fresh(c)
      BY <2>1 DEF Store
    <2>3. \A p \in Policies : p \in Fresh(c).consulted => walk[p] = "none"
      BY FreshInForce DEF Walked
    <2>4. \A p \in Policies : walk'[p] # "none" => policy'[p] \notin { "absent", "live" }
      BY <2>1 DEF Walked
    <2>5. ASSUME NEW p \in Policies, walk'[p] = "done", NEW e \in evals', p \in e.consulted
          PROVE  e.expired
      BY <2>1, <2>2, <2>3, <2>5 DEF Walked
    <2> QED BY <2>4, <2>5 DEF Walked
  <1>2. ASSUME NEW p \in Policies, NEW n \in Policies, NEW crash \in BOOLEAN,
               SupersedePolicy(p, n, crash)
        PROVE  Walked'
    <2>1. policy[n] = "absent" /\ policy[p] # "absent" /\ walk[n] = "none" /\ p # n
      BY <1>2 DEF SupersedePolicy, Walked, PInv, TypeOK
    <2>2. /\ walk' = [ walk EXCEPT ![p] = IF crash /\ @ # "done" THEN "lost" ELSE "done" ]
          /\ policy' = [ policy EXCEPT ![p] = "superseded", ![n] = "live" ]
          /\ evals' = IF crash THEN evals ELSE Invalidated(p)
      BY <1>2 DEF SupersedePolicy
    <2>3. \A q \in Policies : walk'[q] # "none" => policy'[q] \notin { "absent", "live" }
      BY <2>1, <2>2 DEF Walked, PInv, TypeOK
    <2>4. ASSUME NEW q \in Policies, walk'[q] = "done", NEW f \in evals', q \in f.consulted
          PROVE  f.expired
      <3>1. CASE crash
        <4>1. walk[q] = "done" /\ f \in evals
          BY <2>2, <2>4, <3>1 DEF PInv, TypeOK
        <4> QED BY <2>4, <4>1 DEF Walked
      <3>2. CASE ~crash
        <4>1. PICK e \in evals : f = IF p \in e.consulted THEN [ e EXCEPT !.expired = TRUE ] ELSE e
          BY <2>2, <2>4, <3>2 DEF Invalidated
        <4>2. e \in Evaluation
          BY DEF PInv, TypeOK
        <4>3. CASE p \in e.consulted
          BY <4>1, <4>2, <4>3 DEF Evaluation
        <4>4. CASE p \notin e.consulted
          <5>1. f = e /\ q # p
            BY <2>4, <4>1, <4>4
          <5>2. walk[q] = "done"
            BY <2>2, <2>4, <5>1 DEF PInv, TypeOK
          <5> QED BY <2>4, <5>1, <5>2 DEF Walked
        <4> QED BY <4>3, <4>4
      <3> QED BY <3>1, <3>2
    <2> QED BY <2>3, <2>4 DEF Walked
  <1>3. ASSUME NEW p \in Policies, NEW x \in Contents,
               NEW D \in SUBSET { q \in Policies : policy[q] # "absent" }, AuthorPolicy(p, x, D)
        PROVE  Walked'
    BY <1>3 DEF AuthorPolicy, Walked, PInv, TypeOK
  <1>4. ASSUME NEW p \in Policies, NEW cascade \in BOOLEAN, CancelPolicy(p, cascade)
        PROVE  Walked'
    <2>1. evals' = evals /\ walk' = walk
      BY <1>4 DEF CancelPolicy
    <2>2. \A q \in Policies : policy[q] \notin { "absent", "live" } => policy'[q] \notin { "absent", "live" }
      BY <1>4 DEF CancelPolicy
    <2> QED BY <2>1, <2>2 DEF Walked
  <1>5. ASSUME \/ \E c \in Calls, granter \in Callers \cup {None} : CallUngoverned(c, granter)
               \/ \E c \in Calls, granter \in Callers \cup {None} : CallCached(c, granter)
               \/ \E r \in Roles, H \in SUBSET Callers : AuthorRole(r, H)
               \/ \E r, n \in Roles : SupersedeRole(r, n)
               \/ \E r \in Roles : CancelRole(r)
               \/ Tick
               \/ UNCHANGED vars
        PROVE  Walked'
    <2>1. policy' = policy /\ evals' = evals /\ walk' = walk
      BY <1>5 DEF CallUngoverned, CallCached, AuthorRole, SupersedeRole, CancelRole, Tick, vars, records
    <2> QED BY <2>1 DEF Walked
  <1> QED BY <1>1, <1>2, <1>3, <1>4, <1>5 DEF Next

LEMMA StepRetired ==
  ASSUME PInv, Walked, RetiredNeedsTwoFailures, [Next]_vars
  PROVE  RetiredNeedsTwoFailures'
  <1>1. ASSUME NEW c \in Calls, NEW granter \in Callers \cup {None}, CallUngoverned(c, granter)
        PROVE  RetiredNeedsTwoFailures'
    BY <1>1 DEF CallUngoverned, RetiredNeedsTwoFailures
  <1>2. ASSUME NEW c \in Calls, NEW granter \in Callers \cup {None}, CallCached(c, granter)
        PROVE  RetiredNeedsTwoFailures'
    <2>1. PICK e \in Cached(c) : Return(c, granter, e, TRUE)
      BY <1>2 DEF CallCached
    <2>2. /\ last'.consulted = e.consulted /\ last'.cached = TRUE
          /\ policy' = policy /\ walk' = walk
      BY <1>2, <2>1 DEF CallCached, Return, records
    <2>3. /\ e \in evals /\ ~e.expired
          /\ \A p \in e.consulted : policy[p] \notin { "superseded", "cancelled" }
      BY <2>1 DEF Cached, Indexed, Valid
    <2>4. ASSUME NEW p \in e.consulted, walk[p] # "none"
          PROVE  walk[p] = "lost" /\ policy[p] = "stale"
      <3>1. p \in Policies
        BY <2>3 DEF PInv, TypeOK, Evaluation
      <3>2. walk[p] # "done"
        BY <2>3, <3>1 DEF Walked
      <3>3. policy[p] \notin { "absent", "live" }
        BY <2>4, <3>1 DEF Walked
      <3> QED BY <2>3, <2>4, <3>1, <3>2, <3>3 DEF PInv, TypeOK
    <2> QED BY <2>2, <2>3, <2>4 DEF RetiredNeedsTwoFailures
  <1>3. ASSUME NEW c \in Calls, NEW granter \in Callers \cup {None}, CallEvaluated(c, granter)
        PROVE  RetiredNeedsTwoFailures'
    <2>1. last'.consulted = Fresh(c).consulted /\ policy' = policy /\ walk' = walk
      BY <1>3 DEF CallEvaluated, Return, records
    <2>2. \A p \in Fresh(c).consulted : p \in Policies /\ policy[p] = "live"
      BY FreshInForce DEF InForce
    <2>3. \A p \in Fresh(c).consulted : walk[p] = "none" /\ policy[p] # "cancelled"
      BY <2>2 DEF Walked
    <2> QED BY <2>1, <2>3 DEF RetiredNeedsTwoFailures
  <1>4. CASE Silent
    BY <1>4, SilentForgets DEF RetiredNeedsTwoFailures
  <1>5. CASE UNCHANGED vars
    BY <1>5 DEF vars, records, RetiredNeedsTwoFailures
  <1> QED BY <1>1, <1>2, <1>3, <1>4, <1>5 DEF Next, Silent

\* A cancelled or superseded policy decides a call only if a crash lost the walk over
\* the cache and a cascade has made it stale, for any number of policies.
THEOREM RetiredPoliciesNeedTwoFailures == Spec => []RetiredNeedsTwoFailures
  <1>1. Init => Walked /\ RetiredNeedsTwoFailures
    BY DEF Init, Walked, RetiredNeedsTwoFailures
  <1>2. PInv /\ Walked /\ RetiredNeedsTwoFailures /\ [Next]_vars
          => Walked' /\ RetiredNeedsTwoFailures'
    BY StepWalked, StepRetired
  <1> QED BY <1>1, <1>2, InitPInv, NextPInv, PTL DEF Spec
=============================================================================
