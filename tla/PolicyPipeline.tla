--------------------------- MODULE PolicyPipeline ---------------------------
(***************************************************************************)
(* The policy phase of the write pipeline (src/src/eightos/op_pipeline.py): *)
(* policies in force are consulted in author order, the combined verdict is *)
(* cached per call signature, a deferral is lifted by an authorization, and *)
(* superseding a policy expires the evaluations that consulted it.          *)
(*                                                                         *)
(* A call is one input of one operation by one caller; kernel.outside.http  *)
(* may be repeated verbatim, which is what makes the cache matter.  What a  *)
(* policy restricts by operation, scope and classification is the set of    *)
(* calls it applies to; its condition is the set of role memberships under  *)
(* which it matches (the leaves other than role are fixed by the call).     *)
(* Policies here gate other operations than kernel.ir.cancel, so retiring a *)
(* policy consults none; authoring policies and roles skips the phase.      *)
(* All of them live in one scope, and whoever retires one has the authority *)
(* for it.  One process calls at a time.                                    *)
(***************************************************************************)
EXTENDS Naturals, FiniteSets

CONSTANTS
  Policies,    \* ids of policies, successors included
  Roles,       \* ids of roles, successors included
  Callers,     \* caller_id values
  Calls,       \* op inputs
  Caller,      \* Caller[c]: the caller of call c
  Contents,    \* what authored policies say: a subset of Content
  MaxWindow,   \* bound: ten-second windows of the clock
  None

Decisions == { "allow", "deny", "transform", "defer", "follow-up" }

\* The projection fields of a policy that no operation rewrites.
Content == [ decision  : Decisions,
             applies   : SUBSET Calls,
             condition : SUBSET SUBSET Roles,
             defer_to  : Roles \cup {None} ]

ASSUME CallerAssumption   == Caller \in [ Calls -> Callers ]
ASSUME ContentsAssumption == Contents \subseteq Content /\ Contents # {}
ASSUME NullAssumption     == None \notin Roles \cup Callers \cup Calls
ASSUME WindowAssumption   == MaxWindow \in Nat

VARIABLES
  policy,      \* status of every policy; "live" stands for open and resolved
  content,     \* what it says
  depends_on,  \* the policies it depends on
  authored_on, \* when it was authored, as a count of policies
  role,        \* status of every role
  holders,     \* its holders
  evals,       \* the policy-evaluation records on disk
  walk,        \* history: of every policy once superseded, whether a walk over the
               \* cache followed or was lost
  window,      \* clock, as far as the ids of evaluations resolve it
  last         \* what the call that just returned did, or NoCall

records == << policy, content, depends_on, authored_on, role, holders >>
vars == << records, evals, walk, window, last >>

Evaluation ==
  [ call : Calls, roles : SUBSET Roles, window : Nat, consulted : SUBSET Policies,
    decision : Decisions, defer_to : Roles \cup {None}, actions : SUBSET Policies,
    expired : BOOLEAN ]

Outcome ==
  [ call : Calls, granter : Callers \cup {None}, cached : BOOLEAN,
    consulted : SUBSET Policies, decision : Decisions, admitted : BOOLEAN ]

NoCall == None

TypeOK ==
  /\ policy      \in [ Policies -> { "absent", "live", "stale", "superseded", "cancelled" } ]
  /\ content     \in [ Policies -> Content ]
  /\ depends_on  \in [ Policies -> SUBSET Policies ]
  /\ authored_on \in [ Policies -> Nat ]
  /\ role        \in [ Roles -> { "absent", "live", "superseded", "cancelled" } ]
  /\ holders     \in [ Roles -> SUBSET Callers ]
  /\ evals       \subseteq Evaluation
  /\ walk        \in [ Policies -> { "none", "done", "lost" } ]
  /\ window      \in Nat
  /\ last        \in Outcome \cup {NoCall}

Init ==
  /\ policy      = [ p \in Policies |-> "absent" ]
  /\ content     = [ p \in Policies |-> CHOOSE x \in Contents : TRUE ]
  /\ depends_on  = [ p \in Policies |-> {} ]
  /\ authored_on = [ p \in Policies |-> 0 ]
  /\ role        = [ r \in Roles |-> "absent" ]
  /\ holders     = [ r \in Roles |-> {} ]
  /\ evals       = {}
  /\ walk        = [ p \in Policies |-> "none" ]
  /\ window      = 0
  /\ last        = NoCall

-----------------------------------------------------------------------------
\* Governance readers

\* read_roles_for_caller: the roles, open or resolved, that list the caller.
RolesOf(caller) == { r \in Roles : role[r] = "live" /\ caller \in holders[r] }

\* read_policies_for_op: the policies, open or resolved, that apply to c.
InForce(c) == { p \in Policies : policy[p] = "live" /\ c \in content[p].applies }

Before(p, q) == authored_on[p] < authored_on[q]
Oldest(P) == CHOOSE p \in P : \A q \in P \ {p} : Before(p, q)
Newest(P) == CHOOSE p \in P : \A q \in P \ {p} : Before(q, p)

\* The policies of P that decide d under the role memberships R.
Deciding(P, R, d) == { p \in P : R \in content[p].condition /\ content[p].decision = d }

\* The evaluation loop over P in author order: it stops at the first denial,
\* otherwise the oldest matching policy that is not an allow names the
\* decision, the newest matching deferral the role, and transforms and
\* follow-ups accumulate.
Consulted(P, R) ==
  LET denials == Deciding(P, R, "deny")
  IN  IF denials = {} THEN P ELSE { p \in P : ~Before(Oldest(denials), p) }

Verdict(P, R) ==
  LET heard     == Consulted(P, R)
      denials   == Deciding(heard, R, "deny")
      deferrals == Deciding(heard, R, "defer")
      actions   == Deciding(heard, R, "transform") \cup Deciding(heard, R, "follow-up")
      decisive  == deferrals \cup actions
  IN  [ consulted |-> heard,
        decision  |-> IF denials # {} THEN "deny"
                      ELSE IF decisive = {} THEN "allow"
                      ELSE content[Oldest(decisive)].decision,
        defer_to  |-> IF deferrals = {} THEN None
                      ELSE content[Newest(deferrals)].defer_to,
        actions   |-> actions ]

-----------------------------------------------------------------------------
\* The evaluation cache

\* compute_op_signature: the op input and the caller context, roles included.
InputOnly(c) == << c, {} >>                        \* mutant of Signature

Signature(c) == << c, RolesOf(Caller[c]) >>

\* The policy-evaluations index keeps the last record of a signature.
Indexed(c) ==
  { e \in evals : /\ << e.call, e.roles >> = Signature(c)
                  /\ \A f \in evals : << f.call, f.roles >> = Signature(c) => f.window <= e.window }

\* read_cached_evaluation: not expired, and nothing it consulted superseded or
\* cancelled since.
TrustExpiry(e) == ~e.expired                       \* mutant of Valid

Valid(e) == ~e.expired /\ \A p \in e.consulted : policy[p] \notin { "superseded", "cancelled" }

Cached(c) == { e \in Indexed(c) : Valid(e) }

\* _author_policy_evaluation: the id is the signature and the clock to ten
\* seconds, so a record of the same window is replaced.
Store(e) ==
  { f \in evals : << f.call, f.roles, f.window >> # << e.call, e.roles, e.window >> } \cup {e}

Fresh(c) ==
  LET v == Verdict(InForce(c), RolesOf(Caller[c]))
  IN  [ call |-> Signature(c)[1], roles |-> Signature(c)[2], window |-> window,
        consulted |-> v.consulted, decision |-> v.decision, defer_to |-> v.defer_to,
        actions |-> v.actions, expired |-> FALSE ]

\* _authorization_satisfies: the author of the authorization holds the role.
OnceHolder(granter, r) == r # None /\ granter \in holders[r]    \* mutant of Satisfies

Satisfies(granter, r) == granter # None /\ r \in RolesOf(granter)

\* _materialize_decision
Admits(e, granter) ==
  \/ e.decision \in { "allow", "transform", "follow-up" }
  \/ e.decision = "defer" /\ Satisfies(granter, e.defer_to)

-----------------------------------------------------------------------------
\* evaluate_op_pre_commit for call c, presented with an authorization authored
\* by granter, or with none.
Return(c, granter, e, cached) ==
  last' = [ call |-> c, granter |-> granter, cached |-> cached, consulted |-> e.consulted,
            decision |-> e.decision, admitted |-> Admits(e, granter) ]

CallUngoverned(c, granter) ==
  /\ InForce(c) = {}
  /\ last' = [ call |-> c, granter |-> granter, cached |-> FALSE, consulted |-> {},
               decision |-> "allow", admitted |-> TRUE ]
  /\ UNCHANGED << records, evals, walk, window >>

CallCached(c, granter) ==
  /\ InForce(c) # {}
  /\ \E e \in Cached(c) : Return(c, granter, e, TRUE)
  /\ UNCHANGED << records, evals, walk, window >>

CallEvaluated(c, granter) ==
  /\ InForce(c) # {}
  /\ Cached(c) = {}
  /\ evals' = Store(Fresh(c))
  /\ Return(c, granter, Fresh(c), FALSE)
  /\ UNCHANGED << records, walk, window >>

-----------------------------------------------------------------------------
\* kernel.ir.new of a policy.
AuthorPolicy(p, x, D) ==
  /\ policy[p] = "absent"
  /\ policy' = [ policy EXCEPT ![p] = "live" ]
  /\ content' = [ content EXCEPT ![p] = x ]
  /\ depends_on' = [ depends_on EXCEPT ![p] = D ]
  /\ authored_on' = [ authored_on EXCEPT ![p] = Cardinality({ q \in Policies : policy[q] # "absent" }) + 1 ]
  /\ last' = NoCall
  /\ UNCHANGED << role, holders, evals, walk, window >>

\* invalidate_cache_for_policy: every evaluation on disk that consulted p.
Unwalked(p) == evals                               \* mutant of Invalidated

Invalidated(p) ==
  { IF p \in e.consulted THEN [ e EXCEPT !.expired = TRUE ] ELSE e : e \in evals }

\* kernel.ir.supersede of a policy: the successor n says the same, and the walk
\* over the cache follows the commit, so a crash may lose it.
SupersedePolicy(p, n, crash) ==
  /\ policy[p] \notin { "absent", "superseded" }
  /\ policy[n] = "absent"
  /\ policy' = [ policy EXCEPT ![p] = "superseded", ![n] = "live" ]
  /\ content' = [ content EXCEPT ![n] = content[p] ]
  /\ depends_on' = [ depends_on EXCEPT ![n] = depends_on[p] ]
  /\ authored_on' = [ authored_on EXCEPT ![n] = Cardinality({ q \in Policies : policy[q] # "absent" }) + 1 ]
  /\ evals' = IF crash THEN evals ELSE Invalidated(p)
  /\ walk' = [ walk EXCEPT ![p] = IF crash /\ @ # "done" THEN "lost" ELSE "done" ]
  /\ last' = NoCall
  /\ UNCHANGED << role, holders, window >>

\* kernel.ir.cancel of a policy, with or without its dependents in the same
\* scope going stale.  The cache is not walked.
CancelPolicy(p, cascade) ==
  /\ policy[p] \notin { "absent", "superseded", "cancelled" }
  /\ policy' = [ q \in Policies |->
                   IF q = p THEN "cancelled"
                   ELSE IF cascade /\ p \in depends_on[q] /\ policy[q] \notin { "stale", "cancelled" }
                        THEN "stale"
                   ELSE policy[q] ]
  /\ last' = NoCall
  /\ UNCHANGED << content, depends_on, authored_on, role, holders, evals, walk, window >>

\* kernel.ir.new of a role.
AuthorRole(r, H) ==
  /\ role[r] = "absent"
  /\ role' = [ role EXCEPT ![r] = "live" ]
  /\ holders' = [ holders EXCEPT ![r] = H ]
  /\ last' = NoCall
  /\ UNCHANGED << policy, content, depends_on, authored_on, evals, walk, window >>

\* kernel.ir.supersede of a role: the successor lists the same holders under a
\* new id.
SupersedeRole(r, n) ==
  /\ role[r] \notin { "absent", "superseded" }
  /\ role[n] = "absent"
  /\ role' = [ role EXCEPT ![r] = "superseded", ![n] = "live" ]
  /\ holders' = [ holders EXCEPT ![n] = holders[r] ]
  /\ last' = NoCall
  /\ UNCHANGED << policy, content, depends_on, authored_on, evals, walk, window >>

\* kernel.ir.cancel of a role.
CancelRole(r) ==
  /\ role[r] = "live"
  /\ role' = [ role EXCEPT ![r] = "cancelled" ]
  /\ last' = NoCall
  /\ UNCHANGED << policy, content, depends_on, authored_on, holders, evals, walk, window >>

\* Ten seconds pass.
Tick ==
  /\ window < MaxWindow
  /\ window' = window + 1
  /\ last' = NoCall
  /\ UNCHANGED << records, evals, walk >>

Next ==
  \/ \E c \in Calls, granter \in Callers \cup {None} : CallUngoverned(c, granter)
  \/ \E c \in Calls, granter \in Callers \cup {None} : CallCached(c, granter)
  \/ \E c \in Calls, granter \in Callers \cup {None} : CallEvaluated(c, granter)
  \/ \E p \in Policies, x \in Contents, D \in SUBSET { q \in Policies : policy[q] # "absent" } :
       AuthorPolicy(p, x, D)
  \/ \E p, n \in Policies, crash \in BOOLEAN : SupersedePolicy(p, n, crash)
  \/ \E p \in Policies, cascade \in BOOLEAN : CancelPolicy(p, cascade)
  \/ \E r \in Roles, H \in SUBSET Callers : AuthorRole(r, H)
  \/ \E r, n \in Roles : SupersedeRole(r, n)
  \/ \E r \in Roles : CancelRole(r)
  \/ Tick

Spec == Init /\ [][Next]_vars

-----------------------------------------------------------------------------
(* Safety *)

\* A cached evaluation is what its consulted policies, and they alone, decide
\* for that call by a caller with those roles: no other policy, no later
\* change and no other caller's membership has coloured it.
CacheTransparent ==
  \A e \in evals :
    LET v == Verdict(e.consulted, e.roles)
    IN  /\ e.decision = v.decision
        /\ e.defer_to = v.defer_to
        /\ e.actions = v.actions
        /\ e.consulted = v.consulted

\* A policy that was cancelled, or ever superseded, decides no call, although cancel
\* does not walk the cache and a crash may lose the walk of supersede.  It takes two
\* failures: the walk was lost, and the cancellation of something the superseded
\* policy depends on has made it stale, which a cached evaluation does not mind
\* (op_pipeline.py:420).
RetiredNeedsTwoFailures ==
  last # NoCall =>
    \A p \in last.consulted :
      walk[p] # "none" \/ policy[p] = "cancelled" =>
        walk[p] = "lost" /\ policy[p] = "stale" /\ last.cached

\* When a call is decided otherwise than the policies in force would decide it
\* now, there is exactly one excuse: a cached evaluation that has not heard of
\* a policy in force, or heard one that has gone stale since.
DivergenceExplained ==
  last # NoCall /\ last.decision # Verdict(InForce(last.call), RolesOf(Caller[last.call])).decision =>
    /\ last.cached
    /\ \/ ~(InForce(last.call) \subseteq last.consulted)
       \/ \E p \in last.consulted : policy[p] = "stale"

\* Nothing consulted by an admitted call denies it to a caller with these
\* roles; and where only deferrals speak, the newest of them names a role in
\* force that the author of the presented authorization holds at that moment.
AdmissionJustified ==
  last # NoCall /\ last.admitted =>
    LET R == RolesOf(Caller[last.call])
        deferrals == Deciding(last.consulted, R, "defer")
    IN  /\ Deciding(last.consulted, R, "deny") = {}
        /\ last.decision = "defer" =>
             \E r \in RolesOf(last.granter) : r = content[Newest(deferrals)].defer_to

=============================================================================
