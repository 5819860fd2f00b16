-------------------------- MODULE MCPolicyPipeline --------------------------
(* Small instances of PolicyPipeline for TLC: one repeatable call by bob,   *)
(* who may hold role r1, and an authorizing alice.                          *)
EXTENDS PolicyPipeline

CONSTANTS bob, alice, call, r1, r2

MCCaller == [ c \in {call} |-> bob ]

Always  == SUBSET Roles
Outside == { R \in SUBSET Roles : r1 \notin R }

Says(decision, condition, r) ==
  [ decision |-> decision, applies |-> {call}, condition |-> condition, defer_to |-> r ]

\* The cache run: what can be remembered wrongly.  The policy that does not
\* apply to the call is there to be depended on and cancelled.
CacheContents ==
  { Says("transform", Always, None), Says("deny", Outside, None),
    [ Says("allow", Always, None) EXCEPT !.applies = {} ] }

\* The deferral run: what can lift a deferral, and what can hide it.
DeferralContents ==
  { Says("defer", Always, r1), Says("defer", Outside, r2), Says("deny", Outside, None),
    Says("follow-up", Always, None) }

\* Ids are interchangeable: they are used in the order of authoring.
InOrder ==
  /\ \A p \in Policies : policy[p] # "absent" => authored_on[p] = p
  /\ r2 \in Roles => (role[r2] # "absent" => role[r1] # "absent")

\* One dependency suffices for a cascade, on the policy authored first.
OneDependency == \A p \in Policies : depends_on[p] \subseteq {1}

\* No policy of the cache run defers, so an authorization makes no difference.
Unassisted == last # NoCall => last.granter = None

\* A role that nobody holds is as good as none.
Held == \A r \in Roles : role[r] # "absent" => holders[r] # {}

\* Only the policy authored first, or its successor, fails to apply.
FirstIsDependedOn ==
  \A p \in Policies : policy[p] # "absent" /\ content[p].applies = {} =>
    p = 1 \/ policy[1] = "superseded"

\* At most one policy is cancelled at a time; it may be superseded, and then another.
OneCancelled == Cardinality({ p \in Policies : policy[p] = "cancelled" }) <= 1

\* Four policies in one window of the clock, or two in two.
FourOrTwoWindows == window = 0 \/ Cardinality({ p \in Policies : policy[p] # "absent" }) <= 2
=============================================================================
