------------------------------ MODULE MCLeases ------------------------------
(* Small instances of Leases for TLC.  A record and its scope are the two   *)
(* kinds of target, two writers the least that can be in each other's way.  *)
EXTENDS Leases

CONSTANTS l1, l2, w1

\* shared behaves as read does, neither is enforced; exclusive behaves as
\* write.  The first lease is always one that excludes, and its holder is w1.
Authored(l) == status[l] # "absent"

FewClaims ==
  /\ Authored(l2) => Authored(l1)
  /\ Authored(l1) => /\ claim[l1].held_by = w1 /\ claim[l1].lease_purpose = "write"
                     /\ claim[l1].depends_on \subseteq Records
  /\ Authored(l2) =>
       \/ claim[l2] = claim[l1]
       \/ claim[l2].held_by # w1 /\ claim[l2].lease_purpose = "read" /\ claim[l2].depends_on = {}
       \/ claim[l2].lease_purpose = "write" /\ claim[l2].depends_on = {l1}

\* As a part of the steps, the bounds spare TLC the states beyond them.
MCSpec == Init /\ [][Next /\ FewClaims']_vars /\ WF_vars(Tick)
=============================================================================
