---------------------------- MODULE MCCalibrator ----------------------------
(* Small instances of Calibrator for TLC: one policy and its successors, two   *)
(* standing authorizations, a subject with a prediction.                      *)
EXTENDS Calibrator, TLC

CONSTANTS d, v, w

MCIds == { <<1>>, <<1, 1>>, <<1, 2>>, <<1, 1, 1>> }

MCHandIds == { <<1>>, <<1, 2>> }

General == [ value |-> 1, domain |-> None, truth |-> v ]

MCContents == { General, [ General EXCEPT !.domain = d, !.truth = w ] }

\* A small step on no evidence, the same under another id and with a status, and a
\* large one that brings fields of content and lineage along.
Small == [ value |-> 2, domain |-> None, truth |-> None, observations |-> 0, status |-> None,
           supersedes |-> None, superseded_by |-> None, authored_on |-> None, renames |-> FALSE ]

Renaming == [ Small EXCEPT !.renames = TRUE, !.status = "cancelled" ]

Large == [ Small EXCEPT !.value = 3, !.domain = "elsewhere", !.truth = w, !.observations = 1,
                        !.supersedes = <<1, 1>>, !.superseded_by = <<1, 2>>, !.authored_on = 0 ]

MCChanges == { Small, Renaming, Large }

MCGrants == { [ subjects |-> { <<1>> }, within |-> 1, observations |-> None ],
              [ subjects |-> { <<1>>, <<1, 2>> }, within |-> None, observations |-> 1 ] }

\* Proposals and subjects share the policies only.
NoSubjects  == \A s \in Subjects : subject[s] = None
NoProposals == (\A r \in Proposals : proposal[r] = None) /\ \A u \in Auths : auth[u] = None
OneContent  == \A p \in OnDisk(policy) : policy[p].by = "new" => policy[p].says = General

\* Policies of the same instant matter to the corpus only.
OneAnInstant == now = Cardinality(OnDisk(policy))

OneSide == \/ NoProposals /\ now <= 1
           \/ NoSubjects /\ OneContent /\ OneAnInstant

FewRecords ==
  /\ Cardinality(OnDisk(policy)) <= 3
  /\ \A r \in Proposals : proposal[r] # None => proposal[r].found \/ proposal[r].target = <<1>>

\* Other operations may die besides.
FewCrashes == Cardinality(died) + Cardinality(torn) <= 1 \/ torn = { proposal[r].target : r \in died }

\* A proposal that sets more than the content, a replacement of a cancelled policy
\* and a dispatch or supersession cut short are met one at a time.
FewOddities ==
  Cardinality({ r \in Proposals : proposal[r] # None /\ SetsControl(proposal[r].change) })
  + Cardinality({ p \in OnDisk(policy) : policy[p].by = "new" /\ policy[p].supersedes # None })
  + (IF died \cup torn = {} THEN 0 ELSE 1) <= 1

\* As a part of the steps, the bounds spare TLC the states beyond them.
MCSpec == Init /\ [][Next /\ (OneSide /\ FewRecords /\ FewCrashes /\ FewOddities)']_vars

Symmetry == Permutations(Proposals) \cup Permutations(Auths)
=============================================================================
