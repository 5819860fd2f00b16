--------------------------- MODULE MCFactoryTick ---------------------------
(* Small instances of FactoryTick for TLC: records 1 to 3, a calibration    *)
(* policy with every second decision a holdout.                             *)
EXTENDS FactoryTick

CONSTANT policy

Child(i, D) == [ id |-> i, deps |-> D ]

\* One child, two of which the first waits for the second, a cycle, nothing.
Graphs ==
  { << Child(3, {}) >>, << Child(2, {3}), Child(3, {}) >>,
    << Child(2, {3}), Child(3, {2}) >>, <<>> }

MostUnderPolicy == [ r \in Ids |-> IF r = 2 THEN None ELSE policy ]
=============================================================================
