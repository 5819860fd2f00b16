------------------------- MODULE FactoryTickProofs -------------------------
(* Theorems of FactoryTick, for any number of records and policies, any     *)
(* graphs and any bounds.                                                   *)
EXTENDS FactoryTick, FiniteSetTheorems, TLAPS

\* What the records say about the past: resolved records are done, and so was
\* what a record waits for when the factory resolved or decomposed it; a
\* decomposed record keeps its folder, as a child lies in it.  Ids without a
\* record are blank.
WorkInv ==
  \A r \in Ids :
    /\ status[r] = "resolved" => r \in done
    /\ r \notin Present => form[r] = "file" /\ outcome[r] = "none" /\ parent[r] = None
    /\ outcome[r] = "value" => status[r] # "open"
    /\ outcome[r] = "graph" => form[r] = "folder" /\ \E c \in Ids : parent[c] = r
    /\ outcome[r] # "none" => deps[r] \subseteq done

\* What a node to come depends on is on disk or comes before it.
InTurn ==
  \A k \in DOMAIN todo : \A d \in todo[k].deps :
    d \in Present \/ \E j \in DOMAIN todo : j < k /\ todo[j].id = d

\* What the tick may rely on although it does not look again: its leaves exist,
\* are untouched by the factory and were unblocked, and the nodes to author are in
\* their order.
TickInv ==
  /\ pc = "between" <=> cur = None
  /\ cur \notin batch
  /\ pc # "author" => todo = <<>>
  /\ \A l \in Ids : l \in batch \/ l = cur =>
       l \in Present /\ outcome[l] = "none" /\ deps[l] \subseteq done
  /\ pc = "expand" => spec # <<>>
  /\ pc = "author" => todo # <<>> /\ InTurn

\* The inductive invariant.
FInv == TypeOK /\ WorkInv /\ TickInv

-----------------------------------------------------------------------------
(* Kahn's order *)

\* A set of numbers has a least one.
LEMMA LeastNumber ==
  ASSUME NEW T \in SUBSET Nat, T # {}
  PROVE  \E m \in T : \A n \in T : m <= n
  <1>1. PICK m \in T : \A n \in T : ~(<< n, m >> \in OpToRel(<, Nat))
    BY WFMin, NatLessThanWellFounded
  <1>2. ASSUME NEW n \in T PROVE m <= n
    <2>1. n < m => << n, m >> \in OpToRel(<, Nat)
      BY DEF OpToRel
    <2>2. ~(n < m)
      BY <1>1, <2>1, Zenon
    <2> QED BY <2>2
  <1> QED BY <1>2

LEMMA Induction ==
  ASSUME NEW T, 0 \in T, \A n \in Nat : n \in T => n + 1 \in T
  PROVE  Nat \subseteq T
  <1>1. SUFFICES ASSUME Nat \ T # {} PROVE FALSE
    OBVIOUS
  <1>2. PICK x \in Nat \ T : \A y \in Nat \ T : x <= y
    BY <1>1, LeastNumber
  <1>3. x - 1 \in Nat /\ x - 1 \in T
    BY <1>2
  <1> QED BY <1>2, <1>3

\* One iteration of the loop, and its first m.
NextOut(s, o) ==
  LET ready == ReadyNodes(s, Range(o))
  IN  IF ready = {} THEN o ELSE Append(o, CHOOSE i \in ready : \A j \in ready : i =< j)

Loop(f, s, m) == f = [ n \in 0 .. m |-> IF n = 0 THEN <<>> ELSE NextOut(s, f[n - 1]) ]

LEMMA LoopExists ==
  ASSUME NEW s, NEW m \in Nat
  PROVE  \E f : Loop(f, s, m)
  <1> DEFINE Has == { n \in Nat : \E f : Loop(f, s, n) }
  <1>1. 0 \in Has
    <2>1. Loop([ n \in 0 .. 0 |-> <<>> ], s, 0)
      BY DEF Loop
    <2> QED BY <2>1
  <1>2. ASSUME NEW n \in Nat, n \in Has PROVE n + 1 \in Has
    <2>1. PICK f : Loop(f, s, n)
      BY <1>2
    <2> DEFINE more == NextOut(s, f[n])
               g == [ k \in 0 .. n + 1 |-> IF k = n + 1 THEN more ELSE f[k] ]
    <2>2. \A k \in 0 .. n : g[k] = f[k]
      OBVIOUS
    <2>3. g[n + 1] = NextOut(s, g[n])
      <3>1. g[n + 1] = more
        <4> HIDE DEF more
        <4>1. n + 1 \in 0 .. n + 1
          OBVIOUS
        <4> QED BY <4>1
      <3>2. g[n] = f[n]
        OBVIOUS
      <3> HIDE DEF g
      <3> QED BY <3>1, <3>2
    <2>4. \A k \in 0 .. n : f[k] = IF k = 0 THEN <<>> ELSE NextOut(s, f[k - 1])
      BY <2>1 DEF Loop
    <2>5. \A k \in 0 .. n : k # 0 => k - 1 \in 0 .. n
      OBVIOUS
    <2>6. \A k \in 0 .. n + 1 : g[k] = IF k = 0 THEN <<>> ELSE NextOut(s, g[k - 1])
      <3> HIDE DEF g, more
      <3> TAKE k \in 0 .. n + 1
      <3>1. CASE k = n + 1
        <4>1. k - 1 = n /\ k # 0
          BY <3>1
        <4> QED BY <4>1, <3>1, <2>3
      <3>2. CASE k \in 0 .. n
        BY <3>2, <2>2, <2>4, <2>5
      <3> QED BY <3>1, <3>2
    <2>7. g = [ k \in 0 .. n + 1 |-> g[k] ]
      OBVIOUS
    <2>8. Loop(g, s, n + 1)
      <3> HIDE DEF g, more
      <3> QED BY <2>6, <2>7 DEF Loop
    <2> QED BY <2>8
  <1>3. Nat \subseteq Has
    <2> HIDE DEF Has
    <2> QED BY <1>1, <1>2, Induction
  <1> QED BY <1>3

\* What the loop knows of the nodes that it has emitted: each once, each after
\* those that it waits for.
Kept(s, o) ==
  /\ o \in Seq(DOMAIN s)
  /\ \A j, k \in DOMAIN o : o[j] = o[k] => j = k
  /\ \A k \in DOMAIN o : \A d \in s[o[k]].deps : \E j \in DOMAIN o : j < k /\ s[o[j]].id = d
  /\ IsFiniteSet(Range(o)) /\ Cardinality(Range(o)) = Len(o)

LEMMA KeptAtFirst == \A s : Kept(s, <<>>)
  <1> TAKE s
  <1>1. Range(<<>>) = {}
    BY DEF Range
  <1>2. IsFiniteSet(Range(<<>>)) /\ Cardinality(Range(<<>>)) = Len(<<>>)
    BY <1>1, FS_EmptySet
  <1> QED BY <1>2 DEF Kept

LEMMA KeptByIteration ==
  ASSUME NEW s \in Seq(Node), NEW o, Kept(s, o)
  PROVE  /\ Kept(s, NextOut(s, o))
         /\ ReadyNodes(s, Range(o)) # {} => Len(NextOut(s, o)) = Len(o) + 1
         /\ ReadyNodes(s, Range(o)) = {} => NextOut(s, o) = o
  <1> DEFINE ready == ReadyNodes(s, Range(o))
  <1>1. CASE ready = {}
    BY <1>1 DEF NextOut
  <1>2. CASE ready # {}
    <2>1. ready \in SUBSET Nat
      BY DEF ReadyNodes
    <2>2. \E i \in ready : \A j \in ready : i =< j
      BY <1>2, <2>1, LeastNumber
    <2> DEFINE i == CHOOSE i \in ready : \A j \in ready : i =< j
    <2>3. i \in ready
      BY <2>2
    <2>4. NextOut(s, o) = Append(o, i)
      BY <1>2 DEF NextOut
    <2> HIDE DEF i
    <2>5. i \in DOMAIN s /\ i \notin Range(o) /\ s[i].deps \subseteq NodeIds(s, Range(o))
      BY <2>3 DEF ReadyNodes
    <2> DEFINE p == Append(o, i)
    <2>6. o \in Seq(DOMAIN s) /\ Len(o) \in Nat /\ DOMAIN o = 1 .. Len(o)
      BY DEF Kept
    <2>7. /\ p \in Seq(DOMAIN s) /\ Len(p) = Len(o) + 1 /\ DOMAIN p = 1 .. Len(o) + 1
          /\ p[Len(o) + 1] = i /\ \A k \in DOMAIN o : p[k] = o[k]
      BY <2>5, <2>6
    <2> HIDE DEF p
    <2>8. Range(p) = Range(o) \cup {i}
      <3>1. ASSUME NEW x \in Range(p) PROVE x \in Range(o) \cup {i}
        BY <2>6, <2>7 DEF Range
      <3>2. ASSUME NEW x \in Range(o) PROVE x \in Range(p)
        <4>1. PICK k \in DOMAIN o : x = o[k]
          BY DEF Range
        <4>2. k \in DOMAIN p /\ p[k] = x
          BY <2>6, <2>7, <4>1
        <4> QED BY <4>2 DEF Range
      <3>3. i \in Range(p)
        <4>1. Len(o) + 1 \in DOMAIN p
          BY <2>6, <2>7
        <4> QED BY <2>7, <4>1 DEF Range
      <3> QED BY <3>1, <3>2, <3>3
    <2>9. IsFiniteSet(Range(p)) /\ Cardinality(Range(p)) = Len(p)
      <3>1. IsFiniteSet(Range(o)) /\ Cardinality(Range(o)) = Len(o)
        BY DEF Kept
      <3>2. /\ IsFiniteSet(Range(o) \cup {i})
            /\ Cardinality(Range(o) \cup {i}) = Cardinality(Range(o)) + 1
        BY <2>5, <3>1, FS_AddElement
      <3> QED BY <2>7, <2>8, <3>1, <3>2
    <2>10. ASSUME NEW j \in DOMAIN p, NEW k \in DOMAIN p, p[j] = p[k] PROVE j = k
      <3>1. \A l \in DOMAIN o : p[l] # i
        BY <2>5, <2>7 DEF Range
      <3>2. \A l \in DOMAIN p : l \in DOMAIN o \/ l = Len(o) + 1
        BY <2>6, <2>7
      <3>3. CASE j \in DOMAIN o /\ k \in DOMAIN o
        BY <2>7, <2>10, <3>3 DEF Kept
      <3> QED BY <2>7, <2>10, <3>1, <3>2, <3>3
    <2>11. ASSUME NEW k \in DOMAIN p, NEW d \in s[p[k]].deps
           PROVE  \E j \in DOMAIN p : j < k /\ s[p[j]].id = d
      <3>1. CASE k \in DOMAIN o
        <4>1. PICK j \in DOMAIN o : j < k /\ s[o[j]].id = d
          BY <2>7, <2>11, <3>1 DEF Kept
        <4>2. j \in DOMAIN p /\ p[j] = o[j]
          BY <2>6, <2>7
        <4> QED BY <4>1, <4>2
      <3>2. CASE k = Len(o) + 1
        <4>1. d \in NodeIds(s, Range(o))
          BY <2>5, <2>7, <2>11, <3>2
        <4>2. PICK j \in DOMAIN o : s[o[j]].id = d
          BY <4>1 DEF NodeIds, Range
        <4>3. j \in DOMAIN p /\ p[j] = o[j] /\ j < k
          BY <2>6, <2>7, <3>2
        <4> QED BY <4>2, <4>3
      <3> QED BY <2>6, <2>7, <3>1, <3>2
    <2>12. Kept(s, p)
      BY <2>7, <2>9, <2>10, <2>11 DEF Kept
    <2> QED BY <1>2, <2>4, <2>7, <2>12 DEF p
  <1> QED BY <1>1, <1>2

\* After n iterations either n nodes are emitted or nothing is ready, and then
\* never again.
LEMMA EmittedNodes ==
  ASSUME NEW s \in Seq(Node)
  PROVE  /\ Kept(s, Emitted(s))
         /\ Len(Emitted(s)) = Len(s) \/ ReadyNodes(s, Range(Emitted(s))) = {}
  <1> DEFINE f == CHOOSE g : Loop(g, s, Len(s))
  <1>1. Len(s) \in Nat
    OBVIOUS
  <1>2. Loop(f, s, Len(s))
    BY <1>1, LoopExists
  <1>3. Emitted(s) = f[Len(s)]
    BY DEF Emitted, Loop, NextOut
  <1> HIDE DEF f
  <1> DEFINE Good == { n \in Nat : n <= Len(s) =>
                         /\ Kept(s, f[n])
                         /\ Len(f[n]) = n \/ ReadyNodes(s, Range(f[n])) = {} }
  <1>4. 0 \in Good
    <2>1. f[0] = <<>>
      BY <1>1, <1>2 DEF Loop
    <2> QED BY <2>1, KeptAtFirst
  <1>5. ASSUME NEW n \in Nat, n \in Good PROVE n + 1 \in Good
    <2> SUFFICES ASSUME n + 1 <= Len(s)
                 PROVE  /\ Kept(s, f[n + 1])
                        /\ Len(f[n + 1]) = n + 1 \/ ReadyNodes(s, Range(f[n + 1])) = {}
      OBVIOUS
    <2>1. f[n + 1] = NextOut(s, f[n])
      BY <1>1, <1>2 DEF Loop
    <2>2. Kept(s, f[n]) /\ (Len(f[n]) = n \/ ReadyNodes(s, Range(f[n])) = {})
      BY <1>1, <1>5
    <2> QED BY <2>1, <2>2, KeptByIteration
  <1>6. Len(s) \in Good
    <2> HIDE DEF Good
    <2> QED BY <1>1, <1>4, <1>5, Induction
  <1> QED BY <1>1, <1>3, <1>6

\* No node of any part of the graph waits for nodes of that part in a circle: in
\* every part there is one that waits for none of it.
Acyclic(s) ==
  \A S \in SUBSET (DOMAIN s) : S # {} => \E i \in S : s[i].deps \cap NodeIds(s, S) = {}

LEMMA AllEmitted ==
  ASSUME NEW s \in Seq(Node)
  PROVE  Len(Emitted(s)) = Len(s) <=> Range(Emitted(s)) = DOMAIN s
  <1> DEFINE o == Emitted(s)
  <1>1. Kept(s, o)
    BY EmittedNodes
  <1>2. Len(s) \in Nat /\ DOMAIN s = 1 .. Len(s)
    OBVIOUS
  <1>3. IsFiniteSet(DOMAIN s) /\ Cardinality(DOMAIN s) = Len(s)
    BY <1>2, FS_Interval
  <1> HIDE DEF o
  <1>4. Range(o) \in SUBSET (DOMAIN s)
    BY <1>1 DEF Kept, Range
  <1>5. Cardinality(Range(o)) = Cardinality(DOMAIN s) => Range(o) = DOMAIN s
    BY <1>3, <1>4, FS_Subset
  <1> QED BY <1>1, <1>3, <1>5 DEF Kept, o

\* What is authored in that order finds its dependencies authored before it.
LEMMA OrderedNodes ==
  ASSUME NEW s \in Seq(Node), s # <<>>, Orderable(s)
  PROVE  /\ Ordered(s) \in Seq(Node) /\ Ordered(s) # <<>>
         /\ \A k \in DOMAIN Ordered(s) : \A d \in Ordered(s)[k].deps :
              \E j \in DOMAIN Ordered(s) : j < k /\ Ordered(s)[j].id = d
  <1> DEFINE o == Emitted(s)
  <1>1. Kept(s, o) /\ Len(o) = Len(s)
    BY EmittedNodes DEF Orderable
  <1>2. Ordered(s) = [ k \in DOMAIN o |-> s[o[k]] ]
    BY DEF Ordered
  <1> HIDE DEF o
  <1>3. o \in Seq(DOMAIN s) /\ DOMAIN o = 1 .. Len(s) /\ Len(s) \in Nat /\ Len(s) # 0
    BY <1>1 DEF Kept
  <1>4. \A k \in DOMAIN o : o[k] \in DOMAIN s /\ s[o[k]] \in Node
    BY <1>3
  <1>5. Ordered(s) \in Seq(Node) /\ DOMAIN Ordered(s) = DOMAIN o
    BY <1>2, <1>3, <1>4
  <1>6. Ordered(s) # <<>>
    BY <1>3, <1>5
  <1>7. \A k \in DOMAIN o : Ordered(s)[k] = s[o[k]]
    BY <1>2
  <1> HIDE DEF Ordered
  <1>8. ASSUME NEW k \in DOMAIN o, NEW d \in Ordered(s)[k].deps
        PROVE  \E j \in DOMAIN o : j < k /\ Ordered(s)[j].id = d
    <2>1. d \in s[o[k]].deps
      BY <1>7, <1>8
    <2>2. PICK j \in DOMAIN o : j < k /\ s[o[j]].id = d
      BY <1>1, <2>1 DEF Kept
    <2> QED BY <1>7, <2>2
  <1> QED BY <1>5, <1>6, <1>8

LEMMA KahnFindsCycles ==
  ASSUME NEW s \in Seq(Node), WellFormed(s)
  PROVE  Orderable(s) <=> Acyclic(s)
  <1> DEFINE o == Emitted(s)
  <1>1. Kept(s, o) /\ (Len(o) = Len(s) \/ ReadyNodes(s, Range(o)) = {})
    BY EmittedNodes
  <1>2. Orderable(s) <=> Range(o) = DOMAIN s
    BY AllEmitted DEF Orderable
  <1> HIDE DEF o
  <1>3. ASSUME Range(o) = DOMAIN s, NEW S \in SUBSET (DOMAIN s), S # {}
        PROVE  \E i \in S : s[i].deps \cap NodeIds(s, S) = {}
    <2> DEFINE At == { k \in DOMAIN o : o[k] \in S }
    <2>1. At \in SUBSET Nat /\ At # {}
      <3>1. DOMAIN o \subseteq Nat
        BY <1>1 DEF Kept
      <3>2. PICK i \in S : i \in Range(o)
        BY <1>3
      <3>3. PICK k \in DOMAIN o : o[k] = i
        BY <3>2 DEF Range
      <3> QED BY <3>1, <3>2, <3>3
    <2>2. PICK k \in At : \A j \in At : k <= j
      BY <2>1, LeastNumber
    <2>3. ASSUME NEW d \in s[o[k]].deps, d \in NodeIds(s, S) PROVE FALSE
      <3>1. PICK j \in DOMAIN o : j < k /\ s[o[j]].id = d
        BY <1>1, <2>3 DEF Kept
      <3>2. PICK i \in S : s[i].id = d
        BY <2>3 DEF NodeIds
      <3>3. o[j] = i
        BY <1>1, <3>1, <3>2 DEF WellFormed, Kept
      <3>4. j \in At
        BY <3>2, <3>3
      <3> QED BY <1>1, <2>1, <2>2, <3>1, <3>4
    <2> QED BY <2>3
  <1>4. ASSUME Acyclic(s), Range(o) # DOMAIN s PROVE FALSE
    <2> DEFINE S == DOMAIN s \ Range(o)
    <2>1. S \in SUBSET (DOMAIN s) /\ S # {}
      <3>1. \A k \in DOMAIN o : o[k] \in DOMAIN s
        BY <1>1 DEF Kept
      <3>2. Range(o) \subseteq DOMAIN s
        BY <3>1 DEF Range
      <3> QED BY <1>4, <3>2
    <2>2. PICK i \in S : s[i].deps \cap NodeIds(s, S) = {}
      BY <1>4, <2>1 DEF Acyclic
    <2>3. s[i].deps \subseteq NodeIds(s, Range(o))
      BY <2>2 DEF WellFormed, NodeIds
    <2>4. i \in ReadyNodes(s, Range(o))
      BY <2>3 DEF ReadyNodes
    <2>5. Len(o) = Len(s)
      BY <1>1, <2>4
    <2> QED BY <1>2, <1>4, <2>5, AllEmitted DEF o
  <1> QED BY <1>2, <1>3, <1>4 DEF Acyclic

\* For every graph with distinct ids and no dangling dependency: the toposort raises
\* exactly if there is a cycle, and otherwise returns all nodes and none before what
\* it depends on (materializer.py:189-241).
THEOREM KahnOrders ==
  ASSUME NEW s \in Seq(Node), WellFormed(s)
  PROVE  /\ Orderable(s) <=> Acyclic(s)
         /\ Orderable(s) =>
              /\ Range(Ordered(s)) = Range(s) /\ Len(Ordered(s)) = Len(s)
              /\ \A k \in DOMAIN Ordered(s) : \A d \in Ordered(s)[k].deps :
                   \E j \in DOMAIN Ordered(s) : j < k /\ Ordered(s)[j].id = d
  <1> DEFINE o == Emitted(s)
  <1>1. Ordered(s) = [ k \in DOMAIN o |-> s[o[k]] ]
    BY DEF Ordered
  <1>2. ASSUME Orderable(s) PROVE Range(Ordered(s)) = Range(s) /\ Len(Ordered(s)) = Len(s)
    <2>1. Range(o) = DOMAIN s /\ Len(o) = Len(s)
      BY <1>2, AllEmitted DEF Orderable
    <2>2. DOMAIN o = 1 .. Len(o) /\ Len(o) \in Nat
      BY EmittedNodes DEF Kept
    <2> HIDE DEF o
    <2>3. Range(Ordered(s)) = Range(s)
      BY <1>1, <2>1 DEF Range
    <2>4. Len(Ordered(s)) = Len(s)
      BY <1>1, <2>1, <2>2
    <2> QED BY <2>3, <2>4
  <1>3. CASE s = <<>>
    <2>1. DOMAIN s = {}
      BY <1>3
    <2>2. Orderable(s) => DOMAIN Ordered(s) = {}
      <3>1. Kept(s, o)
        BY EmittedNodes
      <3>2. DOMAIN o = {}
        BY <2>1, <3>1 DEF Kept
      <3> QED BY <1>1, <3>2
    <2> QED BY <1>2, <2>2, KahnFindsCycles
  <1>4. CASE s # <<>>
    BY <1>2, <1>4, KahnFindsCycles, OrderedNodes
  <1> QED BY <1>3, <1>4

-----------------------------------------------------------------------------
LEMMA InitFInv == Init => FInv
  <1> SUFFICES ASSUME Init PROVE FInv
    OBVIOUS
  <1>1. spec \in Seq(Node) /\ DOMAIN spec = {}
    BY DEF Init
  <1>2. failures \in 0 .. MaxFailures /\ edits \in 0 .. MaxEdits /\ todo \in Seq(Node)
    BY BoundAssumption DEF Init
  <1>3. TypeOK
    BY <1>1, <1>2 DEF Init, TypeOK
  <1>4. WorkInv /\ TickInv
    BY IdsAssumption DEF Init, WorkInv, TickInv, Present
  <1> QED BY <1>3, <1>4 DEF FInv

\* Steps that leave the records alone.
LEMMA QuietWork ==
  ASSUME WorkInv, UNCHANGED << records, done, outcome >>
  PROVE  WorkInv'
  BY DEF WorkInv, Present, records

LEMMA ReturnTypes ==
  ASSUME TypeOK, Return
  PROVE  /\ pc' = "between" /\ cur' = None /\ holdout' = FALSE
         /\ batch' = batch /\ marker' = marker
         /\ spec' \in Seq(Node) /\ todo' \in Seq(Node)
  BY DEF Return, TypeOK

LEMMA MiscarryTypes ==
  ASSUME TypeOK, Miscarry
  PROVE  failures' \in 0 .. MaxFailures /\ edits' = edits
  BY BoundAssumption DEF Miscarry, TypeOK

\* A dispatch that ends forgets its leaf.
LEMMA ReturnTick ==
  ASSUME FInv, Return, Present \subseteq Present', done \subseteq done',
         \A l \in batch : outcome'[l] = outcome[l] /\ deps'[l] = deps[l]
  PROVE  TickInv'
  <1>1. pc' = "between" /\ cur' = None /\ batch' = batch /\ todo' = <<>> /\ batch \subseteq Ids
    BY DEF Return, FInv, TypeOK
  <1>2. ASSUME NEW l \in Ids, l \in batch' \/ l = cur'
        PROVE  l \in Present' /\ outcome'[l] = "none" /\ deps'[l] \subseteq done'
    BY <1>1, <1>2, IdsAssumption DEF FInv, TickInv
  <1> QED BY <1>1, <1>2, IdsAssumption DEF TickInv

\* A step of the others takes nothing away from what the tick relies on.
LEMMA OthersTick ==
  ASSUME FInv, UNCHANGED factory, Present \subseteq Present', done \subseteq done',
         \A l \in Present : deps'[l] = deps[l]
  PROVE  TickInv'
  <1>1. ASSUME NEW l \in Ids, l \in batch' \/ l = cur'
        PROVE  l \in Present' /\ outcome'[l] = "none" /\ deps'[l] \subseteq done'
    BY <1>1 DEF FInv, TickInv, factory
  <1>2. pc' = "author" => todo' # <<>> /\ InTurn'
    BY DEF FInv, TickInv, factory, InTurn
  <1> QED BY <1>1, <1>2 DEF FInv, TickInv, factory

-----------------------------------------------------------------------------
LEMMA WalkFInv == FInv /\ Walk => FInv'
  <1> SUFFICES ASSUME FInv, Walk PROVE FInv'
    OBVIOUS
  <1>1. TypeOK'
    BY DEF FInv, TypeOK, Walk, Holdouts, records, bounds
  <1>2. WorkInv'
    BY QuietWork DEF FInv, Walk
  <1>3. TickInv'
    <2>1. ASSUME NEW l \in Ids, l \in batch' \/ l = cur'
          PROVE  l \in Present' /\ outcome'[l] = "none" /\ deps'[l] \subseteq done'
      <3>1. cur' = None /\ Leaf(l)
        BY <2>1, IdsAssumption DEF Walk, FInv, TickInv
      <3>2. l \in Present /\ deps[l] \subseteq done
        BY <3>1 DEF Leaf, Unblocked, Present, FInv, WorkInv, TypeOK
      <3>3. outcome[l] = "none"
        BY <3>1 DEF Leaf, FInv, WorkInv, TypeOK
      <3> QED BY <3>2, <3>3 DEF Walk, records, Present
    <2> QED BY <2>1, IdsAssumption DEF Walk, FInv, TickInv
  <1> QED BY <1>1, <1>2, <1>3 DEF FInv

\* The steps of a dispatch that do not end it and touch no record: selection,
\* answers, the predictor.
LEMMA QuietTick ==
  ASSUME FInv, UNCHANGED << records, done, outcome, batch, cur >>,
         cur # None, pc' \notin { "between", "author" }, todo' = <<>>,
         pc' = "expand" => spec' # <<>>
  PROVE  TickInv'
  BY DEF FInv, TickInv, Present, records

LEMMA PredictFInv ==
  ASSUME FInv, NEW l \in Ids, Begin(l) \/ PredictorFails(l)
  PROVE  FInv'
  <1>1. TypeOK'
    BY MiscarryTypes DEF FInv, TypeOK, Begin, PredictorFails, records, bounds
  <1>2. WorkInv'
    BY QuietWork DEF FInv, Begin, PredictorFails
  <1>3. TickInv'
    BY IdsAssumption DEF FInv, TickInv, Begin, PredictorFails, NextLeaf, Present, records
  <1> QED BY <1>1, <1>2, <1>3 DEF FInv

LEMMA SelectFInv == FInv /\ (Consult \/ SelectByFitness \/ NoResolver) => FInv'
  <1> SUFFICES ASSUME FInv, Consult \/ SelectByFitness \/ NoResolver PROVE FInv'
    OBVIOUS
  <1>1. cur # None /\ cur \in Ids /\ pc # "between"
    BY DEF FInv, TypeOK, TickInv, Consult, SelectByFitness, NoResolver
  <1>2. WorkInv'
    BY QuietWork DEF FInv, Consult, SelectByFitness, NoResolver
  <1>3. CASE Consult
    <2>1. PolicyOf[cur] \in Policies /\ Holdout(counts[PolicyOf[cur]]) \in BOOLEAN
      BY <1>1, <1>3, PolicyAssumption DEF Consult, Holdout
    <2>2. TypeOK'
      BY <1>1, <1>3, <2>1 DEF FInv, TypeOK, Consult, records, bounds
    <2>3. TickInv'
      BY <1>1, <1>3, QuietTick DEF Consult, FInv, TickInv
    <2> QED BY <1>2, <2>2, <2>3 DEF FInv
  <1>4. CASE SelectByFitness
    <2>1. TypeOK'
      BY <1>4 DEF FInv, TypeOK, SelectByFitness, records, stream, bounds
    <2>2. TickInv'
      BY <1>1, <1>4, QuietTick DEF SelectByFitness, FInv, TickInv
    <2> QED BY <1>2, <2>1, <2>2 DEF FInv
  <1>5. CASE NoResolver
    <2>1. TypeOK'
      BY <1>5, ReturnTypes, MiscarryTypes DEF FInv, TypeOK, NoResolver, records, stream
    <2>2. TickInv'
      BY <1>5, ReturnTick DEF NoResolver, records, Present
    <2> QED BY <1>2, <2>1, <2>2 DEF FInv
  <1> QED BY <1>3, <1>4, <1>5

LEMMA AnswerFInv ==
  ASSUME FInv,
         \/ AnswerValue
         \/ \E s \in GraphSpecs : AnswerGraph(s)
         \/ AnswerNothing
         \/ AnswerFails
  PROVE  FInv'
  <1>1. cur # None /\ pc = "run"
    BY DEF FInv, TickInv, AnswerValue, AnswerGraph, AnswerNothing, AnswerFails
  <1>2. WorkInv'
    BY QuietWork DEF FInv, AnswerValue, AnswerGraph, AnswerNothing, AnswerFails
  <1>3. CASE AnswerValue
    <2>1. TypeOK'
      BY <1>3 DEF FInv, TypeOK, AnswerValue, records, stream, bounds
    <2>2. TickInv'
      BY <1>1, <1>3, QuietTick DEF AnswerValue, FInv, TickInv
    <2> QED BY <1>2, <2>1, <2>2 DEF FInv
  <1>4. ASSUME NEW s \in GraphSpecs, AnswerGraph(s) PROVE FInv'
    <2>1. s \in Seq(Node) /\ todo = <<>>
      BY <1>4, SpecAssumption DEF AnswerGraph, FInv, TickInv
    <2>2. TypeOK'
      BY <1>4, <2>1 DEF FInv, TypeOK, AnswerGraph, records, stream, bounds
    <2>3. TickInv'
      BY <1>1, <1>4, <2>1, QuietTick DEF AnswerGraph
    <2> QED BY <1>2, <2>2, <2>3 DEF FInv
  <1>5. CASE AnswerNothing \/ AnswerFails
    <2>1. TypeOK'
      BY <1>5, ReturnTypes, MiscarryTypes DEF FInv, TypeOK, AnswerNothing, AnswerFails, records, stream
    <2>2. TickInv'
      BY <1>5, ReturnTick DEF AnswerNothing, AnswerFails, records, Present
    <2> QED BY <1>2, <2>1, <2>2 DEF FInv
  <1> QED BY <1>3, <1>4, <1>5

-----------------------------------------------------------------------------
LEMMA ResolveFInv == FInv /\ (Resolve \/ ResolveRefused) => FInv'
  <1> SUFFICES ASSUME FInv, Resolve \/ ResolveRefused PROVE FInv'
    OBVIOUS
  <1>1. CASE Resolve
    <2>1. cur \in Ids /\ cur \notin batch /\ cur \in Present /\ deps[cur] \subseteq done
      BY <1>1 DEF Resolve, FInv, TypeOK, TickInv
    <2>2. TypeOK'
      BY <1>1, <2>1, ReturnTypes DEF FInv, TypeOK, Resolve, stream, bounds
    <2>3. WorkInv'
      <3> SUFFICES ASSUME NEW r \in Ids PROVE WorkInv!(r)'
        BY DEF WorkInv
      <3>1. CASE r = cur
        BY <1>1, <2>1, <3>1 DEF Resolve, FInv, TypeOK, WorkInv, Present
      <3>2. CASE r # cur
        BY <1>1, <2>1, <3>2 DEF Resolve, FInv, TypeOK, WorkInv, Present
      <3> QED BY <3>1, <3>2
    <2>4. TickInv'
      BY <1>1, <2>1, ReturnTick DEF Resolve, FInv, TypeOK, Present
    <2> QED BY <2>2, <2>3, <2>4 DEF FInv
  <1>2. CASE ResolveRefused
    <2>1. TypeOK'
      BY <1>2, ReturnTypes DEF FInv, TypeOK, ResolveRefused, records, stream, bounds
    <2>2. WorkInv' /\ TickInv'
      BY <1>2, QuietWork, ReturnTick DEF FInv, ResolveRefused, records, Present
    <2> QED BY <2>1, <2>2 DEF FInv
  <1> QED BY <1>1, <1>2

LEMMA ExpandFInv == FInv /\ Expand => FInv'
  <1> SUFFICES ASSUME FInv, Expand PROVE FInv'
    OBVIOUS
  <1>1. cur \in Ids /\ cur \in Present /\ deps[cur] \subseteq done
    BY DEF Expand, FInv, TypeOK, TickInv
  <1>2. /\ form' \in [ Ids -> { "file", "folder", "copy" } ]
        /\ form'[cur] = "folder" /\ \A r \in Ids \ {cur} : form'[r] = form[r]
    BY <1>1 DEF Expand, Expanded, FInv, TypeOK
  <1>3. TypeOK'
    <2>1. CASE Return
      BY <1>2, <2>1, ReturnTypes DEF FInv, TypeOK, Expand, stream, bounds
    <2>2. CASE ~Return
      <3>1. todo' = Ordered(spec) /\ Orderable(spec) /\ spec # <<>> /\ spec \in Seq(Node)
        BY <2>2 DEF Expand, FInv, TypeOK, TickInv
      <3>2. todo' \in Seq(Node)
        BY <3>1, OrderedNodes
      <3> QED BY <1>2, <2>2, <3>2 DEF FInv, TypeOK, Expand, stream, bounds
    <2> QED BY <2>1, <2>2
  <1>4. WorkInv'
    BY <1>1, <1>2 DEF Expand, FInv, TypeOK, WorkInv, Present
  <1>5. TickInv'
    <2>1. CASE Return
      BY <2>1, ReturnTick DEF Expand, Present
    <2>2. CASE ~Return
      <3>1. todo' = Ordered(spec) /\ Orderable(spec) /\ spec # <<>> /\ pc' = "author"
        BY <2>2 DEF Expand, FInv, TickInv
      <3>2. /\ todo' # <<>>
            /\ \A k \in DOMAIN todo' : \A d \in todo'[k].deps :
                 \E j \in DOMAIN todo' : j < k /\ todo'[j].id = d
        <4>1. spec \in Seq(Node)
          BY DEF FInv, TypeOK
        <4>2. /\ Ordered(spec) # <<>>
              /\ \A k \in DOMAIN Ordered(spec) : \A d \in Ordered(spec)[k].deps :
                   \E j \in DOMAIN Ordered(spec) : j < k /\ Ordered(spec)[j].id = d
          BY <3>1, <4>1, OrderedNodes
        <4> QED BY <3>1, <4>2, Zenon
      <3>3. InTurn'
        BY <3>2 DEF InTurn
      <3> QED BY <2>2, <3>1, <3>2, <3>3 DEF FInv, TickInv, Expand, Present
    <2> QED BY <2>1, <2>2
  <1> QED BY <1>3, <1>4, <1>5 DEF FInv

LEMMA NewChildFInv == FInv /\ NewChild => FInv'
  <1> SUFFICES ASSUME FInv, NewChild PROVE FInv'
    OBVIOUS
  <1> DEFINE n == Head(todo)
  <1>0. todo \in Seq(Node) /\ todo # <<>> /\ InTurn
    BY DEF NewChild, FInv, TypeOK, TickInv
  <1>1. /\ n \in Node /\ n.id \in Ids /\ n.deps \in SUBSET Ids
        /\ n.id \notin Present /\ form[cur] = "folder"
    <2>1. n \in Node
      BY <1>0
    <2>2. status[n.id] = "absent" /\ form[cur] = "folder"
      BY DEF NewChild, Acceptable
    <2> QED BY <2>1, <2>2 DEF Node, Present
  <1>2. cur \in Ids /\ cur \in Present /\ cur \notin batch /\ deps[cur] \subseteq done /\ cur # n.id
    BY <1>1 DEF NewChild, FInv, TypeOK, TickInv
  <1>3. /\ status' = [ status EXCEPT ![n.id] = "open" ]
        /\ deps' = [ deps EXCEPT ![n.id] = n.deps ]
        /\ parent' = [ parent EXCEPT ![n.id] = cur ]
        /\ UNCHANGED << form, predicted, counts, missed, done, failures, edits >>
    BY DEF NewChild, stream, bounds
  <1>4. \/ outcome' = [ outcome EXCEPT ![cur] = "graph" ] /\ Return
        \/ todo' = Tail(todo) /\ Len(todo) # 1 /\ UNCHANGED << outcome, pc, batch, marker, cur, holdout, spec >>
    BY DEF NewChild
  <1>5. Present' = Present \cup {n.id}
    BY <1>1, <1>3 DEF Present, FInv, TypeOK
  <1> HIDE DEF n
  <1>6. TypeOK'
    <2>1. CASE Return
      BY <1>1, <1>2, <1>3, <1>4, <2>1, ReturnTypes DEF FInv, TypeOK
    <2>2. CASE ~Return
      <3>1. todo' \in Seq(Node)
        BY <1>0, <1>4, <2>2
      <3> QED BY <1>1, <1>2, <1>3, <1>4, <2>2, <3>1 DEF FInv, TypeOK
    <2> QED BY <2>1, <2>2
  <1>7. WorkInv'
    <2> SUFFICES ASSUME NEW r \in Ids PROVE WorkInv!(r)'
      BY DEF WorkInv
    <2>1. outcome' = outcome \/ outcome' = [ outcome EXCEPT ![cur] = "graph" ]
      BY <1>4
    <2>2. CASE r = n.id
      BY <1>1, <1>2, <1>3, <1>5, <2>1, <2>2 DEF FInv, TypeOK, WorkInv
    <2>3. CASE r = cur
      BY <1>1, <1>2, <1>3, <1>5, <2>1, <2>3 DEF FInv, TypeOK, WorkInv
    <2>4. CASE r # n.id /\ r # cur
      <3>1. status'[r] = status[r] /\ deps'[r] = deps[r] /\ parent'[r] = parent[r] /\ outcome'[r] = outcome[r]
        BY <1>3, <2>1, <2>4 DEF FInv, TypeOK
      <3>2. ASSUME outcome[r] = "graph" PROVE \E c \in Ids : parent'[c] = r
        <4>1. PICK c \in Ids : parent[c] = r
          BY <3>2 DEF FInv, WorkInv
        <4>2. c # n.id
          BY <4>1, <1>1, IdsAssumption DEF FInv, WorkInv
        <4> QED BY <1>3, <4>1, <4>2 DEF FInv, TypeOK
      <3> QED BY <1>3, <1>5, <3>1, <3>2 DEF FInv, WorkInv
    <2> QED BY <2>2, <2>3, <2>4
  <1>8. TickInv'
    <2>1. \A l \in Ids : l \in Present => deps'[l] = deps[l]
      BY <1>1, <1>3 DEF FInv, TypeOK
    <2>2. CASE Return
      <3>1. \A l \in batch : outcome'[l] = outcome[l] /\ deps'[l] = deps[l]
        BY <1>2, <1>4, <2>1 DEF FInv, TypeOK, TickInv
      <3> QED BY <1>3, <1>5, <2>2, <3>1, ReturnTick
    <2>3. CASE ~Return
      <3>1. todo' = Tail(todo) /\ Len(todo) # 1
        BY <1>4, <2>3
      <3>2. /\ Len(todo) \in Nat /\ Len(todo) # 0 /\ DOMAIN todo = 1 .. Len(todo)
            /\ todo' # <<>> /\ DOMAIN todo' = 1 .. Len(todo) - 1
            /\ \A k \in DOMAIN todo' : todo'[k] = todo[k + 1]
        <4>1. /\ Len(todo) \in Nat /\ Len(todo) # 0 /\ DOMAIN todo = 1 .. Len(todo)
              /\ DOMAIN Tail(todo) = 1 .. Len(todo) - 1
              /\ \A k \in 1 .. Len(todo) - 1 : Tail(todo)[k] = todo[k + 1]
          BY <1>0
        <4>2. Tail(todo) # <<>>
          <5>1. 1 \in DOMAIN Tail(todo)
            BY <3>1, <4>1
          <5>2. DOMAIN <<>> = {}
            OBVIOUS
          <5> QED BY <5>1, <5>2, Zenon
        <4> QED BY <3>1, <4>1, <4>2
      <3>3. ASSUME NEW k \in DOMAIN todo', NEW d \in todo'[k].deps
            PROVE  d \in Present' \/ \E j \in DOMAIN todo' : j < k /\ todo'[j].id = d
        <4>1. k + 1 \in DOMAIN todo /\ d \in todo[k + 1].deps
          BY <3>2, <3>3
        <4>2. CASE d \in Present
          BY <1>5, <4>2
        <4>3. ASSUME NEW j \in DOMAIN todo, j < k + 1, todo[j].id = d
              PROVE  d \in Present' \/ \E i \in DOMAIN todo' : i < k /\ todo'[i].id = d
          <5>1. CASE j = 1
            BY <1>0, <1>5, <4>3, <5>1 DEF n
          <5>2. CASE j # 1
            <6>1. j - 1 \in DOMAIN todo' /\ j - 1 < k /\ todo'[j - 1] = todo[j]
              BY <3>2, <3>3, <4>3, <5>2
            <6> QED BY <4>3, <6>1
          <5> QED BY <5>1, <5>2
        <4> QED BY <1>0, <4>1, <4>2, <4>3 DEF InTurn
      <3>4. InTurn'
        BY <3>3 DEF InTurn
      <3>5. pc' = "author"
        BY <1>4, <2>3 DEF NewChild
      <3> QED BY <1>3, <1>4, <1>5, <2>1, <2>3, <3>2, <3>4, <3>5 DEF FInv, TickInv
    <2> QED BY <2>2, <2>3
  <1> QED BY <1>6, <1>7, <1>8 DEF FInv

LEMMA ChildFailsFInv ==
  ASSUME FInv, ChildRefused \/ ChildForbidden
  PROVE  FInv'
  <1>1. TypeOK'
    <2>1. CASE ChildRefused
      BY <2>1, ReturnTypes DEF FInv, TypeOK, ChildRefused, records, stream, bounds
    <2>2. CASE ChildForbidden
      BY <2>2, ReturnTypes, MiscarryTypes DEF FInv, TypeOK, ChildForbidden, records, stream
    <2> QED BY <2>1, <2>2
  <1>2. WorkInv' /\ TickInv'
    BY QuietWork, ReturnTick DEF FInv, ChildRefused, ChildForbidden, records, Present
  <1> QED BY <1>1, <1>2 DEF FInv

-----------------------------------------------------------------------------
LEMMA OthersTypes ==
  ASSUME TypeOK, UNCHANGED factory, done' \subseteq Ids,
         status' \in [ Ids -> { "absent", "open", "resolved", "stale", "superseded", "cancelled" } ],
         deps' \in [ Ids -> SUBSET Ids ], parent' \in [ Ids -> Ids \cup {None} ],
         form' \in [ Ids -> { "file", "folder", "copy" } ], edits' \in 0 .. MaxEdits
  PROVE  TypeOK'
  BY DEF TypeOK, factory

LEMMA EditTypes == ASSUME TypeOK, Edit PROVE edits' \in 0 .. MaxEdits
  BY BoundAssumption DEF TypeOK, Edit

LEMMA AuthorFInv ==
  ASSUME FInv, NEW r \in Ids, NEW D \in SUBSET Ids, NEW p \in Ids \cup {None}, Author(r, D, p)
  PROVE  FInv'
  <1>1. TypeOK'
    BY OthersTypes DEF FInv, TypeOK, Author
  <1>2. Present' = Present \cup {r}
    BY DEF Author, Present, FInv, TypeOK
  <1>3. WorkInv'
    <2> SUFFICES ASSUME NEW q \in Ids PROVE WorkInv!(q)'
      BY DEF WorkInv
    <2>1. CASE q = r
      BY <1>2, <2>1, IdsAssumption DEF Author, factory, FInv, TypeOK, WorkInv
    <2>2. CASE q # r
      <3>1. ASSUME outcome[q] = "graph" PROVE \E c \in Ids : parent'[c] = q
        <4>1. PICK c \in Ids : parent[c] = q
          BY <3>1 DEF FInv, WorkInv
        <4>2. c # r
          BY <4>1, IdsAssumption DEF Author, FInv, WorkInv
        <4> QED BY <4>1, <4>2 DEF Author, FInv, TypeOK
      <3> QED BY <1>2, <2>2, <3>1 DEF Author, factory, FInv, TypeOK, WorkInv
    <2> QED BY <2>1, <2>2
  <1>4. TickInv'
    BY <1>2, OthersTick DEF Author, FInv, TypeOK
  <1> QED BY <1>1, <1>3, <1>4 DEF FInv

LEMMA ByHandFInv ==
  ASSUME FInv, NEW r \in Ids, ResolveByHand(r) \/ Cancel(r)
  PROVE  FInv'
  <1>1. TypeOK'
    BY OthersTypes, EditTypes DEF FInv, TypeOK, ResolveByHand, Cancel
  <1>2. Present' = Present /\ done \subseteq done'
        /\ UNCHANGED << deps, parent, form, outcome >>
    BY DEF ResolveByHand, Cancel, factory, Present, FInv, TypeOK
  <1>3. \A q \in Ids : /\ status'[q] = "resolved" => q \in done'
                       /\ status'[q] = "open" => status[q] = "open"
    <2>1. CASE ResolveByHand(r)
      BY <2>1 DEF ResolveByHand, FInv, TypeOK, WorkInv
    <2>2. CASE Cancel(r)
      BY <2>2 DEF Cancel, FInv, TypeOK, WorkInv
    <2> QED BY <2>1, <2>2
  <1>4. WorkInv'
    BY <1>2, <1>3 DEF FInv, WorkInv
  <1>5. TickInv'
    BY <1>2, OthersTick DEF ResolveByHand, Cancel
  <1> QED BY <1>1, <1>4, <1>5 DEF FInv

LEMMA SupersedeFInv ==
  ASSUME FInv, NEW r \in Ids, NEW n \in Ids, Supersede(r, n)
  PROVE  FInv'
  <1>1. TypeOK'
    BY OthersTypes, EditTypes DEF FInv, TypeOK, Supersede
  <1>2. Present' = Present \cup {n} /\ r \in Present /\ n \notin Present
    BY DEF Supersede, Present, FInv, TypeOK
  <1>3. WorkInv'
    <2> SUFFICES ASSUME NEW q \in Ids PROVE WorkInv!(q)'
      BY DEF WorkInv
    <2>1. CASE q = n
      BY <1>2, <2>1, IdsAssumption DEF Supersede, factory, FInv, TypeOK, WorkInv
    <2>2. CASE q # n
      <3>1. ASSUME outcome[q] = "graph" PROVE \E c \in Ids : parent'[c] = q
        <4>1. PICK c \in Ids : parent[c] = q
          BY <3>1 DEF FInv, WorkInv
        <4>2. c # n
          BY <1>2, <4>1, IdsAssumption DEF FInv, WorkInv
        <4> QED BY <4>1, <4>2 DEF Supersede, FInv, TypeOK
      <3> QED BY <1>2, <2>2, <3>1 DEF Supersede, factory, FInv, TypeOK, WorkInv
    <2> QED BY <2>1, <2>2
  <1>4. TickInv'
    BY <1>2, OthersTick DEF Supersede, FInv, TypeOK
  <1> QED BY <1>1, <1>3, <1>4 DEF FInv

LEMMA FolderFInv ==
  ASSUME FInv, NEW r \in Ids, ExpandByHand(r) \/ Collapse(r)
  PROVE  FInv'
  <1>1. TypeOK'
    BY OthersTypes, EditTypes DEF FInv, TypeOK, ExpandByHand, Collapse
  <1>2. WorkInv'
    BY DEF ExpandByHand, Collapse, factory, FInv, TypeOK, WorkInv, Present
  <1>3. TickInv'
    BY OthersTick DEF ExpandByHand, Collapse, Present
  <1> QED BY <1>1, <1>2, <1>3 DEF FInv

LEMMA NextFInv == FInv /\ [Next]_vars => FInv'
  <1> SUFFICES ASSUME FInv, [Next]_vars PROVE FInv'
    OBVIOUS
  <1>1. CASE Tick
    BY <1>1, WalkFInv, PredictFInv, SelectFInv, AnswerFInv, ResolveFInv, ExpandFInv,
       NewChildFInv, ChildFailsFInv DEF Tick
  <1>2. CASE Others
    BY <1>2, AuthorFInv, ByHandFInv, SupersedeFInv, FolderFInv DEF Others
  <1>3. CASE UNCHANGED vars
    <2>1. TypeOK'
      BY <1>3 DEF FInv, TypeOK, vars, records, stream, bounds
    <2>2. WorkInv' /\ TickInv'
      BY <1>3 DEF FInv, WorkInv, TickInv, InTurn, vars, records, stream, bounds, Present
    <2> QED BY <2>1, <2>2 DEF FInv
  <1> QED BY <1>1, <1>2, <1>3 DEF Next

THEOREM FactoryInvariant == Spec => []FInv
  <1> QED BY InitFInv, NextFInv, PTL DEF Spec

-----------------------------------------------------------------------------
\* The state of the factory keeps its types.
THEOREM FactoryTypes == Spec => []TypeOK
  BY FactoryInvariant, PTL DEF FInv

\* The factory works in the order of the dependencies, whatever is cancelled,
\* superseded or expanded between the walk and the dispatch.
THEOREM FactoryWorksInOrder == Spec => []InOrder
  <1>1. FInv => InOrder
    BY DEF FInv, TypeOK, WorkInv, InOrder
  <1> QED BY <1>1, FactoryInvariant, PTL

\* No record that the factory resolved or decomposed is dispatched again.
THEOREM FactoryNeverRepeats == Spec => []NeverTwice
  <1>1. FInv => NeverTwice
    BY DEF FInv, TypeOK, TickInv, NeverTwice
  <1> QED BY <1>1, FactoryInvariant, PTL

\* In the order of the toposort, no child is refused for a dependency that is
\* yet to come.
THEOREM PredecessorsComeFirst == Spec => []PredecessorsFirst
  <1>1. FInv => PredecessorsFirst
    <2> SUFFICES ASSUME FInv, pc = "author"
                 PROVE  todo # <<>> /\ Head(todo).deps \subseteq Present
      BY DEF PredecessorsFirst
    <2>1. todo \in Seq(Node) /\ todo # <<>> /\ InTurn
      BY DEF FInv, TypeOK, TickInv
    <2>2. 1 \in DOMAIN todo /\ Head(todo) = todo[1] /\ \A j \in DOMAIN todo : ~(j < 1)
      BY <2>1
    <2> QED BY <2>1, <2>2 DEF InTurn
  <1> QED BY <1>1, FactoryInvariant, PTL

-----------------------------------------------------------------------------
(* The marker of the batch *)

\* The leaves whose holdout is still to be decided.
Waiting == batch \cup (IF pc = "select" THEN {cur} ELSE {})

\* As long as all decisions of its policy were counted, the marker of a leaf is
\* what the count will say when its turn comes.
MarkInv ==
  /\ pc \in { "between", "select" } => ~holdout
  /\ missed \cap Waiting = {}
  /\ pc = "select" => \A k \in batch : cur < k
  /\ \A l \in Waiting :
       IF PolicyOf[l] = None THEN ~marker[l]
       ELSE (\A m \in missed : PolicyOf[m] # PolicyOf[l]) =>
              marker[l] = Holdout(counts[PolicyOf[l]] + Position(Waiting, l))
  /\ MarkerExplained

LEMMA Earlier ==
  ASSUME NEW W \in SUBSET Ids, NEW r \in Ids
  PROVE  /\ IsFiniteSet({ k \in W : k < r /\ PolicyOf[k] = PolicyOf[r] })
         /\ Position(W, r) \in Nat
<1>1. r \in Nat /\ W \subseteq Nat
  BY IdsAssumption
<1>2. IsFiniteSet(0 .. r)
  BY <1>1, FS_Interval
<1>3. { k \in W : k < r /\ PolicyOf[k] = PolicyOf[r] } \subseteq 0 .. r
  <2>1. ASSUME NEW k \in W, k < r PROVE k \in 0 .. r
    <3>1. k \in Nat
      BY <1>1
    <3> QED BY <1>1, <2>1, <3>1
  <2> QED BY <2>1
<1>4. IsFiniteSet({ k \in W : k < r /\ PolicyOf[k] = PolicyOf[r] })
  BY <1>2, <1>3, FS_Subset
<1> QED BY <1>4, FS_CardinalityType DEF Position

LEMMA PositionOfFirst ==
  ASSUME NEW W \in SUBSET Ids, NEW r \in Ids, \A k \in W : k # r => r < k
  PROVE  Position(W, r) = 0
<1>1. ASSUME NEW k \in W, k < r PROVE FALSE
  <2>1. r \in Nat /\ k \in Nat
    BY IdsAssumption
  <2> QED BY <1>1, <2>1
<1>2. { k \in W : k < r /\ PolicyOf[k] = PolicyOf[r] } = {}
  BY <1>1
<1> QED BY <1>2, FS_EmptySet DEF Position

\* When a leaf leaves, only the later ones of its policy move up.
LEMMA PositionWithout ==
  ASSUME NEW W \in SUBSET Ids, NEW c \in W, NEW r \in W \ {c}, c < r
  PROVE  Position(W \ {c}, r) = IF PolicyOf[c] = PolicyOf[r] THEN Position(W, r) - 1 ELSE Position(W, r)
<1> DEFINE S == { k \in W : k < r /\ PolicyOf[k] = PolicyOf[r] }
           T == { k \in W \ {c} : k < r /\ PolicyOf[k] = PolicyOf[r] }
<1>1. Position(W, r) = Cardinality(S) /\ Position(W \ {c}, r) = Cardinality(T) /\ IsFiniteSet(S)
  BY Earlier DEF Position
<1>2. CASE PolicyOf[c] = PolicyOf[r]
  <2>1. c \in S /\ T = S \ {c}
    BY <1>2
  <2> HIDE DEF S, T
  <2>2. Cardinality(T) = Cardinality(S) - 1
    BY <1>1, <2>1, FS_RemoveElement
  <2> QED BY <1>1, <1>2, <2>2
<1>3. CASE PolicyOf[c] # PolicyOf[r]
  <2>1. T = S
    BY <1>3
  <2> HIDE DEF S, T
  <2> QED BY <1>1, <1>3, <2>1
<1> QED BY <1>2, <1>3

\* Steps that change nothing of this, or end or continue a dispatch.
LEMMA QuietMark ==
  ASSUME FInv, MarkInv, UNCHANGED << counts, missed, batch, marker >>,
         \/ UNCHANGED << pc, cur, holdout >>
         \/ pc' = "between" /\ ~holdout' /\ pc # "select"
         \/ pc \notin { "between", "select" } /\ pc' \notin { "between", "select" } /\ UNCHANGED << cur, holdout >>
  PROVE  MarkInv'
<1>1. Waiting' = Waiting
  BY DEF Waiting, MarkInv
<1> QED BY <1>1 DEF MarkInv, MarkerExplained

LEMMA WalkMark ==
  ASSUME FInv, MarkInv, Walk
  PROVE  MarkInv'
<1>1. /\ pc = "between" /\ pc' = "between" /\ missed' = {} /\ counts' = counts /\ holdout' = holdout
      /\ batch' \subseteq Ids /\ marker' = Holdouts(batch')
  BY DEF Walk
<1>2. Waiting' = batch'
  BY <1>1 DEF Waiting
<1>3. ASSUME NEW l \in batch'
      PROVE  IF PolicyOf[l] = None THEN ~marker'[l]
             ELSE marker'[l] = Holdout(counts'[PolicyOf[l]] + Position(batch', l))
  <2>1. l \in Ids
    BY <1>1
  <2>2. marker'[l] = (PolicyOf[l] # None /\ Holdout(counts[PolicyOf[l]] + Position(batch', l)))
    BY <1>1, <2>1 DEF Holdouts
  <2>3. Holdout(counts[PolicyOf[l]] + Position(batch', l)) \in BOOLEAN
    BY DEF Holdout
  <2> QED BY <1>1, <2>2, <2>3
<1> QED BY <1>1, <1>2, <1>3 DEF MarkInv, MarkerExplained

LEMMA PredictMark ==
  ASSUME FInv, MarkInv, NEW l \in Ids, Begin(l) \/ PredictorFails(l)
  PROVE  MarkInv'
<1>1. /\ pc = "between" /\ Waiting = batch /\ l \in batch /\ batch \subseteq Ids
      /\ \A k \in batch : l <= k
  BY DEF Begin, PredictorFails, NextLeaf, Waiting, FInv, TypeOK
<1>2. \A k \in batch \ {l} : l < k
  <2> SUFFICES ASSUME NEW k \in batch, k # l PROVE l < k
    OBVIOUS
  <2>1. l \in Nat /\ k \in Nat /\ l <= k
    BY <1>1, IdsAssumption
  <2> QED BY <2>1
<1>3. CASE Begin(l)
  <2>1. /\ batch' = batch \ {l} /\ cur' = l /\ pc' = "select"
        /\ UNCHANGED << counts, missed, marker, holdout >>
    BY <1>3 DEF Begin
  <2>2. Waiting' = Waiting
    BY <1>1, <2>1 DEF Waiting
  <2> QED BY <1>1, <1>2, <2>1, <2>2 DEF MarkInv, MarkerExplained
<1>4. CASE PredictorFails(l)
  <2>1. /\ batch' = batch \ {l} /\ missed' = missed \cup {l} /\ PolicyOf[l] # None
        /\ UNCHANGED << counts, marker, pc, cur, holdout >>
    BY <1>4 DEF PredictorFails
  <2>2. Waiting' = batch \ {l}
    BY <1>1, <2>1 DEF Waiting
  <2>3. ASSUME NEW k \in batch \ {l}, PolicyOf[k] # PolicyOf[l]
        PROVE  Position(batch \ {l}, k) = Position(batch, k)
    BY <1>1, <1>2, <2>3, PositionWithout
  <2> QED BY <1>1, <2>1, <2>2, <2>3 DEF MarkInv, MarkerExplained
<1> QED BY <1>3, <1>4

\* The leaf that leaves with its decision is the first of those that wait.
LEMMA Selecting ==
  ASSUME FInv, MarkInv, pc = "select"
  PROVE  /\ cur \in Waiting /\ Waiting \subseteq Ids /\ batch = Waiting \ {cur}
         /\ \A k \in batch : cur < k
         /\ Position(Waiting, cur) = 0
         /\ \A k \in batch : Position(batch, k) = IF PolicyOf[cur] = PolicyOf[k]
                                                    THEN Position(Waiting, k) - 1
                                                    ELSE Position(Waiting, k)
<1>1. cur \in Ids /\ batch \subseteq Ids /\ cur \notin batch
  BY DEF FInv, TypeOK, TickInv
<1>2. cur \in Waiting /\ Waiting \subseteq Ids /\ batch = Waiting \ {cur} /\ \A k \in batch : cur < k
  BY <1>1 DEF Waiting, MarkInv
<1>3. Position(Waiting, cur) = 0
  BY <1>1, <1>2, PositionOfFirst
<1> QED BY <1>2, <1>3, PositionWithout

LEMMA SelectMark ==
  ASSUME FInv, MarkInv, Consult \/ SelectByFitness \/ NoResolver
  PROVE  MarkInv'
<1>1. pc = "select" /\ pc' # "select" /\ batch' = batch /\ marker' = marker
  BY DEF Consult, SelectByFitness, NoResolver, Return
<1>2. /\ cur \in Waiting /\ Waiting \subseteq Ids /\ batch = Waiting \ {cur} /\ cur \in Ids
      /\ Position(Waiting, cur) = 0
      /\ \A k \in batch : Position(batch, k) = IF PolicyOf[cur] = PolicyOf[k]
                                                 THEN Position(Waiting, k) - 1
                                                 ELSE Position(Waiting, k)
  BY <1>1, Selecting
<1>3. Waiting' = batch /\ ~holdout
  BY <1>1 DEF Waiting, MarkInv
<1>4. CASE SelectByFitness \/ NoResolver
  <2>1. PolicyOf[cur] = None /\ UNCHANGED << counts, missed >> /\ ~holdout'
        /\ (pc' = "between" \/ UNCHANGED cur)
    BY <1>3, <1>4 DEF SelectByFitness, NoResolver, Return, stream
  <2>2. \A k \in batch : PolicyOf[k] # None => Position(batch, k) = Position(Waiting, k)
    BY <1>2, <2>1
  <2>3. ~marker[cur]
    BY <1>2, <2>1 DEF MarkInv
  <2>4. MarkerExplained'
    <3>1. holdout' \in BOOLEAN
      BY <1>4 DEF SelectByFitness, NoResolver, Return, FInv, TypeOK
    <3>2. marker[cur] \in BOOLEAN
      BY <1>2 DEF FInv, TypeOK
    <3>3. holdout' = FALSE /\ marker[cur] = FALSE
      BY <2>1, <2>3, <3>1, <3>2
    <3>4. pc' = "between" \/ holdout' = marker'[cur']
      BY <1>1, <2>1, <3>3
    <3> QED BY <3>4 DEF MarkerExplained
  <2> QED BY <1>1, <1>2, <1>3, <2>1, <2>2, <2>4 DEF MarkInv
<1>5. CASE Consult
  <2>1. PICK p \in Policies : p = PolicyOf[cur] /\ p # None
    BY <1>2, <1>5, PolicyAssumption DEF Consult
  <2>2. /\ holdout' = Holdout(counts[p]) /\ cur' = cur /\ pc' \in { "run", "resolve" }
        /\ \/ counts' = [ counts EXCEPT ![p] = @ + 1 ] /\ UNCHANGED missed
           \/ missed' = missed \cup {cur} /\ UNCHANGED counts
    BY <1>5, <2>1 DEF Consult
  <2>3. counts \in [ Policies -> Nat ] /\ counts[p] \in Nat
    BY <2>1 DEF FInv, TypeOK
  <2>4. cur \notin missed
    BY <1>2 DEF MarkInv
  <2>5. MarkerExplained'
    <3>1. (\A m \in missed : PolicyOf[m] # p) => marker[cur] = Holdout(counts[p])
      BY <1>2, <2>1, <2>3 DEF MarkInv
    <3>2. missed \subseteq missed' \ {cur}
      BY <2>2, <2>4
    <3> QED BY <1>1, <2>1, <2>2, <3>1, <3>2 DEF MarkerExplained
  <2>6. missed' \cap batch = {}
    BY <1>2, <2>2 DEF MarkInv
  <2>7. ASSUME NEW l \in batch, PolicyOf[l] # None, \A m \in missed' : PolicyOf[m] # PolicyOf[l]
        PROVE  marker[l] = Holdout(counts'[PolicyOf[l]] + Position(batch, l))
    <3>1. l \in Waiting /\ \A m \in missed : PolicyOf[m] # PolicyOf[l]
      BY <1>2, <2>2, <2>7
    <3>2. marker[l] = Holdout(counts[PolicyOf[l]] + Position(Waiting, l))
      BY <2>7, <3>1 DEF MarkInv
    <3>3. Position(Waiting, l) \in Nat
      <4>1. Waiting \in SUBSET Ids /\ l \in Ids
        BY <1>2, <3>1
      <4> QED BY <4>1, Earlier
    <3>4. CASE PolicyOf[l] = p
      <4>1. counts' = [ counts EXCEPT ![p] = @ + 1 ]
        BY <2>1, <2>2, <2>7, <3>4
      <4>2. counts'[p] = counts[p] + 1 /\ Position(batch, l) = Position(Waiting, l) - 1
        BY <1>2, <2>1, <2>3, <3>4, <4>1
      <4>3. counts'[p] + Position(batch, l) = counts[p] + Position(Waiting, l)
        BY <2>3, <3>3, <4>2
      <4> QED BY <3>2, <3>4, <4>3
    <3>5. CASE PolicyOf[l] # p
      <4>1. Position(batch, l) = Position(Waiting, l)
        BY <1>2, <2>1, <3>5
      <4>2. counts'[PolicyOf[l]] = counts[PolicyOf[l]]
        BY <1>2, <2>2, <2>3, <2>7, <3>1, <3>5, PolicyAssumption
      <4> QED BY <3>2, <4>1, <4>2
    <3> QED BY <3>4, <3>5
  <2>8. \A l \in batch : PolicyOf[l] = None => ~marker[l]
    BY <1>2 DEF MarkInv
  <2> QED BY <1>1, <1>3, <2>2, <2>5, <2>6, <2>7, <2>8 DEF MarkInv
<1> QED BY <1>4, <1>5

LEMMA NextMark == FInv /\ MarkInv /\ [Next]_vars => MarkInv'
  <1> SUFFICES ASSUME FInv, MarkInv, [Next]_vars PROVE MarkInv'
    OBVIOUS
  <1>1. CASE Walk \/ (\E l \in Ids : Begin(l) \/ PredictorFails(l)) \/ Consult \/ SelectByFitness \/ NoResolver
    BY <1>1, WalkMark, PredictMark, SelectMark
  <1>2. CASE AnswerValue \/ (\E s \in GraphSpecs : AnswerGraph(s)) \/ AnswerNothing \/ AnswerFails
    BY <1>2, QuietMark DEF AnswerValue, AnswerGraph, AnswerNothing, AnswerFails, Return, stream
  <1>3. CASE Resolve \/ ResolveRefused \/ Expand
    BY <1>3, QuietMark DEF Resolve, ResolveRefused, Expand, Return, stream
  <1>4. CASE NewChild \/ ChildRefused \/ ChildForbidden
    BY <1>4, QuietMark DEF NewChild, ChildRefused, ChildForbidden, Return, stream
  <1>5. CASE Others \/ UNCHANGED vars
    <2>1. UNCHANGED << counts, missed, batch, marker, pc, cur, holdout >>
      BY <1>5 DEF Others, Author, ResolveByHand, Cancel, Supersede, ExpandByHand, Collapse, factory,
                  vars, stream
    <2> QED BY <2>1, QuietMark
  <1> QED BY <1>1, <1>2, <1>3, <1>4, <1>5 DEF Next, Tick

\* The holdouts that the marker of a batch announces are those that the selections
\* decide, for any number of policies and leaves, unless an earlier leaf of the
\* policy had no selection that counts (tick.py, selector_op.py).
THEOREM MarkersAreExplained == Spec => []MarkerExplained
  <1>1. Init => MarkInv
    BY DEF Init, MarkInv, MarkerExplained, Waiting
  <1>2. FInv /\ MarkInv /\ [Next]_vars => MarkInv'
    BY NextMark
  <1>3. MarkInv => MarkerExplained
    BY DEF MarkInv
  <1> QED BY <1>1, <1>2, <1>3, FactoryInvariant, PTL DEF Spec
=============================================================================
