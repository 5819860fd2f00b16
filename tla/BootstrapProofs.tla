-------------------------- MODULE BootstrapProofs --------------------------
(* Theorems of Bootstrap, for any types, resolvers, configuration and       *)
(* records, any references between them, any names that lose a suffix, any  *)
(* repositories that a kernel left complete and any number of deaths.       *)
EXTENDS Bootstrap, FiniteSetTheorems, TLAPS

(***************************************************************************)
(* The inductive invariant                                                 *)
(***************************************************************************)
Phases == { "idle", "fresh", "upgrade", "structural", "vendored", "frontmatter",
            "references", "bodies", "relocate", "backfill", "finalize" }
Ending == { "fresh", "upgrade", "finalize" }
Events == { "init", "upgrade", "migration-0.2", "migration-1.0.1" }

Effects ==
  [ do : {"version"}, of : Versions ] \cup [ do : {"body"}, of : Elements(Types) ]
    \cup [ do : {"record"}, of : Files ] \cup [ do : {"unlink"}, of : Configured ]
    \cup [ do : {"rewrite"}, of : Elements(Users) \X User ]
    \cup [ do : {"event"}, of : Events ] \cup [ do : {"index"}, of : {None} ]

Typed == TypeOK /\ pc \in Phases /\ todo \in Seq(Effects)

\* What is written before what.
Rank(p, e) ==
  CASE e.do = "version" -> IF p = "fresh" THEN 0 ELSE 7
    [] e.do = "body"    -> 1
    [] e.do = "record"  -> IF e.of = "scope" THEN 3 ELSE IF e.of = "bootstrap" THEN 4 ELSE 2
    [] e.do = "event"   -> 5
    [] e.do = "index"   -> 6
    [] OTHER            -> 0

Sorted(p, s) == \A i, j \in DOMAIN s : i < j => Rank(p, s[i]) <= Rank(p, s[j])

VersionsIn(s) == { i \in DOMAIN s : s[i].do = "version" }

Ordered ==
  pc \in Ending =>
    /\ Sorted(pc, todo)
    /\ \A i \in VersionsIn(todo) : i = IF pc = "fresh" THEN 1 ELSE Len(todo)

Vendor == Elements(Types) \cup Elements(Resolvers)

\* What each phase may have to write.
Fits ==
  /\ pc = "idle" => todo = << >>
  /\ Pending("version") # {} => pc \in Ending
  /\ Pending("body") # {} => pc \in { "fresh", "upgrade", "vendored", "bodies" }
  /\ Pending("record") # {} => pc \in { "fresh", "upgrade", "structural", "vendored" }
  /\ pc = "upgrade" => Pending("record") \subseteq Vendor
  /\ Pending("unlink") # {} => pc = "structural"
  /\ Pending("rewrite") # {} => pc \in { "frontmatter", "references", "relocate", "backfill" }
  /\ Pending("event") # {} => pc \in Ending
  /\ Pending("index") # {} => pc \in Ending

\* Where a version is pending, it is the one the phase aims at; where none is, it
\* has been written.
Aimed ==
  /\ pc \in { "structural", "vendored", "frontmatter", "references" } => version = "0.1.0"
  /\ pc \in { "bodies", "relocate", "backfill" } => version = "1.0.0"
  /\ version = None => pc \in { "idle", "fresh" }
  /\ pc = "fresh" =>
       version = IF Pending("version") = {} THEN "current" ELSE None
  /\ pc = "upgrade" => (version = "current" <=> Pending("version") = {})
  /\ pc = "finalize" =>
       version \in IF Pending("version") = {} THEN { "0.2.0", "current" } ELSE { "0.1.0", "1.0.0" }
  /\ pc \in { "fresh", "upgrade" } => Pending("version") \subseteq { "current" }
  /\ pc = "finalize" => Pending("version") \subseteq { IF version = "0.1.0" THEN "0.2.0" ELSE "current" }

\* What was written is never taken back.
Climbed ==
  /\ \A v \in Versions : << "upgrade", v >> \in climbed => version = "current"
  /\ << "finalize", "1.0.0" >> \in climbed => version = "current"
  /\ << "finalize", "0.1.0" >> \in climbed => version \in { "0.2.0", "current" }

\* The indexes are written after the last record.
IndexLast ==
  /\ pc \in Ending => Pending("index") # {} \/ (indexed /\ Pending("record") = {})
  /\ version = "current" =>
       indexed \/ halfway \/ (pc \in { "fresh", "upgrade" } /\ Pending("index") # {})

\* A repository without a version is empty; a first init writes everything in order.
Born ==
  /\ version = None => files = {} /\ ymls = {} /\ DOMAIN rec = {} /\ ledger = {}
  /\ pc = "fresh" =>
       /\ DOMAIN rec = {}
       /\ Elements(Staged) \subseteq files \cup Pending("record")
       /\ Pending("record") \subseteq Elements(Staged)
       /\ Pending("record") # {} => ledger = {}
       /\ "bootstrap" \in files => "scope" \in files
       /\ "scope" \in files => Pending("record") \subseteq { "scope", "bootstrap" }

\* What kernel.init takes for a repository.
Scoped == UserScopes \cap files # {}

Whole ==
  /\ version = "current" /\ ~Scoped =>
       /\ "bootstrap" \notin files /\ ledger = {} /\ DOMAIN rec = {}
       /\ pc = "fresh" \/ (pc = "idle" /\ halfway)
  /\ version = "current" /\ Scoped /\ << "upgrade", "0.1.0" >> \notin climbed =>
       { "kernel.self", "_kernel", "human" } \subseteq files
  /\ version = "current" => "bootstrap" \in files \/ halfway \/ pc = "fresh"
  /\ version \in { "0.1.0", "0.2.0", "1.0.0" } => "bootstrap" \in files
  /\ version \in { "0.2.0", "1.0.0" } => { "kernel.self", "_kernel", "human" } \subseteq files
  /\ version = "1.0.0" => Scoped
  /\ pc = "upgrade" => Scoped
  /\ version = "0.1.0" /\ deaths = 0 => pc # "upgrade" /\ (pc = "idle" => ~Scoped)
  /\ << "upgrade", "0.1.0" >> \in climbed => deaths > 0

\* An upgrade adds what the repository lacks.
Raised ==
  /\ pc = "upgrade" =>
       /\ "upgrade" \in ledger \/ "upgrade" \in Pending("event")
       /\ Vendor \subseteq files \cup Pending("record")
       /\ \A t \in Elements(Types) : bodies[t] = "new" \/ t \in Pending("body")
  /\ version = "current" /\ (\E v \in Versions : << "upgrade", v >> \in climbed) =>
       /\ "upgrade" \in ledger
       /\ Vendor \subseteq files
       /\ \A t \in Elements(Types) : bodies[t] = "new"

\* v0.1 to v0.2: at the end, and afterwards.
End02  == pc = "finalize" /\ version = "0.1.0"
Over02 == version = "0.2.0" /\ << "finalize", "0.1.0" >> \in climbed

\* The users whose records are still to be rewritten.
Rewritten == { p[1] : p \in Pending("rewrite") }

\* A file that is to be removed has its record on disk, or before it in s.
Backed(s, F) ==
  \A j \in DOMAIN s : s[j].do = "unlink" =>
     \/ s[j].of \in F
     \/ \E i \in DOMAIN s : i < j /\ s[i].do = "record" /\ s[i].of = s[j].of

Configuration ==
  /\ pc = "structural" =>
       ymls \subseteq Pending("unlink") \cup (left \cap files) /\ Backed(todo, files)
  /\ pc \in { "vendored", "frontmatter", "references" } \/ End02 \/ Over02 =>
       ymls \subseteq left \cap files
  /\ version = "0.1.0" => ymls \cap files \subseteq left \cup Pending("unlink")

Content ==
  /\ pc = "vendored" =>
       /\ Vendor \cup { "_kernel", "kernel.self", "human" } \subseteq files \cup Pending("record")
       /\ \A t \in Elements(Types) : bodies[t] = "new" \/ t \in Pending("body")
  /\ pc \in { "frontmatter", "references" } \/ End02 \/ Over02 =>
       /\ Vendor \cup { "_kernel", "kernel.self", "human" } \subseteq files
       /\ \A t \in Elements(Types) : bodies[t] = "new"

Form ==
  /\ pc = "frontmatter" =>
       \A u \in DOMAIN rec : Stays(rec[u]) \/ u \in Rewritten
  /\ pc = "references" \/ End02 \/ Over02 =>
       \A u \in DOMAIN rec : Stays(rec[u])

Logged02 ==
  /\ End02 => "migration-0.2" \in ledger \/ "migration-0.2" \in Pending("event")
  /\ Over02 => /\ "migration-0.2" \in ledger /\ indexed
               /\ pc \in { "idle", "upgrade", "finalize" } /\ Pending("record") = {}

\* v1.0 to v1.0.1, likewise.
End101  == pc = "finalize" /\ version = "1.0.0"
Over101 == version = "current" /\ << "finalize", "1.0.0" >> \in climbed

Bodies101 ==
  /\ pc = "bodies" => \A t \in Elements(Types) : bodies[t] = "new" \/ t \in Pending("body")
  /\ pc \in { "relocate", "backfill" } \/ End101 \/ Over101 =>
       \A t \in Elements(Types) : bodies[t] = "new"

Records101 ==
  /\ pc = "relocate" => \A u \in DOMAIN rec : ~Moves(rec[u]) \/ u \in Rewritten
  /\ pc = "backfill" \/ End101 \/ Over101 => \A u \in DOMAIN rec : ~Moves(rec[u])
  /\ pc = "backfill" => \A u \in DOMAIN rec : rec[u].via \/ u \in Rewritten
  /\ End101 \/ Over101 => \A u \in DOMAIN rec : rec[u].via

Logged101 ==
  /\ Over101 => "migration-1.0.1" \in ledger \/ deaths > 0
  /\ deaths = 0 =>
       /\ End101 => "migration-1.0.1" \in ledger \/ "migration-1.0.1" \in Pending("event")
       /\ pc \in { "relocate", "backfill" } => worked
       /\ pc = "bodies" => worked \/ Pending("body") # {}
       /\ pc = "idle" /\ version = "1.0.0" => \E t \in Elements(Types) : bodies[t] # "new"

\* The id of a record when the renaming is through.
Bare(n)  == IF n \in DOMAIN Stripped THEN Stripped[n] ELSE n
Final(v) == IF rec[v].node THEN rec[v].id ELSE Bare(rec[v].id)

Linked(u)  == rec[u].deps = { rec[v].id : v \in rec[u].means }
Settled(u) == rec[u].deps = { Final(v) : v \in rec[u].means }

\* What a record under rewriting becomes.
Becomes ==
  \A p \in Pending("rewrite") :
    /\ p[1] \in DOMAIN rec
    /\ pc = "frontmatter" => p[2] = [ rec[p[1]] EXCEPT !.form = "v02", !.via = TRUE ]
    /\ pc = "references" =>
         /\ Suffixing \in files /\ ~rec[p[1]].node
         /\ p[2] = [ rec[p[1]] EXCEPT !.id = Bare(@), !.deps = p[2].deps ]
         /\ p[1] \in torn \/ p[2].deps = { Final(v) : v \in rec[p[1]].means }
    /\ pc = "relocate" => p[2] = [ rec[p[1]] EXCEPT !.at = "home" ]
    /\ pc = "backfill" => p[2] = [ rec[p[1]] EXCEPT !.via = TRUE ]

\* References point to the ids that the renaming has given or is about to give.
Pointing ==
  /\ \A u \in DOMAIN rec : rec[u].means \subseteq DOMAIN rec
  /\ \A u, v \in DOMAIN rec :
       rec[u].node /\ ~rec[v].node /\ rec[u].id = rec[v].id => rec[u].id \notin DOMAIN Stripped
  /\ \A u \in DOMAIN rec : rec[u].node \/ u \in torn \/
       /\ pc = "references" /\ Suffixing \in files => Settled(u) \/ u \in Rewritten
       /\ pc # "references" => Linked(u) \/ (Settled(u) /\ torn \cap rec[u].means # {})
       /\ Suffixing \notin files \/ version \in { "0.2.0", "1.0.0" } \/ End02 => Linked(u)
  /\ pc = "references" /\ Suffixing \in files =>
       \A u \in DOMAIN rec : rec[u].node \/ rec[u].id \notin DOMAIN Stripped \/ u \in Rewritten

\* The inductive invariant: what of the plan under way is still to be written, in
\* which order, and what the disk then already has.
BInv ==
  /\ Typed /\ Ordered /\ Fits /\ Aimed /\ Climbed /\ IndexLast
  /\ Born /\ Whole /\ Raised
  /\ Configuration /\ Content /\ Form /\ Logged02
  /\ Bodies101 /\ Records101 /\ Logged101
  /\ Becomes /\ Pointing

-----------------------------------------------------------------------------
(***************************************************************************)
(* Induction and selections                                                *)
(***************************************************************************)
\* A set of numbers has a least one.
LEMMA LeastNumber ==
  ASSUME NEW T \in SUBSET Nat, T # {}
  PROVE  \E m \in T : \A n \in T : m <= n
<1>1. PICK m \in T : \A n \in T : ~(<< n, m >> \in OpToRel(<, Nat))
  BY WFMin, NatLessThanWellFounded
<1>2. ASSUME NEW n \in T PROVE m <= n
  <2>1. n < m => << n, m >> \in OpToRel(<, Nat)
    BY DEF OpToRel
  <2>2. ~(n < m)
    BY <1>1, <2>1, Zenon
  <2> QED BY <2>2
<1> QED BY <1>2

LEMMA Induction ==
  ASSUME NEW T, 0 \in T, \A n \in Nat : n \in T => n + 1 \in T
  PROVE  Nat \subseteq T
<1>1. SUFFICES ASSUME Nat \ T # {} PROVE FALSE
  OBVIOUS
<1>2. PICK x \in Nat \ T : \A y \in Nat \ T : x <= y
  BY <1>1, LeastNumber
<1>3. x - 1 \in Nat /\ x - 1 \in T
  BY <1>2
<1> QED BY <1>2, <1>3

LEMMA NoElements == Elements(<< >>) = {}
<1>1. DOMAIN << >> = {}
  OBVIOUS
<1> QED BY <1>1 DEF Elements

LEMMA OneElement == \A x : Elements(<< x >>) = { x }
<1> TAKE x
<1>1. DOMAIN << x >> = { 1 } /\ << x >>[1] = x
  OBVIOUS
<1> QED BY <1>1 DEF Elements

LEMMA TwoElements == \A x, y : Elements(<< x, y >>) = { x, y }
<1> TAKE x, y
<1>1. DOMAIN << x, y >> = { 1, 2 } /\ << x, y >>[1] = x /\ << x, y >>[2] = y
  OBVIOUS
<1> QED BY <1>1 DEF Elements

LEMMA ThreeElements == \A x, y, z : Elements(<< x, y, z >>) = { x, y, z }
<1> TAKE x, y, z
<1>1. DOMAIN << x, y, z >> = { 1, 2, 3 }
        /\ << x, y, z >>[1] = x /\ << x, y, z >>[2] = y /\ << x, y, z >>[3] = z
  OBVIOUS
<1> QED BY <1>1 DEF Elements

LEMMA ConcatElements ==
  ASSUME NEW S, NEW s \in Seq(S), NEW T, NEW t \in Seq(T)
  PROVE  /\ s \o t \in Seq(S \cup T)
         /\ Elements(s \o t) = Elements(s) \cup Elements(t)
<1>1. s \in Seq(S \cup T) /\ t \in Seq(S \cup T)
  OBVIOUS
<1>2. DOMAIN (s \o t) = 1 .. Len(s) + Len(t)
  BY <1>1
<1>3. \A i \in DOMAIN (s \o t) : (s \o t)[i] = IF i <= Len(s) THEN s[i] ELSE t[i - Len(s)]
  BY <1>1
<1>4. \A i \in DOMAIN s : i \in DOMAIN (s \o t) /\ (s \o t)[i] = s[i]
  BY <1>2, <1>3
<1>5. \A i \in DOMAIN t : i + Len(s) \in DOMAIN (s \o t) /\ (s \o t)[i + Len(s)] = t[i]
  BY <1>2, <1>3
<1>6. \A i \in DOMAIN (s \o t) : (s \o t)[i] \in Elements(s) \cup Elements(t)
  BY <1>2, <1>3 DEF Elements
<1>7. Elements(s) \cup Elements(t) \subseteq Elements(s \o t)
  BY <1>4, <1>5 DEF Elements
<1>8. Elements(s \o t) \subseteq Elements(s) \cup Elements(t)
  BY <1>6 DEF Elements
<1>9. s \o t \in Seq(S \cup T)
  BY <1>1
<1> QED BY <1>7, <1>8, <1>9

\* What Selected computes on its way through s.
UpTo(f, s, S, m) ==
  f = [ n \in 0 .. m |->
          IF n = 0 THEN << >>
          ELSE f[n - 1] \o (IF s[n] \in S THEN << s[n] >> ELSE << >>) ]

LEMMA UpToExists ==
  ASSUME NEW S, NEW T, NEW s \in Seq(T), NEW m \in Nat
  PROVE  \E f : UpTo(f, s, S, m)
<1> DEFINE Has == { n \in Nat : \E f : UpTo(f, s, S, n) }
<1>1. 0 \in Has
  <2>1. UpTo([ n \in 0 .. 0 |-> << >> ], s, S, 0)
    BY DEF UpTo
  <2> QED BY <2>1
<1>2. ASSUME NEW n \in Nat, n \in Has PROVE n + 1 \in Has
  <2>1. PICK f : UpTo(f, s, S, n)
    BY <1>2
  <2> DEFINE more == f[n] \o (IF s[n + 1] \in S THEN << s[n + 1] >> ELSE << >>)
             g == [ k \in 0 .. n + 1 |-> IF k = n + 1 THEN more ELSE f[k] ]
  <2>2. \A k \in 0 .. n : g[k] = f[k]
    OBVIOUS
  <2>3. g[n + 1] = g[n] \o (IF s[n + 1] \in S THEN << s[n + 1] >> ELSE << >>)
    <3>1. g[n + 1] = more
      <4> HIDE DEF more
      <4>1. n + 1 \in 0 .. n + 1
        OBVIOUS
      <4> QED BY <4>1
    <3>2. g[n] = f[n]
      OBVIOUS
    <3> HIDE DEF g
    <3> QED BY <3>1, <3>2
  <2>4. \A k \in 0 .. n : f[k] = IF k = 0 THEN << >>
                                 ELSE f[k - 1] \o (IF s[k] \in S THEN << s[k] >> ELSE << >>)
    BY <2>1 DEF UpTo
  <2>5. \A k \in 0 .. n : k # 0 => k - 1 \in 0 .. n
    OBVIOUS
  <2>6. \A k \in 0 .. n + 1 : g[k] = IF k = 0 THEN << >>
                                     ELSE g[k - 1] \o (IF s[k] \in S THEN << s[k] >> ELSE << >>)
    <3> HIDE DEF g, more
    <3> TAKE k \in 0 .. n + 1
    <3>1. CASE k = n + 1
      <4>1. k - 1 = n /\ k # 0
        BY <3>1
      <4> QED BY <4>1, <3>1, <2>3
    <3>2. CASE k \in 0 .. n
      BY <3>2, <2>2, <2>4, <2>5
    <3> QED BY <3>1, <3>2
  <2>7. g = [ k \in 0 .. n + 1 |-> g[k] ]
    OBVIOUS
  <2>8. UpTo(g, s, S, n + 1)
    <3> HIDE DEF g, more
    <3> QED BY <2>6, <2>7 DEF UpTo
  <2> QED BY <2>8
<1>3. Nat \subseteq Has
  <2> HIDE DEF Has
  <2> QED BY <1>1, <1>2, Induction
<1> QED BY <1>3

\* A selection is a sequence of the elements that are in the set.
LEMMA SelectedElements ==
  ASSUME NEW T, NEW s \in Seq(T), NEW S
  PROVE  /\ Selected(s, S) \in Seq(T)
         /\ Elements(Selected(s, S)) = Elements(s) \cap S
<1> DEFINE f == CHOOSE g : UpTo(g, s, S, Len(s))
<1>1. Len(s) \in Nat /\ DOMAIN s = 1 .. Len(s) /\ \A i \in DOMAIN s : s[i] \in T
  OBVIOUS
<1>2. UpTo(f, s, S, Len(s))
  BY <1>1, UpToExists
<1>3. Selected(s, S) = f[Len(s)]
  BY DEF Selected, UpTo
<1> HIDE DEF f
<1> DEFINE Good == { n \in Nat : n <= Len(s) =>
                       /\ f[n] \in Seq(T)
                       /\ Elements(f[n]) = { s[i] : i \in 1 .. n } \cap S }
<1>4. 0 \in Good
  <2>1. f[0] = << >>
    BY <1>1, <1>2 DEF UpTo
  <2>2. Elements(<< >>) = {}
    BY NoElements
  <2>3. << >> \in Seq(T)
    OBVIOUS
  <2>4. { s[i] : i \in 1 .. 0 } = {}
    OBVIOUS
  <2> QED BY <2>1, <2>2, <2>3, <2>4
<1>5. ASSUME NEW n \in Nat, n \in Good PROVE n + 1 \in Good
  <2> SUFFICES ASSUME n + 1 <= Len(s)
               PROVE  /\ f[n + 1] \in Seq(T)
                      /\ Elements(f[n + 1]) = { s[i] : i \in 1 .. n + 1 } \cap S
    OBVIOUS
  <2>1. f[n + 1] = f[n] \o (IF s[n + 1] \in S THEN << s[n + 1] >> ELSE << >>)
    BY <1>1, <1>2 DEF UpTo
  <2>2. f[n] \in Seq(T) /\ Elements(f[n]) = { s[i] : i \in 1 .. n } \cap S
    BY <1>5, <1>1
  <2>3. s[n + 1] \in T
    BY <1>1
  <2>4. { s[i] : i \in 1 .. n + 1 } = { s[i] : i \in 1 .. n } \cup { s[n + 1] }
    OBVIOUS
  <2>5. CASE s[n + 1] \in S
    <3>1. f[n + 1] = f[n] \o << s[n + 1] >>
      BY <2>1, <2>5
    <3>2. Elements(f[n + 1]) = Elements(f[n]) \cup { s[n + 1] }
      <4>1. f[n] \in Seq(T) /\ << s[n + 1] >> \in Seq(T)
        BY <2>2, <2>3
      <4>2. Elements(<< s[n + 1] >>) = { s[n + 1] }
        BY OneElement
      <4>3. \A a, b \in Seq(T) : Elements(a \o b) = Elements(a) \cup Elements(b)
        BY ConcatElements
      <4> QED BY <3>1, <4>1, <4>2, <4>3, Zenon
    <3> QED BY <3>1, <3>2, <2>2, <2>3, <2>4, <2>5
  <2>6. CASE s[n + 1] \notin S
    <3>1. f[n + 1] = f[n]
      BY <2>1, <2>2, <2>6
    <3> QED BY <3>1, <2>2, <2>4, <2>6
  <2> QED BY <2>5, <2>6
<1>6. Len(s) \in Good
  <2> HIDE DEF Good
  <2> QED BY <1>1, <1>4, <1>5, Induction
<1>7. { s[i] : i \in 1 .. Len(s) } = Elements(s)
  BY <1>1 DEF Elements
<1> QED BY <1>1, <1>3, <1>6, <1>7

LEMMA EachElements ==
  ASSUME NEW d, NEW S, NEW s \in Seq(S)
  PROVE  /\ Each(d, s) \in Seq([ do : {d}, of : S ])
         /\ Elements(Each(d, s)) = { [ do |-> d, of |-> x ] : x \in Elements(s) }
<1>1. DOMAIN s = 1 .. Len(s) /\ Len(s) \in Nat /\ \A i \in DOMAIN s : s[i] \in S
  OBVIOUS
<1>2. Each(d, s) = [ i \in 1 .. Len(s) |-> [ do |-> d, of |-> s[i] ] ]
  BY <1>1 DEF Each
<1>3. Each(d, s) \in Seq([ do : {d}, of : S ])
  BY <1>1, <1>2
<1>4. \A i \in DOMAIN s : Each(d, s)[i] = [ do |-> d, of |-> s[i] ]
  BY <1>1, <1>2
<1>5. DOMAIN Each(d, s) = DOMAIN s
  BY <1>1, <1>2
<1> QED BY <1>3, <1>4, <1>5 DEF Elements

-----------------------------------------------------------------------------
(***************************************************************************)
(* What the phases leave to be written                                     *)
(***************************************************************************)
\* The objects of the effects of one kind in s.
Named(s, d) == { e.of : e \in { f \in Elements(s) : f.do = d } }

LEMMA PendingNamed == \A d : Pending(d) = Named(todo, d)
  BY DEF Pending, Named

LEMMA NothingNamed == \A d : Named(<< >>, d) = {}
  BY NoElements DEF Named

LEMMA ConcatNamed ==
  ASSUME NEW s \in Seq(Effects), NEW t \in Seq(Effects)
  PROVE  /\ s \o t \in Seq(Effects)
         /\ Elements(s \o t) = Elements(s) \cup Elements(t)
         /\ \A d : Named(s \o t, d) = Named(s, d) \cup Named(t, d)
<1>1. s \o t \in Seq(Effects)
  OBVIOUS
<1>2. Elements(s \o t) = Elements(s) \cup Elements(t)
  BY ConcatElements
<1> QED BY <1>1, <1>2 DEF Named

LEMMA EachNamed ==
  ASSUME NEW d, NEW S, NEW s \in Seq(S), [ do : {d}, of : S ] \subseteq Effects
  PROVE  /\ Each(d, s) \in Seq(Effects)
         /\ Elements(Each(d, s)) = { [ do |-> d, of |-> x ] : x \in Elements(s) }
         /\ Named(Each(d, s), d) = Elements(s)
         /\ \A c : c # d => Named(Each(d, s), c) = {}
<1>1. Elements(Each(d, s)) = { [ do |-> d, of |-> x ] : x \in Elements(s) }
  BY EachElements
<1>2. Each(d, s) \in Seq(Effects)
  <2> DEFINE R == [ do : {d}, of : S ]
  <2>1. Each(d, s) \in Seq(R)
    BY EachElements
  <2>2. R \subseteq Effects
    OBVIOUS
  <2> HIDE DEF R
  <2> QED BY <2>1, <2>2
<1>3. \A e \in Elements(Each(d, s)) : e.do = d /\ e.of \in Elements(s)
  BY <1>1
<1>4. \A x \in Elements(s) : [ do |-> d, of |-> x ] \in Elements(Each(d, s))
  BY <1>1
<1>5. Named(Each(d, s), d) \subseteq Elements(s)
  BY <1>3 DEF Named
<1>6. ASSUME NEW x \in Elements(s) PROVE x \in Named(Each(d, s), d)
  <2>1. [ do |-> d, of |-> x ].do = d /\ [ do |-> d, of |-> x ].of = x
    OBVIOUS
  <2> QED BY <1>4, <2>1 DEF Named
<1>7. ASSUME NEW c, c # d PROVE Named(Each(d, s), c) = {}
  BY <1>3, <1>7 DEF Named
<1> QED BY <1>1, <1>2, <1>5, <1>6, <1>7

LEMMA KindsOfEffects ==
  /\ [ do : {"version"}, of : Versions ] \subseteq Effects
  /\ [ do : {"body"}, of : Elements(Types) ] \subseteq Effects
  /\ [ do : {"record"}, of : Files ] \subseteq Effects
  /\ [ do : {"unlink"}, of : Configured ] \subseteq Effects
  /\ [ do : {"rewrite"}, of : Elements(Users) \X User ] \subseteq Effects
  /\ [ do : {"event"}, of : Events ] \subseteq Effects
  /\ [ do : {"index"}, of : {None} ] \subseteq Effects
  BY DEF Effects

LEMMA OneEach ==
  ASSUME NEW d, NEW S, NEW x \in S, [ do : {d}, of : S ] \subseteq Effects
  PROVE  /\ Each(d, << x >>) \in Seq(Effects)
         /\ Len(Each(d, << x >>)) = 1
         /\ Elements(Each(d, << x >>)) = { [ do |-> d, of |-> x ] }
         /\ Named(Each(d, << x >>), d) = {x}
         /\ \A c : c # d => Named(Each(d, << x >>), c) = {}
<1> DEFINE s == << x >>
<1>1. s \in Seq(S)
  OBVIOUS
<1>2. Elements(s) = {x}
  BY OneElement
<1>3. Len(Each(d, s)) = 1
  BY DEF Each
<1> HIDE DEF s
<1>4. /\ Each(d, s) \in Seq(Effects)
      /\ Elements(Each(d, s)) = { [ do |-> d, of |-> y ] : y \in Elements(s) }
      /\ Named(Each(d, s), d) = Elements(s)
      /\ \A c : c # d => Named(Each(d, s), c) = {}
  BY <1>1, EachNamed
<1>5. Elements(Each(d, s)) = { [ do |-> d, of |-> x ] }
  BY <1>2, <1>4
<1> QED BY <1>2, <1>3, <1>4, <1>5 DEF s

LEMMA LogNamed ==
  ASSUME NEW k \in Events
  PROVE  /\ Log(k) \in Seq(Effects)
         /\ Elements(Log(k)) = { [ do |-> "event", of |-> k ] }
         /\ Named(Log(k), "event") = {k}
         /\ \A c : c # "event" => Named(Log(k), c) = {}
<1>1. [ do : {"event"}, of : Events ] \subseteq Effects
  BY KindsOfEffects
<1> QED BY <1>1, OneEach, Zenon DEF Log

LEMMA IndexNamed ==
  /\ Index \in Seq(Effects)
  /\ Elements(Index) = { [ do |-> "index", of |-> None ] }
  /\ Named(Index, "index") = {None}
  /\ \A c : c # "index" => Named(Index, c) = {}
<1>1. [ do : {"index"}, of : {None} ] \subseteq Effects /\ None \in {None}
  BY KindsOfEffects
<1> QED BY <1>1, OneEach, Zenon DEF Index

LEMMA RaiseNamed ==
  ASSUME NEW v \in Versions
  PROVE  /\ Raise(v) \in Seq(Effects)
         /\ Len(Raise(v)) = 1
         /\ Elements(Raise(v)) = { [ do |-> "version", of |-> v ] }
         /\ Named(Raise(v), "version") = {v}
         /\ \A c : c # "version" => Named(Raise(v), c) = {}
<1>1. [ do : {"version"}, of : Versions ] \subseteq Effects
  BY KindsOfEffects
<1> QED BY <1>1, OneEach, Zenon DEF Raise

LEMMA Lists ==
  /\ Types \in Seq(Files) /\ Resolvers \in Seq(Files) /\ Types \o Resolvers \in Seq(Files)
  /\ Elements(Types \o Resolvers) = Vendor /\ Vendor \subseteq Files
  /\ Vendor \cap Own = {} /\ Vendor \cap Configured = {}
  /\ Own \subseteq Files /\ Configured \subseteq Files
  /\ Staged \in Seq(Files) /\ Elements(Staged) = Vendor \cup Own
  /\ \A k \in Kinds : Configs[k] \in Seq(Configured) /\ Elements(Configs[k]) \subseteq Configured
<1> DEFINE All == Vendor \cup Own
<1>1. Types \in Seq(Vendor) /\ Resolvers \in Seq(Vendor)
  BY FileAssumption DEF Vendor
<1>2. Types \o Resolvers \in Seq(Vendor) /\ Elements(Types \o Resolvers) = Vendor
  BY <1>1, ConcatElements DEF Vendor
<1>3. << "kernel.self", "_kernel" >> \in Seq(All)
        /\ Elements(<< "kernel.self", "_kernel" >>) = { "kernel.self", "_kernel" }
  BY TwoElements DEF Own
<1>4. << "human", "scope", "bootstrap" >> \in Seq(All)
        /\ Elements(<< "human", "scope", "bootstrap" >>) = { "human", "scope", "bootstrap" }
  BY ThreeElements DEF Own
<1>5. \A s, t \in Seq(All) : s \o t \in Seq(All) /\ Elements(s \o t) = Elements(s) \cup Elements(t)
  BY ConcatElements
<1>6. Types \in Seq(All) /\ Resolvers \in Seq(All)
  BY <1>1
<1>7. << "kernel.self", "_kernel" >> \o Types \in Seq(All)
        /\ Elements(<< "kernel.self", "_kernel" >> \o Types)
             = { "kernel.self", "_kernel" } \cup Elements(Types)
  BY <1>3, <1>5, <1>6, Zenon
<1>8. << "kernel.self", "_kernel" >> \o Types \o Resolvers \in Seq(All)
        /\ Elements(<< "kernel.self", "_kernel" >> \o Types \o Resolvers)
             = { "kernel.self", "_kernel" } \cup Elements(Types) \cup Elements(Resolvers)
  BY <1>5, <1>6, <1>7, Zenon
<1>9. Staged \in Seq(All)
        /\ Elements(Staged) = { "kernel.self", "_kernel" } \cup Elements(Types)
                                \cup Elements(Resolvers) \cup { "human", "scope", "bootstrap" }
  BY <1>4, <1>5, <1>8, Zenon DEF Staged
<1>10. Elements(Staged) = All
  BY <1>9 DEF Vendor, Own
<1>11. All \subseteq Files /\ Configured \subseteq Files
  BY <1>10 DEF Files
<1>12. \A k \in Kinds : Elements(Configs[k]) \subseteq Configured
  BY DEF Configured
<1>13. \A k \in Kinds : Configs[k] \in Seq(Configured)
  BY <1>12, FileAssumption
<1>14. Vendor \cap Own = {} /\ Vendor \cap Configured = {}
  BY <1>2, FileAssumption
<1>15. Types \in Seq(Files) /\ Resolvers \in Seq(Files) /\ Types \o Resolvers \in Seq(Files)
  BY <1>1, <1>2, <1>11
<1> QED BY <1>2, <1>9, <1>10, <1>11, <1>12, <1>13, <1>14, <1>15

LEMMA EmptyOrNot ==
  ASSUME NEW S, NEW s \in Seq(S)
  PROVE  s = << >> <=> Elements(s) = {}
<1>1. DOMAIN s = 1 .. Len(s) /\ Len(s) \in Nat
  OBVIOUS
<1>2. s # << >> => 1 \in DOMAIN s
  BY <1>1
<1> QED BY <1>2, NoElements DEF Elements

LEMMA MissingElements ==
  ASSUME NEW s \in Seq(Files)
  PROVE  /\ Missing(s) \in Seq(Files)
         /\ Elements(Missing(s)) = Elements(s) \ files
         /\ Missing(s) = << >> <=> Elements(s) \subseteq files
<1>1. Missing(s) \in Seq(Files) /\ Elements(Missing(s)) = Elements(s) \cap (Files \ files)
  BY SelectedElements DEF Missing
<1>2. Elements(s) \subseteq Files
  BY DEF Elements
<1>3. Missing(s) = << >> <=> Elements(Missing(s)) = {}
  BY <1>1, EmptyOrNot
<1> QED BY <1>1, <1>2, <1>3

LEMMA OutdatedElements ==
  /\ Outdated \in Seq(Elements(Types))
  /\ Elements(Outdated) = { t \in Elements(Types) : bodies[t] # "new" }
  /\ Outdated = << >> <=> \A t \in Elements(Types) : bodies[t] = "new"
<1> DEFINE Old == { t \in Elements(Types) : bodies[t] # "new" }
<1>1. Outdated = Selected(Types, Old) /\ Types \in Seq(Elements(Types))
  BY FileAssumption DEF Outdated
<1>2. Outdated \in Seq(Elements(Types)) /\ Elements(Outdated) = Elements(Types) \cap Old
  <2> HIDE DEF Old
  <2> QED BY <1>1, SelectedElements
<1>3. Outdated = << >> <=> Elements(Outdated) = {}
  BY <1>2, EmptyOrNot
<1> QED BY <1>2, <1>3

\* The records that are rewritten are those that differ.
LEMMA RewritesNamed ==
  ASSUME DOMAIN rec \subseteq Elements(Users), NEW new, \A u \in DOMAIN rec : new[u] \in User
  PROVE  /\ Rewrites(new) \in Seq(Effects)
         /\ Named(Rewrites(new), "rewrite") =
              { << u, new[u] >> : u \in { v \in DOMAIN rec : new[v] # rec[v] } }
         /\ \A c : c # "rewrite" => Named(Rewrites(new), c) = {}
<1> DEFINE D == { u \in DOMAIN rec : new[u] # rec[u] }
           c == Selected(Users, D)
           t == [ i \in DOMAIN c |-> << c[i], new[c[i]] >> ]
<1>1. c \in Seq(Elements(Users)) /\ Elements(c) = D
  BY SelectedElements, FileAssumption
<1>2. DOMAIN c = 1 .. Len(c) /\ Len(c) \in Nat /\ \A i \in DOMAIN c : c[i] \in D
  <2> HIDE DEF c, D
  <2> QED BY <1>1 DEF Elements
<1>3. t \in Seq(Elements(Users) \X User)
  <2>1. \A i \in DOMAIN c : << c[i], new[c[i]] >> \in Elements(Users) \X User
    BY <1>2
  <2> HIDE DEF c
  <2> QED BY <1>2, <2>1
<1>4. Elements(t) = { << u, new[u] >> : u \in D }
  <2>1. DOMAIN t = DOMAIN c
    OBVIOUS
  <2>2. \A i \in DOMAIN c : t[i] = << c[i], new[c[i]] >>
    OBVIOUS
  <2> HIDE DEF t, c, D
  <2>3. \A u \in D : \E i \in DOMAIN c : c[i] = u
    BY <1>1 DEF Elements
  <2>4. ASSUME NEW e \in Elements(t) PROVE e \in { << u, new[u] >> : u \in D }
    <3>1. PICK i \in DOMAIN t : e = t[i]
      BY DEF Elements
    <3> QED BY <3>1, <2>1, <2>2, <1>2
  <2>5. ASSUME NEW u \in D PROVE << u, new[u] >> \in Elements(t)
    <3>1. PICK i \in DOMAIN c : c[i] = u
      BY <2>3
    <3> QED BY <3>1, <2>1, <2>2 DEF Elements
  <2> QED BY <2>4, <2>5
<1>5. Rewrites(new) = Each("rewrite", t)
  BY DEF Rewrites
<1>6. [ do : {"rewrite"}, of : Elements(Users) \X User ] \subseteq Effects
  BY KindsOfEffects
<1> HIDE DEF t, c
<1>7. /\ Each("rewrite", t) \in Seq(Effects)
      /\ Named(Each("rewrite", t), "rewrite") = Elements(t)
      /\ \A d : d # "rewrite" => Named(Each("rewrite", t), d) = {}
  BY <1>3, <1>6, EachNamed
<1> QED BY <1>4, <1>5, <1>7, Zenon

-----------------------------------------------------------------------------
(***************************************************************************)
(* Order                                                                   *)
(***************************************************************************)
LEMMA LevelSorted ==
  ASSUME NEW p, NEW s, NEW k \in Nat, \A e \in Elements(s) : Rank(p, e) = k
  PROVE  Sorted(p, s)
  BY DEF Sorted, Elements

LEMMA ConcatSorted ==
  ASSUME NEW p, NEW s \in Seq(Effects), NEW t \in Seq(Effects), Sorted(p, s), Sorted(p, t),
         \A e \in Elements(s), f \in Elements(t) : Rank(p, e) <= Rank(p, f)
  PROVE  Sorted(p, s \o t)
<1> SUFFICES ASSUME NEW i \in DOMAIN (s \o t), NEW j \in DOMAIN (s \o t), i < j
             PROVE  Rank(p, (s \o t)[i]) <= Rank(p, (s \o t)[j])
  BY DEF Sorted
<1>1. DOMAIN (s \o t) = 1 .. Len(s) + Len(t) /\ Len(s) \in Nat /\ Len(t) \in Nat
  OBVIOUS
<1>2. \A k \in DOMAIN (s \o t) : (s \o t)[k] = IF k <= Len(s) THEN s[k] ELSE t[k - Len(s)]
  OBVIOUS
<1>3. DOMAIN s = 1 .. Len(s) /\ DOMAIN t = 1 .. Len(t)
  OBVIOUS
<1>4. CASE j <= Len(s)
  <2>1. i \in DOMAIN s /\ j \in DOMAIN s
    BY <1>1, <1>3, <1>4
  <2> QED BY <1>2, <1>4, <2>1, <1>1 DEF Sorted
<1>5. CASE i > Len(s)
  <2>1. i - Len(s) \in DOMAIN t /\ j - Len(s) \in DOMAIN t /\ i - Len(s) < j - Len(s)
    BY <1>1, <1>3, <1>5
  <2>2. (s \o t)[i] = t[i - Len(s)] /\ (s \o t)[j] = t[j - Len(s)]
    BY <1>1, <1>2, <1>5
  <2> QED BY <2>1, <2>2 DEF Sorted
<1>6. CASE i <= Len(s) /\ j > Len(s)
  <2>1. i \in DOMAIN s /\ j - Len(s) \in DOMAIN t
    BY <1>1, <1>3, <1>6
  <2>2. (s \o t)[i] = s[i] /\ (s \o t)[j] = t[j - Len(s)]
    BY <1>1, <1>2, <1>6
  <2> QED BY <2>1, <2>2 DEF Elements
<1> QED BY <1>1, <1>4, <1>5, <1>6

LEMMA NoVersions ==
  ASSUME NEW s, Named(s, "version") = {}
  PROVE  VersionsIn(s) = {}
  BY DEF Named, VersionsIn, Elements

LEMMA ConcatAt ==
  \A s, t \in Seq(Effects) :
    /\ DOMAIN s = 1 .. Len(s) /\ DOMAIN t = 1 .. Len(t)
    /\ DOMAIN (s \o t) = 1 .. Len(s) + Len(t)
    /\ Len(s \o t) = Len(s) + Len(t)
    /\ Len(s) \in Nat /\ Len(t) \in Nat
    /\ \A i \in DOMAIN (s \o t) : (s \o t)[i] = IF i <= Len(s) THEN s[i] ELSE t[i - Len(s)]
  OBVIOUS

LEMMA FirstVersion ==
  ASSUME NEW s \in Seq(Effects), NEW t \in Seq(Effects),
         \A i \in VersionsIn(s) : i = 1, VersionsIn(t) = {}
  PROVE  \A i \in VersionsIn(s \o t) : i = 1
<1>1. \A i \in DOMAIN (s \o t) :
        \/ i \in DOMAIN s /\ (s \o t)[i] = s[i]
        \/ i - Len(s) \in DOMAIN t /\ (s \o t)[i] = t[i - Len(s)]
  <2>1. /\ DOMAIN (s \o t) = 1 .. Len(s) + Len(t) /\ DOMAIN t = 1 .. Len(t)
        /\ DOMAIN s = 1 .. Len(s) /\ Len(s) \in Nat /\ Len(t) \in Nat
    BY ConcatAt, Zenon
  <2>2. \A i \in DOMAIN (s \o t) : (s \o t)[i] = IF i <= Len(s) THEN s[i] ELSE t[i - Len(s)]
    BY ConcatAt, Zenon
  <2> QED BY <2>1, <2>2
<1> QED BY <1>1 DEF VersionsIn

LEMMA LastVersion ==
  ASSUME NEW s \in Seq(Effects), NEW t \in Seq(Effects), Len(t) = 1, VersionsIn(s) = {}
  PROVE  \A i \in VersionsIn(s \o t) : i = Len(s \o t)
<1>1. \A i \in DOMAIN (s \o t) : i # Len(s \o t) => i \in DOMAIN s /\ (s \o t)[i] = s[i]
  <2>1. /\ DOMAIN (s \o t) = 1 .. Len(s) + Len(t) /\ Len(s \o t) = Len(s) + Len(t)
        /\ DOMAIN s = 1 .. Len(s) /\ Len(s) \in Nat
    BY ConcatAt, Zenon
  <2>2. \A i \in DOMAIN (s \o t) : (s \o t)[i] = IF i <= Len(s) THEN s[i] ELSE t[i - Len(s)]
    BY ConcatAt, Zenon
  <2> QED BY <2>1, <2>2
<1> QED BY <1>1 DEF VersionsIn


-----------------------------------------------------------------------------
(***************************************************************************)
(* The plans of the phases                                                 *)
(***************************************************************************)
Placed(p, s) == \A i \in VersionsIn(s) : i = IF p = "fresh" THEN 1 ELSE Len(s)

LEMMA BodiesNamed ==
  ASSUME NEW s \in Seq(Elements(Types))
  PROVE  /\ Each("body", s) \in Seq(Effects)
         /\ Named(Each("body", s), "body") = Elements(s)
         /\ \A c : c # "body" => Named(Each("body", s), c) = {}
         /\ \A p : \A e \in Elements(Each("body", s)) : Rank(p, e) = 1
<1>1. [ do : {"body"}, of : Elements(Types) ] \subseteq Effects
  BY KindsOfEffects
<1>2. /\ Each("body", s) \in Seq(Effects)
      /\ Elements(Each("body", s)) = { [ do |-> "body", of |-> x ] : x \in Elements(s) }
      /\ Named(Each("body", s), "body") = Elements(s)
      /\ \A c : c # "body" => Named(Each("body", s), c) = {}
  BY <1>1, EachNamed
<1>3. \A x : [ do |-> "body", of |-> x ].do = "body"
  OBVIOUS
<1>4. \A p : \A e \in Elements(Each("body", s)) : Rank(p, e) = 1
  BY <1>2, <1>3 DEF Rank
<1> QED BY <1>2, <1>4

LEMMA RecordsNamed ==
  ASSUME NEW s \in Seq(Files)
  PROVE  /\ Each("record", s) \in Seq(Effects)
         /\ Elements(Each("record", s)) = { [ do |-> "record", of |-> x ] : x \in Elements(s) }
         /\ Named(Each("record", s), "record") = Elements(s)
         /\ \A c : c # "record" => Named(Each("record", s), c) = {}
         /\ \A p : \A e \in Elements(Each("record", s)) : Rank(p, e) \in 2 .. 4
         /\ Elements(s) \cap { "scope", "bootstrap" } = {} =>
              \A p : \A e \in Elements(Each("record", s)) : Rank(p, e) = 2
<1>1. [ do : {"record"}, of : Files ] \subseteq Effects
  BY KindsOfEffects
<1>2. /\ Each("record", s) \in Seq(Effects)
      /\ Elements(Each("record", s)) = { [ do |-> "record", of |-> x ] : x \in Elements(s) }
      /\ Named(Each("record", s), "record") = Elements(s)
      /\ \A c : c # "record" => Named(Each("record", s), c) = {}
  BY <1>1, EachNamed
<1>3. \A e \in Elements(Each("record", s)) : e.do = "record" /\ e.of \in Elements(s)
  BY <1>2
<1>4. \A p : \A e \in Elements(Each("record", s)) : Rank(p, e) \in 2 .. 4
  BY <1>3 DEF Rank
<1>5. Elements(s) \cap { "scope", "bootstrap" } = {} =>
        \A p : \A e \in Elements(Each("record", s)) : Rank(p, e) = 2
  BY <1>3 DEF Rank
<1> QED BY <1>2, <1>4, <1>5

LEMMA ClosingRanks ==
  /\ \A p : \A k \in Events : \A e \in Elements(Log(k)) : Rank(p, e) = 5
  /\ \A p : \A e \in Elements(Index) : Rank(p, e) = 6
  /\ \A p : \A v \in Versions : \A e \in Elements(Raise(v)) :
       Rank(p, e) = IF p = "fresh" THEN 0 ELSE 7
<1>1. ASSUME NEW k \in Events PROVE \A e \in Elements(Log(k)) : e.do = "event"
  BY LogNamed
<1>2. \A e \in Elements(Index) : e.do = "index"
  BY IndexNamed
<1>3. ASSUME NEW v \in Versions PROVE \A e \in Elements(Raise(v)) : e.do = "version"
  BY RaiseNamed
<1> QED BY <1>1, <1>2, <1>3 DEF Rank

\* The bootstrap record is the last of a first init, the scope the last but one.
LEMMA StagedSorted == \A p : Sorted(p, Each("record", Staged))
<1> DEFINE A == << "kernel.self", "_kernel" >> \o Types \o Resolvers
           B == << "human", "scope", "bootstrap" >>
           n == Len(A)
<1>1. A \in Seq(Files) /\ B \in Seq(Files) /\ Staged = A \o B
  <2>1. << "kernel.self", "_kernel" >> \in Seq(Files) /\ B \in Seq(Files)
    BY Lists DEF Own
  <2>2. Types \in Seq(Files) /\ Resolvers \in Seq(Files)
    BY Lists
  <2>3. \A s, t \in Seq(Files) : s \o t \in Seq(Files)
    OBVIOUS
  <2> QED BY <2>1, <2>2, <2>3, Zenon DEF Staged
<1>2. B[1] = "human" /\ B[2] = "scope" /\ B[3] = "bootstrap" /\ Len(B) = 3
  OBVIOUS
<1>3. Elements(A) \cap { "scope", "bootstrap" } = {}
  <2>1. Elements(<< "kernel.self", "_kernel" >> \o Types)
          = { "kernel.self", "_kernel" } \cup Elements(Types)
        /\ << "kernel.self", "_kernel" >> \o Types \in Seq(Files)
    <3>1. << "kernel.self", "_kernel" >> \in Seq(Files) /\ Types \in Seq(Files)
      BY Lists DEF Own
    <3>2. Elements(<< "kernel.self", "_kernel" >>) = { "kernel.self", "_kernel" }
      BY TwoElements
    <3>3. \A s, t \in Seq(Files) : s \o t \in Seq(Files) /\ Elements(s \o t) = Elements(s) \cup Elements(t)
      BY ConcatElements
    <3> QED BY <3>1, <3>2, <3>3, Zenon
  <2>2. Elements(A) = { "kernel.self", "_kernel" } \cup Elements(Types) \cup Elements(Resolvers)
    <3>1. Resolvers \in Seq(Files)
      BY Lists
    <3>2. \A s, t \in Seq(Files) : Elements(s \o t) = Elements(s) \cup Elements(t)
      BY ConcatElements
    <3> QED BY <2>1, <3>1, <3>2, Zenon
  <2> QED BY <2>2, Lists DEF Vendor, Own
<1> HIDE DEF A, B
<1>4. /\ n \in Nat /\ DOMAIN A = 1 .. n /\ DOMAIN Staged = 1 .. n + 3
      /\ \A i \in DOMAIN Staged : Staged[i] = IF i <= n THEN A[i] ELSE B[i - n]
  <2>1. \A s, t \in Seq(Files) :
          /\ DOMAIN s = 1 .. Len(s) /\ Len(s) \in Nat
          /\ DOMAIN (s \o t) = 1 .. Len(s) + Len(t)
          /\ \A i \in DOMAIN (s \o t) : (s \o t)[i] = IF i <= Len(s) THEN s[i] ELSE t[i - Len(s)]
    OBVIOUS
  <2>2. /\ DOMAIN A = 1 .. Len(A) /\ Len(A) \in Nat
        /\ DOMAIN (A \o B) = 1 .. Len(A) + Len(B)
        /\ \A i \in DOMAIN (A \o B) : (A \o B)[i] = IF i <= Len(A) THEN A[i] ELSE B[i - Len(A)]
    BY <1>1, <2>1, Zenon
  <2> QED BY <2>2, <1>1, <1>2
<1> HIDE DEF n
<1>5. \A i \in 1 .. n : Staged[i] \notin { "scope", "bootstrap" }
  <2>1. \A i \in 1 .. n : A[i] \notin { "scope", "bootstrap" }
    BY <1>3, <1>4 DEF Elements
  <2> QED BY <2>1, <1>4
<1>6. Staged[n + 1] = "human" /\ Staged[n + 2] = "scope" /\ Staged[n + 3] = "bootstrap"
  BY <1>2, <1>4
<1>7. DOMAIN Each("record", Staged) = 1 .. n + 3
      /\ \A i \in 1 .. n + 3 : /\ Each("record", Staged)[i].do = "record"
                               /\ Each("record", Staged)[i].of = Staged[i]
  BY <1>4 DEF Each
<1>8. \A p : \A i \in 1 .. n + 3 : Rank(p, Each("record", Staged)[i]) =
               IF i = n + 3 THEN 4 ELSE IF i = n + 2 THEN 3 ELSE 2
  <2> TAKE p
  <2> TAKE i \in 1 .. n + 3
  <2>1. i \in 1 .. n \/ i = n + 1 \/ i = n + 2 \/ i = n + 3
    BY <1>4
  <2>2. Staged[i] = IF i = n + 3 THEN "bootstrap" ELSE IF i = n + 2 THEN "scope" ELSE Staged[i]
    BY <1>6
  <2>3. i \notin { n + 2, n + 3 } => Staged[i] \notin { "scope", "bootstrap" }
    BY <2>1, <1>5, <1>6, <1>4
  <2>4. n + 2 # n + 3
    BY <1>4
  <2> QED BY <1>7, <1>6, <2>3, <2>4 DEF Rank
<1>9. ASSUME NEW p, NEW i \in 1 .. n + 3, NEW j \in 1 .. n + 3, i < j
      PROVE  Rank(p, Each("record", Staged)[i]) <= Rank(p, Each("record", Staged)[j])
  <2>1. (i = n + 2 \/ i \notin { n + 2, n + 3 }) /\ i # n + 3
    BY <1>4, <1>9
  <2>2. i = n + 2 => j = n + 3
    BY <1>4, <1>9
  <2>3. \A k \in 1 .. n + 3 : Rank(p, Each("record", Staged)[k]) =
               IF k = n + 3 THEN 4 ELSE IF k = n + 2 THEN 3 ELSE 2
    BY <1>8
  <2> QED BY <2>1, <2>2, <2>3, <1>4
<1> QED BY <1>7, <1>9 DEF Sorted

LEMMA BirthPlan ==
  /\ Birth \in Seq(Effects) /\ Sorted("fresh", Birth) /\ Placed("fresh", Birth)
  /\ Named(Birth, "version") = {"current"} /\ Named(Birth, "body") = Elements(Types)
  /\ Named(Birth, "record") = Elements(Staged) /\ Named(Birth, "unlink") = {}
  /\ Named(Birth, "rewrite") = {} /\ Named(Birth, "event") = {"init"}
  /\ Named(Birth, "index") = {None}
<1> DEFINE V == Raise("current")
           B == Each("body", Types)
           R == Each("record", Staged)
           L == Log("init")
<1>1. /\ V \in Seq(Effects) /\ Len(V) = 1 /\ Named(V, "version") = {"current"}
      /\ \A c : c # "version" => Named(V, c) = {}
      /\ \A e \in Elements(V) : Rank("fresh", e) = 0
  BY RaiseNamed, ClosingRanks DEF Versions
<1>2. /\ B \in Seq(Effects) /\ Named(B, "body") = Elements(Types)
      /\ \A c : c # "body" => Named(B, c) = {}
      /\ \A e \in Elements(B) : Rank("fresh", e) = 1
  BY BodiesNamed, FileAssumption
<1>3. /\ R \in Seq(Effects) /\ Named(R, "record") = Elements(Staged)
      /\ \A c : c # "record" => Named(R, c) = {}
      /\ \A e \in Elements(R) : Rank("fresh", e) \in 2 .. 4
  BY RecordsNamed, Lists
<1>4. /\ L \in Seq(Effects) /\ Named(L, "event") = {"init"}
      /\ \A c : c # "event" => Named(L, c) = {}
      /\ \A e \in Elements(L) : Rank("fresh", e) = 5
      /\ Index \in Seq(Effects) /\ Named(Index, "index") = {None}
      /\ \A c : c # "index" => Named(Index, c) = {}
      /\ \A e \in Elements(Index) : Rank("fresh", e) = 6
  BY LogNamed, IndexNamed, ClosingRanks DEF Events
<1>5. /\ Sorted("fresh", V) /\ Sorted("fresh", B) /\ Sorted("fresh", R) /\ Sorted("fresh", L)
      /\ Sorted("fresh", Index)
  BY <1>1, <1>2, <1>4, LevelSorted, StagedSorted
<1>6. Birth = V \o B \o R \o L \o Index
  BY DEF Birth
<1> HIDE DEF V, B, R, L
<1>7. /\ V \o B \in Seq(Effects) /\ Elements(V \o B) = Elements(V) \cup Elements(B)
      /\ \A d : Named(V \o B, d) = Named(V, d) \cup Named(B, d)
  BY <1>1, <1>2, ConcatNamed
<1>8. Sorted("fresh", V \o B)
  <2>1. \A e \in Elements(V), f \in Elements(B) : Rank("fresh", e) <= Rank("fresh", f)
    BY <1>1, <1>2
  <2> QED BY <1>1, <1>2, <1>5, <2>1, ConcatSorted
<1> DEFINE VB == V \o B
<1> HIDE DEF VB
<1>9. /\ VB \o R \in Seq(Effects) /\ Elements(VB \o R) = Elements(VB) \cup Elements(R)
      /\ \A d : Named(VB \o R, d) = Named(VB, d) \cup Named(R, d)
  BY <1>3, <1>7, ConcatNamed DEF VB
<1>10. Sorted("fresh", VB \o R)
  <2>1. \A e \in Elements(VB), f \in Elements(R) : Rank("fresh", e) <= Rank("fresh", f)
    BY <1>1, <1>2, <1>3, <1>7 DEF VB
  <2> QED BY <1>3, <1>5, <1>7, <1>8, <2>1, ConcatSorted DEF VB
<1> DEFINE VBR == VB \o R
<1> HIDE DEF VBR
<1>11. /\ VBR \o L \in Seq(Effects) /\ Elements(VBR \o L) = Elements(VBR) \cup Elements(L)
       /\ \A d : Named(VBR \o L, d) = Named(VBR, d) \cup Named(L, d)
  BY <1>4, <1>9, ConcatNamed DEF VBR
<1>12. Sorted("fresh", VBR \o L)
  <2>1. \A e \in Elements(VBR), f \in Elements(L) : Rank("fresh", e) <= Rank("fresh", f)
    BY <1>1, <1>2, <1>3, <1>4, <1>7, <1>9 DEF VB, VBR
  <2> QED BY <1>4, <1>5, <1>9, <1>10, <2>1, ConcatSorted DEF VBR
<1> DEFINE VBRL == VBR \o L
<1> HIDE DEF VBRL
<1>13. /\ VBRL \o Index \in Seq(Effects)
       /\ \A d : Named(VBRL \o Index, d) = Named(VBRL, d) \cup Named(Index, d)
  BY <1>4, <1>11, ConcatNamed DEF VBRL
<1>14. Sorted("fresh", VBRL \o Index)
  <2>1. \A e \in Elements(VBRL), f \in Elements(Index) : Rank("fresh", e) <= Rank("fresh", f)
    <3>1. \A e \in Elements(VBRL) :
            e \in Elements(V) \/ e \in Elements(B) \/ e \in Elements(R) \/ e \in Elements(L)
      BY <1>7, <1>9, <1>11 DEF VB, VBR, VBRL
    <3>2. \A e \in Elements(VBRL) : Rank("fresh", e) \in 0 .. 5
      BY <3>1, <1>1, <1>2, <1>3, <1>4
    <3> QED BY <3>2, <1>4
  <2> QED BY <1>4, <1>5, <1>11, <1>12, <2>1, ConcatSorted DEF VBRL
<1>15. Birth = VBRL \o Index
  BY <1>6 DEF VB, VBR, VBRL
<1>16. \A i \in VersionsIn(VBRL \o Index) : i = 1
  <2>1. /\ VersionsIn(B) = {} /\ VersionsIn(R) = {} /\ VersionsIn(L) = {} /\ VersionsIn(Index) = {}
    BY <1>2, <1>3, <1>4, NoVersions
  <2>2. \A i \in VersionsIn(V) : i = 1
    BY <1>1 DEF VersionsIn
  <2>3. \A i \in VersionsIn(VB) : i = 1
    BY <1>1, <1>2, <2>1, <2>2, FirstVersion DEF VB
  <2>4. \A i \in VersionsIn(VBR) : i = 1
    BY <1>3, <1>7, <2>1, <2>3, FirstVersion DEF VB, VBR
  <2>5. \A i \in VersionsIn(VBRL) : i = 1
    BY <1>4, <1>9, <2>1, <2>4, FirstVersion DEF VBR, VBRL
  <2> QED BY <1>4, <1>11, <2>1, <2>5, FirstVersion DEF VBRL
<1>17. \A d : Named(Birth, d) = Named(V, d) \cup Named(B, d) \cup Named(R, d)
                                  \cup Named(L, d) \cup Named(Index, d)
  BY <1>7, <1>9, <1>11, <1>13, <1>15 DEF VB, VBR, VBRL
<1>18. /\ Named(Birth, "version") = {"current"} /\ Named(Birth, "body") = Elements(Types)
       /\ Named(Birth, "record") = Elements(Staged) /\ Named(Birth, "unlink") = {}
       /\ Named(Birth, "rewrite") = {} /\ Named(Birth, "event") = {"init"}
       /\ Named(Birth, "index") = {None}
  BY <1>1, <1>2, <1>3, <1>4, <1>17
<1> QED BY <1>13, <1>14, <1>15, <1>16, <1>18 DEF Placed


LEMMA DeltasPlan ==
  /\ Deltas \in Seq(Effects)
  /\ Named(Deltas, "body") = { t \in Elements(Types) : bodies[t] # "new" }
  /\ Named(Deltas, "record") = Vendor \ files
  /\ \A c : c \notin { "body", "record" } => Named(Deltas, c) = {}
  /\ Sorted("upgrade", Deltas)
  /\ \A e \in Elements(Deltas) : Rank("upgrade", e) \in 1 .. 2
  /\ Deltas = << >> <=> Vendor \subseteq files /\ \A t \in Elements(Types) : bodies[t] = "new"
<1> DEFINE B == Each("body", Outdated)
           M == Missing(Types \o Resolvers)
           R == Each("record", M)
<1>1. /\ Outdated \in Seq(Elements(Types))
      /\ Elements(Outdated) = { t \in Elements(Types) : bodies[t] # "new" }
  BY OutdatedElements
<1>2. M \in Seq(Files) /\ Elements(M) = Vendor \ files
  BY MissingElements, Lists
<1>3. /\ B \in Seq(Effects) /\ Named(B, "body") = { t \in Elements(Types) : bodies[t] # "new" }
      /\ \A c : c # "body" => Named(B, c) = {}
      /\ \A e \in Elements(B) : Rank("upgrade", e) = 1
  BY <1>1, BodiesNamed
<1>4. /\ R \in Seq(Effects) /\ Named(R, "record") = Vendor \ files
      /\ \A c : c # "record" => Named(R, c) = {}
      /\ \A e \in Elements(R) : Rank("upgrade", e) = 2
  <2>1. Elements(M) \cap { "scope", "bootstrap" } = {}
    BY <1>2, Lists DEF Own
  <2> HIDE DEF M
  <2> QED BY <1>2, <2>1, RecordsNamed
<1>5. Deltas = B \o R
  BY DEF Deltas
<1> HIDE DEF B, R
<1>6. /\ B \o R \in Seq(Effects) /\ Elements(B \o R) = Elements(B) \cup Elements(R)
      /\ \A d : Named(B \o R, d) = Named(B, d) \cup Named(R, d)
  BY <1>3, <1>4, ConcatNamed
<1>7. Sorted("upgrade", B \o R)
  <2>1. \A e \in Elements(B), f \in Elements(R) : Rank("upgrade", e) <= Rank("upgrade", f)
    BY <1>3, <1>4
  <2>2. Sorted("upgrade", B) /\ Sorted("upgrade", R)
    BY <1>3, <1>4, LevelSorted
  <2> QED BY <1>3, <1>4, <2>1, <2>2, ConcatSorted
<1>8. \A e \in Elements(B \o R) : Rank("upgrade", e) \in 1 .. 2
  BY <1>3, <1>4, <1>6
<1>9. \A c : c \notin { "body", "record" } => Named(B \o R, c) = {}
  BY <1>3, <1>4, <1>6
<1>10. /\ Named(B \o R, "body") = { t \in Elements(Types) : bodies[t] # "new" }
       /\ Named(B \o R, "record") = Vendor \ files
  BY <1>3, <1>4, <1>6
<1>11. Deltas = << >> <=> Vendor \subseteq files /\ \A t \in Elements(Types) : bodies[t] = "new"
  <2>1. ASSUME Deltas = << >>
        PROVE  Vendor \subseteq files /\ \A t \in Elements(Types) : bodies[t] = "new"
    <3>1. Named(<< >>, "body") = {} /\ Named(<< >>, "record") = {}
      BY NothingNamed
    <3> QED BY <3>1, <2>1, <1>5, <1>10
  <2>2. ASSUME Vendor \subseteq files, \A t \in Elements(Types) : bodies[t] = "new"
        PROVE  Deltas = << >>
    <3>1. Outdated = << >>
      BY <2>2, OutdatedElements
    <3>2. M = << >>
      <4>1. Elements(M) = {}
        BY <2>2, <1>2
      <4> HIDE DEF M
      <4> QED BY <4>1, <1>2, EmptyOrNot
    <3>3. B = << >> /\ R = << >>
      BY <3>1, <3>2 DEF B, R, Each
    <3> QED BY <3>3, <1>5
  <2> QED BY <2>1, <2>2
<1> QED BY <1>5, <1>6, <1>7, <1>8, <1>9, <1>10, <1>11

LEMMA UpgradePlan ==
  /\ Upgrade \in Seq(Effects) /\ Sorted("upgrade", Upgrade) /\ Placed("upgrade", Upgrade)
  /\ Named(Upgrade, "version") = IF version = "current" THEN {} ELSE {"current"}
  /\ Named(Upgrade, "body") = { t \in Elements(Types) : bodies[t] # "new" }
  /\ Named(Upgrade, "record") = Vendor \ files /\ Named(Upgrade, "unlink") = {}
  /\ Named(Upgrade, "rewrite") = {} /\ Named(Upgrade, "event") = {"upgrade"}
  /\ Named(Upgrade, "index") = {None}
<1> DEFINE D == Deltas
           L == Log("upgrade")
           V == IF version = "current" THEN << >> ELSE Raise("current")
           N == IF version = "current" THEN {} ELSE {"current"}
<1>1. /\ D \in Seq(Effects)
      /\ Named(D, "body") = { t \in Elements(Types) : bodies[t] # "new" }
      /\ Named(D, "record") = Vendor \ files
      /\ \A c : c \notin { "body", "record" } => Named(D, c) = {}
      /\ Sorted("upgrade", D)
      /\ \A e \in Elements(D) : Rank("upgrade", e) \in 1 .. 2
  BY DeltasPlan
<1>2. /\ L \in Seq(Effects) /\ Named(L, "event") = {"upgrade"}
      /\ \A c : c # "event" => Named(L, c) = {}
      /\ \A e \in Elements(L) : Rank("upgrade", e) = 5
      /\ Index \in Seq(Effects) /\ Named(Index, "index") = {None}
      /\ \A c : c # "index" => Named(Index, c) = {}
      /\ \A e \in Elements(Index) : Rank("upgrade", e) = 6
  BY LogNamed, IndexNamed, ClosingRanks DEF Events
<1>3. /\ V \in Seq(Effects) /\ Named(V, "version") = N
      /\ \A c : c # "version" => Named(V, c) = {}
      /\ \A e \in Elements(V) : Rank("upgrade", e) = 7
  <2>1. CASE version = "current"
    <3>1. V = << >> /\ N = {}
      BY <2>1
    <3>2. << >> \in Seq(Effects) /\ Elements(<< >>) = {} /\ \A c : Named(<< >>, c) = {}
      BY NoElements, NothingNamed
    <3> QED BY <3>1, <3>2
  <2>2. CASE version # "current"
    <3>1. V = Raise("current") /\ N = {"current"}
      BY <2>2
    <3>2. /\ Raise("current") \in Seq(Effects) /\ Named(Raise("current"), "version") = {"current"}
          /\ \A c : c # "version" => Named(Raise("current"), c) = {}
          /\ \A e \in Elements(Raise("current")) : Rank("upgrade", e) = 7
      BY RaiseNamed, ClosingRanks DEF Versions
    <3> HIDE DEF V, N
    <3> QED BY <3>1, <3>2
  <2> QED BY <2>1, <2>2
<1>4. Upgrade = D \o L \o Index \o V
  BY DEF Upgrade
<1>5. V = << >> \/ Len(V) = 1
  BY RaiseNamed DEF Versions
<1>6. Sorted("upgrade", L) /\ Sorted("upgrade", Index) /\ Sorted("upgrade", V)
  <2> HIDE DEF V
  <2> QED BY <1>2, <1>3, LevelSorted
<1> HIDE DEF D, L, V, N
<1> DEFINE DL == D \o L
<1>7. /\ DL \in Seq(Effects) /\ Elements(DL) = Elements(D) \cup Elements(L)
      /\ \A d : Named(DL, d) = Named(D, d) \cup Named(L, d)
  BY <1>1, <1>2, ConcatNamed
<1>8. Sorted("upgrade", DL)
  <2>1. \A e \in Elements(D), f \in Elements(L) : Rank("upgrade", e) <= Rank("upgrade", f)
    BY <1>1, <1>2
  <2> QED BY <1>1, <1>2, <1>6, <2>1, ConcatSorted
<1> HIDE DEF DL
<1> DEFINE DLI == DL \o Index
<1>9. /\ DLI \in Seq(Effects) /\ Elements(DLI) = Elements(DL) \cup Elements(Index)
      /\ \A d : Named(DLI, d) = Named(DL, d) \cup Named(Index, d)
  BY <1>2, <1>7, ConcatNamed
<1>10. Sorted("upgrade", DLI)
  <2>1. \A e \in Elements(DL), f \in Elements(Index) : Rank("upgrade", e) <= Rank("upgrade", f)
    BY <1>1, <1>2, <1>7
  <2> QED BY <1>2, <1>6, <1>7, <1>8, <2>1, ConcatSorted
<1> HIDE DEF DLI
<1>11. /\ DLI \o V \in Seq(Effects)
       /\ \A d : Named(DLI \o V, d) = Named(DLI, d) \cup Named(V, d)
  BY <1>3, <1>9, ConcatNamed
<1>12. Sorted("upgrade", DLI \o V)
  <2>1. \A e \in Elements(DLI) : e \in Elements(D) \/ e \in Elements(L) \/ e \in Elements(Index)
    BY <1>7, <1>9
  <2>2. \A e \in Elements(DLI) : Rank("upgrade", e) \in 1 .. 6
    BY <2>1, <1>1, <1>2
  <2>3. \A e \in Elements(DLI), f \in Elements(V) : Rank("upgrade", e) <= Rank("upgrade", f)
    BY <2>2, <1>3
  <2> QED BY <1>3, <1>6, <1>9, <1>10, <2>3, ConcatSorted
<1>13. Upgrade = DLI \o V
  BY <1>4 DEF DL, DLI
<1>14. Placed("upgrade", DLI \o V)
  <2>1. Named(DLI, "version") = {}
    <3>1. Named(D, "version") = {} /\ Named(L, "version") = {} /\ Named(Index, "version") = {}
      BY <1>1, <1>2
    <3> QED BY <3>1, <1>7, <1>9
  <2>2. VersionsIn(DLI) = {}
    BY <2>1, NoVersions
  <2>3. CASE V = << >>
    <3>1. DLI \o V = DLI
      BY <2>3, <1>9
    <3> QED BY <3>1, <2>2 DEF Placed
  <2>4. CASE Len(V) = 1
    BY <2>4, <2>2, <1>3, <1>9, LastVersion DEF Placed
  <2> QED BY <1>5, <2>3, <2>4
<1>15. \A d : Named(Upgrade, d) = Named(D, d) \cup Named(L, d) \cup Named(Index, d) \cup Named(V, d)
  BY <1>7, <1>9, <1>11, <1>13
<1>16. /\ Named(Upgrade, "version") = N
       /\ Named(Upgrade, "body") = { t \in Elements(Types) : bodies[t] # "new" }
       /\ Named(Upgrade, "record") = Vendor \ files /\ Named(Upgrade, "unlink") = {}
       /\ Named(Upgrade, "rewrite") = {} /\ Named(Upgrade, "event") = {"upgrade"}
       /\ Named(Upgrade, "index") = {None}
  BY <1>1, <1>2, <1>3, <1>15
<1> QED BY <1>11, <1>12, <1>13, <1>14, <1>16 DEF N

\* What ends a migration.
LEMMA FinalizedPlan ==
  ASSUME NEW logs \in Seq(Effects), NEW K, Named(logs, "event") = K,
         \A c : c # "event" => Named(logs, c) = {}, NEW v \in Versions
  PROVE  /\ Finalized(logs, v) \in Seq(Effects)
         /\ Sorted("finalize", Finalized(logs, v)) /\ Placed("finalize", Finalized(logs, v))
         /\ Named(Finalized(logs, v), "version") = {v}
         /\ Named(Finalized(logs, v), "event") = K
         /\ Named(Finalized(logs, v), "index") = {None}
         /\ \A c : c \notin { "version", "event", "index" } => Named(Finalized(logs, v), c) = {}
<1> DEFINE V == Raise(v)
           LI == logs \o Index
<1>1. /\ Index \in Seq(Effects) /\ Named(Index, "index") = {None}
      /\ \A c : c # "index" => Named(Index, c) = {}
      /\ \A e \in Elements(Index) : Rank("finalize", e) = 6
  BY IndexNamed, ClosingRanks
<1>2. /\ V \in Seq(Effects) /\ Len(V) = 1 /\ Named(V, "version") = {v}
      /\ \A c : c # "version" => Named(V, c) = {}
      /\ \A e \in Elements(V) : Rank("finalize", e) = 7
  BY RaiseNamed, ClosingRanks
<1>3. \A e \in Elements(logs) : Rank("finalize", e) = 5
  <2>1. \A e \in Elements(logs) : e.of \in Named(logs, e.do)
    BY DEF Named
  <2>2. \A e \in Elements(logs) : e.do = "event"
    BY <2>1
  <2> QED BY <2>2 DEF Rank
<1>4. /\ LI \in Seq(Effects) /\ Elements(LI) = Elements(logs) \cup Elements(Index)
      /\ \A d : Named(LI, d) = Named(logs, d) \cup Named(Index, d)
  BY <1>1, ConcatNamed
<1>5. Sorted("finalize", logs) /\ Sorted("finalize", Index) /\ Sorted("finalize", V)
  BY <1>1, <1>2, <1>3, LevelSorted
<1>6. Sorted("finalize", LI)
  <2>1. \A e \in Elements(logs), f \in Elements(Index) : Rank("finalize", e) <= Rank("finalize", f)
    BY <1>1, <1>3
  <2> QED BY <1>1, <1>5, <2>1, ConcatSorted
<1>7. Finalized(logs, v) = LI \o V
  BY DEF Finalized
<1> HIDE DEF LI, V
<1>8. /\ LI \o V \in Seq(Effects)
      /\ \A d : Named(LI \o V, d) = Named(LI, d) \cup Named(V, d)
  BY <1>2, <1>4, ConcatNamed
<1>9. Sorted("finalize", LI \o V)
  <2>1. \A e \in Elements(LI), f \in Elements(V) : Rank("finalize", e) <= Rank("finalize", f)
    BY <1>1, <1>2, <1>3, <1>4
  <2> QED BY <1>2, <1>4, <1>5, <1>6, <2>1, ConcatSorted
<1>10. Placed("finalize", LI \o V)
  <2>1. Named(LI, "version") = {}
    BY <1>1, <1>4
  <2> QED BY <2>1, <1>2, <1>4, NoVersions, LastVersion DEF Placed
<1>11. /\ Named(LI \o V, "version") = {v} /\ Named(LI \o V, "event") = K
       /\ Named(LI \o V, "index") = {None}
       /\ \A c : c \notin { "version", "event", "index" } => Named(LI \o V, c) = {}
  BY <1>1, <1>2, <1>4, <1>8
<1> QED BY <1>7, <1>8, <1>9, <1>10, <1>11

LEMMA NotBacked ==
  ASSUME NEW s, NEW F, Named(s, "unlink") = {}
  PROVE  Backed(s, F)
  BY DEF Backed, Named, Elements

LEMMA ConcatBacked ==
  ASSUME NEW s \in Seq(Effects), NEW t \in Seq(Effects), NEW F, Backed(s, F),
         Backed(t, F \cup Named(s, "record"))
  PROVE  Backed(s \o t, F)
<1>1. /\ DOMAIN (s \o t) = 1 .. Len(s) + Len(t) /\ DOMAIN t = 1 .. Len(t)
      /\ DOMAIN s = 1 .. Len(s) /\ Len(s) \in Nat /\ Len(t) \in Nat
  BY ConcatAt, Zenon
<1>2. \A i \in DOMAIN (s \o t) : (s \o t)[i] = IF i <= Len(s) THEN s[i] ELSE t[i - Len(s)]
  BY ConcatAt, Zenon
<1>3. \A i \in DOMAIN s : i \in DOMAIN (s \o t) /\ (s \o t)[i] = s[i]
  BY <1>1, <1>2
<1>4. \A i \in DOMAIN t : i + Len(s) \in DOMAIN (s \o t) /\ (s \o t)[i + Len(s)] = t[i]
  BY <1>1, <1>2
<1>5. SUFFICES ASSUME NEW j \in DOMAIN (s \o t), (s \o t)[j].do = "unlink"
               PROVE  \/ (s \o t)[j].of \in F
                      \/ \E i \in DOMAIN (s \o t) : /\ i < j /\ (s \o t)[i].do = "record"
                                                    /\ (s \o t)[i].of = (s \o t)[j].of
  BY DEF Backed
<1>6. CASE j <= Len(s)
  <2>1. j \in DOMAIN s /\ (s \o t)[j] = s[j]
    BY <1>1, <1>2, <1>6
  <2> QED BY <2>1, <1>3, <1>5 DEF Backed
<1>7. CASE j > Len(s)
  <2>1. j - Len(s) \in DOMAIN t /\ (s \o t)[j] = t[j - Len(s)]
    BY <1>1, <1>2, <1>7
  <2>2. CASE t[j - Len(s)].of \in Named(s, "record")
    <3>1. PICK i \in DOMAIN s : s[i].do = "record" /\ s[i].of = t[j - Len(s)].of
      BY <2>2 DEF Named, Elements
    <3>2. i < j
      BY <1>1, <1>7
    <3> QED BY <2>1, <3>1, <3>2, <1>3
  <2>3. CASE \E i \in DOMAIN t : i < j - Len(s) /\ t[i].do = "record" /\ t[i].of = t[j - Len(s)].of
    <3>1. PICK i \in DOMAIN t : i < j - Len(s) /\ t[i].do = "record" /\ t[i].of = t[j - Len(s)].of
      BY <2>3
    <3>2. i + Len(s) < j
      BY <3>1, <1>1
    <3> QED BY <2>1, <3>1, <3>2, <1>4
  <2>4. CASE t[j - Len(s)].of \in F
    BY <2>1, <2>4
  <2> QED BY <2>1, <2>2, <2>3, <2>4, <1>5 DEF Backed
<1> QED BY <1>1, <1>6, <1>7

LEMMA BackedMore ==
  ASSUME NEW s, NEW F, NEW G, F \subseteq G, Backed(s, F)
  PROVE  Backed(s, G)
  BY DEF Backed

\* A batch comes before the removal of the files that it converts.
LEMMA ConvertedPlan ==
  ASSUME NEW k \in Kinds
  PROVE  /\ Converted(k) \in Seq(Effects) /\ Backed(Converted(k), files)
         /\ Named(Converted(k), "record") \subseteq Configured
         /\ Named(Converted(k), "unlink") \subseteq Configured
         /\ \A c : c \notin { "record", "unlink" } => Named(Converted(k), c) = {}
         /\ Elements(Configs[k]) \cap ymls \subseteq Named(Converted(k), "unlink") \cup files
<1> DEFINE found == Selected(Configs[k], ymls)
           M == Missing(found)
           R == Each("record", M)
           U == Each("unlink", found)
<1>1. found \in Seq(Configured) /\ Elements(found) = Elements(Configs[k]) \cap ymls
  <2>1. Configs[k] \in Seq(Configured)
    BY Lists
  <2> QED BY <2>1, SelectedElements
<1>2. Elements(found) \subseteq Configured /\ found \in Seq(Files)
  <2>1. Elements(found) \subseteq Configured
    BY <1>1, Lists
  <2>2. Configured \subseteq Files
    BY Lists
  <2> HIDE DEF found
  <2> QED BY <1>1, <2>1, <2>2
<1>3. Converted(k) = IF M = << >> THEN << >> ELSE R \o U
  BY DEF Converted
<1> HIDE DEF found
<1>4. /\ M \in Seq(Files) /\ Elements(M) = Elements(found) \ files
      /\ M = << >> <=> Elements(found) \subseteq files
  BY <1>2, MissingElements
<1> HIDE DEF M
<1>5. /\ R \in Seq(Effects) /\ Named(R, "record") = Elements(found) \ files
      /\ \A c : c # "record" => Named(R, c) = {}
  BY <1>4, RecordsNamed
<1>6. /\ U \in Seq(Effects) /\ Named(U, "unlink") = Elements(found)
      /\ \A c : c # "unlink" => Named(U, c) = {}
  <2>1. [ do : {"unlink"}, of : Configured ] \subseteq Effects
    BY KindsOfEffects
  <2> QED BY <1>1, <2>1, EachNamed
<1> HIDE DEF R, U
<1>7. CASE M = << >>
  <2>1. Converted(k) = << >> /\ << >> \in Seq(Effects)
    BY <1>3, <1>7
  <2>2. \A c : Named(<< >>, c) = {}
    BY NothingNamed
  <2> QED BY <2>1, <2>2, <1>1, <1>4, <1>7, NotBacked
<1>8. CASE M # << >>
  <2>1. Converted(k) = R \o U
    BY <1>3, <1>8
  <2>2. R \o U \in Seq(Effects) /\ \A d : Named(R \o U, d) = Named(R, d) \cup Named(U, d)
    BY <1>5, <1>6, ConcatNamed
  <2>3. Backed(R, files)
    BY <1>5, NotBacked
  <2>4. Backed(U, files \cup Named(R, "record"))
    <3>1. \A e \in Elements(U) : e.do = "unlink" => e.of \in Elements(found)
      BY <1>6 DEF Named
    <3>2. Elements(found) \subseteq files \cup Named(R, "record")
      BY <1>5
    <3> QED BY <3>1, <3>2 DEF Backed, Elements
  <2>5. Backed(R \o U, files)
    BY <1>5, <1>6, <2>3, <2>4, ConcatBacked
  <2>6. /\ Named(R \o U, "record") = Elements(found) \ files
        /\ Named(R \o U, "unlink") = Elements(found)
        /\ \A c : c \notin { "record", "unlink" } => Named(R \o U, c) = {}
    BY <1>5, <1>6, <2>2
  <2> QED BY <2>1, <2>2, <2>5, <2>6, <1>1, <1>2
<1> QED BY <1>7, <1>8

LEMMA StructuralPlan ==
  ASSUME ymls \subseteq Configured
  PROVE  /\ Structural \in Seq(Effects) /\ Backed(Structural, files)
         /\ Named(Structural, "record") \subseteq Configured
         /\ \A c : c \notin { "record", "unlink" } => Named(Structural, c) = {}
         /\ ymls \subseteq Named(Structural, "unlink") \cup files
<1> DEFINE Good(s) == /\ s \in Seq(Effects) /\ Backed(s, files)
                      /\ Named(s, "record") \subseteq Configured
                      /\ \A c : c \notin { "record", "unlink" } => Named(s, c) = {}
<1>1. ASSUME NEW s, NEW t, Good(s), Good(t)
      PROVE  Good(s \o t) /\ Named(s \o t, "unlink") = Named(s, "unlink") \cup Named(t, "unlink")
  <2>1. s \o t \in Seq(Effects) /\ \A d : Named(s \o t, d) = Named(s, d) \cup Named(t, d)
    BY <1>1, ConcatNamed
  <2>2. Backed(t, files \cup Named(s, "record"))
    BY <1>1, BackedMore
  <2>3. Backed(s \o t, files)
    BY <1>1, <2>2, ConcatBacked
  <2> QED BY <1>1, <2>1, <2>3
<1>2. \A k \in Kinds : Good(Converted(k))
  BY ConvertedPlan
<1>3. \A k \in Kinds : Elements(Configs[k]) \cap ymls \subseteq Named(Converted(k), "unlink") \cup files
  BY ConvertedPlan
<1>4. Kinds = { "scope", "resolver", "bridge", "projection" }
  BY DEF Kinds
<1> HIDE DEF Good
<1> DEFINE A == Converted("scope")
           B == Converted("resolver")
           C == Converted("bridge")
           D == Converted("projection")
<1>5. Good(A) /\ Good(B) /\ Good(C) /\ Good(D)
  BY <1>2, <1>4
<1>6. Structural = A \o B \o C \o D
  BY DEF Structural
<1> HIDE DEF A, B, C, D
<1>7. Good(A \o B) /\ Named(A \o B, "unlink") = Named(A, "unlink") \cup Named(B, "unlink")
  BY <1>1, <1>5
<1>8. /\ Good(A \o B \o C)
      /\ Named(A \o B \o C, "unlink") = Named(A \o B, "unlink") \cup Named(C, "unlink")
  BY <1>1, <1>5, <1>7
<1>9. /\ Good(A \o B \o C \o D)
      /\ Named(A \o B \o C \o D, "unlink") = Named(A \o B \o C, "unlink") \cup Named(D, "unlink")
  BY <1>1, <1>5, <1>8
<1>10. Named(Structural, "unlink") = Named(A, "unlink") \cup Named(B, "unlink")
                                      \cup Named(C, "unlink") \cup Named(D, "unlink")
  BY <1>6, <1>7, <1>8, <1>9, Zenon
<1>11. ymls \subseteq Named(Structural, "unlink") \cup files
  <2>1. \A y \in ymls : \E k \in Kinds : y \in Elements(Configs[k])
    BY DEF Configured
  <2>2. \A k \in Kinds : Named(Converted(k), "unlink") \subseteq Named(Structural, "unlink")
    BY <1>4, <1>10 DEF A, B, C, D
  <2> QED BY <2>1, <2>2, <1>3
<1>12. Good(Structural)
  BY <1>6, <1>9, Zenon
<1> QED BY <1>11, <1>12 DEF Good

LEMMA KernelContent ==
  /\ << "_kernel" >> \o Types \o Resolvers \o << "kernel.self", "human" >> \in Seq(Files)
  /\ Elements(<< "_kernel" >> \o Types \o Resolvers \o << "kernel.self", "human" >>)
       = Vendor \cup { "_kernel", "kernel.self", "human" }
  /\ Types \o Resolvers \o << "_kernel", "kernel.self", "human" >> \in Seq(Files)
  /\ Elements(Types \o Resolvers \o << "_kernel", "kernel.self", "human" >>)
       = Vendor \cup { "_kernel", "kernel.self", "human" }
<1>1. \A s, t \in Seq(Files) : s \o t \in Seq(Files) /\ Elements(s \o t) = Elements(s) \cup Elements(t)
  BY ConcatElements
<1>2. Types \in Seq(Files) /\ Resolvers \in Seq(Files)
  BY Lists
<1>3. /\ << "_kernel" >> \in Seq(Files) /\ << "kernel.self", "human" >> \in Seq(Files)
      /\ << "_kernel", "kernel.self", "human" >> \in Seq(Files)
  BY Lists DEF Own
<1>4. /\ Elements(<< "_kernel" >>) = {"_kernel"}
      /\ Elements(<< "kernel.self", "human" >>) = { "kernel.self", "human" }
      /\ Elements(<< "_kernel", "kernel.self", "human" >>) = { "_kernel", "kernel.self", "human" }
  BY OneElement, TwoElements, ThreeElements
<1> DEFINE A == << "_kernel" >>
           B == << "kernel.self", "human" >>
           C == << "_kernel", "kernel.self", "human" >>
<1>5. A \in Seq(Files) /\ B \in Seq(Files) /\ C \in Seq(Files)
  BY <1>3
<1>6. Elements(A) = {"_kernel"} /\ Elements(B) = { "kernel.self", "human" }
        /\ Elements(C) = { "_kernel", "kernel.self", "human" }
  BY <1>4
<1> HIDE DEF A, B, C
<1>7. A \o Types \in Seq(Files) /\ Elements(A \o Types) = {"_kernel"} \cup Elements(Types)
  BY <1>1, <1>2, <1>5, <1>6, Zenon
<1>8. A \o Types \o Resolvers \in Seq(Files)
        /\ Elements(A \o Types \o Resolvers) = {"_kernel"} \cup Elements(Types) \cup Elements(Resolvers)
  BY <1>1, <1>2, <1>7, Zenon
<1>9. A \o Types \o Resolvers \o B \in Seq(Files)
        /\ Elements(A \o Types \o Resolvers \o B)
             = {"_kernel"} \cup Elements(Types) \cup Elements(Resolvers) \cup { "kernel.self", "human" }
  <2> DEFINE D == A \o Types \o Resolvers
             E == {"_kernel"} \cup Elements(Types) \cup Elements(Resolvers)
  <2>1. D \in Seq(Files) /\ Elements(D) = E
    BY <1>8
  <2> HIDE DEF D, E
  <2>2. D \o B \in Seq(Files) /\ Elements(D \o B) = E \cup { "kernel.self", "human" }
    BY <1>1, <1>5, <1>6, <2>1, Zenon
  <2> QED BY <2>2 DEF D, E
<1>10. Types \o Resolvers \in Seq(Files) /\ Elements(Types \o Resolvers) = Vendor
  BY Lists
<1>11. Types \o Resolvers \o C \in Seq(Files)
        /\ Elements(Types \o Resolvers \o C) = Vendor \cup { "_kernel", "kernel.self", "human" }
  BY <1>1, <1>5, <1>6, <1>10, Zenon
<1>12. {"_kernel"} \cup Elements(Types) \cup Elements(Resolvers) \cup { "kernel.self", "human" }
         = Vendor \cup { "_kernel", "kernel.self", "human" }
  BY DEF Vendor
<1> QED BY <1>9, <1>11, <1>12 DEF A, B, C

LEMMA VendoredPlan ==
  /\ Vendored \in Seq(Effects)
  /\ Named(Vendored, "body") = Elements(Types)
  /\ Named(Vendored, "record") = (Vendor \cup { "_kernel", "kernel.self", "human" }) \ files
  /\ \A c : c \notin { "body", "record" } => Named(Vendored, c) = {}
<1> DEFINE X == << "_kernel" >> \o Types \o Resolvers \o << "kernel.self", "human" >>
           M == Missing(X)
           B == Each("body", Types)
           R == Each("record", M)
<1>1. X \in Seq(Files) /\ Elements(X) = Vendor \cup { "_kernel", "kernel.self", "human" }
  BY KernelContent
<1>2. Vendored = B \o R
  BY DEF Vendored
<1>3. /\ B \in Seq(Effects) /\ Named(B, "body") = Elements(Types)
      /\ \A c : c # "body" => Named(B, c) = {}
  BY BodiesNamed, FileAssumption
<1> HIDE DEF X, B
<1>4. M \in Seq(Files) /\ Elements(M) = (Vendor \cup { "_kernel", "kernel.self", "human" }) \ files
  BY <1>1, MissingElements
<1> HIDE DEF M
<1>5. /\ R \in Seq(Effects) /\ Named(R, "record") = Elements(M)
      /\ \A c : c # "record" => Named(R, c) = {}
  BY <1>4, RecordsNamed
<1> HIDE DEF R
<1>6. B \o R \in Seq(Effects) /\ \A d : Named(B \o R, d) = Named(B, d) \cup Named(R, d)
  BY <1>3, <1>5, ConcatNamed
<1> QED BY <1>2, <1>3, <1>4, <1>5, <1>6

LEMMA OutdatedPlan ==
  /\ Each("body", Outdated) \in Seq(Effects)
  /\ Named(Each("body", Outdated), "body") = { t \in Elements(Types) : bodies[t] # "new" }
  /\ \A c : c # "body" => Named(Each("body", Outdated), c) = {}
  BY OutdatedElements, BodiesNamed

RecType == DOMAIN rec \subseteq Elements(Users) /\ \A u \in DOMAIN rec : rec[u] \in User

\* The rewriting that leads from rec to new.
LEMMA RewritesPlan ==
  ASSUME RecType, NEW new, \A u \in DOMAIN rec : new[u] \in User
  PROVE  /\ Rewrites(new) \in Seq(Effects)
         /\ \A c : c # "rewrite" => Named(Rewrites(new), c) = {}
         /\ \A p \in Named(Rewrites(new), "rewrite") :
              p[1] \in DOMAIN rec /\ p[2] = new[p[1]] /\ p[2] # rec[p[1]]
         /\ \A u \in DOMAIN rec :
              new[u] = rec[u] \/ u \in { p[1] : p \in Named(Rewrites(new), "rewrite") }
<1>1. /\ Rewrites(new) \in Seq(Effects)
      /\ Named(Rewrites(new), "rewrite") =
           { << u, new[u] >> : u \in { v \in DOMAIN rec : new[v] # rec[v] } }
      /\ \A c : c # "rewrite" => Named(Rewrites(new), c) = {}
  BY RewritesNamed DEF RecType
<1>2. ASSUME NEW u \in DOMAIN rec, new[u] # rec[u]
      PROVE  u \in { p[1] : p \in Named(Rewrites(new), "rewrite") }
  <2>1. << u, new[u] >> \in Named(Rewrites(new), "rewrite") /\ << u, new[u] >>[1] = u
    BY <1>1, <1>2
  <2> QED BY <2>1
<1>3. \A p \in Named(Rewrites(new), "rewrite") :
        p[1] \in DOMAIN rec /\ p[2] = new[p[1]] /\ p[2] # rec[p[1]]
  BY <1>1
<1> QED BY <1>1, <1>2, <1>3

LEMMA FrontmatterPlan ==
  ASSUME RecType
  PROVE  /\ Frontmatter \in Seq(Effects)
         /\ \A c : c # "rewrite" => Named(Frontmatter, c) = {}
         /\ \A p \in Named(Frontmatter, "rewrite") :
              p[1] \in DOMAIN rec /\ p[2] = [ rec[p[1]] EXCEPT !.form = "v02", !.via = TRUE ]
         /\ \A u \in DOMAIN rec : \/ Stays(rec[u])
                                  \/ u \in { p[1] : p \in Named(Frontmatter, "rewrite") }
<1> DEFINE new == [ u \in DOMAIN rec |->
               IF Stays(rec[u]) THEN rec[u] ELSE [ rec[u] EXCEPT !.form = "v02", !.via = TRUE ] ]
<1>1. \A u \in DOMAIN rec : new[u] \in User
  BY DEF RecType, User
<1>2. \A u \in DOMAIN rec : new[u] # rec[u] => new[u] = [ rec[u] EXCEPT !.form = "v02", !.via = TRUE ]
  OBVIOUS
<1>3. \A u \in DOMAIN rec : new[u] = rec[u] => Stays(rec[u])
  BY DEF RecType, User, Stays
<1>4. Frontmatter = Rewrites(new)
  BY DEF Frontmatter
<1> HIDE DEF new
<1>5. /\ Rewrites(new) \in Seq(Effects)
      /\ \A c : c # "rewrite" => Named(Rewrites(new), c) = {}
      /\ \A p \in Named(Rewrites(new), "rewrite") :
           p[1] \in DOMAIN rec /\ p[2] = new[p[1]] /\ p[2] # rec[p[1]]
      /\ \A u \in DOMAIN rec :
           new[u] = rec[u] \/ u \in { p[1] : p \in Named(Rewrites(new), "rewrite") }
  BY <1>1, RewritesPlan
<1> QED BY <1>2, <1>3, <1>4, <1>5

LEMMA RelocatedPlan ==
  ASSUME RecType
  PROVE  /\ Relocated \in Seq(Effects)
         /\ \A c : c # "rewrite" => Named(Relocated, c) = {}
         /\ \A p \in Named(Relocated, "rewrite") :
              p[1] \in DOMAIN rec /\ p[2] = [ rec[p[1]] EXCEPT !.at = "home" ]
         /\ \A u \in DOMAIN rec : \/ ~Moves(rec[u])
                                  \/ u \in { p[1] : p \in Named(Relocated, "rewrite") }
<1> DEFINE new == [ u \in DOMAIN rec |->
               IF Moves(rec[u]) THEN [ rec[u] EXCEPT !.at = "home" ]
               ELSE rec[u] ]
<1>1. \A u \in DOMAIN rec : new[u] \in User
  BY DEF RecType, User
<1>2. \A u \in DOMAIN rec : new[u] # rec[u] => new[u] = [ rec[u] EXCEPT !.at = "home" ]
  OBVIOUS
<1>3. \A u \in DOMAIN rec : new[u] = rec[u] => ~Moves(rec[u])
  BY DEF RecType, User, Moves
<1>4. Relocated = Rewrites(new)
  BY DEF Relocated
<1> HIDE DEF new
<1>5. /\ Rewrites(new) \in Seq(Effects)
      /\ \A c : c # "rewrite" => Named(Rewrites(new), c) = {}
      /\ \A p \in Named(Rewrites(new), "rewrite") :
           p[1] \in DOMAIN rec /\ p[2] = new[p[1]] /\ p[2] # rec[p[1]]
      /\ \A u \in DOMAIN rec :
           new[u] = rec[u] \/ u \in { p[1] : p \in Named(Rewrites(new), "rewrite") }
  BY <1>1, RewritesPlan
<1> QED BY <1>2, <1>3, <1>4, <1>5

LEMMA BackfilledPlan ==
  ASSUME RecType
  PROVE  /\ Backfilled \in Seq(Effects)
         /\ \A c : c # "rewrite" => Named(Backfilled, c) = {}
         /\ \A p \in Named(Backfilled, "rewrite") :
              p[1] \in DOMAIN rec /\ p[2] = [ rec[p[1]] EXCEPT !.via = TRUE ]
         /\ \A u \in DOMAIN rec : \/ rec[u].via
                                  \/ u \in { p[1] : p \in Named(Backfilled, "rewrite") }
<1> DEFINE new == [ u \in DOMAIN rec |-> [ rec[u] EXCEPT !.via = TRUE ] ]
<1>1. \A u \in DOMAIN rec : new[u] \in User
  BY DEF RecType, User
<1>2. \A u \in DOMAIN rec : new[u] = [ rec[u] EXCEPT !.via = TRUE ]
  OBVIOUS
<1>3. \A u \in DOMAIN rec : new[u] = rec[u] => rec[u].via
  BY DEF RecType, User
<1>4. Backfilled = Rewrites(new)
  BY DEF Backfilled
<1> HIDE DEF new
<1>5. /\ Rewrites(new) \in Seq(Effects)
      /\ \A c : c # "rewrite" => Named(Rewrites(new), c) = {}
      /\ \A p \in Named(Rewrites(new), "rewrite") :
           p[1] \in DOMAIN rec /\ p[2] = new[p[1]] /\ p[2] # rec[p[1]]
      /\ \A u \in DOMAIN rec :
           new[u] = rec[u] \/ u \in { p[1] : p \in Named(Rewrites(new), "rewrite") }
  BY <1>1, RewritesPlan
<1> QED BY <1>2, <1>3, <1>4, <1>5

-----------------------------------------------------------------------------
(***************************************************************************)
(* The renaming                                                            *)
(***************************************************************************)
LEMMA BareNames ==
  ASSUME NEW n \in Names
  PROVE  Bare(n) \in Names /\ Bare(n) \notin DOMAIN Stripped /\ (Bare(n) = n <=> n \notin DOMAIN Stripped)
  BY NameAssumption DEF Bare

\* Whose name is not renamed away under the feet of a folder's.
Apart ==
  \A u, v \in DOMAIN rec :
    rec[u].node /\ ~rec[v].node /\ rec[u].id = rec[v].id => rec[u].id \notin DOMAIN Stripped

Names02(u) == { NewName(d) : d \in rec[u].deps }

LEMMA NewNames ==
  ASSUME RecType, Apart
  PROVE  /\ Suffixing \notin files => \A n : NewName(n) = n
         /\ \A n : NewName(n) \in { n, Bare(n) }
         /\ \A n : n \notin DOMAIN Stripped => NewName(n) = n
         /\ Suffixing \in files => \A v \in DOMAIN rec : NewName(rec[v].id) = Final(v)
         /\ \A v \in DOMAIN rec : NewName(Final(v)) = Final(v)
<1>1. Suffixing \notin files => \A n : NewName(n) = n
  BY DEF NewName, Renamed
<1>2. \A n : NewName(n) \in { n, Bare(n) } /\ (n \notin DOMAIN Stripped => NewName(n) = n)
  BY DEF NewName, Renamed, Bare
<1>3. \A v \in DOMAIN rec : rec[v].node => NewName(rec[v].id) = rec[v].id
  <2> SUFFICES ASSUME NEW v \in DOMAIN rec, rec[v].node PROVE rec[v].id \notin Renamed
    BY DEF NewName
  <2>1. ASSUME rec[v].id \in Renamed PROVE FALSE
    <3>1. Renamed = { rec[u].id : u \in { w \in DOMAIN rec : ~rec[w].node } } \cap DOMAIN Stripped
      BY <2>1 DEF Renamed
    <3>2. PICK u \in { w \in DOMAIN rec : ~rec[w].node } : rec[v].id = rec[u].id
      BY <2>1, <3>1
    <3>3. rec[v].id \in DOMAIN Stripped
      BY <2>1, <3>1
    <3> QED BY <3>2, <3>3 DEF Apart
  <2> QED BY <2>1
<1>4. ASSUME Suffixing \in files, NEW v \in DOMAIN rec, ~rec[v].node
      PROVE  NewName(rec[v].id) = Bare(rec[v].id)
  <2>1. Renamed = { rec[u].id : u \in { w \in DOMAIN rec : ~rec[w].node } } \cap DOMAIN Stripped
    BY <1>4 DEF Renamed
  <2>2. rec[v].id \in { rec[u].id : u \in { w \in DOMAIN rec : ~rec[w].node } }
    BY <1>4
  <2> QED BY <2>1, <2>2 DEF NewName, Bare
<1>5. Suffixing \in files => \A v \in DOMAIN rec : NewName(rec[v].id) = Final(v)
  BY <1>3, <1>4 DEF Final
<1>6. \A v \in DOMAIN rec : NewName(Final(v)) = Final(v)
  <2> TAKE v \in DOMAIN rec
  <2>1. rec[v].id \in Names
    BY DEF RecType, User
  <2> QED BY <1>2, <1>3, <2>1, BareNames DEF Final
<1> QED BY <1>1, <1>2, <1>5, <1>6

LEMMA ReferencesPlan ==
  ASSUME RecType, Apart, \A u \in DOMAIN rec : rec[u].means \subseteq DOMAIN rec
  PROVE  /\ References \in Seq(Effects)
         /\ \A c : c # "rewrite" => Named(References, c) = {}
         /\ \A p \in Named(References, "rewrite") :
              /\ p[1] \in DOMAIN rec /\ Suffixing \in files /\ ~rec[p[1]].node
              /\ p[2] = [ rec[p[1]] EXCEPT !.id = Bare(@), !.deps = p[2].deps ]
              /\ Linked(p[1]) \/ Settled(p[1]) =>
                   p[2].deps = { Final(v) : v \in rec[p[1]].means }
         /\ Suffixing \in files =>
              \A u \in DOMAIN rec :
                 \/ rec[u].node
                 \/ u \in { p[1] : p \in Named(References, "rewrite") }
                 \/ /\ rec[u].id \notin DOMAIN Stripped
                    /\ Linked(u) \/ Settled(u) => Settled(u)
<1> DEFINE new == [ u \in DOMAIN rec |-> IF rec[u].node THEN rec[u] ELSE Relinked(rec[u]) ]
<1>1. \A u \in DOMAIN rec : new[u] \in User
  <2> TAKE u \in DOMAIN rec
  <2>1. rec[u] \in User
    BY DEF RecType
  <2>2. \A n \in Names : NewName(n) \in Names
    BY NewNames, BareNames
  <2>3. NewName(rec[u].id) \in Names /\ { NewName(d) : d \in rec[u].deps } \subseteq Names
    BY <2>1, <2>2 DEF User
  <2>4. Relinked(rec[u]) \in User
    BY <2>1, <2>3 DEF Relinked, User
  <2> QED BY <2>1, <2>4
<1>2. \A u \in DOMAIN rec : ~rec[u].node =>
        /\ new[u] = [ rec[u] EXCEPT !.id = NewName(rec[u].id), !.deps = Names02(u) ]
        /\ new[u].id = NewName(rec[u].id) /\ new[u].deps = Names02(u)
  BY DEF RecType, User, Relinked, Names02
<1>3. \A u \in DOMAIN rec : rec[u].node => new[u] = rec[u]
  OBVIOUS
<1>4. References = Rewrites(new)
  BY DEF References
<1> HIDE DEF new
<1>5. /\ Rewrites(new) \in Seq(Effects)
      /\ \A c : c # "rewrite" => Named(Rewrites(new), c) = {}
      /\ \A p \in Named(Rewrites(new), "rewrite") :
           p[1] \in DOMAIN rec /\ p[2] = new[p[1]] /\ p[2] # rec[p[1]]
      /\ \A u \in DOMAIN rec :
           new[u] = rec[u] \/ u \in { p[1] : p \in Named(Rewrites(new), "rewrite") }
  BY <1>1, RewritesPlan
<1>6. ASSUME Suffixing \notin files, NEW u \in DOMAIN rec PROVE new[u] = rec[u]
  <2>1. CASE ~rec[u].node
    <3>1. \A n : NewName(n) = n
      BY <1>6, NewNames
    <3>2. Names02(u) = rec[u].deps
      BY <3>1 DEF Names02
    <3>3. rec[u] \in User
      BY DEF RecType
    <3>4. new[u] = [ rec[u] EXCEPT !.id = rec[u].id, !.deps = rec[u].deps ]
      BY <1>2, <2>1, <3>1, <3>2
    <3> QED BY <3>3, <3>4 DEF User
  <2> QED BY <2>1, <1>3
<1>7. ASSUME Suffixing \in files, NEW u \in DOMAIN rec, Linked(u) \/ Settled(u)
      PROVE  Names02(u) = { Final(v) : v \in rec[u].means }
  <2>1. \A v \in rec[u].means : NewName(rec[v].id) = Final(v) /\ NewName(Final(v)) = Final(v)
    BY <1>7, NewNames
  <2>2. CASE Linked(u)
    BY <2>1, <2>2 DEF Linked, Names02
  <2>3. CASE Settled(u)
    BY <2>1, <2>3 DEF Settled, Names02
  <2> QED BY <1>7, <2>2, <2>3
<1>8. ASSUME Suffixing \in files, NEW u \in DOMAIN rec, ~rec[u].node
      PROVE  /\ new[u] = [ rec[u] EXCEPT !.id = Bare(@), !.deps = new[u].deps ]
             /\ new[u].deps = Names02(u)
             /\ new[u] = rec[u] => rec[u].id \notin DOMAIN Stripped
  <2>1. NewName(rec[u].id) = Bare(rec[u].id) /\ rec[u].id \in Names
    BY <1>8, NewNames DEF Final, RecType, User
  <2>2. new[u] = rec[u] => Bare(rec[u].id) = rec[u].id
    BY <1>2, <1>8, <2>1
  <2> QED BY <1>2, <1>8, <2>1, <2>2, BareNames
<1>9. ASSUME NEW p \in Named(Rewrites(new), "rewrite")
      PROVE  /\ p[1] \in DOMAIN rec /\ Suffixing \in files /\ ~rec[p[1]].node
             /\ p[2] = [ rec[p[1]] EXCEPT !.id = Bare(@), !.deps = p[2].deps ]
             /\ Linked(p[1]) \/ Settled(p[1]) =>
                  p[2].deps = { Final(v) : v \in rec[p[1]].means }
  <2>1. p[1] \in DOMAIN rec /\ p[2] = new[p[1]] /\ p[2] # rec[p[1]]
    BY <1>5
  <2>2. Suffixing \in files /\ ~rec[p[1]].node
    BY <2>1, <1>3, <1>6
  <2> QED BY <2>1, <2>2, <1>7, <1>8
<1>10. ASSUME Suffixing \in files, NEW u \in DOMAIN rec, ~rec[u].node, new[u] = rec[u]
       PROVE  /\ rec[u].id \notin DOMAIN Stripped
              /\ Linked(u) \/ Settled(u) => Settled(u)
  <2>1. new[u].deps = Names02(u) /\ rec[u].id \notin DOMAIN Stripped
    BY <1>8, <1>10
  <2> QED BY <2>1, <1>7, <1>10 DEF Settled
<1>11. \A p \in Named(References, "rewrite") :
         /\ p[1] \in DOMAIN rec /\ Suffixing \in files /\ ~rec[p[1]].node
         /\ p[2] = [ rec[p[1]] EXCEPT !.id = Bare(@), !.deps = p[2].deps ]
         /\ Linked(p[1]) \/ Settled(p[1]) =>
              p[2].deps = { Final(v) : v \in rec[p[1]].means }
  BY <1>4, <1>9, Zenon
<1> QED BY <1>4, <1>5, <1>10, <1>11

-----------------------------------------------------------------------------
(***************************************************************************)
(* One effect                                                              *)
(***************************************************************************)
LEMMA TailAt ==
  ASSUME NEW s \in Seq(Effects), s # << >>
  PROVE  /\ Head(s) \in Effects /\ Head(s) = s[1] /\ Tail(s) \in Seq(Effects)
         /\ Len(s) \in Nat /\ Len(s) >= 1 /\ DOMAIN s = 1 .. Len(s)
         /\ Len(Tail(s)) = Len(s) - 1 /\ DOMAIN Tail(s) = 1 .. Len(s) - 1
         /\ \A i \in DOMAIN Tail(s) : Tail(s)[i] = s[i + 1]
  OBVIOUS

LEMMA TailFacts ==
  ASSUME NEW s \in Seq(Effects), s # << >>
  PROVE  /\ Elements(s) = Elements(Tail(s)) \cup { Head(s) }
         /\ \A c : c # Head(s).do => Named(Tail(s), c) = Named(s, c)
         /\ Named(s, Head(s).do) = Named(Tail(s), Head(s).do) \cup { Head(s).of }
<1>1. /\ Head(s) = s[1] /\ Len(s) \in Nat /\ Len(s) >= 1 /\ DOMAIN s = 1 .. Len(s)
      /\ DOMAIN Tail(s) = 1 .. Len(s) - 1
      /\ \A i \in DOMAIN Tail(s) : Tail(s)[i] = s[i + 1]
  BY TailAt
<1>2. \A i \in DOMAIN s : i = 1 \/ (i - 1 \in DOMAIN Tail(s) /\ Tail(s)[i - 1] = s[i])
  BY <1>1
<1>3. \A i \in DOMAIN Tail(s) : i + 1 \in DOMAIN s /\ Tail(s)[i] = s[i + 1]
  BY <1>1
<1>4. Elements(s) \subseteq Elements(Tail(s)) \cup { Head(s) }
  BY <1>1, <1>2 DEF Elements
<1>5. Elements(Tail(s)) \cup { Head(s) } \subseteq Elements(s)
  BY <1>1, <1>3 DEF Elements
<1>6. Elements(s) = Elements(Tail(s)) \cup { Head(s) }
  BY <1>4, <1>5
<1> QED BY <1>6 DEF Named

LEMMA TailSorted ==
  ASSUME NEW p, NEW s \in Seq(Effects), s # << >>, Sorted(p, s)
  PROVE  Sorted(p, Tail(s)) /\ \A e \in Elements(Tail(s)) : Rank(p, Head(s)) <= Rank(p, e)
<1>1. /\ Head(s) = s[1] /\ Len(s) \in Nat /\ Len(s) >= 1 /\ DOMAIN s = 1 .. Len(s)
      /\ DOMAIN Tail(s) = 1 .. Len(s) - 1
      /\ \A i \in DOMAIN Tail(s) : Tail(s)[i] = s[i + 1]
  BY TailAt
<1>2. \A i \in DOMAIN Tail(s) : i + 1 \in DOMAIN s /\ 1 \in DOMAIN s /\ 1 < i + 1
  BY <1>1
<1>3. \A i, j \in DOMAIN Tail(s) : i < j => i + 1 < j + 1
  BY <1>1
<1>4. Sorted(p, Tail(s))
  BY <1>1, <1>2, <1>3 DEF Sorted
<1>5. \A i \in DOMAIN Tail(s) : Rank(p, Head(s)) <= Rank(p, Tail(s)[i])
  BY <1>1, <1>2 DEF Sorted
<1> QED BY <1>4, <1>5 DEF Elements

LEMMA TailPlaced ==
  ASSUME NEW p, NEW s \in Seq(Effects), s # << >>, Placed(p, s)
  PROVE  /\ Placed(p, Tail(s))
         /\ p = "fresh" => Named(Tail(s), "version") = {}
         /\ p # "fresh" /\ Head(s).do = "version" => Tail(s) = << >>
<1>1. /\ Head(s) = s[1] /\ Len(s) \in Nat /\ Len(s) >= 1 /\ DOMAIN s = 1 .. Len(s)
      /\ Len(Tail(s)) = Len(s) - 1 /\ DOMAIN Tail(s) = 1 .. Len(s) - 1
      /\ \A i \in DOMAIN Tail(s) : Tail(s)[i] = s[i + 1]
  BY TailAt
<1>2. \A i \in VersionsIn(Tail(s)) : i \in DOMAIN Tail(s) /\ i + 1 \in VersionsIn(s)
  BY <1>1 DEF VersionsIn
<1>3. p = "fresh" => VersionsIn(Tail(s)) = {}
  BY <1>1, <1>2 DEF Placed
<1>4. p # "fresh" => \A i \in VersionsIn(Tail(s)) : i = Len(Tail(s))
  BY <1>1, <1>2 DEF Placed
<1>5. p = "fresh" => Named(Tail(s), "version") = {}
  BY <1>3 DEF Named, VersionsIn, Elements
<1>6. ASSUME p # "fresh", Head(s).do = "version" PROVE Tail(s) = << >>
  <2>1. 1 \in VersionsIn(s)
    BY <1>1, <1>6 DEF VersionsIn
  <2>2. Len(s) = 1
    BY <1>6, <2>1 DEF Placed
  <2>3. Tail(s) \in Seq(Effects) /\ Len(Tail(s)) = 0
    BY <1>1, <2>2, TailAt
  <2>4. \A t \in Seq(Effects) : Len(t) = 0 => t = << >>
    OBVIOUS
  <2> QED BY <2>3, <2>4, Zenon
<1> QED BY <1>3, <1>4, <1>5, <1>6 DEF Placed

LEMMA TailBacked ==
  ASSUME NEW s \in Seq(Effects), s # << >>, NEW F, Backed(s, F)
  PROVE  /\ Head(s).do # "record" => Backed(Tail(s), F)
         /\ Head(s).do = "record" => Backed(Tail(s), F \cup { Head(s).of })
         /\ Head(s).do = "unlink" => Head(s).of \in F
<1>1. /\ Head(s) = s[1] /\ Len(s) \in Nat /\ Len(s) >= 1 /\ DOMAIN s = 1 .. Len(s)
      /\ DOMAIN Tail(s) = 1 .. Len(s) - 1
      /\ \A i \in DOMAIN Tail(s) : Tail(s)[i] = s[i + 1]
  BY TailAt
<1>2. Head(s).do = "unlink" => Head(s).of \in F
  BY <1>1 DEF Backed
<1>3. ASSUME NEW j \in DOMAIN Tail(s), Tail(s)[j].do = "unlink"
      PROVE  \/ Tail(s)[j].of \in F
             \/ Head(s).do = "record" /\ Head(s).of = Tail(s)[j].of
             \/ \E i \in DOMAIN Tail(s) : /\ i < j /\ Tail(s)[i].do = "record"
                                          /\ Tail(s)[i].of = Tail(s)[j].of
  <2>1. j + 1 \in DOMAIN s /\ s[j + 1] = Tail(s)[j]
    BY <1>1
  <2>2. CASE \E i \in DOMAIN s : i < j + 1 /\ s[i].do = "record" /\ s[i].of = s[j + 1].of
    <3>1. PICK i \in DOMAIN s : i < j + 1 /\ s[i].do = "record" /\ s[i].of = s[j + 1].of
      BY <2>2
    <3>2. CASE i = 1
      BY <3>1, <3>2, <2>1, <1>1
    <3>3. CASE i # 1
      <4>1. i - 1 \in DOMAIN Tail(s) /\ i - 1 < j /\ Tail(s)[i - 1] = s[i]
        BY <1>1, <3>1, <3>3
      <4> QED BY <4>1, <3>1, <2>1
    <3> QED BY <3>2, <3>3
  <2> QED BY <1>3, <2>1, <2>2 DEF Backed
<1>4. Head(s).do # "record" => Backed(Tail(s), F)
  BY <1>3 DEF Backed
<1>5. Head(s).do = "record" => Backed(Tail(s), F \cup { Head(s).of })
  BY <1>3 DEF Backed
<1> QED BY <1>2, <1>4, <1>5

LEMMA PendingType ==
  ASSUME todo \in Seq(Effects)
  PROVE  /\ Pending("version") \subseteq Versions /\ Pending("body") \subseteq Elements(Types)
         /\ Pending("record") \subseteq Files /\ Pending("unlink") \subseteq Configured
         /\ Pending("rewrite") \subseteq Elements(Users) \X User /\ Pending("event") \subseteq Events
         /\ Pending("index") \subseteq {None}
<1>1. Elements(todo) \subseteq Effects
  BY DEF Elements
<1>2. \A e \in Effects :
        /\ e.do = "version" => e.of \in Versions
        /\ e.do = "body" => e.of \in Elements(Types)
        /\ e.do = "record" => e.of \in Files
        /\ e.do = "unlink" => e.of \in Configured
        /\ e.do = "rewrite" => e.of \in Elements(Users) \X User
        /\ e.do = "event" => e.of \in Events
        /\ e.do = "index" => e.of \in {None}
  BY DEF Effects
<1> QED BY <1>1, <1>2 DEF Pending

\* What remains to be written when one effect is done.
LEMMA NowFacts ==
  ASSUME BInv, NEW d, Now(d)
  PROVE  /\ todo \in Seq(Effects) /\ todo # << >> /\ todo' = Tail(todo) /\ todo' \in Seq(Effects)
         /\ pc' = pc /\ pc # "idle" /\ UNCHANGED << deaths, halfway, torn, left >>
         /\ Head(todo).do = d /\ This \in Pending(d)
         /\ \A c : c # d => Pending(c)' = Pending(c)
         /\ Pending(d) = Pending(d)' \cup { This }
         /\ d # "rewrite" => Rewritten' = Rewritten
<1>1. /\ todo # << >> /\ todo' = Tail(todo) /\ Head(todo).do = d
      /\ pc' = pc /\ UNCHANGED << deaths, halfway, torn, left >>
  BY DEF Now
<1>2. todo \in Seq(Effects) /\ Tail(todo) \in Seq(Effects)
  BY <1>1, TailAt DEF BInv, Typed
<1>3. pc # "idle"
  BY <1>1 DEF BInv, Fits
<1>4. /\ \A c : c # d => Named(Tail(todo), c) = Named(todo, c)
      /\ Named(todo, d) = Named(Tail(todo), d) \cup { This }
  BY <1>1, <1>2, TailFacts DEF This
<1>5. \A c : Pending(c)' = Named(Tail(todo), c)
  BY <1>1 DEF Pending, Named
<1>6. \A c : Pending(c) = Named(todo, c)
  BY PendingNamed
<1>7. d # "rewrite" => Rewritten' = Rewritten
  BY <1>4, <1>5, <1>6 DEF Rewritten
<1> QED BY <1>1, <1>2, <1>3, <1>4, <1>5, <1>6, <1>7

\* Where a phase writes in order, what remains is not before what was written.
LEMMA NowOrdered ==
  ASSUME BInv, NEW d, Now(d)
  PROVE  /\ Ordered'
         /\ pc = "fresh" => Pending("version")' = {}
         /\ pc \in { "upgrade", "finalize" } /\ d = "version" => \A c : Pending(c)' = {}
         /\ pc \in Ending /\ d \in { "event", "index" } =>
              Pending("body")' = {} /\ Pending("record")' = {}
         /\ pc \in Ending /\ d = "index" => Pending("event")' = {}
         /\ pc \in Ending /\ d = "record" /\ This = "scope" =>
              Pending("record")' \subseteq { "scope", "bootstrap" }
         /\ pc \in Ending /\ d = "record" /\ This = "bootstrap" =>
              Pending("record")' \subseteq { "bootstrap" }
<1>1. /\ todo \in Seq(Effects) /\ todo # << >> /\ todo' = Tail(todo) /\ pc' = pc
      /\ Head(todo).do = d
  BY NowFacts
<1>2. \A c : Pending(c)' = Named(Tail(todo), c)
  BY <1>1 DEF Pending, Named
<1>3. ASSUME pc \in Ending
      PROVE  /\ Sorted(pc, Tail(todo)) /\ Placed(pc, Tail(todo))
             /\ \A e \in Elements(Tail(todo)) : Rank(pc, Head(todo)) <= Rank(pc, e)
             /\ pc = "fresh" => Named(Tail(todo), "version") = {}
             /\ pc # "fresh" /\ d = "version" => Tail(todo) = << >>
  <2>1. Sorted(pc, todo) /\ Placed(pc, todo)
    BY <1>3 DEF BInv, Ordered, Placed
  <2> QED BY <1>1, <2>1, TailSorted, TailPlaced
<1>4. Ordered'
  <2>1. Ordered' = (pc \in Ending => Sorted(pc, Tail(todo)) /\ Placed(pc, Tail(todo)))
    BY <1>1 DEF Ordered, Placed
  <2> QED BY <1>3, <2>1
<1>5. pc = "fresh" => Pending("version")' = {}
  BY <1>2, <1>3 DEF Ending
<1>6. pc \in { "upgrade", "finalize" } /\ d = "version" => \A c : Pending(c)' = {}
  BY <1>2, <1>3, NothingNamed DEF Ending
<1>7. ASSUME pc \in Ending, d \in { "event", "index" }
      PROVE  Pending("body")' = {} /\ Pending("record")' = {} /\ (d = "index" => Pending("event")' = {})
  <2>1. Rank(pc, Head(todo)) = IF d = "event" THEN 5 ELSE 6
    BY <1>1, <1>7 DEF Rank
  <2>2. \A e \in Elements(Tail(todo)) : /\ e.do \notin { "body", "record" }
                                        /\ d = "index" => e.do # "event"
    BY <1>3, <1>7, <2>1 DEF Rank
  <2> QED BY <1>2, <2>2 DEF Named
<1>8. ASSUME pc \in Ending, d = "record", This \in { "scope", "bootstrap" }
      PROVE  Pending("record")' \subseteq IF This = "scope" THEN { "scope", "bootstrap" } ELSE {"bootstrap"}
  <2>1. Rank(pc, Head(todo)) = IF This = "scope" THEN 3 ELSE 4
    BY <1>1, <1>8 DEF Rank, This
  <2>2. \A e \in Elements(Tail(todo)) : e.do = "record" =>
          e.of \in IF This = "scope" THEN { "scope", "bootstrap" } ELSE {"bootstrap"}
    BY <1>3, <1>8, <2>1 DEF Rank
  <2> QED BY <1>2, <2>2 DEF Named
<1> QED BY <1>4, <1>5, <1>6, <1>7, <1>8

-----------------------------------------------------------------------------
(***************************************************************************)
(* Every effect keeps the invariant                                        *)
(***************************************************************************)
LEMMA WriteVersionKeeps == BInv /\ WriteVersion => BInv'
<1> SUFFICES ASSUME BInv, WriteVersion PROVE BInv'
  OBVIOUS
<1>1. Now("version") /\ version' = This /\ climbed' = climbed \cup { << pc, version >> }
        /\ UNCHANGED << files, bodies, ymls, rec, ledger, indexed, worked >>
  BY DEF WriteVersion
<1>2. /\ todo' \in Seq(Effects) /\ pc' = pc /\ UNCHANGED << deaths, halfway, torn, left >>
      /\ This \in Pending("version")
      /\ Pending("version") = Pending("version")' \cup { This }
      /\ Pending("body")' = Pending("body") /\ Pending("record")' = Pending("record")
      /\ Pending("unlink")' = Pending("unlink") /\ Pending("rewrite")' = Pending("rewrite")
      /\ Pending("event")' = Pending("event") /\ Pending("index")' = Pending("index")
      /\ Rewritten' = Rewritten
  BY <1>1, NowFacts
<1>3. /\ Ordered'
      /\ pc = "fresh" => Pending("version")' = {}
      /\ pc \in { "upgrade", "finalize" } =>
           /\ Pending("version")' = {} /\ Pending("body")' = {} /\ Pending("record")' = {}
           /\ Pending("unlink")' = {} /\ Pending("rewrite")' = {} /\ Pending("event")' = {}
           /\ Pending("index")' = {}
  BY <1>1, NowOrdered
<1>4. /\ pc \in Ending /\ This \in Versions /\ deaths \in Nat
      /\ version \in Versions \cup {None} /\ None \notin Versions
  BY <1>2, PendingType, BoundAssumption, FileAssumption DEF BInv, Fits, Typed, TypeOK
<1>5. /\ pc = "fresh" => version = None /\ version' = "current"
      /\ pc = "upgrade" => version \in Versions \ {"current"} /\ version' = "current"
      /\ pc = "finalize" => \/ version = "0.1.0" /\ version' = "0.2.0"
                            \/ version = "1.0.0" /\ version' = "current"
  BY <1>1, <1>2, <1>4 DEF BInv, Aimed, Typed, TypeOK, Ending, Versions
<1>6. Typed'
  BY <1>1, <1>2, <1>4 DEF BInv, Typed, TypeOK, Ending
<1>7. Fits'
  <2>1. pc = "idle" => FALSE
    BY <1>4 DEF Ending
  <2> QED BY <1>1, <1>2, <1>4, <2>1 DEF BInv, Fits
<1>8. Aimed'
  BY <1>2, <1>3, <1>4, <1>5 DEF Aimed, Ending, Versions
<1>9. Climbed'
  BY <1>1, <1>2, <1>4, <1>5 DEF BInv, Climbed, Ending, Versions
<1>10. IndexLast'
  BY <1>1, <1>2, <1>3, <1>4, <1>5 DEF BInv, IndexLast, Ending, Fits, Born
<1>11. Born'
  BY <1>1, <1>2, <1>3, <1>4, <1>5 DEF BInv, Born, Ending, Versions
<1>12. Whole'
  <2>1. CASE pc = "fresh"
    <3>1. version' = "current" /\ files' = {} /\ ledger' = {} /\ DOMAIN rec' = {} /\ pc' = "fresh"
      BY <1>1, <1>2, <1>5, <2>1 DEF BInv, Born
    <3>2. << "upgrade", "0.1.0" >> \in climbed' => deaths' > 0
      BY <1>1, <1>2, <2>1 DEF BInv, Scoped, Whole
    <3> QED BY <3>1, <3>2 DEF Whole, Scoped
  <2>2. CASE pc = "upgrade"
    BY <1>1, <1>2, <1>4, <1>5, <2>2 DEF BInv, Scoped, Whole, Versions
  <2>3. CASE pc = "finalize"
    BY <1>1, <1>2, <1>4, <1>5, <2>3 DEF BInv, Scoped, Whole, Content, End02, Versions
  <2> QED BY <1>4, <2>1, <2>2, <2>3 DEF Ending
<1>13. Raised'
  BY <1>1, <1>2, <1>3, <1>4, <1>5 DEF BInv, Raised, Climbed, Ending, Versions
<1>14. Configuration'
  BY <1>1, <1>2, <1>3, <1>4, <1>5 DEF BInv, Configuration, Ending, End02, Over02, Versions
<1>15. Content'
  BY <1>1, <1>2, <1>3, <1>4, <1>5 DEF BInv, Content, Ending, End02, Over02, Versions
<1>16. Form'
  BY <1>1, <1>2, <1>3, <1>4, <1>5 DEF BInv, Form, Ending, End02, Over02, Versions
<1>17. Logged02'
  BY <1>1, <1>2, <1>3, <1>4, <1>5 DEF BInv, Logged02, Ending, End02, Over02, Versions, IndexLast
<1>18. Bodies101'
  BY <1>1, <1>2, <1>3, <1>4, <1>5 DEF BInv, Bodies101, Climbed, Ending, End101, Over101, Versions
<1>19. Records101'
  BY <1>1, <1>2, <1>3, <1>4, <1>5 DEF BInv, Records101, Climbed, Ending, End101, Over101, Versions
<1>20. Logged101'
  BY <1>1, <1>2, <1>3, <1>4, <1>5 DEF BInv, Logged101, Climbed, Ending, End101, Over101, Versions
<1>21. Becomes'
  BY <1>1, <1>2, <1>4 DEF BInv, Becomes, Fits, Ending
<1>22. Pointing'
  BY <1>1, <1>2, <1>3, <1>4, <1>5 DEF BInv, Pointing, Linked, Settled, Final, Ending, End02, Versions
<1> QED BY <1>3, <1>6, <1>7, <1>8, <1>9, <1>10, <1>11, <1>12, <1>13, <1>14, <1>15, <1>16, <1>17,
           <1>18, <1>19, <1>20, <1>21, <1>22 DEF BInv



LEMMA WriteBodyKeeps == BInv /\ WriteBody => BInv'
<1> SUFFICES ASSUME BInv, WriteBody PROVE BInv'
  OBVIOUS
<1>1. /\ Now("body")
      /\ bodies' = [ bodies EXCEPT ![This] = "new" ]
      /\ worked' = TRUE
      /\ UNCHANGED << version, files, ymls, rec, ledger, indexed, climbed >>
  BY DEF WriteBody
<1>2. /\ todo' \in Seq(Effects) /\ pc' = pc /\ pc # "idle" /\ UNCHANGED << deaths, halfway, torn, left >>
      /\ This \in Pending("body") /\ Pending("body") = Pending("body")' \cup { This }
      /\ Pending("version")' = Pending("version") /\ Pending("record")' = Pending("record")
      /\ Pending("unlink")' = Pending("unlink") /\ Pending("rewrite")' = Pending("rewrite")
      /\ Pending("event")' = Pending("event") /\ Pending("index")' = Pending("index")
      /\ Rewritten' = Rewritten
  BY <1>1, NowFacts
<1>3. /\ Ordered'
      /\ pc = "fresh" => Pending("version")' = {}
  BY <1>1, NowOrdered DEF Ending
<1>4. /\ This \in Elements(Types)
      /\ bodies \in [ Elements(Types) -> { "none", "old", "new" } ]
      /\ pc \in { "fresh", "upgrade", "vendored", "bodies" }
  BY <1>2, PendingType DEF BInv, Fits, Typed, TypeOK
<1>5. bodies'[This] = "new" /\ \A t \in Elements(Types) \ {This} : bodies'[t] = bodies[t]
  BY <1>1, <1>4
<1>6. Typed'
  BY <1>1, <1>2, <1>3, <1>4, <1>5 DEF BInv, Typed, TypeOK
<1>7. Fits'
  BY <1>1, <1>2, <1>3, <1>4, <1>5 DEF BInv, Fits
<1>8. Aimed'
  BY <1>1, <1>2, <1>3, <1>4, <1>5 DEF BInv, Aimed, Ending
<1>9. Climbed'
  BY <1>1, <1>2, <1>3, <1>4, <1>5 DEF BInv, Climbed
<1>10. IndexLast'
  BY <1>1, <1>2, <1>3, <1>4, <1>5 DEF BInv, IndexLast, Ending, Fits, Aimed
<1>11. Born'
  BY <1>1, <1>2, <1>3, <1>4, <1>5 DEF BInv, Born, Aimed
<1>12. Whole'
  BY <1>1, <1>2, <1>3, <1>4, <1>5 DEF BInv, Scoped, Whole, Born, Fits, Aimed
<1>13. Raised'
  BY <1>1, <1>2, <1>3, <1>4, <1>5 DEF BInv, Raised, Fits
<1>14. Configuration'
  BY <1>1, <1>2, <1>3, <1>4, <1>5 DEF BInv, Configuration, Fits, Ending, End02, Over02
<1>15. Content'
  BY <1>1, <1>2, <1>3, <1>4, <1>5 DEF BInv, Content, End02, Over02
<1>16. Form'
  BY <1>1, <1>2, <1>3, <1>4, <1>5 DEF BInv, Form, End02, Over02
<1>17. Logged02'
  BY <1>1, <1>2, <1>3, <1>4, <1>5 DEF BInv, Logged02, End02, Over02
<1>18. Bodies101'
  BY <1>1, <1>2, <1>3, <1>4, <1>5 DEF BInv, Bodies101, End101, Over101
<1>19. Records101'
  BY <1>1, <1>2, <1>3, <1>4, <1>5 DEF BInv, Records101, End101, Over101
<1>20. Logged101'
  BY <1>1, <1>2, <1>3, <1>4, <1>5 DEF BInv, Logged101, End101, Over101
<1>21. Becomes'
  BY <1>1, <1>2, <1>3, <1>4, <1>5 DEF BInv, Becomes, Final, Fits, Ending
<1>22. Pointing'
  BY <1>1, <1>2, <1>3, <1>4, <1>5 DEF BInv, Pointing, Linked, Settled, Final, End02, Fits
<1> QED BY <1>3, <1>6, <1>7, <1>8, <1>9, <1>10, <1>11, <1>12, <1>13, <1>14, <1>15,
           <1>16, <1>17, <1>18, <1>19, <1>20, <1>21, <1>22 DEF BInv

LEMMA WriteRecordKeeps == BInv /\ WriteRecord => BInv'
<1> SUFFICES ASSUME BInv, WriteRecord PROVE BInv'
  OBVIOUS
<1>1. /\ Now("record")
      /\ files' = files \cup { This }
      /\ indexed' = FALSE
      /\ UNCHANGED << version, bodies, ymls, rec, ledger, worked, climbed >>
  BY DEF WriteRecord
<1>2. /\ todo' \in Seq(Effects) /\ pc' = pc /\ pc # "idle" /\ UNCHANGED << deaths, halfway, torn, left >>
      /\ This \in Pending("record") /\ Pending("record") = Pending("record")' \cup { This }
      /\ Pending("version")' = Pending("version") /\ Pending("body")' = Pending("body")
      /\ Pending("unlink")' = Pending("unlink") /\ Pending("rewrite")' = Pending("rewrite")
      /\ Pending("event")' = Pending("event") /\ Pending("index")' = Pending("index")
      /\ Rewritten' = Rewritten
  BY <1>1, NowFacts
<1>3. /\ Ordered'
      /\ pc = "fresh" => Pending("version")' = {}
      /\ pc = "fresh" /\ This = "scope" => Pending("record")' \subseteq { "scope", "bootstrap" }
      /\ pc = "fresh" /\ This = "bootstrap" => Pending("record")' \subseteq { "bootstrap" }
  BY <1>1, NowOrdered DEF Ending
<1>4. /\ None \notin Versions
      /\ This \in Files /\ ymls \subseteq Configured
      /\ pc \in { "fresh", "upgrade", "structural", "vendored" }
      /\ Vendor \cap Own = {} /\ Vendor \cap Configured = {} /\ Elements(Staged) = Vendor \cup Own
  BY <1>2, PendingType, Lists, FileAssumption DEF BInv, Fits, Typed, TypeOK
<1>5. pc = "fresh" => version = "current"
  BY <1>2, <1>3 DEF BInv, Aimed
<1>6. pc = "structural" => Backed(todo', files')
  <2>1. todo \in Seq(Effects) /\ todo # << >> /\ todo' = Tail(todo) /\ Head(todo).do = "record"
    BY <1>1, NowFacts
  <2> QED BY <1>1, <2>1, TailBacked DEF BInv, Configuration, This
<1>7. Typed'
  BY <1>1, <1>2, <1>3, <1>4, <1>5, <1>6 DEF BInv, Typed, TypeOK
<1>8. Fits'
  BY <1>1, <1>2, <1>3, <1>4, <1>5, <1>6 DEF BInv, Fits
<1>9. Aimed'
  BY <1>1, <1>2, <1>3, <1>4, <1>5, <1>6 DEF BInv, Aimed, Ending
<1>10. Climbed'
  BY <1>1, <1>2, <1>3, <1>4, <1>5, <1>6 DEF BInv, Climbed
<1>11. IndexLast'
  BY <1>1, <1>2, <1>3, <1>4, <1>5, <1>6 DEF BInv, IndexLast, Ending, Fits, Aimed
<1>12. Born'
  BY <1>1, <1>2, <1>3, <1>4, <1>5, <1>6 DEF BInv, Born, Aimed, Own, Versions
<1>13. Whole'
  <2>1. "scope" \in UserScopes /\ (Scoped => Scoped')
    BY <1>1 DEF Scoped, UserScopes
  <2>2. "scope" \in Kinds
    BY DEF Kinds
  <2>3. Elements(Configs["scope"]) \subseteq Configured
    BY <2>2, Lists
  <2>4. UserScopes \cap Elements(Staged) \subseteq { "scope" }
    BY <1>4, <2>3, FileAssumption DEF UserScopes
  <2>5. pc = "fresh" => This \in Elements(Staged)
    BY <1>2 DEF BInv, Born
  <2>6. pc = "fresh" /\ ~Scoped /\ Scoped' => "scope" \in files'
    BY <1>1, <2>4, <2>5 DEF Scoped
  <2>7. pc = "fresh" /\ "scope" \in files' => { "kernel.self", "_kernel", "human" } \subseteq files'
    BY <1>2, <1>4, <1>12 DEF Born, Own
  <2>8. pc \in { "structural", "vendored" } => version = "0.1.0"
    BY DEF BInv, Aimed
  <2>9. pc = "upgrade" => Scoped
    BY DEF BInv, Whole
  <2>10. CASE pc = "fresh"
    <3>1. version' = "current" /\ pc' = "fresh" /\ UNCHANGED << rec, ledger, climbed, deaths, halfway >>
      BY <1>1, <1>2, <1>5, <2>10
    <3>2. ledger = {} /\ DOMAIN rec = {}
      BY <1>2, <2>10 DEF BInv, Born
    <3>3. ~Scoped' => "bootstrap" \notin files'
      BY <1>12, <2>1, <2>10, <3>1 DEF Born, Scoped
    <3>4. Scoped' /\ << "upgrade", "0.1.0" >> \notin climbed => { "kernel.self", "_kernel", "human" } \subseteq files'
      BY <1>1, <1>5, <2>6, <2>7, <2>10 DEF BInv, Whole
    <3>5. << "upgrade", "0.1.0" >> \in climbed => deaths > 0
      BY DEF BInv, Whole
    <3> QED BY <3>1, <3>2, <3>3, <3>4, <3>5 DEF Whole
  <2>11. CASE pc # "fresh"
    <3>1. pc \in { "upgrade", "structural", "vendored" }
      BY <1>4, <2>11
    <3>2. version = "current" => Scoped
      BY <2>8, <2>9, <3>1
    <3> HIDE DEF Scoped
    <3> QED BY <1>1, <1>2, <2>1, <2>8, <2>9, <2>11, <3>1, <3>2 DEF BInv, Whole
  <2> QED BY <2>10, <2>11
<1>14. Raised'
  BY <1>1, <1>2, <1>3, <1>4, <1>5, <1>6 DEF BInv, Raised, Fits
<1>15. Configuration'
  BY <1>1, <1>2, <1>3, <1>4, <1>5, <1>6 DEF BInv, Configuration, Fits, Ending, End02, Over02
<1>16. Content'
  BY <1>1, <1>2, <1>3, <1>4, <1>5, <1>6 DEF BInv, Content, End02, Over02
<1>17. Form'
  BY <1>1, <1>2, <1>3, <1>4, <1>5, <1>6 DEF BInv, Form, End02, Over02
<1>18. Logged02'
  BY <1>1, <1>2, <1>3, <1>4, <1>5, <1>6 DEF BInv, Logged02, End02, Over02
<1>19. Bodies101'
  BY <1>1, <1>2, <1>3, <1>4, <1>5, <1>6 DEF BInv, Bodies101, End101, Over101
<1>20. Records101'
  BY <1>1, <1>2, <1>3, <1>4, <1>5, <1>6 DEF BInv, Records101, End101, Over101
<1>21. Logged101'
  BY <1>1, <1>2, <1>3, <1>4, <1>5, <1>6 DEF BInv, Logged101, End101, Over101
<1>22. Becomes'
  BY <1>1, <1>2, <1>3, <1>4, <1>5, <1>6 DEF BInv, Becomes, Final, Fits, Ending
<1>23. Pointing'
  BY <1>1, <1>2, <1>3, <1>4, <1>5, <1>6 DEF BInv, Pointing, Linked, Settled, Final, End02, Fits
<1> QED BY <1>3, <1>7, <1>8, <1>9, <1>10, <1>11, <1>12, <1>13, <1>14, <1>15, <1>16,
           <1>17, <1>18, <1>19, <1>20, <1>21, <1>22, <1>23 DEF BInv

LEMMA UnlinkKeeps == BInv /\ Unlink => BInv'
<1> SUFFICES ASSUME BInv, Unlink PROVE BInv'
  OBVIOUS
<1>1. /\ Now("unlink")
      /\ ymls' = ymls \ { This }
      /\ UNCHANGED << version, files, bodies, rec, ledger, indexed, worked, climbed >>
  BY DEF Unlink
<1>2. /\ todo' \in Seq(Effects) /\ pc' = pc /\ pc # "idle" /\ UNCHANGED << deaths, halfway, torn, left >>
      /\ This \in Pending("unlink") /\ Pending("unlink") = Pending("unlink")' \cup { This }
      /\ Pending("version")' = Pending("version") /\ Pending("body")' = Pending("body")
      /\ Pending("record")' = Pending("record") /\ Pending("rewrite")' = Pending("rewrite")
      /\ Pending("event")' = Pending("event") /\ Pending("index")' = Pending("index")
      /\ Rewritten' = Rewritten
  BY <1>1, NowFacts
<1>3. /\ Ordered'
      /\ pc = "fresh" => Pending("version")' = {}
  BY <1>1, NowOrdered DEF Ending
<1>4. /\ This \in Configured /\ pc = "structural"
  BY <1>2, PendingType DEF BInv, Fits, Typed, TypeOK
<1>5. Backed(todo', files')
  <2>1. todo \in Seq(Effects) /\ todo # << >> /\ todo' = Tail(todo) /\ Head(todo).do = "unlink"
    BY <1>1, NowFacts
  <2> QED BY <1>1, <1>4, <2>1, TailBacked DEF BInv, Configuration
<1>6. Typed'
  BY <1>1, <1>2, <1>3, <1>4, <1>5 DEF BInv, Typed, TypeOK
<1>7. Fits'
  BY <1>1, <1>2, <1>3, <1>4, <1>5 DEF BInv, Fits
<1>8. Aimed'
  BY <1>1, <1>2, <1>3, <1>4, <1>5 DEF BInv, Aimed, Ending
<1>9. Climbed'
  BY <1>1, <1>2, <1>3, <1>4, <1>5 DEF BInv, Climbed
<1>10. IndexLast'
  BY <1>1, <1>2, <1>3, <1>4, <1>5 DEF BInv, IndexLast, Ending, Fits, Aimed
<1>11. Born'
  BY <1>1, <1>2, <1>3, <1>4, <1>5 DEF BInv, Born, Aimed
<1>12. Whole'
  BY <1>1, <1>2, <1>3, <1>4, <1>5 DEF BInv, Scoped, Whole, Born, Fits, Aimed
<1>13. Raised'
  BY <1>1, <1>2, <1>3, <1>4, <1>5 DEF BInv, Raised, Fits
<1>14. Configuration'
  BY <1>1, <1>2, <1>3, <1>4, <1>5 DEF BInv, Configuration, Fits, Ending, End02, Over02
<1>15. Content'
  BY <1>1, <1>2, <1>3, <1>4, <1>5 DEF BInv, Content, End02, Over02
<1>16. Form'
  BY <1>1, <1>2, <1>3, <1>4, <1>5 DEF BInv, Form, End02, Over02
<1>17. Logged02'
  BY <1>1, <1>2, <1>3, <1>4, <1>5 DEF BInv, Logged02, End02, Over02
<1>18. Bodies101'
  BY <1>1, <1>2, <1>3, <1>4, <1>5 DEF BInv, Bodies101, End101, Over101
<1>19. Records101'
  BY <1>1, <1>2, <1>3, <1>4, <1>5 DEF BInv, Records101, End101, Over101
<1>20. Logged101'
  BY <1>1, <1>2, <1>3, <1>4, <1>5 DEF BInv, Logged101, End101, Over101
<1>21. Becomes'
  BY <1>1, <1>2, <1>3, <1>4, <1>5 DEF BInv, Becomes, Final, Fits, Ending
<1>22. Pointing'
  BY <1>1, <1>2, <1>3, <1>4, <1>5 DEF BInv, Pointing, Linked, Settled, Final, End02, Fits
<1> QED BY <1>3, <1>6, <1>7, <1>8, <1>9, <1>10, <1>11, <1>12, <1>13, <1>14, <1>15,
           <1>16, <1>17, <1>18, <1>19, <1>20, <1>21, <1>22 DEF BInv

LEMMA AppendEventKeeps == BInv /\ AppendEvent => BInv'
<1> SUFFICES ASSUME BInv, AppendEvent PROVE BInv'
  OBVIOUS
<1>1. /\ Now("event")
      /\ ledger' = ledger \cup { This }
      /\ UNCHANGED << version, files, bodies, ymls, rec, indexed, worked, climbed >>
  BY DEF AppendEvent
<1>2. /\ todo' \in Seq(Effects) /\ pc' = pc /\ pc # "idle" /\ UNCHANGED << deaths, halfway, torn, left >>
      /\ This \in Pending("event") /\ Pending("event") = Pending("event")' \cup { This }
      /\ Pending("version")' = Pending("version") /\ Pending("body")' = Pending("body")
      /\ Pending("record")' = Pending("record") /\ Pending("unlink")' = Pending("unlink")
      /\ Pending("rewrite")' = Pending("rewrite") /\ Pending("index")' = Pending("index")
      /\ Rewritten' = Rewritten
  BY <1>1, NowFacts
<1>3. /\ Ordered'
      /\ pc = "fresh" => Pending("version")' = {}
      /\ pc \in Ending => Pending("record")' = {}
  BY <1>1, NowOrdered DEF Ending
<1>4. /\ This \in Events /\ pc \in Ending
      /\ "scope" \in Elements(Staged)
  BY <1>2, PendingType, Lists DEF BInv, Fits, Typed, TypeOK, Own
<1>5. pc = "fresh" => version = "current"
  BY <1>2, <1>3 DEF BInv, Aimed
<1>6. Typed'
  BY <1>1, <1>2, <1>3, <1>4, <1>5 DEF BInv, Typed, TypeOK, Events
<1>7. Fits'
  BY <1>1, <1>2, <1>3, <1>4, <1>5 DEF BInv, Fits
<1>8. Aimed'
  BY <1>1, <1>2, <1>3, <1>4, <1>5 DEF BInv, Aimed, Ending
<1>9. Climbed'
  BY <1>1, <1>2, <1>3, <1>4, <1>5 DEF BInv, Climbed
<1>10. IndexLast'
  BY <1>1, <1>2, <1>3, <1>4, <1>5 DEF BInv, IndexLast, Ending, Fits, Aimed
<1>11. Born'
  BY <1>1, <1>2, <1>3, <1>4, <1>5 DEF BInv, Born, Aimed
<1>12. Whole'
  <2>1. Scoped' = Scoped /\ "scope" \in UserScopes
    BY <1>1 DEF Scoped, UserScopes
  <2>2. pc = "fresh" => Scoped
    BY <1>2, <1>3, <1>4, <2>1 DEF BInv, Born, Scoped, Ending
  <2>3. version = "current" => Scoped
    BY <1>4, <2>2 DEF BInv, Whole, Ending
  <2> QED BY <1>1, <1>2, <1>4, <2>1, <2>2, <2>3 DEF BInv, Whole
<1>13. Raised'
  BY <1>1, <1>2, <1>3, <1>4, <1>5 DEF BInv, Raised, Fits
<1>14. Configuration'
  BY <1>1, <1>2, <1>3, <1>4, <1>5 DEF BInv, Configuration, Fits, Ending, End02, Over02
<1>15. Content'
  BY <1>1, <1>2, <1>3, <1>4, <1>5 DEF BInv, Content, End02, Over02
<1>16. Form'
  BY <1>1, <1>2, <1>3, <1>4, <1>5 DEF BInv, Form, End02, Over02
<1>17. Logged02'
  BY <1>1, <1>2, <1>3, <1>4, <1>5 DEF BInv, Logged02, End02, Over02
<1>18. Bodies101'
  BY <1>1, <1>2, <1>3, <1>4, <1>5 DEF BInv, Bodies101, End101, Over101
<1>19. Records101'
  BY <1>1, <1>2, <1>3, <1>4, <1>5 DEF BInv, Records101, End101, Over101
<1>20. Logged101'
  BY <1>1, <1>2, <1>3, <1>4, <1>5 DEF BInv, Logged101, End101, Over101
<1>21. Becomes'
  BY <1>1, <1>2, <1>3, <1>4, <1>5 DEF BInv, Becomes, Final, Fits, Ending
<1>22. Pointing'
  BY <1>1, <1>2, <1>3, <1>4, <1>5 DEF BInv, Pointing, Linked, Settled, Final, End02, Fits
<1> QED BY <1>3, <1>6, <1>7, <1>8, <1>9, <1>10, <1>11, <1>12, <1>13, <1>14, <1>15,
           <1>16, <1>17, <1>18, <1>19, <1>20, <1>21, <1>22 DEF BInv

LEMMA WriteAllKeeps == BInv /\ WriteAll => BInv'
<1> SUFFICES ASSUME BInv, WriteAll PROVE BInv'
  OBVIOUS
<1>1. /\ Now("index")
      /\ indexed' = TRUE
      /\ UNCHANGED << version, files, bodies, ymls, rec, ledger, worked, climbed >>
  BY DEF WriteAll
<1>2. /\ todo' \in Seq(Effects) /\ pc' = pc /\ pc # "idle" /\ UNCHANGED << deaths, halfway, torn, left >>
      /\ This \in Pending("index") /\ Pending("index") = Pending("index")' \cup { This }
      /\ Pending("version")' = Pending("version") /\ Pending("body")' = Pending("body")
      /\ Pending("record")' = Pending("record") /\ Pending("unlink")' = Pending("unlink")
      /\ Pending("rewrite")' = Pending("rewrite") /\ Pending("event")' = Pending("event")
      /\ Rewritten' = Rewritten
  BY <1>1, NowFacts
<1>3. /\ Ordered'
      /\ pc = "fresh" => Pending("version")' = {}
      /\ pc \in Ending => Pending("record")' = {}
  BY <1>1, NowOrdered DEF Ending
<1>4. /\ pc \in Ending
  BY <1>2 DEF BInv, Fits
<1>5. Typed'
  BY <1>1, <1>2, <1>3, <1>4 DEF BInv, Typed, TypeOK
<1>6. Fits'
  BY <1>1, <1>2, <1>3, <1>4 DEF BInv, Fits
<1>7. Aimed'
  BY <1>1, <1>2, <1>3, <1>4 DEF BInv, Aimed, Ending
<1>8. Climbed'
  BY <1>1, <1>2, <1>3, <1>4 DEF BInv, Climbed
<1>9. IndexLast'
  BY <1>1, <1>2, <1>3, <1>4 DEF BInv, IndexLast, Ending, Fits, Aimed
<1>10. Born'
  BY <1>1, <1>2, <1>3, <1>4 DEF BInv, Born, Aimed
<1>11. Whole'
  BY <1>1, <1>2, <1>3, <1>4 DEF BInv, Scoped, Whole, Born, Fits, Aimed
<1>12. Raised'
  BY <1>1, <1>2, <1>3, <1>4 DEF BInv, Raised, Fits
<1>13. Configuration'
  BY <1>1, <1>2, <1>3, <1>4 DEF BInv, Configuration, Fits, Ending, End02, Over02
<1>14. Content'
  BY <1>1, <1>2, <1>3, <1>4 DEF BInv, Content, End02, Over02
<1>15. Form'
  BY <1>1, <1>2, <1>3, <1>4 DEF BInv, Form, End02, Over02
<1>16. Logged02'
  BY <1>1, <1>2, <1>3, <1>4 DEF BInv, Logged02, End02, Over02
<1>17. Bodies101'
  BY <1>1, <1>2, <1>3, <1>4 DEF BInv, Bodies101, End101, Over101
<1>18. Records101'
  BY <1>1, <1>2, <1>3, <1>4 DEF BInv, Records101, End101, Over101
<1>19. Logged101'
  BY <1>1, <1>2, <1>3, <1>4 DEF BInv, Logged101, End101, Over101
<1>20. Becomes'
  BY <1>1, <1>2, <1>3, <1>4 DEF BInv, Becomes, Final, Fits, Ending
<1>21. Pointing'
  BY <1>1, <1>2, <1>3, <1>4 DEF BInv, Pointing, Linked, Settled, Final, End02, Fits
<1> QED BY <1>3, <1>5, <1>6, <1>7, <1>8, <1>9, <1>10, <1>11, <1>12, <1>13, <1>14,
           <1>15, <1>16, <1>17, <1>18, <1>19, <1>20, <1>21 DEF BInv


\* The id that renaming leads to stays the same under it.
LEMMA RewriteRecord ==
  ASSUME BInv, Rewrite
  PROVE  LET u == This[1]
         IN  /\ u \in DOMAIN rec /\ This[2] \in User /\ DOMAIN rec' = DOMAIN rec
             /\ rec'[u] = This[2] /\ \A v \in DOMAIN rec \ {u} : rec'[v] = rec[v]
             /\ \A v \in DOMAIN rec : rec'[v] \in User
             /\ pc \in { "frontmatter", "references", "relocate", "backfill" }
             /\ pc = "frontmatter" => rec'[u] = [ rec[u] EXCEPT !.form = "v02", !.via = TRUE ]
             /\ pc = "references" =>
                  /\ Suffixing \in files /\ ~rec[u].node
                  /\ rec'[u] = [ rec[u] EXCEPT !.id = Bare(@), !.deps = This[2].deps ]
                  /\ u \in torn \/ This[2].deps = { Final(v) : v \in rec[u].means }
             /\ pc = "relocate" => rec'[u] = [ rec[u] EXCEPT !.at = "home" ]
             /\ pc = "backfill" => rec'[u] = [ rec[u] EXCEPT !.via = TRUE ]
             /\ Rewritten = Rewritten' \cup {u}
<1> DEFINE u == This[1]
<1>1. Now("rewrite") /\ rec' = [ rec EXCEPT ![This[1]] = This[2] ]
  BY DEF Rewrite
<1>2. This \in Pending("rewrite") /\ Pending("rewrite") = Pending("rewrite")' \cup { This }
  BY <1>1, NowFacts
<1>3. This \in Elements(Users) \X User
  BY <1>2, PendingType DEF BInv, Typed
<1>4. /\ u \in DOMAIN rec
      /\ pc \in { "frontmatter", "references", "relocate", "backfill" }
      /\ pc = "frontmatter" => This[2] = [ rec[u] EXCEPT !.form = "v02", !.via = TRUE ]
      /\ pc = "references" =>
           /\ Suffixing \in files /\ ~rec[u].node
           /\ This[2] = [ rec[u] EXCEPT !.id = Bare(@), !.deps = This[2].deps ]
           /\ u \in torn \/ This[2].deps = { Final(v) : v \in rec[u].means }
      /\ pc = "relocate" => This[2] = [ rec[u] EXCEPT !.at = "home" ]
      /\ pc = "backfill" => This[2] = [ rec[u] EXCEPT !.via = TRUE ]
  BY <1>2 DEF BInv, Becomes, Fits
<1>5. DOMAIN rec' = DOMAIN rec /\ rec'[u] = This[2] /\ \A v \in DOMAIN rec \ {u} : rec'[v] = rec[v]
  BY <1>1, <1>4
<1>6. \A v \in DOMAIN rec : rec'[v] \in User
  BY <1>3, <1>5 DEF BInv, Typed, TypeOK
<1>7. Rewritten = Rewritten' \cup {u}
  BY <1>2 DEF Rewritten
<1> HIDE DEF u
<1>8. /\ pc = "frontmatter" => rec'[u] = [ rec[u] EXCEPT !.form = "v02", !.via = TRUE ]
      /\ pc = "references" =>
           /\ Suffixing \in files /\ ~rec[u].node
           /\ rec'[u] = [ rec[u] EXCEPT !.id = Bare(@), !.deps = This[2].deps ]
           /\ u \in torn \/ This[2].deps = { Final(v) : v \in rec[u].means }
      /\ pc = "relocate" => rec'[u] = [ rec[u] EXCEPT !.at = "home" ]
      /\ pc = "backfill" => rec'[u] = [ rec[u] EXCEPT !.via = TRUE ]
  BY <1>4, <1>5, Zenon
<1> USE DEF u
<1> QED BY <1>3, <1>4, <1>5, <1>6, <1>7, <1>8

LEMMA RewriteFields ==
  ASSUME BInv, Rewrite
  PROVE  \A v \in DOMAIN rec :
           /\ rec'[v].node = rec[v].node /\ rec'[v].means = rec[v].means
           /\ Stays(rec[v]) => Stays(rec'[v])
           /\ rec[v].via => rec'[v].via
           /\ ~Moves(rec[v]) => ~Moves(rec'[v])
           /\ pc # "references" => rec'[v].id = rec[v].id /\ rec'[v].deps = rec[v].deps
           /\ v # This[1] => rec'[v] = rec[v]
           /\ v = This[1] =>
                /\ pc = "frontmatter" => Stays(rec'[v])
                /\ pc = "references" => rec'[v].id = Bare(rec[v].id) /\ rec'[v].deps = This[2].deps
                /\ pc = "relocate" => ~Moves(rec'[v])
                /\ pc = "backfill" => rec'[v].via
<1> DEFINE u == This[1]
<1>1. /\ u \in DOMAIN rec /\ \A v \in DOMAIN rec \ {u} : rec'[v] = rec[v]
      /\ pc \in { "frontmatter", "references", "relocate", "backfill" }
      /\ pc = "frontmatter" => rec'[u] = [ rec[u] EXCEPT !.form = "v02", !.via = TRUE ]
      /\ pc = "references" =>
           rec'[u] = [ rec[u] EXCEPT !.id = Bare(@), !.deps = This[2].deps ]
      /\ pc = "relocate" => rec'[u] = [ rec[u] EXCEPT !.at = "home" ]
      /\ pc = "backfill" => rec'[u] = [ rec[u] EXCEPT !.via = TRUE ]
  BY RewriteRecord
<1>2. rec[u] \in User
  BY <1>1 DEF BInv, Typed, TypeOK
<1> HIDE DEF u
<1>3. CASE pc = "frontmatter"
  <2>1. /\ rec'[u].node = rec[u].node /\ rec'[u].means = rec[u].means /\ rec'[u].id = rec[u].id
        /\ rec'[u].deps = rec[u].deps /\ rec'[u].form = "v02" /\ rec'[u].via = TRUE
        /\ rec'[u].home = rec[u].home /\ rec'[u].at = rec[u].at
    BY <1>1, <1>2, <1>3 DEF User
  <2> QED BY <1>1, <1>3, <2>1 DEF Moves, Stays, u
<1>4. CASE pc = "references"
  <2>1. /\ rec'[u].node = rec[u].node /\ rec'[u].means = rec[u].means /\ rec'[u].id = Bare(rec[u].id)
        /\ rec'[u].deps = This[2].deps /\ rec'[u].form = rec[u].form /\ rec'[u].via = rec[u].via
        /\ rec'[u].home = rec[u].home /\ rec'[u].at = rec[u].at
    BY <1>1, <1>2, <1>4 DEF User
  <2> QED BY <1>1, <1>4, <2>1 DEF Moves, Stays, u
<1>5. CASE pc = "relocate"
  <2>1. /\ rec'[u].node = rec[u].node /\ rec'[u].means = rec[u].means /\ rec'[u].id = rec[u].id
        /\ rec'[u].deps = rec[u].deps /\ rec'[u].form = rec[u].form /\ rec'[u].via = rec[u].via
        /\ rec'[u].at = "home"
    BY <1>1, <1>2, <1>5 DEF User
  <2> QED BY <1>1, <1>5, <2>1 DEF Moves, Stays, u
<1>6. CASE pc = "backfill"
  <2>1. /\ rec'[u].node = rec[u].node /\ rec'[u].means = rec[u].means /\ rec'[u].id = rec[u].id
        /\ rec'[u].deps = rec[u].deps /\ rec'[u].form = rec[u].form /\ rec'[u].via = TRUE
        /\ rec'[u].home = rec[u].home /\ rec'[u].at = rec[u].at
    BY <1>1, <1>2, <1>6 DEF User
  <2> QED BY <1>1, <1>6, <2>1 DEF Moves, Stays, u
<1> QED BY <1>1, <1>3, <1>4, <1>5, <1>6

\* Ids that are as renaming leaves them lead to themselves.
LEMMA RewriteFinal ==
  ASSUME BInv, Rewrite
  PROVE  \A v \in DOMAIN rec : Final(v)' = Final(v)
<1> TAKE v \in DOMAIN rec
<1>1. Final(v)' = IF rec'[v].node THEN rec'[v].id ELSE Bare(rec'[v].id)
  BY DEF Final, Bare
<1>2. rec[v].id \in Names
  BY DEF BInv, Typed, TypeOK, User
<1>3. Bare(Bare(rec[v].id)) = Bare(rec[v].id)
  BY <1>2, BareNames
<1>4. CASE v # This[1] \/ pc # "references"
  <2>1. rec'[v].id = rec[v].id /\ rec'[v].node = rec[v].node
    BY <1>4, RewriteFields
  <2> QED BY <1>1, <2>1 DEF Final
<1>5. CASE v = This[1] /\ pc = "references"
  <2>1. rec'[v].id = Bare(rec[v].id) /\ rec'[v].node = rec[v].node /\ ~rec[v].node
    BY <1>5, RewriteFields, RewriteRecord
  <2> QED BY <1>1, <1>3, <2>1 DEF Final
<1> QED BY <1>4, <1>5

LEMMA RewriteKeepsPointing == BInv /\ Rewrite => Pointing'
<1> SUFFICES ASSUME BInv, Rewrite PROVE Pointing'
  OBVIOUS
<1> DEFINE u == This[1]
<1>1. /\ u \in DOMAIN rec /\ DOMAIN rec' = DOMAIN rec
      /\ pc \in { "frontmatter", "references", "relocate", "backfill" }
      /\ pc = "references" =>
           /\ Suffixing \in files /\ ~rec[u].node
           /\ u \in torn \/ This[2].deps = { Final(v) : v \in rec[u].means }
      /\ Rewritten = Rewritten' \cup {u}
  BY RewriteRecord
<1>2. \A v \in DOMAIN rec :
        /\ rec'[v].node = rec[v].node /\ rec'[v].means = rec[v].means
        /\ pc # "references" => rec'[v].id = rec[v].id /\ rec'[v].deps = rec[v].deps
        /\ v # u => rec'[v] = rec[v]
        /\ v = u /\ pc = "references" => rec'[v].id = Bare(rec[v].id) /\ rec'[v].deps = This[2].deps
  BY RewriteFields
<1>3. \A v \in DOMAIN rec : Final(v)' = Final(v)
  BY RewriteFinal
<1>4. /\ pc' = pc /\ torn' = torn /\ files' = files /\ version' = version
      /\ version \in { "0.1.0", "1.0.0" }
      /\ version = "1.0.0" => pc # "references"
  BY <1>1, NowFacts DEF Rewrite, BInv, Aimed
<1>5. \A v \in DOMAIN rec : rec[v].means \subseteq DOMAIN rec
  BY DEF BInv, Pointing
<1>6. rec[u].id \in Names /\ Bare(rec[u].id) \notin DOMAIN Stripped
  BY <1>1, BareNames DEF BInv, Typed, TypeOK, User
<1> HIDE DEF u
<1>7. \A v \in DOMAIN rec' : rec'[v].means \subseteq DOMAIN rec'
  BY <1>1, <1>2, <1>5
<1>8. \A v, w \in DOMAIN rec' :
        rec'[v].node /\ ~rec'[w].node /\ rec'[v].id = rec'[w].id => rec'[v].id \notin DOMAIN Stripped
  <2> TAKE v, w \in DOMAIN rec'
  <2>1. CASE pc = "references" /\ w = u
    BY <2>1, <1>1, <1>2, <1>6
  <2>2. CASE pc = "references" /\ v = u
    BY <2>2, <1>1, <1>2
  <2>3. CASE pc # "references" \/ (v # u /\ w # u)
    <3>1. /\ rec'[v].node = rec[v].node /\ rec'[w].node = rec[w].node
          /\ rec'[v].id = rec[v].id /\ rec'[w].id = rec[w].id
      BY <2>3, <1>1, <1>2
    <3> QED BY <3>1, <1>1 DEF BInv, Pointing
  <2> QED BY <2>1, <2>2, <2>3
<1>9. \A v \in DOMAIN rec : Settled(v)' = (rec'[v].deps = { Final(w) : w \in rec[v].means })
  <2> TAKE v \in DOMAIN rec
  <2>1. { Final(w)' : w \in rec'[v].means } = { Final(w) : w \in rec[v].means }
    BY <1>2, <1>3, <1>5
  <2>2. Settled(v)' = (rec'[v].deps = { Final(w)' : w \in rec'[v].means })
    BY DEF Settled
  <2> QED BY <2>1, <2>2
<1>10. CASE pc = "references"
  <2>1. \A v \in DOMAIN rec' : rec'[v].node \/ v \in torn \/ Settled(v)' \/ v \in Rewritten'
    <3> SUFFICES ASSUME NEW v \in DOMAIN rec', ~rec'[v].node, v \notin torn, v \notin Rewritten'
                 PROVE  Settled(v)'
      OBVIOUS
    <3>1. v \in DOMAIN rec /\ ~rec[v].node
      BY <1>1, <1>2
    <3>2. CASE v = u
      BY <3>1, <3>2, <1>1, <1>2, <1>9, <1>10
    <3>3. CASE v # u
      <4>1. Settled(v) /\ rec'[v] = rec[v]
        BY <3>1, <3>3, <1>1, <1>2, <1>10 DEF BInv, Pointing
      <4> QED BY <3>1, <4>1, <1>9 DEF Settled
    <3> QED BY <3>2, <3>3
  <2>2. \A v \in DOMAIN rec' : rec'[v].node \/ rec'[v].id \notin DOMAIN Stripped \/ v \in Rewritten'
    <3> TAKE v \in DOMAIN rec'
    <3>1. CASE v = u
      BY <3>1, <1>1, <1>2, <1>6, <1>10
    <3>2. CASE v # u
      BY <3>2, <1>1, <1>2, <1>10 DEF BInv, Pointing
    <3> QED BY <3>1, <3>2
  <2>3. pc' = "references" /\ Suffixing \in files' /\ version' = "0.1.0"
    BY <1>1, <1>4, <1>10
  <2> QED BY <2>1, <2>2, <2>3, <1>4, <1>7, <1>8 DEF Pointing, End02
<1>11. CASE pc # "references"
  <2>1. \A v \in DOMAIN rec : Settled(v)' = Settled(v)
    BY <1>2, <1>9, <1>11 DEF Settled
  <2>2. \A v \in DOMAIN rec : Linked(v)' = Linked(v)
    <3> TAKE v \in DOMAIN rec
    <3>1. { rec'[w].id : w \in rec'[v].means } = { rec[w].id : w \in rec[v].means }
      BY <1>2, <1>5, <1>11
    <3> QED BY <3>1, <1>2, <1>11 DEF Linked
  <2>3. \A v \in DOMAIN rec' :
          rec'[v].node \/ v \in torn' \/
            /\ Linked(v)' \/ (Settled(v)' /\ torn' \cap rec'[v].means # {})
            /\ Suffixing \notin files' \/ version' \in { "0.2.0", "1.0.0" } => Linked(v)'
    BY <2>1, <2>2, <1>1, <1>2, <1>4, <1>11 DEF BInv, Pointing
  <2>4. pc' # "references" /\ ~End02'
    BY <1>1, <1>4, <1>11 DEF End02
  <2> QED BY <2>3, <2>4, <1>7, <1>8 DEF Pointing
<1> QED BY <1>10, <1>11

LEMMA RewriteKeepsBecomes == BInv /\ Rewrite => Becomes'
<1> SUFFICES ASSUME BInv, Rewrite, NEW p \in Pending("rewrite")'
             PROVE  /\ p[1] \in DOMAIN rec'
                    /\ pc' = "frontmatter" => p[2] = [ rec'[p[1]] EXCEPT !.form = "v02", !.via = TRUE ]
                    /\ pc' = "references" =>
                         /\ Suffixing \in files' /\ ~rec'[p[1]].node
                         /\ p[2] = [ rec'[p[1]] EXCEPT !.id = Bare(@), !.deps = p[2].deps ]
                         /\ p[1] \in torn' \/ p[2].deps = { Final(v)' : v \in rec'[p[1]].means }
                    /\ pc' = "relocate" => p[2] = [ rec'[p[1]] EXCEPT !.at = "home" ]
                    /\ pc' = "backfill" => p[2] = [ rec'[p[1]] EXCEPT !.via = TRUE ]
  BY DEF Becomes, Bare
<1> DEFINE u == This[1]
           x == p[1]
<1>1. /\ pc' = pc /\ torn' = torn /\ files' = files /\ p \in Pending("rewrite")
  BY NowFacts DEF Rewrite
<1>2. /\ x \in DOMAIN rec /\ rec[x] \in User
      /\ pc = "frontmatter" => p[2] = [ rec[x] EXCEPT !.form = "v02", !.via = TRUE ]
      /\ pc = "references" =>
           /\ Suffixing \in files /\ ~rec[x].node
           /\ p[2] = [ rec[x] EXCEPT !.id = Bare(@), !.deps = p[2].deps ]
           /\ x \in torn \/ p[2].deps = { Final(v) : v \in rec[x].means }
      /\ pc = "relocate" => p[2] = [ rec[x] EXCEPT !.at = "home" ]
      /\ pc = "backfill" => p[2] = [ rec[x] EXCEPT !.via = TRUE ]
  BY <1>1 DEF BInv, Becomes, Typed, TypeOK
<1>3. /\ DOMAIN rec' = DOMAIN rec /\ \A v \in DOMAIN rec \ {u} : rec'[v] = rec[v]
      /\ pc = "frontmatter" => rec'[u] = [ rec[u] EXCEPT !.form = "v02", !.via = TRUE ]
      /\ pc = "references" =>
           rec'[u] = [ rec[u] EXCEPT !.id = Bare(@), !.deps = This[2].deps ]
      /\ pc = "relocate" => rec'[u] = [ rec[u] EXCEPT !.at = "home" ]
      /\ pc = "backfill" => rec'[u] = [ rec[u] EXCEPT !.via = TRUE ]
  BY RewriteRecord
<1>4. rec'[x].node = rec[x].node /\ rec'[x].means = rec[x].means
        /\ rec[x].means \subseteq DOMAIN rec
  BY <1>2, RewriteFields DEF BInv, Pointing
<1>5. { Final(v)' : v \in rec'[x].means } = { Final(v) : v \in rec[x].means }
  BY <1>4, RewriteFinal
<1>6. Bare(Bare(rec[x].id)) = Bare(rec[x].id)
  BY <1>2, BareNames DEF User
<1> HIDE DEF u, x
<1>7. /\ pc = "frontmatter" => p[2] = [ rec'[x] EXCEPT !.form = "v02", !.via = TRUE ]
      /\ pc = "references" => p[2] = [ rec'[x] EXCEPT !.id = Bare(@), !.deps = p[2].deps ]
      /\ pc = "relocate" => p[2] = [ rec'[x] EXCEPT !.at = "home" ]
      /\ pc = "backfill" => p[2] = [ rec'[x] EXCEPT !.via = TRUE ]
  <2>1. CASE x # u
    <3>1. rec'[x] = rec[x]
      BY <2>1, <1>2, <1>3
    <3> QED BY <3>1, <1>2
  <2>2. CASE x = u
    <3>1. /\ [ [ rec[x] EXCEPT !.form = "v02", !.via = TRUE ] EXCEPT !.form = "v02", !.via = TRUE ]
               = [ rec[x] EXCEPT !.form = "v02", !.via = TRUE ]
          /\ [ [ rec[x] EXCEPT !.at = "home" ] EXCEPT !.at = "home" ] = [ rec[x] EXCEPT !.at = "home" ]
          /\ [ [ rec[x] EXCEPT !.via = TRUE ] EXCEPT !.via = TRUE ] = [ rec[x] EXCEPT !.via = TRUE ]
      BY <1>2 DEF User
    <3>2. ASSUME NEW d, NEW e
          PROVE  LET r == [ rec[x] EXCEPT !.id = Bare(@), !.deps = d ]
                 IN  [ r EXCEPT !.id = Bare(@), !.deps = e ] = [ rec[x] EXCEPT !.id = Bare(@), !.deps = e ]
      BY <1>2, <1>6 DEF User
    <3>3. pc = "frontmatter" => p[2] = [ rec'[x] EXCEPT !.form = "v02", !.via = TRUE ]
      BY <2>2, <3>1, <1>2, <1>3
    <3>4. pc = "relocate" => p[2] = [ rec'[x] EXCEPT !.at = "home" ]
      BY <2>2, <3>1, <1>2, <1>3
    <3>5. pc = "backfill" => p[2] = [ rec'[x] EXCEPT !.via = TRUE ]
      BY <2>2, <3>1, <1>2, <1>3
    <3>6. ASSUME pc = "references" PROVE p[2] = [ rec'[x] EXCEPT !.id = Bare(@), !.deps = p[2].deps ]
      <4>1. rec'[x] = [ rec[x] EXCEPT !.id = Bare(@), !.deps = This[2].deps ]
        BY <2>2, <3>6, <1>3
      <4>2. [ rec'[x] EXCEPT !.id = Bare(@), !.deps = p[2].deps ]
              = [ rec[x] EXCEPT !.id = Bare(@), !.deps = p[2].deps ]
        BY <3>2, <4>1
      <4> QED BY <3>6, <4>2, <1>2
    <3> QED BY <3>3, <3>4, <3>5, <3>6
  <2> QED BY <2>1, <2>2
<1>8. pc = "references" =>
        /\ Suffixing \in files /\ ~rec'[x].node
        /\ x \in torn \/ p[2].deps = { Final(v)' : v \in rec'[x].means }
  BY <1>2, <1>4, <1>5
<1> QED BY <1>1, <1>2, <1>3, <1>7, <1>8 DEF x

LEMMA RewriteKeeps == BInv /\ Rewrite => BInv'
<1> SUFFICES ASSUME BInv, Rewrite PROVE BInv'
  OBVIOUS
<1>1. /\ Now("rewrite")
      /\ rec' = [ rec EXCEPT ![This[1]] = This[2] ]
      /\ indexed' = FALSE
      /\ worked' = TRUE
      /\ UNCHANGED << version, files, bodies, ymls, ledger, climbed >>
  BY DEF Rewrite
<1>2. /\ todo' \in Seq(Effects) /\ pc' = pc /\ pc # "idle" /\ UNCHANGED << deaths, halfway, torn, left >>
      /\ This \in Pending("rewrite") /\ Pending("rewrite") = Pending("rewrite")' \cup { This }
      /\ Pending("version")' = Pending("version") /\ Pending("body")' = Pending("body")
      /\ Pending("record")' = Pending("record") /\ Pending("unlink")' = Pending("unlink")
      /\ Pending("event")' = Pending("event") /\ Pending("index")' = Pending("index")
  BY <1>1, NowFacts
<1>3. /\ Ordered'
      /\ pc = "fresh" => Pending("version")' = {}
  BY <1>1, NowOrdered DEF Ending
<1>4. /\ DOMAIN rec' = DOMAIN rec /\ \A v \in DOMAIN rec' : rec'[v] \in User
      /\ pc \in { "frontmatter", "references", "relocate", "backfill" }
      /\ Rewritten = Rewritten' \cup { This[1] }
      /\ version \in { "0.1.0", "1.0.0" }
  BY RewriteRecord DEF BInv, Aimed
<1>5. \A v \in DOMAIN rec :
        /\ rec'[v].node = rec[v].node
        /\ Stays(rec[v]) => Stays(rec'[v])
        /\ rec[v].via => rec'[v].via
        /\ ~Moves(rec[v]) => ~Moves(rec'[v])
        /\ v = This[1] =>
             /\ pc = "frontmatter" => Stays(rec'[v])
             /\ pc = "relocate" => ~Moves(rec'[v])
             /\ pc = "backfill" => rec'[v].via
  BY RewriteFields
<1>6. Typed'
  BY <1>1, <1>2, <1>3, <1>4, <1>5 DEF BInv, Typed, TypeOK
<1>7. Fits'
  BY <1>1, <1>2, <1>3, <1>4, <1>5 DEF BInv, Fits
<1>8. Aimed'
  BY <1>1, <1>2, <1>3, <1>4, <1>5 DEF BInv, Aimed, Ending
<1>9. Climbed'
  BY <1>1, <1>2, <1>3, <1>4, <1>5 DEF BInv, Climbed
<1>10. IndexLast'
  BY <1>1, <1>2, <1>3, <1>4, <1>5 DEF BInv, IndexLast, Ending, Fits, Aimed
<1>11. Born'
  BY <1>1, <1>2, <1>3, <1>4, <1>5 DEF BInv, Born, Aimed
<1>12. Whole'
  BY <1>1, <1>2, <1>3, <1>4, <1>5 DEF BInv, Scoped, Whole, Born, Fits, Aimed
<1>13. Raised'
  BY <1>1, <1>2, <1>3, <1>4, <1>5 DEF BInv, Raised, Fits
<1>14. Configuration'
  BY <1>1, <1>2, <1>3, <1>4, <1>5 DEF BInv, Configuration, Fits, Ending, End02, Over02
<1>15. Content'
  BY <1>1, <1>2, <1>3, <1>4, <1>5 DEF BInv, Content, End02, Over02
<1>16. Form'
  BY <1>1, <1>2, <1>3, <1>4, <1>5 DEF BInv, Form, End02, Over02
<1>17. Logged02'
  BY <1>1, <1>2, <1>3, <1>4, <1>5 DEF BInv, Logged02, End02, Over02
<1>18. Bodies101'
  BY <1>1, <1>2, <1>3, <1>4, <1>5 DEF BInv, Bodies101, End101, Over101
<1>19. Records101'
  BY <1>1, <1>2, <1>3, <1>4, <1>5 DEF BInv, Records101, End101, Over101
<1>20. Logged101'
  BY <1>1, <1>2, <1>3, <1>4, <1>5 DEF BInv, Logged101, End101, Over101
<1>21. Becomes'
  BY RewriteKeepsBecomes
<1>22. Pointing'
  BY RewriteKeepsPointing
<1> QED BY <1>3, <1>6, <1>7, <1>8, <1>9, <1>10, <1>11, <1>12, <1>13, <1>14, <1>15,
           <1>16, <1>17, <1>18, <1>19, <1>20, <1>21, <1>22 DEF BInv


-----------------------------------------------------------------------------
(***************************************************************************)
(* A death keeps the invariant                                             *)
(***************************************************************************)
\* A dying process leaves nothing to be written.
LEMMA NothingPending ==
  todo' = << >> => /\ \A c : Pending(c)' = {}
                   /\ Rewritten' = {} /\ Ordered'
<1> SUFFICES ASSUME todo' = << >> PROVE (\A c : Pending(c)' = {}) /\ Rewritten' = {} /\ Ordered'
  OBVIOUS
<1>1. \A c : Pending(c)' = {}
  BY NoElements DEF Pending
<1>2. Rewritten' = {}
  BY <1>1 DEF Rewritten
<1>3. DOMAIN todo' = {}
  OBVIOUS
<1> QED BY <1>1, <1>2, <1>3 DEF Ordered, Sorted, VersionsIn

LEMMA DieKeepsPointing == BInv /\ Die => Pointing'
<1> SUFFICES ASSUME BInv, Die PROVE Pointing'
  OBVIOUS
<1>1. /\ pc' = "idle" /\ UNCHANGED << rec, files, version >>
      /\ torn' = IF pc = "references" THEN torn \cup Rewritten ELSE torn
  BY DEF Die, disk, Rewritten
<1>2. Rewritten' = {}
  BY NothingPending DEF Die
<1>3. /\ \A u \in DOMAIN rec : rec[u].means \subseteq DOMAIN rec
      /\ \A u, v \in DOMAIN rec :
           rec[u].node /\ ~rec[v].node /\ rec[u].id = rec[v].id => rec[u].id \notin DOMAIN Stripped
  BY DEF BInv, Pointing
<1>4. \A u \in DOMAIN rec : Linked(u)' = Linked(u) /\ Settled(u)' = Settled(u)
  BY <1>1 DEF Linked, Settled, Final, Bare
<1>5. CASE pc # "references"
  <2>1. torn' = torn
    BY <1>1, <1>5
  <2> QED BY <1>1, <1>3, <1>4, <1>5, <2>1 DEF BInv, Pointing, End02
<1>6. CASE pc = "references"
  <2>1. torn' = torn \cup Rewritten /\ version = "0.1.0"
    BY <1>1, <1>6 DEF BInv, Aimed
  <2>2. CASE Suffixing \notin files
    BY <1>1, <1>3, <1>4, <1>6, <2>1, <2>2 DEF BInv, Pointing, End02
  <2>3. CASE Suffixing \in files
    <3>1. ASSUME NEW u \in DOMAIN rec, ~rec[u].node, u \notin torn'
          PROVE  Linked(u) \/ (Settled(u) /\ torn' \cap rec[u].means # {})
      <4>1. Settled(u)
        BY <1>6, <2>1, <2>3, <3>1 DEF BInv, Pointing
      <4>2. ASSUME torn' \cap rec[u].means = {}, NEW v \in rec[u].means PROVE Final(v) = rec[v].id
        <5>1. v \in DOMAIN rec /\ v \notin Rewritten
          BY <1>3, <2>1, <4>2
        <5>2. rec[v].node \/ rec[v].id \notin DOMAIN Stripped
          BY <1>6, <2>3, <5>1 DEF BInv, Pointing
        <5> QED BY <5>2 DEF Final, Bare
      <4>3. torn' \cap rec[u].means = {} => Linked(u)
        BY <4>1, <4>2 DEF Linked, Settled
      <4> QED BY <4>1, <4>3
    <3>2. pc' # "references" /\ ~End02' /\ version' = "0.1.0" /\ Suffixing \in files'
      BY <1>1, <2>1, <2>3 DEF End02
    <3>3. \A u \in DOMAIN rec : rec[u].node \/ u \in torn' \/
            Linked(u)' \/ (Settled(u)' /\ torn' \cap rec[u].means # {})
      BY <1>4, <3>1
    <3> QED BY <1>1, <1>3, <3>2, <3>3 DEF Pointing
  <2> QED BY <2>2, <2>3
<1> QED BY <1>5, <1>6

LEMMA DieKeeps == BInv /\ Die => BInv'
<1> SUFFICES ASSUME BInv, Die PROVE BInv'
  OBVIOUS
<1>1. /\ pc # "idle" /\ pc' = "idle" /\ todo' = << >> /\ worked' = FALSE
      /\ deaths < MaxDeaths /\ deaths' = deaths + 1
      /\ halfway' = (halfway \/ (pc \in { "fresh", "upgrade" } /\ version = "current"))
      /\ torn' = IF pc = "references" THEN torn \cup Rewritten ELSE torn
      /\ left' = left \cup Pending("unlink")
      /\ UNCHANGED << version, files, bodies, ymls, rec, ledger, indexed, climbed >>
  BY DEF Die, disk, Rewritten
<1>2. /\ Pending("version")' = {} /\ Pending("body")' = {} /\ Pending("record")' = {}
      /\ Pending("unlink")' = {} /\ Pending("rewrite")' = {} /\ Pending("event")' = {}
      /\ Pending("index")' = {} /\ Rewritten' = {}
  BY <1>1, NothingPending
<1>3. Ordered'
  BY <1>1, NothingPending
<1>4. /\ deaths \in Nat /\ deaths' \in Nat /\ deaths' # 0 /\ deaths' > 0
      /\ Pending("unlink") \subseteq Configured /\ Rewritten \subseteq Elements(Users)
  BY <1>1, PendingType, BoundAssumption DEF BInv, Typed, TypeOK, Rewritten
<1>5. Typed'
  <2>1. halfway' \in BOOLEAN /\ worked' \in BOOLEAN
    BY <1>1
  <2>2. deaths' \in 0 .. MaxDeaths
    BY <1>1, <1>4, BoundAssumption
  <2>3. torn' \subseteq Elements(Users) /\ left' \subseteq Configured
    BY <1>1, <1>4 DEF BInv, Typed, TypeOK
  <2>4. pc' \in Phases /\ todo' \in Seq(Effects)
    BY <1>1 DEF Phases
  <2> QED BY <1>1, <2>1, <2>2, <2>3, <2>4 DEF BInv, Typed, TypeOK
<1>6. Fits'
  BY <1>1, <1>2 DEF Fits
<1>7. Aimed'
  BY <1>1, <1>2 DEF Aimed
<1>8. Climbed'
  BY <1>1 DEF BInv, Climbed
<1>9. IndexLast'
  BY <1>1, <1>2 DEF BInv, IndexLast, Ending
<1>10. Born'
  BY <1>1, <1>2 DEF BInv, Born
<1>11. Whole'
  BY <1>1, <1>4 DEF BInv, Scoped, Whole
<1>12. Raised'
  BY <1>1 DEF BInv, Raised
<1>13. Configuration'
  BY <1>1, <1>2 DEF BInv, Configuration, End02, Over02
<1>14. Content'
  BY <1>1 DEF BInv, Content, End02, Over02
<1>15. Form'
  BY <1>1 DEF BInv, Form, End02, Over02
<1>16. Logged02'
  BY <1>1, <1>2 DEF BInv, Logged02, End02, Over02
<1>17. Bodies101'
  BY <1>1 DEF BInv, Bodies101, End101, Over101
<1>18. Records101'
  BY <1>1 DEF BInv, Records101, End101, Over101
<1>19. Logged101'
  BY <1>1, <1>4 DEF Logged101
<1>20. Becomes'
  BY <1>2 DEF Becomes
<1>21. Pointing'
  BY DieKeepsPointing
<1> QED BY <1>3, <1>5, <1>6, <1>7, <1>8, <1>9, <1>10, <1>11, <1>12, <1>13, <1>14, <1>15, <1>16,
           <1>17, <1>18, <1>19, <1>20, <1>21 DEF BInv

\* Nothing happens.
LEMMA StutterKeeps == BInv /\ UNCHANGED vars => BInv'
<1> SUFFICES ASSUME BInv, UNCHANGED vars PROVE BInv'
  OBVIOUS
<1>1. /\ UNCHANGED << version, files, bodies, ymls, rec, ledger, indexed >>
      /\ UNCHANGED << pc, todo, worked, deaths, halfway, torn, left, climbed >>
  BY DEF vars, disk, process, history
<1>2. Typed' /\ Ordered'
  BY <1>1 DEF BInv, Typed, TypeOK, Ordered, Sorted, VersionsIn, Rank
<1>3. \A d : Pending(d)' = Pending(d)
  BY <1>1 DEF Pending
<1>4. /\ Pending("version")' = Pending("version") /\ Pending("body")' = Pending("body")
      /\ Pending("record")' = Pending("record") /\ Pending("unlink")' = Pending("unlink")
      /\ Pending("rewrite")' = Pending("rewrite") /\ Pending("event")' = Pending("event")
      /\ Pending("index")' = Pending("index") /\ Rewritten' = Rewritten
  BY <1>3 DEF Rewritten
<1>5. Fits'
  BY <1>1, <1>4 DEF BInv, Fits
<1>6. Aimed'
  BY <1>1, <1>4 DEF BInv, Aimed
<1>7. Climbed' /\ IndexLast'
  BY <1>1, <1>4 DEF BInv, Climbed, IndexLast
<1>8. Born' /\ Raised'
  BY <1>1, <1>4 DEF BInv, Born, Raised
<1>9. Whole'
  BY <1>1, <1>4 DEF BInv, Scoped, Whole
<1>10. Configuration' /\ Logged02'
  BY <1>1, <1>4 DEF BInv, Configuration, Logged02, Backed, End02, Over02
<1>11. Content' /\ Form'
  BY <1>1, <1>4 DEF BInv, Content, Form, End02, Over02
<1>12. Bodies101' /\ Records101'
  BY <1>1, <1>4 DEF BInv, Bodies101, Records101, End101, Over101
<1>13. Logged101'
  BY <1>1, <1>4 DEF BInv, Logged101, End101, Over101
<1>14. Becomes'
  <2>1. \A v : Final(v)' = Final(v)
    BY <1>1 DEF Final
  <2>2. \A p \in Pending("rewrite") :
          { Final(v)' : v \in rec'[p[1]].means } = { Final(v) : v \in rec[p[1]].means }
    BY <1>1, <2>1
  <2> QED BY <1>1, <1>4, <2>2 DEF BInv, Becomes
<1>15. Pointing'
  <2>1. \A u : Linked(u)' = Linked(u) /\ Settled(u)' = Settled(u)
    BY <1>1 DEF Linked, Settled, Final
  <2> QED BY <1>1, <1>4, <2>1 DEF BInv, Pointing, End02
<1> QED BY <1>2, <1>5, <1>6, <1>7, <1>8, <1>9, <1>10, <1>11, <1>12, <1>13, <1>14, <1>15 DEF BInv

-----------------------------------------------------------------------------
(***************************************************************************)
(* Every phase keeps the invariant                                         *)
(***************************************************************************)
LEMMA RecTyped == BInv => RecType /\ ymls \subseteq Configured
  BY DEF BInv, Typed, TypeOK, RecType

LEMMA PointingPlan == BInv => RecType /\ Apart /\ \A u \in DOMAIN rec : rec[u].means \subseteq DOMAIN rec
  BY RecTyped DEF BInv, Pointing, Apart

LEMMA Finalized02Plan ==
  LET s == Finalized(Log("migration-0.2"), "0.2.0")
  IN  /\ s \in Seq(Effects) /\ Sorted("finalize", s) /\ Placed("finalize", s)
      /\ Named(s, "version") = {"0.2.0"} /\ Named(s, "event") = {"migration-0.2"}
      /\ Named(s, "index") = {None}
      /\ \A c : c \notin { "version", "event", "index" } => Named(s, c) = {}
<1> DEFINE logs == Log("migration-0.2")
<1>1. /\ logs \in Seq(Effects) /\ Named(logs, "event") = {"migration-0.2"}
      /\ \A c : c # "event" => Named(logs, c) = {}
  BY LogNamed DEF Events
<1>2. "0.2.0" \in Versions
  BY DEF Versions
<1> HIDE DEF logs
<1>3. LET s == Finalized(logs, "0.2.0")
      IN  /\ s \in Seq(Effects) /\ Sorted("finalize", s) /\ Placed("finalize", s)
          /\ Named(s, "version") = {"0.2.0"} /\ Named(s, "event") = {"migration-0.2"}
          /\ Named(s, "index") = {None}
          /\ \A c : c \notin { "version", "event", "index" } => Named(s, c) = {}
  BY <1>1, <1>2, FinalizedPlan
<1> QED BY <1>3 DEF logs

LEMMA Finalized101Plan ==
  /\ Finalized101 \in Seq(Effects)
  /\ Sorted("finalize", Finalized101) /\ Placed("finalize", Finalized101)
  /\ Named(Finalized101, "version") = {"current"}
  /\ Named(Finalized101, "event") = IF worked THEN {"migration-1.0.1"} ELSE {}
  /\ Named(Finalized101, "index") = {None}
  /\ \A c : c \notin { "version", "event", "index" } => Named(Finalized101, c) = {}
<1> DEFINE logs == IF worked THEN Log("migration-1.0.1") ELSE << >>
           K == IF worked THEN {"migration-1.0.1"} ELSE {}
<1>1. logs \in Seq(Effects) /\ Named(logs, "event") = K /\ \A c : c # "event" => Named(logs, c) = {}
  <2>1. CASE worked
    <3>1. logs = Log("migration-1.0.1") /\ K = {"migration-1.0.1"}
      BY <2>1
    <3>2. /\ Log("migration-1.0.1") \in Seq(Effects)
          /\ Named(Log("migration-1.0.1"), "event") = {"migration-1.0.1"}
          /\ \A c : c # "event" => Named(Log("migration-1.0.1"), c) = {}
      BY LogNamed DEF Events
    <3> HIDE DEF logs, K
    <3> QED BY <3>1, <3>2
  <2>2. CASE ~worked
    <3>1. logs = << >> /\ K = {} /\ << >> \in Seq(Effects)
      BY <2>2
    <3> HIDE DEF logs, K
    <3> QED BY <3>1, NothingNamed
  <2> QED BY <2>1, <2>2
<1>2. "current" \in Versions
  BY DEF Versions
<1>3. Finalized101 = Finalized(logs, "current")
  BY DEF Finalized101
<1> HIDE DEF logs, K
<1>4. /\ Finalized(logs, "current") \in Seq(Effects)
      /\ Sorted("finalize", Finalized(logs, "current")) /\ Placed("finalize", Finalized(logs, "current"))
      /\ Named(Finalized(logs, "current"), "version") = {"current"}
      /\ Named(Finalized(logs, "current"), "event") = K
      /\ Named(Finalized(logs, "current"), "index") = {None}
      /\ \A c : c \notin { "version", "event", "index" } => Named(Finalized(logs, "current"), c) = {}
  BY <1>1, <1>2, FinalizedPlan
<1> QED BY <1>3, <1>4 DEF K

LEMMA InitFreshKeeps ==
  ASSUME BInv, InitFresh
  PROVE  BInv'
<1>1. /\ pc = "idle" /\ todo = << >> /\ version = None
      /\ pc' = "fresh" /\ todo' = Birth /\ worked' = (pc # "idle" /\ worked)
      /\ UNCHANGED << version, files, bodies, ymls, rec, ledger, indexed >>
      /\ UNCHANGED << deaths, halfway, torn, left, climbed >>
  BY DEF InitFresh, Enter, disk, history
<1>2. Pending("version") = {} /\ Pending("body") = {} /\ Pending("record") = {} /\ Pending("unlink") = {}
        /\ Pending("rewrite") = {} /\ Pending("event") = {} /\ Pending("index") = {} /\ Rewritten = {}
  BY <1>1, NoElements DEF Pending, Rewritten
<1>3. /\ todo' \in Seq(Effects) /\ Sorted("fresh", todo') /\ Placed("fresh", todo')
      /\ Pending("version")' = {"current"}
      /\ Pending("body")' = Elements(Types)
      /\ Pending("record")' = Elements(Staged)
      /\ Pending("unlink")' = {}
      /\ Pending("rewrite")' = {}
      /\ Pending("event")' = {"init"}
      /\ Pending("index")' = {None}
      /\ Rewritten' = {}
  <2>1. \A c : Pending(c)' = Named(Birth, c)
    BY <1>1 DEF Pending, Named
  <2>2. Rewritten' = { p[1] : p \in Pending("rewrite")' }
    BY <1>1 DEF Rewritten, Pending
  <2> QED BY <1>1, BirthPlan, <2>1, <2>2
<1>4. /\ None \notin Versions
  BY FileAssumption
<1>5. Typed'
  BY <1>1, <1>2, <1>3, <1>4 DEF BInv, Typed, TypeOK, Phases
<1>6. Ordered'
  BY <1>1, <1>3 DEF Ordered, Placed
<1>7. Fits'
  BY <1>1, <1>2, <1>3, <1>4 DEF BInv, Fits, Ending
<1>8. Aimed'
  BY <1>1, <1>2, <1>3, <1>4 DEF BInv, Aimed, Ending
<1>9. Climbed'
  BY <1>1, <1>2, <1>3, <1>4 DEF BInv, Climbed
<1>10. IndexLast'
  BY <1>1, <1>2, <1>3, <1>4 DEF BInv, IndexLast, Ending, Fits, Aimed
<1>11. Born'
  BY <1>1, <1>2, <1>3, <1>4 DEF BInv, Born, Aimed
<1>12. Whole'
  BY <1>1, <1>2, <1>3, <1>4 DEF BInv, Scoped, Whole, Born, Fits, Aimed
<1>13. Raised'
  BY <1>1, <1>2, <1>3, <1>4 DEF BInv, Raised, Fits
<1>14. Configuration'
  BY <1>1, <1>2, <1>3, <1>4 DEF BInv, Configuration, Fits, Ending, End02, Over02
<1>15. Content'
  BY <1>1, <1>2, <1>3, <1>4 DEF BInv, Content, End02, Over02
<1>16. Form'
  BY <1>1, <1>2, <1>3, <1>4 DEF BInv, Form, End02, Over02
<1>17. Logged02'
  BY <1>1, <1>2, <1>3, <1>4 DEF BInv, Logged02, End02, Over02, Versions
<1>18. Bodies101'
  BY <1>1, <1>2, <1>3, <1>4 DEF BInv, Bodies101, End101, Over101
<1>19. Records101'
  BY <1>1, <1>2, <1>3, <1>4 DEF BInv, Records101, End101, Over101
<1>20. Logged101'
  BY <1>1, <1>2, <1>3, <1>4 DEF BInv, Logged101, End101, Over101
<1>21. Becomes'
  BY <1>1, <1>2, <1>3, <1>4 DEF BInv, Becomes, Final, Fits, Ending
<1>22. Pointing'
  BY <1>1, <1>2, <1>3, <1>4 DEF BInv, Pointing, Linked, Settled, Final, End02, Fits
<1> QED BY <1>5, <1>6, <1>7, <1>8, <1>9, <1>10, <1>11, <1>12, <1>13, <1>14, <1>15,
           <1>16, <1>17, <1>18, <1>19, <1>20, <1>21, <1>22 DEF BInv

LEMMA InitUpgradeKeeps ==
  ASSUME BInv, InitUpgrade
  PROVE  BInv'
<1>1. /\ pc = "idle" /\ todo = << >> /\ version # None /\ Scoped
      /\ pc' = "upgrade" /\ todo' = Upgrade /\ worked' = (pc # "idle" /\ worked)
      /\ UNCHANGED << version, files, bodies, ymls, rec, ledger, indexed >>
      /\ UNCHANGED << deaths, halfway, torn, left, climbed >>
  BY DEF InitUpgrade, Enter, disk, history, Scoped
<1>2. Pending("version") = {} /\ Pending("body") = {} /\ Pending("record") = {} /\ Pending("unlink") = {}
        /\ Pending("rewrite") = {} /\ Pending("event") = {} /\ Pending("index") = {} /\ Rewritten = {}
  BY <1>1, NoElements DEF Pending, Rewritten
<1>3. /\ todo' \in Seq(Effects) /\ Sorted("upgrade", todo') /\ Placed("upgrade", todo')
      /\ Pending("version")' = IF version = "current" THEN {} ELSE {"current"}
      /\ Pending("body")' = { t \in Elements(Types) : bodies[t] # "new" }
      /\ Pending("record")' = Vendor \ files
      /\ Pending("unlink")' = {}
      /\ Pending("rewrite")' = {}
      /\ Pending("event")' = {"upgrade"}
      /\ Pending("index")' = {None}
      /\ Rewritten' = {}
  <2>1. \A c : Pending(c)' = Named(Upgrade, c)
    BY <1>1 DEF Pending, Named
  <2>2. Rewritten' = { p[1] : p \in Pending("rewrite")' }
    BY <1>1 DEF Rewritten, Pending
  <2> QED BY <1>1, UpgradePlan, <2>1, <2>2
<1>4. Typed'
  BY <1>1, <1>2, <1>3 DEF BInv, Typed, TypeOK, Phases
<1>5. Ordered'
  BY <1>1, <1>3 DEF Ordered, Placed
<1>6. Fits'
  BY <1>1, <1>2, <1>3 DEF BInv, Fits, Ending
<1>7. Aimed'
  BY <1>1, <1>2, <1>3 DEF BInv, Aimed, Ending
<1>8. Climbed'
  BY <1>1, <1>2, <1>3 DEF BInv, Climbed
<1>9. IndexLast'
  BY <1>1, <1>2, <1>3 DEF BInv, IndexLast, Ending, Fits, Aimed
<1>10. Born'
  BY <1>1, <1>2, <1>3 DEF BInv, Born, Aimed
<1>11. Whole'
  BY <1>1, <1>2, <1>3 DEF BInv, Scoped, Whole, Born, Fits, Aimed
<1>12. Raised'
  BY <1>1, <1>2, <1>3 DEF BInv, Raised, Fits
<1>13. Configuration'
  BY <1>1, <1>2, <1>3 DEF BInv, Configuration, Fits, Ending, End02, Over02
<1>14. Content'
  BY <1>1, <1>2, <1>3 DEF BInv, Content, End02, Over02
<1>15. Form'
  BY <1>1, <1>2, <1>3 DEF BInv, Form, End02, Over02
<1>16. Logged02'
  BY <1>1, <1>2, <1>3 DEF BInv, Logged02, End02, Over02, Content
<1>17. Bodies101'
  BY <1>1, <1>2, <1>3 DEF BInv, Bodies101, End101, Over101
<1>18. Records101'
  BY <1>1, <1>2, <1>3 DEF BInv, Records101, End101, Over101
<1>19. Logged101'
  BY <1>1, <1>2, <1>3 DEF BInv, Logged101, End101, Over101
<1>20. Becomes'
  BY <1>1, <1>2, <1>3 DEF BInv, Becomes, Final, Fits, Ending
<1>21. Pointing'
  BY <1>1, <1>2, <1>3 DEF BInv, Pointing, Linked, Settled, Final, End02, Fits
<1> QED BY <1>4, <1>5, <1>6, <1>7, <1>8, <1>9, <1>10, <1>11, <1>12, <1>13, <1>14,
           <1>15, <1>16, <1>17, <1>18, <1>19, <1>20, <1>21 DEF BInv

LEMMA StructuralKeeps ==
  ASSUME BInv, version = "0.1.0", Enter("idle", "structural", Structural)
  PROVE  BInv'
<1>1. /\ pc = "idle" /\ todo = << >> /\ version = "0.1.0"
      /\ pc' = "structural" /\ todo' = Structural /\ worked' = (pc # "idle" /\ worked)
      /\ UNCHANGED << version, files, bodies, ymls, rec, ledger, indexed >>
      /\ UNCHANGED << deaths, halfway, torn, left, climbed >>
  BY DEF Enter, disk, history
<1>2. Pending("version") = {} /\ Pending("body") = {} /\ Pending("record") = {} /\ Pending("unlink") = {}
        /\ Pending("rewrite") = {} /\ Pending("event") = {} /\ Pending("index") = {} /\ Rewritten = {}
  BY <1>1, NoElements DEF Pending, Rewritten
<1>3. /\ todo' \in Seq(Effects) /\ Backed(todo', files)
      /\ Pending("record")' \subseteq Configured
      /\ ymls \subseteq Pending("unlink")' \cup files
      /\ Pending("version")' = {}
      /\ Pending("body")' = {}
      /\ Pending("rewrite")' = {}
      /\ Pending("event")' = {}
      /\ Pending("index")' = {}
      /\ Rewritten' = {}
  <2>1. \A c : Pending(c)' = Named(Structural, c)
    BY <1>1 DEF Pending, Named
  <2>2. Rewritten' = { p[1] : p \in Pending("rewrite")' }
    BY <1>1 DEF Rewritten, Pending
  <2> QED BY <1>1, RecTyped, StructuralPlan, <2>1, <2>2
<1>4. /\ version # None
  BY <1>1, FileAssumption DEF Versions
<1>5. Typed'
  BY <1>1, <1>2, <1>3, <1>4 DEF BInv, Typed, TypeOK, Phases
<1>6. Ordered'
  BY <1>1 DEF Ordered, Ending
<1>7. Fits'
  BY <1>1, <1>2, <1>3, <1>4 DEF BInv, Fits, Ending
<1>8. Aimed'
  BY <1>1, <1>2, <1>3, <1>4 DEF BInv, Aimed, Ending
<1>9. Climbed'
  BY <1>1, <1>2, <1>3, <1>4 DEF BInv, Climbed
<1>10. IndexLast'
  BY <1>1, <1>2, <1>3, <1>4 DEF BInv, IndexLast, Ending, Fits, Aimed
<1>11. Born'
  BY <1>1, <1>2, <1>3, <1>4 DEF BInv, Born, Aimed
<1>12. Whole'
  BY <1>1, <1>2, <1>3, <1>4 DEF BInv, Scoped, Whole, Born, Fits, Aimed
<1>13. Raised'
  BY <1>1, <1>2, <1>3, <1>4 DEF BInv, Raised, Fits
<1>14. Configuration'
  BY <1>1, <1>2, <1>3, <1>4 DEF BInv, Configuration, Fits, Ending, End02, Over02
<1>15. Content'
  BY <1>1, <1>2, <1>3, <1>4 DEF BInv, Content, End02, Over02
<1>16. Form'
  BY <1>1, <1>2, <1>3, <1>4 DEF BInv, Form, End02, Over02
<1>17. Logged02'
  BY <1>1, <1>2, <1>3, <1>4 DEF BInv, Logged02, End02, Over02
<1>18. Bodies101'
  BY <1>1, <1>2, <1>3, <1>4 DEF BInv, Bodies101, End101, Over101
<1>19. Records101'
  BY <1>1, <1>2, <1>3, <1>4 DEF BInv, Records101, End101, Over101
<1>20. Logged101'
  BY <1>1, <1>2, <1>3, <1>4 DEF BInv, Logged101, End101, Over101
<1>21. Becomes'
  BY <1>1, <1>2, <1>3, <1>4 DEF BInv, Becomes, Final, Fits, Ending
<1>22. Pointing'
  BY <1>1, <1>2, <1>3, <1>4 DEF BInv, Pointing, Linked, Settled, Final, End02, Fits
<1> QED BY <1>5, <1>6, <1>7, <1>8, <1>9, <1>10, <1>11, <1>12, <1>13, <1>14, <1>15,
           <1>16, <1>17, <1>18, <1>19, <1>20, <1>21, <1>22 DEF BInv

LEMMA VendoredKeeps ==
  ASSUME BInv, Enter("structural", "vendored", Vendored)
  PROVE  BInv'
<1>1. /\ pc = "structural" /\ todo = << >> 
      /\ pc' = "vendored" /\ todo' = Vendored /\ worked' = (pc # "idle" /\ worked)
      /\ UNCHANGED << version, files, bodies, ymls, rec, ledger, indexed >>
      /\ UNCHANGED << deaths, halfway, torn, left, climbed >>
  BY DEF Enter, disk, history
<1>2. Pending("version") = {} /\ Pending("body") = {} /\ Pending("record") = {} /\ Pending("unlink") = {}
        /\ Pending("rewrite") = {} /\ Pending("event") = {} /\ Pending("index") = {} /\ Rewritten = {}
  BY <1>1, NoElements DEF Pending, Rewritten
<1>3. /\ todo' \in Seq(Effects)
      /\ Pending("version")' = {}
      /\ Pending("body")' = Elements(Types)
      /\ Pending("record")' = (Vendor \cup { "_kernel", "kernel.self", "human" }) \ files
      /\ Pending("unlink")' = {}
      /\ Pending("rewrite")' = {}
      /\ Pending("event")' = {}
      /\ Pending("index")' = {}
      /\ Rewritten' = {}
  <2>1. \A c : Pending(c)' = Named(Vendored, c)
    BY <1>1 DEF Pending, Named
  <2>2. Rewritten' = { p[1] : p \in Pending("rewrite")' }
    BY <1>1 DEF Rewritten, Pending
  <2> QED BY <1>1, VendoredPlan, <2>1, <2>2
<1>4. Typed'
  BY <1>1, <1>2, <1>3 DEF BInv, Typed, TypeOK, Phases
<1>5. Ordered'
  BY <1>1 DEF Ordered, Ending
<1>6. Fits'
  BY <1>1, <1>2, <1>3 DEF BInv, Fits, Ending
<1>7. Aimed'
  BY <1>1, <1>2, <1>3 DEF BInv, Aimed, Ending
<1>8. Climbed'
  BY <1>1, <1>2, <1>3 DEF BInv, Climbed
<1>9. IndexLast'
  BY <1>1, <1>2, <1>3 DEF BInv, IndexLast, Ending, Fits, Aimed
<1>10. Born'
  BY <1>1, <1>2, <1>3 DEF BInv, Born, Aimed
<1>11. Whole'
  BY <1>1, <1>2, <1>3 DEF BInv, Scoped, Whole, Born, Fits, Aimed
<1>12. Raised'
  BY <1>1, <1>2, <1>3 DEF BInv, Raised, Fits
<1>13. Configuration'
  BY <1>1, <1>2, <1>3 DEF BInv, Configuration, Fits, Ending, End02, Over02
<1>14. Content'
  BY <1>1, <1>2, <1>3 DEF BInv, Content, End02, Over02
<1>15. Form'
  BY <1>1, <1>2, <1>3 DEF BInv, Form, End02, Over02
<1>16. Logged02'
  BY <1>1, <1>2, <1>3 DEF BInv, Logged02, End02, Over02
<1>17. Bodies101'
  BY <1>1, <1>2, <1>3 DEF BInv, Bodies101, End101, Over101
<1>18. Records101'
  BY <1>1, <1>2, <1>3 DEF BInv, Records101, End101, Over101
<1>19. Logged101'
  BY <1>1, <1>2, <1>3 DEF BInv, Logged101, End101, Over101
<1>20. Becomes'
  BY <1>1, <1>2, <1>3 DEF BInv, Becomes, Final, Fits, Ending
<1>21. Pointing'
  BY <1>1, <1>2, <1>3 DEF BInv, Pointing, Linked, Settled, Final, End02, Fits
<1> QED BY <1>4, <1>5, <1>6, <1>7, <1>8, <1>9, <1>10, <1>11, <1>12, <1>13, <1>14,
           <1>15, <1>16, <1>17, <1>18, <1>19, <1>20, <1>21 DEF BInv

LEMMA FrontmatterKeeps ==
  ASSUME BInv, Enter("vendored", "frontmatter", Frontmatter)
  PROVE  BInv'
<1>1. /\ pc = "vendored" /\ todo = << >> 
      /\ pc' = "frontmatter" /\ todo' = Frontmatter /\ worked' = (pc # "idle" /\ worked)
      /\ UNCHANGED << version, files, bodies, ymls, rec, ledger, indexed >>
      /\ UNCHANGED << deaths, halfway, torn, left, climbed >>
  BY DEF Enter, disk, history
<1>2. Pending("version") = {} /\ Pending("body") = {} /\ Pending("record") = {} /\ Pending("unlink") = {}
        /\ Pending("rewrite") = {} /\ Pending("event") = {} /\ Pending("index") = {} /\ Rewritten = {}
  BY <1>1, NoElements DEF Pending, Rewritten
<1>3. /\ todo' \in Seq(Effects)
      /\ Pending("version")' = {}
      /\ Pending("body")' = {}
      /\ Pending("record")' = {}
      /\ Pending("unlink")' = {}
      /\ Pending("event")' = {}
      /\ Pending("index")' = {}
      /\ \A p \in Pending("rewrite")' :
           p[1] \in DOMAIN rec /\ p[2] = [ rec[p[1]] EXCEPT !.form = "v02", !.via = TRUE ]
      /\ \A u \in DOMAIN rec : Stays(rec[u]) \/ u \in Rewritten'
  <2>1. \A c : Pending(c)' = Named(Frontmatter, c)
    BY <1>1 DEF Pending, Named
  <2>2. Rewritten' = { p[1] : p \in Pending("rewrite")' }
    BY <1>1 DEF Rewritten, Pending
  <2> QED BY <1>1, RecTyped, FrontmatterPlan, <2>1, <2>2
<1>4. Typed'
  BY <1>1, <1>2, <1>3 DEF BInv, Typed, TypeOK, Phases
<1>5. Ordered'
  BY <1>1 DEF Ordered, Ending
<1>6. Fits'
  BY <1>1, <1>2, <1>3 DEF BInv, Fits, Ending
<1>7. Aimed'
  BY <1>1, <1>2, <1>3 DEF BInv, Aimed, Ending
<1>8. Climbed'
  BY <1>1, <1>2, <1>3 DEF BInv, Climbed
<1>9. IndexLast'
  BY <1>1, <1>2, <1>3 DEF BInv, IndexLast, Ending, Fits, Aimed
<1>10. Born'
  BY <1>1, <1>2, <1>3 DEF BInv, Born, Aimed
<1>11. Whole'
  BY <1>1, <1>2, <1>3 DEF BInv, Scoped, Whole, Born, Fits, Aimed
<1>12. Raised'
  BY <1>1, <1>2, <1>3 DEF BInv, Raised, Fits
<1>13. Configuration'
  BY <1>1, <1>2, <1>3 DEF BInv, Configuration, Fits, Ending, End02, Over02
<1>14. Content'
  BY <1>1, <1>2, <1>3 DEF BInv, Content, End02, Over02
<1>15. Form'
  BY <1>1, <1>2, <1>3 DEF BInv, Form, End02, Over02
<1>16. Logged02'
  BY <1>1, <1>2, <1>3 DEF BInv, Logged02, End02, Over02
<1>17. Bodies101'
  BY <1>1, <1>2, <1>3 DEF BInv, Bodies101, End101, Over101
<1>18. Records101'
  BY <1>1, <1>2, <1>3 DEF BInv, Records101, End101, Over101
<1>19. Logged101'
  BY <1>1, <1>2, <1>3 DEF BInv, Logged101, End101, Over101
<1>20. Becomes'
  BY <1>1, <1>2, <1>3 DEF BInv, Becomes, Final, Fits, Ending
<1>21. Pointing'
  <2>1. \A u : Linked(u)' = Linked(u) /\ Settled(u)' = Settled(u)
    BY <1>1 DEF Linked, Settled, Final
  <2>2. ~End02' /\ ~End02
    BY <1>1 DEF End02
  <2> QED BY <1>1, <2>1, <2>2 DEF BInv, Pointing
<1> QED BY <1>4, <1>5, <1>6, <1>7, <1>8, <1>9, <1>10, <1>11, <1>12, <1>13, <1>14,
           <1>15, <1>16, <1>17, <1>18, <1>19, <1>20, <1>21 DEF BInv

LEMMA RelocateKeeps ==
  ASSUME BInv, Enter("bodies", "relocate", Relocated)
  PROVE  BInv'
<1>1. /\ pc = "bodies" /\ todo = << >> 
      /\ pc' = "relocate" /\ todo' = Relocated /\ worked' = (pc # "idle" /\ worked)
      /\ UNCHANGED << version, files, bodies, ymls, rec, ledger, indexed >>
      /\ UNCHANGED << deaths, halfway, torn, left, climbed >>
  BY DEF Enter, disk, history
<1>2. Pending("version") = {} /\ Pending("body") = {} /\ Pending("record") = {} /\ Pending("unlink") = {}
        /\ Pending("rewrite") = {} /\ Pending("event") = {} /\ Pending("index") = {} /\ Rewritten = {}
  BY <1>1, NoElements DEF Pending, Rewritten
<1>3. /\ todo' \in Seq(Effects)
      /\ Pending("version")' = {}
      /\ Pending("body")' = {}
      /\ Pending("record")' = {}
      /\ Pending("unlink")' = {}
      /\ Pending("event")' = {}
      /\ Pending("index")' = {}
      /\ \A p \in Pending("rewrite")' :
           p[1] \in DOMAIN rec /\ p[2] = [ rec[p[1]] EXCEPT !.at = "home" ]
      /\ \A u \in DOMAIN rec : ~Moves(rec[u]) \/ u \in Rewritten'
  <2>1. \A c : Pending(c)' = Named(Relocated, c)
    BY <1>1 DEF Pending, Named
  <2>2. Rewritten' = { p[1] : p \in Pending("rewrite")' }
    BY <1>1 DEF Rewritten, Pending
  <2> QED BY <1>1, RecTyped, RelocatedPlan, <2>1, <2>2
<1>4. Typed'
  BY <1>1, <1>2, <1>3 DEF BInv, Typed, TypeOK, Phases
<1>5. Ordered'
  BY <1>1 DEF Ordered, Ending
<1>6. Fits'
  BY <1>1, <1>2, <1>3 DEF BInv, Fits, Ending
<1>7. Aimed'
  BY <1>1, <1>2, <1>3 DEF BInv, Aimed, Ending
<1>8. Climbed'
  BY <1>1, <1>2, <1>3 DEF BInv, Climbed
<1>9. IndexLast'
  BY <1>1, <1>2, <1>3 DEF BInv, IndexLast, Ending, Fits, Aimed
<1>10. Born'
  BY <1>1, <1>2, <1>3 DEF BInv, Born, Aimed
<1>11. Whole'
  BY <1>1, <1>2, <1>3 DEF BInv, Scoped, Whole, Born, Fits, Aimed
<1>12. Raised'
  BY <1>1, <1>2, <1>3 DEF BInv, Raised, Fits
<1>13. Configuration'
  BY <1>1, <1>2, <1>3 DEF BInv, Configuration, Fits, Ending, End02, Over02
<1>14. Content'
  BY <1>1, <1>2, <1>3 DEF BInv, Content, End02, Over02
<1>15. Form'
  BY <1>1, <1>2, <1>3 DEF BInv, Form, End02, Over02
<1>16. Logged02'
  BY <1>1, <1>2, <1>3 DEF BInv, Logged02, End02, Over02
<1>17. Bodies101'
  BY <1>1, <1>2, <1>3 DEF BInv, Bodies101, End101, Over101
<1>18. Records101'
  BY <1>1, <1>2, <1>3 DEF BInv, Records101, End101, Over101
<1>19. Logged101'
  BY <1>1, <1>2, <1>3 DEF BInv, Logged101, End101, Over101
<1>20. Becomes'
  BY <1>1, <1>2, <1>3 DEF BInv, Becomes, Final, Fits, Ending
<1>21. Pointing'
  BY <1>1, <1>2, <1>3 DEF BInv, Pointing, Linked, Settled, Final, End02, Fits
<1> QED BY <1>4, <1>5, <1>6, <1>7, <1>8, <1>9, <1>10, <1>11, <1>12, <1>13, <1>14,
           <1>15, <1>16, <1>17, <1>18, <1>19, <1>20, <1>21 DEF BInv

LEMMA BackfillKeeps ==
  ASSUME BInv, Enter("relocate", "backfill", Backfilled)
  PROVE  BInv'
<1>1. /\ pc = "relocate" /\ todo = << >> 
      /\ pc' = "backfill" /\ todo' = Backfilled /\ worked' = (pc # "idle" /\ worked)
      /\ UNCHANGED << version, files, bodies, ymls, rec, ledger, indexed >>
      /\ UNCHANGED << deaths, halfway, torn, left, climbed >>
  BY DEF Enter, disk, history
<1>2. Pending("version") = {} /\ Pending("body") = {} /\ Pending("record") = {} /\ Pending("unlink") = {}
        /\ Pending("rewrite") = {} /\ Pending("event") = {} /\ Pending("index") = {} /\ Rewritten = {}
  BY <1>1, NoElements DEF Pending, Rewritten
<1>3. /\ todo' \in Seq(Effects)
      /\ Pending("version")' = {}
      /\ Pending("body")' = {}
      /\ Pending("record")' = {}
      /\ Pending("unlink")' = {}
      /\ Pending("event")' = {}
      /\ Pending("index")' = {}
      /\ \A p \in Pending("rewrite")' :
           p[1] \in DOMAIN rec /\ p[2] = [ rec[p[1]] EXCEPT !.via = TRUE ]
      /\ \A u \in DOMAIN rec : rec[u].via \/ u \in Rewritten'
  <2>1. \A c : Pending(c)' = Named(Backfilled, c)
    BY <1>1 DEF Pending, Named
  <2>2. Rewritten' = { p[1] : p \in Pending("rewrite")' }
    BY <1>1 DEF Rewritten, Pending
  <2> QED BY <1>1, RecTyped, BackfilledPlan, <2>1, <2>2
<1>4. Typed'
  BY <1>1, <1>2, <1>3 DEF BInv, Typed, TypeOK, Phases
<1>5. Ordered'
  BY <1>1 DEF Ordered, Ending
<1>6. Fits'
  BY <1>1, <1>2, <1>3 DEF BInv, Fits, Ending
<1>7. Aimed'
  BY <1>1, <1>2, <1>3 DEF BInv, Aimed, Ending
<1>8. Climbed'
  BY <1>1, <1>2, <1>3 DEF BInv, Climbed
<1>9. IndexLast'
  BY <1>1, <1>2, <1>3 DEF BInv, IndexLast, Ending, Fits, Aimed
<1>10. Born'
  BY <1>1, <1>2, <1>3 DEF BInv, Born, Aimed
<1>11. Whole'
  BY <1>1, <1>2, <1>3 DEF BInv, Scoped, Whole, Born, Fits, Aimed
<1>12. Raised'
  BY <1>1, <1>2, <1>3 DEF BInv, Raised, Fits
<1>13. Configuration'
  BY <1>1, <1>2, <1>3 DEF BInv, Configuration, Fits, Ending, End02, Over02
<1>14. Content'
  BY <1>1, <1>2, <1>3 DEF BInv, Content, End02, Over02
<1>15. Form'
  BY <1>1, <1>2, <1>3 DEF BInv, Form, End02, Over02
<1>16. Logged02'
  BY <1>1, <1>2, <1>3 DEF BInv, Logged02, End02, Over02
<1>17. Bodies101'
  BY <1>1, <1>2, <1>3 DEF BInv, Bodies101, End101, Over101
<1>18. Records101'
  BY <1>1, <1>2, <1>3 DEF BInv, Records101, End101, Over101
<1>19. Logged101'
  BY <1>1, <1>2, <1>3 DEF BInv, Logged101, End101, Over101
<1>20. Becomes'
  BY <1>1, <1>2, <1>3 DEF BInv, Becomes, Final, Fits, Ending
<1>21. Pointing'
  BY <1>1, <1>2, <1>3 DEF BInv, Pointing, Linked, Settled, Final, End02, Fits
<1> QED BY <1>4, <1>5, <1>6, <1>7, <1>8, <1>9, <1>10, <1>11, <1>12, <1>13, <1>14,
           <1>15, <1>16, <1>17, <1>18, <1>19, <1>20, <1>21 DEF BInv

LEMMA BodiesKeeps ==
  ASSUME BInv, version = "1.0.0", Enter("idle", "bodies", Each("body", Outdated))
  PROVE  BInv'
<1>1. /\ pc = "idle" /\ todo = << >> /\ version = "1.0.0"
      /\ pc' = "bodies" /\ todo' = Each("body", Outdated) /\ worked' = (pc # "idle" /\ worked)
      /\ UNCHANGED << version, files, bodies, ymls, rec, ledger, indexed >>
      /\ UNCHANGED << deaths, halfway, torn, left, climbed >>
  BY DEF Enter, disk, history
<1>2. Pending("version") = {} /\ Pending("body") = {} /\ Pending("record") = {} /\ Pending("unlink") = {}
        /\ Pending("rewrite") = {} /\ Pending("event") = {} /\ Pending("index") = {} /\ Rewritten = {}
  BY <1>1, NoElements DEF Pending, Rewritten
<1>3. /\ todo' \in Seq(Effects)
      /\ Pending("version")' = {}
      /\ Pending("body")' = { t \in Elements(Types) : bodies[t] # "new" }
      /\ Pending("record")' = {}
      /\ Pending("unlink")' = {}
      /\ Pending("rewrite")' = {}
      /\ Pending("event")' = {}
      /\ Pending("index")' = {}
      /\ Rewritten' = {}
  <2>1. \A c : Pending(c)' = Named(Each("body", Outdated), c)
    BY <1>1 DEF Pending, Named
  <2>2. Rewritten' = { p[1] : p \in Pending("rewrite")' }
    BY <1>1 DEF Rewritten, Pending
  <2> QED BY <1>1, OutdatedPlan, <2>1, <2>2
<1>4. /\ version # None
  BY <1>1, FileAssumption DEF Versions
<1>5. Typed'
  BY <1>1, <1>2, <1>3, <1>4 DEF BInv, Typed, TypeOK, Phases
<1>6. Ordered'
  BY <1>1 DEF Ordered, Ending
<1>7. Fits'
  BY <1>1, <1>2, <1>3, <1>4 DEF BInv, Fits, Ending
<1>8. Aimed'
  BY <1>1, <1>2, <1>3, <1>4 DEF BInv, Aimed, Ending
<1>9. Climbed'
  BY <1>1, <1>2, <1>3, <1>4 DEF BInv, Climbed
<1>10. IndexLast'
  BY <1>1, <1>2, <1>3, <1>4 DEF BInv, IndexLast, Ending, Fits, Aimed
<1>11. Born'
  BY <1>1, <1>2, <1>3, <1>4 DEF BInv, Born, Aimed
<1>12. Whole'
  BY <1>1, <1>2, <1>3, <1>4 DEF BInv, Scoped, Whole, Born, Fits, Aimed
<1>13. Raised'
  BY <1>1, <1>2, <1>3, <1>4 DEF BInv, Raised, Fits
<1>14. Configuration'
  BY <1>1, <1>2, <1>3, <1>4 DEF BInv, Configuration, Fits, Ending, End02, Over02
<1>15. Content'
  BY <1>1, <1>2, <1>3, <1>4 DEF BInv, Content, End02, Over02
<1>16. Form'
  BY <1>1, <1>2, <1>3, <1>4 DEF BInv, Form, End02, Over02
<1>17. Logged02'
  BY <1>1, <1>2, <1>3, <1>4 DEF BInv, Logged02, End02, Over02
<1>18. Bodies101'
  BY <1>1, <1>2, <1>3, <1>4 DEF BInv, Bodies101, End101, Over101
<1>19. Records101'
  BY <1>1, <1>2, <1>3, <1>4 DEF BInv, Records101, End101, Over101
<1>20. Logged101'
  BY <1>1, <1>2, <1>3, <1>4 DEF BInv, Logged101, End101, Over101
<1>21. Becomes'
  BY <1>1, <1>2, <1>3, <1>4 DEF BInv, Becomes, Final, Fits, Ending
<1>22. Pointing'
  BY <1>1, <1>2, <1>3, <1>4 DEF BInv, Pointing, Linked, Settled, Final, End02, Fits
<1> QED BY <1>5, <1>6, <1>7, <1>8, <1>9, <1>10, <1>11, <1>12, <1>13, <1>14, <1>15,
           <1>16, <1>17, <1>18, <1>19, <1>20, <1>21, <1>22 DEF BInv

LEMMA Finish02Keeps ==
  ASSUME BInv, Enter("references", "finalize", Finalized(Log("migration-0.2"), "0.2.0"))
  PROVE  BInv'
<1>1. /\ pc = "references" /\ todo = << >> 
      /\ pc' = "finalize" /\ todo' = Finalized(Log("migration-0.2"), "0.2.0") /\ worked' = (pc # "idle" /\ worked)
      /\ UNCHANGED << version, files, bodies, ymls, rec, ledger, indexed >>
      /\ UNCHANGED << deaths, halfway, torn, left, climbed >>
  BY DEF Enter, disk, history
<1>2. Pending("version") = {} /\ Pending("body") = {} /\ Pending("record") = {} /\ Pending("unlink") = {}
        /\ Pending("rewrite") = {} /\ Pending("event") = {} /\ Pending("index") = {} /\ Rewritten = {}
  BY <1>1, NoElements DEF Pending, Rewritten
<1>3. /\ todo' \in Seq(Effects) /\ Sorted("finalize", todo') /\ Placed("finalize", todo')
      /\ Pending("version")' = {"0.2.0"}
      /\ Pending("body")' = {}
      /\ Pending("record")' = {}
      /\ Pending("unlink")' = {}
      /\ Pending("rewrite")' = {}
      /\ Pending("event")' = {"migration-0.2"}
      /\ Pending("index")' = {None}
      /\ Rewritten' = {}
  <2>1. \A c : Pending(c)' = Named(Finalized(Log("migration-0.2"), "0.2.0"), c)
    BY <1>1 DEF Pending, Named
  <2>2. Rewritten' = { p[1] : p \in Pending("rewrite")' }
    BY <1>1 DEF Rewritten, Pending
  <2> QED BY <1>1, Finalized02Plan, <2>1, <2>2
<1>4. /\ version = "0.1.0"
  BY <1>1 DEF BInv, Aimed
<1>5. Typed'
  BY <1>1, <1>2, <1>3, <1>4 DEF BInv, Typed, TypeOK, Phases
<1>6. Ordered'
  BY <1>1, <1>3 DEF Ordered, Placed
<1>7. Fits'
  BY <1>1, <1>2, <1>3, <1>4 DEF BInv, Fits, Ending
<1>8. Aimed'
  BY <1>1, <1>2, <1>3, <1>4 DEF BInv, Aimed, Ending
<1>9. Climbed'
  BY <1>1, <1>2, <1>3, <1>4 DEF BInv, Climbed
<1>10. IndexLast'
  BY <1>1, <1>2, <1>3, <1>4 DEF BInv, IndexLast, Ending, Fits, Aimed
<1>11. Born'
  BY <1>1, <1>2, <1>3, <1>4 DEF BInv, Born, Aimed
<1>12. Whole'
  BY <1>1, <1>2, <1>3, <1>4 DEF BInv, Scoped, Whole, Born, Fits, Aimed
<1>13. Raised'
  BY <1>1, <1>2, <1>3, <1>4 DEF BInv, Raised, Fits
<1>14. Configuration'
  BY <1>1, <1>2, <1>3, <1>4 DEF BInv, Configuration, Fits, Ending, End02, Over02
<1>15. Content'
  BY <1>1, <1>2, <1>3, <1>4 DEF BInv, Content, End02, Over02
<1>16. Form'
  BY <1>1, <1>2, <1>3, <1>4 DEF BInv, Form, End02, Over02
<1>17. Logged02'
  BY <1>1, <1>2, <1>3, <1>4 DEF BInv, Logged02, End02, Over02
<1>18. Bodies101'
  BY <1>1, <1>2, <1>3, <1>4 DEF BInv, Bodies101, End101, Over101
<1>19. Records101'
  BY <1>1, <1>2, <1>3, <1>4 DEF BInv, Records101, End101, Over101
<1>20. Logged101'
  BY <1>1, <1>2, <1>3, <1>4 DEF BInv, Logged101, End101, Over101
<1>21. Becomes'
  BY <1>1, <1>2, <1>3, <1>4 DEF BInv, Becomes, Final, Fits, Ending
<1>22. Pointing'
  <2>1. \A v : Final(v)' = Final(v) /\ Linked(v)' = Linked(v) /\ Settled(v)' = Settled(v)
    BY <1>1 DEF Final, Linked, Settled
  <2>2. ASSUME NEW u \in DOMAIN rec, ~rec[u].node, u \notin torn PROVE Linked(u)
    <3>1. CASE Suffixing \notin files
      BY <1>1, <2>2, <3>1 DEF BInv, Pointing
    <3>2. CASE Suffixing \in files
      <4>1. Settled(u) /\ rec[u].means \subseteq DOMAIN rec
        BY <1>1, <1>2, <2>2, <3>2 DEF BInv, Pointing
      <4>2. \A v \in DOMAIN rec : rec[v].node \/ rec[v].id \notin DOMAIN Stripped
        BY <1>1, <1>2, <3>2 DEF BInv, Pointing
      <4>3. \A v \in DOMAIN rec : Final(v) = rec[v].id
        BY <4>2 DEF Final, Bare
      <4> QED BY <4>1, <4>3 DEF Linked, Settled
    <3> QED BY <3>1, <3>2
  <2>3. /\ \A u \in DOMAIN rec : rec[u].means \subseteq DOMAIN rec
        /\ \A u, v \in DOMAIN rec :
             rec[u].node /\ ~rec[v].node /\ rec[u].id = rec[v].id => rec[u].id \notin DOMAIN Stripped
    BY DEF BInv, Pointing
  <2> QED BY <1>1, <2>1, <2>2, <2>3 DEF Pointing
<1> QED BY <1>5, <1>6, <1>7, <1>8, <1>9, <1>10, <1>11, <1>12, <1>13, <1>14, <1>15,
           <1>16, <1>17, <1>18, <1>19, <1>20, <1>21, <1>22 DEF BInv

LEMMA Finish101Keeps ==
  ASSUME BInv, Enter("backfill", "finalize", Finalized101)
  PROVE  BInv'
<1>1. /\ pc = "backfill" /\ todo = << >> 
      /\ pc' = "finalize" /\ todo' = Finalized101 /\ worked' = (pc # "idle" /\ worked)
      /\ UNCHANGED << version, files, bodies, ymls, rec, ledger, indexed >>
      /\ UNCHANGED << deaths, halfway, torn, left, climbed >>
  BY DEF Enter, disk, history
<1>2. Pending("version") = {} /\ Pending("body") = {} /\ Pending("record") = {} /\ Pending("unlink") = {}
        /\ Pending("rewrite") = {} /\ Pending("event") = {} /\ Pending("index") = {} /\ Rewritten = {}
  BY <1>1, NoElements DEF Pending, Rewritten
<1>3. /\ todo' \in Seq(Effects) /\ Sorted("finalize", todo') /\ Placed("finalize", todo')
      /\ Pending("version")' = {"current"}
      /\ Pending("body")' = {}
      /\ Pending("record")' = {}
      /\ Pending("unlink")' = {}
      /\ Pending("rewrite")' = {}
      /\ Pending("event")' = IF worked THEN {"migration-1.0.1"} ELSE {}
      /\ Pending("index")' = {None}
      /\ Rewritten' = {}
  <2>1. \A c : Pending(c)' = Named(Finalized101, c)
    BY <1>1 DEF Pending, Named
  <2>2. Rewritten' = { p[1] : p \in Pending("rewrite")' }
    BY <1>1 DEF Rewritten, Pending
  <2> QED BY <1>1, Finalized101Plan, <2>1, <2>2
<1>4. /\ version = "1.0.0"
  BY <1>1 DEF BInv, Aimed
<1>5. Typed'
  BY <1>1, <1>2, <1>3, <1>4 DEF BInv, Typed, TypeOK, Phases
<1>6. Ordered'
  BY <1>1, <1>3 DEF Ordered, Placed
<1>7. Fits'
  BY <1>1, <1>2, <1>3, <1>4 DEF BInv, Fits, Ending
<1>8. Aimed'
  BY <1>1, <1>2, <1>3, <1>4 DEF BInv, Aimed, Ending
<1>9. Climbed'
  BY <1>1, <1>2, <1>3, <1>4 DEF BInv, Climbed
<1>10. IndexLast'
  BY <1>1, <1>2, <1>3, <1>4 DEF BInv, IndexLast, Ending, Fits, Aimed
<1>11. Born'
  BY <1>1, <1>2, <1>3, <1>4 DEF BInv, Born, Aimed
<1>12. Whole'
  BY <1>1, <1>2, <1>3, <1>4 DEF BInv, Scoped, Whole, Born, Fits, Aimed
<1>13. Raised'
  BY <1>1, <1>2, <1>3, <1>4 DEF BInv, Raised, Fits
<1>14. Configuration'
  BY <1>1, <1>2, <1>3, <1>4 DEF BInv, Configuration, Fits, Ending, End02, Over02
<1>15. Content'
  BY <1>1, <1>2, <1>3, <1>4 DEF BInv, Content, End02, Over02
<1>16. Form'
  BY <1>1, <1>2, <1>3, <1>4 DEF BInv, Form, End02, Over02
<1>17. Logged02'
  BY <1>1, <1>2, <1>3, <1>4 DEF BInv, Logged02, End02, Over02
<1>18. Bodies101'
  BY <1>1, <1>2, <1>3, <1>4 DEF BInv, Bodies101, End101, Over101
<1>19. Records101'
  BY <1>1, <1>2, <1>3, <1>4 DEF BInv, Records101, End101, Over101
<1>20. Logged101'
  BY <1>1, <1>2, <1>3, <1>4 DEF BInv, Logged101, End101, Over101
<1>21. Becomes'
  BY <1>1, <1>2, <1>3, <1>4 DEF BInv, Becomes, Final, Fits, Ending
<1>22. Pointing'
  BY <1>1, <1>2, <1>3, <1>4 DEF BInv, Pointing, Linked, Settled, Final, End02, Fits
<1> QED BY <1>5, <1>6, <1>7, <1>8, <1>9, <1>10, <1>11, <1>12, <1>13, <1>14, <1>15,
           <1>16, <1>17, <1>18, <1>19, <1>20, <1>21, <1>22 DEF BInv

LEMMA ReferencesKeeps ==
  ASSUME BInv, Enter("frontmatter", "references", References)
  PROVE  BInv'
<1>1. /\ pc = "frontmatter" /\ todo = << >> 
      /\ pc' = "references" /\ todo' = References /\ worked' = (pc # "idle" /\ worked)
      /\ UNCHANGED << version, files, bodies, ymls, rec, ledger, indexed >>
      /\ UNCHANGED << deaths, halfway, torn, left, climbed >>
  BY DEF Enter, disk, history
<1>2. Pending("version") = {} /\ Pending("body") = {} /\ Pending("record") = {} /\ Pending("unlink") = {}
        /\ Pending("rewrite") = {} /\ Pending("event") = {} /\ Pending("index") = {} /\ Rewritten = {}
  BY <1>1, NoElements DEF Pending, Rewritten
<1>3. /\ todo' \in Seq(Effects)
      /\ Pending("version")' = {}
      /\ Pending("body")' = {}
      /\ Pending("record")' = {}
      /\ Pending("unlink")' = {}
      /\ Pending("event")' = {}
      /\ Pending("index")' = {}
      /\ Rewritten' = { p[1] : p \in Pending("rewrite")' }
  <2>1. \A c : Pending(c)' = Named(References, c)
    BY <1>1 DEF Pending, Named
  <2>2. Rewritten' = { p[1] : p \in Pending("rewrite")' }
    BY <1>1 DEF Rewritten, Pending
  <2> QED BY <1>1, PointingPlan, ReferencesPlan, <2>1, <2>2
<1>4. Typed'
  BY <1>1, <1>2, <1>3 DEF BInv, Typed, TypeOK, Phases
<1>5. Ordered'
  BY <1>1 DEF Ordered, Ending
<1>6. Fits'
  BY <1>1, <1>2, <1>3 DEF BInv, Fits, Ending
<1>7. Aimed'
  BY <1>1, <1>2, <1>3 DEF BInv, Aimed, Ending
<1>8. Climbed'
  BY <1>1, <1>2, <1>3 DEF BInv, Climbed
<1>9. IndexLast'
  BY <1>1, <1>2, <1>3 DEF BInv, IndexLast, Ending, Fits, Aimed
<1>10. Born'
  BY <1>1, <1>2, <1>3 DEF BInv, Born, Aimed
<1>11. Whole'
  BY <1>1, <1>2, <1>3 DEF BInv, Scoped, Whole, Born, Fits, Aimed
<1>12. Raised'
  BY <1>1, <1>2, <1>3 DEF BInv, Raised, Fits
<1>13. Configuration'
  BY <1>1, <1>2, <1>3 DEF BInv, Configuration, Fits, Ending, End02, Over02
<1>14. Content'
  BY <1>1, <1>2, <1>3 DEF BInv, Content, End02, Over02
<1>15. Form'
  BY <1>1, <1>2, <1>3 DEF BInv, Form, End02, Over02
<1>16. Logged02'
  BY <1>1, <1>2, <1>3 DEF BInv, Logged02, End02, Over02
<1>17. Bodies101'
  BY <1>1, <1>2, <1>3 DEF BInv, Bodies101, End101, Over101
<1>18. Records101'
  BY <1>1, <1>2, <1>3 DEF BInv, Records101, End101, Over101
<1>19. Logged101'
  BY <1>1, <1>2, <1>3 DEF BInv, Logged101, End101, Over101
<1>20. Becomes'
  <2>1. \A v : Final(v)' = Final(v)
    BY <1>1 DEF Final
  <2>2. ASSUME NEW p \in Pending("rewrite")'
        PROVE  /\ p[1] \in DOMAIN rec /\ Suffixing \in files /\ ~rec[p[1]].node
               /\ p[2] = [ rec[p[1]] EXCEPT !.id = Bare(@), !.deps = p[2].deps ]
               /\ p[1] \in torn \/ p[2].deps = { Final(v) : v \in rec[p[1]].means }
    <3>1. p \in Named(References, "rewrite")
      BY <1>1, <2>2 DEF Pending, Named
    <3>2. /\ p[1] \in DOMAIN rec /\ Suffixing \in files /\ ~rec[p[1]].node
          /\ p[2] = [ rec[p[1]] EXCEPT !.id = Bare(@), !.deps = p[2].deps ]
          /\ Linked(p[1]) \/ Settled(p[1]) =>
               p[2].deps = { Final(v) : v \in rec[p[1]].means }
      BY <3>1, PointingPlan, ReferencesPlan
    <3>3. p[1] \in torn \/ Linked(p[1]) \/ Settled(p[1])
      BY <1>1, <3>2 DEF BInv, Pointing
    <3> QED BY <3>2, <3>3
  <2>3. \A p \in Pending("rewrite")' :
          { Final(v)' : v \in rec'[p[1]].means } = { Final(v) : v \in rec[p[1]].means }
    BY <1>1, <2>1
  <2> QED BY <1>1, <2>2, <2>3 DEF Becomes
<1>21. Pointing'
  <2>1. \A v : Final(v)' = Final(v) /\ Linked(v)' = Linked(v) /\ Settled(v)' = Settled(v)
    BY <1>1 DEF Final, Linked, Settled
  <2>2. Rewritten' = { p[1] : p \in Named(References, "rewrite") }
    BY <1>1 DEF Rewritten, Pending, Named
  <2>3. /\ \A u \in DOMAIN rec : rec[u].means \subseteq DOMAIN rec
        /\ \A u, v \in DOMAIN rec :
             rec[u].node /\ ~rec[v].node /\ rec[u].id = rec[v].id => rec[u].id \notin DOMAIN Stripped
        /\ \A u \in DOMAIN rec : rec[u].node \/ u \in torn \/
             /\ Linked(u) \/ Settled(u)
             /\ Suffixing \notin files => Linked(u)
    BY <1>1 DEF BInv, Pointing
  <2>4. Suffixing \in files =>
          \A u \in DOMAIN rec :
             \/ rec[u].node
             \/ u \in { p[1] : p \in Named(References, "rewrite") }
             \/ /\ rec[u].id \notin DOMAIN Stripped
                /\ Linked(u) \/ Settled(u) => Settled(u)
    BY PointingPlan, ReferencesPlan
  <2>5. version = "0.1.0" /\ ~End02'
    BY <1>1 DEF BInv, Aimed, End02
  <2>6. Suffixing \in files =>
          \A u \in DOMAIN rec : rec[u].node \/ u \in torn \/ Settled(u) \/ u \in Rewritten'
    BY <2>2, <2>3, <2>4
  <2>7. Suffixing \in files =>
          \A u \in DOMAIN rec : rec[u].node \/ rec[u].id \notin DOMAIN Stripped \/ u \in Rewritten'
    BY <2>2, <2>4
  <2> QED BY <1>1, <2>1, <2>3, <2>5, <2>6, <2>7 DEF Pointing
<1> QED BY <1>4, <1>5, <1>6, <1>7, <1>8, <1>9, <1>10, <1>11, <1>12, <1>13, <1>14,
           <1>15, <1>16, <1>17, <1>18, <1>19, <1>20, <1>21 DEF BInv

LEMMA ReturnKeeps ==
  ASSUME BInv, Return
  PROVE  BInv'
<1>1. /\ pc \in Ending /\ todo = << >> 
      /\ pc' = "idle" /\ todo' = << >> /\ worked' = (pc # "idle" /\ worked)
      /\ UNCHANGED << version, files, bodies, ymls, rec, ledger, indexed >>
      /\ UNCHANGED << deaths, halfway, torn, left, climbed >>
  BY DEF Return, Enter, disk, history, Ending
<1>2. Pending("version") = {} /\ Pending("body") = {} /\ Pending("record") = {} /\ Pending("unlink") = {}
        /\ Pending("rewrite") = {} /\ Pending("event") = {} /\ Pending("index") = {} /\ Rewritten = {}
  BY <1>1, NoElements DEF Pending, Rewritten
<1>3. /\ todo' \in Seq(Effects)
      /\ Pending("version")' = {}
      /\ Pending("body")' = {}
      /\ Pending("record")' = {}
      /\ Pending("unlink")' = {}
      /\ Pending("rewrite")' = {}
      /\ Pending("event")' = {}
      /\ Pending("index")' = {}
      /\ Rewritten' = {}
  BY <1>1, NothingPending
<1>4. /\ "scope" \in Elements(Staged) /\ "bootstrap" \in Elements(Staged)
  BY Lists DEF Own
<1>5. Typed'
  BY <1>1, <1>2, <1>3, <1>4 DEF BInv, Typed, TypeOK, Phases
<1>6. Ordered'
  BY <1>1 DEF Ordered, Ending
<1>7. Fits'
  BY <1>1, <1>2, <1>3, <1>4 DEF BInv, Fits, Ending
<1>8. Aimed'
  BY <1>1, <1>2, <1>3, <1>4 DEF BInv, Aimed, Ending
<1>9. Climbed'
  BY <1>1, <1>2, <1>3, <1>4 DEF BInv, Climbed
<1>10. IndexLast'
  BY <1>1, <1>2, <1>3, <1>4 DEF BInv, IndexLast, Ending, Fits, Aimed
<1>11. Born'
  BY <1>1, <1>2, <1>3, <1>4 DEF BInv, Born, Aimed
<1>12. Whole'
  BY <1>1, <1>2, <1>3, <1>4 DEF BInv, Scoped, Whole, Born, Fits, Aimed, IndexLast, Ending
<1>13. Raised'
  BY <1>1, <1>2, <1>3, <1>4 DEF BInv, Raised, Fits
<1>14. Configuration'
  BY <1>1, <1>2, <1>3, <1>4 DEF BInv, Configuration, Fits, Ending, End02, Over02
<1>15. Content'
  BY <1>1, <1>2, <1>3, <1>4 DEF BInv, Content, End02, Over02
<1>16. Form'
  BY <1>1, <1>2, <1>3, <1>4 DEF BInv, Form, End02, Over02
<1>17. Logged02'
  BY <1>1, <1>2, <1>3, <1>4 DEF BInv, Logged02, End02, Over02
<1>18. Bodies101'
  BY <1>1, <1>2, <1>3, <1>4 DEF BInv, Bodies101, End101, Over101
<1>19. Records101'
  BY <1>1, <1>2, <1>3, <1>4 DEF BInv, Records101, End101, Over101
<1>20. Logged101'
  BY <1>1, <1>2, <1>3, <1>4 DEF BInv, Logged101, End101, Over101, Aimed, Ending
<1>21. Becomes'
  BY <1>1, <1>2, <1>3, <1>4 DEF BInv, Becomes, Final, Fits, Ending
<1>22. Pointing'
  BY <1>1, <1>2, <1>3, <1>4 DEF BInv, Pointing, Linked, Settled, Final, End02, Fits, Ending
<1> QED BY <1>5, <1>6, <1>7, <1>8, <1>9, <1>10, <1>11, <1>12, <1>13, <1>14, <1>15,
           <1>16, <1>17, <1>18, <1>19, <1>20, <1>21, <1>22 DEF BInv


-----------------------------------------------------------------------------
(***************************************************************************)
(* The invariant                                                           *)
(***************************************************************************)
LEMMA InitBInv == Init => BInv
<1> SUFFICES ASSUME Init PROVE BInv
  OBVIOUS
<1>1. /\ ledger = {} /\ indexed = TRUE /\ pc = "idle" /\ todo = << >> /\ worked = FALSE
      /\ deaths = 0 /\ halfway = FALSE /\ torn = {} /\ left = {} /\ climbed = {}
  BY DEF Init
<1>2. PICK r \in Repositories : /\ version = r.version /\ files = r.files /\ bodies = r.bodies
                                /\ ymls = r.ymls /\ rec = r.rec
  BY DEF Init
<1>3. IsRepository(r) /\ IsComplete(r)
  BY RepositoryAssumption
<1>4. /\ version \in Versions \cup {None}
      /\ files \subseteq Files /\ ymls \subseteq Configured
      /\ bodies \in [ Elements(Types) -> { "none", "old", "new" } ]
      /\ DOMAIN rec \subseteq Elements(Users) /\ \A u \in DOMAIN rec : rec[u] \in User
  BY <1>2, <1>3 DEF IsRepository
<1>5. /\ version = None => files = {} /\ ymls = {} /\ DOMAIN rec = {}
      /\ version # None => "bootstrap" \in files
      /\ version = "0.1.0" => ~Scoped /\ ymls \cap files = {}
      /\ version \in { "0.2.0", "1.0.0", "current" } => Own \ {"scope"} \subseteq files /\ Scoped
      /\ version = "1.0.0" => \E t \in Elements(Types) : bodies[t] # "new"
      /\ \A u, v \in DOMAIN rec : rec[u].id = rec[v].id => u = v
      /\ \A u \in DOMAIN rec :
           /\ rec[u].means \subseteq DOMAIN rec
           /\ rec[u].deps = { rec[v].id : v \in rec[u].means }
  BY <1>2, <1>3 DEF IsComplete, Scoped
<1>6. /\ Pending("version") = {} /\ Pending("body") = {} /\ Pending("record") = {}
      /\ Pending("unlink") = {} /\ Pending("rewrite") = {} /\ Pending("event") = {}
      /\ Pending("index") = {}
  BY <1>1, NoElements DEF Pending
<1>7. None \notin Versions
  BY FileAssumption
<1>8. Typed
  <2>1. pc \in Phases /\ todo \in Seq(Effects)
    BY <1>1 DEF Phases
  <2>2. deaths \in 0 .. MaxDeaths
    BY <1>1, BoundAssumption
  <2>3. indexed \in BOOLEAN /\ worked \in BOOLEAN /\ halfway \in BOOLEAN
    BY <1>1
  <2>4. left = {} /\ torn = {} /\ ledger = {} /\ climbed = {}
    BY <1>1
  <2> QED BY <1>4, <2>1, <2>2, <2>3, <2>4 DEF Typed, TypeOK
<1>9. Ordered /\ Fits /\ Aimed /\ Climbed /\ IndexLast
  BY <1>1, <1>6 DEF Ordered, Fits, Aimed, Climbed, IndexLast, Ending
<1>10. Born
  BY <1>1, <1>5 DEF Born
<1>11. Whole
  BY <1>1, <1>5, <1>7 DEF Whole, Own, Versions
<1>12. Raised
  BY <1>1 DEF Raised
<1>13. Configuration
  BY <1>1, <1>5 DEF Configuration, End02, Over02
<1>14. Content /\ Form /\ Logged02
  BY <1>1 DEF Content, Form, Logged02, End02, Over02
<1>15. Bodies101 /\ Records101 /\ Logged101
  BY <1>1, <1>5 DEF Bodies101, Records101, Logged101, End101, Over101
<1>16. Becomes
  BY <1>6 DEF Becomes
<1>17. Pointing
  BY <1>1, <1>5 DEF Pointing, Linked, End02
<1> QED BY <1>8, <1>9, <1>10, <1>11, <1>12, <1>13, <1>14, <1>15, <1>16, <1>17 DEF BInv

LEMMA NextBInv == BInv /\ [Next]_vars => BInv'
<1> SUFFICES ASSUME BInv, [Next]_vars PROVE BInv'
  OBVIOUS
<1>1. CASE InitFresh
  BY <1>1, InitFreshKeeps
<1>2. CASE InitUpgrade
  BY <1>2, InitUpgradeKeeps
<1>3. CASE Migrate02
  <2>1. CASE version = "0.1.0" /\ Enter("idle", "structural", Structural)
    BY <2>1, StructuralKeeps
  <2>2. CASE Enter("structural", "vendored", Vendored)
    BY <2>2, VendoredKeeps
  <2>3. CASE Enter("vendored", "frontmatter", Frontmatter)
    BY <2>3, FrontmatterKeeps
  <2>4. CASE Enter("frontmatter", "references", References)
    BY <2>4, ReferencesKeeps
  <2>5. CASE Enter("references", "finalize", Finalized(Log("migration-0.2"), "0.2.0"))
    BY <2>5, Finish02Keeps
  <2> QED BY <1>3, <2>1, <2>2, <2>3, <2>4, <2>5 DEF Migrate02
<1>4. CASE Migrate101
  <2>1. CASE version = "1.0.0" /\ Enter("idle", "bodies", Each("body", Outdated))
    BY <2>1, BodiesKeeps
  <2>2. CASE Enter("bodies", "relocate", Relocated)
    BY <2>2, RelocateKeeps
  <2>3. CASE Enter("relocate", "backfill", Backfilled)
    BY <2>3, BackfillKeeps
  <2>4. CASE Enter("backfill", "finalize", Finalized101)
    BY <2>4, Finish101Keeps
  <2> QED BY <1>4, <2>1, <2>2, <2>3, <2>4 DEF Migrate101
<1>5. CASE Return
  BY <1>5, ReturnKeeps
<1>6. CASE Write
  BY <1>6, WriteVersionKeeps, WriteBodyKeeps, WriteRecordKeeps, UnlinkKeeps, RewriteKeeps,
     AppendEventKeeps, WriteAllKeeps DEF Write
<1>7. CASE Die
  BY <1>7, DieKeeps
<1>8. CASE UNCHANGED vars
  BY <1>8, StutterKeeps
<1> QED BY <1>1, <1>2, <1>3, <1>4, <1>5, <1>6, <1>7, <1>8 DEF Next, Run

\* In every state of every run, for all repositories that an older kernel left
\* behind, all record types and any number of deaths, the plan under way and the
\* disk fit together: BInv, the conjunction of the named parts above, holds
\* (init_op.py, migrate-v0.1-to-v0.2.py, migrate-v1.0-to-v1.0.1-partial.py).
THEOREM AlwaysBInv == Spec => []BInv
<1>1. Init => BInv
  BY InitBInv
<1>2. BInv /\ [Next]_vars => BInv'
  BY NextBInv
<1> QED BY <1>1, <1>2, PTL DEF Spec

\* Every program writes records, bodies, versions and events of their types only.
THEOREM BootstrapTypes == Spec => []TypeOK
<1>1. BInv => TypeOK
  BY DEF BInv, Typed
<1> QED BY <1>1, AlwaysBInv, PTL

LEMMA DoneFromBInv == BInv => VersionMeansDone
<1> SUFFICES ASSUME BInv, pc = "idle"
             PROVE  /\ version = "0.2.0" /\ << "finalize", "0.1.0" >> \in climbed =>
                         /\ "migration-0.2" \in ledger /\ indexed
                         /\ Missing(Types \o Resolvers \o << "_kernel", "kernel.self", "human" >>) = << >>
                         /\ Outdated = << >>
                         /\ ymls \subseteq left \cap files
                         /\ \A u \in DOMAIN rec : rec[u].form = "v01" => rec[u].node
                    /\ version = "current" /\ << "finalize", "1.0.0" >> \in climbed =>
                         /\ "migration-1.0.1" \in ledger \/ deaths > 0
                         /\ indexed \/ halfway
                         /\ Outdated = << >>
                         /\ \A u \in DOMAIN rec : rec[u].via /\ ~Moves(rec[u])
                    /\ version = "current" /\ (\E v \in Versions : << "upgrade", v >> \in climbed) =>
                         "upgrade" \in ledger /\ (indexed \/ halfway) /\ Deltas = << >>
  BY DEF VersionMeansDone
<1> DEFINE X == Types \o Resolvers \o << "_kernel", "kernel.self", "human" >>
<1>1. Outdated = << >> <=> \A t \in Elements(Types) : bodies[t] = "new"
  BY OutdatedElements
<1>2. X \in Seq(Files) /\ Elements(X) = Vendor \cup { "_kernel", "kernel.self", "human" }
  BY KernelContent
<1>3. version = "current" => indexed \/ halfway
  BY DEF BInv, IndexLast
<1> HIDE DEF X
<1>4. Missing(X) = << >> <=> Vendor \cup { "_kernel", "kernel.self", "human" } \subseteq files
  BY <1>2, MissingElements
<1>5. ASSUME version = "0.2.0", << "finalize", "0.1.0" >> \in climbed
      PROVE  /\ "migration-0.2" \in ledger /\ indexed
             /\ Missing(X) = << >> /\ Outdated = << >>
             /\ ymls \subseteq left \cap files
             /\ \A u \in DOMAIN rec : rec[u].form = "v01" => rec[u].node
  <2>1. Over02
    BY <1>5 DEF Over02
  <2>2. "migration-0.2" \in ledger /\ indexed
    BY <2>1 DEF BInv, Logged02
  <2>3. /\ Vendor \cup { "_kernel", "kernel.self", "human" } \subseteq files
        /\ \A t \in Elements(Types) : bodies[t] = "new"
    BY <2>1 DEF BInv, Content
  <2>4. ymls \subseteq left \cap files
    BY <2>1 DEF BInv, Configuration
  <2>5. \A u \in DOMAIN rec : rec[u].form = "v01" => rec[u].node
    BY <2>1 DEF BInv, Form, Stays
  <2> QED BY <2>2, <2>3, <2>4, <2>5, <1>1, <1>4
<1>6. ASSUME version = "current", << "finalize", "1.0.0" >> \in climbed
      PROVE  /\ "migration-1.0.1" \in ledger \/ deaths > 0
             /\ Outdated = << >>
             /\ \A u \in DOMAIN rec : rec[u].via /\ ~Moves(rec[u])
  BY <1>1, <1>6 DEF BInv, Bodies101, Records101, Logged101, Over101
<1>7. ASSUME version = "current", \E v \in Versions : << "upgrade", v >> \in climbed
      PROVE  "upgrade" \in ledger /\ Deltas = << >>
  BY <1>7, DeltasPlan DEF BInv, Raised
<1> QED BY <1>3, <1>5, <1>6, <1>7 DEF X

\* Whatever dies when and whatever runs then: where a migration or an upgrade wrote
\* the version, its work is done, but for the skips that VersionMeansDone names
\* (migrate-v0.1-to-v0.2.py:905-1018, migrate-v1.0-to-v1.0.1-partial.py:146-203,
\* init_op.py:1267-1326).
THEOREM VersionsMeanDone == Spec => []VersionMeansDone
  BY AlwaysBInv, DoneFromBInv, PTL

LEMMA ReferencesFromBInv == BInv => ReferencesHold
  BY DEF BInv, Pointing, Linked, ReferencesHold

\* For every graph of references and every set of names that lose a suffix: in between
\* two programs, a reference names the record that it was written for, but for the
\* references that the death of a renaming left behind
\* (migrate-v0.1-to-v0.2.py:779-812).
THEOREM ReferencesAlwaysHold == Spec => []ReferencesHold
  BY AlwaysBInv, ReferencesFromBInv, PTL

LEMMA HonestFromBInv == BInv => InitIsHonest
<1> SUFFICES ASSUME BInv, pc = "idle"
             PROVE  /\ version = "current" /\ ~Scoped =>
                         halfway /\ "bootstrap" \notin files /\ ledger = {} /\ DOMAIN rec = {}
                    /\ version = "current" /\ Scoped /\ << "upgrade", "0.1.0" >> \notin climbed =>
                         /\ Missing(<< "kernel.self", "_kernel", "human" >>) = << >>
                         /\ ("bootstrap" \notin files \/ ~indexed) => halfway
                    /\ << "upgrade", "0.1.0" >> \in climbed => deaths > 0
  BY DEF InitIsHonest, Scoped
<1> DEFINE X == << "kernel.self", "_kernel", "human" >>
<1>1. X \in Seq(Files) /\ Elements(X) = { "kernel.self", "_kernel", "human" }
  BY Lists, ThreeElements DEF Own
<1> HIDE DEF X
<1>2. Missing(X) = << >> <=> { "kernel.self", "_kernel", "human" } \subseteq files
  BY <1>1, MissingElements
<1>3. ASSUME version = "current", Scoped, << "upgrade", "0.1.0" >> \notin climbed
      PROVE  /\ Missing(X) = << >>
             /\ ("bootstrap" \notin files \/ ~indexed) => halfway
  BY <1>2, <1>3 DEF BInv, Whole, IndexLast
<1>4. version = "current" /\ ~Scoped =>
        halfway /\ "bootstrap" \notin files /\ ledger = {} /\ DOMAIN rec = {}
  BY DEF BInv, Whole
<1>5. << "upgrade", "0.1.0" >> \in climbed => deaths > 0
  BY DEF BInv, Whole
<1> QED BY <1>3, <1>4, <1>5 DEF X

\* What kernel.init refuses for ever was cut short and holds nothing, and where it
\* finds nothing to do its own records are there (init_op.py:80-99, 325-328,
\* 1351-1370).
THEOREM InitsAreHonest == Spec => []InitIsHonest
  BY AlwaysBInv, HonestFromBInv, PTL

LEMMA StepLosesNothing == BInv /\ [Next]_vars => ymls \cup files \subseteq ymls' \cup files'
<1> SUFFICES ASSUME BInv, [Next]_vars PROVE ymls \cup files \subseteq ymls' \cup files'
  OBVIOUS
<1>1. CASE Unlink
  <2>1. /\ todo \in Seq(Effects) /\ todo # << >> /\ Head(todo).do = "unlink"
        /\ This \in Pending("unlink")
    BY <1>1, NowFacts DEF Unlink
  <2>2. pc = "structural"
    BY <2>1 DEF BInv, Fits
  <2>3. This \in files
    BY <2>1, <2>2, TailBacked DEF BInv, Configuration, This
  <2> QED BY <1>1, <2>3 DEF Unlink
<1>2. CASE WriteRecord
  BY <1>2 DEF WriteRecord
<1>3. CASE WriteVersion \/ WriteBody \/ Rewrite \/ AppendEvent \/ WriteAll
  BY <1>3 DEF WriteVersion, WriteBody, Rewrite, AppendEvent, WriteAll
<1>4. CASE InitFresh \/ InitUpgrade \/ Migrate02 \/ Migrate101 \/ Return
  BY <1>4 DEF InitFresh, InitUpgrade, Migrate02, Migrate101, Return, Enter, disk
<1>5. CASE Die
  BY <1>5 DEF Die, disk
<1>6. CASE UNCHANGED vars
  BY <1>6 DEF vars, disk
<1> QED BY <1>1, <1>2, <1>3, <1>4, <1>5, <1>6 DEF Next, Run, Write

\* No step of any program, and no death, takes the last form of a piece of
\* configuration from the disk (migrate-v0.1-to-v0.2.py:225-487).
THEOREM NothingIsEverLost == Spec => NothingIsLost
<1>1. BInv /\ [Next]_vars => [ ymls \cup files \subseteq ymls' \cup files' ]_vars
  BY StepLosesNothing
<1> QED BY <1>1, AlwaysBInv, PTL DEF Spec, NothingIsLost
============================================================================
