------------------------------ MODULE Bootstrap ------------------------------
(***************************************************************************)
(* How a repository comes into being and grows older with the kernel:       *)
(* kernel.init, fresh or as an upgrade (src/src/eightos/sdk/init_op.py),    *)
(* and the two migration scripts (src/scripts/).                            *)
(*                                                                         *)
(* Each program reads .8os/version, decides phase by phase from what is on  *)
(* disk what is left to write, and writes it one file after another.  The   *)
(* process may die between any two files; what it remembered is gone and    *)
(* people run it, or another program, again.                                *)
(***************************************************************************)
EXTENDS Naturals, Sequences

CONSTANTS
  Types,        \* vendored projection types, in the order of _VENDORED_PROJECTIONS
  Resolvers,    \* kernel-internal resolvers, in order
  Configs,      \* v0.1 configuration files by kind, in the order of their paths
  Users,        \* records of people, in the order of their paths
  Names,        \* ids of these records
  Stripped,     \* what an id that ends in a suffix becomes: a partial function
  Suffixing,    \* the configured projection that declares the suffix
  Repositories, \* the repositories that there are at first
  MaxDeaths,    \* bound: how often a process dies
  None

Kinds    == { "scope", "resolver", "bridge", "projection" }
Versions == { "0.1.0", "0.2.0", "1.0.0", "current" }
Elements(s) == { s[i] : i \in DOMAIN s }

\* What kernel.init commits in one batch, in its order: "human" and "scope" are
\* the bridge of the operator and the scope of the people.
ScopeFirst ==                                          \* mutant of Staged
  << "scope", "kernel.self", "_kernel" >> \o Types \o Resolvers \o << "human", "bootstrap" >>

Staged ==
  << "kernel.self", "_kernel" >> \o Types \o Resolvers \o << "human", "scope", "bootstrap" >>

\* The kernel's own records apart from types and resolvers.
Own == { "kernel.self", "_kernel", "human", "scope", "bootstrap" }

Configured == UNION { Elements(Configs[k]) : k \in Kinds }

Files == Elements(Staged) \cup Configured

\* What makes a directory a repository of people: any scope but the kernel's own.
UserScopes == { "scope" } \cup Elements(Configs["scope"])

\* A file that can be parsed.  means is history: the records that deps named when
\* it was written.  With form "both", a field of v0.1 stands beside the one that
\* replaced it and says something else.
User == [ id : Names, deps : SUBSET Names, means : SUBSET Elements(Users),
          form  : { "v01", "both", "v02" },       \* of its frontmatter
          via   : BOOLEAN,                 \* says how it was authored
          node  : BOOLEAN,                 \* its file is _node.md
          \* the place that its types have for it in a directory of their own: there
          \* is one, another file of its name lies there, or the types disagree
          home  : { "none", "free", "taken", "unclear" },
          at    : { "flat", "home", "inside" } ]

IsRepository(r) ==
  /\ r.version \in Versions \cup {None}
  /\ r.files \subseteq Files /\ r.ymls \subseteq Configured
  /\ r.bodies \in [ Elements(Types) -> { "none", "old", "new" } ]
  /\ DOMAIN r.rec \subseteq Elements(Users)
  /\ \A u \in DOMAIN r.rec : r.rec[u] \in User

\* What the kernel of each version left behind, all its operations ended: nothing
\* before the first init; the bootstrap record ever since; configuration only in files
\* of its own at v0.1; the kernel's records from v0.2 on; bodies without the field
\* target_subdirectory at v1.0.  Ids are unique, and references hold.
IsComplete(r) ==
  /\ r.version = None => r.files = {} /\ r.ymls = {} /\ DOMAIN r.rec = {}
  /\ r.version # None => "bootstrap" \in r.files
  /\ r.version = "0.1.0" => UserScopes \cap r.files = {} /\ r.ymls \cap r.files = {}
  /\ r.version \in { "0.2.0", "1.0.0", "current" } =>
       Own \ {"scope"} \subseteq r.files /\ UserScopes \cap r.files # {}
  /\ r.version = "1.0.0" => \E t \in Elements(Types) : r.bodies[t] # "new"
  /\ \A u, v \in DOMAIN r.rec : r.rec[u].id = r.rec[v].id => u = v
  /\ \A u \in DOMAIN r.rec :
       /\ r.rec[u].means \subseteq DOMAIN r.rec
       /\ r.rec[u].deps = { r.rec[v].id : v \in r.rec[u].means }

\* Vendored ids begin with "kernel." or "_kernel."; no other id does.  The records
\* of scopes have a directory of their own.
ASSUME FileAssumption ==
  /\ Types \in Seq(Elements(Types)) /\ Resolvers \in Seq(Elements(Resolvers))
  /\ Users \in Seq(Elements(Users)) /\ \A k \in Kinds : Configs[k] \in Seq(Elements(Configs[k]))
  /\ Elements(Types \o Resolvers) \cap (Own \cup Configured) = {}
  /\ Elements(Configs["scope"]) \cap Own \subseteq { "scope" }
  /\ None \notin Versions
ASSUME NameAssumption ==
  DOMAIN Stripped \subseteq Names /\ \A n \in DOMAIN Stripped : Stripped[n] \in Names \ DOMAIN Stripped
ASSUME RepositoryAssumption == \A r \in Repositories : IsRepository(r) /\ IsComplete(r)
ASSUME BoundAssumption == MaxDeaths \in Nat

VARIABLES
  version,   \* .8os/version, or None
  files,     \* the records of the kernel on disk
  bodies,    \* .8os/projections/_kernel/, by type
  ymls,      \* v0.1 configuration files that are still on disk
  rec,       \* the records of people
  ledger,    \* the kinds of events on the ledger
  indexed,   \* the indexes know every record
  pc,        \* the phase under way
  todo,      \* the files it has still to write, in order
  worked,    \* the migration has changed something
  deaths,    \* history: how many processes died
  halfway,   \* history: kernel.init died under the version that it aims at
  torn,      \* history: records whose references a dying process left behind
  left,      \* history: files it left behind
  climbed    \* history: which program wrote the version, and on which version

disk    == << version, files, bodies, ymls, rec, ledger, indexed >>
process == << pc, todo, worked >>
history == << deaths, halfway, torn, left, climbed >>
vars    == << disk, process, history >>

Init ==
  /\ \E r \in Repositories :
       /\ version = r.version /\ files = r.files /\ bodies = r.bodies
       /\ ymls = r.ymls /\ rec = r.rec
  /\ ledger = {} /\ indexed = TRUE
  /\ pc = "idle" /\ todo = << >> /\ worked = FALSE
  /\ deaths = 0 /\ halfway = FALSE /\ torn = {} /\ left = {} /\ climbed = {}

-----------------------------------------------------------------------------
(***************************************************************************)
(* What the phases leave to be written                                     *)
(***************************************************************************)
\* One file after another of the sequence s.
Each(do, s) == [ i \in DOMAIN s |-> [ do |-> do, of |-> s[i] ] ]

Log(kind) == Each("event", << kind >>)
Index     == Each("index", << None >>)
Raise(v)  == Each("version", << v >>)

\* The elements of s that are in S, in their order.
Selected(s, S) ==
  LET upTo[n \in 0 .. Len(s)] ==
        IF n = 0 THEN << >>
        ELSE upTo[n - 1] \o (IF s[n] \in S THEN << s[n] >> ELSE << >>)
  IN  upTo[Len(s)]

Missing(s) == Selected(s, Files \ files)
Outdated   == Selected(Types, { t \in Elements(Types) : bodies[t] # "new" })

\* The records that differ in new, rewritten in the order of their paths.
Rewrites(new) ==
  LET changed == Selected(Users, { u \in DOMAIN rec : new[u] # rec[u] })
  IN  Each("rewrite", [ i \in DOMAIN changed |-> << changed[i], new[changed[i]] >> ])

\* kernel.init on an empty directory.  The skeleton, version file included, comes
\* first.
Birth ==
  Raise("current") \o Each("body", Types) \o Each("record", Staged) \o Log("init") \o Index

\* kernel.init on a repository: types and resolvers that it lacks, bodies that
\* differ from those of the binary.
Deltas == Each("body", Outdated) \o Each("record", Missing(Types \o Resolvers))

Upgrade ==
  Deltas \o Log("upgrade") \o Index \o (IF version = "current" THEN << >> ELSE Raise("current"))

\* v0.1 to v0.2, phase 1: configuration files of one kind become records in a
\* batch, and if there was a batch the files are removed.
UnlinkedFirst(k) ==                                    \* mutant of Converted
  LET found == Selected(Configs[k], ymls)
  IN  Each("unlink", found) \o Each("record", Missing(found))

Converted(k) ==
  LET found == Selected(Configs[k], ymls)
  IN  IF Missing(found) = << >> THEN << >>
      ELSE Each("record", Missing(found)) \o Each("unlink", found)

Structural ==
  Converted("scope") \o Converted("resolver") \o Converted("bridge") \o Converted("projection")

\* Phase 2: the content of the running kernel, whatever version is aimed at.
Vendored ==
  Each("body", Types)
    \o Each("record", Missing(<< "_kernel" >> \o Types \o Resolvers \o << "kernel.self", "human" >>))

\* Phase 3 passes over every file whose name begins with an underscore, and leaves
\* a field alone, with a warning, whose place is taken by another value.
Stays(r) == r.node \/ r.form # "v01"

Frontmatter ==
  Rewrites([ u \in DOMAIN rec |->
               IF Stays(rec[u]) THEN rec[u] ELSE [ rec[u] EXCEPT !.form = "v02", !.via = TRUE ] ])

\* Ids lose the suffix that has become a part of the file name, and references,
\* those between records, follow the ids that were seen to change in this run.
Renamed ==
  IF Suffixing \notin files THEN {}
  ELSE { rec[u].id : u \in { v \in DOMAIN rec : ~rec[v].node } } \cap DOMAIN Stripped

NewName(n) == IF n \in Renamed THEN Stripped[n] ELSE n

IdOrReferences(r) ==                                   \* mutant of Relinked
  IF r.id \in Renamed THEN [ r EXCEPT !.id = NewName(@) ]
  ELSE [ r EXCEPT !.deps = { NewName(d) : d \in @ } ]

Relinked(r) == [ r EXCEPT !.id = NewName(@), !.deps = { NewName(d) : d \in @ } ]

References ==
  Rewrites([ u \in DOMAIN rec |-> IF rec[u].node THEN rec[u] ELSE Relinked(rec[u]) ])

\* v1.0 to v1.0.1: records move to the directory of their types, and all of them
\* say how they were authored.  What lies in the folder of an expanded record, or
\* has a file in its way, or types that disagree, stays with a warning.
Moves(r) == r.home = "free" /\ r.at = "flat"

Relocated ==
  Rewrites([ u \in DOMAIN rec |-> IF Moves(rec[u]) THEN [ rec[u] EXCEPT !.at = "home" ] ELSE rec[u] ])

Backfilled == Rewrites([ u \in DOMAIN rec |-> [ rec[u] EXCEPT !.via = TRUE ] ])

\* The version is written last: it is what a second run goes by.
VersionFirst(logs, v) == Raise(v) \o logs \o Index     \* mutant of Finalized

Finalized(logs, v) == logs \o Index \o Raise(v)

\* v1.0 to v1.0.1 logs nothing if this run of it found nothing to do.
NothingUnlessWorked ==                                 \* mutant of Finalized101
  IF worked THEN Finalized(Log("migration-1.0.1"), "current") ELSE Index

Finalized101 == Finalized(IF worked THEN Log("migration-1.0.1") ELSE << >>, "current")

-----------------------------------------------------------------------------
(***************************************************************************)
(* The programs                                                            *)
(***************************************************************************)
Enter(from, to, effects) ==
  /\ pc = from /\ todo = << >>
  /\ pc' = to /\ todo' = effects
  /\ worked' = (from # "idle" /\ worked)
  /\ UNCHANGED << disk, history >>

InitFresh == version = None /\ Enter("idle", "fresh", Birth)

\* An error without a scope of the people, and nothing without deltas.
InitUpgrade ==
  /\ version # None
  /\ UserScopes \cap files # {}
  /\ version # "current" \/ Deltas # << >>
  /\ Enter("idle", "upgrade", Upgrade)

\* Refused on any version but its source.
Migrate02 ==
  \/ version = "0.1.0" /\ Enter("idle", "structural", Structural)
  \/ Enter("structural", "vendored", Vendored)
  \/ Enter("vendored", "frontmatter", Frontmatter)
  \/ Enter("frontmatter", "references", References)
  \/ Enter("references", "finalize", Finalized(Log("migration-0.2"), "0.2.0"))

Migrate101 ==
  \/ version = "1.0.0" /\ Enter("idle", "bodies", Each("body", Outdated))
  \/ Enter("bodies", "relocate", Relocated)
  \/ Enter("relocate", "backfill", Backfilled)
  \/ Enter("backfill", "finalize", Finalized101)

Return ==
  /\ pc \in { "fresh", "upgrade", "finalize" }
  /\ Enter(pc, "idle", << >>)

-----------------------------------------------------------------------------
(***************************************************************************)
(* Writing one file                                                        *)
(***************************************************************************)
Now(do) ==
  /\ todo # << >> /\ Head(todo).do = do
  /\ todo' = Tail(todo)
  /\ UNCHANGED << pc, deaths, halfway, torn, left >>

This == Head(todo).of

WriteVersion ==
  /\ Now("version")
  /\ version' = This
  /\ climbed' = climbed \cup { << pc, version >> }
  /\ UNCHANGED << files, bodies, ymls, rec, ledger, indexed, worked >>

WriteBody ==
  /\ Now("body")
  /\ bodies' = [ bodies EXCEPT ![This] = "new" ]
  /\ worked' = TRUE
  /\ UNCHANGED << version, files, ymls, rec, ledger, indexed, climbed >>

WriteRecord ==
  /\ Now("record")
  /\ files' = files \cup { This }
  /\ indexed' = FALSE
  /\ UNCHANGED << version, bodies, ymls, rec, ledger, worked, climbed >>

Unlink ==
  /\ Now("unlink")
  /\ ymls' = ymls \ { This }
  /\ UNCHANGED << version, files, bodies, rec, ledger, indexed, worked, climbed >>

Rewrite ==
  /\ Now("rewrite")
  /\ rec' = [ rec EXCEPT ![This[1]] = This[2] ]
  /\ indexed' = FALSE
  /\ worked' = TRUE
  /\ UNCHANGED << version, files, bodies, ymls, ledger, climbed >>

AppendEvent ==
  /\ Now("event")
  /\ ledger' = ledger \cup { This }
  /\ UNCHANGED << version, files, bodies, ymls, rec, indexed, worked, climbed >>

WriteAll ==
  /\ Now("index")
  /\ indexed' = TRUE
  /\ UNCHANGED << version, files, bodies, ymls, rec, ledger, worked, climbed >>

Write == WriteVersion \/ WriteBody \/ WriteRecord \/ Unlink \/ Rewrite \/ AppendEvent \/ WriteAll

\* The process dies, or an error it does not catch ends it.
Pending(do) == { e.of : e \in { f \in Elements(todo) : f.do = do } }

Die ==
  /\ pc # "idle" /\ deaths < MaxDeaths
  /\ deaths' = deaths + 1
  /\ halfway' = (halfway \/ (pc \in { "fresh", "upgrade" } /\ version = "current"))
  /\ torn' = IF pc = "references" THEN torn \cup { p[1] : p \in Pending("rewrite") } ELSE torn
  /\ left' = left \cup Pending("unlink")
  /\ pc' = "idle" /\ todo' = << >> /\ worked' = FALSE
  /\ UNCHANGED << disk, climbed >>

Run  == Migrate02 \/ Migrate101 \/ Return \/ Write
Next == InitFresh \/ InitUpgrade \/ Run \/ Die

Spec == Init /\ [][Next]_vars

\* Who has begun a migration runs it again until it is through.
FairSpec == Spec /\ WF_vars(Run)

-----------------------------------------------------------------------------
(***************************************************************************)
(* Properties                                                              *)
(***************************************************************************)
TypeOK ==
  /\ version \in Versions \cup {None}
  /\ files \subseteq Files /\ ymls \subseteq Configured /\ left \subseteq Configured
  /\ bodies \in [ Elements(Types) -> { "none", "old", "new" } ]
  /\ DOMAIN rec \subseteq Elements(Users) /\ \A u \in DOMAIN rec : rec[u] \in User
  /\ ledger \subseteq { "init", "upgrade", "migration-0.2", "migration-1.0.1" }
  /\ indexed \in BOOLEAN /\ worked \in BOOLEAN /\ halfway \in BOOLEAN
  /\ deaths \in 0 .. MaxDeaths
  /\ torn \subseteq Elements(Users)
  /\ climbed \subseteq { "fresh", "upgrade", "finalize" } \X (Versions \cup {None})

\* Whatever dies when, a piece of configuration is on disk in the old form or in
\* the new one: a file is removed after the batch that converts it, never before
\* (migrate-v0.1-to-v0.2.py:225-487).
NothingIsLost == [][ ymls \cup files \subseteq ymls' \cup files' ]_vars

\* A version can be trusted where a migration or an upgrade wrote it, however
\* often they died before: their work is done, indexed and, unless a process died,
\* logged.  What can be missing is this.  Configuration that a dying process had
\* converted is never removed; records in _node.md files keep their old form, and
\* so do those in which the new field says something else; records whose types
\* disagree about their directory, or that another file keeps out of it, stay where
\* they are, as does what lies in the folder of an expanded record; and what
\* kernel.init raised from an older version no migration looks at again
\* (migrate-v0.1-to-v0.2.py:732-737, 905-1018,
\* migrate-v1.0-to-v1.0.1-partial.py:146-203, init_op.py:1267-1326).
VersionMeansDone ==
  pc = "idle" =>
    /\ version = "0.2.0" /\ << "finalize", "0.1.0" >> \in climbed =>
         /\ "migration-0.2" \in ledger /\ indexed
         /\ Missing(Types \o Resolvers \o << "_kernel", "kernel.self", "human" >>) = << >>
         /\ Outdated = << >>
         /\ ymls \subseteq left \cap files
         /\ \A u \in DOMAIN rec : rec[u].form = "v01" => rec[u].node
    /\ version = "current" /\ << "finalize", "1.0.0" >> \in climbed =>
         /\ "migration-1.0.1" \in ledger \/ deaths > 0
         /\ indexed \/ halfway
         /\ Outdated = << >>
         /\ \A u \in DOMAIN rec : rec[u].via /\ ~Moves(rec[u])
    /\ version = "current" /\ (\E v \in Versions : << "upgrade", v >> \in climbed) =>
         "upgrade" \in ledger /\ (indexed \/ halfway) /\ Deltas = << >>

\* A reference names, under its present id, the record it was written for.  The
\* rewriting of ids and references is not atomic and the second run does not know
\* what the first had renamed: the records that a dying process did not get to are
\* excepted, those that it got to before what they refer to until the next run is
\* through, and those in _node.md files, which are passed over
\* (migrate-v0.1-to-v0.2.py:779-812).
ReferencesHold ==
  pc = "idle" =>
    \A u \in DOMAIN rec :
       \/ rec[u].deps = { rec[v].id : v \in rec[u].means }
       \/ rec[u].node \/ u \in torn
       \/ version # "0.2.0" /\ torn \cap rec[u].means # {}

\* kernel.init writes the version before all else and takes it as the sign of a
\* repository afterwards.  What it then refuses for ever, as there is no scope, was
\* cut short by a death and holds nothing; what it accepts, and perhaps finds
\* nothing to do in, has all that it never looks at again but for the last record,
\* the event and the indexes.  A v0.1 repository gets by only if a migration died
\* in it (init_op.py:80-99, 325-328, 1351-1370).
InitIsHonest ==
  pc = "idle" =>
    /\ (version = "current" /\ UserScopes \cap files = {}) =>
         halfway /\ "bootstrap" \notin files /\ ledger = {} /\ DOMAIN rec = {}
    /\ (version = "current" /\ UserScopes \cap files # {} /\ << "upgrade", "0.1.0" >> \notin climbed) =>
         /\ Missing(<< "kernel.self", "_kernel", "human" >>) = << >>
         /\ ("bootstrap" \notin files \/ ~indexed) => halfway
    /\ << "upgrade", "0.1.0" >> \in climbed => deaths > 0

\* No death, and no half of a migration, keeps a repository at an old version
\* that a migration starts from.
EventuallyMigrated ==
  \A v \in { "0.1.0", "1.0.0" } : version = v ~> version # v
=============================================================================
