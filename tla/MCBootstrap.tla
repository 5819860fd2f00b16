----------------------------- MODULE MCBootstrap -----------------------------
(* A small instance of Bootstrap for TLC: repositories of every age, with      *)
(* three records that refer to one another.                                   *)
EXTENDS Bootstrap

MCTypes     == << "policy", "lease" >>
MCResolvers == << "selector" >>
MCUsers     == << 1, 2, 3 >>
MCNames     == { "flow.prism", "flow", "form.prism", "form", "memo" }
MCStripped  == [ n \in { "flow.prism", "form.prism" } |-> IF n = "flow.prism" THEN "flow" ELSE "form" ]

MCConfigs == [ scope |-> << "lab" >>, resolver |-> << >>,
               bridge |-> << "mail", "web" >>, projection |-> << "prism" >> ]

Bodies(b) == [ t \in Elements(MCTypes) |-> b ]
NoRecords == [ u \in {} |-> None ]

Empty == [ version |-> None, files |-> {}, bodies |-> Bodies("none"), ymls |-> {},
           rec |-> NoRecords ]

\* Each record refers to another or to none; which says which of them is
\* expanded, and in which of them somebody has added the new field.
Old(name, deps, means, node, both) ==
  [ id |-> name, deps |-> deps, means |-> means, form |-> IF both THEN "both" ELSE "v01",
    via |-> both, node |-> node, home |-> "none", at |-> IF node THEN "inside" ELSE "flat" ]

Naming == { << "flow.prism", "form.prism", "memo" >>, << "memo", "flow.prism", "form.prism" >> }

V01 ==
  { [ version |-> "0.1.0", files |-> {"bootstrap"}, bodies |-> Bodies("none"),
      ymls |-> { "lab", "mail", "web", "prism" },
      rec |-> [ u \in 1 .. 3 |-> Old(name[u], { name[v] : v \in graph[u] }, graph[u],
                                    u = which[1], u = which[2]) ] ] :
    name \in Naming,
    graph \in { g \in [ 1 .. 3 -> SUBSET (1 .. 3) ] :
                  \A u, v \in 1 .. 3 : v \in g[u] => u # v /\ u \notin g[v] /\ g[u] = {v} },
    which \in { << 0, 0 >>, << 2, 0 >>, << 0, 3 >> } }

\* A v1.0 repository lacks a type; its records lie flat or in a folder.
Later(name, via, home, at) ==
  [ id |-> name, deps |-> {}, means |-> {}, form |-> "v02", via |-> via,
    node |-> FALSE, home |-> home, at |-> at ]

V10 ==
  { [ version |-> "1.0.0", files |-> Elements(Staged) \ { "lease" },
      bodies |-> [ Bodies("old") EXCEPT !["lease"] = "none" ], ymls |-> {},
      rec |-> [ u \in 1 .. 2 |-> IF u = 1 THEN Later("flow", FALSE, home, at)
                                ELSE Later("memo", via, "none", "flat") ] ] :
    via \in BOOLEAN, home \in { "free", "taken", "unclear" }, at \in { "flat", "inside" } }

\* The binary amended a body without changing its version; v0.2 knew one type only.
Amended == [ version |-> "current", files |-> Elements(Staged),
             bodies |-> [ Bodies("new") EXCEPT !["policy"] = "old" ], ymls |-> {},
             rec |-> [ u \in 1 .. 2 |-> Later(IF u = 1 THEN "flow" ELSE "memo", FALSE, "free", "flat") ] ]

V02 == [ version |-> "0.2.0", files |-> Elements(Staged) \ { "lease" },
         bodies |-> [ Bodies("old") EXCEPT !["lease"] = "none" ], ymls |-> {},
         rec |-> NoRecords ]

MCRepositories == { Empty, Amended, V02 } \cup V01 \cup V10
=============================================================================
