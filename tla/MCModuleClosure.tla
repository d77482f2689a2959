-------------------------- MODULE MCModuleClosure --------------------------
(* Lock graphs for TLC: an app over two direct modules, a common dependency *)
(* pinned twice, and a pair of names whose pins depend on each other.       *)
EXTENDS ModuleClosure, TLC

MCNames == {"a", "b", "c"}
MCNameRank == "a" :> 1 @@ "b" :> 2 @@ "c" :> 3
MCFlakes == {"app", "a2", "b1", "a1", "c1", "c2"}

Module(inputs, deps) ==
    [builder |-> "current", kind |-> "core", contract |-> TRUE,
     base |-> deps, resolved |-> deps, keyed |-> FALSE,
     optional |-> {}, overrides |-> {}, target |-> TRUE, outputs |-> {},
     bundler |-> TRUE, package |-> {}, inputs |-> inputs]

\* A native target, and the one whose packages have no variant that is looked for
MCSystems == {"x86_64-linux", "x86_64-windows"}

\* The ways a flake departs from a module of the current builder.
Variants(m) ==
    {m,
     [m EXCEPT !.keyed = TRUE, !.base = {}],
     [m EXCEPT !.keyed = TRUE, !.target = FALSE],
     [m EXCEPT !.target = FALSE],
     [m EXCEPT !.builder = "older", !.outputs = {"lib"}],
     [m EXCEPT !.kind = "qml_only"]}

Leaves ==
    LET m == Module(<<>>, {})
        foreign(pub) == [m EXCEPT !.builder = "foreign", !.outputs = pub]
        bare(package) == [m EXCEPT !.builder = "bare", !.package = package]
    IN  {m, [m EXCEPT !.contract = FALSE], [m EXCEPT !.bundler = FALSE],
         foreign({"default"}), foreign({}), foreign({"lgx"}),
         [foreign({"lgx"}) EXCEPT !.package = {"file", "variant", "name"}],
         bare({}), bare({"file", "variant"}), bare({"file", "variant", "name"})}

Apps ==
    LET m(deps, inputs) == Module(inputs, deps)
        ab == "a" :> "a2" @@ "b" :> "b1"
        m1 == m({"a", "b"}, ab)
    IN  {m1, m({"b"}, ab), m({"a", "c"}, ab @@ "c" :> "c2"), m({"a", "c"}, ab),
         [m({"a"}, ab) EXCEPT !.optional = {"b"}],
         [m({"a", "c"}, ab) EXCEPT !.overrides = {"c"}],
         [m1 EXCEPT !.keyed = TRUE, !.base = {"a"}],
         [m({"a", "c"}, ab @@ "c" :> "c1") EXCEPT !.bundler = FALSE],
         [m1 EXCEPT !.kind = "qml_only", !.resolved = {"a", "c"}, !.base = {"a", "c"}]}

A2 == UNION {Variants(Module("b" :> "b1" @@ "c" :> "c1", deps)) :
             deps \in {{"b"}, {"b", "c"}, {}}}
B1 == UNION {Variants(Module("a" :> "a1" @@ "c" :> "c2", deps)) :
             deps \in {{"a"}, {"c"}, {"a", "c"}}}

Graph(app, a, b, c) ==
    "app" :> app @@ "a2" :> a @@ "b1" :> b @@ "a1" :> Module(<<>>, {}) @@
    "c1" :> c @@ "c2" :> Module(<<>>, {})

MCLocks == {Graph(app, a, b, c) : app \in Apps, a \in A2, b \in B1, c \in Leaves}

\* Apps of ui_qml modules, with and without a platform-keyed dependency
MCQmlLocks ==
    {Graph([app EXCEPT !.kind = "ui_qml"], a, b, Module(<<>>, {})) :
        app \in Apps, a \in A2, b \in B1}
=============================================================================
