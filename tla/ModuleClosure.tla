--------------------------- MODULE ModuleClosure ---------------------------
(***************************************************************************)
(* The dependency closure of a module's standalone app: the walk of        *)
(* collectAllModuleDeps over the flake inputs (lib/common.nix), the        *)
(* refusals of classifyConcreteDeps in the plugins the app bundles, and    *)
(* the installation of the collected modules (lib/mkStandaloneApp.nix).    *)
(*                                                                         *)
(* `lock` is the lock graph of the app's flake, for the target `system`: a *)
(* name stands for a different pin in every flake that has it as an input. *)
(* The recursion of the walk is a stack of frames.                         *)
(***************************************************************************)
EXTENDS Naturals, FiniteSets, Sequences

CONSTANTS Names,      \* module names, which are also the input names
          NameRank,   \* the place of a name in the order of attrNames
          Flakes,     \* the nodes of a lock graph
          App,        \* the flake whose app is built
          Locks,      \* the lock graphs, functions on Flakes
          Systems,    \* the target systems apps are built for
          MaxDepth    \* bound on the depth of the recursion

VARIABLES system,     \* the target and
          lock,       \* the graph for it, both fixed at the start
          stage,
          stack,      \* the calls of collectAllModuleDeps under way
          closure,    \* its result: name |-> flake
          installed   \* the names in the app's modules directory

vars == <<system, lock, stage, stack, closure, installed>>

Entries == UNION {[S -> Flakes] : S \in SUBSET Names}

(* A flake: who built it, for what.  "current" is this builder, "older" one *)
(* without configFor, "foreign" a flake with packages and no config, and    *)
(* "bare" a derivation.  `outputs` is what older and foreign flakes publish *)
(* for the target, `package` what a derivation that nix-bundle-lgx did not  *)
(* make holds: an .lgx file, in it a variant the app builder knows, and a   *)
(* name.  `contract` says that a core module's interface is one with a      *)
(* LIDL, `bundler` that the nix-bundle-lgx of the flake's builder has a     *)
(* bundler for the target.                                                  *)
FlakeType ==
    [builder : {"current", "older", "foreign", "bare"},
     kind : {"core", "ui_qml", "qml_only"}, contract : BOOLEAN,
     base : SUBSET Names, resolved : SUBSET Names, keyed : BOOLEAN,
     optional : SUBSET Names, overrides : SUBSET Names,
     target : BOOLEAN, outputs : SUBSET {"lgx", "lib", "default", "lidl"},
     bundler : BOOLEAN, package : SUBSET {"file", "variant", "name"},
     inputs : Entries]

\* The targets among which mkStandaloneApp looks for a variant, and all targets.
variants == {"aarch64-darwin", "x86_64-darwin", "aarch64-linux", "x86_64-linux"}
systems == variants \cup {"x86_64-windows"}

ASSUME LocksAssumption ==
    /\ App \in Flakes /\ Locks \subseteq [Flakes -> FlakeType]
    /\ MaxDepth \in Nat \ {0} /\ Systems \subseteq systems

\* The app is built by this builder, and dependencies that no overlay touches
\* are the same on every platform.
ASSUME BuilderAssumption ==
    \A l \in Locks :
        /\ l[App].builder = "current"
        /\ \A f \in Flakes : l[f].builder \in {"current", "older"} /\ ~l[f].keyed =>
                               l[f].base = l[f].resolved

\* attrNames sorts: of any set of names one comes first.
ASSUME RankAssumption ==
    \A S \in SUBSET Names : S # {} =>
        \E n \in S : \A m \in S : NameRank[n] <= NameRank[m]

-----------------------------------------------------------------------------
(* What a flake answers for the target.                                    *)

\* packages.<system>: a QML-only module has no lib, and only a core module of
\* an interface that has one publishes a contract.
outputs(f) ==
    IF lock[f].builder # "current" THEN lock[f].outputs
    ELSE IF ~lock[f].target THEN {}
    ELSE {"lgx", "default"}
           \cup (IF lock[f].kind = "qml_only" THEN {} ELSE {"lib"})
           \cup (IF lock[f].kind = "core" /\ lock[f].contract THEN {"lidl"} ELSE {})

\* The `dependencies` of `config` are poisoned when an overlay touches them.
config(f) ==
    IF lock[f].keyed THEN [throws |-> TRUE, names |-> {}]
    ELSE [throws |-> FALSE, names |-> lock[f].base]

configFor(f) == [throws |-> FALSE, names |-> lock[f].resolved]

\* mutant: the agnostic config, with the base value instead of the poison
tdeps_base(f) == [throws |-> FALSE, names |-> lock[f].base]

tdeps(f) ==
    IF lock[f].builder = "current" /\ lock[f].target THEN configFor(f)
    ELSE IF lock[f].builder \in {"current", "older"} THEN config(f)
    ELSE [throws |-> FALSE, names |-> {}]

\* filterAttrs: a name without an input drops out
depInputs(f, names) ==
    [n \in names \cap DOMAIN lock[f].inputs |-> lock[f].inputs[n]]

\* The next of the names the fold has left: attrNames sorts them.
NextName(names) ==
    CHOOSE n \in names : \A m \in names : NameRank[n] <= NameRank[m]

\* f // g: the right operand wins
Update(f, g) ==
    [n \in DOMAIN f \cup DOMAIN g |-> IF n \in DOMAIN g THEN g[n] ELSE f[n]]

\* mutant: no refusal of a flake whose packages are for other systems
Unusable_falls(f) == FALSE

\* The bundler that would make f's package has none for the target: its own
\* builder's for a published lgx, the app's for a lib or a default.
NoBundler(f) ==
    IF "lgx" \in outputs(f)
    THEN lock[f].builder \in {"current", "older"} /\ ~lock[f].bundler
    ELSE ~lock[App].bundler

\* The throws of `direct`: packages, but none of lgx, lib and default here, or
\* nothing to bundle them with.
Unusable(f) ==
    /\ lock[f].builder # "bare"
    /\ outputs(f) \cap {"lgx", "lib", "default"} = {} \/ NoBundler(f)

depIsLidl(f, n) ==
    \/ n \in lock[f].overrides
    \/ n \in DOMAIN lock[f].inputs /\ "lidl" \in outputs(lock[f].inputs[n])

\* mutant: only the optional dependencies are asked for their contract
classifyConcreteDeps_optional(f) ==
    /\ lock[f].builder = "current" /\ lock[f].kind # "qml_only"
    /\ \E n \in lock[f].optional : ~depIsLidl(f, n)

\* The plugin build of f throws.  A QML-only module builds no plugin.
classifyConcreteDeps(f) ==
    /\ lock[f].builder = "current" /\ lock[f].kind # "qml_only"
    /\ \E n \in lock[f].resolved \cup lock[f].optional : ~depIsLidl(f, n)

\* nix-bundle-lgx made the derivation of the entry, here or where it is published.
Bundled(f) ==
    /\ lock[f].builder # "bare" /\ outputs(f) \cap {"lgx", "lib", "default"} # {}
    /\ "lgx" \in outputs(f) => lock[f].builder \in {"current", "older"}

\* What the derivation holds.  A bundle is named after the metadata.json and
\* has the variant of its target, which the app builder may not look for; the
\* input itself, which only a bare derivation should be, is what it is.
Package(f) ==
    IF Bundled(f)
    THEN {"file", "name"} \cup (IF system \in variants THEN {"variant"} ELSE {})
    ELSE IF lock[f].builder = "bare" \/ "lgx" \in outputs(f) THEN lock[f].package
    ELSE {}

\* An entry is installed, or skipped with one of three warnings: no .lgx file,
\* no variant, no name.
Installable(f) == Package(f) = {"file", "variant", "name"}

-----------------------------------------------------------------------------
NoEntries == [n \in {} |-> App]

\* mutant: the fold runs over every name, with or without an input
Frame_unfiltered(inputs) ==
    [direct |-> inputs, todo |-> Names, acc |-> NoEntries]

Frame(inputs) == [direct |-> inputs, todo |-> DOMAIN inputs, acc |-> NoEntries]

Init ==
    /\ system \in Systems
    /\ lock \in Locks
    /\ stage = "walk"
    /\ stack = <<Frame(depInputs(App, lock[App].resolved))>>
    /\ closure = NoEntries
    /\ installed = {}

top == stack[Len(stack)]
SetTop(frame) == [stack EXCEPT ![Len(stack)] = frame]
Folding(frame) == NextName(frame.todo)
CurrentOf(frame) == frame.direct[Folding(frame)]
Folded(frame) == [frame EXCEPT !.todo = @ \ {Folding(frame)}]
Current == CurrentOf(top)

\* One step of the fold that reads no further: no dependencies, or a throw.
Fold ==
    /\ stage = "walk" /\ top.todo # {}
    /\ LET deps == tdeps(Current)
       IN  \/ /\ deps.throws
              /\ stage' = "refused"
              /\ UNCHANGED stack
           \/ /\ ~deps.throws /\ deps.names = {}
              /\ stack' = SetTop(Folded(top))
              /\ UNCHANGED stage
    /\ UNCHANGED <<system, lock, closure, installed>>

\* mutant: the inputs of the app are searched at every level
Callee_appInputs(f) == Frame(depInputs(App, tdeps(f).names))

\* The recursive call's frame: the dependency's own inputs.
Callee(f) == Frame(depInputs(f, tdeps(f).names))

Descend ==
    /\ stage = "walk" /\ top.todo # {}
    /\ Len(stack) < MaxDepth
    /\ ~tdeps(Current).throws /\ tdeps(Current).names # {}
    /\ stack' = Append(stack, Callee(Current))
    /\ UNCHANGED <<system, lock, stage, closure, installed>>

\* mutant: a transitive pin overrides a direct one
result_transitive(frame) == Update(frame.direct, frame.acc)

result(frame) == Update(frame.acc, frame.direct)

\* A call returns transitive // direct, which its caller folds in.
Return ==
    /\ stage = "walk" /\ top.todo = {}
    /\ IF Len(stack) = 1
       THEN /\ closure' = result(top)
            /\ stage' = "evaluate"
            /\ stack' = <<>>
       ELSE LET caller == stack[Len(stack) - 1]
            IN  /\ stack' = Append(SubSeq(stack, 1, Len(stack) - 2),
                                   [Folded(caller) EXCEPT
                                        !.acc = Update(@, result(top))])
                /\ UNCHANGED <<closure, stage>>
    /\ UNCHANGED <<system, lock, installed>>

\* The app forces its own plugin and the entry of every collected name; an
\* entry that lost to another pin of its name is never forced.
Evaluate ==
    /\ stage = "evaluate"
    /\ stage' = IF \/ classifyConcreteDeps(App)
                   \/ \E n \in DOMAIN closure :
                        Unusable(closure[n]) \/ classifyConcreteDeps(closure[n])
                THEN "refused" ELSE "assemble"
    /\ UNCHANGED <<system, lock, stack, closure, installed>>

\* mkStandaloneApp's modulesDir
Assemble ==
    /\ stage = "assemble"
    /\ installed' = {n \in DOMAIN closure : Installable(closure[n])}
    /\ stage' = "built"
    /\ UNCHANGED <<system, lock, stack, closure>>

Next == Fold \/ Descend \/ Return \/ Evaluate \/ Assemble

Spec == Init /\ [][Next]_vars /\ WF_vars(Next)

\* The `dependencies` of the metadata.json in the app's plugin directory:
\* mkLogosModule copies the resolved document, mkLogosQmlModule the source.
shippedDependencies ==
    IF lock[App].kind = "core" THEN lock[App].resolved ELSE lock[App].base

-----------------------------------------------------------------------------
(* Properties.                                                             *)

FrameType == [direct : Entries, todo : SUBSET Names, acc : Entries]

\* Every frame has only names of its own left to fold, a flake stands behind
\* every name it collected, and the stack is there exactly during the walk.
TypeOK ==
    /\ stage \in {"walk", "refused", "evaluate", "assemble", "built"}
    /\ stack \in Seq(FrameType)
    /\ \A i \in DOMAIN stack : stack[i].todo \subseteq DOMAIN stack[i].direct
    /\ stage = "walk" => stack # <<>>
    /\ \A i \in 1..Len(stack) - 1 : stack[i].todo # {}
    /\ closure \in Entries
    /\ installed \subseteq DOMAIN closure

\* What a module's author requires on the target, whatever is published.
Required(f) ==
    IF lock[f].builder \in {"foreign", "bare"} THEN {} ELSE lock[f].resolved

Pins(f) == {<<n, lock[f].inputs[n]>> : n \in Required(f) \cap DOMAIN lock[f].inputs}

\* The pins at most d levels below the app.
Reach ==
    LET R[d \in 0..MaxDepth] ==
            IF d = 0 THEN Pins(App)
            ELSE R[d - 1] \cup UNION {Pins(pin[2]) : pin \in R[d - 1]}
    IN  R[MaxDepth]

\* The walk collects a pin for every name reachable through the requirements
\* OF THE TARGET, and nothing else: no optional dependency, no dependency of
\* another platform, no input of the wrong flake.
BundleIsTheClosure ==
    stage \in {"evaluate", "assemble", "built"} =>
        /\ DOMAIN closure = {pin[1] : pin \in Reach}
        /\ \A n \in DOMAIN closure : <<n, closure[n]>> \in Reach

\* Whatever pins its dependencies bring, a dependency the app pins itself is
\* bundled at the app's pin.
DirectDependencyWins ==
    stage \in {"evaluate", "assemble", "built"} =>
        \A pin \in Pins(App) : closure[pin[1]] = pin[2]

\* An app that builds has collected all that its plugin and the C++ modules in
\* it require, although the walk drops a name without an input in silence: only
\* a dependency_overrides entry gets such a name past the classification.
NothingRequiredMissing ==
    stage = "built" =>
        \A f \in {App} \cup {closure[n] : n \in DOMAIN closure} :
            lock[f].builder = "current" /\ lock[f].kind # "qml_only" =>
                Required(f) \ lock[f].overrides \subseteq DOMAIN closure

\* An app for a target that has a variant leaves out, with a warning and a
\* green build, none of the modules that nix-bundle-lgx packs: only a bare
\* derivation, or a package that a flake made in its own way.
NeverSilentlyOmitted ==
    stage = "built" /\ system \in variants =>
        \A n \in DOMAIN closure \ installed :
            \/ lock[closure[n]].builder = "bare"
            \/ lock[closure[n]].builder = "foreign" /\ "lgx" \in lock[closure[n]].outputs

\* The walk ends, without a visited set: pins of a name in different flakes
\* may depend on each other in a circle, the lock graph may not.
ClosureEnds == <>(stage \in {"refused", "built"})

\* The metadata.json of an app names the dependencies it was bundled with.
AppDeclaresWhatItBundles ==
    stage = "built" => shippedDependencies = Required(App)
=============================================================================
