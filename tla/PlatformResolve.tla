-------------------------- MODULE PlatformResolve --------------------------
(***************************************************************************)
(* lib/resolvePlatforms.nix: the `platforms` overlays of a metadata.json   *)
(* resolved for one platform.  A parse is a pure function of the document  *)
(* and its `platform` argument, so the parses of ONE document for every    *)
(* target, and the one with no platform, run side by side here: each step  *)
(* of the machine is the same step of all of them, and what the module     *)
(* promises about several targets is an invariant.                         *)
(*                                                                         *)
(* A JSON value is a record whose only field is its type.  Evaluation is   *)
(* lazy in the source; a throw the parse is certain to force is the        *)
(* refusal of that parse.                                                  *)
(***************************************************************************)
EXTENDS Naturals, FiniteSets, SequencesExt, Subsequences

CONSTANTS Documents,    \* the raw documents, as parsed from JSON
          Arguments,    \* parse |-> its `platform` argument
          canonTables,  \* component |-> (spelling |-> canonical name)
          Depth         \* bound: no value of a document is nested deeper

NoPlatform == [platform |-> "null"]

Str(s) == [string |-> s]
Arr(s) == [list |-> s]
Attrs(f) == [attrs |-> f]
Null == [null |-> "null"]
Refused(rule) == [refused |-> rule]
poisonField == [poisoned |-> "platform-keyed"]

IsAttrs(v) == "attrs" \in DOMAIN v
IsList(v) == "list" \in DOMAIN v
IsRefused(v) == "refused" \in DOMAIN v
HasAttr(v, k) == IsAttrs(v) /\ k \in DOMAIN v.attrs
AttrOr(v, k, default) == IF HasAttr(v, k) THEN v.attrs[k] ELSE default
RemoveAttrs(v, ks) == Attrs([k \in DOMAIN v.attrs \ ks |-> v.attrs[k]])
SetAttr(v, k, x) ==
    Attrs([j \in DOMAIN v.attrs \cup {k} |-> IF j = k THEN x ELSE v.attrs[j]])

-----------------------------------------------------------------------------
(* The targets and the vocabulary of a selector.                           *)

platformTriples ==
    LET Row(os, arch, abi) == [os |-> os, architecture |-> arch, abi |-> abi]
    IN  "x86_64-linux" :> Row("linux", "x86_64", "gnu") @@
        "aarch64-linux" :> Row("linux", "aarch64", "gnu") @@
        "x86_64-darwin" :> Row("darwin", "x86_64", "unknown") @@
        "aarch64-darwin" :> Row("darwin", "aarch64", "unknown") @@
        "x86_64-windows" :> Row("windows", "x86_64", "gnu") @@
        "aarch64-ios" :> Row("ios", "aarch64", "unknown") @@
        "aarch64-ios-simulator" :> Row("ios", "aarch64", "unknown") @@
        "aarch64-android" :> Row("linux", "aarch64", "android")

Targets == DOMAIN platformTriples
triples == {platformTriples[t] : t \in Targets}
selectorKeys == {"os", "architecture", "abi"}
reachableValues(k) == {triple[k] : triple \in triples}

\* Both stages of canon: the spelling is known, and some target has it.
Recognised(k, s) ==
    s \in DOMAIN canonTables[k] /\ canonTables[k][s] \in reachableValues(k)
canon(k, s) == canonTables[k][s]

\* validatePlatform: a full triple, each component recognised, and the
\* combination a target's.
ValidArgument(arg) ==
    \/ arg = NoPlatform
    \/ /\ DOMAIN arg = selectorKeys
       /\ \A k \in selectorKeys : Recognised(k, arg[k])
       /\ [k \in selectorKeys |-> canon(k, arg[k])] \in triples

PlatformOf(p) ==
    IF Arguments[p] = NoPlatform THEN NoPlatform
    ELSE [k \in selectorKeys |-> canon(k, Arguments[p][k])]

\* mutant: the comparison uses the author's spelling
matches_spelling(when, p) ==
    /\ PlatformOf(p) # NoPlatform
    /\ \A k \in DOMAIN when.attrs : when.attrs[k].string = PlatformOf(p)[k]

\* canonWhen and matches: the selector of an overlay that passed validation
\* applies when every component it names is the platform's.
matches(when, p) ==
    /\ PlatformOf(p) # NoPlatform
    /\ \A k \in DOMAIN when.attrs :
          canon(k, when.attrs[k].string) = PlatformOf(p)[k]

-----------------------------------------------------------------------------
(* The two places overlays are read from, and what each may vary.          *)

topAllowed == {"include", "dependencies", "optional_dependencies"}
nixAllowed == {"packages", "external_libraries", "cmake", "rust"}
allowed(level) == IF level = "nix" THEN nixAllowed ELSE topAllowed

\* The node a level's overlays are written in and merged over (nixIsObject:
\* a `nix` that is no object is left for parseMetadata to report).
NodeAt(level, doc) ==
    IF level = "top" THEN doc
    ELSE IF HasAttr(doc, "nix") /\ IsAttrs(doc.attrs["nix"])
         THEN doc.attrs["nix"] ELSE Attrs(<<>>)

Declares(level, doc) == HasAttr(NodeAt(level, doc), "platforms")
Declared(level, doc) == AttrOr(NodeAt(level, doc), "platforms", Arr(<<>>))
OverlaysOf(level, doc) ==
    IF IsList(Declared(level, doc)) THEN Declared(level, doc).list ELSE <<>>
Body(overlay) == RemoveAttrs(overlay, {"when"})

\* The values inside v, by how deep they are.
Parts(v) == IF IsAttrs(v) THEN {v.attrs[k] : k \in DOMAIN v.attrs}
            ELSE IF IsList(v) THEN ToSet(v.list) ELSE {}
Within(v) ==
    LET within[n \in Nat] ==
            IF n = 0 THEN {v} ELSE UNION {Parts(x) : x \in within[n - 1]}
    IN  within

JsonTypes == {"string", "int", "float", "bool", "null", "list", "attrs"}
JsonValue(v) ==
    /\ \E t \in JsonTypes : DOMAIN v = {t}
    /\ IsList(v) => v.list \in Seq(ToSet(v.list))

\* A metadata.json is an object, and every value inside it a JSON value, down
\* to the depth of the bound.
ASSUME DocumentsAssumption ==
    /\ Depth \in Nat
    /\ \A doc \in Documents :
          /\ IsAttrs(doc)
          /\ \A n \in 0..Depth : \A x \in Within(doc)[n] : JsonValue(x)
          /\ \A x \in Within(doc)[Depth] : Parts(x) = {}

\* raw without its two `platforms` keys
Base(doc) ==
    LET top == RemoveAttrs(doc, {"platforms"})
    IN  IF HasAttr(top, "nix") /\ IsAttrs(top.attrs["nix"])
        THEN SetAttr(top, "nix", RemoveAttrs(top.attrs["nix"], {"platforms"}))
        ELSE top

platformsNearMisses ==
    {"platform", "Platforms", "platform_overrides", "platform_overlays"}

\* The path of a field, as far as legalPlatformsPaths tell paths apart: "root"
\* is the empty string, "nix" is "nix".  An empty key joined to the empty path
\* leaves it empty.
PlaceOf(place, k) ==
    IF place # "root" THEN "below"
    ELSE IF k = "" THEN "root" ELSE IF k = "nix" THEN "nix" ELSE "below"

\* mutant: the walk does not go into lists
SubValues_noLists(node) ==
    IF IsAttrs(node.v)
    THEN {[place |-> PlaceOf(node.place, k), v |-> node.v.attrs[k]] :
             k \in DOMAIN node.v.attrs}
    ELSE {}

\* One level of walk: the values inside a value, with their paths.
SubValues(node) ==
    IF IsAttrs(node.v)
    THEN {[place |-> PlaceOf(node.place, k), v |-> node.v.attrs[k]] :
             k \in DOMAIN node.v.attrs}
    ELSE IF IsList(node.v)
         THEN {[place |-> "below", v |-> e] : e \in ToSet(node.v.list)}
         ELSE {}

Nodes(doc) ==
    LET nodes[n \in Nat] ==
            IF n = 0 THEN {[place |-> "root", v |-> doc]}
            ELSE UNION {SubValues(node) : node \in nodes[n - 1]}
    IN  nodes

Offending(node) ==
    {k \in IF IsAttrs(node.v) THEN DOMAIN node.v.attrs ELSE {} :
        \/ k = "platforms" /\ node.place = "below"
        \/ k \in platformsNearMisses /\ ~(k = "platform" /\ node.place = "root")}

\* sweepMisplacedPlatforms: the keys at which an overlay list, or a near miss
\* of its name, would be read by nothing; those under an empty root key pass,
\* their path being that of a legal one.
Misplaced(doc) ==
    LET nodes == Nodes(doc)
    IN  UNION {Offending(node) : node \in UNION {nodes[n] : n \in 0..Depth}}

\* mutant: a chain of && stops at the first component that differs
ForcedComponents_shortCircuit(when, p) ==
    IF PlatformOf(p) # NoPlatform /\ "os" \in DOMAIN when.attrs
       /\ "string" \in DOMAIN when.attrs["os"]
       /\ Recognised("os", when.attrs["os"].string)
       /\ canon("os", when.attrs["os"].string) # PlatformOf(p).os
    THEN {"os"} ELSE DOMAIN when.attrs

\* The components of a selector whose spelling a parse for p evaluates: all
\* of them (the deepSeq of canonWhen), whichever platform it is for.
ForcedComponents(when, p) == DOMAIN when.attrs

\* validateOverlay and canonWhen
OverlayRefused(level, overlay, p) ==
    \/ ~HasAttr(overlay, "when")
    \/ DOMAIN Body(overlay).attrs \ allowed(level) # {}
    \/ LET when == overlay.attrs["when"]
       IN  \/ ~IsAttrs(when)
           \/ DOMAIN when.attrs = {}
           \/ DOMAIN when.attrs \ selectorKeys # {}
           \/ \E k \in ForcedComponents(when, p) :
                 \/ "string" \notin DOMAIN when.attrs[k]
                 \/ ~Recognised(k, when.attrs[k].string)

\* asOverlayList, and the forcing of nixRes.validated and topRes.validated
LevelRefused(level, doc, p) ==
    \/ ~IsList(Declared(level, doc))
    \/ \E o \in ToSet(OverlaysOf(level, doc)) : OverlayRefused(level, o, p)

-----------------------------------------------------------------------------
(* mergeNode: one overlay's body over one node.                            *)

\* mutant: a type mismatch takes the overlay's value
MergedValue_lastType(av, bv, below) ==
    IF bv = Null THEN Refused("merge")
    ELSE IF av = Null THEN bv
    ELSE IF IsList(av) /\ IsList(bv) THEN Arr(av.list \o bv.list)
    ELSE IF IsAttrs(av) /\ IsAttrs(bv) THEN below
    ELSE bv

\* What an overlay's value makes of the one before it, Null where there is
\* none; `below` is the merge of the two as objects.
MergedValue(av, bv, below) ==
    IF bv = Null THEN Refused("merge")
    ELSE IF av = Null THEN bv
    ELSE IF DOMAIN av # DOMAIN bv THEN Refused("merge")
    ELSE IF IsList(av) THEN Arr(av.list \o bv.list)
    ELSE IF IsAttrs(av) THEN below
    ELSE bv

\* mutant: the refusal of a field stays inside the merged tree
Forced_lazy(node) == node

\* The deepSeq of `resolved`: a refused field refuses the tree.
Forced(node) ==
    IF \E k \in DOMAIN node.attrs : IsRefused(node.attrs[k])
    THEN Refused("merge") ELSE node

\* One level of mergeNode, Below being the levels under it.
MergeAttrs(Below(_, _), a, b) ==
    Forced(Attrs([k \in DOMAIN a.attrs \cup DOMAIN b.attrs |->
        IF k \notin DOMAIN b.attrs THEN a.attrs[k]
        ELSE LET av == AttrOr(a, k, Null)
             IN  MergedValue(av, b.attrs[k], Below(av, b.attrs[k]))]))

\* Bound: bodies are at most three objects deep (nix, rust.env, its values).
MergeLast(a, b) == MergeAttrs(LAMBDA x, y : Refused("depth"), a, b)
MergeBelow(a, b) == MergeAttrs(MergeLast, a, b)
mergeNode(a, b) == MergeAttrs(MergeBelow, a, b)

\* mutant: the later entry of a duplicated name is thought to win
checkExternalLibs_lastWins(nix) == nix

\* checkExternalLibs, where a matching overlay supplied external_libraries
checkExternalLibs(nix) ==
    LET libs == AttrOr(nix, "external_libraries", Arr(<<>>))
        Named(i) == AttrOr(libs.list[i], "name", Null)
        duplicated == \E i, j \in DOMAIN libs.list :
                         i # j /\ Named(i) = Named(j) /\ Named(i) # Null
    IN  IF IsList(libs) /\ duplicated THEN Refused("libraries") ELSE nix

-----------------------------------------------------------------------------
(* The evaluation of resolvePlatforms, all parses side by side.            *)

VARIABLES
    raw,     \* the document
    at,      \* "call", "validate", "nix", "libraries", "top" or "done"
    next,    \* the next overlay of the level being merged
    answer   \* parse |-> the tree so far, or the refusal

vars == <<raw, at, next, answer>>

Parses == DOMAIN Arguments
Accepted(p) == ~IsRefused(answer[p])
Agnostic(p) == Arguments[p] = NoPlatform

Matching(level, i, p) ==
    matches(OverlaysOf(level, raw)[i].attrs["when"], p)

\* touchedKeys of applyOverlays: whatever overlay sets them, matching or not
touchedKeys(level) ==
    UNION {DOMAIN Body(o).attrs : o \in ToSet(OverlaysOf(level, raw))}

\* mutant: only a field the base declares is poisoned
Poison_declared(node, level) ==
    Attrs([k \in DOMAIN node.attrs |->
             IF k \in touchedKeys(level) THEN poisonField ELSE node.attrs[k]])

\* One node of the tree a parse with no platform answers from.
Poison(node, level) ==
    LET ks == touchedKeys(level)
    IN  Attrs([k \in DOMAIN node.attrs \cup ks |->
                  IF k \in ks THEN poisonField ELSE node.attrs[k]])

\* The parse with no platform: each field an overlay sets answers nothing.
poisoned ==
    LET base == Base(raw)
    IN  Poison(IF HasAttr(base, "nix") /\ IsAttrs(base.attrs["nix"])
               THEN SetAttr(base, "nix", Poison(base.attrs["nix"], "nix"))
               ELSE base, "top")

Init ==
    /\ raw \in Documents
    /\ at = "call"
    /\ next = 1
    /\ answer = [p \in Parses |-> raw]

Overlaid == Declares("top", raw) \/ Declares("nix", raw)

\* mutant: the early return skips both guards
CallGuards_overlaid(p) ==
    Overlaid => ValidArgument(Arguments[p]) /\ Misplaced(raw) = {}

\* seq plat (seq sweep ..): both guards hold of the call
CallGuards(p) == ValidArgument(Arguments[p]) /\ Misplaced(raw) = {}

Call ==
    /\ at = "call"
    /\ answer' = [p \in Parses |-> IF CallGuards(p) THEN raw ELSE Refused("call")]
    /\ at' = IF Overlaid THEN "validate" ELSE "done"
    /\ UNCHANGED <<raw, next>>

\* validation, and the choice between poisoned and resolved
Validate ==
    /\ at = "validate"
    /\ answer' = [p \in Parses |->
          IF ~Accepted(p) THEN answer[p]
          ELSE IF \E level \in {"top", "nix"} : LevelRefused(level, raw, p)
               THEN Refused("selector")
          ELSE IF Agnostic(p) THEN poisoned ELSE Base(raw)]
    /\ at' = "nix"
    /\ UNCHANGED <<raw, next>>

Merging(p) == Accepted(p) /\ ~Agnostic(p)

\* One step of the fold over the matching overlays of `nix.platforms`.
MergeNix ==
    /\ at = "nix"
    /\ IF next <= Len(OverlaysOf("nix", raw))
       THEN /\ answer' = [p \in Parses |->
                 IF Merging(p) /\ Matching("nix", next, p)
                 THEN LET nix == mergeNode(answer[p].attrs["nix"],
                                           Body(OverlaysOf("nix", raw)[next]))
                      IN  IF IsRefused(nix) THEN nix ELSE SetAttr(answer[p], "nix", nix)
                 ELSE answer[p]]
            /\ next' = next + 1
            /\ at' = at
       ELSE /\ at' = "libraries"
            /\ next' = 1
            /\ answer' = answer
    /\ raw' = raw

\* matchedKeys has external_libraries
LibrariesOverlaid(p) ==
    \E i \in DOMAIN OverlaysOf("nix", raw) :
        Matching("nix", i, p)
        /\ HasAttr(OverlaysOf("nix", raw)[i], "external_libraries")

CheckLibraries ==
    /\ at = "libraries"
    /\ answer' = [p \in Parses |->
          IF Merging(p) /\ LibrariesOverlaid(p)
             /\ IsRefused(checkExternalLibs(answer[p].attrs["nix"]))
          THEN Refused("libraries") ELSE answer[p]]
    /\ at' = "top"
    /\ UNCHANGED <<raw, next>>

\* The same fold over the overlays of the top-level `platforms`.
MergeTop ==
    /\ at = "top"
    /\ IF next <= Len(OverlaysOf("top", raw))
       THEN /\ answer' = [p \in Parses |->
                 IF Merging(p) /\ Matching("top", next, p)
                 THEN mergeNode(answer[p], Body(OverlaysOf("top", raw)[next]))
                 ELSE answer[p]]
            /\ next' = next + 1
            /\ at' = at
       ELSE /\ at' = "done"
            /\ UNCHANGED <<next, answer>>
    /\ raw' = raw

Next == Call \/ Validate \/ MergeNix \/ CheckLibraries \/ MergeTop

Spec == Init /\ [][Next]_vars

-----------------------------------------------------------------------------
(* What the resolution promises.                                           *)

Values == JsonTypes \cup {"poisoned"}

\* Type invariant: a parse holds an object, whose fields are JSON values or
\* poison, or one of the four refusals.
TypeOK ==
    /\ IsAttrs(raw)
    /\ at \in {"call", "validate", "nix", "libraries", "top", "done"}
    /\ next \in 1..(Len(OverlaysOf("nix", raw)) + Len(OverlaysOf("top", raw)) + 1)
    /\ DOMAIN answer = Parses
    /\ \A p \in Parses :
          IF Accepted(p)
          THEN /\ IsAttrs(answer[p])
               /\ \A k \in DOMAIN answer[p].attrs :
                     \E t \in Values : DOMAIN answer[p].attrs[k] = {t}
          ELSE answer[p].refused \in {"call", "selector", "merge", "libraries"}

\* The fields of a tree that a reader can ask for: the top-level ones and
\* those of `nix`.
Fields(v) ==
    {<<k>> : k \in DOMAIN v.attrs \ {"nix"}} \cup
    (IF HasAttr(v, "nix") /\ IsAttrs(v.attrs["nix"])
     THEN {<<"nix", k>> : k \in DOMAIN v.attrs["nix"].attrs} ELSE {})
FieldOf(v, f) ==
    IF f \notin Fields(v) THEN Null
    ELSE IF Len(f) = 1 THEN v.attrs[f[1]] ELSE v.attrs["nix"].attrs[f[2]]

\* A parse with no platform never hands out a base value that some target
\* would answer differently: every field it does answer, present or absent,
\* reads the same in the parse of every target that was accepted (the poison
\* of a field is decided by all overlays, the value by the matching ones).
AgnosticAnswersAgree ==
    at = "done" =>
        \A n, p \in Parses :
            Agnostic(n) /\ Accepted(n) /\ Accepted(p) =>
                \A f \in Fields(answer[n]) \cup Fields(answer[p]) :
                    FieldOf(answer[n], f) \in {poisonField, FieldOf(answer[p], f)}

\* A mistake in a selector or in the shape of an overlay is refused by the
\* parse of every platform, the ones the overlay is not for included: a
\* build that is green on one target is not red on another for a typo.
SelectorsRefusedEverywhere ==
    \A p, q \in Parses :
        answer[p] = Refused("selector") =>
            answer[q] \in {Refused("selector"), Refused("call")}

\* An argument that is neither null nor the triple of a target is refused
\* whatever the document holds: the guarantee does not wait for the first
\* module that declares an overlay.
NoHandmadePlatform ==
    at # "call" =>
        \A p \in Parses :
            ~Agnostic(p) /\ Accepted(p) =>
                /\ DOMAIN Arguments[p] = selectorKeys
                /\ \E triple \in triples : PlatformOf(p) = triple

\* Every key of an object anywhere inside v.
KeysInside(v) ==
    LET within == Within(v)
    IN  UNION {DOMAIN x.attrs : x \in {y \in UNION {within[n] : n \in 0..Depth} :
                                         IsAttrs(y)}}

\* No overlay list, and no near miss of one, survives into an accepted tree,
\* at any depth, where nothing would read it and the base would ship to every
\* target (the sweep also runs before the early return: a module with no
\* legal overlay is the very one that takes it).  What is under an empty root
\* key is left out: the sweep, which compares paths as strings, takes an
\* overlay list there for the root's, and nothing reads it.
NoOverlayDropped ==
    at = "done" =>
        \A p \in Parses :
            Accepted(p) =>
                KeysInside(RemoveAttrs(answer[p], {"platform", ""}))
                    \cap ({"platforms"} \cup platformsNearMisses) = {}

\* The selectors of an overlay, read with the words of the documentation: the
\* components it names are the target's, in any accepted spelling.
AppliesTo(overlay, p) ==
    \A k \in DOMAIN overlay.attrs["when"].attrs :
        LET said == overlay.attrs["when"].attrs[k].string
        IN  canonTables[k][said] = canonTables[k][Arguments[p][k]]

\* The base and the overlays of a level, and those of them that say something
\* of a field in a parse for p; ks leads to the field from the node of its level.
Sources(level) == <<NodeAt(level, Base(raw))>> \o OverlaysOf(level, raw)
Inside(v, ks) ==
    IF Len(ks) = 1 THEN AttrOr(v, ks[1], Null)
    ELSE AttrOr(AttrOr(v, ks[1], Null), ks[2], Null)
Speaking(level, p, ks) ==
    {i \in DOMAIN Sources(level) :
        /\ i = 1 \/ AppliesTo(Sources(level)[i], p)
        /\ Inside(Sources(level)[i], ks) # Null}

\* What they say of it, in that order.
Said(level, p, ks) ==
    LET speakers == SelectAt(Sources(level), Speaking(level, p, ks))
    IN  [i \in DOMAIN speakers |-> Inside(speakers[i], ks)]

LeafPaths(level) ==
    LET bodies == {Body(o) : o \in ToSet(OverlaysOf(level, raw))}
    IN  UNION {{<<k>> : k \in DOMAIN b.attrs} \cup
               UNION {{<<k, j>> : j \in DOMAIN b.attrs[k].attrs} :
                        k \in {x \in DOMAIN b.attrs : IsAttrs(b.attrs[x])}} :
               b \in bodies}

\* Every applying overlay counts, in declaration order, the base first: a
\* list is all their lists concatenated, nothing dropped or reordered; of the
\* scalars the last one stands; values of different types never meet in an
\* accepted parse; and a field nobody spoke of holds nothing.
OverlaysInDeclarationOrder ==
    at = "done" =>
        \A p \in Parses, level \in {"top", "nix"} :
            Accepted(p) /\ ~Agnostic(p) /\ Overlaid =>
                \A ks \in LeafPaths(level) :
                    LET said == Said(level, p, ks)
                        is == Inside(NodeAt(level, answer[p]), ks)
                    IN  IF said = <<>> THEN is = Null
                        ELSE /\ \A i \in DOMAIN said : DOMAIN said[i] = DOMAIN is
                             /\ IsList(is) =>
                                  is.list = FlattenSeq([i \in DOMAIN said |-> said[i].list])
                             /\ ~IsList(is) /\ ~IsAttrs(is) => is = Last(said)

LibrariesIn(node) ==
    LET libs == AttrOr(node, "external_libraries", Null)
    IN  IF IsList(libs) THEN libs.list ELSE <<>>
NameOf(library) == AttrOr(library, "name", Null)

\* mkExternalLib folds nix.external_libraries by name and keeps the first
\* entry; the entry it keeps for a name an applying overlay declares is that
\* overlay's, never one of the base it was meant to refine.
OverlayLibraryIsKept ==
    at = "done" =>
        \A p \in Parses :
            Accepted(p) /\ ~Agnostic(p) /\ Overlaid =>
                LET libs == LibrariesIn(NodeAt("nix", answer[p]))
                    Kept(name) ==
                        CHOOSE i \in DOMAIN libs :
                            /\ NameOf(libs[i]) = name
                            /\ \A j \in DOMAIN libs : NameOf(libs[j]) = name => i <= j
                IN  \A o \in ToSet(OverlaysOf("nix", raw)) :
                        AppliesTo(o, p) =>
                            \A l \in ToSet(LibrariesIn(o)) :
                                NameOf(l) # Null => libs[Kept(NameOf(l))] = l
=============================================================================
