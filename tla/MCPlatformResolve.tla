------------------------- MODULE MCPlatformResolve -------------------------
(***************************************************************************)
(* Documents for TLC: the shapes of overlays the tests of the repository   *)
(* use, every list of at most two of them over several bases.              *)
(***************************************************************************)
EXTENDS PlatformResolve

\* The spellings tried; nixpkgs' tables hold many more.
MCcanonTables ==
    [os |-> [linux |-> "linux", darwin |-> "darwin", macos |-> "darwin",
             windows |-> "windows", win32 |-> "windows", ios |-> "ios",
             freebsd |-> "freebsd"],
     architecture |-> [x86_64 |-> "x86_64", aarch64 |-> "aarch64",
                       arm64 |-> "aarch64", riscv64 |-> "riscv64"],
     abi |-> [gnu |-> "gnu", unknown |-> "unknown", android |-> "android",
              musl |-> "musl"]]

\* One parse per target, the agnostic one, a platform spelled with aliases,
\* and three arguments no builder makes.
MCArguments ==
    platformTriples @@
    "agnostic" :> NoPlatform @@
    "aliased" :> [os |-> "macos", architecture |-> "arm64", abi |-> "unknown"] @@
    "no-such-target" :> [os |-> "darwin", architecture |-> "aarch64", abi |-> "gnu"] @@
    "unreachable" :> [os |-> "freebsd", architecture |-> "x86_64", abi |-> "gnu"] @@
    "partial" :> [os |-> "linux"]

When(f) == "when" :> Attrs(f)
Lib(n, v) == Attrs([name |-> Str(n), rev |-> Str(v)])
Strs(ss) == Arr([i \in DOMAIN ss |-> Str(ss[i])])

GoodWhens == {"os" :> Str("linux"), "os" :> Str("macos"),
              "architecture" :> Str("arm64"), "abi" :> Str("gnu"),
              [os |-> Str("windows"), architecture |-> Str("x86_64"), abi |-> Str("gnu")]}

BadOverlays ==
    {Attrs(When("abi" :> Str("musl"))),
     Attrs(When([os |-> Str("darwin"), architecture |-> Str("amd64")])),
     Attrs(When(<<>>)), Attrs(When("arch" :> Str("arm64"))),
     Attrs(When("os" :> Arr(<<>>))), Attrs("when" :> Str("linux")),
     Str("linux"), Attrs("include" :> Strs(<<"b">>)),
     Attrs(When("os" :> Str("linux")) @@ "main" :> Str("m.so")),
     Attrs(When("os" :> Str("linux")) @@ "type" :> Str("core"))}

TopBodies == {"include" :> Strs(<<"b", "a">>), "include" :> Str("b"),
              "dependencies" :> Strs(<<"d">>) @@ "include" :> Strs(<<"c">>),
              "dependencies" :> Null}

NixBodies ==
    {"packages" :> Attrs("build" :> Strs(<<"q">>)),
     "packages" :> Attrs([build |-> Strs(<<"p">>), runtime |-> Strs(<<"r">>)]),
     "packages" :> Strs(<<"q">>),
     "rust" :> Attrs("toolchain" :> Str("1.80")),
     "rust" :> Attrs("toolchain" :> Null),
     "external_libraries" :> Arr(<<Lib("foo", "2")>>),
     "external_libraries" :> Arr(<<Lib("bar", "1")>>)}

Over(bodies) == {Attrs(When(w) @@ b) : w \in GoodWhens, b \in bodies}

Lists(overlays) ==
    {<<o>> : o \in overlays} \cup {<<o, q>> : o, q \in overlays}

BaseNix == [packages |-> Attrs("build" :> Strs(<<"p">>)),
            rust |-> Attrs("toolchain" :> Null),
            external_libraries |-> Arr(<<Lib("foo", "1")>>)]

\* Bases: the ordinary one, one whose `nix` says nothing, one whose `nix` is
\* no object.
Bases == {[name |-> Str("m"), include |-> Strs(<<"a">>), nix |-> Attrs(BaseNix)],
          [name |-> Str("m"), platform |-> [bool |-> TRUE], nix |-> Attrs(<<>>)],
          [name |-> Str("m"), nix |-> Str("x")]}

TopOver(base, overlays) == Attrs("platforms" :> Arr(overlays) @@ base)
NixOver(base, overlays) ==
    Attrs("nix" :> Attrs("platforms" :> Arr(overlays) @@ base.nix.attrs) @@ base)

OneBad(good) == {<<b>> : b \in BadOverlays} \cup
                {<<g, b>> : g \in good, b \in BadOverlays}

FirstBase == CHOOSE b \in Bases : "include" \in DOMAIN b
ObjectBases == {b \in Bases : IsAttrs(b.nix)}
Linux == Attrs(When("os" :> Str("linux")) @@ "include" :> Strs(<<"l">>))

\* Overlay lists, or names close to one, written where nothing reads them.
StrayKeys == {"platforms", "platform", "Platforms"}
Stray ==
    {Attrs(k :> Arr(<<Linux>>) @@ FirstBase) : k \in {"Platforms", "platform"}} \cup
    {Attrs("codegen" :> Attrs(k :> Arr(<<Linux>>)) @@ FirstBase) : k \in StrayKeys} \cup
    {Attrs("nix" :> Attrs("rust" :> Attrs(k :> Arr(<<>>)))
             @@ "name" :> Str("m")) : k \in StrayKeys} \cup
    {Attrs("nix" :> Attrs("external_libraries" :> Arr(<<Attrs(k :> Arr(<<>>))>>))
             @@ "name" :> Str("m")) : k \in StrayKeys} \cup
    {TopOver(FirstBase, <<Attrs("platform" :> [bool |-> TRUE] @@ Linux.attrs)>>)}

\* The same around an empty key: at the root it adds nothing to the path.
EmptyKey ==
    LET List == Attrs("platforms" :> Arr(<<Linux>>))
    IN  {Attrs("" :> v @@ FirstBase) :
            v \in {List, Attrs("nix" :> List), Attrs("" :> List),
                   Attrs("codegen" :> List), Arr(<<List>>),
                   Attrs("platform" :> [bool |-> TRUE])}} \cup
        {Attrs("nix" :> Attrs("" :> List) @@ "name" :> Str("m"))}

\* An overlay at each level of one document, and lists that are no list.
Both == {Attrs("platforms" :> Arr(<<o>>) @@ NixOver(FirstBase, <<n>>).attrs) :
            o \in Over(TopBodies), n \in Over(NixBodies)}
NoList == {TopOver(FirstBase, <<>>),
           Attrs("platforms" :> Attrs("os" :> Str("linux")) @@ FirstBase)}

MCDocuments ==
    {Attrs(b) : b \in Bases} \cup Stray \cup EmptyKey \cup Both \cup NoList \cup
    {TopOver(b, os) : b \in Bases, os \in Lists(Over(TopBodies))} \cup
    {TopOver(b, os) : b \in Bases, os \in OneBad(Over(TopBodies))} \cup
    {NixOver(b, os) : b \in ObjectBases, os \in Lists(Over(NixBodies))} \cup
    {NixOver(FirstBase, os) : os \in OneBad(Over(NixBodies))}

\* Every full selector of components some target has, one to a document.
MCFullSelectors ==
    {TopOver(FirstBase, <<Attrs(When(w) @@ "include" :> Strs(<<"z">>))>>) :
        w \in {[os |-> Str(o), architecture |-> Str(a), abi |-> Str(b)] :
                 o \in reachableValues("os"), a \in reachableValues("architecture"),
                 b \in reachableValues("abi")}}
=============================================================================
