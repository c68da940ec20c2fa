------------------------------ MODULE PackageBuild ------------------------------
(***************************************************************************)
(* scripts/build_package.py: one build after another into one output       *)
(* directory, with scripts/build_identity.py and metal_build_identity.py.  *)
(*                                                                         *)
(* A build hashes the sources, copies them to a stage with the hashes      *)
(* written in, compiles every package, replaces the packages of the output *)
(* one by one and writes two descriptions.  Sources may be edited at any   *)
(* time, a compilation may fail, and the build may be killed anywhere: a   *)
(* file it was writing is then left partial.                               *)
(*                                                                         *)
(* A source tree is its version; a hash is what was hashed.  The compiler, *)
(* its flags and pixi.lock do not change, and the git revision is left out.*)
(***************************************************************************)
EXTENDS Naturals, Sequences

CONSTANTS
    MaxEdits,       \* bounds of the instance
    MaxBuilds

Trees == {"dataframe", "dataframe_metal", "dataframe_provider", "providers/cpu"}
Providers == {"cpu", "metal"}

\* The packages of a provider, and the tree each is copied from.
PackagesOf(provider) ==
    <<"dataframe", "dataframe_provider">> \o
        (IF provider = "metal" THEN <<"dataframe_metal">> ELSE <<>>)
TreeOf(package, provider) ==
    IF package = "dataframe_provider" /\ provider = "cpu"
    THEN "providers/cpu" ELSE package
Packages == {"dataframe", "dataframe_provider", "dataframe_metal"}

VARIABLES
    tree,           \* the version of each source tree
    builds,         \* the builds started
    pc,             \* what the build does next, or "idle"
    provider,
    identity,       \* cpu_build_id; 0 before it is hashed
    metal,          \* metal_build_id, as <<core, metal, provider>>
    stage,          \* the packages copied, then compiled
    at,             \* the package a loop has come to
    output,         \* the packages in the output directory
    temporary,      \* the .mojoc.tmp there
    description,    \* provider.json
    settled,        \* no package was replaced since it was written
    quiet,          \* no tree was edited between its first hash and last copy
    before          \* the packages when the build began

inputs == <<provider, builds, quiet, before>>
files == <<output, temporary, description, settled>>
vars == <<tree, inputs, pc, identity, metal, stage, at, files>>

Absent == [tree |-> "none", version |-> 0, identity |-> <<>>]
Partial == [tree |-> "partial", version |-> 0, identity |-> <<>>]
NoDescription == [state |-> "absent", runtime |-> <<>>, packages |-> <<>>, quiet |-> FALSE]

TypeOK ==
    /\ tree \in [Trees -> 1..MaxEdits + 1]
    /\ builds \in 0..MaxBuilds
    /\ pc \in {"idle", "hash", "hash metal", "copy", "compile", "copy out",
               "replace", "cpu-build.json", "describe", "finish"}
    /\ provider \in Providers
    /\ DOMAIN stage \subseteq Packages
    /\ at \in 1..4
    /\ DOMAIN output = Packages
    /\ description.state \in {"absent", "partial", "whole"}

Init ==
    /\ tree = [t \in Trees |-> 1]
    /\ builds = 0 /\ pc = "idle" /\ provider = "cpu"
    /\ identity = 0 /\ metal = <<>> /\ stage = <<>> /\ at = 1
    /\ output = [p \in Packages |-> Absent]
    /\ temporary = Absent
    /\ description = NoDescription /\ settled = TRUE
    /\ quiet = TRUE /\ before = output

Edits == tree["dataframe"] + tree["dataframe_metal"]
            + tree["dataframe_provider"] + tree["providers/cpu"] - 4

\* Somebody edits a source.
Edit(t) ==
    /\ Edits < MaxEdits
    /\ tree' = [tree EXCEPT ![t] = @ + 1]
    /\ quiet' = (quiet /\ pc \notin {"hash metal", "copy"})
    /\ UNCHANGED <<builds, provider, before, pc, identity, metal, stage, at, files>>

Start ==
    /\ pc = "idle" /\ builds < MaxBuilds
    /\ builds' = builds + 1
    /\ provider' \in Providers
    /\ quiet' = TRUE /\ before' = output
    /\ pc' = "hash"
    /\ stage' = <<>> /\ at' = 1
    /\ identity' = 0 /\ metal' = <<>>
    /\ UNCHANGED <<tree, files>>

list == PackagesOf(provider)
package == list[at]

\* The loops over the packages: on to the next, or on to `then`.
Step(again, then) ==
    IF at < Len(list)
    THEN pc' = again /\ at' = at + 1
    ELSE pc' = then /\ at' = 1

HashCore ==
    /\ pc = "hash"
    /\ identity' = tree["dataframe"]
    /\ pc' = IF provider = "metal" THEN "hash metal" ELSE "copy"
    /\ UNCHANGED <<tree, inputs, metal, stage, at, files>>

\* A slip: the metal identity hashes the CPU-only provider.
HashOtherProvider ==
    /\ pc = "hash metal"
    /\ metal' = <<tree["dataframe"], tree["dataframe_metal"],
                  tree["providers/cpu"]>>
    /\ pc' = "copy"
    /\ UNCHANGED <<tree, inputs, identity, stage, at, files>>

\* metal_build_id hashes the core again, the back end and the provider.
HashMetal ==
    /\ pc = "hash metal"
    /\ metal' = <<tree["dataframe"], tree["dataframe_metal"],
                  tree["dataframe_provider"]>>
    /\ pc' = "copy"
    /\ UNCHANGED <<tree, inputs, identity, stage, at, files>>

\* What a package's _build_identity.mojo says; the provider has none.
Written(p) == IF p = "dataframe" THEN <<identity>>
              ELSE IF p = "dataframe_metal" THEN metal ELSE <<>>

Copy ==
    /\ pc = "copy"
    /\ stage' = [p \in DOMAIN stage \cup {package} |->
            IF p = package
            THEN [tree |-> TreeOf(p, provider),
                  version |-> tree[TreeOf(p, provider)],
                  identity |-> Written(p)]
            ELSE stage[p]]
    /\ Step("copy", "compile")
    /\ UNCHANGED <<tree, inputs, identity, metal, files>>

\* check=True: a compiler that fails ends the build, and the stage with it.
Compile ==
    /\ pc = "compile"
    /\ \/ Step("compile", "copy out")
       \/ pc' = "idle" /\ at' = 1
    /\ UNCHANGED <<tree, inputs, identity, metal, stage, files>>

\* A slip: the package is copied over the old one.
CopyOutInPlace ==
    /\ pc = "copy out"
    /\ temporary' = stage[package]
    /\ output' = [output EXCEPT ![package] = Partial]
    /\ pc' = "replace"
    /\ UNCHANGED <<tree, inputs, identity, metal, stage, at, description, settled>>

\* shutil.copyfile next to the package, then an atomic replace.
CopyOut ==
    /\ pc = "copy out"
    /\ temporary' = stage[package]
    /\ pc' = "replace"
    /\ UNCHANGED <<tree, inputs, identity, metal, stage, at, output, description, settled>>

Replace ==
    /\ pc = "replace"
    /\ output' = [output EXCEPT ![package] = temporary]
    /\ temporary' = Absent /\ settled' = FALSE
    /\ Step("copy out", "cpu-build.json")
    /\ UNCHANGED <<tree, inputs, identity, metal, stage, description>>

CpuBuild ==
    /\ pc = "cpu-build.json"
    /\ pc' = "describe"
    /\ UNCHANGED <<tree, inputs, identity, metal, stage, at, files>>

\* The hashes of the packages are read from the output; the file is opened,
\* which empties it, and written.  (`quiet` is not in it.)
Describe ==
    /\ pc = "describe"
    /\ description' = [state |-> "whole", runtime |-> <<identity, metal>>,
            packages |-> [p \in {list[i] : i \in DOMAIN list} |-> output[p]],
            quiet |-> quiet]
    /\ settled' = TRUE
    /\ pc' = "finish"
    /\ UNCHANGED <<tree, inputs, identity, metal, stage, at, output, temporary>>

Finish ==
    /\ pc = "finish"
    /\ pc' = "idle"
    /\ UNCHANGED <<tree, inputs, identity, metal, stage, at, files>>

\* The build is killed: what it was writing is partial.
Killed ==
    /\ pc # "idle"
    /\ pc' = "idle"
    /\ temporary' = IF pc = "copy out" THEN Partial ELSE temporary
    /\ description' = IF pc = "describe"
                      THEN [NoDescription EXCEPT !.state = "partial"]
                      ELSE description
    /\ UNCHANGED <<tree, inputs, identity, metal, stage, at, output, settled>>

Next ==
    \/ \E t \in Trees : Edit(t)
    \/ Start \/ HashCore \/ HashMetal \/ Copy \/ Compile
    \/ CopyOut \/ Replace \/ CpuBuild \/ Describe \/ Finish \/ Killed

Spec == Init /\ [][Next]_vars

-------------------------------------------------------------------------------

\* No package in the output is ever partial, whenever the build is killed, and
\* none changes before every package has compiled ("Publish only after every
\* package compiles", build_package.py:69): a failed build leaves the packages
\* of the last one.
PackagesAreWhole ==
    /\ Partial \notin {output[p] : p \in Packages}
    /\ pc \in {"hash", "hash metal", "copy", "compile"} => output = before

\* At all times but from a build's first replacement until it has described
\* its packages (or is killed before that, until another one has), the
\* description beside the packages is of them: whole, of the packages that are
\* there, by the identities they were compiled with.  Unless a tree was edited
\* just between its hash and its copy, these are the identities of the sources
\* compiled, the provider's and the back end's included ("changing a kernel or
\* the provider must invalidate Metal costs", metal_build_identity.py:4-5).
DescribesThePackages ==
    settled =>
        LET listed == DOMAIN description.packages
            core == output["dataframe"]
            back == output["dataframe_metal"]
        IN  /\ description.state # "partial"
            /\ description.state = "absent" => \A p \in Packages : output[p] = Absent
            /\ description.state = "whole" =>
                /\ {"dataframe", "dataframe_provider"} \subseteq listed
                /\ \A p \in listed : output[p] = description.packages[p]
                /\ core.identity = <<description.runtime[1]>>
                /\ description.runtime[2] =
                        IF "dataframe_metal" \in listed THEN back.identity ELSE <<>>
                /\ description.quiet =>
                    /\ core.identity = <<core.version>>
                    /\ "dataframe_metal" \in listed =>
                        back.identity = <<core.version, back.version,
                                          output["dataframe_provider"].version>>
===============================================================================
