------------------------------ MODULE ImageBuild ------------------------------
(***************************************************************************)
(* build_image (supervisor.py, runtime_support.py): the image of a context *)
(* under a tag.  With Docker or Podman the image is built where it is      *)
(* used.  With containerd it belongs in the project's namespace: nerdctl   *)
(* builds it there if it can; otherwise Podman, then Docker, build it in   *)
(* their own store, which all projects share, and the image found there    *)
(* under the tag is saved to a file and loaded into the namespace.         *)
(* Builds of several projects overlap, and those of one project, too, when *)
(* the command line builds: it takes no project lock.                      *)
(***************************************************************************)
EXTENDS Naturals

CONSTANTS
  Build,   \* the builds; each makes an image of its own
  BuiltFor, \* the project of a build
  BuildTag, \* the tag of a build
  NoImage

ASSUME BuildAssumption == NoImage \notin Build

Builder == {"podman", "docker"}
Tags == {BuildTag[b] : b \in Build}
BuildProject == {BuiltFor[b] : b \in Build}

VARIABLES
  tools,      \* buildctl, Podman and Docker as installed
  namespaced, \* the image of a tag in the namespace of a project
  sharedTags, \* the image of a tag in the store of a builder
  build,      \* where a build is, with which builder, and what it has saved
  overlapped  \* history: builds whose tag another build gave to its image before it was saved

buildVars == <<tools, namespaced, sharedTags, build, overlapped>>

\* A tag names the image of a build, or none.
BuildTypeOK ==
  /\ tools \in [buildctl : BOOLEAN, builders : SUBSET Builder]
  /\ namespaced \in [BuildProject \X Tags -> Build \cup {NoImage}]
  /\ sharedTags \in [Builder \X Tags -> Build \cup {NoImage}]
  /\ build \in [Build -> [at : {"idle", "nerdctl", "build", "save", "load", "built", "failed"},
                          with : Builder \cup {"nerdctl"}, image : Build \cup {NoImage}]]
  /\ overlapped \subseteq Build

BuildInit ==
  /\ tools \in [buildctl : BOOLEAN, builders : SUBSET Builder]
  /\ namespaced = [t \in BuildProject \X Tags |-> NoImage]
  /\ sharedTags = [t \in Builder \X Tags |-> NoImage]
  /\ build = [b \in Build |-> [at |-> "idle", with |-> "nerdctl", image |-> NoImage]]
  /\ overlapped = {}

-----------------------------------------------------------------------------

\* The builders that are left to try, and the one that is tried first.
Left(b) == {f \in tools.builders : build[b].with \notin {f, "docker"}}
Foremost(builders) == IF "podman" \in builders THEN "podman" ELSE "docker"

Reach(b, at) == build' = [build EXCEPT ![b].at = at]

\* The next builder, or RuntimeError with the report of every attempt.
TryNext(b) ==
  build' = [build EXCEPT ![b] =
    IF Left(b) = {} THEN [@ EXCEPT !.at = "failed"]
                    ELSE [at |-> "build", with |-> Foremost(Left(b)), image |-> NoImage]]

\* build -t: the tag is this build's from now on.
GiveTag(b, f) ==
  /\ sharedTags' = [sharedTags EXCEPT ![<<f, BuildTag[b]>>] = b]
  /\ overlapped' = overlapped \cup
       {c \in Build \ {b} : build[c].at = "save" /\ build[c].with = f /\ BuildTag[c] = BuildTag[b]}

\* Without buildctl nerdctl is not even tried, if there is another builder.
BeginBuild(b) ==
  /\ build[b].at = "idle"
  /\ IF ~tools.buildctl /\ tools.builders # {} THEN TryNext(b) ELSE Reach(b, "nerdctl")
  /\ UNCHANGED <<tools, namespaced, sharedTags, overlapped>>

NerdctlBuilds(b) ==
  /\ build[b].at = "nerdctl"
  /\ \/ /\ tools.buildctl
        /\ namespaced' = [namespaced EXCEPT ![<<BuiltFor[b], BuildTag[b]>>] = b]
        /\ Reach(b, "built")
     \/ TryNext(b) /\ UNCHANGED namespaced
  /\ UNCHANGED <<tools, sharedTags, overlapped>>

\* The runtime is Docker or Podman: one build, and no other attempt.
BuildsInPlace(b) ==
  /\ build[b].at = "idle"
  /\ \E f \in tools.builders :
       \/ /\ GiveTag(b, f)
          /\ build' = [build EXCEPT ![b] = [at |-> "built", with |-> f, image |-> b]]
       \/ Reach(b, "failed") /\ UNCHANGED <<sharedTags, overlapped>>
  /\ UNCHANGED <<tools, namespaced>>

\* Mutant of FallbackBuilds: a failed build is saved as if it had succeeded.
FallbackSaves(b) ==
  /\ build[b].at = "build"
  /\ \/ sharedTags' = [sharedTags EXCEPT ![<<build[b].with, BuildTag[b]>>] = b]
     \/ UNCHANGED sharedTags
  /\ Reach(b, "save")
  /\ UNCHANGED <<tools, namespaced, overlapped>>

\* Podman or Docker builds in its own store.
FallbackBuilds(b) ==
  /\ build[b].at = "build"
  /\ \/ GiveTag(b, build[b].with) /\ Reach(b, "save")
     \/ TryNext(b) /\ UNCHANGED <<sharedTags, overlapped>>
  /\ UNCHANGED <<tools, namespaced>>

\* save -o: what the tag names by now, into a file of the build's own.
SaveImage(b) ==
  LET image == sharedTags[<<build[b].with, BuildTag[b]>>] IN
  /\ build[b].at = "save"
  /\ \/ image # NoImage
        /\ build' = [build EXCEPT ![b].at = "load", ![b].image = image]
     \/ TryNext(b)
  /\ UNCHANGED <<tools, namespaced, sharedTags, overlapped>>

\* load -i, into the namespace of the project; the file is removed.
LoadImage(b) ==
  /\ build[b].at = "load"
  /\ \/ /\ namespaced' = [namespaced EXCEPT ![<<BuiltFor[b], BuildTag[b]>>] = build[b].image]
        /\ Reach(b, "built")
     \/ TryNext(b) /\ UNCHANGED namespaced
  /\ UNCHANGED <<tools, sharedTags, overlapped>>

\* A command takes too long, or the process dies: no other builder is tried.
BuildStops(b) ==
  /\ build[b].at \in {"nerdctl", "build", "save", "load"}
  /\ Reach(b, "failed")
  /\ UNCHANGED <<tools, namespaced, sharedTags, overlapped>>

\* A purge removes the images of a namespace, `workerbee cleanup --purge-images` those of a store.
ImagesGo ==
  /\ \/ \E p \in BuildProject :
          /\ namespaced' = [t \in DOMAIN namespaced |-> IF t[1] = p THEN NoImage ELSE namespaced[t]]
          /\ UNCHANGED sharedTags
     \/ \E f \in tools.builders :
          /\ sharedTags' = [t \in DOMAIN sharedTags |-> IF t[1] = f THEN NoImage ELSE sharedTags[t]]
          /\ UNCHANGED namespaced
  /\ UNCHANGED <<tools, build, overlapped>>

BuildNext ==
  \/ \E b \in Build :
       \/ BeginBuild(b) \/ NerdctlBuilds(b) \/ BuildsInPlace(b) \/ FallbackBuilds(b)
       \/ SaveImage(b) \/ LoadImage(b) \/ BuildStops(b)
  \/ ImagesGo

BuildSpec == BuildInit /\ [][BuildNext]_buildVars

-----------------------------------------------------------------------------

\* What a successful build puts under its tag in the project's namespace is its own image,
\* whichever builders failed before, what older builds left in the shared store and whatever
\* is removed meanwhile - unless another build gave the tag to its image between the build
\* and the save (runtime_support.py:1235-1271).
BuiltIsOwn ==
  [][\A b \in Build, t \in DOMAIN namespaced :
       /\ build[b].at # "built" /\ build'[b].at = "built"
       /\ namespaced'[t] # namespaced[t]
       => namespaced'[t] = b \/ b \in overlapped]_buildVars
=============================================================================
