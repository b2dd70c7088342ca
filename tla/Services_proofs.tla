--------------------------- MODULE Services_proofs ---------------------------
(***************************************************************************)
(* The services of a project, for every number of threads, projects, sites *)
(* and files: image builds and the clean-up of a runtime, the stages of    *)
(* manifests and their deployment, profiles, the answers of the DNS        *)
(* service, and the sites of the ingress keep what they promise.           *)
(***************************************************************************)
EXTENDS MCProjectServices, SequenceParts_proofs

-----------------------------------------------------------------------------
(* Image builds. *)

LEMMA NextBuilder ==
  ASSUME BuildTypeOK, NEW b \in Build, TryNext(b)
  PROVE  /\ \A c \in Build \ {b} : build'[c] = build[c]
         /\ build'[b].at \in {"failed", "build"}
         /\ build' \in [Build -> [at : {"idle", "nerdctl", "build", "save", "load", "built",
                                        "failed"},
                                  with : Builder \cup {"nerdctl"}, image : Build \cup {NoImage}]]
<1>1. Foremost(Left(b)) \in Builder
  BY DEF Foremost, Builder
<1> QED
  BY <1>1 DEF TryNext, BuildTypeOK

LEMMA ReachPlace ==
  ASSUME BuildTypeOK, NEW b \in Build, Reach(b, "built") \/ Reach(b, "failed") \/
           Reach(b, "nerdctl") \/ Reach(b, "save")
  PROVE  /\ \A c \in Build \ {b} : build'[c] = build[c]
         /\ build'[b].at \in {"built", "failed", "nerdctl", "save"}
         /\ Reach(b, "built") \/ Reach(b, "failed") \/ Reach(b, "nerdctl") =>
              build'[b].at # "save"
         /\ build'[b].with = build[b].with
         /\ build' \in [Build -> [at : {"idle", "nerdctl", "build", "save", "load", "built",
                                        "failed"},
                                  with : Builder \cup {"nerdctl"}, image : Build \cup {NoImage}]]
BY DEF Reach, BuildTypeOK

(* A build in the builders' stores has one of them; and until it is saved *)
(* and loaded, what the tag names there is the image of this build, unless  *)
(* another one took the tag.                                                *)
TagIsOwn ==
  /\ \A b \in Build : build[b].at \in {"build", "save"} => build[b].with \in Builder
  /\ \A b \in Build \ overlapped :
       /\ build[b].at = "save" => sharedTags[<<build[b].with, BuildTag[b]>>] \in {b, NoImage}
       /\ build[b].at = "load" => build[b].image = b

BuildInv == BuildTypeOK /\ TagIsOwn

LEMMA InitBuild == BuildInit => BuildInv
BY DEF BuildInit, BuildInv, BuildTypeOK, TagIsOwn

LEMMA TagsTyped ==
  ASSUME NEW b \in Build
  PROVE  /\ <<BuiltFor[b], BuildTag[b]>> \in BuildProject \X Tags
         /\ \A f \in Builder : <<f, BuildTag[b]>> \in Builder \X Tags
BY DEF BuildProject, Tags

LEMMA StepBuild == BuildInv /\ [BuildNext]_buildVars => BuildInv'
<1> SUFFICES ASSUME BuildInv, [BuildNext]_buildVars PROVE BuildInv'
  OBVIOUS
<1> USE DEF BuildInv
<1>1. ASSUME NEW b \in Build, BeginBuild(b) PROVE BuildInv'
  <2>1. CASE TryNext(b)
    BY <1>1, <2>1, NextBuilder DEF BeginBuild, BuildTypeOK, TagIsOwn, TryNext, Foremost, Builder
  <2>2. CASE Reach(b, "nerdctl")
    <3>1. BuildTypeOK'
      BY <1>1, <2>2, ReachPlace DEF BeginBuild, BuildTypeOK
    <3>2. TagIsOwn'
      BY <1>1, <2>2, ReachPlace DEF BeginBuild, TagIsOwn
    <3> QED
      BY <3>1, <3>2
  <2> QED
    BY <1>1, <2>1, <2>2 DEF BeginBuild
<1>2. ASSUME NEW b \in Build, NerdctlBuilds(b) PROVE BuildInv'
  <2>1. CASE TryNext(b) /\ UNCHANGED namespaced
    BY <1>2, <2>1, NextBuilder
    DEF NerdctlBuilds, BuildTypeOK, TagIsOwn, TryNext, Foremost, Builder
  <2>2. CASE /\ Reach(b, "built")
             /\ namespaced' = [namespaced EXCEPT ![<<BuiltFor[b], BuildTag[b]>>] = b]
    <3>1. namespaced' \in [BuildProject \X Tags -> Build \cup {NoImage}]
      BY <2>2, TagsTyped DEF BuildTypeOK
    <3>2. TagIsOwn'
      BY <1>2, <2>2, ReachPlace DEF NerdctlBuilds, TagIsOwn
    <3> QED
      BY <1>2, <2>2, <3>1, <3>2, ReachPlace DEF NerdctlBuilds, BuildTypeOK
  <2> QED
    BY <1>2, <2>1, <2>2 DEF NerdctlBuilds
<1>3. ASSUME NEW b \in Build, BuildsInPlace(b) PROVE BuildInv'
  <2>1. PICK f \in tools.builders :
          \/ /\ GiveTag(b, f)
             /\ build' = [build EXCEPT ![b] = [at |-> "built", with |-> f, image |-> b]]
          \/ Reach(b, "failed") /\ UNCHANGED <<sharedTags, overlapped>>
    BY <1>3 DEF BuildsInPlace
  <2>2. f \in Builder
    BY DEF BuildTypeOK
  <2>3. CASE /\ GiveTag(b, f)
             /\ build' = [build EXCEPT ![b] = [at |-> "built", with |-> f, image |-> b]]
    <3>1. BuildTypeOK'
      BY <1>3, <2>2, <2>3, TagsTyped DEF BuildsInPlace, GiveTag, BuildTypeOK
    <3>2. /\ build'[b].at = "built"
          /\ \A c \in Build \ {b} : build'[c] = build[c]
      BY <2>3 DEF BuildTypeOK
    <3>3. ASSUME NEW c \in Build \ overlapped', (build[c].at = "save")'
          PROVE  sharedTags'[<<build'[c].with, BuildTag[c]>>] \in {c, NoImage}
      <4>1. c # b /\ build'[c] = build[c] /\ build[c].at = "save" /\ c \notin overlapped
        BY <2>3, <3>2, <3>3 DEF GiveTag
      <4>2. <<build[c].with, BuildTag[c]>> # <<f, BuildTag[b]>>
        BY <2>3, <3>3, <4>1 DEF GiveTag
      <4> QED
        BY <2>3, <4>1, <4>2, TagsTyped DEF GiveTag, TagIsOwn, BuildTypeOK
    <3>4. TagIsOwn'
      BY <2>3, <3>2, <3>3 DEF TagIsOwn, GiveTag
    <3> QED
      BY <3>1, <3>4
  <2>4. CASE Reach(b, "failed") /\ UNCHANGED <<sharedTags, overlapped>>
    <3>1. BuildTypeOK'
      BY <1>3, <2>4, ReachPlace DEF BuildsInPlace, BuildTypeOK
    <3>2. TagIsOwn'
      BY <1>3, <2>4, ReachPlace DEF BuildsInPlace, TagIsOwn
    <3> QED
      BY <3>1, <3>2
  <2> QED
    BY <2>1, <2>3, <2>4
<1>4. ASSUME NEW b \in Build, FallbackBuilds(b) PROVE BuildInv'
  <2>1. CASE TryNext(b) /\ UNCHANGED <<sharedTags, overlapped>>
    BY <1>4, <2>1, NextBuilder
    DEF FallbackBuilds, BuildTypeOK, TagIsOwn, TryNext, Foremost, Builder
  <2>2. CASE GiveTag(b, build[b].with) /\ Reach(b, "save")
    <3>1. build[b].with \in Builder
      BY <1>4 DEF FallbackBuilds, TagIsOwn
    <3>2. BuildTypeOK'
      BY <1>4, <2>2, <3>1, ReachPlace, TagsTyped DEF FallbackBuilds, BuildTypeOK, GiveTag
    <3>3. /\ build'[b].at = "save" /\ build'[b].with = build[b].with
          /\ \A c \in Build \ {b} : build'[c] = build[c]
      BY <2>2 DEF Reach, BuildTypeOK
    <3>4. ASSUME NEW c \in Build \ overlapped', (build[c].at = "save")'
          PROVE  sharedTags'[<<build'[c].with, BuildTag[c]>>] \in {c, NoImage}
      <4>1. CASE c = b
        BY <2>2, <3>1, <3>3, <4>1, TagsTyped DEF GiveTag, BuildTypeOK
      <4>2. CASE c # b
        <5>1. build'[c] = build[c] /\ build[c].at = "save" /\ c \notin overlapped
          BY <2>2, <3>3, <3>4, <4>2 DEF GiveTag
        <5>2. <<build[c].with, BuildTag[c]>> # <<build[b].with, BuildTag[b]>>
          BY <2>2, <3>4, <4>2, <5>1 DEF GiveTag
        <5> QED
          BY <2>2, <3>1, <5>1, <5>2, TagsTyped DEF GiveTag, TagIsOwn, BuildTypeOK
      <4> QED
        BY <4>1, <4>2
    <3>5. TagIsOwn'
      BY <2>2, <3>1, <3>3, <3>4 DEF TagIsOwn, GiveTag
    <3> QED
      BY <3>2, <3>5
  <2> QED
    BY <1>4, <2>1, <2>2 DEF FallbackBuilds
<1>5. ASSUME NEW b \in Build, SaveImage(b) PROVE BuildInv'
  <2> DEFINE image == sharedTags[<<build[b].with, BuildTag[b]>>]
  <2>1. CASE TryNext(b)
    BY <1>5, <2>1, NextBuilder DEF SaveImage, BuildTypeOK, TagIsOwn, TryNext, Foremost, Builder
  <2>2. CASE /\ image # NoImage
             /\ build' = [build EXCEPT ![b].at = "load", ![b].image = image]
    <3>1. b \notin overlapped => image = b
      BY <1>5, <2>2 DEF SaveImage, TagIsOwn
    <3>2. image \in Build \cup {NoImage}
      BY <1>5, TagsTyped DEF SaveImage, BuildTypeOK, TagIsOwn
    <3> HIDE DEF image
    <3> QED
      BY <1>5, <2>2, <3>1, <3>2 DEF SaveImage, BuildTypeOK, TagIsOwn
  <2> QED
    BY <1>5, <2>1, <2>2 DEF SaveImage
<1>6. ASSUME NEW b \in Build, LoadImage(b) PROVE BuildInv'
  <2>1. CASE TryNext(b) /\ UNCHANGED namespaced
    BY <1>6, <2>1, NextBuilder
    DEF LoadImage, BuildTypeOK, TagIsOwn, TryNext, Foremost, Builder
  <2>2. CASE /\ namespaced' = [namespaced EXCEPT ![<<BuiltFor[b], BuildTag[b]>>] = build[b].image]
             /\ Reach(b, "built")
    <3>1. namespaced' \in [BuildProject \X Tags -> Build \cup {NoImage}]
      BY <2>2, TagsTyped DEF BuildTypeOK
    <3>2. TagIsOwn'
      BY <1>6, <2>2, ReachPlace DEF LoadImage, TagIsOwn
    <3> QED
      BY <1>6, <2>2, <3>1, <3>2, ReachPlace DEF LoadImage, BuildTypeOK
  <2> QED
    BY <1>6, <2>1, <2>2 DEF LoadImage
<1>7. ASSUME NEW b \in Build, BuildStops(b) PROVE BuildInv'
  BY <1>7, ReachPlace DEF BuildStops, BuildTypeOK, TagIsOwn
<1>8. CASE ImagesGo
  <2>1. BuildTypeOK'
    BY <1>8 DEF ImagesGo, BuildTypeOK
  <2>2. \A t \in Builder \X Tags : sharedTags'[t] \in {sharedTags[t], NoImage}
    BY <1>8 DEF ImagesGo, BuildTypeOK
  <2>3. TagIsOwn'
    BY <1>8, <2>2, TagsTyped DEF ImagesGo, TagIsOwn
  <2> QED
    BY <2>1, <2>3
<1>9. CASE UNCHANGED buildVars
  BY <1>9 DEF buildVars, BuildTypeOK, TagIsOwn
<1> QED
  BY <1>1, <1>2, <1>3, <1>4, <1>5, <1>6, <1>7, <1>8, <1>9 DEF BuildNext

LEMMA BuildInvariant == BuildSpec => []BuildInv
BY InitBuild, StepBuild, PTL DEF BuildSpec

(* The builds, the tags and the images have the types the code gives them. *)
THEOREM BuildTypeCorrect == BuildSpec => []BuildTypeOK
BY BuildInvariant, PTL DEF BuildInv

(* A build that succeeds puts its own image under its tag in the project's *)
(* namespace, unless another build gave the tag to its image between the   *)
(* build and the save (runtime_support.py:1235-1271), whatever number of   *)
(* builds overlap.                                                         *)
THEOREM BuiltAreOwn == BuildSpec => BuiltIsOwn
<1> DEFINE Own == \A b \in Build, t \in DOMAIN namespaced :
                    /\ build[b].at # "built" /\ build'[b].at = "built"
                    /\ namespaced'[t] # namespaced[t]
                    => namespaced'[t] = b \/ b \in overlapped
<1>1. BuildInv /\ [BuildNext]_buildVars => [Own]_buildVars
  <2> SUFFICES ASSUME BuildInv, BuildNext,
                      NEW b \in Build, NEW t \in DOMAIN namespaced,
                      build[b].at # "built", build'[b].at = "built",
                      namespaced'[t] # namespaced[t]
               PROVE  namespaced'[t] = b \/ b \in overlapped
    BY DEF buildVars
  <2> USE DEF BuildInv
  <2>1. PICK c \in Build : NerdctlBuilds(c) \/ LoadImage(c)
    BY DEF BuildNext, BeginBuild, BuildsInPlace, FallbackBuilds, SaveImage, BuildStops, ImagesGo
  <2>2. c = b
    <3>1. SUFFICES ASSUME c # b PROVE FALSE
      OBVIOUS
    <3>2. build'[b] = build[b]
      BY <2>1, <3>1, NextBuilder, ReachPlace DEF NerdctlBuilds, LoadImage
    <3> QED
      BY <3>2
  <2>3. CASE NerdctlBuilds(b)
    BY <2>3 DEF NerdctlBuilds, BuildTypeOK
  <2>4. CASE LoadImage(b)
    BY <2>4 DEF LoadImage, BuildTypeOK, TagIsOwn
  <2> QED
    BY <2>1, <2>2, <2>3, <2>4
<1>2. BuildSpec => [][Own]_buildVars
  BY BuildInvariant, <1>1, PTL DEF BuildSpec
<1> QED
  BY <1>2 DEF BuiltIsOwn

-----------------------------------------------------------------------------
(* The clean-up of a container runtime. *)

Cleaned(p) == stack[p] # NoRuntime \/ (handler[p].purge /\ handler[p].runtime = "containerd")

(* The containers a stop of the project can find in a runtime. *)
Findable(p, r) ==
  {c \in containers : /\ c[1] = r /\ OwnerOf[c[2]] = p
                      /\ r = "docker" => Labelled(p, c[2], TRUE)}

(* No stray starts containers where the project is being cleaned.           *)
NoStray(p) == <<Cleaning(p), p>> \notin strays

(* What is known of a project while its handler is on the way, and after it *)
(* has reported.  Once the controller is gone nothing but a stray starts a  *)
(* container, so that what is listed is all there is to remove.             *)
OwnerIsClean(p) ==
  LET h == handler[p] IN
  /\ p \in controlled => stack[p] # NoRuntime /\ done[p].runtime = NoRuntime
  /\ h.at \in {"list", "remove", "network", "record", "labels", "ensure", "launch", "popen"}
       /\ ~h.reset => p \notin controlled
  /\ h.reset => h.at \in {"list", "remove"}
  /\ h.at \in {"labels", "ensure", "launch", "popen", "pid"} => h.restart
  /\ h.at = "popen" => stack[p] # NoRuntime
  /\ h.restart => done[p].runtime = NoRuntime /\ h.runtime \in Runtime
  /\ h.at \in {"kill", "list"} => h.listed = {}
  /\ h.at = "remove" /\ ~h.failed /\ ~h.reset /\ NoStray(p) => Findable(p, Cleaning(p)) \subseteq h.listed
  /\ h.at = "remove" /\ Cleaning(p) = "containerd" /\ done[p].runtime = "containerd" =>
       h.listed = {}
  /\ h.at \in {"network", "record"} /\ Cleaned(p) /\ ~h.failed /\ NoStray(p) =>
       Findable(p, Cleaning(p)) = {}
  /\ h.at = "record" /\ Cleaned(p) /\ h.purge /\ ~h.failed => <<Cleaning(p), p>> \notin networks
  /\ done[p].runtime # NoRuntime =>
       Findable(p, done[p].runtime) = {} /\ <<done[p].runtime, p>> \notin strays
  /\ done[p].runtime # NoRuntime /\ done[p].purge => <<done[p].runtime, p>> \notin networks

CleanupInv == CleanupTypeOK /\ \A p \in Owner : OwnerIsClean(p)

Hands ==
  [at : {"idle", "kill", "list", "remove", "network", "record", "labels", "ensure", "launch",
         "popen", "pid"},
   runtime : Runtime \cup {NoRuntime}, purge : BOOLEAN, restart : BOOLEAN,
   reset : BOOLEAN, listed : SUBSET (Runtime \X Apps), failed : BOOLEAN]

LEMMA HandsTyped == CleanupTypeOK => handler \in [Owner -> Hands] /\ Resting \in Hands
BY DEF CleanupTypeOK, Hands, Resting

LEMMA InitCleanup == CleanupInit => CleanupInv
BY DEF CleanupInit, CleanupInv, CleanupTypeOK, OwnerIsClean, NoStray, Resting, Asleep,
       NothingDone, Findable, Cleaned

(* What others do to a project: they remove containers and networks. *)
LEMMA OthersOnlyRemove ==
  ASSUME NEW p \in Owner, OwnerIsClean(p),
         handler'[p] = handler[p], stack'[p] = stack[p], done'[p] = done[p],
         p \in controlled' => p \in controlled,
         \A r \in Runtime : <<r, p>> \in strays' <=> <<r, p>> \in strays,
         \A c \in containers' : OwnerOf[c[2]] = p => c \in containers,
         \A r \in Runtime : <<r, p>> \in networks' => <<r, p>> \in networks,
         CleanupTypeOK
  PROVE  OwnerIsClean(p)'
<1>1. \A r : Findable(p, r)' \subseteq Findable(p, r)
  BY DEF Findable
<1>2. Cleaning(p)' = Cleaning(p) /\ Cleaned(p)' = Cleaned(p)
  BY DEF Cleaning, Cleaned
<1>3. Cleaned(p) => Cleaning(p) \in Runtime
  BY DEF Cleaning, Cleaned, CleanupTypeOK, Runtime
<1>4. done[p].runtime # NoRuntime => done[p].runtime \in Runtime
  BY DEF CleanupTypeOK
<1>5. NoStray(p)' => NoStray(p)
  BY <1>2 DEF NoStray, CleanupTypeOK
<1>6. done[p].runtime # NoRuntime /\ <<done[p].runtime, p>> \notin strays =>
        <<done[p].runtime, p>> \notin strays'
  BY <1>4
<1> QED
  BY <1>1, <1>2, <1>3, <1>4, <1>5, <1>6 DEF OwnerIsClean

LEMMA StepCleanup == CleanupInv /\ [CleanupNext]_cleanupVars => CleanupInv'
<1> SUFFICES ASSUME CleanupInv, [CleanupNext]_cleanupVars PROVE CleanupInv'
  OBVIOUS
<1> USE CleanupAssumption DEF CleanupInv, controllers
<1>1. ASSUME NEW p \in Owner, BeginStart(p) PROVE CleanupInv'
  <2>1. PICK r \in Runtime :
          Enter(p, [Resting EXCEPT !.at = IF stack[p] = NoRuntime THEN "labels" ELSE "kill",
                                   !.runtime = r, !.restart = TRUE])
    BY <1>1 DEF BeginStart
  <2> DEFINE h == [Resting EXCEPT !.at = IF stack[p] = NoRuntime THEN "labels" ELSE "kill",
                                  !.runtime = r, !.restart = TRUE]
  <2>2. /\ h \in Hands /\ ~h.reset /\ h.restart /\ h.listed = {} /\ h.at \in {"labels", "kill"}
        /\ h.runtime \in Runtime
        /\ h.at = "labels" => stack[p] = NoRuntime
    BY DEF Hands, Resting
  <2> HIDE DEF h
  <2>3. handler' = [handler EXCEPT ![p] = h] /\ done' = [done EXCEPT ![p] = NothingDone]
    BY <1>1, <2>1 DEF BeginStart, Enter, NothingReported, h
  <2>4. CleanupTypeOK'
    BY <1>1, <2>2, <2>3 DEF BeginStart, CleanupTypeOK, Hands, NothingDone
  <2>5. OwnerIsClean(p)'
    <3>1. handler'[p] = h /\ done'[p].runtime = NoRuntime
      BY <2>3 DEF CleanupTypeOK, NothingDone
    <3> QED
      BY <1>1, <2>2, <3>1 DEF BeginStart, OwnerIsClean
  <2>6. \A q \in Owner \ {p} : OwnerIsClean(q)'
    BY <1>1, <2>3, OthersOnlyRemove DEF BeginStart
  <2> QED
    BY <2>4, <2>5, <2>6
<1>2. ASSUME NEW p \in Owner, BeginStop(p) PROVE CleanupInv'
  <2>1. PICK r \in Runtime, whole \in BOOLEAN :
          Enter(p, [Resting EXCEPT !.at = "kill", !.runtime = r, !.purge = whole])
    BY <1>2 DEF BeginStop
  <2> DEFINE h == [Resting EXCEPT !.at = "kill", !.runtime = r, !.purge = whole]
  <2>2. h \in Hands /\ ~h.reset /\ h.listed = {} /\ h.at = "kill" /\ ~h.restart
    BY DEF Hands, Resting
  <2> HIDE DEF h
  <2>3. handler' = [handler EXCEPT ![p] = h]
    BY <2>1 DEF Enter, h
  <2>4. CleanupTypeOK'
    BY <1>2, <2>2, <2>3 DEF BeginStop, CleanupTypeOK, Hands
  <2>5. OwnerIsClean(p)'
    <3>1. handler'[p] = h /\ \A x : Findable(p, x)' = Findable(p, x)
      BY <1>2, <2>3 DEF BeginStop, CleanupTypeOK, Findable
    <3> QED
      BY <1>2, <2>2, <3>1 DEF BeginStop, OwnerIsClean
  <2>6. \A q \in Owner \ {p} : OwnerIsClean(q)'
    BY <1>2, <2>3, OthersOnlyRemove DEF BeginStop
  <2> QED
    BY <2>4, <2>5, <2>6
<1>3. ASSUME NEW p \in Owner, BeginReset(p) PROVE CleanupInv'
  <2> DEFINE h == [Resting EXCEPT !.at = "list", !.runtime = stack[p], !.reset = TRUE]
  <2>1. h \in Hands /\ h.reset /\ h.listed = {} /\ h.at = "list" /\ ~h.restart
    BY DEF Hands, Resting, CleanupTypeOK
  <2>2. handler' = [handler EXCEPT ![p] = h]
    BY <1>3 DEF BeginReset, Enter
  <2> HIDE DEF h
  <2>3. CleanupTypeOK'
    BY <1>3, <2>1, <2>2 DEF BeginReset, CleanupTypeOK, Hands
  <2>4. OwnerIsClean(p)'
    BY <1>3, <2>1, <2>2 DEF BeginReset, OwnerIsClean, CleanupTypeOK, Findable
  <2>5. \A q \in Owner \ {p} : OwnerIsClean(q)'
    BY <1>3, <2>2, OthersOnlyRemove DEF BeginReset
  <2> QED
    BY <2>3, <2>4, <2>5
<1>4. ASSUME NEW p \in Owner, KillController(p) PROVE CleanupInv'
  <2> DEFINE next == IF stack[p] # NoRuntime \/ (handler[p].purge /\ handler[p].runtime = "containerd")
                   THEN "list" ELSE "record"
  <2>1. /\ next \in {"list", "record"}
        /\ next = "list" <=> Cleaned(p)
        /\ handler' = [handler EXCEPT ![p] = [handler[p] EXCEPT !.at = next]]
    BY <1>4 DEF KillController, StepTo, Cleaned
  <2>2. [handler[p] EXCEPT !.at = next] \in Hands
    BY <2>1, HandsTyped DEF Hands
  <2> HIDE DEF next
  <2>3. handler' \in [Owner -> Hands]
    BY <2>1, <2>2, HandsTyped
  <2>4. CleanupTypeOK'
    <3>0. p \in controlled => stack[p] \in Runtime
      BY DEF CleanupTypeOK, OwnerIsClean
    <3>1. strays' \subseteq Runtime \X Owner
      BY <1>4, <3>0 DEF KillController, LoseController, CleanupTypeOK
    <3> QED
      BY <1>4, <2>3, <3>1 DEF KillController, LoseController, CleanupTypeOK, Hands
  <2>5. /\ handler'[p] = [handler[p] EXCEPT !.at = next]
        /\ handler'[p].at = next /\ handler'[p].reset = handler[p].reset
        /\ handler'[p].restart = handler[p].restart /\ handler'[p].listed = handler[p].listed
        /\ handler'[p].purge = handler[p].purge /\ handler'[p].runtime = handler[p].runtime
    BY <2>1, HandsTyped DEF Hands
  <2>6. /\ p \notin controlled' /\ Cleaned(p)' = Cleaned(p)
        /\ controlled' = controlled \ {p}
        /\ done[p].runtime # NoRuntime => strays' = strays
        /\ \A q \in Owner \ {p}, r \in Runtime : <<r, q>> \in strays' <=> <<r, q>> \in strays
    BY <1>4, <2>5 DEF KillController, LoseController, OwnerIsClean, Cleaned
  <2>7. OwnerIsClean(p)'
    <3>1. \A r : Findable(p, r)' = Findable(p, r)
      BY <1>4 DEF KillController, Findable
    <3> QED
      BY <1>4, <2>1, <2>5, <2>6, <3>1 DEF KillController, OwnerIsClean
  <2>8. \A q \in Owner \ {p} : OwnerIsClean(q)'
    BY <1>4, <2>1, <2>6, OthersOnlyRemove DEF KillController, CleanupTypeOK
  <2> QED
    BY <2>4, <2>7, <2>8
<1>5. ASSUME NEW p \in Owner, ListContainers(p) PROVE CleanupInv'
  <2>1. PICK l \in SUBSET (Runtime \X Apps), f \in BOOLEAN :
          /\ handler' = [handler EXCEPT ![p] = [handler[p] EXCEPT !.at = "remove", !.listed = l,
                                                                !.failed = f]]
          /\ l = Listed(p, Cleaning(p), TRUE) \/ (l = handler[p].listed /\ f)
          /\ l = Listed(p, Cleaning(p), TRUE) \/ l = {}
    <3>1. CASE handler' = [handler EXCEPT ![p].at = "remove",
                                          ![p].listed = Listed(p, Cleaning(p), TRUE)]
      <4> DEFINE l == Listed(p, Cleaning(p), TRUE)
      <4>1. l \in SUBSET (Runtime \X Apps)
        BY DEF Listed, CleanupTypeOK
      <4>2. handler[p].failed \in BOOLEAN
        BY HandsTyped DEF Hands
      <4> HIDE DEF l
      <4>3. handler' = [handler EXCEPT ![p] = [handler[p] EXCEPT !.at = "remove", !.listed = l,
                                                 !.failed = handler[p].failed]]
        BY <3>1, HandsTyped DEF Hands, l
      <4> QED
        BY <4>1, <4>2, <4>3 DEF l
    <3>2. CASE handler' = [handler EXCEPT ![p].at = "remove", ![p].failed = TRUE]
      <4>1. handler[p].listed = {}
        BY <1>5 DEF ListContainers, OwnerIsClean
      <4>2. handler' = [handler EXCEPT ![p] = [handler[p] EXCEPT !.at = "remove", !.listed = {},
                                                 !.failed = TRUE]]
        BY <3>2, <4>1, HandsTyped DEF Hands
      <4> QED
        BY <4>1, <4>2
    <3> QED
      BY <1>5, <3>1, <3>2 DEF ListContainers
  <2>2. [handler[p] EXCEPT !.at = "remove", !.listed = l, !.failed = f] \in Hands
    BY HandsTyped DEF Hands
  <2>3. handler' \in [Owner -> Hands]
    BY <2>1, <2>2, HandsTyped
  <2>4. CleanupTypeOK'
    BY <1>5, <2>3 DEF ListContainers, CleanupTypeOK, Hands
  <2>5. /\ handler'[p].at = "remove" /\ handler'[p].reset = handler[p].reset
        /\ handler'[p].restart = handler[p].restart /\ handler'[p].listed = l
        /\ handler'[p].purge = handler[p].purge /\ handler'[p].runtime = handler[p].runtime
        /\ handler'[p].failed = f
    BY <2>1, HandsTyped DEF Hands
  <2>6. \A r : Findable(p, r)' = Findable(p, r)
    BY <1>5 DEF ListContainers, Findable
  <2>7. Cleaning(p)' = Cleaning(p) /\ NoStray(p)' = NoStray(p)
    BY <1>5, <2>5 DEF ListContainers, Cleaning, NoStray
  <2>8. Findable(p, Cleaning(p)) \subseteq Listed(p, Cleaning(p), TRUE)
    BY DEF Findable, Listed
  <2>9. Cleaning(p) = "containerd" => Listed(p, Cleaning(p), TRUE) \subseteq Findable(p, Cleaning(p))
    BY DEF Findable, Listed
  <2>10. OwnerIsClean(p)'
    <3>1. f \/ Findable(p, Cleaning(p)) \subseteq l
      BY <2>1, <2>8
    <3>2. Cleaning(p) = "containerd" /\ done[p].runtime = "containerd" => l = {}
      BY <2>1, <2>9, CleanupAssumption DEF OwnerIsClean, Runtime
    <3> QED
      <4>1. p \in controlled => handler[p].reset
        BY <1>5 DEF ListContainers, OwnerIsClean
      <4>2. (Findable(p, Cleaning(p)))' = Findable(p, Cleaning(p))
        BY <2>6, <2>7
      <4>3. (Findable(p, done[p].runtime))' = Findable(p, done[p].runtime)
        BY <1>5, <2>6 DEF ListContainers
      <4> QED
        BY <1>5, <2>5, <2>7, <3>1, <3>2, <4>1, <4>2, <4>3 DEF ListContainers, OwnerIsClean
  <2>11. \A q \in Owner \ {p} : OwnerIsClean(q)'
    BY <1>5, <2>1, OthersOnlyRemove DEF ListContainers
  <2> QED
    BY <2>4, <2>10, <2>11
<1>6. ASSUME NEW p \in Owner, RemoveContainers(p) PROVE CleanupInv'
  <2>1. PICK gone \in SUBSET handler[p].listed, g \in Hands :
          /\ containers' = containers \ gone
          /\ handler' = [handler EXCEPT ![p] = g]
          /\ IF handler[p].reset THEN g = Resting
             ELSE /\ g.at = "network" /\ g.listed = {} /\ g.reset = handler[p].reset
                  /\ g.restart = handler[p].restart /\ g.purge = handler[p].purge
                  /\ g.runtime = handler[p].runtime
                  /\ ~g.failed => ~handler[p].failed /\ gone = handler[p].listed
    <3>1. CASE Removal(p)
      <4>1. PICK gone \in SUBSET handler[p].listed :
              /\ containers' = containers \ gone
              /\ IF handler[p].reset
                 THEN Enter(p, Resting)
                 ELSE handler' = [handler EXCEPT ![p].at = "network", ![p].listed = {},
                                                 ![p].failed = @ \/ gone # handler[p].listed]
        BY <3>1 DEF Removal
      <4>2. CASE handler[p].reset
        BY <4>1, <4>2, HandsTyped DEF Enter
      <4>3. CASE ~handler[p].reset
        <5> DEFINE f == handler[p].failed \/ gone # handler[p].listed
        <5>1. f \in BOOLEAN
          OBVIOUS
        <5>2. ~f => ~handler[p].failed /\ gone = handler[p].listed
          OBVIOUS
        <5>3. handler' = [handler EXCEPT ![p] = [handler[p] EXCEPT !.at = "network",
                                                  !.listed = {}, !.failed = f]]
          BY <4>1, <4>3, HandsTyped DEF Hands
        <5> HIDE DEF f
        <5>4. [handler[p] EXCEPT !.at = "network", !.listed = {}, !.failed = f] \in Hands
          BY <5>1, HandsTyped DEF Hands
        <5> QED
          BY <4>1, <4>3, <5>2, <5>3, <5>4, HandsTyped, ZenonT(60) DEF Hands
      <4> QED
        BY <4>2, <4>3
    <3>2. CASE /\ Enter(p, IF handler[p].reset THEN Resting
                           ELSE [handler[p] EXCEPT !.at = "network", !.listed = {},
                                                   !.failed = TRUE])
               /\ UNCHANGED containers
      <4>1. [handler[p] EXCEPT !.at = "network", !.listed = {}, !.failed = TRUE] \in Hands
        BY HandsTyped DEF Hands
      <4>2. containers' = containers \ {}
        BY <3>2
      <4> QED
        BY <3>2, <4>1, <4>2, HandsTyped, ZenonT(60) DEF Enter, Hands
    <3> QED
      BY <1>6, <3>1, <3>2 DEF RemoveContainers
  <2>2. /\ networks \subseteq networks' /\ networks' \subseteq networks \cup {<<"containerd", p>>}
        /\ networks' # networks =>
             handler[p].listed # {} /\ Cleaning(p) = "containerd"
    BY <1>6 DEF RemoveContainers, MissingNetwork
  <2>3. handler'[p] = g /\ handler[p].at = "remove"
    BY <1>6, <2>1 DEF RemoveContainers, CleanupTypeOK
  <2>4. CleanupTypeOK'
    BY <1>6, <2>1, <2>2 DEF RemoveContainers, CleanupTypeOK, Hands, Runtime
  <2>5. /\ \A r : Findable(p, r)' = Findable(p, r) \ gone
        /\ ~handler[p].reset =>
             Cleaning(p)' = Cleaning(p) /\ Cleaned(p)' = Cleaned(p) /\ NoStray(p)' = NoStray(p)
    <3>1. \A r : Findable(p, r)' = Findable(p, r) \ gone
      BY <2>1 DEF Findable
    <3>2. stack' = stack /\ strays' = strays
      BY <1>6 DEF RemoveContainers
    <3>3. ~handler[p].reset => Cleaning(p)' = Cleaning(p) /\ Cleaned(p)' = Cleaned(p)
      BY <2>1, <2>3, <3>2 DEF Cleaning, Cleaned
    <3> QED
      BY <3>1, <3>2, <3>3 DEF NoStray
  <2>6. done[p].runtime # NoRuntime /\ done[p].purge => <<done[p].runtime, p>> \notin networks'
    <3>1. CASE networks' = networks
      BY <3>1 DEF OwnerIsClean
    <3>2. CASE networks' # networks
      BY <2>2, <2>3, <3>2 DEF OwnerIsClean
    <3> QED
      BY <3>1, <3>2
  <2>7. OwnerIsClean(p)'
    <3>1. CASE handler[p].reset
      <4>1. handler'[p].at = "idle" /\ ~handler'[p].reset /\ ~handler'[p].restart
        BY <2>1, <2>3, <3>1 DEF Resting
      <4> QED
        BY <1>6, <2>5, <2>6, <4>1 DEF RemoveContainers, OwnerIsClean
    <3>2. CASE ~handler[p].reset
      BY <1>6, <2>1, <2>3, <2>5, <2>6, <3>2 DEF RemoveContainers, OwnerIsClean
    <3> QED
      BY <3>1, <3>2
  <2>8. \A q \in Owner \ {p} : OwnerIsClean(q)'
    BY <1>6, <2>1, <2>2, OthersOnlyRemove DEF RemoveContainers
  <2> QED
    BY <2>4, <2>7, <2>8
<1>7. ASSUME NEW p \in Owner, RemoveNetwork(p) PROVE CleanupInv'
  <2>1. PICK f \in BOOLEAN :
          /\ handler' = [handler EXCEPT ![p] = [handler[p] EXCEPT !.at = "record", !.failed = f]]
          /\ handler[p].failed => f
          /\ networks' \subseteq networks
          /\ ~f /\ handler[p].purge => <<Cleaning(p), p>> \notin networks'
    <3>1. CASE /\ networks' = IF handler[p].purge THEN networks \ {<<Cleaning(p), p>>} ELSE networks
               /\ StepTo(p, "record")
      <4>1. handler' = [handler EXCEPT ![p] = [handler[p] EXCEPT !.at = "record",
                                                 !.failed = handler[p].failed]]
        BY <3>1, HandsTyped DEF StepTo, Hands
      <4>2. handler[p].failed \in BOOLEAN
        BY HandsTyped DEF Hands
      <4> QED
        BY <3>1, <4>1, <4>2
    <3>2. CASE /\ handler' = [handler EXCEPT ![p].at = "record", ![p].failed = TRUE]
               /\ UNCHANGED networks
      <4>1. handler' = [handler EXCEPT ![p] = [handler[p] EXCEPT !.at = "record",
                                                 !.failed = TRUE]]
        BY <3>2, HandsTyped DEF Hands
      <4> QED
        BY <3>2, <4>1
    <3> QED
      BY <1>7, <3>1, <3>2 DEF RemoveNetwork
  <2>2. [handler[p] EXCEPT !.at = "record", !.failed = f] \in Hands
    BY HandsTyped DEF Hands
  <2>3. handler' \in [Owner -> Hands]
    BY <2>1, <2>2, HandsTyped
  <2>4. CleanupTypeOK'
    BY <1>7, <2>1, <2>3 DEF RemoveNetwork, CleanupTypeOK, Hands
  <2>5. /\ handler'[p].at = "record" /\ handler'[p].reset = handler[p].reset
        /\ handler'[p].restart = handler[p].restart
        /\ handler'[p].purge = handler[p].purge /\ handler'[p].runtime = handler[p].runtime
        /\ handler'[p].failed = f /\ handler[p].at = "network"
    BY <1>7, <2>1, HandsTyped DEF RemoveNetwork, Hands
  <2>6. /\ \A r : Findable(p, r)' = Findable(p, r)
        /\ Cleaning(p)' = Cleaning(p) /\ Cleaned(p)' = Cleaned(p) /\ NoStray(p)' = NoStray(p)
    BY <1>7, <2>5 DEF RemoveNetwork, Findable, Cleaning, Cleaned, NoStray
  <2>7. /\ (Findable(p, Cleaning(p)))' = Findable(p, Cleaning(p))
        /\ (Findable(p, done[p].runtime))' = Findable(p, done[p].runtime)
    BY <1>7, <2>6 DEF RemoveNetwork
  <2>8. OwnerIsClean(p)'
    BY <1>7, <2>1, <2>5, <2>6, <2>7 DEF RemoveNetwork, OwnerIsClean
  <2>9. \A q \in Owner \ {p} : OwnerIsClean(q)'
    BY <1>7, <2>1, OthersOnlyRemove DEF RemoveNetwork
  <2> QED
    BY <2>4, <2>8, <2>9
<1>8. ASSUME NEW p \in Owner, ForgetStack(p) PROVE CleanupInv'
  <2>1. /\ networks' \subseteq networks /\ specs' \subseteq specs
        /\ stack' = [stack EXCEPT ![p] = NoRuntime]
    BY <1>8 DEF ForgetStack
  <2>2. /\ handler[p].at = "record" /\ ~handler[p].reset /\ p \notin controlled
        /\ UNCHANGED <<containers, controllers, sweep>>
    BY <1>8 DEF ForgetStack, OwnerIsClean
  <2>3. PICK g \in Hands :
          /\ handler' = [handler EXCEPT ![p] = g]
          /\ ~g.reset /\ g.restart = handler[p].restart
          /\ g.at \in {"labels", "idle"}
          /\ g.at = "labels" => g.restart
          /\ g.restart => g.at = "labels" /\ g.runtime = handler[p].runtime
    <3>1. CASE handler[p].restart
      <4>1. [handler[p] EXCEPT !.at = "labels"] \in Hands
        BY HandsTyped DEF Hands
      <4> QED
        BY <1>8, <2>2, <3>1, <4>1, HandsTyped DEF ForgetStack, StepTo, Hands
    <3>2. CASE ~handler[p].restart
      <4>1. handler[p].restart = FALSE
        BY <3>2, HandsTyped DEF Hands
      <4> QED
        BY <1>8, <3>2, <4>1, HandsTyped DEF ForgetStack, Enter, Resting
    <3> QED
      BY <3>1, <3>2
  <2>4. PICK d \in [runtime : Runtime \cup {NoRuntime}, purge : BOOLEAN] :
          /\ done' = [done EXCEPT ![p] = d]
          /\ \/ d = done[p]
             \/ /\ d = [runtime |-> Cleaning(p), purge |-> handler[p].purge]
                /\ Cleaned(p) /\ ~handler[p].failed /\ ~handler[p].restart /\ NoStray(p)
    <3>1. CASE Cleaned(p) /\ ~handler[p].failed /\ ~handler[p].restart /\ NoStray(p)
      <4>1. [runtime |-> Cleaning(p), purge |-> handler[p].purge]
              \in [runtime : Runtime \cup {NoRuntime}, purge : BOOLEAN]
        BY DEF CleanupTypeOK, Cleaning
      <4> QED
        BY <1>8, <3>1, <4>1 DEF ForgetStack, Cleaned, NoStray
    <3>2. CASE ~(Cleaned(p) /\ ~handler[p].failed /\ ~handler[p].restart /\ NoStray(p))
      <4>1. done[p] \in [runtime : Runtime \cup {NoRuntime}, purge : BOOLEAN]
        BY DEF CleanupTypeOK
      <4>2. done' = [done EXCEPT ![p] = done[p]]
        BY <1>8, <3>2 DEF ForgetStack, Cleaned, NoStray, CleanupTypeOK
      <4> QED
        BY <4>1, <4>2
    <3> QED
      BY <3>1, <3>2
  <2>5. CleanupTypeOK'
    BY <2>1, <2>2, <2>3, <2>4 DEF CleanupTypeOK, Hands
  <2>6. handler'[p] = g /\ done'[p] = d
    BY <2>3, <2>4 DEF CleanupTypeOK
  <2>7. \A r : Findable(p, r)' = Findable(p, r)
    BY <2>2 DEF Findable
  <2>8. (Findable(p, done[p].runtime))' = Findable(p, d.runtime)
    BY <2>6, <2>7
  <2>9. /\ d.runtime # NoRuntime =>
             Findable(p, d.runtime) = {} /\ <<d.runtime, p>> \notin strays
        /\ d.runtime # NoRuntime /\ d.purge => <<d.runtime, p>> \notin networks
        /\ g.restart => d.runtime = NoRuntime /\ g.runtime \in Runtime
    <3>1. CASE d = done[p]
      BY <2>3, <3>1 DEF OwnerIsClean
    <3>2. CASE /\ d = [runtime |-> Cleaning(p), purge |-> handler[p].purge]
               /\ Cleaned(p) /\ ~handler[p].failed /\ ~handler[p].restart /\ NoStray(p)
      BY <2>2, <2>3, <3>2 DEF OwnerIsClean, NoStray
    <3> QED
      BY <2>4, <3>1, <3>2
  <2>10. /\ done'[p].runtime # NoRuntime =>
              (Findable(p, done[p].runtime))' = {} /\ <<done'[p].runtime, p>> \notin strays'
         /\ done'[p].runtime # NoRuntime /\ done'[p].purge => <<done'[p].runtime, p>> \notin networks'
         /\ handler'[p].restart => done'[p].runtime = NoRuntime /\ handler'[p].runtime \in Runtime
    BY <2>1, <2>2, <2>6, <2>8, <2>9
  <2>11. OwnerIsClean(p)'
    BY <2>2, <2>3, <2>6, <2>10 DEF OwnerIsClean
  <2>12. \A q \in Owner \ {p} : OwnerIsClean(q)'
    BY <2>1, <2>2, <2>3, <2>4, OthersOnlyRemove DEF CleanupTypeOK
  <2> QED
    BY <2>5, <2>11, <2>12
<1>9. ASSUME NEW p \in Owner, ForgetFails(p) \/ HandlerDies(p) PROVE CleanupInv'
  <2>1. /\ handler' = [handler EXCEPT ![p] = Resting]
        /\ UNCHANGED <<containers, networks, stack, controllers, specs, sweep, done>>
    BY <1>9 DEF ForgetFails, HandlerDies, Enter
  <2>2. CleanupTypeOK'
    BY <2>1, HandsTyped DEF CleanupTypeOK, Hands
  <2>3. handler'[p] = Resting /\ \A r : Findable(p, r)' = Findable(p, r)
    BY <2>1, HandsTyped DEF Findable
  <2>4. OwnerIsClean(p)'
    <3>1. handler'[p].at = "idle" /\ ~handler'[p].reset /\ ~handler'[p].restart
      BY <2>3 DEF Resting
    <3>2. (Findable(p, done[p].runtime))' = Findable(p, done[p].runtime)
      BY <2>1, <2>3
    <3> QED
      BY <2>1, <3>1, <3>2 DEF OwnerIsClean
  <2>5. \A q \in Owner \ {p} : OwnerIsClean(q)'
    BY <2>1, OthersOnlyRemove
  <2> QED
    BY <2>2, <2>4, <2>5
<1>10. ASSUME NEW p \in Owner, RemoveLabelled(p) \/ EnsureNetwork(p) \/ RecordStack(p)
                          \/ LaunchController(p) \/ RecordController(p)
       PROVE  CleanupInv'
  <2>1. PICK g \in Hands :
          /\ handler' = [handler EXCEPT ![p] = g]
          /\ ~g.reset
          /\ g.at \in {"ensure", "launch", "popen", "pid", "idle"}
          /\ g.at = "popen" => RecordStack(p)
          /\ LaunchController(p) => g.at = "pid"
          /\ RecordController(p) => g.at = "idle"
          /\ g.restart <=> g.at # "idle"
          /\ g.restart => g.runtime = handler[p].runtime
    <3>1. ASSUME NEW next \in {"ensure", "launch", "popen", "pid"}, StepTo(p, next),
                 next = "popen" => RecordStack(p), LaunchController(p) => next = "pid",
                 ~RecordController(p)
          PROVE  \E g \in Hands :
                   /\ handler' = [handler EXCEPT ![p] = g]
                   /\ ~g.reset
                   /\ g.at \in {"ensure", "launch", "popen", "pid", "idle"}
                   /\ g.at = "popen" => RecordStack(p)
                   /\ LaunchController(p) => g.at = "pid"
                   /\ RecordController(p) => g.at = "idle"
                   /\ g.restart <=> g.at # "idle"
                   /\ g.restart => g.runtime = handler[p].runtime
      <4> DEFINE g == [handler[p] EXCEPT !.at = next]
      <4>2. handler' = [handler EXCEPT ![p] = g]
        BY <3>1 DEF StepTo
      <4>3. ~handler[p].reset /\ handler[p].restart
        BY <1>10, <3>1, HandsTyped DEF OwnerIsClean, RemoveLabelled, EnsureNetwork,
           RecordStack, LaunchController, RecordController, Hands
      <4>4. /\ g \in Hands /\ g.at = next /\ ~g.reset /\ g.restart
            /\ g.runtime = handler[p].runtime
        BY <4>3, HandsTyped DEF Hands
      <4> HIDE DEF g
      <4> QED
        BY <3>1, <4>2, <4>4
    <3>2. CASE Enter(p, Resting) /\ ~LaunchController(p)
      BY <3>2, HandsTyped DEF Enter, Resting
    <3>3. /\ RemoveLabelled(p) => handler[p].at = "labels" /\ StepTo(p, "ensure")
          /\ EnsureNetwork(p) =>
               handler[p].at = "ensure" /\ (StepTo(p, "launch") \/ Enter(p, Resting))
          /\ RecordStack(p) => handler[p].at = "launch" /\ StepTo(p, "popen")
          /\ LaunchController(p) => handler[p].at = "popen" /\ StepTo(p, "pid")
          /\ RecordController(p) => handler[p].at = "pid" /\ Enter(p, Resting)
      BY DEF RemoveLabelled, EnsureNetwork, RecordStack, LaunchController, RecordController
    <3> QED
      BY <1>10, <3>1, <3>2, <3>3
  <2>2. /\ containers' \subseteq containers /\ UNCHANGED <<strays, specs, sweep, done>>
        /\ networks' \subseteq networks \cup {<<handler[p].runtime, p>>}
    BY <1>10 DEF RemoveLabelled, EnsureNetwork, RecordStack, LaunchController, RecordController
  <2>3. /\ \/ controlled' = controlled
           \/ LaunchController(p) /\ handler[p].at = "popen" /\ controlled' = controlled \cup {p}
        /\ \/ stack' = stack /\ ~RecordStack(p)
           \/ handler[p].at = "launch" /\ stack' = [stack EXCEPT ![p] = handler[p].runtime]
        /\ identified' \subseteq identified \cup ({p} \cap controlled)
    BY <1>10 DEF RemoveLabelled, EnsureNetwork, RecordStack, LaunchController, RecordController
  <2>4. /\ ~handler[p].reset /\ handler[p].restart /\ done[p].runtime = NoRuntime
        /\ handler[p].at # "pid" => p \notin controlled
        /\ handler[p].at = "pid" => RecordController(p)
        /\ handler[p].runtime \in Runtime
    BY <1>10 DEF OwnerIsClean, RemoveLabelled, EnsureNetwork, RecordStack, LaunchController,
                 RecordController
  <2>5. g.restart => g.runtime \in Runtime
    BY <2>1, <2>4
  <2>6. CleanupTypeOK'
    <3>1. /\ handler' \in [Owner -> Hands] /\ stack' \in [Owner -> Runtime \cup {NoRuntime}]
          /\ controlled' \subseteq Owner /\ identified' \subseteq controlled'
      BY <2>1, <2>3, <2>4, HandsTyped DEF CleanupTypeOK
    <3>2. containers' \subseteq Runtime \X Apps /\ networks' \subseteq Runtime \X Owner
      BY <2>2, <2>4 DEF CleanupTypeOK
    <3> QED
      BY <2>2, <3>1, <3>2 DEF CleanupTypeOK, Hands
  <2>7. handler'[p] = g /\ done'[p] = done[p]
    BY <2>1, <2>2, HandsTyped
  <2>8. OwnerIsClean(p)'
    <3>1. stack[p] # NoRuntime => stack'[p] # NoRuntime
      BY <2>3, <2>4 DEF CleanupTypeOK
    <3>2. p \in controlled' => handler'[p].at \in {"idle", "pid"} /\ stack'[p] # NoRuntime
      BY <2>1, <2>3, <2>4, <2>7, <3>1 DEF OwnerIsClean
    <3>3. handler'[p].at = "popen" => stack'[p] # NoRuntime
      BY <2>1, <2>3, <2>4, <2>7 DEF CleanupTypeOK
    <3> QED
      BY <2>1, <2>4, <2>5, <2>7, <3>2, <3>3 DEF OwnerIsClean
  <2>9. \A q \in Owner \ {p} : OwnerIsClean(q)'
    BY <2>1, <2>2, <2>3, OthersOnlyRemove DEF CleanupTypeOK
  <2> QED
    BY <2>6, <2>8, <2>9
<1>11. ASSUME NEW a \in Apps, Apply(a) PROVE CleanupInv'
  <2>1. CleanupTypeOK'
    BY <1>11 DEF Apply, CleanupTypeOK
  <2>2. \A q \in Owner : OwnerIsClean(q)'
    BY <1>11, OthersOnlyRemove DEF Apply
  <2> QED
    BY <2>1, <2>2
<1>12. ASSUME NEW a \in Apps, Reconcile(a) PROVE CleanupInv'
  <2>0. PICK p \in Owner : p = OwnerOf[a]
    OBVIOUS
  <2>1. PICK r \in Runtime :
          /\ (p \in controlled /\ r = stack[p]) \/ <<r, p>> \in strays
          /\ containers' = containers \cup {<<r, a>>}
    BY <1>12, <2>0 DEF Reconcile
  <2>2. UNCHANGED <<networks, stack, controllers, specs, handler, sweep, done>>
    BY <1>12 DEF Reconcile
  <2>3. /\ Cleaning(p)' = Cleaning(p) /\ Cleaned(p)' = Cleaned(p) /\ NoStray(p)' = NoStray(p)
        /\ \A x : x # r => Findable(p, x)' = Findable(p, x)
    <3>1. ASSUME NEW x, x # r PROVE Findable(p, x)' = Findable(p, x)
      <4>1. \A c : c \in containers' /\ c[1] = x <=> c \in containers /\ c[1] = x
        BY <2>1, <3>1
      <4> QED
        BY <4>1 DEF Findable
    <3>2. Cleaning(p)' = Cleaning(p) /\ Cleaned(p)' = Cleaned(p) /\ NoStray(p)' = NoStray(p)
      BY <2>2 DEF Cleaning, Cleaned, NoStray
    <3> QED
      BY <3>1, <3>2
  <2>4. CleanupTypeOK'
    BY <2>1, <2>2 DEF CleanupTypeOK
  <2>5. OwnerIsClean(p)'
    <3>1. CASE p \in controlled
      <4>1. handler[p].at \notin {"remove", "network", "record"} \/ handler[p].reset
        BY <3>1 DEF OwnerIsClean
      <4>2. done[p].runtime = NoRuntime /\ NoRuntime # "containerd"
        BY <3>1, CleanupAssumption DEF OwnerIsClean, Runtime
      <4> QED
        BY <2>2, <3>1, <4>1, <4>2 DEF OwnerIsClean
    <3>2. CASE <<r, p>> \in strays
      <4>1. done[p].runtime # r /\ (NoStray(p) => Cleaning(p) # r)
        BY <3>2 DEF OwnerIsClean, NoStray
      <4>2. /\ NoStray(p) => (Findable(p, Cleaning(p)))' = Findable(p, Cleaning(p))
            /\ (Findable(p, done[p].runtime))' = Findable(p, done[p].runtime)
        BY <2>2, <2>3, <4>1
      <4> QED
        BY <2>2, <2>3, <4>2 DEF OwnerIsClean
    <3> QED
      BY <2>1, <3>1, <3>2
  <2>6. \A q \in Owner \ {p} : OwnerIsClean(q)'
    BY <2>0, <2>1, <2>2, OthersOnlyRemove
  <2> QED
    BY <2>4, <2>5, <2>6
<1>13. ASSUME NEW p \in Owner, ControllerDies(p) PROVE CleanupInv'
  <2>1. CleanupTypeOK'
    BY <1>13 DEF ControllerDies, CleanupTypeOK
  <2>2. \A q \in Owner : OwnerIsClean(q)'
    BY <1>13, OthersOnlyRemove DEF ControllerDies
  <2> QED
    BY <2>1, <2>2
<1>16. ASSUME NEW p \in Owner, StrayDies(p) PROVE CleanupInv'
  <2>1. /\ strays' \subseteq strays
        /\ \A q \in Owner \ {p}, r \in Runtime : <<r, q>> \in strays' <=> <<r, q>> \in strays
        /\ UNCHANGED <<containers, networks, stack, controlled, identified, specs, sweep, done>>
    BY <1>16 DEF StrayDies
  <2>2. PICK g \in Hands :
          /\ handler' = [handler EXCEPT ![p] = g]
          /\ g.at = handler[p].at /\ g.runtime = handler[p].runtime
          /\ g.purge = handler[p].purge /\ g.restart = handler[p].restart
          /\ g.reset = handler[p].reset /\ g.listed = handler[p].listed
          /\ g.at # "idle" => g.failed
    <3>1. CASE handler[p].at = "idle"
      BY <1>16, <3>1, HandsTyped DEF StrayDies
    <3>2. CASE handler[p].at # "idle"
      <4>1. handler' = [handler EXCEPT ![p] = [handler[p] EXCEPT !.failed = TRUE]]
        BY <1>16, <3>2 DEF StrayDies
      <4>2. [handler[p] EXCEPT !.failed = TRUE] \in Hands
        BY HandsTyped DEF Hands
      <4> QED
        BY <4>1, <4>2, HandsTyped DEF Hands
    <3> QED
      BY <3>1, <3>2
  <2>3. CleanupTypeOK'
    BY <2>1, <2>2 DEF CleanupTypeOK, Hands
  <2>4. handler'[p] = g /\ \A x : Findable(p, x)' = Findable(p, x)
    BY <2>1, <2>2, HandsTyped DEF Findable
  <2>5. OwnerIsClean(p)'
    <3>1. /\ Cleaning(p)' = Cleaning(p)
          /\ (Findable(p, done[p].runtime))' = Findable(p, done[p].runtime)
      BY <2>1, <2>2, <2>4 DEF Cleaning
    <3> QED
      BY <2>1, <2>2, <2>4, <3>1 DEF OwnerIsClean
  <2>6. \A q \in Owner \ {p} : OwnerIsClean(q)'
    BY <2>1, <2>2, OthersOnlyRemove
  <2> QED
    BY <2>3, <2>5, <2>6
<1>14. CASE SweepContainers \/ SweepRemoves \/ SweepNetworks
  <2>1. /\ containers' \subseteq containers /\ networks' \subseteq networks
        /\ UNCHANGED <<stack, controllers, specs, handler, done>>
    BY <1>14 DEF SweepContainers, SweepRemoves, SweepNetworks
  <2>2. sweep' \in [at : {"idle", "remove", "networks"}, runtime : Runtime \cup {NoRuntime},
                    scope : SUBSET Owner, listed : SUBSET (Runtime \X Apps)]
    <3>1. CASE SweepContainers
      BY <3>1 DEF SweepContainers, CleanupTypeOK
    <3>2. CASE SweepRemoves
      BY <3>2 DEF SweepRemoves, CleanupTypeOK
    <3>3. CASE SweepNetworks
      BY <3>3 DEF SweepNetworks, Asleep
    <3> QED
      BY <1>14, <3>1, <3>2, <3>3
  <2>3. CleanupTypeOK'
    BY <2>1, <2>2 DEF CleanupTypeOK
  <2>4. \A q \in Owner : OwnerIsClean(q)'
    BY <2>1, OthersOnlyRemove
  <2> QED
    BY <2>3, <2>4
<1>15. CASE UNCHANGED cleanupVars
  <2>1. CleanupTypeOK'
    BY <1>15 DEF cleanupVars, CleanupTypeOK
  <2>2. \A q \in Owner : OwnerIsClean(q)'
    BY <1>15, OthersOnlyRemove DEF cleanupVars
  <2> QED
    BY <2>1, <2>2
<1> HIDE DEF CleanupInv
<1> QED
  BY <1>1, <1>2, <1>3, <1>4, <1>5, <1>6, <1>7, <1>8, <1>9, <1>10, <1>11, <1>12, <1>13, <1>14,
     <1>15, <1>16 DEF CleanupNext, Clean

LEMMA CleanupInvariant == CleanupSpec => []CleanupInv
BY InitCleanup, StepCleanup, PTL DEF CleanupSpec

(* What runs and what is on record belongs to projects and apps that there are. *)
THEOREM CleanupTypeCorrect == CleanupSpec => []CleanupTypeOK
BY CleanupInvariant, PTL DEF CleanupInv

(* A stop whose commands all succeeded leaves no container of the project   *)
(* in the runtime it has cleaned, save those that Docker cannot find, and a *)
(* purge leaves no network (supervisor.py:2353), however many projects,     *)
(* apps and clean-ups of the state root there are, and whatever handlers    *)
(* died - unless a controller runs that a start launched and did not live   *)
(* to record, which no stop can find (supervisor.py:205-207).               *)
THEOREM TheRuntimeIsClean == CleanupSpec => []RuntimeIsClean
<1>1. CleanupInv => RuntimeIsClean
  <2> SUFFICES ASSUME CleanupInv, NEW p \in Owner, done[p].runtime # NoRuntime
               PROVE  /\ \A a \in Apps :
                           OwnerOf[a] = p /\ (done[p].runtime = "docker" => Labelled(p, a, TRUE))
                             => <<done[p].runtime, a>> \notin containers
                      /\ done[p].purge => <<done[p].runtime, p>> \notin networks
    BY DEF RuntimeIsClean
  <2>1. /\ Findable(p, done[p].runtime) = {}
        /\ done[p].purge => <<done[p].runtime, p>> \notin networks
    BY DEF CleanupInv, OwnerIsClean
  <2>2. ASSUME NEW a \in Apps, OwnerOf[a] = p,
               done[p].runtime = "docker" => Labelled(p, a, TRUE),
               <<done[p].runtime, a>> \in containers
        PROVE  FALSE
    <3>1. <<done[p].runtime, a>> \in Findable(p, done[p].runtime)
      BY <2>2 DEF Findable
    <3> QED
      BY <2>1, <3>1
  <2> QED
    BY <2>1, <2>2
<1> QED
  BY CleanupInvariant, <1>1, PTL

-----------------------------------------------------------------------------
(* Staged manifests. *)

LEMMA MinIsIn ==
  ASSUME NEW T \in SUBSET Nat, T # {}
  PROVE  Min(T) \in T
BY LeastNumber DEF Min

Kept == {"apply", "export", "reported"}
Validated == Kept \cup {"policy", "connect", "clear"}

NameThere(f) == IF op.to \in {"k8s", "helm"} THEN Stem[f] ELSE f

(* An operation that nobody disturbs works on what it has validated, and    *)
(* what it handed on is of the stage as it is, under the names it has there. *)
StageHolds ==
  /\ op.at \in {"policy", "connect", "apply"} => op.to \in Target
  /\ op.at \in {"clear", "export"} => op.to \in Format
  /\ op.at \in Validated =>
       /\ Valid
       /\ \A f \in Present : f \in DOMAIN op.kinds /\ op.kinds[f] = InputKind(staged[f])
       /\ op.todo \subseteq Present
  /\ op.at \in {"policy", "connect", "clear"} => op.todo = Present
  /\ op.at \in {"connect", "apply", "reported"} /\ op.to = "remote" =>
       \A f \in Present : HasRefs(staged[f]) => op.allow
  /\ op.at \in Kept =>
       /\ \A h \in handed : /\ h.file \in Present /\ h.text = staged[h.file] /\ h.secret = sealed
                            /\ op.at # "reported" => h.as = NameThere(h.file)
       /\ \A f \in Present \ op.todo : \E h \in handed :
            h.file = f \/ (op.to \in {"k8s", "helm"} /\ Stem[h.file] = Stem[f])
  /\ op.at = "reported" => op.todo = {}

OpShape ==
  op = [at |-> op.at, to |-> op.to, allow |-> op.allow, kinds |-> op.kinds, todo |-> op.todo,
        edited |-> op.edited]

StagesInv ==
  /\ StagesTypeOK
  /\ OpShape
  /\ op.at \notin Kept \cup {"idle"} => handed = {}
  /\ op.at = "prepare" => op.kinds \in Originals
  /\ op.at \notin {"idle", "prepare"} => op.to # "nothing"
  /\ op.edited \/ StageHolds

(* One more manifest is handed on, under its name there; what had that name *)
(* goes, and only a manifest of the same stem can have had it.              *)
LEMMA OneMoreHandedOn ==
  ASSUME StagesInv, StageHolds, op.at \in {"apply", "export"},
         NEW f \in op.todo, staged[f] # NoText, HandOn(NameThere(f), f),
         op' = [op EXCEPT !.todo = @ \ {f}],
         UNCHANGED <<staged, sealed, edits>>
  PROVE  StagesInv'
<1> USE StagesAssumption
<1>1. /\ op'.at = op.at /\ op'.to = op.to /\ op'.allow = op.allow /\ op'.kinds = op.kinds
      /\ op'.todo = op.todo \ {f} /\ op'.edited = op.edited /\ OpShape'
  BY DEF StagesInv, OpShape
<1>2. f \in Present /\ staged[f] \in Texts
  BY DEF StagesInv, StagesTypeOK, Present
<1>3. Valid' = Valid /\ Present' = Present /\ \A g : NameThere(g)' = NameThere(g)
  BY <1>1 DEF Valid, Present, NameThere
<1> DEFINE new == [as |-> NameThere(f), file |-> f, text |-> staged[f], secret |-> sealed]
<1>4. handed' = {h \in handed : h.as # NameThere(f)} \cup {new}
  BY DEF HandOn
<1>5. /\ new.as = NameThere(f) /\ new.file = f /\ new.text = staged[f] /\ new.secret = sealed
      /\ new \in handed'
  BY <1>4
<1> HIDE DEF new
<1>6. StagesTypeOK'
  <2>1. \A h \in handed' : h \in handed \/ h = new
    BY <1>4
  <2> QED
    BY <1>1, <1>2, <1>5, <2>1 DEF StagesInv, StagesTypeOK, Present
<1>7. \A h \in handed' : /\ h.file \in Present /\ h.text = staged[h.file] /\ h.secret = sealed
                         /\ h.as = NameThere(h.file)
  BY <1>2, <1>4, <1>5 DEF StageHolds, Kept
<1>8. ASSUME NEW g \in Present \ op'.todo
      PROVE  \E h \in handed' :
               h.file = g \/ (op.to \in {"k8s", "helm"} /\ Stem[h.file] = Stem[g])
  <2>1. CASE g = f
    BY <1>5, <2>1
  <2>2. CASE g # f
    <3>1. PICK h \in handed : h.file = g \/ (op.to \in {"k8s", "helm"} /\ Stem[h.file] = Stem[g])
      BY <1>1, <1>8, <2>2 DEF StageHolds, Kept
    <3>2. h.as = NameThere(h.file)
      BY DEF StageHolds, Kept
    <3>3. CASE h.as # NameThere(f)
      BY <1>4, <3>1, <3>3
    <3>4. CASE h.as = NameThere(f)
      <4>1. op.to \in {"k8s", "helm"} /\ Stem[f] = Stem[g]
        BY <2>2, <3>1, <3>2, <3>4 DEF NameThere
      <4> QED
        BY <1>5, <4>1
    <3> QED
      BY <3>3, <3>4
  <2> QED
    BY <2>1, <2>2
<1>9. StageHolds'
  <2>1. op'.at \in Kept /\ op'.at # "reported"
    BY <1>1 DEF Kept
  <2>2. /\ op'.at \in {"policy", "connect", "apply"} => op'.to \in Target
        /\ op'.at \in {"clear", "export"} => op'.to \in Format
        /\ Valid' /\ \A g \in Present' : g \in DOMAIN op'.kinds /\ op'.kinds[g] = (InputKind(staged[g]))'
        /\ op'.todo \subseteq Present'
        /\ op'.at \in {"connect", "apply", "reported"} /\ op'.to = "remote" =>
             \A g \in Present' : (HasRefs(staged[g]))' => op'.allow
    BY <1>1, <1>3 DEF StageHolds, Kept, Validated
  <2>3. op'.at \notin {"policy", "connect", "clear", "reported"}
    BY <1>1
  <2> QED
    BY <1>1, <1>3, <1>7, <1>8, <2>1, <2>2, <2>3 DEF StageHolds
<1> QED
  BY <1>1, <1>6, <1>9 DEF StagesInv, Kept

LEMMA InitStages == StagesInit => StagesInv
BY StagesAssumption
DEF StagesInit, StagesInv, StagesTypeOK, OpShape, StageHolds, Kept, Validated, NoOp

(* A document with a secretRef in a text that fits makes it a native one. *)
LEMMA SecretsAreNative ==
  ASSUME NEW text, NEW secret, Fits(text, secret, PlaintextAllowed), HasRefs(text)
  PROVE  InputKind(text) = "native"
<1>1. InputKind(text) \in {"native", "kubernetes"}
  BY DEF Fits, InputKind
<1>2. "native" \in {d.api : d \in Docs(text)}
  BY DEF HasRefs
<1>3. InputKind(text) = "kubernetes" => {d.api : d \in Docs(text)} = {"kubernetes"}
  BY DEF InputKind
<1> QED
  BY <1>1, <1>2, <1>3

LEMMA StepStages == StagesInv /\ [StagesNext]_stagesVars => StagesInv'
<1> SUFFICES ASSUME StagesInv, [StagesNext]_stagesVars PROVE StagesInv'
  OBVIOUS
<1> USE StagesAssumption
<1>1. CASE UNCHANGED stagesVars
  BY <1>1 DEF stagesVars, StagesInv, StagesTypeOK, OpShape, StageHolds, Kept, Validated, NameThere,
     Valid, Present
<1>2. ASSUME Leave, UNCHANGED <<staged, sealed, handed, edits>> PROVE StagesInv'
  BY <1>2 DEF Leave, NoOp, StagesInv, StagesTypeOK, OpShape, StageHolds, Kept, Validated
<1>3. CASE BeginPrepare
  <2>1. PICK original \in Originals :
          op' = [NoOp EXCEPT !.at = "prepare", !.kinds = original,
                             !.todo = {f \in File : original[f] # NoText}]
    BY <1>3 DEF BeginPrepare
  <2>2. DOMAIN original \subseteq File
    OBVIOUS
  <2>3. /\ op'.at = "prepare" /\ op'.to = "nothing" /\ op'.allow = FALSE /\ op'.kinds = original
        /\ op'.todo \subseteq File /\ op'.edited = FALSE /\ OpShape'
    BY <2>1 DEF NoOp, OpShape
  <2> QED
    BY <1>3, <2>2, <2>3 DEF BeginPrepare, StagesInv, StagesTypeOK, StageHolds, Kept, Validated
<1>4. CASE PrepareFile
  <2>1. CASE op.todo = {}
    BY <1>2, <1>4, <2>1 DEF PrepareFile, StagesInv
  <2>2. CASE op.todo # {}
    <3> DEFINE f == Min(op.todo)
    <3>1. f \in op.todo
      BY <2>2, MinIsIn DEF StagesInv, StagesTypeOK, File
    <3>2. /\ staged' = [staged EXCEPT ![f] = op.kinds[f]]
          /\ op' = [op EXCEPT !.todo = @ \ {f}]
          /\ op.at = "prepare" /\ UNCHANGED <<sealed, handed, edits>>
      BY <1>4, <2>2 DEF PrepareFile
    <3>3. op.kinds[f] \in Texts \cup {NoText}
      BY <3>1, <3>2 DEF StagesInv, StagesTypeOK
    <3> HIDE DEF f
    <3>4. /\ op'.at = op.at /\ op'.to = op.to /\ op'.allow = op.allow /\ op'.kinds = op.kinds
          /\ op'.todo = op.todo \ {f} /\ op'.edited = op.edited /\ OpShape'
      BY <3>2 DEF StagesInv, OpShape
    <3>5. StagesTypeOK'
      BY <3>2, <3>3, <3>4 DEF StagesInv, StagesTypeOK
    <3> QED
      BY <3>2, <3>4, <3>5 DEF StagesInv, StageHolds, Kept, Validated
  <2> QED
    BY <2>1, <2>2
<1>5. CASE EditManifest \/ EditSecret
  <2>1. /\ op' = [op EXCEPT !.edited = op.at \notin {"idle", "prepare"}]
        /\ UNCHANGED handed /\ edits' \in 0..MaxEdits
    BY <1>5 DEF EditManifest, EditSecret, StagesInv, StagesTypeOK
  <2>2. sealed' \in {"missing", "plaintext", "encrypted"} /\ staged' \in [File -> Texts \cup {NoText}]
    BY <1>5 DEF EditManifest, EditSecret, StagesInv, StagesTypeOK
  <2>3. /\ op'.at = op.at /\ op'.to = op.to /\ op'.allow = op.allow /\ op'.kinds = op.kinds
        /\ op'.todo = op.todo /\ op'.edited = (op.at \notin {"idle", "prepare"}) /\ OpShape'
    BY <2>1 DEF StagesInv, OpShape
  <2>4. op'.edited \/ StageHolds'
    BY <2>3 DEF StageHolds, Kept, Validated
  <2> QED
    BY <2>1, <2>2, <2>3, <2>4 DEF StagesInv, StagesTypeOK
<1>6. ASSUME NEW to \in Target \cup Format, NEW allow \in BOOLEAN, Begin(to, allow)
      PROVE  StagesInv'
  <2>1. /\ op'.at = "validate" /\ op'.to = to /\ op'.allow = allow /\ op'.kinds = <<>>
        /\ op'.todo = {} /\ op'.edited = FALSE /\ OpShape'
    BY <1>6 DEF Begin, NoOp, OpShape
  <2> QED
    <3>1. DOMAIN op'.kinds \subseteq File /\ to \in Target \cup Format \cup {"nothing"}
      BY <2>1
    <3>2. StagesTypeOK'
      BY <1>6, <2>1, <3>1 DEF Begin, StagesInv, StagesTypeOK
    <3> QED
      BY <1>6, <2>1, <3>2 DEF Begin, StagesInv, StageHolds, Kept, Validated, Target, Local, Format
<1>7. CASE Validate
  <2>1. CASE ~Valid
    BY <1>2, <1>7, <2>1 DEF Validate
  <2>2. CASE Valid
    <3>1. /\ op'.at = (IF op.to \in Target THEN "policy" ELSE "clear") /\ op'.to = op.to
          /\ op'.allow = op.allow /\ op'.kinds = [f \in Present |-> InputKind(staged[f])]
          /\ op'.todo = Present /\ op'.edited = op.edited /\ OpShape'
      BY <1>7, <2>2 DEF Validate, StagesInv, OpShape
    <3>2. UNCHANGED <<staged, sealed, handed, edits>> /\ op.at = "validate"
      BY <1>7 DEF Validate
    <3>3. Present \subseteq File
      BY DEF Present
    <3>4. StagesTypeOK'
      BY <3>1, <3>2, <3>3 DEF StagesInv, StagesTypeOK
    <3>5. Valid' /\ Present' = Present
      BY <2>2, <3>2 DEF Valid, Present
    <3>6. op.to # "nothing"
      BY <3>2 DEF StagesInv
    <3>7. StageHolds'
      BY <3>1, <3>2, <3>5, <3>6 DEF StageHolds, Kept, Validated, StagesInv, StagesTypeOK
    <3> QED
      BY <3>1, <3>2, <3>4, <3>7 DEF StagesInv, Kept
  <2> QED
    BY <2>1, <2>2
<1>8. CASE CheckPolicy
  <2>1. CASE ~PolicyHolds
    BY <1>2, <1>8, <2>1 DEF CheckPolicy
  <2>2. CASE PolicyHolds
    <3>1. /\ op'.at = (IF op.to = "profile" THEN "connect" ELSE "apply") /\ op'.to = op.to
          /\ op'.allow = op.allow /\ op'.kinds = op.kinds /\ op'.todo = op.todo
          /\ op'.edited = op.edited /\ OpShape'
      BY <1>8, <2>2 DEF CheckPolicy, Proceed, StagesInv, OpShape
    <3>2. UNCHANGED <<staged, sealed, handed, edits>> /\ op.at = "policy"
      BY <1>8 DEF CheckPolicy
    <3>3. StagesTypeOK'
      BY <3>1, <3>2 DEF StagesInv, StagesTypeOK
    <3>4. Valid' = Valid /\ Present' = Present
      BY <3>2 DEF Valid, Present
    <3>5. handed = {}
      BY <3>2 DEF StagesInv, Kept
    <3>6. ASSUME StageHolds, op.to = "remote", NEW f \in Present, HasRefs(staged[f])
          PROVE  op.allow
      <4>1. f \in DOMAIN op.kinds /\ op.kinds[f] = InputKind(staged[f]) /\ Valid
        BY <3>2, <3>6 DEF StageHolds, Validated
      <4>2. InputKind(staged[f]) = "native"
        BY <3>6, <4>1, SecretsAreNative DEF Valid
      <4> QED
        BY <2>2, <3>6, <4>1, <4>2 DEF PolicyHolds, RemoteMayHave, Present
    <3>7. StageHolds => StageHolds'
      BY <3>1, <3>2, <3>4, <3>5, <3>6 DEF StageHolds, Kept, Validated
    <3> QED
      BY <3>1, <3>2, <3>3, <3>5, <3>7 DEF StagesInv
  <2> QED
    BY <2>1, <2>2
<1>9. CASE Connect
  <2>1. /\ op.at = "connect" /\ op'.at = "apply" /\ op'.to = op.to
        /\ op'.allow = op.allow /\ op'.kinds = op.kinds /\ op'.todo = op.todo
        /\ op'.edited = op.edited /\ OpShape' /\ UNCHANGED <<staged, sealed, handed, edits>>
    BY <1>9 DEF Connect, Proceed, StagesInv, OpShape
  <2>2. StagesTypeOK' /\ handed = {}
    BY <2>1 DEF StagesInv, StagesTypeOK, Kept
  <2>3. Valid' = Valid /\ Present' = Present
    BY <2>1 DEF Valid, Present
  <2>4. StageHolds => StageHolds'
    BY <2>1, <2>2, <2>3 DEF StageHolds, Kept, Validated
  <2> QED
    BY <2>1, <2>2, <2>4 DEF StagesInv
<1>10. CASE ClearExport
  <2>1. CASE Leave
    BY <1>2, <1>10, <2>1 DEF ClearExport
  <2>2. CASE Proceed("export")
    <3>1. /\ op.at = "clear" /\ op'.at = "export" /\ op'.to = op.to
          /\ op'.allow = op.allow /\ op'.kinds = op.kinds /\ op'.todo = op.todo
          /\ op'.edited = op.edited /\ OpShape' /\ UNCHANGED <<staged, sealed, handed, edits>>
      BY <1>10, <2>2 DEF ClearExport, Proceed, StagesInv, OpShape
    <3>2. StagesTypeOK' /\ handed = {}
      BY <3>1 DEF StagesInv, StagesTypeOK, Kept
    <3>3. Valid' = Valid /\ Present' = Present
      BY <3>1 DEF Valid, Present
    <3>4. StageHolds => StageHolds'
      BY <3>1, <3>2, <3>3 DEF StageHolds, Kept, Validated
    <3> QED
      BY <3>1, <3>2, <3>4 DEF StagesInv
  <2> QED
    BY <1>10, <2>1, <2>2 DEF ClearExport
<1>11. CASE ApplyFile \/ ExportFile
  <2> DEFINE f == Min(op.todo)
  <2>1. f \in op.todo
    BY <1>11, MinIsIn DEF ApplyFile, ExportFile, StagesInv, StagesTypeOK, File
  <2>2. /\ op.at \in {"apply", "export"} /\ op' = [op EXCEPT !.todo = @ \ {f}]
        /\ staged[f] # NoText /\ UNCHANGED <<staged, sealed, edits>>
        /\ op.at = "apply" => HandOn(f, f)
        /\ op.at = "export" => HandOn(IF op.to = "k1s" THEN f ELSE Stem[f], f)
    BY <1>11 DEF ApplyFile, ExportFile, Applicable
  <2> HIDE DEF f
  <2>3. CASE op.edited
    <3>1. /\ op'.at = op.at /\ op'.to = op.to /\ op'.allow = op.allow /\ op'.kinds = op.kinds
          /\ op'.todo = op.todo \ {f} /\ op'.edited /\ OpShape'
      BY <2>2, <2>3 DEF StagesInv, OpShape
    <3>2. \A h \in handed' : h \in handed
            \/ (h.file = f /\ h.text = staged[f] /\ h.secret = sealed)
      <4>1. PICK as : HandOn(as, f)
        BY <2>2
      <4> DEFINE new == [as |-> as, file |-> f, text |-> staged[f], secret |-> sealed]
      <4>2. \A h \in handed' : h \in handed \/ h = new
        BY <4>1 DEF HandOn
      <4>3. new.file = f /\ new.text = staged[f] /\ new.secret = sealed
        OBVIOUS
      <4> HIDE DEF new
      <4> QED
        BY <4>2, <4>3
    <3>4. f \in File /\ staged[f] \in Texts
      BY <2>1, <2>2 DEF StagesInv, StagesTypeOK
    <3>5. StagesTypeOK'
      BY <2>2, <3>1, <3>2, <3>4 DEF StagesInv, StagesTypeOK
    <3> QED
      BY <2>2, <3>1, <3>5 DEF StagesInv, Kept
  <2>4. CASE ~op.edited
    <3>1. StageHolds
      BY <2>4 DEF StagesInv
    <3>2. HandOn(NameThere(f), f)
      BY <2>2, <3>1 DEF StageHolds, NameThere, Target, Local, Format
    <3> QED
      BY <2>1, <2>2, <3>1, <3>2, OneMoreHandedOn
  <2> QED
    BY <2>3, <2>4 DEF StagesInv, StagesTypeOK
<1>12. CASE Succeed
  <2>1. /\ op.at \in {"apply", "export"} /\ op'.at = "reported" /\ op'.to = op.to
        /\ op'.allow = op.allow /\ op'.kinds = op.kinds /\ op'.todo = op.todo /\ op.todo = {}
        /\ op'.edited = op.edited /\ OpShape' /\ UNCHANGED <<staged, sealed, handed, edits>>
    BY <1>12 DEF Succeed, Proceed, StagesInv, OpShape
  <2>2. StagesTypeOK'
    BY <2>1 DEF StagesInv, StagesTypeOK
  <2>3. Valid' = Valid /\ Present' = Present
    BY <2>1 DEF Valid, Present
  <2>4. op.at = "export" /\ StageHolds => op.to # "remote"
    BY DEF StageHolds, Format
  <2>5. StageHolds => StageHolds'
    BY <2>1, <2>3, <2>4 DEF StageHolds, Kept, Validated
  <2> QED
    BY <2>1, <2>2, <2>5 DEF StagesInv, Kept
<1>13. CASE EndReport \/ OperationFails
  BY <1>2, <1>13 DEF EndReport, OperationFails
<1> QED
  BY <1>1, <1>3, <1>4, <1>5, <1>6, <1>7, <1>8, <1>9, <1>10, <1>11, <1>12, <1>13 DEF StagesNext

LEMMA StagesInvariant == StagesSpec => []StagesInv
BY InitStages, StepStages, PTL DEF StagesSpec

(* A stage has texts under its names, and what was handed on was a text of  *)
(* the stage.                                                               *)
THEOREM StagesTypeCorrect == StagesSpec => []StagesTypeOK
BY StagesInvariant, PTL DEF StagesInv

(* Unless someone edits the stage or the secret meanwhile, nothing is       *)
(* handed on that does not fit, nothing with a secretRef to a remote        *)
(* controller that was not allowed to have it, and an operation that        *)
(* succeeds has handed on every manifest of the stage as it is              *)
(* (enforce_stage_secret_policy, deploy_remote_k1s_stage, export_bundle),   *)
(* whatever the stage holds and however many manifests that is.             *)
THEOREM HandedOnIsValid == StagesSpec => []HandedOnAsValidated
<1>1. StagesInv => HandedOnAsValidated
  <2> SUFFICES ASSUME StagesInv, op.at # "idle", ~op.edited
               PROVE  /\ \A h \in handed :
                           /\ Fits(h.text, h.secret, PlaintextAllowed)
                           /\ op.to = "remote" /\ HasRefs(h.text) => op.allow
                      /\ op.at = "reported" =>
                           \A f \in Present : \E h \in handed :
                             /\ h.text = staged[h.file]
                             /\ h.file = f \/ (op.to \in {"k8s", "helm"} /\ Stem[h.file] = Stem[f])
    BY DEF HandedOnAsValidated
  <2>1. StageHolds
    BY DEF StagesInv
  <2>2. CASE op.at \notin Kept
    BY <2>2 DEF StagesInv, Kept
  <2>3. CASE op.at \in Kept
    <3>1. Valid
      BY <2>1, <2>3 DEF StageHolds, Validated
    <3>2. op.at = "export" => op.to # "remote"
      BY <2>1 DEF StageHolds, Format
    <3>3. ASSUME NEW h \in handed
          PROVE  /\ Fits(h.text, h.secret, PlaintextAllowed)
                 /\ op.to = "remote" /\ HasRefs(h.text) => op.allow
      BY <2>1, <2>3, <3>1, <3>2 DEF StageHolds, Kept, Valid
    <3> QED
      BY <2>1, <2>3, <3>3 DEF StageHolds, Kept
  <2> QED
    BY <2>2, <2>3
<1> QED
  BY StagesInvariant, <1>1, PTL

-----------------------------------------------------------------------------
(* Deployments. *)

Applied(a) == controller[Normal(current.namespace, a)] = deploys

CurrentShape ==
  current = [at |-> current.at, stage |-> current.stage, namespace |-> current.namespace,
             prune |-> current.prune, containerd |-> current.containerd,
             previous |-> current.previous, todo |-> current.todo,
             awaited |-> current.awaited, orphans |-> current.orphans]

(* What a deployment has not applied yet is still to do or held back, and   *)
(* what is held back is not forgotten: it is applied after the wait.        *)
DeployInv ==
  /\ DeployTypeOK
  /\ CurrentShape
  /\ current.namespace \in Namespace \cup {NoNamespace}
  /\ latest.namespace \in Namespace \cup {NoNamespace}
  /\ current.previous.namespace \in Namespace \cup {NoNamespace}
  /\ current.previous.stage \in SUBSET App
  /\ current.containerd \in BOOLEAN
  /\ current.at = "apply" =>
       \A a \in current.stage \ current.todo :
         Applied(a) \/ (current.containerd /\ a \in Consumers(current.stage))
  /\ current.at = "wait" =>
       /\ \A a \in current.stage : Applied(a) \/ a \in Consumers(current.stage)
       /\ current.awaited = Awaited(current.stage)
  /\ current.at = "reapply" => \A a \in current.stage \ current.todo : Applied(a)
  /\ current.at \in {"prune", "record"} => \A a \in current.stage : Applied(a)

LEMMA NormalIsKey ==
  ASSUME NEW ns \in Namespace \cup {NoNamespace}, NEW a \in App
  PROVE  Normal(ns, a) \in Key
BY DeploymentAssumption DEF Normal, Key

(* Nobody is held back for services that nobody waits for. *)
LEMMA HeldBackAreReapplied ==
  ASSUME NEW apps \in SUBSET App
  PROVE  /\ Awaited(apps) = {} => Consumers(apps) = {}
         /\ Consumers(apps) \subseteq Reapplied(apps)
         /\ Awaited(apps) \subseteq apps /\ Reapplied(apps) \subseteq apps
<1>1. Providers(apps) \subseteq Referenced(apps) /\ Referenced(apps) \subseteq apps
  BY DEF Providers, Referenced
<1>2. Referenced(apps) # {} => Providers(apps) # {}
  BY DEF Providers
<1>3. Referenced(apps) = {} => Consumers(apps) = {}
  BY <1>1 DEF Consumers
<1> QED
  BY <1>1, <1>2, <1>3 DEF Awaited, Reapplied, Consumers

LEMMA InitDeploy == DeployInit => DeployInv
BY DeploymentAssumption
DEF DeployInit, DeployInv, DeployTypeOK, Idle, NoDeployment, Place, CurrentShape

LEMMA StepDeploy == DeployInv /\ [DeployNext]_deployVars => DeployInv'
<1> SUFFICES ASSUME DeployInv, [DeployNext]_deployVars PROVE DeployInv'
  OBVIOUS
<1> USE DeploymentAssumption
<1>1. ASSUME NEW apps \in Stages, NEW ns \in Namespace \cup {NoNamespace},
             NEW prune \in BOOLEAN, NEW containerd \in BOOLEAN,
             BeginDeploy(apps, ns, prune, containerd)
      PROVE  DeployInv'
  <2>1. /\ current'.at = "apply" /\ current'.stage = apps /\ current'.namespace = ns
        /\ current'.containerd = containerd /\ current'.awaited = {} /\ current'.orphans = {}
        /\ current'.todo = IF containerd THEN apps \ Consumers(apps) ELSE apps
        /\ deploys' = deploys + 1 /\ deploys < MaxDeploys /\ UNCHANGED <<controller, latest>>
        /\ current'.previous = latest /\ CurrentShape'
    BY <1>1 DEF BeginDeploy, Idle, CurrentShape
  <2>2. DeployTypeOK'
    BY <2>1 DEF DeployInv, DeployTypeOK, Place
  <2>3. \A a \in apps \ current'.todo : containerd /\ a \in Consumers(apps)
    BY <2>1
  <2>4. latest.stage \in SUBSET App
    BY DEF DeployInv, DeployTypeOK
  <2> QED
    BY <2>1, <2>2, <2>3, <2>4 DEF DeployInv
<1>2. ASSUME NEW apps \in Stages, NEW ns \in Namespace \cup {NoNamespace},
             DeployToProfile(apps, ns)
      PROVE  DeployInv'
  <2>1. /\ current.at = "idle" /\ UNCHANGED <<controller, current>>
        /\ deploys' = deploys + 1 /\ deploys < MaxDeploys
        /\ latest'.id = deploys' /\ latest'.stage = apps /\ latest'.orphans = {}
        /\ latest'.namespace = ns
    BY <1>2 DEF DeployToProfile, At, RecordLatest, NoDeployment
  <2>2. DeployTypeOK'
    BY <2>1 DEF DeployInv, DeployTypeOK
  <2> QED
    BY <2>1, <2>2 DEF DeployInv, CurrentShape
<1>3. CASE Abandon \/ RecordDeployment
  <2>1. /\ current' = Idle /\ UNCHANGED <<controller, deploys>>
        /\ latest'.id \in 0..deploys /\ latest'.stage \in SUBSET App /\ latest'.orphans \subseteq Key
        /\ latest'.namespace \in Namespace \cup {NoNamespace}
    BY <1>3 DEF Abandon, RecordDeployment, RecordLatest, DeployInv, DeployTypeOK
  <2>2. DeployTypeOK'
    BY <2>1 DEF DeployInv, DeployTypeOK, Idle, Place
  <2> QED
    BY <2>1, <2>2 DEF DeployInv, CurrentShape, Idle, NoDeployment
<1>4. ASSUME NEW a \in App, ApplyManifest(a) PROVE DeployInv'
  <2>1. /\ current'.at = current.at /\ current'.stage = current.stage
        /\ current'.namespace = current.namespace /\ current'.containerd = current.containerd
        /\ current'.awaited = current.awaited /\ current'.orphans = current.orphans
        /\ current'.todo = current.todo \ {a}
        /\ current'.previous = current.previous /\ CurrentShape'
    BY <1>4 DEF ApplyManifest, DeployInv, CurrentShape
  <2>2. /\ current.at \in {"apply", "reapply"} /\ UNCHANGED <<latest, deploys>>
        /\ controller' = [controller EXCEPT ![Normal(current.namespace, a)] = deploys]
    BY <1>4 DEF ApplyManifest, At, ApplyTo
  <2>3. /\ controller \in [Key -> 0..deploys] /\ deploys \in 0..MaxDeploys
        /\ current.stage \in SUBSET App /\ current.todo \subseteq current.stage
    BY DEF DeployInv, DeployTypeOK
  <2>4. \A b \in App : Applied(b) \/ b = a => (Applied(b))'
    BY <2>1, <2>2, <2>3, NormalIsKey DEF Applied, DeployInv
  <2>5. DeployTypeOK'
    <3>1. controller' \in [Key -> 0..deploys]
      <4>1. deploys \in 0..deploys
        BY <2>3
      <4> QED
        BY <2>2, <2>3, <4>1
    <3> QED
      BY <2>1, <2>2, <3>1 DEF DeployInv, DeployTypeOK
  <2> QED
    BY <2>1, <2>2, <2>3, <2>4, <2>5 DEF DeployInv
<1>5. CASE RefreshAliases
  <2>1. /\ current.at = "apply" /\ current.todo = {} /\ UNCHANGED <<controller, latest, deploys>>
        /\ current' = [current EXCEPT !.at = current'.at, !.awaited = current'.awaited]
        /\ \/ /\ current'.at = "wait" /\ current'.awaited = Awaited(current.stage)
           \/ /\ current'.at = "prune" /\ current'.awaited = current.awaited
              /\ ~current.containerd \/ Awaited(current.stage) = {}
    BY <1>5 DEF RefreshAliases, At, GoTo, DeployInv, CurrentShape
  <2>2. /\ current'.stage = current.stage /\ current'.todo = current.todo
        /\ current'.namespace = current.namespace /\ current'.containerd = current.containerd
        /\ current'.orphans = current.orphans
        /\ current'.previous = current.previous /\ CurrentShape'
    BY <2>1 DEF DeployInv, CurrentShape
  <2>3. current.stage \in SUBSET App /\ \A b : (Applied(b))' <=> Applied(b)
    BY <2>1, <2>2 DEF DeployInv, DeployTypeOK, Applied
  <2>4. DeployTypeOK'
    BY <2>1, <2>2, <2>3, HeldBackAreReapplied DEF DeployInv, DeployTypeOK, Place
  <2> QED
    BY <2>1, <2>2, <2>3, <2>4, HeldBackAreReapplied DEF DeployInv
<1>6. CASE ServicesReady
  <2>1. /\ current.at = "wait" /\ UNCHANGED <<controller, latest, deploys>>
        /\ current'.at = "reapply" /\ current'.awaited = {}
        /\ current'.todo = Reapplied(current.stage)
        /\ current'.stage = current.stage
        /\ current'.namespace = current.namespace /\ current'.containerd = current.containerd
        /\ current'.orphans = current.orphans
        /\ current'.previous = current.previous /\ CurrentShape'
    BY <1>6 DEF ServicesReady, At, DeployInv, CurrentShape
  <2>2. current.stage \in SUBSET App /\ \A b : (Applied(b))' <=> Applied(b)
    BY <2>1 DEF DeployInv, DeployTypeOK, Applied
  <2>3. DeployTypeOK'
    BY <2>1, <2>2, HeldBackAreReapplied DEF DeployInv, DeployTypeOK, Place
  <2> QED
    BY <2>1, <2>2, <2>3, HeldBackAreReapplied DEF DeployInv
<1>7. CASE Reapplying
  <2>1. /\ current.at = "reapply" /\ current.todo = {} /\ UNCHANGED <<controller, latest, deploys>>
        /\ current'.at = "prune" /\ current'.awaited = current.awaited
        /\ current'.todo = current.todo /\ current'.stage = current.stage
        /\ current'.namespace = current.namespace /\ current'.containerd = current.containerd
        /\ current'.orphans = current.orphans
        /\ current'.previous = current.previous /\ CurrentShape'
    BY <1>7 DEF Reapplying, At, GoTo, DeployInv, CurrentShape
  <2>2. \A b : (Applied(b))' <=> Applied(b)
    BY <2>1 DEF Applied
  <2>3. DeployTypeOK'
    BY <2>1 DEF DeployInv, DeployTypeOK, Place
  <2> QED
    BY <2>1, <2>2, <2>3 DEF DeployInv
<1>8. CASE DeleteOrphans
  <2> DEFINE orphaned == Orphaned(current.previous, current.stage, current.namespace)
  <2>1. PICK stay \in SUBSET orphaned :
          /\ Deleted(orphaned, stay)
          /\ current' = [current EXCEPT !.at = "record", !.orphans = stay]
    BY <1>8 DEF DeleteOrphans
  <2>2. \A a \in current.stage : Normal(current.namespace, a) \notin orphaned
    BY DEF Orphaned, Normalized
  <2>3. stay \subseteq Key
    <3>1. \A ns \in Namespace \cup {NoNamespace} :
            Normalized(ns, current.previous.stage) \subseteq Key
      BY NormalIsKey DEF Normalized, DeployInv
    <3> QED
      BY <3>1 DEF Orphaned, DeployInv
  <2> HIDE DEF orphaned
  <2>4. /\ current.at = "prune" /\ UNCHANGED <<latest, deploys>>
        /\ current'.at = "record" /\ current'.awaited = current.awaited
        /\ current'.todo = current.todo /\ current'.stage = current.stage
        /\ current'.namespace = current.namespace /\ current'.containerd = current.containerd
        /\ current'.orphans = stay
        /\ current'.previous = current.previous /\ CurrentShape'
    BY <1>8, <2>1 DEF DeleteOrphans, At, DeployInv, CurrentShape
  <2>5. controller' \in [Key -> 0..deploys]
    BY <2>1 DEF Deleted, DeployInv, DeployTypeOK
  <2>6. \A a \in current.stage : Applied(a) => (Applied(a))'
    BY <2>1, <2>2, <2>4, NormalIsKey DEF Deleted, Applied, DeployInv, DeployTypeOK
  <2>7. DeployTypeOK'
    BY <2>3, <2>4, <2>5 DEF DeployInv, DeployTypeOK, Place
  <2> QED
    BY <2>4, <2>6, <2>7 DEF DeployInv
<1>9. CASE UNCHANGED deployVars
  BY <1>9 DEF deployVars, DeployInv, DeployTypeOK, Applied, CurrentShape
<1> HIDE DEF DeployInv
<1> QED
  BY <1>1, <1>2, <1>3, <1>4, <1>5, <1>6, <1>7, <1>8, <1>9 DEF DeployNext

LEMMA DeployInvariant == DeploySpec => []DeployInv
BY InitDeploy, StepDeploy, PTL DEF DeploySpec

(* Deployments, records and workloads have the types the code gives them. *)
THEOREM DeployTypeCorrect == DeploySpec => []DeployTypeOK
BY DeployInvariant, PTL DEF DeployInv

(* Once a deployment is recorded, everything its stage declares has been    *)
(* applied by it, what was held back included, and its own prune has not    *)
(* taken anything of it away (deploy_local_stage, _record_deployment),      *)
(* whatever the manifests name and whichever deployments came before.       *)
THEOREM TheRecordedIsApplied == DeploySpec => RecordedIsApplied
<1> DEFINE Claim ==
      latest' # latest /\ latest'.on = "workerbee" =>
        \A k \in Normalized(latest'.namespace, latest'.stage) : controller'[k] = latest'.id
<1>1. DeployInv /\ [DeployNext]_deployVars => [Claim]_deployVars
  <2> SUFFICES ASSUME DeployInv, DeployNext, latest' # latest, latest'.on = "workerbee",
                      NEW k \in Normalized(latest'.namespace, latest'.stage)
               PROVE  controller'[k] = latest'.id
    BY DEF deployVars
  <2>1. RecordDeployment
    <3>1. ASSUME NEW apps, NEW ns, DeployToProfile(apps, ns) PROVE latest'.on = "profile"
      BY <3>1 DEF DeployToProfile, RecordLatest
    <3>2. \/ RecordDeployment
          \/ \E apps \in Stages, ns \in Namespace \cup {NoNamespace} : DeployToProfile(apps, ns)
      BY DEF DeployNext, BeginDeploy, ApplyManifest, RefreshAliases,
             ServicesReady, Reapplying, DeleteOrphans, Abandon
    <3> QED
      BY <3>1, <3>2
  <2>2. /\ current.at = "record" /\ UNCHANGED <<controller, deploys>>
        /\ latest'.id = deploys /\ latest'.stage = current.stage
        /\ latest'.namespace = current.namespace
    BY <2>1 DEF RecordDeployment, RecordLatest, At
  <2>3. PICK a \in current.stage : k = Normal(current.namespace, a)
    BY <2>2 DEF Normalized
  <2> QED
    BY <2>2, <2>3 DEF DeployInv, Applied
<1>2. DeploySpec => [][Claim]_deployVars
  BY DeployInvariant, <1>1, PTL DEF DeploySpec
<1> QED
  BY <1>2 DEF RecordedIsApplied

(* Reaches is the last of a chain of relations, each a step longer. *)
LEMMA ReachesChain ==
  ASSUME NEW apps
  PROVE  LET E == {p \in Refers : p \in (apps \X apps) /\ p[1] # p[2]}
             N == Cardinality(App)
         IN \E from \in [0..N -> SUBSET (apps \X apps)] :
              /\ from[0] = E
              /\ \A i \in 1..N :
                   from[i] = {p \in apps \X apps :
                                p \in from[i - 1] \/ \E b \in apps : <<p[1], b>> \in from[i - 1]
                                                                  /\ <<b, p[2]>> \in E}
              /\ Reaches(apps) = from[N]
<1> DEFINE E == {p \in Refers : p \in (apps \X apps) /\ p[1] # p[2]}
           N == Cardinality(App)
           S == SUBSET (apps \X apps)
           Longer(r) == {p \in apps \X apps : p \in r \/ \E b \in apps : <<p[1], b>> \in r
                                                                      /\ <<b, p[2]>> \in E}
           F == [r \in S |-> Longer(r)]
           IsChain(f) ==
             f = [i \in 0..N |-> IF i = 0 THEN E
                  ELSE {p \in apps \X apps :
                          p \in f[i - 1] \/ \E b \in apps : <<p[1], b>> \in f[i - 1]
                                                         /\ <<b, p[2]>> \in f[0]}]
           from == CHOOSE f : IsChain(f)
<1>1. N \in Nat
  BY DeploymentAssumption, FS_CardinalityType
<1>2. Reaches(apps) = from[N]
  BY DEF Reaches
<1>3. E \in S /\ F \in [S -> S] /\ \A r \in S : F[r] = Longer(r)
  OBVIOUS
<1> HIDE DEF N, S, F
<1>4. PICK g \in [0..N -> S] : g[0] = E /\ \A i \in 1..N : g[i] = F[g[i - 1]]
  <2>1. E \in S /\ F \in [S -> S]
    BY <1>3
  <2> HIDE DEF E
  <2>2. Orbits(S, E, F, N) # {}
    BY <1>1, <2>1, Iterated
  <2> QED
    BY <2>2 DEF Orbits
<1>5. IsChain(g)
  <2>1. ASSUME NEW i \in 0..N
        PROVE  g[i] = IF i = 0 THEN E
                      ELSE {p \in apps \X apps :
                              p \in g[i - 1] \/ \E b \in apps : <<p[1], b>> \in g[i - 1]
                                                             /\ <<b, p[2]>> \in g[0]}
    <3>1. CASE i = 0
      BY <1>4, <3>1
    <3>2. CASE i # 0
      <4>1. i \in 1..N /\ i - 1 \in 0..N
        BY <1>1, <3>2
      <4>2. g[i] = Longer(g[i - 1])
        BY <1>3, <1>4, <4>1
      <4>3. g[0] = E
        BY <1>4
      <4> HIDE DEF E
      <4> QED
        BY <3>2, <4>2, <4>3
    <3> QED
      BY <3>1, <3>2
  <2> QED
    BY <1>4, <2>1
<1>6. IsChain(from)
  BY <1>5
<1> HIDE DEF from
<1>7. from[0] = E
  BY <1>1, <1>6
<1>8. ASSUME NEW i \in 1..N
      PROVE  from[i] = Longer(from[i - 1])
  <2>1. i \in 0..N /\ i # 0
    BY <1>1
  <2>2. from[i] = {p \in apps \X apps :
                     p \in from[i - 1] \/ \E b \in apps : <<p[1], b>> \in from[i - 1]
                                                       /\ <<b, p[2]>> \in from[0]}
    BY <1>6, <2>1
  <2> HIDE DEF E
  <2> QED
    BY <1>7, <2>2
<1>9. from \in [0..N -> S]
  <2>1. \A i \in 0..N : from[i] \in S
    BY <1>1, <1>3, <1>7, <1>8 DEF S
  <2>2. from = [i \in 0..N |-> from[i]]
    BY <1>6
  <2> QED
    BY <2>1, <2>2
<1> QED
  BY <1>2, <1>7, <1>8, <1>9 DEF N, S

(* Where everyone names someone else of the same set, somebody's references *)
(* come back to where they began.                                           *)
LEMMA EveryoneInACircle ==
  ASSUME NEW apps \in SUBSET App, NEW S \in SUBSET apps, S # {},
         \A a \in S : \E b \in S : b # a /\ <<a, b>> \in Refers
  PROVE  ~Acyclic(apps)
<1> DEFINE E == {p \in Refers : p \in (apps \X apps) /\ p[1] # p[2]}
           N == Cardinality(App)
           next == [a \in S |-> CHOOSE b \in S : b # a /\ <<a, b>> \in Refers]
<1>1. N \in Nat
  BY DeploymentAssumption, FS_CardinalityType
<1>2. next \in [S -> S] /\ \A a \in S : <<a, next[a]>> \in E
  <2>1. ASSUME NEW a \in S
        PROVE  next[a] \in S /\ next[a] # a /\ <<a, next[a]>> \in Refers
    <3>1. PICK b \in S : b # a /\ <<a, b>> \in Refers
      OBVIOUS
    <3>2. next[a] = CHOOSE c \in S : c # a /\ <<a, c>> \in Refers
      OBVIOUS
    <3> HIDE DEF next
    <3> QED
      BY <3>1, <3>2
  <2>2. next \in [S -> S]
    BY <2>1
  <2>3. ASSUME NEW a \in S PROVE <<a, next[a]>> \in E
    <3> HIDE DEF next
    <3> QED
      BY <2>1
  <2> QED
    BY <2>2, <2>3
<1>3. PICK from \in [0..N -> SUBSET (apps \X apps)] :
        /\ from[0] = E
        /\ \A i \in 1..N :
             from[i] = {p \in apps \X apps :
                          p \in from[i - 1] \/ \E b \in apps : <<p[1], b>> \in from[i - 1]
                                                            /\ <<b, p[2]>> \in E}
        /\ Reaches(apps) = from[N]
  BY ReachesChain
<1> HIDE DEF E, next, N
<1>4. PICK walk \in [0..N -> S] :
        \A i \in 1..N : walk[i] = next[walk[i - 1]]
  <2>1. PICK b \in S : TRUE
    OBVIOUS
  <2> QED
    <3>1. next \in [S -> S]
      BY <1>2
    <3>2. Orbits(S, b, next, N) # {}
      BY <1>1, <2>1, <3>1, Iterated
    <3> QED
      BY <3>2 DEF Orbits
<1> DEFINE Far(d) == \A i \in 0..N : i + d + 1 \in 0..N => <<walk[i], walk[i + d + 1]>> \in from[d]
           T == {d \in 0..N : ~Far(d)}
<1>5. T = {}
  <2>1. SUFFICES ASSUME T # {} PROVE FALSE
    OBVIOUS
  <2>2. T \subseteq Nat
    OBVIOUS
  <2>3. PICK d \in T : \A m \in T : d <= m
    <3> HIDE DEF T
    <3> QED
      BY <2>1, <2>2, LeastNumber
  <2>4. PICK i \in 0..N : i + d + 1 \in 0..N /\ <<walk[i], walk[i + d + 1]>> \notin from[d]
    OBVIOUS
  <2>5. d \in 0..N
    OBVIOUS
  <2> DEFINE y == walk[i + d]
             z == walk[i + d + 1]
  <2>6. /\ walk[i] \in apps /\ y \in apps /\ z \in apps
        /\ <<y, z>> \in E
    <3>1. i + d \in 0..N /\ i + d + 1 \in 1..N /\ (i + d + 1) - 1 = i + d
      BY <1>1, <2>4, <2>5
    <3>2. z = next[y] /\ y \in S /\ z \in S /\ walk[i] \in S
      BY <1>4, <3>1
    <3> QED
      BY <1>2, <3>2
  <2>7. CASE d = 0
    <3>1. i + d = i
      BY <2>7
    <3> QED
      BY <1>3, <2>4, <2>6, <2>7, <3>1
  <2>8. CASE d # 0
    <3>1. d \in 1..N /\ d - 1 \in 0..N /\ ~(d <= d - 1) /\ i + (d - 1) + 1 = i + d /\ i + d \in 0..N
      BY <1>1, <2>4, <2>5, <2>8
    <3>2. Far(d - 1)
      BY <2>3, <3>1
    <3>3. <<walk[i], y>> \in from[d - 1]
      BY <3>1, <3>2
    <3> DEFINE q == <<walk[i], z>>
    <3>4. q \in apps \X apps /\ q[1] = walk[i] /\ q[2] = z
      BY <2>6
    <3> HIDE DEF q
    <3>5. q \in from[d]
      <4>1. from[d] = {p \in apps \X apps :
                         p \in from[d - 1] \/ \E b \in apps : <<p[1], b>> \in from[d - 1]
                                                           /\ <<b, p[2]>> \in E}
        BY <1>3, <3>1
      <4>2. \E b \in apps : <<q[1], b>> \in from[d - 1] /\ <<b, q[2]>> \in E
        BY <2>6, <3>3, <3>4
      <4> QED
        BY <3>4, <4>1, <4>2
    <3> QED
      BY <2>4, <3>5 DEF q
  <2> QED
    BY <2>7, <2>8
<1> DEFINE U == {k \in 0..N : ~(from[N - k] \subseteq from[N])}
<1>6. U = {}
  <2>1. SUFFICES ASSUME U # {} PROVE FALSE
    OBVIOUS
  <2>2. PICK k \in U : \A m \in U : k <= m
    <3>1. U \subseteq Nat
      OBVIOUS
    <3> HIDE DEF U
    <3> QED
      BY <2>1, <3>1, LeastNumber
  <2>3. k \in 0..N /\ k # 0 /\ ~(from[N - k] \subseteq from[N])
    BY <1>1
  <2>4. /\ k - 1 \in 0..N /\ ~(k <= k - 1) /\ N - (k - 1) \in 1..N
        /\ (N - (k - 1)) - 1 = N - k /\ N - k \in 0..N
    BY <1>1, <2>3
  <2>5. from[N - (k - 1)] \subseteq from[N]
    BY <2>2, <2>4
  <2>6. from[N - k] \subseteq from[N - (k - 1)]
    BY <1>3, <2>4
  <2> QED
    BY <2>3, <2>5, <2>6
<1>7. PICK i \in 0..N, j \in 0..N : i < j /\ walk[i] = walk[j]
  <2>1. IsFiniteSet(0..N) /\ Cardinality(App) < Cardinality(0..N)
    BY <1>1, FS_Interval DEF N
  <2>2. walk \in [0..N -> App]
    OBVIOUS
  <2>3. PICK x \in 0..N, y \in 0..N : x # y /\ walk[x] = walk[y]
    BY <2>1, <2>2, DeploymentAssumption, FS_PigeonHole, Zenon
  <2>4. x < y \/ y < x
    BY <1>1, <2>3
  <2> QED
    BY <2>3, <2>4
<1>8. <<walk[i], walk[i]>> \in Reaches(apps)
  <2> DEFINE d == (j - i) - 1
  <2>1. d \in 0..N /\ i + d + 1 = j /\ N - d \in 0..N /\ N - (N - d) = d
    BY <1>1, <1>7
  <2> HIDE DEF d
  <2>2. Far(d)
    BY <1>5, <2>1
  <2>3. <<walk[i], walk[j]>> \in from[d]
    BY <2>1, <2>2
  <2>4. from[d] \subseteq from[N]
    BY <1>6, <2>1
  <2> QED
    BY <1>3, <1>7, <2>3, <2>4
<1> QED
  BY <1>8 DEF Acyclic

(* A deployment never waits for a service it is itself holding back, as     *)
(* long as the manifests do not name each other in a circle                 *)
(* (_native_referenced_service_workloads), whatever the workloads are and   *)
(* however long the chains of their references.                             *)
THEOREM TheAwaitedIsApplied == DeploySpec => []AwaitedIsApplied
<1>1. DeployInv => AwaitedIsApplied
  <2> SUFFICES ASSUME DeployInv, current.at = "wait", Acyclic(current.stage),
                      NEW a \in current.awaited
               PROVE  controller[Normal(current.namespace, a)] = deploys
    BY DEF AwaitedIsApplied, At
  <2> DEFINE apps == current.stage
             roots == {b \in Referenced(apps) : ~DependsOnService(apps, b)}
  <2>1. apps \in SUBSET App /\ current.awaited = Awaited(apps) /\ current.awaited \subseteq apps
    BY DEF DeployInv, DeployTypeOK
  <2>2. Applied(a) \/ a \in Consumers(apps)
    BY <2>1 DEF DeployInv
  <2>3. a \notin Consumers(apps)
    <3>1. SUFFICES ASSUME a \in Consumers(apps) PROVE FALSE
      OBVIOUS
    <3>2. PICK b \in Providers(apps) : b # a /\ <<a, b>> \in Refers
      BY <3>1 DEF Consumers
    <3>3. b \in Referenced(apps)
      BY <3>2 DEF Providers
    <3>4. a \in Providers(apps)
      BY <2>1, <3>3 DEF Awaited
    <3>5. roots = {}
      BY <3>2, <3>3, <3>4 DEF Providers, DependsOnService, Referenced
    <3>6. \A c \in Referenced(apps) :
            \E d \in Referenced(apps) : d # c /\ <<c, d>> \in Refers
      <4>1. ASSUME NEW c \in Referenced(apps)
            PROVE  \E d \in Referenced(apps) : d # c /\ <<c, d>> \in Refers
        <5>1. PICK d \in apps \cap Publisher \cap Native : d # c /\ <<c, d>> \in Refers
          BY <3>5 DEF DependsOnService
        <5>2. c \in apps \cap Native
          BY DEF Referenced
        <5> QED
          BY <5>1, <5>2 DEF Referenced
      <4> QED
        BY <4>1
    <3>7. Referenced(apps) \in SUBSET apps
      BY DEF Referenced
    <3> HIDE DEF apps
    <3>8. ~Acyclic(apps)
      BY <2>1, <3>3, <3>6, <3>7, EveryoneInACircle
    <3> QED
      BY <3>8 DEF apps
  <2> QED
    BY <2>2, <2>3 DEF Applied
<1> QED
  BY DeployInvariant, <1>1, PTL

-----------------------------------------------------------------------------
(* Profiles and edge links. *)

Of(x) == ToSet(Parts[x])
Running == {c \in Container : box[c] # "none"}

(* Where a handler is, all that runs belongs to a record, to what it has    *)
(* still to remove, or to what it starts; the site is that of the profile   *)
(* on record until the handler takes it away, and again when it is done.    *)
Accounted ==
  /\ step \in {"idle", "reported", "check", "edge_check"} => Running \subseteq Of(profile) \cup Of(edge)
  /\ step = "rm" => Running \subseteq ToSet(left) \cup Of(edge)
  /\ step \in {"sweep", "unroute", "forget"} => Running \subseteq Of(edge)
  /\ step = "edge_rm" => Running \subseteq ToSet(left) \cup Of(profile)
  /\ step = "edge_forget" => Running \subseteq Of(profile)
  /\ step \in {"launch", "record"} => ToSet(left) \subseteq Of(target)
  /\ step \in {"launch", "record"} /\ target \in Profile =>
       profile = Nothing /\ Running \subseteq Of(target) \cup Of(edge)
  /\ step \in {"launch", "record"} /\ target \in Shape =>
       edge = Nothing /\ Running \subseteq Of(target) \cup Of(profile)
  /\ route = (IF step = "forget" THEN Nothing
              ELSE IF step = "record" /\ target \in Profile THEN target ELSE profile)

ProfileInv ==
  /\ ProfileTypeOK
  /\ step \in {"check", "sweep", "unroute", "forget"} => target \in Profile \cup {Nothing}
  /\ step = "rm" => target \in Profile \cup {Nothing}
  /\ step = "check" => target \in Profile
  /\ step = "edge_check" => target \in Shape
  /\ step \in {"edge_rm", "edge_forget"} => target \in Shape \cup {Nothing}
  /\ step \in {"launch", "record"} => target \in Profile \cup Shape
  /\ reader # "idle" => seen \in Profile
  /\ step \in {"unroute", "forget", "edge_rm", "edge_forget", "reported"}
       /\ target = Nothing /\ recorded /\ fine => Running = {}
  /\ mess \/ Accounted

(* The parts of what there is to start or to remove, and what a step leaves *)
(* of them.                                                                 *)
LEMMA PartsOf ==
  ASSUME NEW x \in Profile \cup Shape \cup {Nothing}
  PROVE  /\ Parts[x] \in Seq(Container) /\ Reverse(Parts[x]) \in Seq(Container)
         /\ ToSet(Reverse(Parts[x])) = Of(x) /\ ToSet(Parts[x]) = Of(x)
         /\ Of(Nothing) = {}
<1>1. Parts[x] \in Seq(Container) /\ Parts[Nothing] = <<>>
  BY ProfileAssumption
<1>2. Of(Nothing) = {}
  BY <1>1 DEF Of, ToSet
<1> QED
  BY <1>1, <1>2, ElementsOfReverse DEF Of

LEMMA PartsLeft ==
  ASSUME ProfileTypeOK
  PROVE  /\ left = <<>> => ToSet(left) = {}
         /\ left # <<>> => /\ Head(left) \in Container /\ Tail(left) \in Seq(Container)
                           /\ ToSet(left) = {Head(left)} \cup ToSet(Tail(left))
<1>1. left = <<>> => ToSet(left) = {}
  BY DEF ToSet
<1> QED
  BY <1>1, ElementsOfTail DEF ProfileTypeOK

LEMMA InitProfile == ProfileInit => ProfileInv
<1> SUFFICES ASSUME ProfileInit PROVE ProfileInv
  OBVIOUS
<1>0. <<>> \in Seq(Container)
  OBVIOUS
<1>1. ProfileTypeOK
  BY <1>0 DEF ProfileInit, ProfileTypeOK
<1>2. Running = {}
  BY DEF ProfileInit, Running
<1> QED
  BY <1>1, <1>2 DEF ProfileInit, ProfileInv, Accounted

LEMMA StepProfile == ProfileInv /\ [ProfileNext]_profileVars => ProfileInv'
<1> SUFFICES ASSUME ProfileInv, [ProfileNext]_profileVars PROVE ProfileInv'
  OBVIOUS
<1> USE ProfileAssumption
<1>0. /\ Of(Nothing) = {} /\ Nothing \notin Profile /\ Nothing \notin Shape
      /\ Profile \cap Shape = {} /\ Running \subseteq Container
  BY PartsOf DEF Running
<1>1. CASE Command
  <2>1. /\ step = "idle" /\ UNCHANGED <<box, profile, edge, route, reader, seen, mess>>
        /\ step' \in {"check", "edge_check", "rm", "edge_rm"} /\ purge' \in BOOLEAN /\ fine' = TRUE
        /\ recorded' \in BOOLEAN
        /\ step' = "check" => target' \in Profile /\ left' = <<>>
        /\ step' = "edge_check" => target' \in Shape /\ left' = <<>>
        /\ step' = "rm" => target' = Nothing /\ left' = Reverse(Parts[profile])
        /\ step' = "edge_rm" => target' = Nothing /\ left' = Reverse(Parts[edge]) /\ ~recorded'
    BY <1>1 DEF Command, Take
  <2>2. /\ profile \in Profile \cup Shape \cup {Nothing} /\ edge \in Profile \cup Shape \cup {Nothing}
    BY DEF ProfileInv, ProfileTypeOK
  <2>3. left' \in Seq(Container) /\ target' \in Profile \cup Shape \cup {Nothing}
    BY <2>1, <2>2, PartsOf
  <2>4. ProfileTypeOK'
    BY <2>1, <2>3 DEF ProfileInv, ProfileTypeOK
  <2>5. Running' = Running /\ \A x : (Of(x))' = Of(x)
    BY <2>1 DEF Running, Of
  <2>6. /\ step' = "rm" => (ToSet(left))' = Of(profile)
        /\ step' = "edge_rm" => (ToSet(left))' = Of(edge)
    BY <2>1, <2>2, PartsOf
  <2>7. Accounted => Accounted'
    BY <1>0, <2>1, <2>5, <2>6 DEF Accounted
  <2> QED
    BY <1>0, <2>1, <2>4, <2>7 DEF ProfileInv
<1>2. CASE CheckProfile
  <2>1. /\ step = "check" /\ UNCHANGED <<box, profile, edge, fine, mess, target, purge, reader, seen>>
        /\ recorded' \in BOOLEAN /\ target \in Profile
        /\ \/ /\ step' = "reported" /\ profile = target /\ route' = target /\ left' = left
           \/ /\ step' = "launch" /\ profile = Nothing /\ route' = route /\ left' = Parts[target]
           \/ /\ step' = "rm" /\ profile # Nothing /\ route' = route /\ left' = Reverse(Parts[profile])
    BY <1>2 DEF CheckProfile, Go, ProfileInv, ProfileTypeOK
  <2>2. /\ profile \in Profile \cup Shape \cup {Nothing} /\ target \in Profile \cup Shape \cup {Nothing}
    BY DEF ProfileInv, ProfileTypeOK
  <2>3. left' \in Seq(Container)
    BY <2>1, <2>2, PartsOf DEF ProfileInv, ProfileTypeOK
  <2>4. ProfileTypeOK'
    BY <2>1, <2>3 DEF ProfileInv, ProfileTypeOK
  <2>5. Running' = Running /\ \A x : (Of(x))' = Of(x)
    BY <2>1 DEF Running, Of
  <2>6. /\ step' = "rm" => (ToSet(left))' = Of(profile)
        /\ step' = "launch" => (ToSet(left))' = Of(target)
    BY <2>1, <2>2, PartsOf
  <2>7. Accounted => Accounted'
    BY <1>0, <2>1, <2>5, <2>6 DEF Accounted
  <2> QED
    BY <1>0, <2>1, <2>4, <2>7 DEF ProfileInv
<1>3. CASE CheckEdge
  <2>1. /\ step = "edge_check" /\ target \in Shape
        /\ UNCHANGED <<box, profile, edge, route, fine, mess, target, purge, reader, seen, recorded>>
        /\ \/ /\ step' = "reported" /\ left' = left
           \/ /\ step' = "launch" /\ edge = Nothing /\ left' = Parts[target]
           \/ /\ step' = "edge_rm" /\ edge # Nothing /\ left' = Reverse(Parts[edge])
    BY <1>3 DEF CheckEdge, Go, ProfileInv, ProfileTypeOK
  <2>2. /\ edge \in Profile \cup Shape \cup {Nothing} /\ target \in Profile \cup Shape \cup {Nothing}
    BY DEF ProfileInv, ProfileTypeOK
  <2>3. left' \in Seq(Container)
    BY <2>1, <2>2, PartsOf DEF ProfileInv, ProfileTypeOK
  <2>4. ProfileTypeOK'
    BY <2>1, <2>3 DEF ProfileInv, ProfileTypeOK
  <2>5. Running' = Running /\ \A x : (Of(x))' = Of(x)
    BY <2>1 DEF Running, Of
  <2>6. /\ step' = "edge_rm" => (ToSet(left))' = Of(edge)
        /\ step' = "launch" => (ToSet(left))' = Of(target)
    BY <2>1, <2>2, PartsOf
  <2>7. Accounted => Accounted'
    BY <1>0, <2>1, <2>5, <2>6 DEF Accounted
  <2> QED
    BY <1>0, <2>1, <2>4, <2>7 DEF ProfileInv
<1>4. CASE RemovePart
  <2>1. /\ step \in {"rm", "edge_rm"} /\ left # <<>> /\ left' = Tail(left) /\ step' = step
        /\ UNCHANGED <<target, purge, reader, seen, recorded, profile, edge, route>>
        /\ \/ /\ box' = [box EXCEPT ![Head(left)] = "none"] /\ fine' = fine /\ mess' = mess
           \/ fine' = FALSE /\ mess' = TRUE /\ box' = box
    BY <1>4 DEF RemovePart, Go
  <2>2. ProfileTypeOK'
    BY <2>1, PartsLeft, ZenonT(60) DEF ProfileInv, ProfileTypeOK
  <2>3. Running' \subseteq Running /\ (~mess' => Running' = Running \ {Head(left)})
    BY <2>1, PartsLeft DEF Running, ProfileInv, ProfileTypeOK
  <2>4. ToSet(left) = {Head(left)} \cup (ToSet(left))'
    BY <2>1, PartsLeft DEF ProfileInv
  <2>5. \A x : (Of(x))' = Of(x)
    BY DEF Of
  <2>6. Accounted => mess' \/ Accounted'
    BY <1>0, <2>1, <2>3, <2>4, <2>5 DEF Accounted
  <2> QED
    BY <1>0, <2>1, <2>2, <2>3, <2>6 DEF ProfileInv
<1>5. CASE Removed
  <2>1. /\ left = <<>> /\ UNCHANGED <<recorded, box, profile, edge, route, left, fine, mess,
                                     target, purge, reader, seen>>
        /\ \/ step = "edge_rm" /\ step' = "edge_forget"
           \/ step = "rm" /\ step' = "sweep"
           \/ step = "rm" /\ step' = "unroute" /\ ~recorded
    BY <1>5 DEF Removed, Go, ProfileInv, ProfileTypeOK
  <2>2. ProfileTypeOK'
    BY <2>1 DEF ProfileInv, ProfileTypeOK
  <2>3. Running' = Running /\ \A x : (Of(x))' = Of(x)
    BY <2>1 DEF Running, Of
  <2>4. Accounted => Accounted'
    BY <1>0, <2>1, <2>3, PartsLeft DEF Accounted, ProfileInv
  <2> QED
    BY <1>0, <2>1, <2>2, <2>3, <2>4 DEF ProfileInv
<1>6. CASE Sweep
  <2>1. /\ step = "sweep" /\ step' = "unroute"
        /\ UNCHANGED <<recorded, profile, edge, route, left, target, purge, reader, seen>>
        /\ \/ box' = [c \in Container |-> "none"] /\ UNCHANGED <<fine, mess>>
           \/ /\ fine' = FALSE /\ mess' = TRUE
              /\ \E gone \in SUBSET Container :
                   box' = [c \in Container |-> IF c \in gone THEN "none" ELSE box[c]]
    BY <1>6 DEF Sweep, Go
  <2>2. ProfileTypeOK'
    BY <2>1 DEF ProfileInv, ProfileTypeOK
  <2>3. fine' => Running' = {}
    BY <2>1 DEF Running
  <2>4. mess' \/ Running' = {}
    BY <2>1 DEF Running
  <2>5. \A x : (Of(x))' = Of(x)
    BY DEF Of
  <2>6. Accounted => mess' \/ Accounted'
    BY <1>0, <2>1, <2>4, <2>5 DEF Accounted
  <2> QED
    BY <1>0, <2>1, <2>2, <2>3, <2>6 DEF ProfileInv
<1>7. CASE RemoveRoute
  <2>1. /\ step = "unroute" /\ step' = "forget"
        /\ UNCHANGED <<recorded, box, profile, edge, left, fine, target, purge, reader, seen>>
        /\ \/ route' = Nothing /\ mess' = mess
           \/ route' = route /\ mess' = TRUE
    BY <1>7 DEF RemoveRoute, Go
  <2>2. ProfileTypeOK' /\ Running' = Running /\ \A x : (Of(x))' = Of(x)
    BY <2>1 DEF ProfileInv, ProfileTypeOK, Running, Of
  <2>3. Accounted => mess' \/ Accounted'
    BY <2>1, <2>2 DEF Accounted
  <2> QED
    BY <2>1, <2>2, <2>3 DEF ProfileInv
<1>8. CASE ForgetRecord
  <2>1. /\ step = "forget" /\ UNCHANGED <<box, edge, route, recorded, target, purge, reader, seen>>
        /\ \/ profile' = Nothing /\ fine' = (fine \/ ~recorded) /\ mess' = mess
           \/ fine' = ~recorded /\ mess' = TRUE /\ profile' = profile
        /\ \/ target = Nothing /\ step' = "edge_rm" /\ left' = Reverse(Parts[edge])
           \/ target # Nothing /\ step' = "launch" /\ left' = Parts[target]
    BY <1>8 DEF ForgetRecord, Go
  <2>2. /\ edge \in Profile \cup Shape \cup {Nothing} /\ target \in Profile \cup Shape \cup {Nothing}
    BY DEF ProfileInv, ProfileTypeOK
  <2>3. left' \in Seq(Container)
    BY <2>1, <2>2, PartsOf
  <2>4. ProfileTypeOK'
    BY <2>1, <2>3 DEF ProfileInv, ProfileTypeOK
  <2>5. Running' = Running /\ \A x : (Of(x))' = Of(x)
    BY <2>1 DEF Running, Of
  <2>6. /\ step' = "edge_rm" => (ToSet(left))' = Of(edge)
        /\ step' = "launch" => (ToSet(left))' = Of(target)
    BY <2>1, <2>2, PartsOf
  <2>7. step' = "launch" => target' \in Profile
    BY <2>1 DEF ProfileInv
  <2>8. Accounted => mess' \/ Accounted'
    BY <1>0, <2>1, <2>5, <2>6, <2>7 DEF Accounted
  <2>9. recorded /\ fine' => fine
    BY <2>1
  <2>10. target = Nothing /\ recorded' /\ fine' => Running' = {}
    BY <2>1, <2>5, <2>9 DEF ProfileInv
  <2>11. step' \in {"edge_rm", "launch"} /\ (step' = "edge_rm" <=> target = Nothing)
    BY <2>1
  <2>12. mess \/ Accounted
    BY DEF ProfileInv
  <2>13. mess' \/ Accounted'
    BY <2>1, <2>8, <2>12
  <2>14. reader' # "idle" => seen' \in Profile
    BY <2>1 DEF ProfileInv
  <2> QED
    BY <1>0, <2>1, <2>4, <2>7, <2>10, <2>11, <2>13, <2>14 DEF ProfileInv
<1>9. CASE ForgetEdge
  <2>1. /\ step = "edge_forget"
        /\ UNCHANGED <<recorded, box, profile, route, target, purge, reader, seen>>
        /\ \/ edge' = Nothing /\ fine' = fine /\ mess' = mess
           \/ fine' = FALSE /\ mess' = TRUE /\ edge' = edge
        /\ \/ target = Nothing /\ step' = "reported" /\ left' = left
           \/ target # Nothing /\ step' = "launch" /\ left' = Parts[target]
    BY <1>9 DEF ForgetEdge, Go
  <2>2. target \in Profile \cup Shape \cup {Nothing}
    BY DEF ProfileInv, ProfileTypeOK
  <2>3. left' \in Seq(Container)
    BY <2>1, <2>2, PartsOf DEF ProfileInv, ProfileTypeOK
  <2>4. ProfileTypeOK'
    BY <2>1, <2>3 DEF ProfileInv, ProfileTypeOK
  <2>5. Running' = Running /\ \A x : (Of(x))' = Of(x)
    BY <2>1 DEF Running, Of
  <2>6. step' = "launch" => (ToSet(left))' = Of(target) /\ target' \in Shape
    BY <2>1, <2>2, PartsOf DEF ProfileInv
  <2>7. Accounted => mess' \/ Accounted'
    BY <1>0, <2>1, <2>5, <2>6 DEF Accounted
  <2> QED
    BY <1>0, <2>1, <2>4, <2>5, <2>6, <2>7 DEF ProfileInv
<1>10. CASE LaunchPart
  <2>1. /\ step = "launch" /\ left # <<>> /\ UNCHANGED <<recorded, profile, edge, route, fine,
                                                      target, purge, reader, seen>>
        /\ \/ /\ box' = [box EXCEPT ![Head(left)] = "up"]
              /\ step' = "launch" /\ left' = Tail(left) /\ mess' = mess
           \/ /\ step' = "idle" /\ left' = <<>> /\ mess' = TRUE
              /\ \E b \in {box[Head(left)], "none", "exited"} : box' = [box EXCEPT ![Head(left)] = b]
    BY <1>10 DEF LaunchPart, Go
  <2>a. Head(left) \in Container /\ Tail(left) \in Seq(Container) /\ <<>> \in Seq(Container)
    BY <2>1, PartsLeft DEF ProfileInv
  <2>b. left' \in Seq(Container) /\ step' \in {"idle", "launch"} /\ mess' \in BOOLEAN
    BY <2>1, <2>a DEF ProfileInv, ProfileTypeOK
  <2>c. box' \in [Container -> {"none", "up", "exited"}]
    BY <2>1, <2>a DEF ProfileInv, ProfileTypeOK
  <2>2. ProfileTypeOK'
    BY <2>1, <2>b, <2>c DEF ProfileInv, ProfileTypeOK
  <2>3. ~mess' => Running' \subseteq Running \cup {Head(left)}
    BY <2>1, PartsLeft DEF Running, ProfileInv, ProfileTypeOK
  <2>4. ToSet(left) = {Head(left)} \cup ToSet(Tail(left))
    BY <2>1, PartsLeft DEF ProfileInv
  <2>5. \A x : (Of(x))' = Of(x)
    BY DEF Of
  <2>6. Accounted => mess' \/ Accounted'
    BY <1>0, <2>1, <2>3, <2>4, <2>5 DEF Accounted
  <2> QED
    BY <1>0, <2>1, <2>2, <2>6 DEF ProfileInv
<1>11. CASE Launched
  <2>1. /\ step = "launch" /\ step' = "record" /\ left = <<>>
        /\ route' = (IF target \in Profile THEN target ELSE route)
        /\ UNCHANGED <<recorded, box, profile, edge, left, fine, mess, target, purge, reader, seen>>
    BY <1>11 DEF Launched, Go
  <2>2. ProfileTypeOK' /\ Running' = Running /\ \A x : (Of(x))' = Of(x)
    BY <2>1 DEF ProfileInv, ProfileTypeOK, Running, Of
  <2>3. Accounted => Accounted'
    BY <2>1, <2>2 DEF Accounted
  <2> QED
    BY <2>1, <2>2, <2>3 DEF ProfileInv
<1>12. CASE Record
  <2>1. /\ step = "record" /\ step' = "reported"
        /\ IF target \in Profile THEN profile' = target /\ edge' = edge
                                 ELSE edge' = target /\ profile' = profile
        /\ UNCHANGED <<recorded, box, route, left, fine, mess, target, purge, reader, seen>>
        /\ target \in Profile \cup Shape
    BY <1>12 DEF Record, Go, ProfileInv
  <2>2. ProfileTypeOK' /\ Running' = Running /\ \A x : (Of(x))' = Of(x)
    BY <2>1 DEF ProfileInv, ProfileTypeOK, Running, Of
  <2>3. Accounted => Accounted'
    BY <1>0, <2>1, <2>2 DEF Accounted
  <2> QED
    BY <1>0, <2>1, <2>2, <2>3 DEF ProfileInv
<1>13. CASE Reported
  <2>1. /\ step = "reported" /\ step' = "idle" /\ target' = Nothing /\ purge' = FALSE
        /\ recorded' = FALSE /\ fine' = TRUE
        /\ UNCHANGED <<box, profile, edge, route, left, reader, seen, mess>>
    BY <1>13 DEF Reported
  <2>2. ProfileTypeOK' /\ Running' = Running /\ \A x : (Of(x))' = Of(x)
    BY <2>1 DEF ProfileInv, ProfileTypeOK, Running, Of
  <2>3. Accounted => Accounted'
    BY <2>1, <2>2 DEF Accounted
  <2> QED
    BY <2>1, <2>2, <2>3 DEF ProfileInv
<1>14. CASE LoadRecord \/ CheckRunning
  <2>1. /\ UNCHANGED <<box, edge, step, target, purge, left, recorded, fine, profile, route, mess>>
        /\ reader' \in {"idle", "loaded", "running"} /\ seen' \in Profile \cup {Nothing}
        /\ reader' # "idle" => seen' \in Profile
    BY <1>14 DEF LoadRecord, CheckRunning, Read, ProfileInv, ProfileTypeOK
  <2>2. ProfileTypeOK' /\ Running' = Running /\ \A x : (Of(x))' = Of(x)
    BY <2>1 DEF ProfileInv, ProfileTypeOK, Running, Of
  <2>3. Accounted => Accounted'
    BY <2>1, <2>2 DEF Accounted
  <2> QED
    BY <2>1, <2>2, <2>3 DEF ProfileInv
<1>15. CASE RefreshIngress
  <2>1. /\ UNCHANGED <<box, edge, step, target, purge, left, recorded, fine>>
        /\ reader' = "idle" /\ seen' = Nothing /\ seen \in Profile
        /\ route' = seen /\ profile' \in {profile, seen}
        /\ mess' \in BOOLEAN
        /\ ~mess' => ~mess /\ profile = seen /\ step # "forget"
    BY <1>15 DEF RefreshIngress, Read, ProfileInv, ProfileTypeOK
  <2>2. ProfileTypeOK' /\ Running' = Running /\ \A x : (Of(x))' = Of(x)
    BY <2>1 DEF ProfileInv, ProfileTypeOK, Running, Of
  <2>3. Accounted => mess' \/ Accounted'
    BY <1>0, <2>1, <2>2 DEF Accounted
  <2> QED
    BY <2>1, <2>2, <2>3 DEF ProfileInv
<1>16. CASE ContainerExits
  <2>1. PICK c \in Container : box[c] = "up" /\ box' = [box EXCEPT ![c] = "exited"]
    BY <1>16 DEF ContainerExits
  <2>2. UNCHANGED <<recorded, profile, edge, route, step, target, purge, left, fine, reader, seen, mess>>
    BY <1>16 DEF ContainerExits
  <2>3. ProfileTypeOK'
    BY <2>1, <2>2 DEF ProfileInv, ProfileTypeOK
  <2>4. Running' = Running /\ \A x : (Of(x))' = Of(x)
    BY <2>1 DEF ProfileInv, ProfileTypeOK, Running, Of
  <2>5. Accounted => Accounted'
    BY <2>2, <2>4 DEF Accounted
  <2> QED
    BY <2>2, <2>3, <2>4, <2>5 DEF ProfileInv
<1>17. CASE DaemonDies
  <2>1. /\ step' = "idle" /\ target' = Nothing /\ purge' = FALSE /\ left' = <<>>
        /\ recorded' = FALSE /\ fine' = TRUE /\ reader' = "idle" /\ seen' = Nothing /\ mess' = TRUE
        /\ UNCHANGED <<box, profile, edge, route>>
    BY <1>17 DEF DaemonDies, world
  <2>2. ProfileTypeOK'
    BY <2>1 DEF ProfileInv, ProfileTypeOK
  <2> QED
    BY <2>1, <2>2 DEF ProfileInv
<1>18. CASE UNCHANGED profileVars
  BY <1>18 DEF profileVars, ProfileInv, ProfileTypeOK, Accounted, Running, Of
<1> QED
  BY <1>1, <1>2, <1>3, <1>4, <1>5, <1>6, <1>7, <1>8, <1>9, <1>10, <1>11, <1>12, <1>13, <1>14,
     <1>15, <1>16, <1>17, <1>18 DEF ProfileNext

LEMMA ProfileInvariant == ProfileSpec => []ProfileInv
BY InitProfile, StepProfile, PTL DEF ProfileSpec

(* Containers, records and handlers have the types the code gives them. *)
THEOREM ProfileTypeCorrect == ProfileSpec => []ProfileTypeOK
BY ProfileInvariant, PTL DEF ProfileInv

(* When stopping a profile is reported to have succeeded nothing is left in *)
(* the project's namespace; and as long as nothing has failed every         *)
(* container is of a profile or an edge link on record, and the ingress has *)
(* the site of the profile on record (K1sProfileRunner), whatever profiles, *)
(* shapes of links and containers there are.                                *)
THEOREM NothingForgotten == ProfileSpec => []NothingIsForgotten
<1>1. ProfileInv => NothingIsForgotten
  BY DEF ProfileInv, Accounted, Running, Of, NothingIsForgotten, StopIsComplete, RecordIsTrue
<1> QED
  BY ProfileInvariant, <1>1, PTL

-----------------------------------------------------------------------------
(* The DNS service. *)

Spots == 1..(Offsets + 1)

(* Where reading goes on from each spot, and the spots it comes to.         *)
Onward == [i \in Spots |->
             IF i \notin 1..Offsets THEN i
             ELSE IF packet[i] = Label THEN i + 1
             ELSE IF packet[i] \in Pointer THEN packet[i] ELSE i]
Reached == {Walk[k] : k \in 0..Offsets}

AtEnd(i) == i \in 1..Offsets /\ packet[i] = End
Plain(i) == i \in 1..Offsets /\ packet[i] = Label

(* Reading has come to its offset, from spots U none of which is an end and *)
(* all of which lead to others of them; and it knows the end of the labels  *)
(* before the first pointer.                                                *)
LeadsHere(U) ==
  /\ StartOffset \in U /\ offset \in U /\ pointers \subseteq U
  /\ \A x \in U \ {offset} : Onward[x] \in U /\ ~AtEnd(x)

Reading ==
  /\ offset \in Reached
  /\ \E U \in SUBSET Spots : LeadsHere(U)
  /\ ~jumped => \A i \in 1..(offset - 1) : Plain(i)
  /\ jumped => ~Plain(resumeAt - 1) /\ \A i \in 1..(resumeAt - 2) : Plain(i)

(* What the forwarding knows of the resolvers it has consulted.             *)
KnowsFirst(first, kind) ==
  /\ first = 0 => \A i \in 1..consulted : replies[i] # kind
  /\ first # 0 => /\ first \in 1..consulted /\ replies[first] = kind
                  /\ \A i \in 1..(first - 1) : replies[i] # kind

Forwarding ==
  /\ \A i \in 1..consulted : replies[i] # "positive"
  /\ KnowsFirst(firstEmpty, "empty") /\ KnowsFirst(firstNxdomain, "nxdomain")

DnsInv ==
  /\ DnsTypeOK
  /\ stageOfQuery # "answered" => answer = "none"
  /\ stageOfQuery = "answered" => answer # "none"
  /\ stageOfQuery = "waiting" =>
       offset = StartOffset /\ ~jumped /\ pointers = {} /\ resumeAt = StartOffset
  /\ stageOfQuery \in {"waiting", "decoding"} =>
       consulted = 0 /\ firstEmpty = 0 /\ firstNxdomain = 0
  /\ stageOfQuery = "decoding" => Reading
  /\ stageOfQuery = "forwarding" => Forwarding
  /\ AnswerIsRight

(* The walk is the iteration of Onward from the start.                      *)
LEMMA WalkOn ==
  ASSUME DnsTypeOK
  PROVE  /\ Walk \in [0..Offsets -> Spots] /\ Walk[0] = StartOffset
         /\ Onward \in [Spots -> Spots] /\ StartOffset \in Spots
         /\ \A k \in 1..Offsets : Walk[k] = Onward[Walk[k - 1]]
<1> DEFINE IsWalk(f) ==
             f = [k \in 0..Offsets |->
                    IF k = 0 THEN StartOffset
                    ELSE LET i == f[k - 1] IN
                         IF i \notin 1..Offsets THEN i
                         ELSE IF packet[i] = Label THEN i + 1
                         ELSE IF packet[i] \in Pointer THEN packet[i] ELSE i]
           f == CHOOSE g : IsWalk(g)
<1>1. Offsets \in Nat /\ Offsets >= 1
  BY DnsAssumption
<1>2. Walk = f
  BY DEF Walk
<1>3. Onward \in [Spots -> Spots] /\ StartOffset \in Spots
  <2>1. StartOffset \in Spots
    BY <1>1 DEF Spots, StartOffset
  <2>2. ASSUME NEW i \in Spots PROVE Onward[i] \in Spots
    BY <1>1, <2>2 DEF Onward, Spots, Pointer
  <2>3. Onward = [i \in Spots |-> Onward[i]]
    BY DEF Onward
  <2> QED
    BY <2>1, <2>2, <2>3
<1>4. PICK g \in [0..Offsets -> Spots] : g[0] = StartOffset /\ \A i \in 1..Offsets : g[i] = Onward[g[i - 1]]
  <2>1. Orbits(Spots, StartOffset, Onward, Offsets) # {}
    BY <1>1, <1>3, Iterated
  <2> QED
    BY <2>1 DEF Orbits
<1>5. IsWalk(g)
  <2>1. ASSUME NEW k \in 0..Offsets
        PROVE  g[k] = IF k = 0 THEN StartOffset
                      ELSE LET i == g[k - 1] IN
                           IF i \notin 1..Offsets THEN i
                           ELSE IF packet[i] = Label THEN i + 1
                           ELSE IF packet[i] \in Pointer THEN packet[i] ELSE i
    <3>1. CASE k = 0
      BY <1>4, <3>1
    <3>2. CASE k # 0
      <4>1. k \in 1..Offsets /\ k - 1 \in 0..Offsets
        BY <1>1, <3>2
      <4>2. g[k] = Onward[g[k - 1]] /\ g[k - 1] \in Spots
        BY <1>4, <4>1
      <4> QED
        BY <3>2, <4>2 DEF Onward
    <3> QED
      BY <3>1, <3>2
  <2> QED
    BY <1>4, <2>1
<1>6. IsWalk(f)
  BY <1>5
<1> HIDE DEF f
<1>7. f[0] = StartOffset
  BY <1>1, <1>6
<1>8. ASSUME NEW k \in 1..Offsets, f[k - 1] \in Spots
      PROVE  f[k] = Onward[f[k - 1]]
  <2>1. k \in 0..Offsets /\ k # 0
    BY <1>1
  <2>2. f[k] = LET i == f[k - 1] IN
               IF i \notin 1..Offsets THEN i
               ELSE IF packet[i] = Label THEN i + 1
               ELSE IF packet[i] \in Pointer THEN packet[i] ELSE i
    BY <1>6, <2>1
  <2> QED
    BY <1>8, <2>2 DEF Onward
<1>9. \A k \in 0..Offsets : f[k] \in Spots
  <2> DEFINE T == {k \in 0..Offsets : f[k] \notin Spots}
  <2>1. SUFFICES ASSUME T # {} PROVE FALSE
    OBVIOUS
  <2>2. PICK k \in T : \A m \in T : k <= m
    <3>1. T \subseteq Nat
      BY <1>1
    <3> HIDE DEF T
    <3> QED
      BY <2>1, <3>1, LeastNumber
  <2>3. k # 0
    BY <1>3, <1>7
  <2>4. k \in 1..Offsets /\ k - 1 \in 0..Offsets /\ k - 1 \notin T
    BY <1>1, <2>2, <2>3
  <2>5. f[k - 1] \in Spots
    BY <2>4
  <2>6. f[k] = Onward[f[k - 1]]
    BY <1>8, <2>4, <2>5
  <2> QED
    BY <1>3, <2>2, <2>5, <2>6
<1>10. \A k \in 1..Offsets : f[k] = Onward[f[k - 1]]
  <2>1. \A k \in 1..Offsets : k - 1 \in 0..Offsets
    BY <1>1
  <2> QED
    BY <1>8, <1>9, <2>1
<1>11. f \in [0..Offsets -> Spots]
  <2>1. f = [k \in 0..Offsets |-> f[k]]
    BY <1>6
  <2> QED
    BY <1>9, <2>1
<1> QED
  BY <1>2, <1>3, <1>7, <1>10, <1>11

(* As many steps as there are offsets come to every spot that any number of *)
(* steps comes to.                                                          *)
LEMMA ReachedIsClosed ==
  ASSUME DnsTypeOK
  PROVE  StartOffset \in Reached /\ Reached \subseteq Spots /\ \A x \in Reached : Onward[x] \in Reached
<1> DEFINE N == Offsets
<1>1. Offsets \in Nat /\ Offsets >= 1
  BY DnsAssumption
<1>2. /\ Walk \in [0..Offsets -> Spots] /\ Walk[0] = StartOffset
      /\ \A k \in 1..Offsets : Walk[k] = Onward[Walk[k - 1]]
      /\ Onward \in [Spots -> Spots]
  BY WalkOn
<1>3. StartOffset \in Reached /\ Reached \subseteq Spots
  BY <1>1, <1>2 DEF Reached
<1>4. ASSUME NEW k \in 0..Offsets, k # Offsets PROVE Onward[Walk[k]] \in Reached
  <2>1. k + 1 \in 1..Offsets /\ k + 1 \in 0..Offsets /\ (k + 1) - 1 = k
    BY <1>1, <1>4
  <2> QED
    BY <1>2, <2>1 DEF Reached
<1>5. Onward[Walk[Offsets]] \in Reached
  <2>1. CASE Walk \in Injection(0..Offsets, Spots)
    <3>1. /\ IsFiniteSet(0..Offsets) /\ IsFiniteSet(Spots)
          /\ Cardinality(0..Offsets) = Cardinality(Spots)
      BY <1>1, FS_Interval DEF Spots
    <3>2. Walk \in Surjection(0..Offsets, Spots)
      BY <2>1, <3>1, FS_Injection
    <3>3. Reached = Spots
      BY <1>3, <3>2 DEF Surjection, Reached
    <3>4. Offsets \in 0..Offsets
      BY <1>1
    <3> QED
      BY <1>2, <3>3, <3>4
  <2>2. CASE Walk \notin Injection(0..Offsets, Spots)
    <3>1. PICK i, j \in 0..Offsets : i < j /\ Walk[i] = Walk[j]
      <4>1. PICK a, b \in 0..Offsets : a # b /\ Walk[a] = Walk[b]
        BY <1>2, <2>2 DEF Injection, IsInjective
      <4>2. a < b \/ b < a
        BY <1>1, <4>1
      <4> QED
        BY <4>1, <4>2
    <3> DEFINE T == {m \in 0..(Offsets - j) : Walk[i + m] # Walk[j + m]}
    <3>2. T = {}
      <4>1. SUFFICES ASSUME T # {} PROVE FALSE
        OBVIOUS
      <4>2. PICK m \in T : \A n \in T : m <= n
        <5>1. T \subseteq Nat
          BY <1>1
        <5> HIDE DEF T
        <5> QED
          BY <4>1, <5>1, LeastNumber
      <4>3. m \in Nat /\ m # 0 /\ j + m <= Offsets /\ Walk[i + m] # Walk[j + m]
        BY <1>1, <3>1, <4>2
      <4>4. m - 1 \in 0..(Offsets - j) /\ m - 1 \notin T
        BY <1>1, <4>2, <4>3
      <4>5. Walk[i + (m - 1)] = Walk[j + (m - 1)]
        BY <4>4
      <4>6. /\ i + m \in 1..Offsets /\ (i + m) - 1 = i + (m - 1)
            /\ j + m \in 1..Offsets /\ (j + m) - 1 = j + (m - 1)
        BY <1>1, <3>1, <4>3
      <4>7. Walk[i + m] = Onward[Walk[i + (m - 1)]] /\ Walk[j + m] = Onward[Walk[j + (m - 1)]]
        BY <1>2, <4>6
      <4> QED
        BY <4>3, <4>5, <4>7
    <3>3. Offsets - j \in 0..(Offsets - j) /\ j + (Offsets - j) = Offsets
      BY <1>1
    <3>4. Walk[i + (Offsets - j)] = Walk[Offsets]
      BY <3>2, <3>3
    <3>5. i + (Offsets - j) \in 0..Offsets /\ i + (Offsets - j) # Offsets
      BY <1>1, <3>1
    <3> QED
      BY <1>4, <3>4, <3>5
  <2> QED
    BY <2>1, <2>2
<1> QED
  BY <1>3, <1>4, <1>5 DEF Reached

LEMMA ReachedWithin ==
  ASSUME DnsTypeOK, NEW U \in SUBSET Spots, StartOffset \in U, \A x \in U : Onward[x] \in U
  PROVE  Reached \subseteq U
<1> DEFINE T == {k \in 0..Offsets : Walk[k] \notin U}
<1>1. Offsets \in Nat
  BY DnsAssumption
<1>2. SUFFICES ASSUME T # {} PROVE FALSE
  BY DEF Reached
<1>3. PICK k \in T : \A m \in T : k <= m
  <2>1. T \subseteq Nat
    BY <1>1
  <2> HIDE DEF T
  <2> QED
    BY <1>2, <2>1, LeastNumber
<1>4. k # 0
  BY WalkOn
<1>5. k \in 1..Offsets /\ k - 1 \in 0..Offsets /\ k - 1 \notin T
  BY <1>1, <1>3, <1>4
<1>6. Walk[k - 1] \in U
  BY <1>5
<1> QED
  BY <1>3, <1>5, <1>6, WalkOn

(* Where reading cannot go on there is no end to come to.                   *)
LEMMA NoEndElsewhere ==
  ASSUME DnsTypeOK, Reading, ~WellFormed
  PROVE  \A x \in Reached : ~AtEnd(x)
<1>1. PICK U \in SUBSET Spots : LeadsHere(U)
  BY DEF Reading
<1>2. offset \in Spots /\ Offsets \in Nat
  BY DnsAssumption DEF DnsTypeOK, Spots
<1>3. Onward[offset] \in U /\ ~AtEnd(offset)
  <2>1. CASE offset > Offsets
    BY <1>1, <1>2, <2>1 DEF LeadsHere, Onward, AtEnd
  <2>2. CASE offset <= Offsets /\ packet[offset] = Bad
    <3>1. packet[offset] # Label /\ packet[offset] # End /\ packet[offset] \notin Pointer
      BY <1>2, <2>2 DEF Bad, Label, End, Pointer
    <3> QED
      BY <1>1, <1>2, <3>1 DEF LeadsHere, Onward, AtEnd
  <2>3. CASE offset <= Offsets /\ packet[offset] \in pointers
    <3>0. packet[offset] \in 1..Offsets
      BY <2>3 DEF DnsTypeOK
    <3>1. packet[offset] # Label /\ packet[offset] # End /\ packet[offset] \in Pointer
      BY <1>2, <3>0 DEF Label, End, Pointer
    <3>2. offset \in 1..Offsets
      BY <1>2, <2>3 DEF Spots
    <3>3. Onward[offset] = packet[offset]
      BY <1>2, <3>1, <3>2 DEF Onward
    <3> QED
      BY <1>1, <2>3, <3>1, <3>3 DEF LeadsHere, AtEnd
  <2> QED
    BY <1>2, <2>1, <2>2, <2>3 DEF WellFormed, Spots
<1>4. Reached \subseteq U
  BY <1>1, <1>3, ReachedWithin DEF LeadsHere
<1> QED
  BY <1>1, <1>3, <1>4 DEF LeadsHere

(* What NameIsRead says, in terms of the spots that reading comes to.       *)
LEMMA NameAsReached ==
  ASSUME DnsTypeOK
  PROVE  NameIsRead <=>
           /\ stageOfQuery = "forwarding" \/ answer = "local" =>
                /\ \E x \in Reached : AtEnd(x)
                /\ ~Plain(resumeAt - 1)
                /\ \A i \in 1..(resumeAt - 2) : Plain(i)
           /\ answer = "format error" => (\A x \in Reached : ~AtEnd(x)) \/ resumeAt > Offsets
BY DEF NameIsRead, Reached, AtEnd, Plain, StartOffset

LEMMA StartIsReached == DnsTypeOK' => (StartOffset \in Reached)'
<1>1. DnsTypeOK => StartOffset \in Reached
  BY ReachedIsClosed
<1> QED
  BY <1>1, PTL

LEMMA NameIsReadNext ==
  DnsTypeOK' /\
    (/\ stageOfQuery = "forwarding" \/ answer = "local" =>
          /\ \E x \in Reached : AtEnd(x)
          /\ ~Plain(resumeAt - 1)
          /\ \A i \in 1..(resumeAt - 2) : Plain(i)
     /\ answer = "format error" => (\A x \in Reached : ~AtEnd(x)) \/ resumeAt > Offsets)'
    => NameIsRead'
<1>1. DnsTypeOK /\
        (/\ stageOfQuery = "forwarding" \/ answer = "local" =>
              /\ \E x \in Reached : AtEnd(x)
              /\ ~Plain(resumeAt - 1)
              /\ \A i \in 1..(resumeAt - 2) : Plain(i)
         /\ answer = "format error" => (\A x \in Reached : ~AtEnd(x)) \/ resumeAt > Offsets)
        => NameIsRead
  BY NameAsReached
<1> QED
  BY <1>1, PTL

LEMMA InitDns == DnsInit => DnsInv
<1> SUFFICES ASSUME DnsInit PROVE DnsInv
  OBVIOUS
<1>1. Offsets \in Nat /\ Offsets >= 1 /\ Upstreams \in Nat
  BY DnsAssumption
<1>2. DnsTypeOK
  <2>1. packet \in [1..Offsets -> Cell]
    BY <1>1 DEF DnsInit, Cell, Bad
  <2>2. replies \in [1..Upstreams -> Reply]
    BY DEF DnsInit, Reply
  <2>3. offset \in 1..(Offsets + 1) /\ resumeAt \in 1..(Offsets + 1)
    BY <1>1 DEF DnsInit, StartOffset
  <2>4. consulted \in 0..Upstreams /\ firstEmpty \in 0..Upstreams /\ firstNxdomain \in 0..Upstreams
        /\ source \in 0..Upstreams
    BY <1>1 DEF DnsInit
  <2>5. jumped \in BOOLEAN
    BY DEF DnsInit
  <2>6. /\ stageOfQuery \in {"waiting", "decoding", "forwarding", "answered"}
        /\ answer \in {"none", "refused", "format error", "local", "servfail", "forwarded"}
        /\ pointers \subseteq 1..Offsets
    BY DEF DnsInit
  <2> QED
    BY <2>1, <2>2, <2>3, <2>4, <2>5, <2>6 DEF DnsTypeOK
<1>3. AnswerIsRight
  BY DEF DnsInit, AnswerIsRight, NameIsRead, BestIsGiven
<1> QED
  BY <1>2, <1>3 DEF DnsInit, DnsInv

LEMMA StepDns == DnsInv /\ [DnsNext]_dnsVars => DnsInv'
<1> SUFFICES ASSUME DnsInv, [DnsNext]_dnsVars PROVE DnsInv'
  OBVIOUS
<1>n. Offsets \in Nat /\ Offsets >= 1 /\ Upstreams \in Nat
  BY DnsAssumption
<1>t. DnsTypeOK
  BY DEF DnsInv
<1>o. offset \in 1..(Offsets + 1) /\ resumeAt \in 1..(Offsets + 1)
  BY <1>t DEF DnsTypeOK
<1>p. packet \in [1..Offsets -> Cell] /\ pointers \subseteq 1..Offsets
  BY <1>t DEF DnsTypeOK
<1>s. /\ stageOfQuery \in {"waiting", "decoding", "forwarding", "answered"}
      /\ answer \in {"none", "refused", "format error", "local", "servfail", "forwarded"}
  BY <1>t DEF DnsTypeOK
<1>u. /\ consulted \in 0..Upstreams /\ replies \in [1..Upstreams -> Reply]
      /\ firstEmpty \in 0..Upstreams /\ firstNxdomain \in 0..Upstreams
      /\ source \in 0..Upstreams
  BY <1>t DEF DnsTypeOK
<1>j. jumped \in BOOLEAN
  BY DEF DnsInv, DnsTypeOK
<1>1. CASE UNCHANGED dnsVars
  <2>1. /\ UNCHANGED <<stageOfQuery, packet, offset, jumped, pointers, resumeAt, replies, consulted,
                       firstEmpty, firstNxdomain, answer, source>>
    BY <1>1 DEF dnsVars
  <2>2. Walk' = Walk
    BY <2>1 DEF Walk
  <2>3. Onward' = Onward
    BY <2>1 DEF Onward
  <2> QED
    BY <2>1, <2>2, <2>3 DEF DnsInv, DnsTypeOK, Reading, LeadsHere, Reached, AtEnd, Plain, Forwarding,
       KnowsFirst, AnswerIsRight, NameIsRead, BestIsGiven
<1>2. CASE Receive
  <2>1. /\ stageOfQuery = "waiting"
        /\ UNCHANGED <<offset, jumped, pointers, resumeAt, source, replies, consulted, firstEmpty,
                       firstNxdomain>>
        /\ packet' \in [1..Offsets -> Cell]
        /\ \/ stageOfQuery' = "decoding" /\ answer' = answer
           \/ stageOfQuery' = "answered" /\ answer' = "refused"
    BY <1>n, <1>t, <1>o, <1>p, <1>s, <1>u, <1>2 DEF Receive, forwardVars
  <2>2. /\ answer = "none" /\ offset = StartOffset /\ ~jumped /\ pointers = {}
        /\ consulted = 0 /\ firstEmpty = 0 /\ firstNxdomain = 0
    BY <2>1 DEF DnsInv
  <2>3. DnsTypeOK'
    BY <1>n, <1>t, <1>o, <1>p, <1>s, <1>u, <2>1 DEF DnsInv, DnsTypeOK
  <2>4. AnswerIsRight'
    BY <2>1, <2>2 DEF AnswerIsRight, NameIsRead, BestIsGiven
  <2>5. Reading'
    <3>1. StartOffset \in Reached'
      BY <2>3, StartIsReached
    <3>2. offset' = StartOffset /\ pointers' = {} /\ ~jumped'
      BY <2>1, <2>2
    <3>3. {StartOffset} \in SUBSET Spots
      BY <1>n DEF Spots, StartOffset
    <3>4. LeadsHere({StartOffset})'
      BY <3>2 DEF LeadsHere
    <3>5. \A i \in 1..(offset' - 1) : FALSE
      BY <3>2 DEF StartOffset
    <3> QED
      BY <3>1, <3>2, <3>3, <3>4, <3>5 DEF Reading
  <2> QED
    BY <2>1, <2>2, <2>3, <2>4, <2>5 DEF DnsInv
<1>3. ASSUME stageOfQuery = "decoding", UNCHANGED packet
      PROVE  /\ Reading /\ Walk' = Walk /\ Onward' = Onward /\ Reached' = Reached
             /\ \A i : (Plain(i))' = Plain(i) /\ (AtEnd(i))' = AtEnd(i)
             /\ answer = "none" /\ consulted = 0 /\ firstEmpty = 0 /\ firstNxdomain = 0
  <2>1. Walk' = Walk
    BY <1>3 DEF Walk
  <2> QED
    BY <1>3, <2>1 DEF DnsInv, Onward, Reached, Plain, AtEnd
<1>4. CASE DecodeError
  <2>1. /\ stageOfQuery = "decoding" /\ ~WellFormed /\ stageOfQuery' = "answered"
        /\ answer' = "format error"
        /\ UNCHANGED <<packet, offset, jumped, pointers, resumeAt, source, replies, consulted,
                       firstEmpty, firstNxdomain>>
    BY <1>4 DEF DecodeError, nameVars, forwardVars
  <2>2. DnsTypeOK'
    BY <2>1 DEF DnsInv, DnsTypeOK
  <2>3. (\A x \in Reached : ~AtEnd(x))'
    BY <1>n, <1>t, <1>o, <1>p, <1>s, <1>u, <1>3, <2>1, NoEndElsewhere
  <2>4. NameIsRead'
    BY <2>1, <2>2, <2>3, NameIsReadNext
  <2>5. BestIsGiven'
    BY <2>1 DEF BestIsGiven
  <2> QED
    BY <2>1, <2>2, <2>4, <2>5 DEF DnsInv, AnswerIsRight
<1>5. CASE DecodeLabel
  <2>1. /\ stageOfQuery = "decoding" /\ WellFormed /\ packet[offset] = Label /\ offset' = offset + 1
        /\ UNCHANGED <<stageOfQuery, packet, jumped, pointers, resumeAt, answer, source, replies,
                       consulted, firstEmpty, firstNxdomain>>
    BY <1>5 DEF DecodeLabel, forwardVars
  <2>2. offset \in 1..Offsets /\ Plain(offset) /\ ~AtEnd(offset)
    BY <1>n, <1>o, <1>p, <2>1 DEF WellFormed, Plain, AtEnd, Label, End
  <2>c. offset' = offset + 1
    BY <2>1
  <2>a. offset' \in 1..(Offsets + 1)
    BY <1>n, <2>2, <2>c
  <2>3. DnsTypeOK'
    BY <1>n, <1>t, <1>o, <1>p, <1>s, <1>u, <1>j, <2>1, <2>a DEF DnsTypeOK
  <2>b. PICK next \in Spots : next = offset + 1
    BY <1>n, <2>2 DEF Spots
  <2>4. Onward[offset] = next /\ offset' = next
    BY <1>n, <2>1, <2>2, <2>b DEF Onward, Spots
  <2>5. Reading
    BY <1>3, <2>1
  <2>6. offset' \in Reached'
    BY <1>n, <1>t, <1>o, <1>p, <1>s, <1>u, <1>3, <2>1, <2>4, <2>5, ReachedIsClosed DEF Reading
  <2>7. PICK U \in SUBSET Spots : LeadsHere(U)
    BY <2>5 DEF Reading
  <2>8. LeadsHere(U \cup {next})'
    <3>1. \A x \in (U \cup {next}) \ {next} : Onward[x] \in U \cup {next} /\ ~AtEnd(x)
      BY <2>2, <2>4, <2>7 DEF LeadsHere
    <3> QED
      BY <1>3, <2>1, <2>4, <2>7, <3>1 DEF LeadsHere
  <2>9. ~jumped => \A i \in 1..(offset' - 1) : Plain(i)
    <3>1. \A i \in 1..(offset' - 1) : i = offset \/ i \in 1..(offset - 1)
      BY <1>n, <1>o, <2>c
    <3> QED
      BY <2>2, <2>5, <3>1 DEF Reading
  <2>10. Reading'
    <3>1. U \cup {next} \in SUBSET Spots
      OBVIOUS
    <3>2. jumped => ~Plain(resumeAt - 1) /\ \A i \in 1..(resumeAt - 2) : Plain(i)
      BY <2>5 DEF Reading
    <3> QED
      BY <1>3, <2>1, <2>6, <2>8, <2>9, <3>1, <3>2 DEF Reading
  <2>11. AnswerIsRight'
    BY <1>3, <2>1 DEF AnswerIsRight, NameIsRead, BestIsGiven
  <2> QED
    BY <1>3, <2>1, <2>3, <2>10, <2>11 DEF DnsInv
<1>6. CASE FollowPointer
  <2>1. /\ stageOfQuery = "decoding" /\ WellFormed /\ packet[offset] \in Pointer
        /\ pointers' = pointers \cup {packet[offset]} /\ jumped' = TRUE
        /\ jumped => resumeAt' = resumeAt
        /\ ~jumped => resumeAt' = offset + 1
        /\ offset' = packet[offset]
        /\ UNCHANGED <<stageOfQuery, packet, answer, source, replies, consulted, firstEmpty,
                       firstNxdomain>>
    BY <1>6 DEF FollowPointer, forwardVars
  <2>2. offset \in 1..Offsets /\ packet[offset] \in 1..Offsets /\ ~Plain(offset) /\ ~AtEnd(offset)
    BY <1>n, <1>o, <1>p, <2>1 DEF WellFormed, Plain, AtEnd, Label, End, Pointer
  <2>c. offset' = packet[offset] /\ pointers' = pointers \cup {packet[offset]}
        /\ resumeAt' \in {resumeAt, offset + 1}
    BY <1>j, <2>1
  <2>a. offset' \in 1..(Offsets + 1) /\ resumeAt' \in 1..(Offsets + 1) /\ pointers' \subseteq 1..Offsets
    <3>1. offset + 1 \in 1..(Offsets + 1) /\ \A k \in 1..Offsets : k \in 1..(Offsets + 1)
      BY <1>n, <2>2
    <3>2. pointers' \subseteq 1..Offsets
      BY <1>p, <2>2, <2>c
    <3>3. resumeAt' \in 1..(Offsets + 1)
      BY <1>o, <2>c, <3>1
    <3> QED
      BY <2>2, <2>c, <3>1, <3>2, <3>3
  <2>3. DnsTypeOK'
    BY <1>n, <1>t, <1>o, <1>p, <1>s, <1>u, <2>1, <2>a DEF DnsTypeOK
  <2>b. PICK next \in Spots : next = packet[offset]
    BY <1>n, <2>2 DEF Spots
  <2>4. Onward[offset] = next /\ offset' = next
    BY <1>n, <2>1, <2>2, <2>b DEF Onward, Spots, Plain
  <2>5. Reading
    BY <1>3, <2>1
  <2>6. offset' \in Reached'
    BY <1>n, <1>t, <1>o, <1>p, <1>s, <1>u, <1>3, <2>1, <2>4, <2>5, ReachedIsClosed DEF Reading
  <2>7. PICK U \in SUBSET Spots : LeadsHere(U)
    BY <2>5 DEF Reading
  <2>8. LeadsHere(U \cup {next})'
    <3>1. \A x \in (U \cup {next}) \ {next} : Onward[x] \in U \cup {next} /\ ~AtEnd(x)
      BY <2>2, <2>4, <2>7 DEF LeadsHere
    <3> QED
      BY <1>3, <2>1, <2>4, <2>b, <2>7, <3>1 DEF LeadsHere
  <2>9. ~Plain(resumeAt' - 1) /\ \A i \in 1..(resumeAt' - 2) : Plain(i)
    <3>1. CASE jumped
      BY <2>1, <2>5, <3>1 DEF Reading
    <3>2. CASE ~jumped
      <4>0. resumeAt' = offset + 1
        BY <2>1, <3>2
      <4>1. resumeAt' - 1 = offset /\ resumeAt' - 2 = offset - 1
        BY <1>n, <1>o, <4>0
      <4> QED
        BY <2>2, <2>5, <3>2, <4>1 DEF Reading
    <3> QED
      BY <3>1, <3>2
  <2>10. Reading'
    <3>1. U \cup {next} \in SUBSET Spots
      OBVIOUS
    <3> QED
      BY <1>3, <2>1, <2>6, <2>8, <2>9, <3>1 DEF Reading
  <2>11. AnswerIsRight'
    BY <1>3, <2>1 DEF AnswerIsRight, NameIsRead, BestIsGiven
  <2> QED
    BY <1>3, <2>1, <2>3, <2>10, <2>11 DEF DnsInv
<1>7. CASE DecodeEnd
  <2>1. /\ stageOfQuery = "decoding" /\ WellFormed /\ packet[offset] = End
        /\ jumped => resumeAt' = resumeAt
        /\ ~jumped => resumeAt' = offset + 1
        /\ \/ /\ resumeAt' > Offsets /\ stageOfQuery' = "answered" /\ answer' = "format error"
              /\ replies' = replies
           \/ stageOfQuery' = "answered" /\ answer' = "local" /\ replies' = replies
           \/ /\ stageOfQuery' = "forwarding" /\ replies' \in [1..Upstreams -> Reply]
              /\ answer' = answer
        /\ UNCHANGED <<packet, offset, jumped, pointers, source, consulted, firstEmpty,
                       firstNxdomain>>
    BY <1>7 DEF DecodeEnd
  <2>d. offset <= Offsets /\ packet[offset] = End
    BY <2>1 DEF WellFormed
  <2>a. offset \in 1..Offsets /\ packet[offset] = End /\ End # Label
    BY <1>n, <1>o, <2>d DEF Label, End
  <2>2. offset \in 1..Offsets /\ ~Plain(offset) /\ AtEnd(offset)
    BY <2>a DEF Plain, AtEnd
  <2>e. resumeAt' \in {resumeAt, offset + 1}
    BY <1>j, <2>1
  <2>b. resumeAt' \in 1..(Offsets + 1) /\ replies' \in [1..Upstreams -> Reply]
    <3>1. resumeAt' \in 1..(Offsets + 1)
      BY <1>n, <1>o, <2>a, <2>e
    <3>2. replies' \in [1..Upstreams -> Reply]
      BY <1>u, <2>1
    <3> QED
      BY <3>1, <3>2
  <2>c. /\ stageOfQuery' \in {"waiting", "decoding", "forwarding", "answered"}
        /\ answer' \in {"none", "refused", "format error", "local", "servfail", "forwarded"}
    BY <1>n, <1>t, <1>o, <1>p, <1>s, <1>u, <2>1
  <2>3. DnsTypeOK'
    BY <1>n, <1>t, <1>o, <1>p, <1>s, <1>u, <1>j, <2>1, <2>b, <2>c DEF DnsTypeOK
  <2>4. Reading
    BY <1>3, <2>1
  <2>5. ~Plain(resumeAt' - 1) /\ \A i \in 1..(resumeAt' - 2) : Plain(i)
    <3>1. CASE jumped
      BY <2>1, <2>4, <3>1 DEF Reading
    <3>2. CASE ~jumped
      <4>0. resumeAt' = offset + 1
        BY <2>1, <3>2
      <4>1. resumeAt' - 1 = offset /\ resumeAt' - 2 = offset - 1
        BY <1>n, <1>o, <4>0
      <4> QED
        BY <2>2, <2>4, <3>2, <4>1 DEF Reading
    <3> QED
      BY <3>1, <3>2
  <2>6. \E x \in Reached : AtEnd(x)
    BY <2>2, <2>4 DEF Reading
  <2>7. NameIsRead'
    <3>1. /\ (\E x \in Reached : AtEnd(x))' /\ (~Plain(resumeAt - 1))'
          /\ (\A i \in 1..(resumeAt - 2) : Plain(i))'
      BY <1>3, <2>1, <2>5, <2>6
    <3>2. answer' = "format error" => resumeAt' > Offsets
      BY <1>3, <2>1
    <3> QED
      BY <2>3, <3>1, <3>2, NameIsReadNext
  <2>8. BestIsGiven'
    BY <1>3, <2>1 DEF BestIsGiven
  <2>9. stageOfQuery' = "forwarding" => Forwarding'
    BY <1>n, <1>t, <1>o, <1>p, <1>s, <1>u, <1>3, <2>1 DEF Forwarding, KnowsFirst
  <2> QED
    BY <1>3, <2>1, <2>3, <2>7, <2>8, <2>9 DEF DnsInv, AnswerIsRight
<1>8. ASSUME stageOfQuery = "forwarding", UNCHANGED <<packet, offset, jumped, pointers, resumeAt>>,
             stageOfQuery' \in {"forwarding", "answered"}, answer' \in {answer, "forwarded", "servfail"}
      PROVE  NameIsRead'
  <2>1. Walk' = Walk
    BY <1>8 DEF Walk
  <2>2. answer = "none" /\ NameIsRead
    BY <1>8 DEF DnsInv, AnswerIsRight
  <2> QED
    BY <1>8, <2>1, <2>2 DEF NameIsRead
<1>9. CASE AskUpstream
  <2> DEFINE i == consulted + 1
  <2>1. /\ stageOfQuery = "forwarding" /\ consulted < Upstreams /\ consulted' = i
        /\ \/ /\ replies[i] = "positive" /\ stageOfQuery' = "answered" /\ answer' = "forwarded"
              /\ source' = i
           \/ /\ replies[i] # "positive" /\ UNCHANGED <<stageOfQuery, answer, source>>
        /\ firstEmpty' = (IF replies[i] = "empty" THEN First(firstEmpty, i) ELSE firstEmpty)
        /\ firstNxdomain' = (IF replies[i] = "nxdomain" THEN First(firstNxdomain, i)
                                                        ELSE firstNxdomain)
        /\ UNCHANGED <<packet, offset, jumped, pointers, resumeAt, replies>>
    BY <1>9 DEF AskUpstream, PassOn, nameVars
  <2>2. i \in 1..Upstreams /\ i # 0 /\ (1..i) = (1..consulted) \cup {i} /\ 1..(i - 1) = 1..consulted
    <3>1. consulted < Upstreams
      BY <2>1
    <3> QED
      BY <1>n, <1>u, <3>1
  <2> HIDE DEF i
  <2>b. /\ firstEmpty' \in {firstEmpty, i} /\ firstNxdomain' \in {firstNxdomain, i}
        /\ source' \in {source, i} /\ consulted' = i
        /\ stageOfQuery' \in {stageOfQuery, "answered"} /\ answer' \in {answer, "forwarded"}
    BY <2>1 DEF First
  <2>a. /\ firstEmpty' \in 0..Upstreams /\ firstNxdomain' \in 0..Upstreams /\ source' \in 0..Upstreams
        /\ consulted' \in 0..Upstreams
        /\ stageOfQuery' \in {"waiting", "decoding", "forwarding", "answered"}
        /\ answer' \in {"none", "refused", "format error", "local", "servfail", "forwarded"}
    <3>1. i \in 0..Upstreams
      BY <1>n, <2>2
    <3>2. /\ firstEmpty' \in 0..Upstreams /\ firstNxdomain' \in 0..Upstreams
          /\ source' \in 0..Upstreams /\ consulted' \in 0..Upstreams
      BY <1>u, <2>b, <3>1
    <3>3. /\ stageOfQuery' \in {"waiting", "decoding", "forwarding", "answered"}
          /\ answer' \in {"none", "refused", "format error", "local", "servfail", "forwarded"}
      BY <1>s, <2>b
    <3> QED
      BY <3>2, <3>3
  <2>3. DnsTypeOK'
    BY <1>n, <1>t, <1>o, <1>p, <1>s, <1>u, <1>j, <2>1, <2>a DEF DnsTypeOK
  <2>4. Forwarding /\ answer = "none"
    BY <2>1 DEF DnsInv
  <2>5. NameIsRead'
    BY <1>8, <2>1
  <2>6. replies[i] # "positive" => Forwarding'
    <3>1. ASSUME NEW first, NEW first_, NEW kind, KnowsFirst(first, kind),
                 first_ = (IF replies[i] = kind THEN First(first, i) ELSE first)
          PROVE  /\ first_ = 0 => \A k \in 1..i : replies[k] # kind
                 /\ first_ # 0 => /\ first_ \in 1..i /\ replies[first_] = kind
                                  /\ \A k \in 1..(first_ - 1) : replies[k] # kind
      BY <2>2, <3>1 DEF KnowsFirst, First
    <3>2. KnowsFirst(firstEmpty, "empty")' /\ KnowsFirst(firstNxdomain, "nxdomain")'
      BY <2>1, <2>4, <3>1 DEF Forwarding, KnowsFirst
    <3> QED
      BY <2>1, <2>2, <2>4, <3>2 DEF Forwarding
  <2>7. BestIsGiven'
    <3>1. CASE replies[i] = "positive"
      BY <2>1, <2>2, <2>4, <3>1 DEF BestIsGiven, Forwarding
    <3>2. CASE replies[i] # "positive"
      BY <2>1, <2>4, <3>2 DEF BestIsGiven
    <3> QED
      BY <3>1, <3>2
  <2> QED
    BY <2>1, <2>3, <2>4, <2>5, <2>6, <2>7 DEF DnsInv, AnswerIsRight
<1>10. CASE GiveBest
  <2>1. /\ stageOfQuery = "forwarding" /\ consulted = Upstreams /\ stageOfQuery' = "answered"
        /\ \/ firstEmpty # 0 /\ answer' = "forwarded" /\ source' = firstEmpty
           \/ /\ firstEmpty = 0 /\ firstNxdomain # 0 /\ answer' = "forwarded"
              /\ source' = firstNxdomain
           \/ firstEmpty = 0 /\ firstNxdomain = 0 /\ answer' = "servfail" /\ source' = source
        /\ UNCHANGED <<packet, offset, jumped, pointers, resumeAt, replies, consulted, firstEmpty,
                       firstNxdomain>>
    BY <1>10 DEF GiveBest, PassOn, nameVars, forwardVars
  <2>2. Forwarding
    BY <2>1 DEF DnsInv
  <2>3. DnsTypeOK'
    BY <1>n, <1>t, <1>o, <1>p, <1>s, <1>u, <2>1 DEF DnsTypeOK
  <2>4. NameIsRead'
    BY <1>8, <2>1
  <2>5. BestIsGiven'
    BY <1>n, <1>t, <1>o, <1>p, <1>s, <1>u, <2>1, <2>2 DEF BestIsGiven, Forwarding, KnowsFirst
  <2> QED
    BY <2>1, <2>3, <2>4, <2>5 DEF DnsInv, AnswerIsRight
<1> QED
  BY <1>1, <1>2, <1>4, <1>5, <1>6, <1>7, <1>9, <1>10 DEF DnsNext

LEMMA DnsInvariant == DnsSpec => []DnsInv
BY InitDns, StepDns, PTL DEF DnsSpec

(* The packet, the reading and the forwarding have the types the code gives *)
(* them.                                                                    *)
THEOREM DnsTypeCorrect == DnsSpec => []DnsTypeOK
BY DnsInvariant, PTL DEF DnsInv

(* Once a query is answered or forwarded, reading on has come to the end of *)
(* its name, and the question went on where the name as written ends        *)
(* (_decode_name); what is refused has no end or no room for a question;    *)
(* and no loop of pointers keeps the reading going.  The client gets the    *)
(* best of what the resolvers have (_forward_query).  For packets of any    *)
(* length and any number of resolvers.                                      *)
THEOREM TheAnswerIsRight == DnsSpec => AnsweredRightly
<1>1. DnsInv' => AnswerIsRight'
  BY DEF DnsInv
<1>2. DnsInv /\ [DnsNext]_dnsVars => [ReadsOn]_dnsVars
  <2> SUFFICES ASSUME DnsInv, DnsNext, stageOfQuery = "decoding", stageOfQuery' = "decoding"
               PROVE  ReadsOn
    BY DEF ReadsOn
  <2>1. DecodeLabel \/ FollowPointer
    BY DEF DnsNext, Receive, DecodeError, DecodeEnd, AskUpstream, GiveBest, PassOn
  <2>2. CASE DecodeLabel
    <3>1. offset \in Nat
      BY DnsAssumption DEF DnsInv, DnsTypeOK
    <3> QED
      BY <2>2, <3>1 DEF DecodeLabel, ReadsOn
  <2>3. CASE FollowPointer
    BY <2>3 DEF FollowPointer, WellFormed, ReadsOn
  <2> QED
    BY <2>1, <2>2, <2>3
<1> DEFINE Right == AnswerIsRight' /\ ReadsOn
<1>3. DnsInv /\ DnsInv' /\ [DnsNext]_dnsVars => [Right]_dnsVars
  BY <1>1, <1>2
<1> HIDE DEF Right
<1>4. DnsSpec => [][Right]_dnsVars
  BY <1>3, DnsInvariant, PTL DEF DnsSpec
<1> QED
  BY <1>4 DEF Right, AnsweredRightly

-----------------------------------------------------------------------------
(* The sites of the ingress. *)

(* Two files of one project with the same host.                             *)
Rivals(f, g, h) == f # g /\ HomeOf[f] = HomeOf[g] /\ h \in claimed[f] \cap claimed[g]

(* What a thread knows as long as nothing has changed since it listed the   *)
(* projects: of two files with a host in a directory it has been through it *)
(* has still to settle that host; and what it has made Caddy load has no    *)
(* host twice, so that nobody has a file to take out.                       *)
SyncKnows(t) ==
  /\ list[t] = known
  /\ at[t] \in {"reload", "ok"} => caddyfile = known
  /\ at[t] = "reconcile" /\ clean[t] =>
       \A f, g \in Live, h \in Host :
         Rivals(f, g, h) /\ HomeOf[f] \in visited[t] => {f, g} \subseteq found[t][h]
  /\ at[t] = "write" /\ clean[t] => \A f, g \in Live, h \in Host : ~Rivals(f, g, h)
  /\ at[t] = "ok" => ~Ambiguous /\ served = [f \in Site |-> IF f \in Live THEN claimed[f] ELSE {}]

SitesInv ==
  /\ SitesTypeOK
  /\ \A f \in Live : HomeOf[f] \in known
  /\ \A t \in Sync : calm[t] /\ at[t] # "idle" => SyncKnows(t)

(* What is left when files are taken out, and what they claim.              *)
LEMMA KeptSites ==
  ASSUME SitesTypeOK, NEW gone, KeepSites(gone)
  PROVE  /\ sites' \in Seq(Site) /\ IsInjective(sites') /\ claimed' \in [Site -> SUBSET Host]
         /\ Live' = Live \ gone
         /\ \A f \in Live' : f \in Site /\ claimed'[f] = claimed[f]
<1> DEFINE rest == Selection(sites, Site \ gone)
<1>1. sites \in Seq(Site) /\ IsInjective(sites) /\ claimed \in [Site -> SUBSET Host]
  BY DEF SitesTypeOK
<1>2. rest \in Seq(Site) /\ IsInjective(rest) /\ Elements(rest) = Elements(sites) \cap (Site \ gone)
  BY <1>1, SelectionElements
<1>3. sites' = rest
  BY DEF KeepSites
<1> HIDE DEF rest
<1>4. Elements(sites) = ToSet(sites) /\ Elements(rest) = ToSet(rest) /\ Elements(sites) \subseteq Site
  BY <1>1, <1>2, ElementsAre
<1>5. Live' = Live \ gone
  BY <1>2, <1>3, <1>4 DEF Live
<1>6. Live' \subseteq Site
  BY <1>4, <1>5 DEF Live
<1>7. claimed' = [f \in Site |-> IF f \in gone THEN {} ELSE claimed[f]]
  BY DEF KeepSites
<1>8. claimed' \in [Site -> SUBSET Host] /\ \A f \in Live' : claimed'[f] = claimed[f]
  BY <1>1, <1>5, <1>6, <1>7
<1> QED
  BY <1>2, <1>3, <1>5, <1>6, <1>8

(* A written file comes last.                                               *)
LEMMA WrittenSite ==
  ASSUME SitesTypeOK, NEW f \in Site, NEW hosts \in SUBSET Host,
         sites' = Append(Selection(sites, Site \ {f}), f),
         claimed' = [claimed EXCEPT ![f] = hosts]
  PROVE  /\ sites' \in Seq(Site) /\ IsInjective(sites') /\ claimed' \in [Site -> SUBSET Host]
         /\ Live' = Live \cup {f}
<1> DEFINE rest == Selection(sites, Site \ {f})
<1>1. sites \in Seq(Site) /\ IsInjective(sites) /\ claimed \in [Site -> SUBSET Host]
  BY DEF SitesTypeOK
<1>2. rest \in Seq(Site) /\ IsInjective(rest) /\ Elements(rest) = Elements(sites) \cap (Site \ {f})
  BY <1>1, SelectionElements
<1>3. sites' = Append(rest, f)
  OBVIOUS
<1> HIDE DEF rest
<1>4. Elements(sites) = ToSet(sites) /\ Elements(sites) \subseteq Site
  BY <1>1, ElementsAre
<1>5. /\ Append(rest, f) \in Seq(Site) /\ DOMAIN Append(rest, f) = 1..Len(rest) + 1 /\ Len(rest) \in Nat
      /\ \A i \in 1..Len(rest) : Append(rest, f)[i] = rest[i]
      /\ Append(rest, f)[Len(rest) + 1] = f
  BY <1>2
<1>6. \A i \in 1..Len(rest) : rest[i] # f
  BY <1>2 DEF Elements
<1>7. \A i, j \in 1..Len(rest) : rest[i] = rest[j] => i = j
  BY <1>2 DEF IsInjective
<1>8. IsInjective(Append(rest, f))
  BY <1>5, <1>6, <1>7 DEF IsInjective
<1>9. ToSet(Append(rest, f)) = Elements(rest) \cup {f}
  BY <1>5 DEF ToSet, Elements
<1>10. Live' = Live \cup {f}
  BY <1>2, <1>3, <1>4, <1>9 DEF Live
<1>11. claimed' \in [Site -> SUBSET Host]
  BY <1>1
<1> QED
  BY <1>3, <1>5, <1>8, <1>10, <1>11

(* Of files that are in place, one is the newest.                           *)
LEMMA Newest ==
  ASSUME SitesTypeOK, NEW fs, fs \cap Live # {}
  PROVE  Keep(fs) \in fs \cap Live
<1> DEFINE I == {i \in 1..Len(sites) : sites[i] \in fs}
           D == {Len(sites) - i : i \in I}
<1>1. sites \in Seq(Site) /\ Len(sites) \in Nat /\ DOMAIN sites = 1..Len(sites)
  BY DEF SitesTypeOK
<1>2. \A g \in fs \cap Live : \E i \in I : sites[i] = g
  BY <1>1 DEF Live, ToSet
<1>3. D \subseteq Nat /\ D # {}
  BY <1>1, <1>2
<1>4. PICK m \in D : \A n \in D : m <= n
  <2> HIDE DEF D
  <2> QED
    BY <1>3, LeastNumber
<1>5. PICK j \in I : m = Len(sites) - j
  OBVIOUS
<1>6. \A i \in I : i <= j
  <2>1. \A i \in I : Len(sites) - i \in D /\ i \in Nat
    OBVIOUS
  <2>2. \A i \in I : m <= Len(sites) - i
    <3> HIDE DEF D, I
    <3> QED
      BY <1>4, <2>1
  <2> HIDE DEF I, D
  <2> QED
    BY <1>1, <1>5, <2>1, <2>2
<1>7. sites[j] \in fs \cap Live
  BY <1>1 DEF Live, ToSet
<1>8. \A g \in fs \cap Live : \E i, k \in 1..Len(sites) : i <= k /\ sites[i] = g /\ sites[k] = sites[j]
  BY <1>2, <1>5, <1>6
<1>9. NewestOf(fs) \in fs \cap Live
  <2> HIDE DEF I
  <2> QED
    BY <1>7, <1>8 DEF NewestOf
<1> QED
  BY <1>9 DEF Keep

THEOREM SitesInitial == ASSUME SitesInit PROVE SitesInv
<1>1. \A t \in Sync : at[t] = "idle"
  BY DEF SitesInit
<1>2. Live = {}
  BY DEF SitesInit, Live, ToSet
<1>3. sites \in Seq(Site) /\ IsInjective(sites)
  BY DEF SitesInit, IsInjective
<1>4. SitesTypeOK
  BY <1>3, SitesAssumption DEF SitesInit, SitesTypeOK, Settled
<1> QED
  BY <1>1, <1>2, <1>4 DEF SitesInv

(* What one thread does to itself leaves what the others know.              *)
LEMMA OthersKnow ==
  ASSUME NEW u \in Sync, UNCHANGED <<known, sites, claimed, caddyfile, served>>,
         at'[u] = at[u], list'[u] = list[u], found'[u] = found[u], visited'[u] = visited[u],
         clean'[u] = clean[u], SyncKnows(u)
  PROVE  SyncKnows(u)'
  BY DEF SyncKnows, Rivals, Live, Ambiguous, Imported

(* Whoever changes a site or a project takes from all what they know.       *)
LEMMA Disturbed ==
  ASSUME SitesTypeOK, Disturb, UNCHANGED <<caddyfile, served, at, list, found, visited, clean>>,
         known' \subseteq SiteProject, sites' \in Seq(Site), IsInjective(sites'),
         claimed' \in [Site -> SUBSET Host], \A f \in Live' : HomeOf[f] \in known'
  PROVE  SitesInv'
<1>1. calm' = [t \in Sync |-> FALSE]
  BY DEF Disturb
<1>2. changes' \in 0..MaxChanges
  BY SitesAssumption DEF Disturb, SitesTypeOK
<1>3. SitesTypeOK'
  BY <1>1, <1>2 DEF SitesTypeOK
<1>4. \A t \in Sync : ~calm'[t]
  BY <1>1
<1> QED
  BY <1>3, <1>4 DEF SitesInv

LEMMA ProjectsAndSites ==
  ASSUME SitesInv,
         \/ \E p \in SiteProject : Know(p) \/ Forget(p)
         \/ \E f \in Site : WriteOther(f) \/ WriteWorkload(f) \/ RemoveSite(f)
  PROVE  SitesInv'
<1>1. SitesTypeOK /\ known \subseteq SiteProject /\ \A f \in Live : HomeOf[f] \in known
  BY DEF SitesInv, SitesTypeOK
<1>2. \A f \in Live : f \in Site
  BY <1>1 DEF Live, ToSet, SitesTypeOK
<1>3. ASSUME NEW p \in SiteProject, Know(p) PROVE SitesInv'
  <2>1. /\ sites' \in Seq(Site) /\ IsInjective(sites') /\ claimed' \in [Site -> SUBSET Host]
        /\ Live' = Live /\ known' = known \cup {p}
    BY <1>1, <1>3 DEF Know, SitesTypeOK, Live
  <2>2. known' \subseteq SiteProject /\ \A f \in Live' : HomeOf[f] \in known'
    BY <1>1, <2>1
  <2> QED
    BY <1>1, <1>3, <2>1, <2>2, Disturbed DEF Know
<1>4. ASSUME NEW p \in SiteProject, Forget(p) PROVE SitesInv'
  <2>1. /\ sites' \in Seq(Site) /\ IsInjective(sites') /\ claimed' \in [Site -> SUBSET Host]
        /\ Live' = Live \ InProject(Site, p)
    BY <1>1, <1>4, KeptSites DEF Forget
  <2>2. known' = known \ {p}
    BY <1>4 DEF Forget
  <2>3. known' \subseteq SiteProject /\ \A f \in Live' : HomeOf[f] \in known'
    BY <1>1, <1>2, <2>1, <2>2 DEF InProject
  <2> QED
    BY <1>1, <1>4, <2>1, <2>3, Disturbed DEF Forget
<1>5. ASSUME NEW f \in Site, NEW hosts \in SUBSET Host, WriteSite(f, hosts) PROVE SitesInv'
  <2>1. /\ sites' \in Seq(Site) /\ IsInjective(sites') /\ claimed' \in [Site -> SUBSET Host]
        /\ Live' = Live \cup {f}
    BY <1>1, <1>5, WrittenSite DEF WriteSite
  <2>2. known' = known /\ HomeOf[f] \in known
    BY <1>5 DEF WriteSite
  <2>3. known' \subseteq SiteProject /\ \A g \in Live' : HomeOf[g] \in known'
    BY <1>1, <2>1, <2>2
  <2> QED
    BY <1>1, <1>5, <2>1, <2>3, Disturbed DEF WriteSite
<1>6. ASSUME NEW f \in Site, RemoveSite(f) PROVE SitesInv'
  <2>1. /\ sites' \in Seq(Site) /\ IsInjective(sites') /\ claimed' \in [Site -> SUBSET Host]
        /\ Live' = Live \ {f}
    BY <1>1, <1>6, KeptSites DEF RemoveSite
  <2>2. known' = known
    BY <1>6 DEF RemoveSite
  <2>3. known' \subseteq SiteProject /\ \A g \in Live' : HomeOf[g] \in known'
    BY <1>1, <2>1, <2>2
  <2> QED
    BY <1>1, <1>6, <2>1, <2>3, Disturbed DEF RemoveSite
<1>7. \A f \in Site : Claims[f] \subseteq SUBSET Host
  BY SitesAssumption
<1>8. ASSUME NEW f \in Site, WriteOther(f) PROVE SitesInv'
  <2>1. PICK hosts \in Claims[f] : WriteSite(f, hosts)
    BY <1>8 DEF WriteOther
  <2> QED
    BY <1>5, <1>7, <2>1
<1>9. ASSUME NEW f \in Site, WriteWorkload(f) PROVE SitesInv'
  <2> DEFINE held == UNION {claimed[g] : g \in InProject(Live, HomeOf[f]) \ {f}}
  <2>1. PICK wanted \in Claims[f] : RemoveSite(f) \/ WriteSite(f, wanted \ held)
    BY <1>9 DEF WriteWorkload
  <2>2. wanted \ held \in SUBSET Host
    BY <1>7, <2>1
  <2> HIDE DEF held
  <2> QED
    BY <1>5, <1>6, <2>1, <2>2
<1> QED
  BY <1>3, <1>4, <1>6, <1>8, <1>9

(* What a settlement takes out, and of what: only of files that are in      *)
(* place, and never the one it keeps if any is.                             *)
Others(t, h) == found[t][h] \ {Keep(found[t][h])}
Moved(t, h) == IF Unsafe(Others(t, h)) = {} THEN Others(t, h) \cap Live ELSE {}

LEMMA SettlementOf ==
  ASSUME SitesTypeOK, NEW t \in Sync, NEW h \in Host, Settle(t, h)
  PROVE  /\ KeepSites(Moved(t, h)) /\ clean' = [clean EXCEPT ![t] = @ /\ Moved(t, h) = Others(t, h)]
         /\ sites' \in Seq(Site) /\ IsInjective(sites') /\ claimed' \in [Site -> SUBSET Host]
         /\ Live' = Live \ Moved(t, h)
         /\ \A f \in Live' : f \in Site /\ claimed'[f] = claimed[f]
<1>1. KeepSites(Moved(t, h)) /\ clean' = [clean EXCEPT ![t] = @ /\ Moved(t, h) = Others(t, h)]
  BY Zenon DEF Settle, Moved, Others
<1> QED
  BY <1>1, KeptSites

(* If no file has lost the host since it was found, one that is taken out   *)
(* leaves another one with that host in its place.                          *)
LEMMA OneStays ==
  ASSUME SitesTypeOK, NEW t \in Sync, NEW h \in Host, Settle(t, h), ~Rewritten(t, h),
         NEW f \in Moved(t, h)
  PROVE  \E g \in Live : g # f /\ g \notin Moved(t, h) /\ f \in Live /\ h \in claimed[f] \cap claimed[g]
<1>1. f \in found[t][h] \cap Live
  BY DEF Moved, Others
<1>2. Keep(found[t][h]) \in found[t][h] \cap Live
  BY <1>1, Newest
<1>3. Keep(found[t][h]) \notin Moved(t, h)
  BY DEF Moved, Others
<1>4. \A g \in found[t][h] \cap Live : h \in claimed[g]
  BY DEF Rewritten
<1> QED
  BY <1>1, <1>2, <1>3, <1>4

LEMMA Settlement ==
  ASSUME SitesInv, NEW t \in Sync, NEW h \in Host, Settle(t, h) PROVE SitesInv'
<1>1. SitesTypeOK /\ \A f \in Live : HomeOf[f] \in known
  BY DEF SitesInv
<1>2. /\ sites' \in Seq(Site) /\ IsInjective(sites') /\ claimed' \in [Site -> SUBSET Host]
      /\ clean' = [clean EXCEPT ![t] = @ /\ Moved(t, h) = Others(t, h)]
      /\ Live' = Live \ Moved(t, h)
      /\ \A f \in Live' : f \in Site /\ claimed'[f] = claimed[f]
  BY <1>1, SettlementOf
<1>3. /\ at[t] = "reconcile" /\ found' = [found EXCEPT ![t][h] = {}]
      /\ calm' = IF Rewritten(t, h) THEN [u \in Sync |-> FALSE] ELSE calm
      /\ UNCHANGED <<known, caddyfile, served, at, list, visited, changes>>
  BY DEF Settle
<1>4. SitesTypeOK'
  <2>1. clean' \in [Sync -> BOOLEAN]
    BY <1>1, <1>2 DEF SitesTypeOK
  <2>2. calm' \in [Sync -> BOOLEAN]
    BY <1>1, <1>3 DEF SitesTypeOK
  <2>3. found' \in [Sync -> [Host -> SUBSET Site]]
    BY <1>1, <1>3 DEF SitesTypeOK
  <2> QED
    BY <1>1, <1>2, <1>3, <2>1, <2>2, <2>3 DEF SitesTypeOK
<1>5. \A f \in Live' : HomeOf[f] \in known'
  BY <1>1, <1>2, <1>3
<1>6. ASSUME NEW u \in Sync, calm'[u], at'[u] # "idle" PROVE SyncKnows(u)'
  <2>1. ~Rewritten(t, h) /\ calm[u] /\ at[u] # "idle"
    BY <1>3, <1>6
  <2>2. SyncKnows(u)
    BY <2>1 DEF SitesInv
  <2>3. \A f, g, d : f \in Live' /\ g \in Live' /\ Rivals(f, g, d)' => f \in Live /\ g \in Live /\ Rivals(f, g, d)
    BY <1>2 DEF Rivals
  <2>4. list'[u] = known' /\ (at'[u] \in {"reload", "ok"} => caddyfile' = known')
    BY <1>3, <2>2 DEF SyncKnows
  <2>5. at'[u] = "reconcile" /\ clean'[u] =>
          \A f, g \in Live', d \in Host :
            Rivals(f, g, d)' /\ HomeOf[f] \in visited'[u] => {f, g} \subseteq found'[u][d]
    <3>1. SUFFICES ASSUME at'[u] = "reconcile", clean'[u], NEW f \in Live', NEW g \in Live',
                          NEW d \in Host, Rivals(f, g, d)', HomeOf[f] \in visited'[u]
                   PROVE  {f, g} \subseteq found'[u][d]
      OBVIOUS
    <3>2. clean[u] /\ (u = t => Moved(t, h) = Others(t, h))
      BY <1>1, <1>2, <3>1 DEF SitesTypeOK
    <3>3. {f, g} \subseteq found[u][d]
      BY <1>3, <2>2, <2>3, <3>1, <3>2 DEF SyncKnows
    <3>4. ~(u = t /\ d = h)
      <4>1. ASSUME u = t, d = h PROVE FALSE
        <5>1. f # g /\ f \notin Others(t, h) /\ g \notin Others(t, h)
          BY <1>2, <3>1, <3>2, <4>1 DEF Rivals
        <5> QED
          BY <3>3, <4>1, <5>1 DEF Others
      <4> QED
        BY <4>1
    <3> QED
      BY <1>1, <1>3, <3>3, <3>4 DEF SitesTypeOK
  <2>6. at'[u] = "write" /\ clean'[u] => \A f, g \in Live', d \in Host : ~Rivals(f, g, d)'
    <3>1. at'[u] = "write" /\ clean'[u] => at[u] = "write" /\ clean[u]
      BY <1>1, <1>2, <1>3 DEF SitesTypeOK
    <3> QED
      BY <2>2, <2>3, <3>1 DEF SyncKnows
  <2>7. at'[u] = "ok" =>
          (~Ambiguous)' /\ served' = [f \in Site |-> IF f \in Live' THEN claimed'[f] ELSE {}]
    <3>1. SUFFICES ASSUME at'[u] = "ok"
                   PROVE  (~Ambiguous)' /\ served' = [f \in Site |-> IF f \in Live' THEN claimed'[f] ELSE {}]
      OBVIOUS
    <3>2. /\ caddyfile = known /\ ~Ambiguous
          /\ served = [f \in Site |-> IF f \in Live THEN claimed[f] ELSE {}]
      BY <1>3, <2>2, <3>1 DEF SyncKnows
    <3>3. Imported = Live
      BY <1>1, <3>2 DEF Imported
    <3>4. Moved(t, h) = {}
      BY <1>1, <2>1, <3>2, <3>3, OneStays DEF Ambiguous
    <3>5. Live' = Live /\ \A f \in Live : claimed'[f] = claimed[f]
      BY <1>2, <3>4
    <3>6. Imported' = Imported
      BY <1>3, <3>5 DEF Imported
    <3>7. (~Ambiguous)'
      BY <3>2, <3>3, <3>5, <3>6 DEF Ambiguous
    <3> QED
      BY <1>3, <3>2, <3>5, <3>7
  <2> QED
    BY <2>4, <2>5, <2>6, <2>7 DEF SyncKnows
<1> QED
  BY <1>4, <1>5, <1>6 DEF SitesInv

LEMMA Synchronization ==
  ASSUME SitesInv, NEW t \in Sync, SyncStep(t) PROVE SitesInv'
<1>1. SitesTypeOK /\ \A f \in Live : HomeOf[f] \in known /\ f \in Site
  BY DEF SitesInv, SitesTypeOK, Live, ToSet
<1>2. ASSUME UNCHANGED <<known, sites, claimed, caddyfile, served, changes>>,
             \A u \in Sync \ {t} : /\ at'[u] = at[u] /\ list'[u] = list[u] /\ found'[u] = found[u]
                                   /\ visited'[u] = visited[u] /\ clean'[u] = clean[u]
                                   /\ calm'[u] = calm[u],
             SitesTypeOK', calm'[t] /\ at'[t] # "idle" => SyncKnows(t)'
      PROVE  SitesInv'
  <2>1. ASSUME NEW u \in Sync, calm'[u], at'[u] # "idle" PROVE SyncKnows(u)'
    <3>1. CASE u = t
      BY <1>2, <2>1, <3>1
    <3>2. CASE u # t
      <4>1. SyncKnows(u)
        BY <1>2, <2>1, <3>2 DEF SitesInv
      <4> QED
        BY <1>2, <3>2, <4>1, OthersKnow
    <3> QED
      BY <3>1, <3>2
  <2>2. \A f \in Live' : HomeOf[f] \in known'
    BY <1>1, <1>2 DEF Live
  <2> QED
    BY <1>2, <2>1, <2>2 DEF SitesInv
<1>3. ASSUME BeginSync(t) PROVE SitesInv'
  <2>1. /\ at'[t] = "reconcile" /\ list'[t] = known /\ visited'[t] = {}
        /\ known' = known /\ at' \in [Sync -> {"idle", "reconcile", "write", "reload", "ok", "failed"}]
        /\ list' \in [Sync -> SUBSET SiteProject] /\ visited' \in [Sync -> SUBSET SiteProject]
    BY <1>1, <1>3 DEF BeginSync, SitesTypeOK
  <2>2. clean' \in [Sync -> BOOLEAN] /\ calm' \in [Sync -> BOOLEAN]
    BY <1>1, <1>3 DEF BeginSync, SitesTypeOK
  <2>3. SitesTypeOK'
    BY <1>1, <1>3, <2>1, <2>2 DEF BeginSync, SitesTypeOK
  <2>4. SyncKnows(t)'
    BY <2>1 DEF SyncKnows
  <2> QED
    BY <1>1, <1>2, <1>3, <2>3, <2>4 DEF BeginSync, SitesTypeOK
<1>4. ASSUME NEW p \in SiteProject, ReadSites(t, p) PROVE SitesInv'
  <2> DEFINE twice(h) == LET paths == InProject(HostFiles(h), p)
                         IN IF Cardinality(paths) > 1 THEN paths ELSE {}
             there == [h \in Host |-> twice(h)]
  <2>1. /\ at[t] = "reconcile" /\ found[t] = Settled
        /\ visited' = [visited EXCEPT ![t] = @ \cup {p}]
        /\ UNCHANGED <<known, sites, claimed, caddyfile, served, at, list, clean, changes, calm>>
    BY <1>4 DEF ReadSites
  <2>2. found' = [found EXCEPT ![t] = there]
    BY <1>4, Zenon DEF ReadSites
  <2>3. \A h \in Host : twice(h) \subseteq Site
    BY <1>1 DEF InProject, HostFiles
  <2>4. there \in [Host -> SUBSET Site]
    BY <2>3
  <2>5. \A h \in Host : there[h] = twice(h)
    OBVIOUS
  <2> HIDE DEF there
  <2>6. visited' \in [Sync -> SUBSET SiteProject] /\ visited'[t] = visited[t] \cup {p}
    BY <1>1, <2>1 DEF SitesTypeOK
  <2>7. found' \in [Sync -> [Host -> SUBSET Site]] /\ found'[t] = there
    BY <1>1, <2>2, <2>4 DEF SitesTypeOK
  <2>8. SitesTypeOK'
    BY <1>1, <2>1, <2>6, <2>7 DEF SitesTypeOK
  <2>9. IsFiniteSet(Live)
    <3>1. sites \in Seq(Site)
      BY <1>1 DEF SitesTypeOK
    <3>2. IsFiniteSet(1..Len(sites)) /\ DOMAIN sites = 1..Len(sites)
      BY <3>1, FS_Interval
    <3>3. sites \in Surjection(1..Len(sites), Live)
      BY <3>1, <3>2 DEF Surjection, Live, ToSet
    <3> QED
      BY <3>2, <3>3, FS_Surjection
  <2>10. ASSUME NEW f \in Live, NEW g \in Live, NEW h \in Host, Rivals(f, g, h), HomeOf[f] = p
         PROVE  {f, g} \subseteq twice(h)
    <3> DEFINE paths == InProject(HostFiles(h), p)
    <3>1. {f, g} \subseteq paths /\ f # g
      BY <2>10 DEF Rivals, InProject, HostFiles
    <3>2. IsFiniteSet(paths)
      BY <2>9, FS_Subset DEF InProject, HostFiles
    <3> HIDE DEF paths
    <3>3. IsFiniteSet({f, g}) /\ Cardinality({f, g}) = 2
      <4>1. IsFiniteSet({f}) /\ Cardinality({f}) = 1
        BY FS_Singleton
      <4>2. {f, g} = {f} \cup {g} /\ g \notin {f}
        BY <3>1
      <4>3. IsFiniteSet({f} \cup {g}) /\ Cardinality({f} \cup {g}) = 1 + 1
        BY <4>1, <4>2, FS_AddElement
      <4> QED
        BY <4>2, <4>3
    <3>4. Cardinality(paths) > 1
      <4>1. Cardinality(paths) \in Nat /\ Cardinality({f, g}) <= Cardinality(paths)
        BY <3>1, <3>2, FS_Subset, FS_CardinalityType
      <4> QED
        BY <3>3, <4>1
    <3> QED
      BY <3>1, <3>4 DEF paths
  <2> HIDE DEF twice
  <2>11. ASSUME calm'[t], at'[t] # "idle" PROVE SyncKnows(t)'
    <3>1. SyncKnows(t)
      BY <2>1, <2>11 DEF SitesInv
    <3>2. list'[t] = known' /\ at'[t] = "reconcile"
      BY <2>1, <3>1 DEF SyncKnows
    <3>3. ASSUME clean'[t], NEW f \in Live', NEW g \in Live', NEW h \in Host, Rivals(f, g, h)',
                 HomeOf[f] \in visited'[t]
          PROVE  {f, g} \subseteq found'[t][h]
      <4>1. f \in Live /\ g \in Live /\ Rivals(f, g, h) /\ clean[t]
        BY <2>1, <3>3 DEF Live, Rivals
      <4>2. CASE HomeOf[f] = p
        BY <2>5, <2>7, <2>10, <4>1, <4>2
      <4>3. CASE HomeOf[f] # p
        <5>1. HomeOf[f] \in visited[t]
          BY <2>6, <3>3, <4>3
        <5>2. {f, g} \subseteq found[t][h]
          BY <2>1, <3>1, <4>1, <5>1 DEF SyncKnows
        <5> QED
          BY <2>1, <5>2 DEF Settled
      <4> QED
        BY <4>2, <4>3
    <3> QED
      BY <3>2, <3>3 DEF SyncKnows
  <2> QED
    BY <1>1, <1>2, <2>1, <2>2, <2>8, <2>11 DEF SitesTypeOK
<1>5. ASSUME EndReconcile(t) PROVE SitesInv'
  <2>1. /\ at[t] = "reconcile" /\ found[t] = Settled /\ visited[t] = list[t] /\ at'[t] = "write"
        /\ UNCHANGED <<known, sites, claimed, caddyfile, served, list, found, visited, clean, changes, calm>>
    BY <1>1, <1>5 DEF EndReconcile, SitesTypeOK
  <2>2. SitesTypeOK'
    BY <1>1, <1>5 DEF EndReconcile, SitesTypeOK
  <2>3. ASSUME calm'[t] PROVE SyncKnows(t)'
    <3>1. SyncKnows(t)
      BY <2>1, <2>3 DEF SitesInv
    <3>2. list'[t] = known'
      BY <2>1, <3>1 DEF SyncKnows
    <3>3. ASSUME clean'[t], NEW f \in Live', NEW g \in Live', NEW h \in Host PROVE ~Rivals(f, g, h)'
      <4>1. f \in Live /\ g \in Live /\ clean[t] /\ (Rivals(f, g, h)' => Rivals(f, g, h))
        BY <2>1, <3>3 DEF Live, Rivals
      <4>2. HomeOf[f] \in visited[t] /\ found[t][h] = {}
        BY <1>1, <2>1, <3>1, <4>1 DEF SyncKnows, Settled
      <4> QED
        BY <2>1, <3>1, <4>1, <4>2 DEF SyncKnows
    <3> QED
      BY <2>1, <3>2, <3>3 DEF SyncKnows
  <2> QED
    BY <1>1, <1>2, <1>5, <2>1, <2>2, <2>3 DEF EndReconcile, SitesTypeOK
<1>6. ASSUME WriteCaddyfile(t) PROVE SitesInv'
  <2>1. /\ at[t] = "write" /\ at' = [at EXCEPT ![t] = "reload"] /\ caddyfile' = list[t]
        /\ calm' = IF list[t] = known THEN calm ELSE [u \in Sync |-> FALSE]
        /\ UNCHANGED <<known, sites, claimed, served, list, found, visited, clean, changes>>
    BY <1>6 DEF WriteCaddyfile
  <2>2. calm' \in [Sync -> BOOLEAN]
    BY <1>1, <2>1 DEF SitesTypeOK
  <2>3. SitesTypeOK'
    BY <1>1, <2>1, <2>2 DEF SitesTypeOK
  <2>4. ASSUME NEW u \in Sync, calm'[u], at'[u] # "idle" PROVE SyncKnows(u)'
    <3>1. calm[u] /\ list[t] = known
      BY <2>1, <2>4
    <3>2. at[u] # "idle" /\ (u # t => at'[u] = at[u]) /\ (u = t => at'[u] = "reload")
      BY <1>1, <2>1, <2>4 DEF SitesTypeOK
    <3>3. SyncKnows(u)
      BY <3>1, <3>2 DEF SitesInv
    <3>4. caddyfile' = known'
      BY <2>1, <3>1
    <3>5. at'[u] = "ok" => u # t /\ caddyfile' = caddyfile
      BY <2>1, <3>1, <3>2, <3>3 DEF SyncKnows
    <3>6. at'[u] = "ok" => (~Ambiguous)' /\ served' = [f \in Site |-> IF f \in Live' THEN claimed'[f] ELSE {}]
      BY <2>1, <3>2, <3>3, <3>5 DEF SyncKnows, Ambiguous, Imported, Live
    <3>7. at'[u] \in {"reconcile", "write"} => at'[u] = at[u]
      BY <3>2
    <3> QED
      BY <2>1, <3>3, <3>4, <3>6, <3>7 DEF SyncKnows, Rivals, Live
  <2>5. \A f \in Live' : HomeOf[f] \in known'
    BY <1>1, <2>1 DEF Live
  <2> QED
    BY <2>3, <2>4, <2>5 DEF SitesInv
<1>7. ASSUME Reload(t) PROVE SitesInv'
  <2>1. /\ at[t] = "reload" /\ \E r \in {"ok", "failed"} : at' = [at EXCEPT ![t] = r]
        /\ UNCHANGED <<known, sites, claimed, caddyfile, list, found, visited, clean, changes, calm>>
    BY <1>7 DEF Reload
  <2>2. \/ ~Ambiguous /\ served' = [f \in Site |-> IF f \in Imported THEN claimed[f] ELSE {}]
        \/ at' = [at EXCEPT ![t] = "failed"] /\ served' = served
    BY <1>7 DEF Reload
  <2>3. served' \in [Site -> SUBSET Host]
    BY <1>1, <2>2 DEF SitesTypeOK
  <2>4. SitesTypeOK'
    BY <1>1, <2>1, <2>3 DEF SitesTypeOK
  <2>5. ASSUME NEW u \in Sync, calm'[u], at'[u] # "idle" PROVE SyncKnows(u)'
    <3>1. at[u] # "idle" /\ (u # t => at'[u] = at[u]) /\ (u = t => at'[u] \in {"ok", "failed"})
      BY <1>1, <2>1, <2>5 DEF SitesTypeOK
    <3>2. calm[u] /\ SyncKnows(u)
      BY <2>1, <2>5, <3>1 DEF SitesInv
    <3>3. list'[u] = known' /\ (at'[u] \in {"reload", "ok"} => at[u] \in {"reload", "ok"})
      BY <2>1, <3>1, <3>2 DEF SyncKnows
    <3>4. at'[u] \in {"reconcile", "write"} => at'[u] = at[u]
      BY <3>1
    <3>5. ASSUME at'[u] = "ok"
          PROVE  ~Ambiguous /\ served' = [f \in Site |-> IF f \in Live THEN claimed[f] ELSE {}]
      <4>1. caddyfile = known
        BY <3>2, <3>3, <3>5 DEF SyncKnows
      <4>2. Imported = Live
        BY <1>1, <4>1 DEF Imported
      <4>3. CASE ~Ambiguous /\ served' = [f \in Site |-> IF f \in Imported THEN claimed[f] ELSE {}]
        BY <4>2, <4>3
      <4>4. CASE at' = [at EXCEPT ![t] = "failed"] /\ served' = served
        <5>1. u # t /\ at[u] = "ok"
          BY <1>1, <3>1, <3>5, <4>4 DEF SitesTypeOK
        <5> QED
          BY <3>2, <4>4, <5>1 DEF SyncKnows
      <4> QED
        BY <2>2, <4>3, <4>4
    <3>6. Live' = Live /\ (Ambiguous' => Ambiguous)
      BY <2>1 DEF Live, Ambiguous, Imported
    <3>7. at'[u] = "ok" => (~Ambiguous)' /\ served' = [f \in Site |-> IF f \in Live' THEN claimed'[f] ELSE {}]
      BY <2>1, <3>5, <3>6
    <3> QED
      BY <2>1, <3>2, <3>3, <3>4, <3>6, <3>7 DEF SyncKnows, Rivals
  <2>6. \A f \in Live' : HomeOf[f] \in known'
    BY <1>1, <2>1 DEF Live
  <2> QED
    BY <2>4, <2>5, <2>6 DEF SitesInv
<1>8. ASSUME EndSync(t) PROVE SitesInv'
  <2>1. /\ at' = [at EXCEPT ![t] = "idle"] /\ list' = [list EXCEPT ![t] = {}]
        /\ visited' = [visited EXCEPT ![t] = {}]
        /\ UNCHANGED <<known, sites, claimed, caddyfile, served, found, changes>>
    BY <1>8 DEF EndSync
  <2>2. clean' \in [Sync -> BOOLEAN] /\ calm' \in [Sync -> BOOLEAN]
    BY <1>1, <1>8 DEF EndSync, SitesTypeOK
  <2>3. SitesTypeOK' /\ at'[t] = "idle"
    BY <1>1, <2>1, <2>2 DEF SitesTypeOK
  <2> QED
    BY <1>1, <1>2, <1>8, <2>1, <2>3 DEF EndSync, SitesTypeOK
<1>9. ASSUME NEW h \in Host, Settle(t, h) PROVE SitesInv'
  BY <1>9, Settlement
<1> QED
  BY <1>3, <1>4, <1>5, <1>6, <1>7, <1>8, <1>9 DEF SyncStep

LEMMA SitesStep ==
  ASSUME SitesInv, [SitesNext]_sitesVars PROVE SitesInv'
<1>1. CASE UNCHANGED sitesVars
  BY <1>1 DEF SitesInv, sitesVars, SitesTypeOK, SyncKnows, Rivals, Live, Ambiguous, Imported
<1>2. CASE \E p \in SiteProject : Know(p) \/ Forget(p)
  BY <1>2, ProjectsAndSites
<1>3. CASE \E f \in Site : WriteOther(f) \/ WriteWorkload(f) \/ RemoveSite(f)
  BY <1>3, ProjectsAndSites
<1>4. CASE \E t \in Sync : SyncStep(t)
  BY <1>4, Synchronization
<1> QED
  BY <1>1, <1>2, <1>3, <1>4 DEF SitesNext

LEMMA SitesInvariant == SitesSpec => []SitesInv
BY SitesInitial, SitesStep, PTL DEF SitesSpec

(* The state of the ingress keeps its shape: a file is in place once, with  *)
(* hosts, and a thread has listed projects (ingress.py).                    *)
THEOREM SitesTypeCorrect == SitesSpec => []SitesTypeOK
<1>1. SitesInv => SitesTypeOK
  BY DEF SitesInv
<1> QED
  BY <1>1, SitesInvariant, PTL

(* A reconciliation without a problem leaves no host with two sites where   *)
(* it has been, and a synchronization that succeeds has made Caddy serve    *)
(* every site of every known project and nothing else, as long as nothing   *)
(* has changed meanwhile (ingress.py, sync_projects).                       *)
THEOREM SyncIsTrue == SitesSpec => []SyncTellsTruth
<1>1. SitesInv => SyncTellsTruth
  <2>1. SUFFICES ASSUME SitesInv PROVE SyncTellsTruth
    OBVIOUS
  <2>2. ASSUME NEW t \in Sync, at[t] = "write", clean[t], calm[t],
               NEW f \in Live, NEW g \in Live, f # g, HomeOf[f] = HomeOf[g]
        PROVE  claimed[f] \cap claimed[g] = {}
    <3>1. SyncKnows(t)
      BY <2>1, <2>2 DEF SitesInv
    <3>2. f \in Site /\ claimed[f] \subseteq Host
      BY <2>1, <2>2 DEF SitesInv, SitesTypeOK, Live, ToSet
    <3>3. \A h \in Host : ~Rivals(f, g, h)
      BY <2>2, <3>1 DEF SyncKnows
    <3> QED
      BY <2>2, <3>2, <3>3 DEF Rivals
  <2>3. ASSUME NEW t \in Sync, at[t] = "ok", calm[t]
        PROVE  served = [f \in Site |-> IF f \in Live THEN claimed[f] ELSE {}]
    BY <2>1, <2>3 DEF SitesInv, SyncKnows
  <2> QED
    BY <2>2, <2>3 DEF SyncTellsTruth, CleanIsClear, SyncedIsServed
<1> QED
  BY <1>1, SitesInvariant, PTL

(* Reconciliation takes nothing out that WorkerBee has not written, nor a   *)
(* host's last site in a file of that host alone (ingress.py,               *)
(* _reconcile_duplicate_caddy_hosts).                                       *)
THEOREM SitesAreKept == SitesSpec => SiteKept
<1> DEFINE spared(t, d) ==
             LET out == Live \ ToSet(sites') IN
             /\ out \subseteq ByName \cup ByText
             /\ ~Rewritten(t, d) =>
                  \A h \in Host : HostFiles(h) # {} /\ HostFiles(h) \subseteq out =>
                    \E f \in HostFiles(h) : claimed[f] # {h}
<1>1. ASSUME SitesTypeOK, NEW t \in Sync, NEW d \in Host, Settle(t, d) PROVE spared(t, d)
  <2>1. Live \ ToSet(sites') = Moved(t, d)
    <3>1. Live' = Live \ Moved(t, d) /\ Live' = ToSet(sites')
      BY <1>1, SettlementOf DEF Live
    <3>2. Moved(t, d) \subseteq Live
      BY DEF Moved
    <3> QED
      BY <3>1, <3>2
  <2>2. Moved(t, d) \subseteq ByName \cup ByText
    BY DEF Moved, Unsafe, Generated
  <2>3. ASSUME ~Rewritten(t, d), NEW h \in Host, HostFiles(h) # {}, HostFiles(h) \subseteq Moved(t, d),
               \A f \in HostFiles(h) : claimed[f] = {h}
        PROVE  FALSE
    <3>1. PICK f \in HostFiles(h) : f \in Moved(t, d) /\ claimed[f] = {h}
      BY <2>3
    <3>2. PICK g \in Live : g \notin Moved(t, d) /\ d \in claimed[f] /\ d \in claimed[g]
      BY <1>1, <2>3, <3>1, OneStays
    <3>3. g \in HostFiles(h)
      BY <3>1, <3>2 DEF HostFiles
    <3> QED
      BY <2>3, <3>2, <3>3
  <2> QED
    BY <2>1, <2>2, <2>3
<1>2. SitesTypeOK => [\A t \in Sync, d \in Host : Settle(t, d) => spared(t, d)]_sitesVars
  <2> HIDE DEF spared
  <2> QED
    BY <1>1
<1> QED
  BY <1>2, SitesTypeCorrect, PTL DEF SiteKept

-----------------------------------------------------------------------------
(* The components side by side, as MCProjectServices composes them. *)

Writers ==
  INSTANCE Registry_proofs WITH
    Actor <- Writer, Locked <- LockedWriter, Asked <- AskedOfWriters,
    file <- file2, tmp <- tmp2, content <- content2, pc <- pc2, about <- about2,
    wants <- wants2, records <- records2, handle <- handle2, asked <- asked2

(* The instance of Registry and that of its proofs are the same. *)
LEMMA SharedIsWriters ==
  /\ Shared!Init => Writers!Init
  /\ Shared!Next => Writers!Next
  /\ ModesStayAsked <=> Writers!NoInventedMode
<1>1. Shared!Init => Writers!Init
  BY DEF Shared!Init, Writers!Init, Shared!Empty, Writers!Empty, Shared!NoRecords, Writers!NoRecords
<1>2. \A a \in Writer : Shared!Step(a) => Writers!Step(a)
  BY DEF Shared!Step, Writers!Step, Shared!SetMode, Writers!SetMode, Shared!Touch, Writers!Touch,
         Shared!Unregister, Writers!Unregister, Shared!Change, Writers!Change,
         Shared!MayStart, Writers!MayStart, Shared!Registered, Writers!Registered,
         Shared!Unregistered, Writers!Unregistered, Shared!ModeIn, Writers!ModeIn,
         Shared!Published, Writers!Published, Shared!OpenTmp, Writers!OpenTmp,
         Shared!WriteTmp, Writers!WriteTmp, Shared!Json, Writers!Json, Shared!Empty,
         Writers!Empty, Shared!Torn, Writers!Torn, Shared!Replace, Writers!Replace,
         Shared!ReplaceFails, Writers!ReplaceFails, Shared!Crash, Writers!Crash,
         Shared!Finish, Writers!Finish, Shared!NoRecords, Writers!NoRecords
<1>3. ModesStayAsked <=> Writers!NoInventedMode
  BY DEF ModesStayAsked, Shared!NoInventedMode, Writers!NoInventedMode,
         Shared!ModeIn, Writers!ModeIn
<1> QED
  BY <1>1, <1>2, <1>3 DEF Shared!Next, Writers!Next

(* Composed, every component behaves as it does alone: what is proved of   *)
(* each holds in every behaviour of the composition, and the writers of    *)
(* the registry that hold no lock are those of Registry.                   *)
THEOREM Composed ==
  ServicesSpec =>
    /\ Spec /\ Writers!Spec /\ SitesSpec /\ ProfileSpec /\ DnsSpec /\ DeploySpec
    /\ CleanupSpec /\ BuildSpec /\ FabricSpec /\ AdviceSpec /\ RetrievalSpec /\ StagesSpec
<1>1. ServicesInit =>
        /\ Init /\ Writers!Init /\ SitesInit /\ ProfileInit /\ DnsInit /\ DeployInit
        /\ CleanupInit /\ BuildInit /\ FabricInit /\ AdviceInit /\ RetrievalInit /\ StagesInit
  BY SharedIsWriters DEF ServicesInit
<1>2. [ServicesNext]_<<part, componentVars>> => [Next]_vars
  BY DEF ServicesNext, componentVars
<1>3. [ServicesNext]_<<part, componentVars>> => [SitesNext]_sitesVars
  BY DEF ServicesNext, componentVars
<1>4. [ServicesNext]_<<part, componentVars>> => [ProfileNext]_profileVars
  BY DEF ServicesNext, componentVars
<1>5. [ServicesNext]_<<part, componentVars>> => [DnsNext]_dnsVars
  BY DEF ServicesNext, componentVars
<1>6. [ServicesNext]_<<part, componentVars>> => [DeployNext]_deployVars
  BY DEF ServicesNext, componentVars
<1>7. [ServicesNext]_<<part, componentVars>> => [CleanupNext]_cleanupVars
  BY DEF ServicesNext, componentVars
<1>8. [ServicesNext]_<<part, componentVars>> => [BuildNext]_buildVars
  BY DEF ServicesNext, componentVars
<1>9. [ServicesNext]_<<part, componentVars>> => [FabricNext]_fabricVars
  BY DEF ServicesNext, componentVars
<1>10. [ServicesNext]_<<part, componentVars>> => [AdviceNext]_adviceVars
  BY DEF ServicesNext, componentVars
<1>11. [ServicesNext]_<<part, componentVars>> => [RetrievalNext]_retrievalVars
  BY DEF ServicesNext, componentVars
<1>12. [ServicesNext]_<<part, componentVars>> => [StagesNext]_stagesVars
  BY DEF ServicesNext, componentVars
<1>13. [ServicesNext]_<<part, componentVars>> => [Writers!Next]_(Writers!vars)
  BY SharedIsWriters DEF ServicesNext, componentVars, sharedVars, Writers!vars
<1> QED
  BY <1>1, <1>2, <1>3, <1>4, <1>5, <1>6, <1>7, <1>8, <1>9, <1>10, <1>11, <1>12, <1>13,
     PTL DEF ServicesSpec, Spec, Writers!Spec, SitesSpec, ProfileSpec, DnsSpec, DeploySpec, CleanupSpec,
             BuildSpec, FabricSpec, AdviceSpec, RetrievalSpec, StagesSpec

(* With writers that hold no lock (project_mode_get, delete_projects)      *)
(* beside those that do, no project ever gets a mode that nobody asked for *)
(* (daemon.py:2735-2776).                                                  *)
THEOREM WritersInventNothing == ServicesSpec => []ModesStayAsked
<1>1. Writers!RegistryAssumption
  BY RegistryAssumption, WritersAssumption DEF Writers!RegistryAssumption, Writers!Mode, Mode
<1>2. Writers!Spec => []Writers!NoInventedMode
  BY <1>1, Writers!ModesAreAsked, PTL
<1> QED
  BY <1>2, SharedIsWriters, Composed, PTL
=============================================================================
