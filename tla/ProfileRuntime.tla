--------------------------- MODULE ProfileRuntime ----------------------------
(***************************************************************************)
(* Profiles and edge links of one project (profiles.py, edge_link.py,      *)
(* daemon.py): control planes made of containers in the project's          *)
(* containerd namespace, each with a record of its components and the      *)
(* profile with a site for the ingress.  Starts and stops hold the         *)
(* project's lock; a status does not, and it repairs site and record.      *)
(***************************************************************************)
EXTENDS Naturals, Sequences, SequencesExt

CONSTANTS
  Container,
  Profile,   \* profiles with a control plane of their own
  Shape,     \* edge links: sites and numbers of nodes that differ
  Parts,     \* the containers of each one, in the order they are started
  Nothing    \* no record, no site

ASSUME ProfileAssumption ==
  /\ Profile \cap Shape = {} /\ Nothing \notin Profile \cup Shape
  /\ Parts \in [Profile \cup Shape \cup {Nothing} -> Seq(Container)]
  /\ \A x \in Profile \cup Shape : Parts[x] # <<>>
  /\ Parts[Nothing] = <<>>

VARIABLES
  box,      \* the containers of the namespace
  profile,  \* k1s-profile.json
  edge,     \* the record of the edge link
  route,    \* the profile k1s-profile.caddy points to
  step,     \* where the handler with the lock is
  target,   \* what it starts, Nothing for a stop
  purge,
  left,     \* the containers it has still to start or to remove
  recorded, \* the stop has found a profile to stop
  fine,     \* nothing that a stop reports has failed
  reader,   \* where a status is
  seen,     \* the record it has read
  mess      \* history: a crash, a failed start or removal, a status that was overtaken

profileVars == <<box, profile, edge, route, step, target, purge, left, recorded, fine, reader, seen, mess>>
world == <<box, profile, edge, route>>

ProfileInit ==
  /\ box = [c \in Container |-> "none"]
  /\ profile = Nothing /\ edge = Nothing /\ route = Nothing
  /\ step = "idle" /\ target = Nothing /\ purge = FALSE /\ left = <<>>
  /\ recorded = FALSE /\ fine = TRUE
  /\ reader = "idle" /\ seen = Nothing /\ mess = FALSE

ProfileTypeOK ==
  /\ box \in [Container -> {"none", "up", "exited"}]
  /\ profile \in Profile \cup {Nothing} /\ edge \in Shape \cup {Nothing}
  /\ route \in Profile \cup {Nothing} /\ target \in Profile \cup Shape \cup {Nothing}
  /\ step \in {"idle", "check", "rm", "sweep", "unroute", "forget", "edge_check", "edge_rm",
               "edge_forget", "launch", "record", "reported"}
  /\ left \in Seq(Container) /\ purge \in BOOLEAN /\ recorded \in BOOLEAN /\ fine \in BOOLEAN
  /\ mess \in BOOLEAN
  /\ reader \in {"idle", "loaded", "running"} /\ seen \in Profile \cup {Nothing}

AllUp(x) == x # Nothing /\ \A c \in ToSet(Parts[x]) : box[c] = "up"

-----------------------------------------------------------------------------
(* Commands: profile_start, profile_stop, edge_link_start, edge_link_stop. *)

Take(s, x, p) ==
  /\ step = "idle"
  /\ step' = s /\ target' = x /\ purge' = p /\ fine' = TRUE
  /\ UNCHANGED <<box, profile, edge, route, reader, seen, mess>>

Command ==
  \/ \E p \in Profile : Take("check", p, FALSE) /\ left' = <<>> /\ recorded' = FALSE
  \/ \E s \in Shape : Take("edge_check", s, FALSE) /\ left' = <<>> /\ recorded' = FALSE
  \/ \E p \in BOOLEAN : /\ Take("rm", Nothing, p)
                        /\ left' = Reverse(Parts[profile]) /\ recorded' = (profile # Nothing)
  \/ \E p \in BOOLEAN : /\ Take("edge_rm", Nothing, p)
                        /\ left' = Reverse(Parts[edge]) /\ recorded' = FALSE

Go(s) == step' = s /\ UNCHANGED <<target, purge, reader, seen>>

\* K1sProfileRunner.start: one that runs as recorded only gets its site again, any
\* other record is stopped first.
CheckProfile ==
  /\ step = "check"
  /\ IF profile = target /\ AllUp(target)
       THEN Go("reported") /\ route' = target /\ UNCHANGED <<left, recorded>>
       ELSE /\ IF profile = Nothing THEN Go("launch") /\ left' = Parts[target]
                                    ELSE Go("rm") /\ left' = Reverse(Parts[profile])
            /\ recorded' = (profile # Nothing) /\ UNCHANGED route
  /\ UNCHANGED <<box, profile, edge, fine, mess>>

\* Mutant of CheckEdge: a link of another shape is started over the old one.
CheckEdgeOver ==
  /\ step = "edge_check"
  /\ IF edge = target /\ AllUp(target) THEN Go("reported") /\ UNCHANGED left
                                       ELSE Go("launch") /\ left' = Parts[target]
  /\ UNCHANGED <<recorded, box, profile, edge, route, fine, mess>>

\* K1sEdgeLinkRunner.start: only a link of the same shape is kept.
CheckEdge ==
  /\ step = "edge_check"
  /\ IF edge = target /\ AllUp(target)
       THEN Go("reported") /\ UNCHANGED left
       ELSE IF edge = Nothing THEN Go("launch") /\ left' = Parts[target]
                              ELSE Go("edge_rm") /\ left' = Reverse(Parts[edge])
  /\ UNCHANGED <<recorded, box, profile, edge, route, fine, mess>>

-----------------------------------------------------------------------------
(* Stop. *)

\* _rm_container, for each part in reverse order; a failure is only reported.
RemovePart ==
  /\ step \in {"rm", "edge_rm"} /\ left # <<>>
  /\ left' = Tail(left) /\ Go(step)
  /\ \/ box' = [box EXCEPT ![Head(left)] = "none"] /\ UNCHANGED <<fine, mess>>
     \/ fine' = FALSE /\ mess' = TRUE /\ UNCHANGED box
  /\ UNCHANGED <<recorded, profile, edge, route>>

\* The namespace is swept when there is a record or everything is to be purged.
Removed ==
  /\ step \in {"rm", "edge_rm"} /\ left = <<>>
  /\ Go(IF step = "edge_rm" THEN "edge_forget"
        ELSE IF recorded \/ purge THEN "sweep" ELSE "unroute")
  /\ UNCHANGED <<recorded, box, profile, edge, route, left, fine, mess>>

\* _rm_project_containers takes all of the namespace, the edge link's, too: one list,
\* then one `rm -f` of all that is listed, and only handlers with the lock add to it in
\* between.  When either command fails, some may be gone.
Sweep ==
  /\ step = "sweep"
  /\ Go("unroute")
  /\ \/ box' = [c \in Container |-> "none"] /\ UNCHANGED <<fine, mess>>
     \/ fine' = FALSE /\ mess' = TRUE
        /\ \E gone \in SUBSET Container :
             box' = [c \in Container |-> IF c \in gone THEN "none" ELSE box[c]]
  /\ UNCHANGED <<recorded, profile, edge, route, left>>

\* _remove_ingress_site: a site that cannot be removed stays, and the stop is none the
\* less reported to have succeeded.
RemoveRoute ==
  /\ step = "unroute"
  /\ Go("forget")
  /\ \/ route' = Nothing /\ UNCHANGED mess
     \/ mess' = TRUE /\ UNCHANGED route
  /\ UNCHANGED <<recorded, box, profile, edge, left, fine>>

\* The record is removed whatever has failed, alone or with the tree of the profiles.
\* A start goes on from here; profile_stop goes on to the edge link, whose result
\* replaces its own when there was no profile to stop.
ForgetRecord ==
  /\ step = "forget"
  /\ \/ profile' = Nothing /\ fine' = (fine \/ ~recorded) /\ UNCHANGED mess
     \/ purge /\ fine' = ~recorded /\ mess' = TRUE /\ UNCHANGED profile
  /\ IF target = Nothing THEN Go("edge_rm") /\ left' = Reverse(Parts[edge])
                         ELSE Go("launch") /\ left' = Parts[target]
  /\ UNCHANGED <<box, edge, route, recorded>>

ForgetEdge ==
  /\ step = "edge_forget"
  /\ \/ edge' = Nothing /\ UNCHANGED <<fine, mess>>
     \/ purge /\ fine' = FALSE /\ mess' = TRUE /\ UNCHANGED edge
  /\ IF target = Nothing THEN Go("reported") /\ UNCHANGED left
                         ELSE Go("launch") /\ left' = Parts[target]
  /\ UNCHANGED <<recorded, box, profile, route>>

-----------------------------------------------------------------------------
(* Start. *)

\* `rm -f` and `run` of one container; an exception ends the start where it is, with
\* the old container, none, or one that has never run.
LaunchPart ==
  /\ step = "launch" /\ left # <<>>
  /\ \/ box' = [box EXCEPT ![Head(left)] = "up"]
        /\ Go("launch") /\ left' = Tail(left) /\ UNCHANGED mess
     \/ /\ Go("idle") /\ left' = <<>> /\ mess' = TRUE
        /\ \E b \in {box[Head(left)], "none", "exited"} : box' = [box EXCEPT ![Head(left)] = b]
  /\ UNCHANGED <<recorded, profile, edge, route, fine>>

\* The site of a profile, and then the record.
Launched ==
  /\ step = "launch" /\ left = <<>>
  /\ Go("record")
  /\ route' = IF target \in Profile THEN target ELSE route
  /\ UNCHANGED <<recorded, box, profile, edge, left, fine, mess>>

Record ==
  /\ step = "record"
  /\ Go("reported")
  /\ IF target \in Profile THEN profile' = target /\ UNCHANGED edge
                           ELSE edge' = target /\ UNCHANGED profile
  /\ UNCHANGED <<recorded, box, route, left, fine, mess>>

Reported ==
  /\ step = "reported"
  /\ step' = "idle" /\ target' = Nothing /\ purge' = FALSE /\ recorded' = FALSE
  /\ fine' = TRUE
  /\ UNCHANGED <<box, profile, edge, route, left, reader, seen, mess>>

-----------------------------------------------------------------------------
(* profile_status, without the lock. *)

Read(r) == reader' = r /\ UNCHANGED <<box, edge, step, target, purge, left, recorded, fine>>

LoadRecord ==
  /\ reader = "idle" /\ profile # Nothing
  /\ Read("loaded") /\ seen' = profile
  /\ UNCHANGED <<profile, route, mess>>

CheckRunning ==
  /\ reader = "loaded"
  /\ IF AllUp(seen) THEN Read("running") /\ UNCHANGED seen
                    ELSE Read("idle") /\ seen' = Nothing
  /\ UNCHANGED <<profile, route, mess>>

\* _refresh_ingress_info: the site as the record has it, and the record when the URLs
\* have changed, whatever a handler has made of them meanwhile.
RefreshIngress ==
  /\ reader = "running"
  /\ Read("idle") /\ seen' = Nothing
  /\ route' = seen
  /\ profile' \in {profile, seen}
  /\ mess' = (mess \/ profile # seen \/ step = "forget")

-----------------------------------------------------------------------------

ContainerExits ==
  /\ \E c \in Container : box[c] = "up" /\ box' = [box EXCEPT ![c] = "exited"]
  /\ UNCHANGED <<recorded, profile, edge, route, step, target, purge, left, fine, reader, seen, mess>>

\* The daemon dies: the lock is free, the containers run on.
DaemonDies ==
  /\ step # "idle" \/ reader # "idle"
  /\ step' = "idle" /\ target' = Nothing /\ purge' = FALSE /\ left' = <<>>
  /\ recorded' = FALSE /\ fine' = TRUE
  /\ reader' = "idle" /\ seen' = Nothing /\ mess' = TRUE
  /\ UNCHANGED world

ProfileNext ==
  \/ Command \/ CheckProfile \/ CheckEdge \/ RemovePart \/ Removed \/ Sweep \/ RemoveRoute
  \/ ForgetRecord \/ ForgetEdge \/ LaunchPart \/ Launched \/ Record \/ Reported
  \/ LoadRecord \/ CheckRunning \/ RefreshIngress \/ ContainerExits \/ DaemonDies

ProfileSpec == ProfileInit /\ [][ProfileNext]_profileVars

-----------------------------------------------------------------------------
(* What it promises. *)

StopIsComplete ==
  step = "reported" /\ target = Nothing /\ recorded /\ fine =>
    \A c \in Container : box[c] = "none"

RecordIsTrue ==
  step = "idle" /\ ~mess =>
    /\ \A c \in Container : box[c] # "none" => c \in ToSet(Parts[profile]) \cup ToSet(Parts[edge])
    /\ route = profile

\* When stopping a profile is reported to have succeeded, nothing is left in the
\* project's namespace, whatever crashes, failed starts and edge links have left there
\* before (K1sProfileRunner.stop: namespace_cleanup).  As long as nothing has failed, every
\* container belongs to a profile or an edge link that is on record, through changes of the
\* profile and of the edge link's shape, so that a stop finds all of them (start:
\* `info.profile != descriptor.name`); and the ingress has the site of the profile on
\* record and of no other.  A status that is overtaken by a stop is the exception: it
\* writes the site again after the stop has removed it (profile_status takes no lock).
NothingIsForgotten == StopIsComplete /\ RecordIsTrue
=============================================================================
