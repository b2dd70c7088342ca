--------------------------- MODULE StagedManifests ----------------------------
(***************************************************************************)
(* The staged manifests of one project (manifests.py, mcp_server.py): a    *)
(* stage is prepared from a template or a source, edited by hand,          *)
(* validated, and handed on - to the project's controller, a profile's, a  *)
(* remote one, or into an export.  The operations hold the project's lock; *)
(* whoever edits manifests and secrets does not, and each operation reads  *)
(* the files more than once.                                               *)
(***************************************************************************)
EXTENDS Naturals, Sequences, FiniteSets, FiniteSetsExt

CONSTANTS
  Files,     \* how many names of manifests there are, 1 the first in their order
  Texts,     \* what a manifest may hold: sequences of documents
  Originals, \* what prepare writes: functions from names to texts
  Stem,      \* what an export calls each
  NoText,    \* no such file
  MaxEdits   \* bound on the edits

File == 1..Files

ASSUME StagesAssumption ==
  /\ Files \in Nat \ {0} /\ MaxEdits \in Nat /\ NoText \notin Texts
  /\ Originals \subseteq [File -> Texts \cup {NoText}] /\ DOMAIN Stem = File

VARIABLES
  staged,  \* [File -> text]
  sealed,  \* the file that the secretRefs name: "missing", "plaintext", or "encrypted" with SOPS
  op,      \* the operation that holds the lock
  handed,  \* what it has handed on, by the name it has there
  edits

stagesVars == <<staged, sealed, op, handed, edits>>

Local == {"workerbee", "profile"}
Target == Local \cup {"remote"}
Format == {"k1s", "k8s", "helm"}
NoOp ==
  [at |-> "idle", to |-> "nothing", allow |-> FALSE, kinds |-> <<>>, todo |-> {},
   edited |-> FALSE]

\* A stage has texts under its names, and what was handed on was a text of the stage.
StagesTypeOK ==
  LET Seal == {"missing", "plaintext", "encrypted"} IN
  /\ staged \in [File -> Texts \cup {NoText}] /\ sealed \in Seal
  /\ op.at \in {"idle", "prepare", "validate", "policy", "connect", "apply", "clear", "export",
                "reported"}
  /\ op.to \in Target \cup Format \cup {"nothing"}
  /\ op.allow \in BOOLEAN /\ op.edited \in BOOLEAN
  /\ op.todo \subseteq File /\ DOMAIN op.kinds \subseteq File
  /\ \A h \in handed : h.file \in File /\ h.text \in Texts /\ h.secret \in Seal
  /\ edits \in 0 .. MaxEdits

StagesInit ==
  /\ staged = [f \in File |-> NoText] /\ sealed \in {"missing", "plaintext", "encrypted"}
  /\ op = NoOp /\ handed = {} /\ edits = 0

Present == {f \in File : staged[f] # NoText}

-----------------------------------------------------------------------------
(* Validation.  A document is a record: its api, the kind of it, whether it  *)
(* has a secretRef, and whether it has none of the flaws that are looked for *)
(* in Kubernetes documents one by one.                                       *)

Docs(text) == {text[i] : i \in DOMAIN text}
With(text, kinds) == {i \in DOMAIN text : text[i].kind \in kinds}

\* _manifest_detail
InputKind(text) ==
  LET apis == {d.api : d \in Docs(text)}
  IN IF apis = {"native"} THEN "native"
     ELSE IF apis = {"kubernetes"} THEN "kubernetes"
     ELSE IF apis = {"native", "kubernetes"} THEN "mixed" ELSE "unknown"

\* _validate_native_secret_refs: a reference names a file that is there, encrypted unless
\* plaintext is allowed.
SecretsFit(text, secret, plaintext) ==
  \A d \in Docs(text) : d.api = "native" =>
    \/ d.secret = "none"
    \/ d.secret = "path" /\ (secret = "encrypted" \/ (secret = "plaintext" /\ plaintext))

\* _validate_k8s_documents: at most one workload, and none only beside roles alone.
KubernetesFits(text) ==
  /\ \A d \in Docs(text) : d.kind # "other" /\ d.flawless
  /\ Cardinality(With(text, {"workload"})) <= 1
  /\ With(text, {"workload"}) = {} => With(text, {"rbac"}) = DOMAIN text

Fits(text, secret, plaintext) ==
  CASE InputKind(text) = "native" -> Len(text) = 1 /\ SecretsFit(text, secret, plaintext)
    [] InputKind(text) = "kubernetes" -> KubernetesFits(text)
    [] OTHER -> FALSE

CONSTANT PlaintextAllowed \* WORKERBEE_ALLOW_PLAINTEXT_SECRETS

Valid == Present # {} /\ \A f \in Present : Fits(staged[f], sealed, PlaintextAllowed)

HasRefs(text) == \E d \in Docs(text) : d.api = "native" /\ d.secret # "none"

\* Mutant of RemoteMayHave: what counts is whether the files are encrypted.
RemoteMayHaveEncrypted(text, allow) == allow \/ ~HasRefs(text) \/ sealed = "encrypted"

\* A remote controller would look the files up on its own disk.
RemoteMayHave(text, allow) == allow \/ ~HasRefs(text)

\* enforce_stage_secret_policy, over the manifests that validation took for native ones.
PolicyHolds ==
  \A f \in DOMAIN op.kinds : staged[f] # NoText /\ op.kinds[f] = "native" =>
    /\ SecretsFit(staged[f], sealed, PlaintextAllowed)
    /\ op.to = "remote" => RemoteMayHave(staged[f], op.allow)

-----------------------------------------------------------------------------
(* The stage. *)

Proceed(p) == op' = [op EXCEPT !.at = p]
Leave == op' = NoOp

\* prepare_stage removes the old stage before it looks at template and source.
BeginPrepare ==
  /\ op.at = "idle"
  /\ staged' = [f \in File |-> NoText] /\ handed' = {}
  /\ \E original \in Originals :
       op' = [NoOp EXCEPT !.at = "prepare", !.kinds = original,
                          !.todo = {f \in File : original[f] # NoText}]
  /\ UNCHANGED <<sealed, edits>>

\* _copy_source, _write_template: file by file.  The validation at the end is only reported.
PrepareFile ==
  /\ op.at = "prepare"
  /\ IF op.todo = {} THEN Leave /\ UNCHANGED staged
     ELSE LET f == Min(op.todo) IN
          /\ staged' = [staged EXCEPT ![f] = op.kinds[f]]
          /\ op' = [op EXCEPT !.todo = @ \ {f}]
  /\ UNCHANGED <<sealed, handed, edits>>

EditManifest ==
  /\ edits < MaxEdits /\ edits' = edits + 1
  /\ \E f \in File, t \in Texts \cup {NoText} :
       t # staged[f] /\ staged' = [staged EXCEPT ![f] = t]
  /\ op' = [op EXCEPT !.edited = op.at \notin {"idle", "prepare"}]
  /\ UNCHANGED <<sealed, handed>>

EditSecret ==
  /\ edits < MaxEdits /\ edits' = edits + 1
  /\ sealed' \in {"missing", "plaintext", "encrypted"} \ {sealed}
  /\ op' = [op EXCEPT !.edited = op.at \notin {"idle", "prepare"}]
  /\ UNCHANGED <<staged, handed>>

-----------------------------------------------------------------------------
(* Handing on. *)

\* manifest_deploy_local, manifest_deploy_remote_k1s, bundle_export.  A stage without a
\* directory is not found; `allow` is allow_remote_secretrefs.
Begin(to, allow) ==
  /\ op.at = "idle" /\ allow => to = "remote"
  /\ op' = [NoOp EXCEPT !.at = "validate", !.to = to, !.allow = allow]
  /\ handed' = {}
  /\ UNCHANGED <<staged, sealed, edits>>

\* validate_stage: what is not valid goes nowhere, what is valid is from now on a list of
\* paths and kinds.
Validate ==
  /\ op.at = "validate"
  /\ IF Valid
       THEN op' = [op EXCEPT !.at = IF op.to \in Target THEN "policy" ELSE "clear",
                             !.kinds = [f \in Present |-> InputKind(staged[f])],
                             !.todo = Present]
       ELSE Leave
  /\ UNCHANGED <<staged, sealed, handed, edits>>

\* The files are read again.
CheckPolicy ==
  /\ op.at = "policy"
  /\ IF PolicyHolds THEN Proceed(IF op.to = "profile" THEN "connect" ELSE "apply") ELSE Leave
  /\ UNCHANGED <<staged, sealed, handed, edits>>

\* The profile's connection, which takes one that runs; what is reset is deleted as far
\* as the controller does it.
Connect ==
  /\ op.at = "connect" /\ Proceed("apply")
  /\ UNCHANGED <<staged, sealed, handed, edits>>

HandOn(name, f) ==
  handed' = {h \in handed : h.as # name}
              \cup {[as |-> name, file |-> f, text |-> staged[f], secret |-> sealed]}

\* What an apply looks at itself, in the file it reads for the third time: the project's
\* controller gets one native document, or whatever its own parser takes.
Applicable(f) ==
  /\ staged[f] # NoText
  /\ op.to = "workerbee" /\ op.kinds[f] = "native" =>
       Len(staged[f]) = 1 /\ "native" \in {d.api : d \in Docs(staged[f])}

\* deploy_manifest and deploy_k8s_manifest, deploy_remote_manifest and
\* deploy_remote_k8s_manifest: in the order of the names.
ApplyFile ==
  /\ op.at = "apply" /\ op.todo # {}
  /\ LET f == Min(op.todo) IN
     /\ Applicable(f)
     /\ HandOn(f, f)
     /\ op' = [op EXCEPT !.todo = @ \ {f}]
  /\ UNCHANGED <<staged, sealed, edits>>

\* What an earlier export left is gone; only the k1s format insists on native manifests.
ClearExport ==
  /\ op.at = "clear"
  /\ IF op.to = "k1s" /\ \E f \in DOMAIN op.kinds : op.kinds[f] # "native"
       THEN Leave ELSE Proceed("export")
  /\ UNCHANGED <<staged, sealed, handed, edits>>

\* _export_k1s_native copies the secrets, too; _export_k8s and _export_helm convert.  Two
\* manifests may get the same name there.
ExportFile ==
  /\ op.at = "export" /\ op.todo # {}
  /\ LET f == Min(op.todo) IN
     /\ staged[f] # NoText
     /\ HandOn(IF op.to = "k1s" THEN f ELSE Stem[f], f)
     /\ op' = [op EXCEPT !.todo = @ \ {f}]
  /\ UNCHANGED <<staged, sealed, edits>>

Succeed ==
  /\ op.at \in {"apply", "export"} /\ op.todo = {} /\ Proceed("reported")
  /\ UNCHANGED <<staged, sealed, handed, edits>>

EndReport ==
  /\ op.at = "reported" /\ Leave
  /\ UNCHANGED <<staged, sealed, handed, edits>>

\* Any step may raise, and the daemon may die: what has been done stays.
OperationFails ==
  /\ op.at \notin {"idle", "reported"} /\ Leave
  /\ UNCHANGED <<staged, sealed, handed, edits>>

StagesNext ==
  \/ BeginPrepare \/ PrepareFile \/ EditManifest \/ EditSecret
  \/ \E to \in Target \cup Format, allow \in BOOLEAN : Begin(to, allow)
  \/ Validate \/ CheckPolicy \/ Connect \/ ApplyFile \/ ClearExport \/ ExportFile
  \/ Succeed \/ EndReport \/ OperationFails

StagesSpec == StagesInit /\ [][StagesNext]_stagesVars

-----------------------------------------------------------------------------
(* What it promises. *)

\* Unless someone edits the stage or the secret while the operation runs, nothing is handed
\* on that does not fit, and nothing with a secretRef to a remote controller that was not
\* allowed to have it, however far the operation came; and one that succeeds has handed on
\* every manifest of the stage as it is, in an export under its own name or that of another
\* of the same stem (enforce_stage_secret_policy, deploy_remote_k1s_stage, export_bundle).
HandedOnAsValidated ==
  op.at # "idle" /\ ~op.edited =>
    /\ \A h \in handed :
         /\ Fits(h.text, h.secret, PlaintextAllowed)
         /\ op.to = "remote" /\ HasRefs(h.text) => op.allow
    /\ op.at = "reported" =>
         \A f \in Present : \E h \in handed :
           /\ h.text = staged[h.file]
           /\ h.file = f \/ (op.to \in {"k8s", "helm"} /\ Stem[h.file] = Stem[f])
=============================================================================
