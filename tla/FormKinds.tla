----------------------------- MODULE FormKinds ------------------------------
(***************************************************************************)
(* The forms of the portal that write a template: one component per kind   *)
(* of resource, each a copy of another that was edited by hand.  A         *)
(* template is stored as the text (JSON) that is sent to Kubernetes; a     *)
(* form shows it in units and shapes of its own.  Opening converts the     *)
(* text for the form, writing converts it back.                            *)
(*                                                                         *)
(* A text is a record of facets: the parts of it that are converted.       *)
(*   command, hook  a command of a probe, of a lifecycle handler: per      *)
(*                  element, its number of lines; on the form, the lines   *)
(*                  of one text area                                       *)
(*   limit          the memory or CPU limit of a container, in Mi, with    *)
(*                  the unit it is written in, and its request             *)
(*   selector       the labels that select the pods                        *)
(*   strategy       the strategy of updates                                *)
(*   rows           the data of a configMap or secret, the labels that     *)
(*                  select a volume; on the form also what was kept of the *)
(*                  text that was opened last                              *)
(*   storage        the size of a volume claim                             *)
(*   clusters       the clusters the template is for (in its metaData)     *)
(*   api            the version of the API of an autoscaler                *)
(*   host           the host of an ingress rule                            *)
(***************************************************************************)
EXTENDS Naturals, Sequences, SequencesExt

Names == {"a", "b"}
Absent == [has |-> FALSE, rows |-> {}]
Rows(rs) == [has |-> TRUE, rows |-> rs]

(* The texts that are looked at.                                           *)
Commands == {<<>>, <<1>>, <<1, 1>>, <<2>>}
Requests == {"none", "own", "custom"}
Limits == {[mi |-> 0, unit |-> "bytes", request |-> "none"],
           [mi |-> 1024, unit |-> "Gi", request |-> "own"],
           [mi |-> 1024, unit |-> "Gi", request |-> "custom"],
           [mi |-> 512, unit |-> "Mi", request |-> "own"],
           [mi |-> 1, unit |-> "bytes", request |-> "own"]}
Texts ==
  [command  |-> Commands,
   hook     |-> Commands,
   limit    |-> Limits,
   selector |-> {"absent", "empty", "own", "other"},
   strategy |-> {"absent", "set"},
   rows     |-> {Absent} \cup {Rows(rs) : rs \in SUBSET Names},
   storage  |-> [mi : {512, 1024}, unit : {"Gi", "Mi"}],
   clusters |-> SUBSET {"here", "left"},
   api      |-> {"v1", "v2"},
   host     |-> {"absent", "blank", "set"}]

(* What the controls of a form can be set to.                              *)
Controls ==
  [command  |-> 0..2,
   hook     |-> 0..2,
   limit    |-> {0, 512},
   strategy |-> {"set"},
   rows     |-> SUBSET Names,
   storage  |-> {512, 1024},
   clusters |-> SUBSET {"here"},
   host     |-> {"blank", "set"}]

(* What a form can show.                                                   *)
Displays ==
  [command  |-> 0..2,
   hook     |-> 0..2,
   limit    |-> [mi : {0, 512, 1024}, request : Requests],
   selector |-> Texts.selector,
   strategy |-> Texts.strategy,
   rows     |-> [rows : SUBSET Names, kept : Texts.rows],
   storage  |-> [mi : {512, 1024}, unit : {"bare", "Mi", "MiGi"}],
   clusters |-> SUBSET {"here"},
   api      |-> {"v1", "v2"},
   host     |-> {"absent", "blank", "set"}]

(* The text of a plain template.                                           *)
Plain ==
  [command  |-> <<>>,
   hook     |-> <<>>,
   limit    |-> [mi |-> 1024, unit |-> "Gi", request |-> "own"],
   selector |-> "own",
   strategy |-> "set",
   rows     |-> Rows({"a"}),
   storage  |-> [mi |-> 1024, unit |-> "Gi"],
   clusters |-> {"here"},
   api      |-> "v2",
   host     |-> "set"]

(***************************************************************************)
(* The kinds.                                                              *)
(*   reads     what ngOnInit asks for, besides the template                *)
(*   arrives   what is read of a template only when that answer comes, and *)
(*             not when the text comes back from the editor                *)
(*   edits     what the controls change                                    *)
(*   opens     what save... converts for the form                          *)
(*   writes    what generate... converts for the text                      *)
(***************************************************************************)
Form(reads, arrives, edits, opens, writes) ==
  [reads |-> reads, arrives |-> arrives, edits |-> edits, opens |-> opens, writes |-> writes]

DeploymentReads  == {"app", "resource"}
DeploymentEdits  == {"command", "hook", "limit", "strategy"}
DeploymentProbes == {"command", "hook"}
DeploymentWrites == {"command", "hook", "limit", "selector"}
DeploymentOpens  == {"command", "hook", "limit", "strategy"}
Deployment == Form(DeploymentReads, {}, DeploymentEdits \cup DeploymentProbes,
                   DeploymentOpens, DeploymentWrites)

StatefulsetReads  == {"app", "resource"}
StatefulsetEdits  == {"command", "limit"}
StatefulsetWrites == {"command", "limit", "selector"}
StatefulsetOpens  == {"command", "limit", "strategy"}
Statefulset == Form(StatefulsetReads, {}, StatefulsetEdits, StatefulsetOpens, StatefulsetWrites)

DaemonsetReads  == {"app", "resource"}
DaemonsetEdits  == {"command", "limit"}
DaemonsetWrites == {"command", "limit", "selector"}
DaemonsetOpens  == {"command", "limit", "strategy"}
Daemonset == Form(DaemonsetReads, {}, DaemonsetEdits, DaemonsetOpens, DaemonsetWrites)

(* fillDefault converts a merged copy and saveCronjob keeps the original,  *)
(* but the two share the containers.                                       *)
CronjobReads  == {"app", "resource"}
CronjobEdits  == {"limit"}
CronjobWrites == {"limit"}
CronjobOpens  == {"limit"}
Cronjob == Form(CronjobReads, {}, CronjobEdits, CronjobOpens, CronjobWrites)

ConfigmapReads  == {"clusters", "app", "resource"}
ConfigmapEdits  == {"rows", "clusters"}
ConfigmapWrites == {"rows"}
ConfigmapOpens  == {"rows"}
Configmap == Form(ConfigmapReads, {"clusters"}, ConfigmapEdits, ConfigmapOpens, ConfigmapWrites)

SecretReads  == {"clusters", "app", "resource"}
SecretEdits  == {"rows", "clusters"}
SecretWrites == {"rows"}
SecretOpens  == {"rows"}
Secret == Form(SecretReads, {"clusters"}, SecretEdits, SecretOpens, SecretWrites)

ClaimReads  == {"clusters", "app", "resource"}
ClaimEdits  == {"rows", "storage", "clusters"}
ClaimWrites == {"rows", "storage"}
ClaimOpens  == {"rows", "storage"}
Claim == Form(ClaimReads, {"clusters"}, ClaimEdits, ClaimOpens, ClaimWrites)

IngressReads  == {"app", "resource", "services", "secrets"}
IngressEdits  == {"host"}
IngressWrites == {"host"}
Ingress == Form(IngressReads, {}, IngressEdits, {}, IngressWrites)

(* Neither its metrics, which the controls change, nor its labels are      *)
(* converted.                                                              *)
AutoscaleReads  == {"app", "resource", "deployments"}
AutoscaleEdits  == {}
AutoscaleWrites == {}
Autoscale == Form(AutoscaleReads, {"api"}, AutoscaleEdits, {}, AutoscaleWrites)

Forms ==
  [deployment |-> Deployment, statefulset |-> Statefulset, daemonset |-> Daemonset,
   cronjob |-> Cronjob, configmap |-> Configmap, secret |-> Secret,
   persistentvolumeclaim |-> Claim, ingress |-> Ingress, autoscale |-> Autoscale]

FormKinds == DOMAIN Forms

(* The forms with checkboxes for clusters, which work on the object that   *)
(* was opened last instead of a copy.                                      *)
ClusterForms == {k \in FormKinds : "clusters" \in Forms[k].reads}

(* configMaps and secrets keep one row, and ignore a text without data.    *)
DataForms == {"configmap", "secret"}

Facets(k) == Forms[k].arrives \cup Forms[k].edits \cup Forms[k].opens \cup Forms[k].writes

(***************************************************************************)
(* Opening.                                                                *)
(***************************************************************************)
(* The elements of a command, joined by newlines.                          *)
Joined(command) == FoldSeq(LAMBDA n, m : n + m, 0, command)

(* Mutant of MemoryGiValue: an amount in Mi is taken for one in Gi.        *)
MemoryGiValueOfMi(l) == IF l.unit = "Gi" THEN l.mi ELSE 1024 * l.mi

(* The number that is shown, which counts Gi, in Mi.  One without a unit   *)
(* (bytes) is taken for Gi.                                                *)
MemoryGiValue(l) == IF l.unit = "bytes" THEN 1024 * l.mi ELSE l.mi

(* What the form shows of the text t, for the facets that are converted.   *)
(* Of a claim's storage the unit is cut off, if it is Gi, which leaves the *)
(* number bare.                                                            *)
Shown(f, t) ==
  CASE f \in {"command", "hook"} -> Joined(t)
    [] f = "limit" -> [mi |-> MemoryGiValue(t), request |-> t.request]
    [] f = "strategy" -> "set"
    [] f = "rows" -> [rows |-> t.rows, kept |-> t]
    [] f = "storage" -> [t EXCEPT !.unit = IF t.unit = "Gi" THEN "bare" ELSE t.unit]
    [] f = "clusters" -> t \cap {"here"}
    [] f = "api" -> "v2"

(* What the control of f shows once it is set to v.                        *)
Set(f, v, old) ==
  CASE f = "limit" -> [old EXCEPT !.mi = v]
    [] f = "rows" -> [old EXCEPT !.rows = v]
    [] f = "storage" -> [mi |-> v, unit |-> "bare"]
    [] OTHER -> v

(***************************************************************************)
(* Writing.                                                                *)
(***************************************************************************)
(* Mutant of Split: what was joined stays one element.                     *)
SplitNot(lines) == IF lines = 0 THEN <<>> ELSE <<lines>>

(* Every line of the text area becomes an element.                         *)
Split(lines) == [i \in 1..lines |-> 1]

(* A limit of 0 is left alone; any other is written in Gi, with a request  *)
(* that is a percentage of it.                                             *)
AddResourceUnit(l) ==
  IF l.mi = 0 THEN [mi |-> 0, unit |-> "bytes", request |-> l.request]
  ELSE [mi |-> l.mi, unit |-> "Gi", request |-> "own"]

(* Without rows, the text keeps those it had.                              *)
RowsOf(r) == IF r.rows = {} THEN r.kept ELSE Rows(r.rows)

(* The text of what the form shows as w.                                   *)
Written(f, w) ==
  CASE f \in {"command", "hook"} -> Split(w)
    [] f = "limit" -> AddResourceUnit(w)
    [] f = "selector" -> IF w = "empty" THEN "own" ELSE w
    [] f = "rows" -> RowsOf(w)
    [] f = "storage" -> [w EXCEPT !.unit = IF w.unit = "bare" THEN "Gi" ELSE "MiGi"]
    [] f = "host" -> IF w = "blank" THEN "absent" ELSE w
===============================================================================
