--------------------------- MODULE MCTemplateForm ----------------------------
(***************************************************************************)
(* Instances of TemplateForm for TLC.                                      *)
(***************************************************************************)
EXTENDS TemplateForm

(* Kinds that differ from one another: the forms of daemonsets and secrets *)
(* convert as those of statefulsets and configMaps do.                     *)
DistinctKinds == FormKinds \ {"daemonset", "secret"}
===============================================================================
