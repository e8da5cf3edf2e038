------------------------------ MODULE KubeKinds ------------------------------
(***************************************************************************)
(* What distinguishes the pages on which an administrator works on the     *)
(* objects in the clusters, for each kind of object: the page, the rows of *)
(* its list, and the migration of an object into the database.  All but    *)
(* nodes and persistent volumes inherit their handlers from                *)
(* shared/base/kubernetes-namespaced.                                      *)
(***************************************************************************)

(***************************************************************************)
(* The page.                                                               *)
(*   scoped  its list is that of a Kubernetes namespace, or of all; where  *)
(*           it is, a switch of the cluster asks for the namespaces first  *)
(*   saves   blind: the text as it is, without resourceVersion             *)
(*           merge: the object is read again, and the text's spec, labels  *)
(*                  and annotations are put into it                        *)
(*           form:  the object as it was read, in the cluster where it was *)
(*   cached  the calls that the server answers from its cache of the       *)
(*           cluster, not from the API server                              *)
(*   spec    what is edited lies in the spec                               *)
(***************************************************************************)
Namespaced ==
  [scoped |-> TRUE, saves |-> "blind", cached |-> {"get", "list"}, spec |-> TRUE]
Unnamespaced ==
  [scoped |-> FALSE, saves |-> "merge", cached |-> {"get", "list"}, spec |-> TRUE]

ClusterrolePage        == [Unnamespaced EXCEPT !.spec = FALSE]
ClusterrolebindingPage == [Unnamespaced EXCEPT !.spec = FALSE]
ConfigmapPage          == Namespaced
CrdPage                == [Unnamespaced EXCEPT !.cached = {}]
CronjobPage            == Namespaced
DaemonsetPage          == Namespaced
DeploymentPage         == Namespaced
EndpointPage           == Namespaced
HpaPage                == Namespaced
IngressPage            == Namespaced
JobPage                == Namespaced
NamespacePage          == Unnamespaced
PodPage                == Namespaced
PvcPage                == Namespaced
ReplicasetPage         == Namespaced
RolePage               == Namespaced
RolebindingPage        == Namespaced
SecretPage             == Namespaced
ServicePage            == Namespaced
ServiceaccountPage     == Namespaced
StatefulsetPage        == Namespaced
StorageclassPage       == [Unnamespaced EXCEPT !.spec = FALSE]
NodePage               == [Unnamespaced EXCEPT !.cached = {"list"}]
PersistentvolumePage   ==
  [scoped |-> FALSE, saves |-> "form", cached |-> {}, spec |-> TRUE]

(***************************************************************************)
(* What a row offers.  Only pods can be deleted without a grace period.    *)
(***************************************************************************)
ClusterroleRows        == {"edit", "delete"}
ClusterrolebindingRows == {"edit", "delete"}
ConfigmapRows          == {"edit", "delete", "migrate"}
CrdRows                == {"edit", "delete"}
CronjobRows            == {"edit", "delete", "migrate"}
DaemonsetRows          == {"edit", "delete", "migrate"}
DeploymentRows         == {"edit", "delete", "migrate"}
EndpointRows           == {"edit", "delete"}
HpaRows                == {"edit", "delete", "migrate"}
IngressRows            == {"edit", "delete", "migrate"}
JobRows                == {"edit", "delete"}
NamespaceRows          == {"edit", "delete"}
PodRows                == {"edit", "delete", "force"}
PvcRows                == {"edit", "delete", "migrate"}
ReplicasetRows         == {"edit", "delete"}
RoleRows               == {"edit", "delete"}
RolebindingRows        == {"edit", "delete"}
SecretRows             == {"edit", "delete", "migrate"}
ServiceRows            == {"edit", "delete", "migrate"}
ServiceaccountRows     == {"edit", "delete"}
StatefulsetRows        == {"edit", "delete", "migrate"}
StorageclassRows       == {"edit", "delete"}
NodeRows               == {"edit", "delete"}
PersistentvolumeRows   == {"edit", "delete"}

(***************************************************************************)
(* The migration: the table in which the resource is created, and the one  *)
(* in which the template looks for its owner.                              *)
(***************************************************************************)
Migration(creates, owner) == [creates |-> creates, owner |-> owner]

ConfigmapMigration          == Migration("configmap", "configmap")
CronjobMigration            == Migration("cronjob", "cronjob")
DaemonsetMigration          == Migration("daemonset", "daemonset")
DeploymentMigration         == Migration("deployment", "deployment")
HpaMigration                == Migration("autoscale", "autoscale")
IngressMigration            == Migration("ingress", "ingress")
PvcMigration                == Migration("persistentvolumeclaim", "persistentvolumeclaim")
SecretMigration             == Migration("secret", "secret")
ServiceMigration            == Migration("service", "service")
StatefulsetMigration        == Migration("statefulset", "statefulset")

Pages ==
  [clusterrole |-> ClusterrolePage,
   clusterrolebinding |-> ClusterrolebindingPage,
   configmap |-> ConfigmapPage, crd |-> CrdPage, cronjob |-> CronjobPage,
   daemonset |-> DaemonsetPage, deployment |-> DeploymentPage,
   endpoint |-> EndpointPage, hpa |-> HpaPage, ingress |-> IngressPage,
   job |-> JobPage, namespace |-> NamespacePage, pod |-> PodPage,
   pvc |-> PvcPage, replicaset |-> ReplicasetPage, role |-> RolePage,
   rolebinding |-> RolebindingPage, secret |-> SecretPage,
   service |-> ServicePage, serviceaccount |-> ServiceaccountPage,
   statefulset |-> StatefulsetPage, storageclass |-> StorageclassPage,
   node |-> NodePage, persistentvolume |-> PersistentvolumePage]

Rows ==
  [clusterrole |-> ClusterroleRows,
   clusterrolebinding |-> ClusterrolebindingRows,
   configmap |-> ConfigmapRows, crd |-> CrdRows, cronjob |-> CronjobRows,
   daemonset |-> DaemonsetRows, deployment |-> DeploymentRows,
   endpoint |-> EndpointRows, hpa |-> HpaRows, ingress |-> IngressRows,
   job |-> JobRows, namespace |-> NamespaceRows, pod |-> PodRows,
   pvc |-> PvcRows, replicaset |-> ReplicasetRows, role |-> RoleRows,
   rolebinding |-> RolebindingRows, secret |-> SecretRows,
   service |-> ServiceRows, serviceaccount |-> ServiceaccountRows,
   statefulset |-> StatefulsetRows, storageclass |-> StorageclassRows,
   node |-> NodeRows, persistentvolume |-> PersistentvolumeRows]

Migrations ==
  [configmap |-> ConfigmapMigration, cronjob |-> CronjobMigration,
   daemonset |-> DaemonsetMigration, deployment |-> DeploymentMigration,
   hpa |-> HpaMigration, ingress |-> IngressMigration, pvc |-> PvcMigration,
   secret |-> SecretMigration, service |-> ServiceMigration,
   statefulset |-> StatefulsetMigration]

KubeKinds == DOMAIN Pages
===============================================================================
