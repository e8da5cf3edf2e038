----------------------------- MODULE AdminKinds -----------------------------
(***************************************************************************)
(* What distinguishes the pages of the administration, and those of the    *)
(* portal for members, webhooks, API keys and apps, for each kind of row:  *)
(* the list with its confirmations, what its rows offer, the trash, the    *)
(* dialog that creates and edits, and the REST client.  Each is a copy of  *)
(* one component or service, edited by hand; autoscale and autoscaletpl    *)
(* inherit shared/base/admin-resource instead.  A record below says what   *)
(* the handlers of one copy do; AdminPage says what the copies have in     *)
(* common.                                                                 *)
(***************************************************************************)

Modes == {"new", "edit"}

(***************************************************************************)
(* The list.                                                               *)
(*   asks   the target of its confirmation messages                        *)
(*   hears  the target of the acknowledgements it acts upon                *)
(*   drops  ngOnDestroy ends the subscription                              *)
(***************************************************************************)
Page(asks, hears, drops) == [asks |-> asks, hears |-> hears, drops |-> drops]

DeploymentPage               == Page("DEPLOYMENT", "DEPLOYMENT", TRUE)
StatefulsetPage              == Page("STATEFULSET", "STATEFULSET", TRUE)
DaemonsetPage                == Page("DAEMONSET", "DAEMONSET", TRUE)
CronjobPage                  == Page("CRONJOB", "CRONJOB", TRUE)
IngressPage                  == Page("INGRESS", "INGRESS", TRUE)
ConfigmapPage                == Page("CONFIGMAP", "CONFIGMAP", TRUE)
SecretPage                   == Page("SECRET", "SECRET", TRUE)
PersistentvolumeclaimPage    == Page("PERSISTENT_VOLUME_CLAIM", "PERSISTENT_VOLUME_CLAIM", TRUE)
AppPage                      == Page("APP", "APP", TRUE)
ClusterPage                  == Page("CLUSTER", "CLUSTER", TRUE)
NamespacePage                == Page("NAMESPACE", "NAMESPACE", TRUE)
ServicePage                  == Page("SERVICE", "SERVICE", TRUE)
AutoscalePage                == Page("AUTOSCALE", "AUTOSCALE", TRUE)
DeploymentTplPage            == Page("DEPLOYMENT_TPL", "DEPLOYMENT_TPL", TRUE)
StatefulsetTplPage           == Page("STATEFULSET_TPL", "STATEFULSET_TPL", TRUE)
DaemonsetTplPage             == Page("DAEMONSET_TPL", "DAEMONSET_TPL", TRUE)
CronjobTplPage               == Page("CRONJOB_TPL", "CRONJOB_TPL", TRUE)
IngressTplPage               == Page("INGRESS_TPL", "SERVICE_TPL", TRUE)
ConfigmapTplPage             == Page("CONFIGMAP_TPL", "CONFIGMAP_TPL", TRUE)
SecretTplPage                == Page("SECRET_TPL", "SECRET_TPL", TRUE)
PersistentvolumeclaimTplPage == Page("PERSISTENT_VOLUME_CLAIM_TPL", "PERSISTENT_VOLUME_CLAIM_TPL", TRUE)
ServiceTplPage               == Page("SERVICE_TPL", "SERVICE_TPL", TRUE)
AutoscaleTplPage             == Page("AUTOSCALE_TPL", "AUTOSCALE_TPL", TRUE)
ConfigPage                   == Page("CONFIG", "CONFIG", TRUE)
ApiKeyPage                   == Page("API_KEY", "API_KEY", TRUE)
UserPage                     == Page("USER", "USER", TRUE)
GroupPage                    == Page("GROUP", "GROUP", TRUE)
PermissionPage               == Page("PERMISSION", "PERMISSION", TRUE)
CustomLinkPage               == Page("CONFIG", "CONFIG", TRUE)
RoadmapPage                  == Page("CONFIG", "CONFIG", TRUE)
AppUserPage                  == Page("APP_USER", "APP_USER", TRUE)
NamespaceUserPage            == Page("NAMESPACE_USER", "NAMESPACE_USER", TRUE)
AppWebHookPage               == Page("WEBHOOK", "WEBHOOK", TRUE)
NamespaceWebHookPage         == Page("WEBHOOK", "WEBHOOK", TRUE)
AppApiKeyPage                == Page("API_KEY", "API_KEY", TRUE)
NamespaceApiKeyPage          == Page("API_KEY", "API_KEY", TRUE)
PortalAppPage                == Page("APP", "APP", TRUE)

(***************************************************************************)
(* The trash, which asks and hears with one target.  Its deletions are     *)
(* permanent.                                                              *)
(***************************************************************************)
Trash(target, drops) == [asks |-> target, hears |-> target, drops |-> drops]

DeploymentTrash               == Trash("TRASH_DEPLOYMENT", TRUE)
StatefulsetTrash              == Trash("TRASH_STATEFULSET", TRUE)
DaemonsetTrash                == Trash("TRASH_DAEMONSET_TPL", TRUE)
CronjobTrash                  == Trash("TRASH_CRONJOB", TRUE)
IngressTrash                  == Trash("TRASH_INGRESS", TRUE)
ConfigmapTrash                == Trash("TRASH_CONFIGMAP", TRUE)
SecretTrash                   == Trash("TRASH_SECRET", TRUE)
PersistentvolumeclaimTrash    == Trash("TRASH_PERSISTENT_VOLUME_CLAIM", TRUE)
AppTrash                      == Trash("TRASH_APP", TRUE)
ClusterTrash                  == Trash("TRASH_CLUSTER", TRUE)
NamespaceTrash                == Trash("TRASH_NAMESPACE", TRUE)
ServiceTrash                  == Trash("TRASH_SERVICE", TRUE)
AutoscaleTrash                == Trash("AUTOSCALE", TRUE)
DeploymentTplTrash            == Trash("TRASH_DEPLOYMENT_TPL", TRUE)
StatefulsetTplTrash           == Trash("TRASH_STATEFULSET_TPL", TRUE)
DaemonsetTplTrash             == Trash("TRASH_DAEMONSET_TPL", TRUE)
CronjobTplTrash               == Trash("TRASH_CRONJOB_TPL", TRUE)
IngressTplTrash               == Trash("TRASH_INGRESS_TPL", TRUE)
ConfigmapTplTrash             == Trash("TRASH_CONFIGMAP_TPL", TRUE)
SecretTplTrash                == Trash("TRASH_SECRET_TPL", TRUE)
PersistentvolumeclaimTplTrash == Trash("TRASH_PERSISTENT_VOLUME_CLAIM_TPL", TRUE)
ServiceTplTrash               == Trash("TRASH_SERVICE_TPL", TRUE)
AutoscaleTplTrash             == Trash("AUTOSCALE_TPL", TRUE)

(***************************************************************************)
(* The rows of the list.                                                   *)
(*   edits  a row can be opened in the dialog                              *)
(*   flips  a row can be changed at once, and the list is asked for again  *)
(*          ("retrieves"), or not ("silent"); or not ("never")             *)
(***************************************************************************)
Rows(edits, flips) == [edits |-> edits, flips |-> flips]

DeploymentRows               == Rows(TRUE, "never")
StatefulsetRows              == Rows(TRUE, "never")
DaemonsetRows                == Rows(TRUE, "never")
CronjobRows                  == Rows(TRUE, "never")
IngressRows                  == Rows(TRUE, "never")
ConfigmapRows                == Rows(TRUE, "never")
SecretRows                   == Rows(TRUE, "never")
PersistentvolumeclaimRows    == Rows(TRUE, "never")
AppRows                      == Rows(TRUE, "never")
ClusterRows                  == Rows(TRUE, "never")
NamespaceRows                == Rows(TRUE, "never")
ServiceRows                  == Rows(TRUE, "never")
AutoscaleRows                == Rows(TRUE, "never")
DeploymentTplRows            == Rows(TRUE, "never")
StatefulsetTplRows           == Rows(TRUE, "never")
DaemonsetTplRows             == Rows(TRUE, "never")
CronjobTplRows               == Rows(TRUE, "never")
IngressTplRows               == Rows(TRUE, "never")
ConfigmapTplRows             == Rows(TRUE, "never")
SecretTplRows                == Rows(TRUE, "never")
PersistentvolumeclaimTplRows == Rows(TRUE, "never")
ServiceTplRows               == Rows(TRUE, "never")
AutoscaleTplRows             == Rows(TRUE, "never")
ConfigRows                   == Rows(TRUE, "never")
ApiKeyRows                   == Rows(TRUE, "never")
UserRows                     == Rows(TRUE, "retrieves")
GroupRows                    == Rows(TRUE, "never")
PermissionRows               == Rows(TRUE, "never")
CustomLinkRows               == Rows(TRUE, "retrieves")
RoadmapRows                  == Rows(TRUE, "never")
AppUserRows                  == Rows(TRUE, "never")
NamespaceUserRows            == Rows(TRUE, "never")
AppWebHookRows               == Rows(TRUE, "silent")
NamespaceWebHookRows         == Rows(TRUE, "silent")
AppApiKeyRows                == Rows(FALSE, "never")
NamespaceApiKeyRows          == Rows(FALSE, "never")
PortalAppRows                == Rows(TRUE, "retrieves")

(***************************************************************************)
(* The dialog.                                                             *)
(*   names    the modes in which onSubmit looks for a name in a list that  *)
(*            was asked for when the page was opened, and throws if it     *)
(*            never came                                                   *)
(*   invalid  what the user can enter that is none: it is sent as it is;   *)
(*            or refused with the dialog released; or it makes onSubmit    *)
(*            throw; or it is the name of nobody, in a new row, and        *)
(*            onSubmit returns without releasing the dialog                *)
(*   fresh    a new row starts from an empty resource                      *)
(*   waits    the dialog for a row opens when the row has been read        *)
(*   byId     the resource's id says whether to create or to update, not   *)
(*            the way in which the dialog was opened                       *)
(***************************************************************************)
Dialog(names, invalid) ==
  [names |-> names, invalid |-> invalid, fresh |-> TRUE, waits |-> FALSE, byId |-> FALSE]
Member == [Dialog({"new"}, "unknown") EXCEPT !.fresh = FALSE]
Hook == [Dialog({}, "refused") EXCEPT !.waits = TRUE, !.byId = TRUE]

DeploymentDialog               == Dialog({}, "sent")
StatefulsetDialog              == Dialog({}, "sent")
DaemonsetDialog                == Dialog({}, "sent")
CronjobDialog                  == Dialog({}, "sent")
IngressDialog                  == Dialog({}, "sent")
ConfigmapDialog                == Dialog({}, "sent")
SecretDialog                   == Dialog({}, "sent")
PersistentvolumeclaimDialog    == Dialog({}, "sent")
AppDialog                      == Dialog({}, "sent")
ClusterDialog                  == Dialog({}, "refused")
NamespaceDialog                == Dialog({}, "throws")
ServiceDialog                  == Dialog({}, "sent")
AutoscaleDialog                == Dialog({}, "sent")
DeploymentTplDialog            == Dialog(Modes, "refused")
StatefulsetTplDialog           == Dialog(Modes, "refused")
DaemonsetTplDialog             == Dialog(Modes, "refused")
CronjobTplDialog               == Dialog(Modes, "refused")
IngressTplDialog               == Dialog(Modes, "refused")
ConfigmapTplDialog             == Dialog(Modes, "refused")
SecretTplDialog                == Dialog(Modes, "refused")
PersistentvolumeclaimTplDialog == Dialog(Modes, "refused")
ServiceTplDialog               == Dialog(Modes, "refused")
AutoscaleTplDialog             == Dialog(Modes, "refused")
ConfigDialog                   == Dialog({}, "sent")
ApiKeyDialog                   == Dialog({}, "sent")
UserDialog                     == Dialog({}, "sent")
GroupDialog                    == Dialog({}, "sent")
PermissionDialog               == Dialog({}, "sent")
CustomLinkDialog               == Dialog({}, "sent")
RoadmapDialog                  == Dialog({}, "sent")
AppUserDialog                  == Member
NamespaceUserDialog            == Member
AppWebHookDialog               == Hook
NamespaceWebHookDialog         == Hook
AppApiKeyDialog                == Dialog({}, "sent")
NamespaceApiKeyDialog          == Dialog({}, "sent")
PortalAppDialog                == Dialog({}, "sent")

Pages ==
  [deployment |-> DeploymentPage,
   statefulset |-> StatefulsetPage,
   daemonset |-> DaemonsetPage,
   cronjob |-> CronjobPage,
   ingress |-> IngressPage,
   configmap |-> ConfigmapPage,
   secret |-> SecretPage,
   persistentvolumeclaim |-> PersistentvolumeclaimPage,
   app |-> AppPage,
   cluster |-> ClusterPage,
   namespace |-> NamespacePage,
   service |-> ServicePage,
   autoscale |-> AutoscalePage,
   deploymenttpl |-> DeploymentTplPage,
   statefulsettpl |-> StatefulsetTplPage,
   daemonsettpl |-> DaemonsetTplPage,
   cronjobtpl |-> CronjobTplPage,
   ingresstpl |-> IngressTplPage,
   configmaptpl |-> ConfigmapTplPage,
   secrettpl |-> SecretTplPage,
   persistentvolumeclaimtpl |-> PersistentvolumeclaimTplPage,
   servicetpl |-> ServiceTplPage,
   autoscaletpl |-> AutoscaleTplPage,
   config |-> ConfigPage,
   apikey |-> ApiKeyPage,
   user |-> UserPage,
   group |-> GroupPage,
   permission |-> PermissionPage,
   customlink |-> CustomLinkPage,
   roadmap |-> RoadmapPage,
   appuser |-> AppUserPage,
   namespaceuser |-> NamespaceUserPage,
   appwebhook |-> AppWebHookPage,
   namespacewebhook |-> NamespaceWebHookPage,
   appapikey |-> AppApiKeyPage,
   namespaceapikey |-> NamespaceApiKeyPage,
   portalapp |-> PortalAppPage]

RowsOf ==
  [deployment |-> DeploymentRows,
   statefulset |-> StatefulsetRows,
   daemonset |-> DaemonsetRows,
   cronjob |-> CronjobRows,
   ingress |-> IngressRows,
   configmap |-> ConfigmapRows,
   secret |-> SecretRows,
   persistentvolumeclaim |-> PersistentvolumeclaimRows,
   app |-> AppRows,
   cluster |-> ClusterRows,
   namespace |-> NamespaceRows,
   service |-> ServiceRows,
   autoscale |-> AutoscaleRows,
   deploymenttpl |-> DeploymentTplRows,
   statefulsettpl |-> StatefulsetTplRows,
   daemonsettpl |-> DaemonsetTplRows,
   cronjobtpl |-> CronjobTplRows,
   ingresstpl |-> IngressTplRows,
   configmaptpl |-> ConfigmapTplRows,
   secrettpl |-> SecretTplRows,
   persistentvolumeclaimtpl |-> PersistentvolumeclaimTplRows,
   servicetpl |-> ServiceTplRows,
   autoscaletpl |-> AutoscaleTplRows,
   config |-> ConfigRows,
   apikey |-> ApiKeyRows,
   user |-> UserRows,
   group |-> GroupRows,
   permission |-> PermissionRows,
   customlink |-> CustomLinkRows,
   roadmap |-> RoadmapRows,
   appuser |-> AppUserRows,
   namespaceuser |-> NamespaceUserRows,
   appwebhook |-> AppWebHookRows,
   namespacewebhook |-> NamespaceWebHookRows,
   appapikey |-> AppApiKeyRows,
   namespaceapikey |-> NamespaceApiKeyRows,
   portalapp |-> PortalAppRows]

Trashes ==
  [deployment |-> DeploymentTrash,
   statefulset |-> StatefulsetTrash,
   daemonset |-> DaemonsetTrash,
   cronjob |-> CronjobTrash,
   ingress |-> IngressTrash,
   configmap |-> ConfigmapTrash,
   secret |-> SecretTrash,
   persistentvolumeclaim |-> PersistentvolumeclaimTrash,
   app |-> AppTrash,
   cluster |-> ClusterTrash,
   namespace |-> NamespaceTrash,
   service |-> ServiceTrash,
   autoscale |-> AutoscaleTrash,
   deploymenttpl |-> DeploymentTplTrash,
   statefulsettpl |-> StatefulsetTplTrash,
   daemonsettpl |-> DaemonsetTplTrash,
   cronjobtpl |-> CronjobTplTrash,
   ingresstpl |-> IngressTplTrash,
   configmaptpl |-> ConfigmapTplTrash,
   secrettpl |-> SecretTplTrash,
   persistentvolumeclaimtpl |-> PersistentvolumeclaimTplTrash,
   servicetpl |-> ServiceTplTrash,
   autoscaletpl |-> AutoscaleTplTrash]

Dialogs ==
  [deployment |-> DeploymentDialog,
   statefulset |-> StatefulsetDialog,
   daemonset |-> DaemonsetDialog,
   cronjob |-> CronjobDialog,
   ingress |-> IngressDialog,
   configmap |-> ConfigmapDialog,
   secret |-> SecretDialog,
   persistentvolumeclaim |-> PersistentvolumeclaimDialog,
   app |-> AppDialog,
   cluster |-> ClusterDialog,
   namespace |-> NamespaceDialog,
   service |-> ServiceDialog,
   autoscale |-> AutoscaleDialog,
   deploymenttpl |-> DeploymentTplDialog,
   statefulsettpl |-> StatefulsetTplDialog,
   daemonsettpl |-> DaemonsetTplDialog,
   cronjobtpl |-> CronjobTplDialog,
   ingresstpl |-> IngressTplDialog,
   configmaptpl |-> ConfigmapTplDialog,
   secrettpl |-> SecretTplDialog,
   persistentvolumeclaimtpl |-> PersistentvolumeclaimTplDialog,
   servicetpl |-> ServiceTplDialog,
   autoscaletpl |-> AutoscaleTplDialog,
   config |-> ConfigDialog,
   apikey |-> ApiKeyDialog,
   user |-> UserDialog,
   group |-> GroupDialog,
   permission |-> PermissionDialog,
   customlink |-> CustomLinkDialog,
   roadmap |-> RoadmapDialog,
   appuser |-> AppUserDialog,
   namespaceuser |-> NamespaceUserDialog,
   appwebhook |-> AppWebHookDialog,
   namespacewebhook |-> NamespaceWebHookDialog,
   appapikey |-> AppApiKeyDialog,
   namespaceapikey |-> NamespaceApiKeyDialog,
   portalapp |-> PortalAppDialog]

(***************************************************************************)
(* The REST client, and the controller that answers it.                    *)
(*   lists    the rows of a list: those that the page asks for (deleted is *)
(*            sent), the live ones, or all                                 *)
(*   deletes  a deletion is what the page asks for (logical is sent if the *)
(*            page names it, and true at the server if it does not), or    *)
(*            always logical, or always permanent                          *)
(*   upserts  a row stands for all the groups of one user, of whom a       *)
(*            creation and an update add the missing ones (ReadOrCreate),  *)
(*            whatever is there                                            *)
(***************************************************************************)
Client(lists, deletes) == [lists |-> lists, deletes |-> deletes, upserts |-> FALSE]
Memberships == [Client("all", "permanent") EXCEPT !.upserts = TRUE]

DeploymentClient               == Client("asked", "asked")
StatefulsetClient              == Client("asked", "asked")
DaemonsetClient                == Client("asked", "asked")
CronjobClient                  == Client("asked", "asked")
IngressClient                  == Client("asked", "asked")
ConfigmapClient                == Client("asked", "asked")
SecretClient                   == Client("asked", "asked")
PersistentvolumeclaimClient    == Client("asked", "asked")
AppClient                      == Client("asked", "asked")
ClusterClient                  == Client("asked", "asked")
NamespaceClient                == Client("asked", "asked")
ServiceClient                  == Client("asked", "asked")
AutoscaleClient                == Client("asked", "asked")
DeploymentTplClient            == Client("asked", "asked")
StatefulsetTplClient           == Client("asked", "asked")
DaemonsetTplClient             == Client("asked", "asked")
CronjobTplClient               == Client("asked", "asked")
IngressTplClient               == Client("asked", "asked")
ConfigmapTplClient             == Client("asked", "asked")
SecretTplClient                == Client("asked", "asked")
PersistentvolumeclaimTplClient == Client("asked", "asked")
ServiceTplClient               == Client("asked", "asked")
AutoscaleTplClient             == Client("asked", "asked")
ConfigClient                   == Client("all", "permanent")
ApiKeyClient                   == Client("all", "asked")
UserClient                     == Client("all", "permanent")
GroupClient                    == Client("all", "permanent")
PermissionClient               == Client("all", "permanent")
CustomLinkClient               == Client("live", "logical")
RoadmapClient                  == Client("live", "logical")
AppUserClient                  == Memberships
NamespaceUserClient            == Memberships
AppWebHookClient               == Client("all", "permanent")
NamespaceWebHookClient         == Client("all", "permanent")
AppApiKeyClient                == Client("live", "logical")
NamespaceApiKeyClient          == Client("live", "logical")
PortalAppClient                == Client("live", "logical")

Clients ==
  [deployment |-> DeploymentClient,
   statefulset |-> StatefulsetClient,
   daemonset |-> DaemonsetClient,
   cronjob |-> CronjobClient,
   ingress |-> IngressClient,
   configmap |-> ConfigmapClient,
   secret |-> SecretClient,
   persistentvolumeclaim |-> PersistentvolumeclaimClient,
   app |-> AppClient,
   cluster |-> ClusterClient,
   namespace |-> NamespaceClient,
   service |-> ServiceClient,
   autoscale |-> AutoscaleClient,
   deploymenttpl |-> DeploymentTplClient,
   statefulsettpl |-> StatefulsetTplClient,
   daemonsettpl |-> DaemonsetTplClient,
   cronjobtpl |-> CronjobTplClient,
   ingresstpl |-> IngressTplClient,
   configmaptpl |-> ConfigmapTplClient,
   secrettpl |-> SecretTplClient,
   persistentvolumeclaimtpl |-> PersistentvolumeclaimTplClient,
   servicetpl |-> ServiceTplClient,
   autoscaletpl |-> AutoscaleTplClient,
   config |-> ConfigClient,
   apikey |-> ApiKeyClient,
   user |-> UserClient,
   group |-> GroupClient,
   permission |-> PermissionClient,
   customlink |-> CustomLinkClient,
   roadmap |-> RoadmapClient,
   appuser |-> AppUserClient,
   namespaceuser |-> NamespaceUserClient,
   appwebhook |-> AppWebHookClient,
   namespacewebhook |-> NamespaceWebHookClient,
   appapikey |-> AppApiKeyClient,
   namespaceapikey |-> NamespaceApiKeyClient,
   portalapp |-> PortalAppClient]

AdminKinds == DOMAIN Pages
HasTrash(k) == k \in DOMAIN Trashes
============================================================================
