---------------------------- MODULE ResourceKinds ----------------------------
(***************************************************************************)
(* What distinguishes the pages of the portal, one per kind of resource,   *)
(* and their publish dialogs.  Each page is a copy of one component, edited *)
(* by hand; ingress and autoscale inherit shared/base/resource instead.    *)
(* A record below says what one copy does.                                 *)
(***************************************************************************)
EXTENDS Integers

PageKinds == {"deployment", "statefulset", "daemonset", "cronjob", "configmap",
              "secret", "service", "ingress", "autoscale"}

(***************************************************************************)
(* The selected resource.                                                  *)
(*   early      the answer of the list retrieves before it selects         *)
(*   keeps      the selection stays when the list is empty                 *)
(*   navigates  a selection is written to the address                      *)
(*   create     after a creation: show it, or start again                  *)
(***************************************************************************)
Selection(early, keeps, navigates, create) ==
  [early |-> early, keeps |-> keeps, navigates |-> navigates, create |-> create]

DeploymentSelection  == Selection(TRUE, TRUE, TRUE, "show")
StatefulsetSelection == Selection(FALSE, TRUE, TRUE, "show")
DaemonsetSelection   == Selection(FALSE, TRUE, TRUE, "show")
CronjobSelection     == Selection(FALSE, FALSE, FALSE, "show")
ConfigmapSelection   == Selection(FALSE, FALSE, FALSE, "show")
SecretSelection      == Selection(FALSE, FALSE, FALSE, "show")
ServiceSelection     == Selection(FALSE, FALSE, FALSE, "restart")
BaseSelection        == Selection(TRUE, TRUE, TRUE, "show")

(***************************************************************************)
(* The status requests, one per entry of the template list.                *)
(*   periodic  a timer repeats them                                        *)
(*   limit     an entry with more errors than this is not asked for        *)
(*   stop      the error at which the user is told that it is not          *)
(*   clears    a success resets the count                                  *)
(***************************************************************************)
Polling(periodic, limit, stop, clears) ==
  [periodic |-> periodic, limit |-> limit, stop |-> stop, clears |-> clears]

DeploymentPolling  == Polling(TRUE, 2, 3, TRUE)
StatefulsetPolling == Polling(TRUE, 2, 3, FALSE)
DaemonsetPolling   == Polling(TRUE, 2, 3, FALSE)
CronjobPolling     == Polling(TRUE, 2, 3, FALSE)
ConfigmapPolling   == Polling(TRUE, 2, 3, FALSE)
SecretPolling      == Polling(TRUE, 2, 3, FALSE)
ServicePolling     == Polling(TRUE, 2, 3, FALSE)
BasePolling        == Polling(FALSE, 2, 3, FALSE)

(***************************************************************************)
(* The template list and the deletion.                                     *)
(*   looks  the callback that starts the polling looks whether the page    *)
(*          was left                                                       *)
(*   warns  a resource whose list shows publications is not deleted        *)
(***************************************************************************)
Listing(looks, warns) == [looks |-> looks, warns |-> warns]

(* Mutant of StatefulsetListing: it does not look.                         *)
StatefulsetListingBlind == Listing(FALSE, TRUE)

DeploymentListing  == Listing(TRUE, TRUE)
StatefulsetListing == Listing(TRUE, TRUE)
DaemonsetListing   == Listing(TRUE, TRUE)
CronjobListing     == Listing(TRUE, TRUE)
ConfigmapListing   == Listing(TRUE, TRUE)
SecretListing      == Listing(TRUE, TRUE)
ServiceListing     == Listing(TRUE, TRUE)
BaseListing        == Listing(TRUE, TRUE)

(***************************************************************************)
(* ngOnDestroy.                                                            *)
(*   stops  it clears the timer                                            *)
(*   drops  it unsubscribes from the confirmations                         *)
(***************************************************************************)
Destruction(stops, drops) == [stops |-> stops, drops |-> drops]

DeploymentDestruction  == Destruction(TRUE, TRUE)
StatefulsetDestruction == Destruction(TRUE, TRUE)
DaemonsetDestruction   == Destruction(TRUE, TRUE)
CronjobDestruction     == Destruction(TRUE, TRUE)
ConfigmapDestruction   == Destruction(TRUE, TRUE)
SecretDestruction      == Destruction(TRUE, TRUE)
ServiceDestruction     == Destruction(TRUE, TRUE)
IngressDestruction     == Destruction(TRUE, TRUE)
AutoscaleDestruction   == Destruction(FALSE, FALSE)

(***************************************************************************)
(* The publish dialog.                                                     *)
(*   joins   one forkJoin over the requests of all checked clusters, which *)
(*           refreshes the page when all have succeeded or one has failed; *)
(*           otherwise each success refreshes the page                     *)
(*   forces  the user may ask to go offline although the object stays      *)
(***************************************************************************)
Publishing(joins, forces) == [joins |-> joins, forces |-> forces]

DeploymentPublishing  == Publishing(TRUE, TRUE)
StatefulsetPublishing == Publishing(TRUE, TRUE)
DaemonsetPublishing   == Publishing(TRUE, TRUE)
CronjobPublishing     == Publishing(FALSE, TRUE)
ConfigmapPublishing   == Publishing(FALSE, TRUE)
SecretPublishing      == Publishing(FALSE, TRUE)
ServicePublishing     == Publishing(FALSE, TRUE)
BasePublishing        == Publishing(FALSE, TRUE)

Kind(selection, polling, listing, destruction, publishing) ==
  [selection |-> selection, polling |-> polling, listing |-> listing,
   destruction |-> destruction, publishing |-> publishing]

Features ==
  [k \in PageKinds |->
     CASE k = "deployment" ->
            Kind(DeploymentSelection, DeploymentPolling, DeploymentListing,
                 DeploymentDestruction, DeploymentPublishing)
       [] k = "statefulset" ->
            Kind(StatefulsetSelection, StatefulsetPolling, StatefulsetListing,
                 StatefulsetDestruction, StatefulsetPublishing)
       [] k = "daemonset" ->
            Kind(DaemonsetSelection, DaemonsetPolling, DaemonsetListing,
                 DaemonsetDestruction, DaemonsetPublishing)
       [] k = "cronjob" ->
            Kind(CronjobSelection, CronjobPolling, CronjobListing,
                 CronjobDestruction, CronjobPublishing)
       [] k = "configmap" ->
            Kind(ConfigmapSelection, ConfigmapPolling, ConfigmapListing,
                 ConfigmapDestruction, ConfigmapPublishing)
       [] k = "secret" ->
            Kind(SecretSelection, SecretPolling, SecretListing,
                 SecretDestruction, SecretPublishing)
       [] k = "service" ->
            Kind(ServiceSelection, ServicePolling, ServiceListing,
                 ServiceDestruction, ServicePublishing)
       [] k = "ingress" ->
            Kind(BaseSelection, BasePolling, BaseListing,
                 IngressDestruction, BasePublishing)
       [] k = "autoscale" ->
            Kind(BaseSelection, BasePolling, BaseListing,
                 AutoscaleDestruction, BasePublishing)]
==============================================================================
