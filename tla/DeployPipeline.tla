--------------------------- MODULE DeployPipeline ---------------------------
(***************************************************************************)
(* Publishing one deployment to the clusters: the requests that change the *)
(* Deployment object of a cluster, its publish_status rows, its replica    *)
(* counts in the metadata of the deployment row, and publish_history.      *)
(*                                                                         *)
(*   deploy   KubeDeploymentController.Create, one request per cluster:    *)
(*            the UI sends those of all checked clusters at once           *)
(*   upgrade  OpenAPI UpgradeDeployment with template_id, one cluster      *)
(*   restart  OpenAPI RestartDeployment                                    *)
(*   scale    OpenAPI ScaleDeployment                                      *)
(*   offline  the UI's offline(): deletes the object, then the status row  *)
(*   modify   KubeDeploymentController.UpdateScale: the object only        *)
(*                                                                         *)
(* No transaction spans the cluster and the database, and nothing compares *)
(* them afterwards.  The API server accepts an update of an object only if *)
(* it carries the object's current resourceVersion.                        *)
(***************************************************************************)
EXTENDS Integers, FiniteSets

CONSTANTS Procs, Clusters, Tpls, MaxConns, Faults, Serial, MaxId, None,
          Replicas,     \* the replica counts that requests ask for
          Offered,      \* the kinds of request that clients send
          MaxRequests,  \* bound: the requests ever started
          Running       \* the clusters that may run a template at the start

Kinds == {"deploy", "upgrade", "restart", "scale", "offline", "modify"}

ASSUME RequestsAssumption ==
  MaxRequests \in Nat /\ Replicas \subseteq Nat /\ Running \subseteq Clusters

(* What PublishStatus assumes of its constants.                            *)
ASSUME StatusAssumption ==
  /\ MaxConns \in Nat /\ MaxId \in Nat
  /\ Serial \in BOOLEAN
  /\ None \notin Clusters \cup Tpls \cup Kinds

VARIABLES rows, lastId, tx, reply, leaked, orphanLocks,  \* publish_status
          kube,      \* per cluster: the Deployment object
          meta,      \* MetaData.replicas of the deployment row
          history,   \* the publish_history rows, without their dates and users
          req,       \* per goroutine: the request it serves
          started,   \* requests started so far
          applied,   \* history variable: the templates each cluster ever ran
          unsettled  \* history variable: clusters whose object changed template,
                     \* or came or went, and whose status call has not succeeded

status == <<rows, lastId, tx, reply, leaked, orphanLocks>>
vars == <<status, kube, meta, history, req, started, applied, unsettled>>

PS == INSTANCE PublishStatus

Object == [tpl : Tpls \cup {None}, reps : Nat, rv : Nat]
Outcome == {"ok", "fail"}
ReqPCs == {"idle", "row", "quota", "oget", "online", "kget", "kcreate", "kput",
           "kdelete", "status", "called", "meta", "record"}

(* row: the replica counts as read; obj: the object to write; id: the row  *)
(* the UI wants removed; hist: publishHistory.Status; force: forceOffline. *)
Request == [pc : ReqPCs, kind : Kinds \cup {None}, cluster : Clusters \cup {None},
            tpl : Tpls \cup {None}, reps : Nat, id : Nat, force : BOOLEAN,
            row : [Clusters -> Nat], obj : Object, hist : Outcome]

NoRequest == [pc |-> "idle", kind |-> None, cluster |-> None, tpl |-> None, reps |-> 0,
              id |-> 0, force |-> FALSE, row |-> [c \in Clusters |-> 0],
              obj |-> [tpl |-> None, reps |-> 0, rv |-> 0], hist |-> "fail"]

InFlight(p) == req[p].pc # "idle"

(* rv 0: the cluster has no such object.  It grows with every write.       *)
Live(c) == kube[c].tpl # None

Goto(p, pc) == req' = [req EXCEPT ![p].pc = pc]
Finish(p) == req' = [req EXCEPT ![p] = NoRequest]

(* A failed request still adds its history once the deferred Add is set.   *)
FailTo(p, pc) == req' = [req EXCEPT ![p] = [@ EXCEPT !.pc = pc, !.hist = "fail"]]

First(kind) == CASE kind \in {"deploy", "upgrade", "scale"} -> "row"
                 [] kind \in {"restart", "modify"} -> "oget"

Start(p, kind, c, t, n) ==
  /\ ~InFlight(p)
  /\ kind \in Offered
  /\ started < MaxRequests
  /\ Serial => \A q \in Procs : req[q].cluster # c
  /\ started' = started + 1
  /\ req' = [req EXCEPT ![p] = [NoRequest EXCEPT !.pc = First(kind), !.kind = kind,
                !.cluster = c, !.tpl = t, !.reps = n]]
  /\ UNCHANGED <<status, kube, meta, history, applied, unsettled>>

(* The UI names a status row of the cluster as it last listed them: one    *)
(* that may be gone, never one of another cluster.                         *)
StartOffline(p, c, id, force) ==
  /\ ~InFlight(p)
  /\ "offline" \in Offered
  /\ started < MaxRequests
  /\ Serial => \A q \in Procs : req[q].cluster # c
  /\ \A r \in rows \cup UNION {tx[q].new : q \in Procs} : r.id = id => r.cluster = c
  /\ started' = started + 1
  /\ req' = [req EXCEPT ![p] = [NoRequest EXCEPT !.pc = "kdelete", !.kind = "offline",
                !.cluster = c, !.id = id, !.force = force]]
  /\ UNCHANGED <<status, kube, meta, history, applied, unsettled>>

(* The deployment row: upgrade takes its replica count from it.            *)
ReadRow(p) ==
  /\ req[p].pc = "row"
  /\ \/ "row" \in Faults /\ Finish(p)
     \/ req' = [req EXCEPT ![p] = [@ EXCEPT
                   !.pc = CASE req[p].kind = "deploy"  -> "quota"
                            [] req[p].kind = "upgrade" -> "kget"
                            [] req[p].kind = "scale"   -> "oget",
                   !.row = meta,
                   !.reps = IF req[p].kind = "upgrade" THEN meta[req[p].cluster]
                                                          ELSE req[p].reps]]
  /\ UNCHANGED <<status, kube, meta, history, started, applied, unsettled>>

(* The quota, over the cached pods of the namespace, suffices or not.      *)
CheckResourceAvailable(p) ==
  /\ req[p].pc = "quota"
  /\ Goto(p, "kget") \/ FailTo(p, "record")
  /\ UNCHANGED <<status, kube, meta, history, started, applied, unsettled>>

(***************************************************************************)
(* restart, scale and modify write back the object they read.              *)
(***************************************************************************)
GetObject(p) ==
  LET c == req[p].cluster
      n == IF req[p].kind = "restart" THEN kube[c].reps ELSE req[p].reps
  IN /\ req[p].pc = "oget"
     /\ \/ /\ Live(c)
           /\ req' = [req EXCEPT ![p] = [@ EXCEPT
                         !.pc = IF req[p].kind = "modify" THEN "kput" ELSE "online",
                         !.obj = [kube[c] EXCEPT !.reps = n]]]
        \/ (~Live(c) \/ "kube" \in Faults) /\ Finish(p)
     /\ UNCHANGED <<status, kube, meta, history, started, applied, unsettled>>

(* Mutant of GetByCluster: it goes on when there is no record.             *)
GetByClusterOrNone(p) ==
  /\ req[p].pc = "online"
  /\ \/ \E r \in rows :
          /\ r.cluster = req[p].cluster
          /\ req' = [req EXCEPT ![p] = [@ EXCEPT !.pc = "kget", !.tpl = r.tpl]]
     \/ PS!RowsOf(req[p].cluster) = {} /\ Goto(p, "kget")
  /\ UNCHANGED <<status, kube, meta, history, started, applied, unsettled>>

(* The template that publish_status names, before anything is written.     *)
GetByCluster(p) ==
  /\ req[p].pc = "online"
  /\ \/ \E r \in rows :
          /\ r.cluster = req[p].cluster
          /\ req' = [req EXCEPT ![p] = [@ EXCEPT !.pc = "kget", !.tpl = r.tpl]]
     \/ (PS!RowsOf(req[p].cluster) = {} \/ "row" \in Faults) /\ Finish(p)
  /\ UNCHANGED <<status, kube, meta, history, started, applied, unsettled>>

(* CreateOrUpdateDeployment puts its spec into the object it finds;        *)
(* UpdateDeployment only looks at the one it finds.  A selector that does  *)
(* not match fails the request here, as an unreachable API server does.    *)
GetOld(p) ==
  LET c == req[p].cluster
      spec == [tpl |-> req[p].tpl, reps |-> req[p].reps, rv |-> kube[c].rv]
      publishes == req[p].kind \in {"deploy", "upgrade"}
  IN /\ req[p].pc = "kget"
     /\ \/ /\ Live(c)
           /\ req' = [req EXCEPT ![p] = [@ EXCEPT !.pc = "kput",
                         !.obj = IF publishes THEN spec ELSE req[p].obj]]
        \/ /\ ~Live(c)
           /\ publishes
           /\ req' = [req EXCEPT ![p] = [@ EXCEPT !.pc = "kcreate", !.obj = spec]]
        \/ ~Live(c) /\ ~publishes /\ FailTo(p, "record")
        \/ "kube" \in Faults /\ FailTo(p, "record")
     /\ UNCHANGED <<status, kube, meta, history, started, applied, unsettled>>

Store(p) ==
  LET c == req[p].cluster
      o == req[p].obj
  IN /\ kube' = [kube EXCEPT ![c] = [o EXCEPT !.rv = kube[c].rv + 1]]
     /\ applied' = applied \cup {<<c, o.tpl>>}
     /\ unsettled' = IF kube[c].tpl # o.tpl THEN unsettled \cup {c} ELSE unsettled

(* Mutant of Accepted: the object is written without its resourceVersion.  *)
AcceptedUnversioned(p) ==
  IF req[p].pc = "kcreate" THEN ~Live(req[p].cluster) ELSE Live(req[p].cluster)

(* Whether the API server takes the request.                               *)
Accepted(p) ==
  LET c == req[p].cluster
  IN IF req[p].pc = "kcreate" THEN ~Live(c)
     ELSE Live(c) /\ kube[c].rv = req[p].obj.rv

(* The server stores the object and the answer arrives.                    *)
Write(p) ==
  /\ req[p].pc \in {"kcreate", "kput"}
  /\ Accepted(p)
  /\ Store(p)
  /\ req' = [req EXCEPT ![p] = IF req[p].kind = "modify" THEN NoRequest
                               ELSE [@ EXCEPT !.pc = "status", !.hist = "ok"]]
  /\ UNCHANGED <<status, meta, history, started>>

(* Mutant of WriteFails: its error is not looked at.                       *)
WriteFailsUnseen(p) ==
  /\ req[p].pc \in {"kcreate", "kput"}
  /\ ~Accepted(p) \/ "kube" \in Faults
  /\ IF req[p].kind = "modify" THEN Finish(p) ELSE Goto(p, "status")
  /\ UNCHANGED <<status, kube, meta, history, started, applied, unsettled>>

(* Mutant of WriteFails: the same object is sent again.                    *)
WriteFailsRetries(p) ==
  /\ req[p].pc \in {"kcreate", "kput"}
  /\ ~Accepted(p) \/ "kube" \in Faults
  /\ UNCHANGED vars

(* It refuses (AlreadyExists, Conflict, NotFound), or the answer is lost   *)
(* on the way, after the object was stored or before.                      *)
WriteFails(p) ==
  /\ req[p].pc \in {"kcreate", "kput"}
  /\ \/ (~Accepted(p) \/ "kube" \in Faults) /\ UNCHANGED <<kube, applied, unsettled>>
     \/ Accepted(p) /\ "kube" \in Faults /\ Store(p)
  /\ IF req[p].kind = "modify" THEN Finish(p) ELSE FailTo(p, "record")
  /\ UNCHANGED <<status, meta, history, started>>

(* Mutant of DeleteObject: its failure does not end the flow.              *)
DeleteObjectGoesOn(p) ==
  LET c == req[p].cluster
  IN /\ req[p].pc = "kdelete"
     /\ \/ /\ Live(c)
           /\ kube' = [kube EXCEPT ![c] = [tpl |-> None, reps |-> 0, rv |-> @.rv + 1]]
           /\ unsettled' = unsettled \cup {c}
        \/ UNCHANGED <<kube, unsettled>>
     /\ Goto(p, "status")
     /\ UNCHANGED <<status, meta, history, started, applied>>

(* offline: the object goes first.  Its failure ends the flow unless the   *)
(* user has asked to force it; the answer may be lost.                     *)
DeleteObject(p) ==
  LET c == req[p].cluster
      gone == /\ kube' = [kube EXCEPT ![c] = [tpl |-> None, reps |-> 0, rv |-> @.rv + 1]]
              /\ unsettled' = unsettled \cup {c}
  IN /\ req[p].pc = "kdelete"
     /\ \/ Live(c) /\ gone /\ Goto(p, "status")
        \/ Live(c) /\ "kube" \in Faults /\ gone /\ ~req[p].force /\ Finish(p)
        \/ /\ ~Live(c) \/ "kube" \in Faults
           /\ IF req[p].force THEN Goto(p, "status") ELSE Finish(p)
           /\ unsettled' = IF req[p].force /\ Live(c) THEN unsettled \cup {c} ELSE unsettled
           /\ UNCHANGED kube
     /\ UNCHANGED <<status, meta, history, started, applied>>

(***************************************************************************)
(* The publish_status calls.                                               *)
(***************************************************************************)
CallStatus(p) ==
  /\ req[p].pc = "status"
  /\ IF req[p].kind = "offline"
       THEN PS!DeleteById(p, req[p].id)
       ELSE PS!Add(p, req[p].cluster, req[p].tpl)
  /\ Goto(p, "called")
  /\ UNCHANGED <<kube, meta, history, started, applied, unsettled>>

StatusStep(p) ==
  /\ PS!Proceed(p) \/ PS!Fail(p)
  /\ UNCHANGED <<kube, meta, history, req, started, applied, unsettled>>

(* The call returned nil, perhaps after a COMMIT that failed.              *)
Published(p) == reply[p] \in {"ok", "lost"}

(* The table now says what the cluster runs, if the call says it does.     *)
Settles(p) ==
  /\ Published(p)
  /\ \/ req[p].kind \in {"deploy", "upgrade"}
     \/ req[p].kind = "offline" /\ ~Live(req[p].cluster)

(* Mutant of StatusReturns: an error returns before the history is added.  *)
StatusReturnsUnaudited(p) ==
  /\ req[p].pc = "called"
  /\ PS!Idle(p)
  /\ unsettled' = IF Settles(p) THEN unsettled \ {req[p].cluster} ELSE unsettled
  /\ CASE req[p].kind = "offline" \/ ~Published(p)         -> Finish(p)
       [] req[p].kind = "deploy" /\ Published(p)            -> Goto(p, "meta")
       [] OTHER                                             -> Goto(p, "record")
  /\ UNCHANGED <<status, kube, meta, history, started, applied>>

StatusReturns(p) ==
  /\ req[p].pc = "called"
  /\ PS!Idle(p)
  /\ unsettled' = IF Settles(p) THEN unsettled \ {req[p].cluster} ELSE unsettled
  /\ CASE req[p].kind = "offline"                        -> Finish(p)
       [] req[p].kind = "deploy" /\ Published(p)         -> Goto(p, "meta")
       [] OTHER                                          -> Goto(p, "record")
  /\ UNCHANGED <<status, kube, meta, history, started, applied>>

(***************************************************************************)
(* DeploymentModel.Update writes the whole row, as it was read, with the   *)
(* count of this cluster replaced.  scale ignores its failure.             *)
(***************************************************************************)
AfterMeta(p) == IF req[p].kind = "deploy" THEN Goto(p, "record") ELSE Finish(p)

UpdateMeta(p) ==
  /\ req[p].pc = "meta"
  /\ \/ meta' = [req[p].row EXCEPT ![req[p].cluster] = req[p].reps]
     \/ "meta" \in Faults /\ UNCHANGED meta
  /\ AfterMeta(p)
  /\ UNCHANGED <<status, kube, history, started, applied, unsettled>>

(* The deferred PublishHistoryModel.Add, whose error nobody reads.  That   *)
(* of scale runs when updateDeployment returns, before the metadata.       *)
Record(p) ==
  /\ req[p].pc = "record"
  /\ \/ history' = history \cup
            {[cluster |-> req[p].cluster, tpl |-> req[p].tpl, status |-> req[p].hist]}
     \/ "history" \in Faults /\ UNCHANGED history
  /\ IF req[p].kind = "scale" /\ req[p].hist = "ok" /\ Published(p)
       THEN Goto(p, "meta") ELSE Finish(p)
  /\ UNCHANGED <<status, kube, meta, started, applied, unsettled>>

(* The API server dies.  The clusters do not notice.                       *)
Crash ==
  /\ PS!Crash
  /\ req' = [p \in Procs |-> NoRequest]
  /\ UNCHANGED <<kube, meta, history, started, applied, unsettled>>

(* A deployment as created, or after one deploy of it to one cluster.      *)
Fresh == /\ PS!Init
         /\ kube = [c \in Clusters |-> [tpl |-> None, reps |-> 0, rv |-> 0]]
         /\ meta = [c \in Clusters |-> 0]
         /\ history = {}
         /\ applied = {}

Deployed(c, t, n) ==
  /\ rows = {[id |-> 1, cluster |-> c, tpl |-> t]}
  /\ lastId = 1
  /\ tx = [p \in Procs |-> PS!IdleTx]
  /\ reply = [p \in Procs |-> "none"]
  /\ leaked = 0
  /\ orphanLocks = {}
  /\ kube = [d \in Clusters |-> IF d = c THEN [tpl |-> t, reps |-> n, rv |-> 1]
                                          ELSE [tpl |-> None, reps |-> 0, rv |-> 0]]
  /\ meta = [d \in Clusters |-> IF d = c THEN n ELSE 0]
  /\ history = {[cluster |-> c, tpl |-> t, status |-> "ok"]}
  /\ applied = {<<c, t>>}

Init ==
  /\ Fresh \/ \E c \in Running, t \in Tpls, n \in Replicas : Deployed(c, t, n)
  /\ req = [p \in Procs |-> NoRequest]
  /\ started = 0
  /\ unsettled = {}

Step(p) ==
  \/ ReadRow(p) \/ CheckResourceAvailable(p) \/ GetObject(p) \/ GetByCluster(p)
  \/ GetOld(p) \/ Write(p) \/ WriteFails(p) \/ DeleteObject(p)
  \/ CallStatus(p) \/ StatusStep(p) \/ StatusReturns(p) \/ UpdateMeta(p) \/ Record(p)

Next ==
  \/ \E p \in Procs, c \in Clusters :
       \/ \E t \in Tpls, n \in Replicas : Start(p, "deploy", c, t, n)
       \/ \E t \in Tpls : Start(p, "upgrade", c, t, 0)
       \/ Start(p, "restart", c, None, 0)
       \/ \E n \in Replicas, kind \in {"scale", "modify"} : Start(p, kind, c, None, n)
       \/ \E id \in 1..lastId, force \in BOOLEAN : StartOffline(p, c, id, force)
  \/ \E p \in Procs : Step(p)
  \/ Crash

Fairness ==
  \A p \in Procs : /\ WF_vars(Step(p))
                   /\ SF_vars(StatusStep(p))

Spec == Init /\ [][Next]_vars /\ Fairness

(***************************************************************************)
(* Properties                                                              *)
(***************************************************************************)

(* Every variable has its type.                                            *)
TypeOK ==
  /\ PS!TypeOK
  /\ kube \in [Clusters -> Object]
  /\ meta \in [Clusters -> Nat]
  /\ history \subseteq [cluster : Clusters, tpl : Tpls, status : Outcome]
  /\ req \in [Procs -> Request]
  /\ started \in 0..MaxRequests
  /\ applied \subseteq Clusters \X Tpls
  /\ unsettled \subseteq Clusters

(* A status row names a template that its cluster did run, and             *)
(* publish_history says "success" only of what the API server stored,      *)
(* whatever the failures, conflicts and overlaps.                          *)
RecordedWasApplied ==
  /\ \A r \in rows : <<r.cluster, r.tpl>> \in applied
  /\ \A h \in history : h.status = "ok" => <<h.cluster, h.tpl>> \in applied

(* No template reaches a cluster without a history row: it has one, or the *)
(* request that stored it is still to write it.  (No crash, and the        *)
(* history table takes its rows.)                                          *)
AppliedIsAudited ==
  {"crash", "history"} \cap Faults = {} =>
    \A a \in applied :
      \/ \E h \in history : <<h.cluster, h.tpl>> = a
      \/ \E p \in Procs : InFlight(p) /\ <<req[p].cluster, req[p].tpl>> = a

(* restart, scale and modify never bring back a template: they write the   *)
(* object they read, and a deploy that came in between makes the API       *)
(* server refuse it.                                                       *)
OnlyPublishChangesTemplate ==
  [][\A c \in Clusters :
       kube'[c].tpl \notin {kube[c].tpl, None} =>
         \E p \in Procs : /\ req[p].pc \in {"kput", "kcreate"}
                          /\ req[p].kind \in {"deploy", "upgrade"}
                          /\ req[p].cluster = c /\ req[p].tpl = kube'[c].tpl]_vars

InSync(c) ==
  IF Live(c) THEN {r.tpl : r \in PS!RowsOf(c)} = {kube[c].tpl} ELSE PS!RowsOf(c) = {}

(* The status table names the template that a cluster runs, unless a       *)
(* request that changed the object did not get, or has not yet got, a      *)
(* successful answer from its status call.  (One request at a time for     *)
(* each cluster, and commits do not fail.)                                 *)
InSyncUnlessUnsettled ==
  Serial /\ "commit" \notin Faults => \A c \in Clusters \ unsettled : InSync(c)

(* Every request ends.                                                     *)
RequestsEnd == \A p \in Procs : InFlight(p) ~> ~InFlight(p)

Quiet == \A p \in Procs : ~InFlight(p)

(* models/deployment.go:34 says that the metadata holds the replica count  *)
(* of each cluster: after deploys alone, one per cluster at a time and     *)
(* none failing, it holds those the clusters run with.                     *)
ReplicasRecorded ==
  Quiet => \A c \in Clusters : Live(c) => meta[c] = kube[c].reps
=============================================================================
