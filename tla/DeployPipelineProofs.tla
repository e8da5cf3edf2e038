------------------------ MODULE DeployPipelineProofs ------------------------
(***************************************************************************)
(* Proofs about DeployPipeline, for every number of goroutines, clusters,  *)
(* templates and requests and every set of failures.  What the             *)
(* transactions on publish_status keep is taken from PublishStatusProofs.  *)
(***************************************************************************)
EXTENDS DeployPipeline, TLAPS

PSP == INSTANCE PublishStatusProofs

(* The steps of a request's status call are steps of PublishStatus.        *)
LEMMA StatusStepIs ==
  ASSUME NEW p \in Procs
  PROVE  /\ PS!Proceed(p) => PSP!Proceed(p)
         /\ PS!Fail(p) => PSP!Fail(p)
<1>0. PS!InUse = PSP!InUse
  BY DEF PS!InUse, PSP!InUse, PS!TxPCs, PSP!TxPCs, PS!Cardinality, PSP!Cardinality
<1>1. PS!Begin(p) => PSP!Begin(p)
  BY <1>0 DEF PS!Begin, PSP!Begin, PS!Goto, PSP!Goto
<1>2. PS!BeginFails(p) => PSP!BeginFails(p)
  BY <1>0 DEF PS!BeginFails, PSP!BeginFails, PS!Return, PSP!Return, PS!IdleTx,
         PSP!IdleTx
<1>3. PS!SelectNone(p) => PSP!SelectNone(p)
  BY DEF PS!SelectNone, PSP!SelectNone, PS!RowsOf, PSP!RowsOf, PS!Goto,
         PSP!Goto
<1>4. PS!SelectOther(p) => PSP!SelectOther(p)
  BY DEF PS!SelectOther, PSP!SelectOther, PS!RowsOf, PSP!RowsOf
<1>5. PS!SelectSame(p) => PSP!SelectSame(p)
  BY DEF PS!SelectSame, PSP!SelectSame, PS!RowsOf, PSP!RowsOf, PS!Abandon,
         PSP!Abandon, PS!Return, PSP!Return, PS!Locked, PSP!Locked, PS!IdleTx,
         PSP!IdleTx
<1>6. PS!Delete(p) => PSP!Delete(p)
  BY DEF PS!Delete, PSP!Delete, PS!FreeOfLocks, PSP!FreeOfLocks, PS!Locked,
         PSP!Locked, PS!Goto, PSP!Goto
<1>7. PS!Insert(p) => PSP!Insert(p)
  BY DEF PS!Insert, PSP!Insert
<1>8. PS!Commit(p) => PSP!Commit(p)
  BY DEF PS!Commit, PSP!Commit, PS!Return, PSP!Return, PS!IdleTx, PSP!IdleTx
<1>9. PS!Read(p) => PSP!Read(p)
  BY <1>0 DEF PS!Read, PSP!Read, PS!Goto, PSP!Goto
<1>10. PS!ReadFails(p) => PSP!ReadFails(p)
  BY <1>0 DEF PS!ReadFails, PSP!ReadFails, PS!Return, PSP!Return, PS!IdleTx,
         PSP!IdleTx
<1>11. PS!Remove(p) => PSP!Remove(p)
  BY <1>0 DEF PS!Remove, PSP!Remove, PS!FreeOfLocks, PSP!FreeOfLocks,
         PS!Locked, PSP!Locked, PS!Return, PSP!Return, PS!IdleTx, PSP!IdleTx
<1>12. PS!RemoveFails(p) => PSP!RemoveFails(p)
  BY <1>0 DEF PS!RemoveFails, PSP!RemoveFails, PS!Return, PSP!Return,
         PS!IdleTx, PSP!IdleTx
<1>13. PS!SelectFails(p) => PSP!SelectFails(p)
  BY DEF PS!SelectFails, PSP!SelectFails, PS!Abandon, PSP!Abandon, PS!Return,
         PSP!Return, PS!Locked, PSP!Locked, PS!IdleTx, PSP!IdleTx
<1>14. PS!DeleteFails(p) => PSP!DeleteFails(p)
  BY DEF PS!DeleteFails, PSP!DeleteFails, PS!Abandon, PSP!Abandon, PS!Return,
         PSP!Return, PS!Locked, PSP!Locked, PS!IdleTx, PSP!IdleTx
<1>15. PS!InsertFails(p) => PSP!InsertFails(p)
  BY DEF PS!InsertFails, PSP!InsertFails, PS!Return, PSP!Return, PS!IdleTx,
         PSP!IdleTx
<1>16. PS!CommitFails(p) => PSP!CommitFails(p)
  BY DEF PS!CommitFails, PSP!CommitFails, PS!Return, PSP!Return, PS!IdleTx,
         PSP!IdleTx
<1> QED
  BY <1>1, <1>2, <1>3, <1>4, <1>5, <1>6, <1>7, <1>8, <1>9, <1>10, <1>11,
     <1>12, <1>13, <1>14, <1>15, <1>16 DEF PS!Proceed, PSP!Proceed, PS!Fail,
     PSP!Fail

(***************************************************************************)
(* The invariant                                                           *)
(***************************************************************************)

(* Which kinds of request are where, and the arguments they have there.    *)
Place(p, pc, kinds) == req[p].pc = pc => req[p].kind \in kinds

Placed(p) ==
  /\ Place(p, "idle", {None})
  /\ Place(p, "row", {"deploy", "upgrade", "scale"})
  /\ Place(p, "quota", {"deploy"})
  /\ Place(p, "oget", {"restart", "scale", "modify"})
  /\ Place(p, "online", {"restart", "scale"})
  /\ Place(p, "kget", {"deploy", "upgrade", "restart", "scale"})
  /\ Place(p, "kcreate", {"deploy", "upgrade"})
  /\ Place(p, "kput", {"deploy", "upgrade", "restart", "scale", "modify"})
  /\ Place(p, "kdelete", {"offline"})
  /\ Place(p, "status", {"deploy", "upgrade", "restart", "scale", "offline"})
  /\ Place(p, "called", {"deploy", "upgrade", "restart", "scale", "offline"})
  /\ Place(p, "meta", {"deploy", "scale"})
  /\ Place(p, "record", {"deploy", "upgrade", "restart", "scale"})

Publishes(p) == req[p].kind \in {"deploy", "upgrade"}
Rewrites(p) == req[p].kind \in {"restart", "scale", "modify"}

Named(p) ==
  /\ InFlight(p) => req[p].cluster \in Clusters
  /\ Publishes(p) => req[p].tpl \in Tpls
  /\ req[p].kind = "offline" => req[p].id \in 1..lastId

(* The object a request is to write: the template it publishes, or what    *)
(* the cluster ran when the request read it, and runs still if no write    *)
(* came in between.                                                        *)
Carries(p) ==
  /\ req[p].pc \in {"kput", "kcreate"} /\ Publishes(p) => req[p].obj.tpl = req[p].tpl
  /\ req[p].pc \in {"online", "kget", "kput"} /\ Rewrites(p) =>
       /\ req[p].obj.tpl \in Tpls
       /\ req[p].obj.rv <= kube[req[p].cluster].rv
       /\ req[p].obj.rv = kube[req[p].cluster].rv =>
            req[p].obj.tpl = kube[req[p].cluster].tpl

Ran(p) == <<req[p].cluster, req[p].tpl>> \in applied

(* What a request names as published its cluster did run.                  *)
Truthful(p) ==
  /\ /\ req[p].pc \in {"kget", "kput", "status", "called", "meta", "record"}
     /\ req[p].kind \in {"restart", "scale"}
     => Ran(p)
  /\ InFlight(p) /\ req[p].hist = "ok" => Ran(p)
  /\ req[p].pc \in {"status", "called", "meta"} /\ req[p].kind # "offline" =>
       req[p].hist = "ok"

RequestInv(p) == Placed(p) /\ Named(p) /\ Carries(p) /\ Truthful(p)

(* What is in the table, or on its way into it, its cluster did run.       *)
TableRan ==
  /\ \A r \in rows : <<r.cluster, r.tpl>> \in applied
  /\ \A p \in Procs : PSP!Publishing(p) => <<tx[p].cluster, tx[p].tpl>> \in applied

LiveRan == \A c \in Clusters : Live(c) => <<c, kube[c].tpl>> \in applied

HistoryRan == \A h \in history : h.status = "ok" => <<h.cluster, h.tpl>> \in applied

Types ==
  /\ kube \in [Clusters -> Object]
  /\ meta \in [Clusters -> Nat]
  /\ history \subseteq [cluster : Clusters, tpl : Tpls, status : Outcome]
  /\ req \in [Procs -> Request]
  /\ started \in 0..MaxRequests
  /\ applied \subseteq Clusters \X Tpls
  /\ unsettled \subseteq Clusters

PipeInv ==
  /\ PSP!TypeInv
  /\ Types
  /\ \A p \in Procs : RequestInv(p)
  /\ TableRan /\ LiveRan /\ HistoryRan

(***************************************************************************)
(* How an action changes the record of its request                         *)
(***************************************************************************)
LEMMA NoRequestType == NoRequest \in Request
  BY StatusAssumption DEF NoRequest, Request, ReqPCs, Object, Outcome

(* Goto changes the place of the request and nothing else.                 *)
LEMMA GotoFields ==
  ASSUME Types, NEW p \in Procs, NEW pc \in ReqPCs, Goto(p, pc)
  PROVE  /\ req' \in [Procs -> Request]
         /\ req'[p].pc = pc
         /\ \A q \in Procs : q # p => req'[q] = req[q]
         /\ req'[p].kind = req[p].kind /\ req'[p].cluster = req[p].cluster
         /\ req'[p].tpl = req[p].tpl /\ req'[p].reps = req[p].reps
         /\ req'[p].id = req[p].id /\ req'[p].force = req[p].force
         /\ req'[p].row = req[p].row /\ req'[p].obj = req[p].obj
         /\ req'[p].hist = req[p].hist
  BY DEF Types, Goto, Request

(* FailTo also marks its history as failed.                                *)
LEMMA FailToFields ==
  ASSUME Types, NEW p \in Procs, NEW pc \in ReqPCs, FailTo(p, pc)
  PROVE  /\ req' \in [Procs -> Request]
         /\ req'[p].pc = pc
         /\ \A q \in Procs : q # p => req'[q] = req[q]
         /\ req'[p].kind = req[p].kind /\ req'[p].cluster = req[p].cluster
         /\ req'[p].tpl = req[p].tpl /\ req'[p].id = req[p].id
         /\ req'[p].obj = req[p].obj
         /\ req'[p].hist = "fail"
  BY DEF Types, FailTo, Request, Outcome

(* Finish leaves no request.                                               *)
LEMMA FinishFields ==
  ASSUME Types, NEW p \in Procs, Finish(p)
  PROVE  /\ req' \in [Procs -> Request]
         /\ req'[p] = NoRequest
         /\ \A q \in Procs : q # p => req'[q] = req[q]
  BY NoRequestType DEF Types, Finish

(* A goroutine that serves nothing claims nothing.                         *)
LEMMA IdleInv ==
  ASSUME NEW p \in Procs, req'[p] = NoRequest
  PROVE  RequestInv(p)'
<1>1. None \notin Kinds
  BY StatusAssumption
<1> QED
  BY <1>1 DEF NoRequest, RequestInv, Placed, Place, Named, Publishes, Rewrites, Carries,
              Truthful, Ran, InFlight, Kinds

(* No action takes back what the requests of other goroutines rest on.     *)
Grows ==
  /\ lastId' \in Nat /\ lastId <= lastId'
  /\ applied \subseteq applied'
  /\ \A c \in Clusters : kube'[c] = kube[c] \/ kube[c].rv < kube'[c].rv

(* So the requests of the goroutines that did not step keep what they hold.*)
LEMMA OthersKeep ==
  ASSUME PipeInv, NEW q \in Procs, req'[q] = req[q], Grows, kube' \in [Clusters -> Object]
  PROVE  RequestInv(q)'
<1>1. RequestInv(q) /\ req[q] \in Request /\ lastId \in Nat /\ kube \in [Clusters -> Object]
  BY DEF PipeInv, Types, PSP!TypeInv, PSP!TypeOK
<1>2. Placed(q)'
  BY <1>1 DEF RequestInv, Placed, Place
<1>3. Named(q)'
  BY <1>1 DEF RequestInv, Named, Grows, InFlight, Publishes
<1>4. Truthful(q)'
  BY <1>1 DEF RequestInv, Truthful, Grows, Ran, InFlight
<1>5. Carries(q)'
  <2>1. ASSUME req[q].pc \in {"online", "kget", "kput"}, Rewrites(q)
        PROVE  /\ req[q].obj.tpl \in Tpls
               /\ req[q].obj.rv <= kube'[req[q].cluster].rv
               /\ req[q].obj.rv = kube'[req[q].cluster].rv =>
                    req[q].obj.tpl = kube'[req[q].cluster].tpl
    <3>1. PICK c \in Clusters : c = req[q].cluster
      BY <1>1, <2>1 DEF RequestInv, Named, InFlight
    <3>2. /\ req[q].obj.rv <= kube[c].rv /\ req[q].obj.tpl \in Tpls
          /\ req[q].obj.rv = kube[c].rv => req[q].obj.tpl = kube[c].tpl
      BY <1>1, <2>1, <3>1 DEF RequestInv, Carries
    <3>3. kube[c].rv \in Nat /\ kube'[c].rv \in Nat /\ req[q].obj.rv \in Nat
      BY <1>1 DEF Object, Request
    <3>4. kube'[c] = kube[c] \/ kube[c].rv < kube'[c].rv
      BY DEF Grows
    <3> QED
      BY <3>1, <3>2, <3>3, <3>4
  <2>2. req'[q] = req[q] /\ Carries(q)
    BY <1>1 DEF RequestInv
  <2> QED
    BY <2>1, <2>2 DEF Carries, Publishes, Rewrites
<1> QED
  BY <1>2, <1>3, <1>4, <1>5 DEF RequestInv

(***************************************************************************)
(* The status call                                                         *)
(***************************************************************************)
LEMMA StatusConstants == PSP!BoundsAssumption /\ PSP!SerialAssumption /\ PSP!NoneAssumption
  BY StatusAssumption DEF PSP!BoundsAssumption, PSP!SerialAssumption, PSP!NoneAssumption

(* It inserts what it was called with, and ids only grow.                  *)
LEMMA StatusStepTable ==
  ASSUME PSP!TypeInv, TableRan, NEW p \in Procs, PSP!Proceed(p) \/ PSP!Fail(p),
         applied' = applied
  PROVE  TableRan' /\ lastId <= lastId'
<1>1. \A q \in Procs : PSP!Publishing(q)' =>
        /\ PSP!Publishing(q)
        /\ tx'[q].cluster = tx[q].cluster /\ tx'[q].tpl = tx[q].tpl
  <2>1. ASSUME NEW pc, PSP!Goto(p, pc),
               pc \in PSP!PublishPCs => PSP!Publishing(p)
        PROVE  \A q \in Procs : PSP!Publishing(q)' =>
                 /\ PSP!Publishing(q)
                 /\ tx'[q].cluster = tx[q].cluster /\ tx'[q].tpl = tx[q].tpl
    BY <2>1 DEF PSP!TypeInv, PSP!TypeOK, PSP!Tx, PSP!Goto, PSP!Publishing
  <2>2. ASSUME NEW res, PSP!Return(p, res)
        PROVE  \A q \in Procs : PSP!Publishing(q)' =>
                 /\ PSP!Publishing(q)
                 /\ tx'[q].cluster = tx[q].cluster /\ tx'[q].tpl = tx[q].tpl
    BY <2>2 DEF PSP!TypeInv, PSP!TypeOK, PSP!Return, PSP!Publishing, PSP!PublishPCs,
                PSP!IdleTx
  <2>3. CASE PSP!Begin(p)
    BY <2>1, <2>3 DEF PSP!Begin, PSP!Publishing, PSP!PublishPCs
  <2>4. CASE PSP!SelectNone(p) \/ PSP!Delete(p)
    BY <2>1, <2>4 DEF PSP!SelectNone, PSP!Delete, PSP!Publishing, PSP!PublishPCs
  <2>5. CASE PSP!Read(p)
    BY <2>1, <2>5 DEF PSP!Read, PSP!Publishing, PSP!PublishPCs
  <2>6. CASE PSP!SelectOther(p)
    BY <2>6 DEF PSP!SelectOther, PSP!TypeInv, PSP!TypeOK, PSP!Tx, PSP!Publishing,
                PSP!PublishPCs
  <2>7. CASE PSP!Insert(p)
    BY <2>7 DEF PSP!Insert, PSP!TypeInv, PSP!TypeOK, PSP!Tx, PSP!Publishing,
                PSP!PublishPCs
  <2>8. CASE \/ PSP!BeginFails(p) \/ PSP!SelectSame(p) \/ PSP!Commit(p) \/ PSP!ReadFails(p)
             \/ PSP!Remove(p) \/ PSP!RemoveFails(p) \/ PSP!Fail(p)
    BY <2>2, <2>8
       DEF PSP!BeginFails, PSP!SelectSame, PSP!Commit, PSP!ReadFails, PSP!Remove,
           PSP!RemoveFails, PSP!Fail, PSP!SelectFails, PSP!DeleteFails, PSP!InsertFails,
           PSP!CommitFails, PSP!Abandon
  <2> QED
    BY <2>3, <2>4, <2>5, <2>6, <2>7, <2>8 DEF PSP!Proceed
<1>2. /\ PSP!Commit(p) \/ PSP!Remove(p) \/ rows' = rows
      /\ lastId' = lastId \/ lastId' = lastId + 1
  <2>1. CASE PSP!Proceed(p)
    <3>1. CASE PSP!Begin(p) \/ PSP!BeginFails(p) \/ PSP!Read(p) \/ PSP!ReadFails(p)
               \/ PSP!RemoveFails(p) \/ PSP!Commit(p) \/ PSP!Remove(p)
      BY <3>1 DEF PSP!Begin, PSP!BeginFails, PSP!Read, PSP!ReadFails, PSP!RemoveFails,
                  PSP!Commit, PSP!Remove
    <3>2. CASE PSP!SelectNone(p) \/ PSP!SelectOther(p) \/ PSP!SelectSame(p)
               \/ PSP!Delete(p) \/ PSP!Insert(p)
      BY <3>2 DEF PSP!SelectNone, PSP!SelectOther, PSP!SelectSame, PSP!Delete, PSP!Insert
    <3> QED
      BY <2>1, <3>1, <3>2 DEF PSP!Proceed
  <2>2. CASE PSP!Fail(p)
    BY <2>2 DEF PSP!Fail, PSP!SelectFails, PSP!DeleteFails, PSP!InsertFails, PSP!CommitFails
  <2> QED
    BY <2>1, <2>2
<1>3. lastId <= lastId'
  BY <1>2 DEF PSP!TypeInv, PSP!TypeOK
<1>4. \A r \in rows' : <<r.cluster, r.tpl>> \in applied
  <2>1. CASE PSP!Commit(p)
    <3>1. PICK n \in Nat :
            tx[p].new = {[id |-> n, cluster |-> tx[p].cluster, tpl |-> tx[p].tpl]}
      BY <2>1 DEF PSP!Commit, PSP!TypeInv, PSP!Holds
    <3>2. <<tx[p].cluster, tx[p].tpl>> \in applied
      BY <2>1 DEF PSP!Commit, TableRan, PSP!Publishing, PSP!PublishPCs
    <3>3. rows' \subseteq rows \cup tx[p].new
      BY <2>1 DEF PSP!Commit
    <3>4. \A r \in tx[p].new : r.cluster = tx[p].cluster /\ r.tpl = tx[p].tpl
      BY <3>1
    <3>5. \A r \in tx[p].new : <<r.cluster, r.tpl>> \in applied
      BY <3>2, <3>4
    <3> QED
      BY <3>3, <3>5 DEF TableRan
  <2>2. CASE PSP!Remove(p)
    BY <2>2 DEF PSP!Remove, TableRan
  <2>3. CASE rows' = rows
    BY <2>3 DEF TableRan
  <2> QED
    BY <1>2, <2>1, <2>2, <2>3
<1> QED
  BY <1>1, <1>3, <1>4 DEF TableRan

(* A step of the status call keeps the invariant.                          *)
LEMMA StatusStepInv ==
  ASSUME PipeInv, NEW p \in Procs, StatusStep(p)
  PROVE  PipeInv'
<1>1. PSP!Proceed(p) \/ PSP!Fail(p)
  BY StatusStepIs DEF StatusStep
<1>2. PSP!TypeInv'
  BY <1>1, StatusConstants, PSP!StepTypeInv DEF PipeInv, PSP!Next
<1>3. TableRan' /\ lastId <= lastId'
  BY <1>1, StatusStepTable DEF PipeInv, StatusStep
<1>4. Types'
  BY DEF PipeInv, Types, StatusStep
<1>5. Grows
  BY <1>2, <1>3 DEF Grows, StatusStep, PSP!TypeInv, PSP!TypeOK
<1>6. \A q \in Procs : RequestInv(q)'
  BY <1>4, <1>5, OthersKeep DEF StatusStep, Types
<1>7. LiveRan' /\ HistoryRan'
  BY DEF PipeInv, LiveRan, HistoryRan, Live, StatusStep
<1> QED
  BY <1>2, <1>3, <1>4, <1>6, <1>7 DEF PipeInv

(***************************************************************************)
(* The other steps of a request                                            *)
(***************************************************************************)

(* A step that leaves the table, the clusters and the history alone.       *)
LEMMA QuietStep ==
  ASSUME PipeInv, NEW p \in Procs, UNCHANGED <<status, kube, history, applied>>,
         meta' \in [Clusters -> Nat], started' \in 0..MaxRequests,
         unsettled' \subseteq Clusters, req' \in [Procs -> Request],
         \A q \in Procs : q # p => req'[q] = req[q], RequestInv(p)'
  PROVE  PipeInv'
<1>1. PSP!TypeInv'
  BY DEF PipeInv, PSP!TypeInv, PSP!TypeOK, PSP!Holds, PSP!Publishing, PSP!Idle, status
<1>2. Types'
  BY DEF PipeInv, Types
<1>3. TableRan' /\ LiveRan' /\ HistoryRan'
  BY DEF PipeInv, TableRan, LiveRan, HistoryRan, Live, PSP!Publishing, status
<1>4. Grows
  BY <1>1, <1>2 DEF Grows, status, PSP!TypeInv, PSP!TypeOK
<1>5. \A q \in Procs : RequestInv(q)'
  BY <1>2, <1>4, OthersKeep DEF Types
<1> QED
  BY <1>1, <1>2, <1>3, <1>5 DEF PipeInv

(* A step that ends its request and stores nothing.                        *)
LEMMA FinishStep ==
  ASSUME PipeInv, NEW p \in Procs, Finish(p), UNCHANGED <<status, kube, history, applied>>,
         meta' \in [Clusters -> Nat], started' \in 0..MaxRequests,
         unsettled' \subseteq Clusters
  PROVE  PipeInv'
  BY FinishFields, IdleInv, QuietStep DEF PipeInv

(* What a request holds, spelt out for the step that follows.              *)
LEMMA Reads ==
  ASSUME PipeInv, NEW p \in Procs
  PROVE  /\ Types /\ req[p] \in Request /\ RequestInv(p)
         /\ lastId \in Nat /\ None \notin Kinds
         /\ InFlight(p) => req[p].cluster \in Clusters /\ kube[req[p].cluster] \in Object
  BY StatusAssumption
     DEF PipeInv, Types, PSP!TypeInv, PSP!TypeOK, RequestInv, Named

(* A request begins, of every kind but offline.                            *)
LEMMA StartStep ==
  ASSUME PipeInv, NEW p \in Procs, NEW c \in Clusters, NEW kind \in Kinds \ {"offline"},
         NEW t \in Tpls \cup {None}, NEW n \in Nat, Start(p, kind, c, t, n),
         kind \in {"deploy", "upgrade"} => t \in Tpls
  PROVE  PipeInv'
<1> DEFINE v == [NoRequest EXCEPT !.pc = First(kind), !.kind = kind,
                                  !.cluster = c, !.tpl = t, !.reps = n]
<1>1. First(kind) \in {"row", "oget"}
      /\ (First(kind) = "row" <=> kind \in {"deploy", "upgrade", "scale"})
  BY DEF First, Kinds
<1>2. v \in Request
  BY <1>1, NoRequestType DEF Request, ReqPCs
<1>3. /\ v.pc = First(kind) /\ v.kind = kind /\ v.cluster = c /\ v.tpl = t
      /\ v.hist = "fail"
  BY DEF NoRequest
<1> HIDE DEF v
<1>4. req' = [req EXCEPT ![p] = v]
  BY DEF Start, v
<1>5. /\ req' \in [Procs -> Request] /\ req'[p] = v
      /\ \A q \in Procs : q # p => req'[q] = req[q]
  BY <1>2, <1>4, Reads DEF Types
<1>6. RequestInv(p)'
  BY <1>1, <1>3, <1>5
     DEF Kinds, RequestInv, Placed, Place, Named, Publishes, Rewrites, Carries, Truthful,
         InFlight
<1>7. started' \in 0..MaxRequests
  BY Reads, RequestsAssumption DEF Start, Types
<1> QED
  BY <1>5, <1>6, <1>7, QuietStep, Reads DEF Start, Types

(* An offline begins.                                                      *)
LEMMA StartOfflineStep ==
  ASSUME PipeInv, NEW p \in Procs, NEW c \in Clusters, NEW id \in 1..lastId,
         NEW force \in BOOLEAN, StartOffline(p, c, id, force)
  PROVE  PipeInv'
<1> DEFINE v == [NoRequest EXCEPT !.pc = "kdelete", !.kind = "offline",
                                  !.cluster = c, !.id = id, !.force = force]
<1>0. id \in Nat
  BY Reads
<1>1. v \in Request
  BY <1>0, NoRequestType DEF Request, ReqPCs, Kinds
<1>2. /\ v.pc = "kdelete" /\ v.kind = "offline" /\ v.cluster = c /\ v.id = id
      /\ v.hist = "fail"
  BY DEF NoRequest
<1> HIDE DEF v
<1>3. req' = [req EXCEPT ![p] = v]
  BY DEF StartOffline, v
<1>4. /\ req' \in [Procs -> Request] /\ req'[p] = v
      /\ \A q \in Procs : q # p => req'[q] = req[q]
  BY <1>1, <1>3, Reads DEF Types
<1>5. lastId' = lastId
  BY DEF StartOffline, status
<1>6. RequestInv(p)'
  BY <1>2, <1>4, <1>5
     DEF RequestInv, Placed, Place, Named, Publishes, Rewrites, Carries, Truthful, InFlight
<1>7. started' \in 0..MaxRequests
  BY Reads, RequestsAssumption DEF StartOffline, Types
<1> QED
  BY <1>4, <1>6, <1>7, QuietStep, Reads DEF StartOffline, Types

(* The read of the deployment row.                                         *)
LEMMA ReadRowStep ==
  ASSUME PipeInv, NEW p \in Procs, ReadRow(p)
  PROVE  PipeInv'
<1>1. CASE Finish(p)
  BY <1>1, FinishStep, Reads DEF ReadRow, Types
<1>2. CASE ~Finish(p)
  <2> DEFINE pc == CASE req[p].kind = "deploy"  -> "quota"
                     [] req[p].kind = "upgrade" -> "kget"
                     [] req[p].kind = "scale"   -> "oget"
             n == IF req[p].kind = "upgrade" THEN meta[req[p].cluster] ELSE req[p].reps
             v == [req[p] EXCEPT !.pc = pc, !.row = meta, !.reps = n]
  <2>1. req[p].kind \in {"deploy", "upgrade", "scale"} /\ req[p].cluster \in Clusters
    BY Reads DEF ReadRow, RequestInv, Placed, Place, InFlight
  <2>2. pc \in {"quota", "kget", "oget"}
        /\ (pc = "quota" => req[p].kind = "deploy")
        /\ (pc = "kget" => req[p].kind = "upgrade")
        /\ (pc = "oget" => req[p].kind = "scale")
    BY <2>1
  <2>3. n \in Nat
    BY <2>1, Reads DEF Types, Request
  <2>4. req' = [req EXCEPT ![p] = v]
    BY <1>2 DEF ReadRow
  <2> HIDE DEF pc, n
  <2>5. v \in Request /\ v.pc = pc /\ v.kind = req[p].kind /\ v.cluster = req[p].cluster
        /\ v.tpl = req[p].tpl /\ v.hist = req[p].hist /\ v.id = req[p].id
    BY <2>2, <2>3, Reads DEF Request, ReqPCs, Types
  <2> HIDE DEF v
  <2>6. /\ req' \in [Procs -> Request] /\ req'[p] = v
        /\ \A q \in Procs : q # p => req'[q] = req[q]
    BY <2>4, <2>5, Reads DEF Types
  <2>7. lastId' = lastId /\ kube' = kube /\ applied' = applied /\ req[p].pc = "row"
    BY DEF ReadRow, status
  <2>8. RequestInv(p)'
    BY <2>1, <2>2, <2>5, <2>6, <2>7, Reads
       DEF RequestInv, Placed, Place, Named, Publishes, Rewrites, Carries, Truthful, Ran,
           InFlight
  <2> QED
    BY <2>6, <2>8, QuietStep, Reads DEF ReadRow, Types
<1> QED
  BY <1>1, <1>2

(* A step that only moves the request on, or only fails it.                *)
LEMMA MoveStep ==
  ASSUME PipeInv, NEW p \in Procs, NEW pc \in ReqPCs, Goto(p, pc) \/ FailTo(p, pc),
         UNCHANGED <<status, kube, history, applied>>,
         meta' \in [Clusters -> Nat], started' \in 0..MaxRequests,
         unsettled' \subseteq Clusters,
         \/ req[p].pc = "quota" /\ pc = "kget" /\ Goto(p, pc)
         \/ req[p].pc = "quota" /\ pc = "record" /\ FailTo(p, pc)
         \/ req[p].pc \in {"kget", "kcreate"} /\ pc = "record" /\ FailTo(p, pc)
         \/ req[p].pc = "kput" /\ req[p].kind # "modify" /\ pc = "record" /\ FailTo(p, pc)
         \/ req[p].pc = "kdelete" /\ pc = "status" /\ Goto(p, pc)
         \/ req[p].pc = "called" /\ req[p].kind = "deploy" /\ pc = "meta" /\ Goto(p, pc)
         \/ req[p].pc = "called" /\ req[p].kind # "offline" /\ pc = "record" /\ Goto(p, pc)
         \/ req[p].pc = "meta" /\ req[p].kind = "deploy" /\ pc = "record" /\ Goto(p, pc)
  PROVE  PipeInv'
<1>1. /\ req' \in [Procs -> Request] /\ req'[p].pc = pc
      /\ \A q \in Procs : q # p => req'[q] = req[q]
      /\ req'[p].kind = req[p].kind /\ req'[p].cluster = req[p].cluster
      /\ req'[p].tpl = req[p].tpl /\ req'[p].id = req[p].id
      /\ req'[p].obj = req[p].obj
      /\ req'[p].hist = req[p].hist \/ req'[p].hist = "fail"
      /\ Goto(p, pc) => req'[p].hist = req[p].hist
      /\ FailTo(p, pc) => req'[p].hist = "fail"
  BY GotoFields, FailToFields, Reads
<1>2. lastId' = lastId
  BY DEF status
<1>3. Placed(p)'
  BY <1>1, Reads DEF RequestInv, Placed, Place
<1>4. Named(p)'
  BY <1>1, <1>2, Reads DEF RequestInv, Named, Publishes, InFlight
<1>5. Carries(p)'
  BY <1>1, Reads DEF RequestInv, Placed, Place, Carries, Publishes, Rewrites
<1>6. Truthful(p)'
  BY <1>1, Reads DEF RequestInv, Placed, Place, Truthful, Ran, InFlight
<1> QED
  BY <1>1, <1>3, <1>4, <1>5, <1>6, QuietStep DEF RequestInv

(* The quota.                                                              *)
LEMMA CheckResourceStep ==
  ASSUME PipeInv, NEW p \in Procs, CheckResourceAvailable(p)
  PROVE  PipeInv'
  BY MoveStep, Reads DEF CheckResourceAvailable, Types, ReqPCs

(* The object that restart, scale and modify write back is read.           *)
LEMMA GetObjectStep ==
  ASSUME PipeInv, NEW p \in Procs, GetObject(p)
  PROVE  PipeInv'
<1> DEFINE c == req[p].cluster
           n == IF req[p].kind = "restart" THEN kube[c].reps ELSE req[p].reps
           o == [kube[c] EXCEPT !.reps = n]
           pc == IF req[p].kind = "modify" THEN "kput" ELSE "online"
           v == [req[p] EXCEPT !.pc = pc, !.obj = o]
<1>1. CASE Finish(p)
  BY <1>1, FinishStep, Reads DEF GetObject, Types
<1>2. CASE Live(c) /\ req' = [req EXCEPT ![p] = v]
  <2>1. /\ req[p].pc = "oget" /\ c \in Clusters
        /\ req[p].kind \in {"restart", "scale", "modify"}
    BY Reads DEF GetObject, RequestInv, Placed, Place, InFlight
  <2>2. n \in Nat /\ kube[c] \in Object
    BY <2>1, Reads DEF Types, Request, Object, InFlight
  <2>3. o \in Object /\ o.rv = kube[c].rv /\ o.tpl = kube[c].tpl /\ kube[c].rv \in Nat
    BY <2>2 DEF Object
  <2>4. o.tpl \in Tpls
    BY <1>2, <2>2, <2>3 DEF Live, Object
  <2> HIDE DEF n, o
  <2>5. v \in Request /\ v.pc = pc /\ v.kind = req[p].kind /\ v.cluster = c
        /\ v.obj = o /\ v.hist = req[p].hist /\ v.id = req[p].id /\ v.tpl = req[p].tpl
    BY <2>3, Reads DEF Request, ReqPCs
  <2> HIDE DEF v
  <2>6. /\ req' \in [Procs -> Request] /\ req'[p] = v
        /\ \A q \in Procs : q # p => req'[q] = req[q]
    BY <1>2, <2>5, Reads DEF Types
  <2>7. lastId' = lastId /\ kube' = kube /\ applied' = applied
    BY DEF GetObject, status
  <2>8. RequestInv(p)'
    BY <2>1, <2>3, <2>4, <2>5, <2>6, <2>7, Reads
       DEF RequestInv, Placed, Place, Named, Publishes, Rewrites, Carries, Truthful, Ran,
           InFlight
  <2> QED
    BY <2>6, <2>8, QuietStep, Reads DEF GetObject, Types
<1> QED
  BY <1>1, <1>2 DEF GetObject

(* The template that publish_status names is one its cluster did run.      *)
LEMMA GetByClusterStep ==
  ASSUME PipeInv, NEW p \in Procs, GetByCluster(p)
  PROVE  PipeInv'
<1>1. CASE Finish(p)
  BY <1>1, FinishStep, Reads DEF GetByCluster, Types
<1>2. CASE ~Finish(p)
  <2>1. PICK r \in rows :
          /\ r.cluster = req[p].cluster
          /\ req' = [req EXCEPT ![p] = [req[p] EXCEPT !.pc = "kget", !.tpl = r.tpl]]
    BY <1>2 DEF GetByCluster
  <2>2. r.tpl \in Tpls /\ <<req[p].cluster, r.tpl>> \in applied
    BY <2>1 DEF PipeInv, TableRan, PSP!TypeInv, PSP!TypeOK, PSP!Row
  <2> DEFINE v == [req[p] EXCEPT !.pc = "kget", !.tpl = r.tpl]
  <2>3. v \in Request /\ v.pc = "kget" /\ v.kind = req[p].kind
        /\ v.cluster = req[p].cluster /\ v.tpl = r.tpl /\ v.obj = req[p].obj
        /\ v.hist = req[p].hist /\ v.id = req[p].id
    BY <2>2, Reads DEF Request, ReqPCs
  <2> HIDE DEF v
  <2>4. req' = [req EXCEPT ![p] = v]
    BY <2>1 DEF v
  <2>5. /\ req' \in [Procs -> Request] /\ req'[p] = v
        /\ \A q \in Procs : q # p => req'[q] = req[q]
    BY <2>3, <2>4, Reads DEF Types
  <2>6. lastId' = lastId /\ kube' = kube /\ applied' = applied /\ req[p].pc = "online"
    BY DEF GetByCluster, status
  <2>7. req[p].kind \in {"restart", "scale"}
    BY <2>6, Reads DEF RequestInv, Placed, Place
  <2>8. RequestInv(p)'
    BY <2>2, <2>3, <2>5, <2>6, <2>7, Reads
       DEF RequestInv, Placed, Place, Named, Publishes, Rewrites, Carries, Truthful, Ran,
           InFlight
  <2> QED
    BY <2>5, <2>8, QuietStep, Reads DEF GetByCluster, Types
<1> QED
  BY <1>1, <1>2

(* The object is looked at, or replaced by the one to publish.             *)
LEMMA GetOldStep ==
  ASSUME PipeInv, NEW p \in Procs, GetOld(p)
  PROVE  PipeInv'
<1> DEFINE c == req[p].cluster
           spec == [tpl |-> req[p].tpl, reps |-> req[p].reps, rv |-> kube[c].rv]
<1>1. /\ req[p].pc = "kget" /\ c \in Clusters /\ kube[c] \in Object
      /\ req[p].kind \in {"deploy", "upgrade", "restart", "scale"}
  BY Reads DEF GetOld, RequestInv, Placed, Place, InFlight
<1>2. spec \in Object
  BY <1>1, Reads DEF Object, Request
<1>3. CASE FailTo(p, "record")
  BY <1>1, <1>3, MoveStep, Reads DEF GetOld, Types, ReqPCs
<1>4. ASSUME NEW pc \in {"kput", "kcreate"}, NEW o \in Object,
             Publishes(p) => o.tpl = req[p].tpl,
             ~Publishes(p) => o = req[p].obj /\ pc = "kput",
             req' = [req EXCEPT ![p] = [req[p] EXCEPT !.pc = pc, !.obj = o]]
      PROVE  PipeInv'
  <2> DEFINE v == [req[p] EXCEPT !.pc = pc, !.obj = o]
  <2>1. v \in Request /\ v.pc = pc /\ v.kind = req[p].kind /\ v.cluster = c
        /\ v.obj = o /\ v.hist = req[p].hist /\ v.id = req[p].id /\ v.tpl = req[p].tpl
    BY <1>4, Reads DEF Request, ReqPCs
  <2> HIDE DEF v
  <2>2. req' = [req EXCEPT ![p] = v]
    BY <1>4 DEF v
  <2>3. /\ req' \in [Procs -> Request] /\ req'[p] = v
        /\ \A q \in Procs : q # p => req'[q] = req[q]
    BY <2>1, <2>2, Reads DEF Types
  <2>4. lastId' = lastId /\ kube' = kube /\ applied' = applied
    BY DEF GetOld, status
  <2>5. Placed(p)'
    BY <1>1, <1>4, <2>1, <2>3 DEF Placed, Place, Publishes
  <2>6. Named(p)'
    BY <1>1, <2>1, <2>3, <2>4, Reads DEF RequestInv, Named, Publishes, InFlight
  <2>7. Truthful(p)'
    BY <1>1, <2>1, <2>3, <2>4, Reads DEF RequestInv, Truthful, Ran, InFlight
  <2>8. Carries(p)'
    BY <1>1, <1>4, <2>1, <2>3, <2>4, Reads DEF RequestInv, Carries, Publishes, Rewrites
  <2> QED
    BY <2>3, <2>5, <2>6, <2>7, <2>8, QuietStep, Reads DEF GetOld, Types, RequestInv
<1>5. CASE Live(c) /\ Publishes(p)
           /\ req' = [req EXCEPT ![p] = [req[p] EXCEPT !.pc = "kput", !.obj = spec]]
  BY <1>2, <1>4, <1>5
<1>6. CASE Publishes(p)
           /\ req' = [req EXCEPT ![p] = [req[p] EXCEPT !.pc = "kcreate", !.obj = spec]]
  BY <1>2, <1>4, <1>6
<1>7. CASE ~Publishes(p)
           /\ req' = [req EXCEPT ![p] = [req[p] EXCEPT !.pc = "kput", !.obj = req[p].obj]]
  <2>1. req[p].obj \in Object
    BY Reads DEF Request
  <2> QED
    BY <1>4, <1>7, <2>1
<1> QED
  BY <1>3, <1>5, <1>6, <1>7 DEF GetOld, Publishes

(* What the API server accepts: the template the request publishes, or the *)
(* one the cluster runs.                                                   *)
LEMMA AcceptedObject ==
  ASSUME PipeInv, NEW p \in Procs, req[p].pc \in {"kcreate", "kput"}, Accepted(p)
  PROVE  /\ req[p].cluster \in Clusters
         /\ req[p].obj \in Object /\ req[p].obj.tpl \in Tpls
         /\ Publishes(p) => req[p].obj.tpl = req[p].tpl
         /\ Rewrites(p) => /\ Live(req[p].cluster)
                           /\ req[p].obj.tpl = kube[req[p].cluster].tpl
         /\ Publishes(p) \/ Rewrites(p)
<1>1. Placed(p) /\ Named(p) /\ Carries(p) /\ InFlight(p) /\ req[p] \in Request
  BY Reads DEF RequestInv, InFlight
<1>2. Publishes(p) \/ Rewrites(p)
  BY <1>1 DEF Placed, Place, Publishes, Rewrites
<1>3. req[p].cluster \in Clusters /\ req[p].obj \in Object
  BY <1>1 DEF Named, Request
<1>4. Rewrites(p) => req[p].pc = "kput"
  BY <1>1 DEF Rewrites, Placed, Place
<1>5. Rewrites(p) => /\ Live(req[p].cluster) /\ req[p].obj.tpl \in Tpls
                     /\ req[p].obj.tpl = kube[req[p].cluster].tpl
  BY <1>1, <1>4 DEF Accepted, Carries
<1>6. Publishes(p) => req[p].obj.tpl = req[p].tpl /\ req[p].tpl \in Tpls
  BY <1>1 DEF Carries, Named
<1> QED
  BY <1>2, <1>3, <1>5, <1>6

(* The cluster then runs that template, and has run it ever after.         *)
LEMMA StoreKeeps ==
  ASSUME PipeInv, NEW p \in Procs, req[p].pc \in {"kcreate", "kput"}, Accepted(p), Store(p),
         UNCHANGED <<status, history, meta, started>>, req' \in [Procs -> Request],
         \A q \in Procs : q # p => req'[q] = req[q], RequestInv(p)'
  PROVE  PipeInv'
<1> DEFINE c == req[p].cluster
           o == req[p].obj
           n == [o EXCEPT !.rv = kube[c].rv + 1]
<1>1. c \in Clusters /\ o \in Object /\ o.tpl \in Tpls
  BY AcceptedObject
<1>2. kube \in [Clusters -> Object] /\ kube[c].rv \in Nat
  BY <1>1, Reads DEF Types, Object
<1>3. n \in Object /\ n.tpl = o.tpl /\ n.rv = kube[c].rv + 1
  BY <1>1, <1>2 DEF Object
<1>4. kube' = [kube EXCEPT ![c] = n] /\ applied' = applied \cup {<<c, o.tpl>>}
  BY DEF Store
<1> HIDE DEF n
<1>5. kube' \in [Clusters -> Object] /\ kube'[c] = n
      /\ \A d \in Clusters : d # c => kube'[d] = kube[d]
  BY <1>1, <1>2, <1>3, <1>4
<1>6. PSP!TypeInv'
  BY DEF PipeInv, PSP!TypeInv, PSP!TypeOK, PSP!Holds, PSP!Publishing, PSP!Idle, status
<1>7. unsettled' \subseteq Clusters
  BY <1>1, Reads DEF Store, Types
<1>8. Types'
  BY <1>1, <1>4, <1>5, <1>7, Reads DEF Types
<1>9. Grows
  BY <1>2, <1>3, <1>4, <1>5, <1>6 DEF Grows, status, PSP!TypeInv, PSP!TypeOK
<1>10. \A q \in Procs : RequestInv(q)'
  BY <1>5, <1>9, OthersKeep
<1>11. TableRan' /\ HistoryRan'
  BY <1>4 DEF PipeInv, TableRan, HistoryRan, PSP!Publishing, status
<1>12. LiveRan'
  BY <1>3, <1>4, <1>5 DEF PipeInv, LiveRan, Live
<1> QED
  BY <1>6, <1>8, <1>10, <1>11, <1>12 DEF PipeInv

(* The object is stored and the answer arrives.                            *)
LEMMA WriteStep ==
  ASSUME PipeInv, NEW p \in Procs, Write(p)
  PROVE  PipeInv'
<1>1. req[p].pc \in {"kcreate", "kput"} /\ Accepted(p) /\ Store(p)
      /\ UNCHANGED <<status, history, meta, started>>
  BY DEF Write
<1>2. CASE req[p].kind = "modify"
  <2>1. Finish(p)
    BY <1>2 DEF Write, Finish
  <2> QED
    BY <1>1, <2>1, FinishFields, IdleInv, StoreKeeps, Reads
<1>3. CASE req[p].kind # "modify"
  <2> DEFINE v == [req[p] EXCEPT !.pc = "status", !.hist = "ok"]
  <2>1. v \in Request /\ v.pc = "status" /\ v.kind = req[p].kind
        /\ v.cluster = req[p].cluster /\ v.hist = "ok" /\ v.id = req[p].id
        /\ v.tpl = req[p].tpl
    BY Reads DEF Request, ReqPCs, Outcome
  <2>2. req' = [req EXCEPT ![p] = v]
    BY <1>3 DEF Write
  <2> HIDE DEF v
  <2>3. /\ req' \in [Procs -> Request] /\ req'[p] = v
        /\ \A q \in Procs : q # p => req'[q] = req[q]
    BY <2>1, <2>2, Reads DEF Types
  <2>4. lastId' = lastId /\ applied' = applied \cup {<<req[p].cluster, req[p].obj.tpl>>}
    BY <1>1 DEF Store, status
  <2>5. /\ req[p].cluster \in Clusters
        /\ req[p].kind \in {"deploy", "upgrade", "restart", "scale"}
        /\ req[p].kind \in {"deploy", "upgrade"} => req[p].tpl \in Tpls
    BY <1>1, <1>3, Reads, AcceptedObject DEF RequestInv, Placed, Place, Named, Publishes
  <2>6. <<req[p].cluster, req[p].tpl>> \in applied'
    <3>1. CASE Publishes(p)
      BY <1>1, <2>4, <3>1, AcceptedObject
    <3>2. CASE ~Publishes(p)
      <4>1. req[p].kind \in {"restart", "scale"} /\ req[p].pc = "kput"
        BY <1>1, <2>5, <3>2, Reads DEF Publishes, RequestInv, Placed, Place
      <4> QED
        BY <2>4, <4>1, Reads DEF RequestInv, Truthful, Ran
    <3> QED
      BY <3>1, <3>2
  <2>7. RequestInv(p)'
    BY <2>1, <2>3, <2>4, <2>5, <2>6
       DEF RequestInv, Placed, Place, Named, Publishes, Rewrites, Carries, Truthful, Ran,
           InFlight
  <2> QED
    BY <1>1, <2>3, <2>7, StoreKeeps
<1> QED
  BY <1>2, <1>3

(* The object is refused, or the answer is lost.                           *)
LEMMA WriteFailsStep ==
  ASSUME PipeInv, NEW p \in Procs, WriteFails(p)
  PROVE  PipeInv'
<1>1. req[p].pc \in {"kcreate", "kput"} /\ UNCHANGED <<status, history, meta, started>>
  BY DEF WriteFails
<1>2. IF req[p].kind = "modify" THEN Finish(p) ELSE FailTo(p, "record")
  BY DEF WriteFails
<1>3. CASE UNCHANGED <<kube, applied, unsettled>>
  <2>1. CASE req[p].kind = "modify"
    BY <1>1, <1>2, <1>3, <2>1, FinishStep, Reads DEF Types
  <2>2. CASE req[p].kind # "modify"
    BY <1>1, <1>2, <1>3, <2>2, MoveStep, Reads DEF Types, ReqPCs
  <2> QED
    BY <2>1, <2>2
<1>4. CASE Accepted(p) /\ Store(p)
  <2>1. CASE req[p].kind = "modify"
    BY <1>1, <1>2, <1>4, <2>1, FinishFields, IdleInv, StoreKeeps, Reads
  <2>2. CASE req[p].kind # "modify"
    <3>1. /\ req' \in [Procs -> Request] /\ req'[p].pc = "record"
          /\ \A q \in Procs : q # p => req'[q] = req[q]
          /\ req'[p].kind = req[p].kind /\ req'[p].cluster = req[p].cluster
          /\ req'[p].tpl = req[p].tpl /\ req'[p].id = req[p].id
          /\ req'[p].obj = req[p].obj /\ req'[p].hist = "fail"
      BY <1>2, <2>2, FailToFields, Reads DEF ReqPCs
    <3>2. lastId' = lastId /\ applied \subseteq applied'
      BY <1>1, <1>4 DEF Store, status
    <3>3. RequestInv(p)'
      <4>1. Placed(p)'
        BY <1>1, <2>2, <3>1, Reads DEF RequestInv, Placed, Place
      <4>2. Named(p)'
        BY <1>1, <3>1, <3>2, Reads DEF RequestInv, Named, Publishes, InFlight
      <4>3. Carries(p)'
        BY <3>1 DEF Carries
      <4>4. Truthful(p)'
        BY <1>1, <3>1, <3>2, Reads DEF RequestInv, Placed, Place, Truthful, Ran, InFlight
      <4> QED
        BY <4>1, <4>2, <4>3, <4>4 DEF RequestInv
    <3> QED
      BY <1>1, <1>4, <3>1, <3>3, StoreKeeps
  <2> QED
    BY <2>1, <2>2
<1> QED
  BY <1>3, <1>4 DEF WriteFails

(* The object of a cluster goes: nothing is live there.                    *)
LEMMA GoneKeeps ==
  ASSUME PipeInv, NEW p \in Procs, InFlight(p),
         kube' = [kube EXCEPT ![req[p].cluster] =
                    [tpl |-> None, reps |-> 0, rv |-> kube[req[p].cluster].rv + 1]],
         unsettled' = unsettled \cup {req[p].cluster},
         UNCHANGED <<status, history, meta, started, applied>>,
         req' \in [Procs -> Request],
         \A q \in Procs : q # p => req'[q] = req[q], RequestInv(p)'
  PROVE  PipeInv'
<1> DEFINE c == req[p].cluster
           n == [tpl |-> None, reps |-> 0, rv |-> kube[c].rv + 1]
<1>1. c \in Clusters /\ kube[c].rv \in Nat /\ kube \in [Clusters -> Object]
  BY Reads DEF Types, Object
<1>2. n \in Object /\ n.tpl = None /\ n.rv = kube[c].rv + 1
  BY <1>1 DEF Object
<1>3. kube' = [kube EXCEPT ![c] = n]
  OBVIOUS
<1> HIDE DEF n
<1>4. kube' \in [Clusters -> Object] /\ kube'[c] = n
      /\ \A d \in Clusters : d # c => kube'[d] = kube[d]
  BY <1>1, <1>2, <1>3
<1>5. PSP!TypeInv'
  BY DEF PipeInv, PSP!TypeInv, PSP!TypeOK, PSP!Holds, PSP!Publishing, PSP!Idle, status
<1>6. Types'
  BY <1>1, <1>4, Reads DEF Types
<1>7. Grows
  BY <1>1, <1>2, <1>4, <1>5 DEF Grows, status, PSP!TypeInv, PSP!TypeOK
<1>8. \A q \in Procs : RequestInv(q)'
  BY <1>4, <1>7, OthersKeep
<1>9. TableRan' /\ HistoryRan'
  BY DEF PipeInv, TableRan, HistoryRan, PSP!Publishing, status
<1>10. LiveRan'
  BY <1>2, <1>4 DEF PipeInv, LiveRan, Live
<1> QED
  BY <1>5, <1>6, <1>8, <1>9, <1>10 DEF PipeInv

(* The object of an offline goes, or its deletion fails.                   *)
LEMMA DeleteObjectStep ==
  ASSUME PipeInv, NEW p \in Procs, DeleteObject(p)
  PROVE  PipeInv'
<1> DEFINE c == req[p].cluster
           gone == /\ kube' = [kube EXCEPT ![c] = [tpl |-> None, reps |-> 0,
                                                   rv |-> kube[c].rv + 1]]
                   /\ unsettled' = unsettled \cup {c}
<1>1. /\ req[p].pc = "kdelete" /\ InFlight(p) /\ c \in Clusters
      /\ req[p].kind = "offline" /\ req[p].id \in 1..lastId
      /\ UNCHANGED <<status, meta, history, started, applied>>
  BY Reads DEF DeleteObject, RequestInv, Placed, Place, Named, InFlight
<1>2. CASE gone /\ Goto(p, "status")
  <2>1. /\ req' \in [Procs -> Request] /\ req'[p].pc = "status"
        /\ \A q \in Procs : q # p => req'[q] = req[q]
        /\ req'[p].kind = req[p].kind /\ req'[p].cluster = req[p].cluster
        /\ req'[p].tpl = req[p].tpl /\ req'[p].id = req[p].id
        /\ req'[p].hist = req[p].hist
    BY <1>2, GotoFields, Reads DEF ReqPCs
  <2>2. lastId' = lastId /\ applied' = applied
    BY <1>1 DEF status
  <2>3. RequestInv(p)'
    BY <1>1, <2>1, <2>2, Reads
       DEF RequestInv, Placed, Place, Named, Publishes, Rewrites, Carries, Truthful, Ran,
           InFlight
  <2> QED
    BY <1>1, <1>2, <2>1, <2>3, GoneKeeps
<1>3. CASE gone /\ Finish(p)
  BY <1>1, <1>3, GoneKeeps, FinishFields, IdleInv, Reads
<1>4. CASE UNCHANGED kube /\ Goto(p, "status") /\ unsettled' \subseteq Clusters
  BY <1>1, <1>4, MoveStep, Reads DEF Types, ReqPCs
<1>5. CASE UNCHANGED kube /\ Finish(p) /\ unsettled' \subseteq Clusters
  BY <1>1, <1>5, FinishStep, Reads DEF Types
<1>6. \/ gone /\ Goto(p, "status")
      \/ gone /\ Finish(p)
      \/ UNCHANGED kube /\ unsettled' \in {unsettled, unsettled \cup {c}}
           /\ (Goto(p, "status") \/ Finish(p))
  BY DEF DeleteObject
<1>7. unsettled \cup {c} \subseteq Clusters /\ unsettled \subseteq Clusters
  BY <1>1, Reads DEF Types
<1> QED
  BY <1>2, <1>3, <1>4, <1>5, <1>6, <1>7

(***************************************************************************)
(* The status call begins and ends.                                        *)
(***************************************************************************)
LEMMA CallsAre ==
  ASSUME NEW p \in Procs, NEW c, NEW t, NEW id
  PROVE  /\ PS!Add(p, c, t) => PSP!Add(p, c, t)
         /\ PS!DeleteById(p, id) => PSP!DeleteById(p, id)
<1>1. PS!Room = PSP!Room
  BY DEF PS!Room, PSP!Room, PS!Publishing, PSP!Publishing, PS!PublishPCs, PSP!PublishPCs,
         PS!Cardinality, PSP!Cardinality
<1>2. PS!Add(p, c, t) => PSP!Add(p, c, t)
  BY <1>1 DEF PS!Add, PSP!Add, PS!Idle, PSP!Idle, PS!Publishing, PSP!Publishing,
         PS!PublishPCs, PSP!PublishPCs
<1>3. PS!DeleteById(p, id) => PSP!DeleteById(p, id)
  BY DEF PS!DeleteById, PSP!DeleteById, PS!Idle, PSP!Idle
<1> QED
  BY <1>2, <1>3

(* The status call gets what the request named.                            *)
LEMMA CallStatusStep ==
  ASSUME PipeInv, NEW p \in Procs, CallStatus(p)
  PROVE  PipeInv'
<1> DEFINE c == req[p].cluster
           t == req[p].tpl
<1>1. /\ req[p].pc = "status" /\ InFlight(p) /\ c \in Clusters /\ Goto(p, "called")
      /\ UNCHANGED <<kube, meta, history, started, applied, unsettled>>
  BY Reads DEF CallStatus, InFlight
<1>2. /\ req' \in [Procs -> Request] /\ req'[p].pc = "called"
      /\ \A q \in Procs : q # p => req'[q] = req[q]
      /\ req'[p].kind = req[p].kind /\ req'[p].cluster = req[p].cluster
      /\ req'[p].tpl = req[p].tpl /\ req'[p].id = req[p].id
      /\ req'[p].hist = req[p].hist
  BY <1>1, GotoFields, Reads DEF ReqPCs
<1>3. /\ PSP!TypeInv' /\ lastId' = lastId /\ rows' = rows
      /\ \A q \in Procs : PSP!Publishing(q)' =>
           \/ PSP!Publishing(q) /\ tx'[q].cluster = tx[q].cluster /\ tx'[q].tpl = tx[q].tpl
           \/ <<tx'[q].cluster, tx'[q].tpl>> \in applied
  <2>1. CASE req[p].kind = "offline"
    <3>1. PSP!DeleteById(p, req[p].id) /\ req[p].id \in 1..lastId
      BY <2>1, CallsAre, Reads DEF CallStatus, RequestInv, Named
    <3>2. PSP!TypeInv'
      BY <3>1, StatusConstants, PSP!StepTypeInv DEF PipeInv, PSP!Next
    <3>3. \A q \in Procs : PSP!Publishing(q)' => PSP!Publishing(q) /\ tx'[q] = tx[q]
      BY <3>1 DEF PSP!DeleteById, PSP!Publishing, PSP!PublishPCs, PipeInv, PSP!TypeInv,
                  PSP!TypeOK, PSP!Tx
    <3> QED
      BY <3>1, <3>2, <3>3 DEF PSP!DeleteById
  <2>2. CASE req[p].kind # "offline"
    <3>1. <<c, t>> \in applied
      BY <1>1, <2>2, Reads DEF RequestInv, Truthful, Ran
    <3>2. t \in Tpls
      BY <3>1, Reads DEF Types
    <3>3. PSP!Add(p, c, t)
      BY <2>2, CallsAre DEF CallStatus
    <3>4. PSP!TypeInv'
      BY <1>1, <3>2, <3>3, StatusConstants, PSP!StepTypeInv DEF PipeInv, PSP!Next
    <3>5. \A q \in Procs : q # p => tx'[q] = tx[q]
      BY <3>3 DEF PSP!Add, PipeInv, PSP!TypeInv, PSP!TypeOK
    <3>6. tx'[p].cluster = c /\ tx'[p].tpl = t
      BY <3>3 DEF PSP!Add, PipeInv, PSP!TypeInv, PSP!TypeOK, PSP!Tx
    <3> QED
      BY <3>1, <3>3, <3>4, <3>5, <3>6 DEF PSP!Add, PSP!Publishing
  <2> QED
    BY <2>1, <2>2
<1>4. TableRan'
  BY <1>1, <1>3 DEF PipeInv, TableRan
<1>5. Types' /\ Grows
  BY <1>1, <1>2, <1>3, Reads DEF Types, Grows
<1>6. RequestInv(p)'
  BY <1>1, <1>2, <1>3, Reads
     DEF RequestInv, Placed, Place, Named, Publishes, Rewrites, Carries, Truthful, Ran,
         InFlight
<1>7. \A q \in Procs : RequestInv(q)'
  BY <1>2, <1>5, <1>6, OthersKeep DEF Types
<1>8. LiveRan' /\ HistoryRan'
  BY <1>1 DEF PipeInv, LiveRan, HistoryRan, Live
<1> QED
  BY <1>3, <1>4, <1>5, <1>7, <1>8 DEF PipeInv

(* The status call has returned.                                           *)
LEMMA StatusReturnsStep ==
  ASSUME PipeInv, NEW p \in Procs, StatusReturns(p)
  PROVE  PipeInv'
<1>1. /\ req[p].pc = "called" /\ UNCHANGED <<status, kube, meta, history, started, applied>>
      /\ unsettled' \subseteq Clusters
  BY Reads DEF StatusReturns, Types
<1>2. \/ Finish(p)
      \/ req[p].kind = "deploy" /\ Goto(p, "meta")
      \/ req[p].kind # "offline" /\ Goto(p, "record")
  BY DEF StatusReturns
<1> QED
  BY <1>1, <1>2, FinishStep, MoveStep, Reads DEF Types, ReqPCs

(* The deployment row is written back.                                     *)
LEMMA UpdateMetaStep ==
  ASSUME PipeInv, NEW p \in Procs, UpdateMeta(p)
  PROVE  PipeInv'
<1>1. /\ req[p].pc = "meta" /\ AfterMeta(p)
      /\ UNCHANGED <<status, kube, history, started, applied, unsettled>>
  BY DEF UpdateMeta
<1>2. meta' \in [Clusters -> Nat]
  BY Reads DEF UpdateMeta, Types, Request
<1> QED
  BY <1>1, <1>2, FinishStep, MoveStep, Reads DEF AfterMeta, Types, ReqPCs

(* The history row says of the request what is true of it.                 *)
LEMMA RecordStep ==
  ASSUME PipeInv, NEW p \in Procs, Record(p)
  PROVE  PipeInv'
<1> DEFINE row == [cluster |-> req[p].cluster, tpl |-> req[p].tpl, status |-> req[p].hist]
<1>1. /\ req[p].pc = "record" /\ InFlight(p)
      /\ UNCHANGED <<status, kube, meta, started, applied, unsettled>>
      /\ history' = history \cup {row} \/ history' = history
  BY DEF Record, InFlight
<1>2. /\ req[p].cluster \in Clusters
      /\ req[p].kind \in {"deploy", "upgrade", "restart", "scale"}
      /\ req[p].kind \in {"restart", "scale"} => Ran(p)
      /\ req[p].hist = "ok" => Ran(p)
  BY <1>1, Reads DEF RequestInv, Placed, Place, Truthful
<1>3. req[p].tpl \in Tpls
  BY <1>2, Reads DEF Types, RequestInv, Named, Publishes, Ran
<1>4. row \in [cluster : Clusters, tpl : Tpls, status : Outcome]
  BY <1>2, <1>3, Reads DEF Request
<1>5. row.status = "ok" => <<row.cluster, row.tpl>> \in applied
  BY <1>2 DEF Ran
<1> HIDE DEF row
<1>6. HistoryRan'
  BY <1>1, <1>5 DEF PipeInv, HistoryRan
<1>7. /\ req' \in [Procs -> Request]
      /\ \A q \in Procs : q # p => req'[q] = req[q]
      /\ RequestInv(p)'
  <2>1. CASE Finish(p)
    BY <2>1, FinishFields, IdleInv, Reads
  <2>2. CASE req[p].kind = "scale" /\ req[p].hist = "ok" /\ Goto(p, "meta")
    <3>1. /\ req' \in [Procs -> Request] /\ req'[p].pc = "meta"
          /\ \A q \in Procs : q # p => req'[q] = req[q]
          /\ req'[p].kind = "scale" /\ req'[p].cluster = req[p].cluster
          /\ req'[p].tpl = req[p].tpl /\ req'[p].hist = req[p].hist
      BY <2>2, GotoFields, Reads DEF ReqPCs
    <3>2. Ran(p)'
      BY <1>1, <1>2, <2>2, <3>1 DEF Ran
    <3>3. RequestInv(p)'
      BY <1>2, <2>2, <3>1, <3>2
         DEF RequestInv, Placed, Place, Named, Publishes, Rewrites, Carries, Truthful,
             InFlight
    <3> QED
      BY <3>1, <3>3
  <2> QED
    BY <2>1, <2>2 DEF Record
<1>8. PSP!TypeInv'
  BY <1>1 DEF PipeInv, PSP!TypeInv, PSP!TypeOK, PSP!Holds, PSP!Publishing, PSP!Idle, status
<1>9. Types'
  BY <1>1, <1>4, <1>7, Reads DEF Types
<1>10. Grows
  BY <1>1, <1>8 DEF Grows, status, PSP!TypeInv, PSP!TypeOK
<1>11. \A q \in Procs : RequestInv(q)'
  BY <1>7, <1>9, <1>10, OthersKeep DEF Types
<1>12. TableRan' /\ LiveRan'
  BY <1>1 DEF PipeInv, TableRan, LiveRan, Live, PSP!Publishing, status
<1> QED
  BY <1>6, <1>8, <1>9, <1>11, <1>12 DEF PipeInv

(* A crash leaves the database and the clusters as they are.               *)
LEMMA CrashStep ==
  ASSUME PipeInv, Crash
  PROVE  PipeInv'
<1>1. PSP!Crash
  BY DEF Crash, PS!Crash, PSP!Crash, PS!IdleTx, PSP!IdleTx
<1>2. PSP!TypeInv'
  BY <1>1, StatusConstants, PSP!StepTypeInv DEF PipeInv, PSP!Next
<1>3. /\ req' = [p \in Procs |-> NoRequest]
      /\ UNCHANGED <<kube, meta, history, started, applied, unsettled>>
  BY DEF Crash
<1>4. Types'
  BY <1>3, NoRequestType, Reads DEF PipeInv, Types
<1>5. \A p \in Procs : RequestInv(p)'
  BY <1>3, IdleInv
<1>6. rows' = rows /\ \A p \in Procs : ~PSP!Publishing(p)'
  BY <1>1 DEF PSP!Crash, PSP!Publishing, PSP!PublishPCs, PSP!IdleTx
<1>7. TableRan' /\ LiveRan' /\ HistoryRan'
  BY <1>3, <1>6 DEF PipeInv, TableRan, LiveRan, HistoryRan, Live
<1> QED
  BY <1>2, <1>4, <1>5, <1>7 DEF PipeInv

(* Every step keeps the invariant.                                         *)
LEMMA StepPipe == PipeInv /\ [Next]_vars => PipeInv'
<1> SUFFICES ASSUME PipeInv, [Next]_vars PROVE PipeInv'
  OBVIOUS
<1>1. ASSUME NEW p \in Procs, NEW c \in Clusters,
             \/ \E t \in Tpls, n \in Replicas : Start(p, "deploy", c, t, n)
             \/ \E t \in Tpls : Start(p, "upgrade", c, t, 0)
             \/ Start(p, "restart", c, None, 0)
             \/ \E n \in Replicas, kind \in {"scale", "modify"} : Start(p, kind, c, None, n)
             \/ \E id \in 1..lastId, force \in BOOLEAN : StartOffline(p, c, id, force)
      PROVE  PipeInv'
  <2>1. Replicas \subseteq Nat
    BY RequestsAssumption
  <2>2. ASSUME NEW t \in Tpls, NEW n \in Replicas, Start(p, "deploy", c, t, n)
        PROVE  PipeInv'
    BY <2>1, <2>2, StartStep DEF Kinds
  <2>3. ASSUME NEW t \in Tpls, Start(p, "upgrade", c, t, 0)
        PROVE  PipeInv'
    BY <2>3, StartStep DEF Kinds
  <2>4. CASE Start(p, "restart", c, None, 0)
    BY <2>4, StartStep DEF Kinds
  <2>5. ASSUME NEW n \in Replicas, NEW kind \in {"scale", "modify"}, Start(p, kind, c, None, n)
        PROVE  PipeInv'
    BY <2>1, <2>5, StartStep DEF Kinds
  <2>6. ASSUME NEW id \in 1..lastId, NEW force \in BOOLEAN, StartOffline(p, c, id, force)
        PROVE  PipeInv'
    BY <2>6, StartOfflineStep
  <2> QED
    BY <1>1, <2>2, <2>3, <2>4, <2>5, <2>6
<1>2. ASSUME NEW p \in Procs, Step(p)
      PROVE  PipeInv'
  BY <1>2, ReadRowStep, CheckResourceStep, GetObjectStep, GetByClusterStep, GetOldStep,
     WriteStep, WriteFailsStep, DeleteObjectStep, CallStatusStep, StatusStepInv,
     StatusReturnsStep, UpdateMetaStep, RecordStep
     DEF Step
<1>3. CASE UNCHANGED vars
  <2>1. PSP!TypeInv'
    BY <1>3 DEF vars, status, PipeInv, PSP!TypeInv, PSP!TypeOK, PSP!Holds, PSP!Publishing,
                PSP!Idle
  <2>2. Types' /\ \A p \in Procs : RequestInv(p)'
    BY <1>3
       DEF vars, status, PipeInv, Types, RequestInv, Placed, Place, Named, Publishes,
           Rewrites, Carries, Truthful, Ran, InFlight
  <2>3. TableRan' /\ LiveRan' /\ HistoryRan'
    BY <1>3 DEF vars, status, PipeInv, TableRan, LiveRan, HistoryRan, Live, PSP!Publishing
  <2> QED
    BY <2>1, <2>2, <2>3 DEF PipeInv
<1> QED
  BY <1>1, <1>2, <1>3, CrashStep DEF Next

(* It holds of a new deployment, and of one that runs on one cluster.      *)
LEMMA InitPipe == Init => PipeInv
<1> SUFFICES ASSUME Init PROVE PipeInv
  OBVIOUS
<1>1. None \notin Tpls /\ None \notin Kinds /\ 0 \in 0..MaxRequests
  BY StatusAssumption, RequestsAssumption
<1>2. req \in [Procs -> Request] /\ started \in 0..MaxRequests /\ unsettled \subseteq Clusters
  BY <1>1, NoRequestType DEF Init
<1>3. \A p \in Procs : RequestInv(p)
  BY <1>1 DEF Init, NoRequest, RequestInv, Placed, Place, Named, Publishes, Rewrites,
              Carries, Truthful, Ran, InFlight, Kinds
<1>4. CASE Fresh
  <2>1. PSP!Init
    BY <1>4 DEF Fresh, PS!Init, PSP!Init, PS!IdleTx, PSP!IdleTx
  <2>2. PSP!TypeInv
    BY <2>1, PSP!InitTypeInv, StatusConstants
  <2>3. Types
    BY <1>2, <1>4 DEF Fresh, Types, Object
  <2>4. TableRan
    BY <2>1 DEF PSP!Init, TableRan, PSP!Publishing, PSP!PublishPCs, PSP!IdleTx
  <2>5. LiveRan /\ HistoryRan
    BY <1>4 DEF Fresh, LiveRan, HistoryRan, Live
  <2> QED
    BY <1>3, <2>2, <2>3, <2>4, <2>5 DEF PipeInv
<1>5. ASSUME NEW c \in Running, NEW t \in Tpls, NEW n \in Replicas, Deployed(c, t, n)
      PROVE  PipeInv
  <2>1. c \in Clusters /\ n \in Nat
    BY RequestsAssumption
  <2>2. tx = [p \in Procs |-> PSP!IdleTx]
    BY <1>5 DEF Deployed, PS!IdleTx, PSP!IdleTx
  <2>3. PSP!TypeOK
    BY <1>5, <2>1, <2>2
       DEF Deployed, PSP!TypeOK, PSP!Row, PSP!Tx, PSP!IdleTx, PSP!PCs, PSP!PublishPCs,
           PSP!Replies
  <2>4. \A p \in Procs : PSP!Holds(p) /\ ~PSP!Publishing(p)
    BY <2>2 DEF PSP!Holds, PSP!Publishing, PSP!PublishPCs, PSP!Idle, PSP!IdleTx
  <2>5. Types
    BY <1>2, <1>5, <2>1 DEF Deployed, Types, Object, Outcome
  <2>6. TableRan
    BY <1>5, <2>4 DEF Deployed, TableRan
  <2>7. LiveRan /\ HistoryRan
    BY <1>5 DEF Deployed, LiveRan, HistoryRan, Live
  <2> QED
    BY <1>3, <2>3, <2>4, <2>5, <2>6, <2>7 DEF PipeInv, PSP!TypeInv
<1> QED
  BY <1>4, <1>5 DEF Init

(***************************************************************************)
(* Theorems                                                                *)
(***************************************************************************)

(* Each request is where its kind may be, carries the object it should,    *)
(* and names only templates that its cluster did run.                      *)
THEOREM PipeInvariant == Spec => []PipeInv
  BY InitPipe, StepPipe, PTL DEF Spec

(* Every variable has its type.                                            *)
THEOREM TypeCorrect == Spec => []TypeOK
<1>1. PipeInv => TypeOK
  BY DEF PipeInv, Types, TypeOK, PSP!TypeInv, PSP!TypeOK, PS!TypeOK, PSP!Row, PS!Row,
         PSP!Tx, PS!Tx, PSP!PCs, PS!PCs, PSP!PublishPCs, PS!PublishPCs, PSP!Replies,
         PS!Replies
<1> QED
  BY <1>1, PipeInvariant, PTL

(* Whatever overlaps, fails or dies, a status row names a template that its*)
(* cluster did run, and the history calls successful only what the API     *)
(* server stored.                                                          *)
THEOREM OnlyAppliedIsRecorded == Spec => []RecordedWasApplied
<1>1. PipeInv => RecordedWasApplied
  BY DEF PipeInv, TableRan, HistoryRan, RecordedWasApplied
<1> QED
  BY <1>1, PipeInvariant, PTL

(***************************************************************************)
(* The history                                                             *)
(***************************************************************************)

(* A request that is still to write its history row.                       *)
Owes(p) ==
  \/ req[p].pc \in {"status", "called", "record"} /\ req[p].kind # "offline"
  \/ req[p].pc = "meta" /\ req[p].kind = "deploy"

Audited ==
  \A a \in applied :
    \/ \E h \in history : <<h.cluster, h.tpl>> = a
    \/ \E p \in Procs : Owes(p) /\ <<req[p].cluster, req[p].tpl>> = a

(* What one goroutine must see to: what it owes and what it adds.          *)
Honours(p) ==
  Owes(p) =>
    \/ Owes(p)' /\ req'[p].cluster = req[p].cluster /\ req'[p].tpl = req[p].tpl
    \/ \E h \in history' : h.cluster = req[p].cluster /\ h.tpl = req[p].tpl

Adds(p) ==
  \/ applied' = applied
  \/ /\ applied' = applied \cup {<<req'[p].cluster, req'[p].tpl>>}
     /\ Owes(p)'

(* Then nothing that ran is forgotten.                                     *)
LEMMA KeepsAudited ==
  ASSUME Audited, NEW p \in Procs, \A q \in Procs : q # p => req'[q] = req[q],
         history \subseteq history', Honours(p), Adds(p)
  PROVE  Audited'
<1>1. ASSUME NEW a \in applied
      PROVE  \/ \E h \in history' : <<h.cluster, h.tpl>> = a
             \/ \E q \in Procs : Owes(q)' /\ <<req'[q].cluster, req'[q].tpl>> = a
  <2>1. CASE \E h \in history : <<h.cluster, h.tpl>> = a
    BY <2>1
  <2>2. ASSUME NEW q \in Procs, Owes(q), <<req[q].cluster, req[q].tpl>> = a
        PROVE  \/ \E h \in history' : <<h.cluster, h.tpl>> = a
               \/ \E r \in Procs : Owes(r)' /\ <<req'[r].cluster, req'[r].tpl>> = a
    <3>1. CASE q = p
      BY <2>2, <3>1 DEF Honours
    <3>2. CASE q # p
      <4>1. Owes(q)' /\ req'[q] = req[q]
        BY <2>2, <3>2 DEF Owes
      <4> QED
        BY <2>2, <4>1
    <3> QED
      BY <3>1, <3>2
  <2> QED
    BY <2>1, <2>2 DEF Audited
<1> QED
  BY <1>1 DEF Audited, Adds

(* A request that owes nothing yet leaves the audit as it is.              *)
LEMMA NothingOwed ==
  ASSUME Audited, NEW p \in Procs, ~Owes(p), \A q \in Procs : q # p => req'[q] = req[q],
         UNCHANGED <<history, applied>>
  PROVE  Audited'
<1>1. Honours(p)
  BY DEF Honours
<1>2. Adds(p)
  BY DEF Adds
<1> QED
  BY <1>1, <1>2, KeepsAudited

(* The object that is stored is of a template that ran there already, or   *)
(* of the one that the request names.                                      *)
LEMMA StoreAudited ==
  ASSUME PipeInv, Audited, NEW p \in Procs, req[p].pc \in {"kcreate", "kput"},
         Accepted(p), Store(p), history' = history,
         \A q \in Procs : q # p => req'[q] = req[q],
         Publishes(p) => /\ Owes(p)'
                         /\ req'[p].cluster = req[p].cluster /\ req'[p].tpl = req[p].tpl
  PROVE  Audited'
<1>1. ~Owes(p)
  BY DEF Owes
<1>2. applied' = applied \cup {<<req[p].cluster, req[p].obj.tpl>>}
  BY DEF Store
<1>3. CASE Publishes(p)
  <2>1. Honours(p)
    BY <1>1 DEF Honours
  <2>2. Adds(p)
    BY <1>2, <1>3, AcceptedObject DEF Adds
  <2> QED
    BY <2>1, <2>2, KeepsAudited
<1>4. CASE Rewrites(p)
  <2>1. <<req[p].cluster, req[p].obj.tpl>> \in applied
    BY <1>4, AcceptedObject DEF PipeInv, LiveRan
  <2>2. applied' = applied
    BY <1>2, <2>1
  <2> QED
    BY <1>1, <2>2, NothingOwed
<1> QED
  BY <1>3, <1>4, AcceptedObject

(* No step loses the audit of a template.                                  *)
LEMMA StepAudited ==
  ASSUME {"crash", "history"} \cap Faults = {}, PipeInv, Audited, [Next]_vars
  PROVE  Audited'
<1>1. ASSUME NEW p \in Procs, NEW c, NEW kind, NEW t, NEW n, Start(p, kind, c, t, n)
      PROVE  Audited'
  <2>1. ~Owes(p) /\ \A q \in Procs : q # p => req'[q] = req[q]
    BY <1>1, Reads DEF Start, Owes, InFlight, Types
  <2> QED
    BY <1>1, <2>1, NothingOwed DEF Start
<1>2. ASSUME NEW p \in Procs, NEW c, NEW id, NEW force, StartOffline(p, c, id, force)
      PROVE  Audited'
  <2>1. ~Owes(p) /\ \A q \in Procs : q # p => req'[q] = req[q]
    BY <1>2, Reads DEF StartOffline, Owes, InFlight, Types
  <2> QED
    BY <1>2, <2>1, NothingOwed DEF StartOffline
<1>3. ASSUME NEW p \in Procs,
             ReadRow(p) \/ CheckResourceAvailable(p) \/ GetObject(p) \/ GetByCluster(p)
               \/ GetOld(p) \/ DeleteObject(p)
      PROVE  Audited'
  <2>1. ~Owes(p) /\ UNCHANGED <<history, applied>>
    BY <1>3 DEF ReadRow, CheckResourceAvailable, GetObject, GetByCluster, GetOld,
                DeleteObject, Owes
  <2>2. \E v : req' = [req EXCEPT ![p] = v]
    <3>1. CASE ReadRow(p) \/ CheckResourceAvailable(p)
      BY <3>1 DEF ReadRow, CheckResourceAvailable, Goto, FailTo, Finish
    <3>2. CASE GetObject(p) \/ GetByCluster(p)
      BY <3>2 DEF GetObject, GetByCluster, Finish
    <3>3. CASE GetOld(p) \/ DeleteObject(p)
      BY <3>3 DEF GetOld, DeleteObject, Goto, FailTo, Finish
    <3> QED
      BY <1>3, <3>1, <3>2, <3>3
  <2>3. \A q \in Procs : q # p => req'[q] = req[q]
    BY <2>2, Reads DEF Types
  <2> QED
    BY <2>1, <2>3, NothingOwed
<1>4. ASSUME NEW p \in Procs, Write(p)
      PROVE  Audited'
  <2>1. CASE Publishes(p)
    <3>1. /\ \A q \in Procs : q # p => req'[q] = req[q]
          /\ req'[p].pc = "status" /\ req'[p].kind = req[p].kind
          /\ req'[p].cluster = req[p].cluster /\ req'[p].tpl = req[p].tpl
      BY <1>4, <2>1, Reads DEF Write, Publishes, Types, Request
    <3> QED
      BY <1>4, <2>1, <3>1, StoreAudited DEF Write, Owes, Publishes
  <2>2. CASE ~Publishes(p)
    <3>1. \A q \in Procs : q # p => req'[q] = req[q]
      BY <1>4, Reads DEF Write, Types
    <3> QED
      BY <1>4, <2>2, <3>1, StoreAudited DEF Write
  <2> QED
    BY <2>1, <2>2
<1>5. ASSUME NEW p \in Procs, WriteFails(p)
      PROVE  Audited'
  <2>1. \A q \in Procs : q # p => req'[q] = req[q]
    BY <1>5, Reads DEF WriteFails, Finish, FailTo, Types
  <2>2. ~Owes(p) /\ history' = history
    BY <1>5 DEF WriteFails, Owes
  <2>3. CASE UNCHANGED applied
    BY <2>1, <2>2, <2>3, NothingOwed
  <2>4. CASE Accepted(p) /\ Store(p)
    <3>1. Publishes(p) => /\ Owes(p)'
                          /\ req'[p].cluster = req[p].cluster /\ req'[p].tpl = req[p].tpl
      BY <1>5, FailToFields, Reads DEF WriteFails, Publishes, Owes, ReqPCs
    <3> QED
      BY <1>5, <2>1, <2>2, <2>4, <3>1, StoreAudited DEF WriteFails
  <2> QED
    BY <1>5, <2>3, <2>4 DEF WriteFails
<1>6. ASSUME NEW p \in Procs, CallStatus(p)
      PROVE  Audited'
  <2>1. /\ \A q \in Procs : q # p => req'[q] = req[q]
        /\ req'[p].pc = "called" /\ req'[p].kind = req[p].kind
        /\ req'[p].cluster = req[p].cluster /\ req'[p].tpl = req[p].tpl
        /\ req[p].pc = "status" /\ UNCHANGED <<history, applied>>
    BY <1>6, GotoFields, Reads DEF CallStatus, ReqPCs
  <2>2. Owes(p) => Owes(p)'
    BY <2>1 DEF Owes
  <2>3. Honours(p)
    BY <2>1, <2>2 DEF Honours
  <2>4. Adds(p)
    BY <2>1 DEF Adds
  <2> QED
    BY <2>1, <2>3, <2>4, KeepsAudited
<1>7. ASSUME NEW p \in Procs, StatusReturns(p) \/ UpdateMeta(p)
      PROVE  Audited'
  <2>1. UNCHANGED <<history, applied>>
    BY <1>7 DEF StatusReturns, UpdateMeta
  <2>2. CASE Finish(p) /\ ~Owes(p)
    BY <2>1, <2>2, FinishFields, NothingOwed, Reads
  <2>3. ASSUME NEW pc \in {"meta", "record"}, Goto(p, pc), req[p].kind # "offline",
               pc = "meta" => req[p].kind = "deploy"
        PROVE  Audited'
    <3>1. /\ \A q \in Procs : q # p => req'[q] = req[q]
          /\ req'[p].pc = pc /\ req'[p].kind = req[p].kind
          /\ req'[p].cluster = req[p].cluster /\ req'[p].tpl = req[p].tpl
      BY <2>3, GotoFields, Reads DEF ReqPCs
    <3>2. Owes(p)'
      BY <2>3, <3>1 DEF Owes
    <3>3. Honours(p)
      BY <3>1, <3>2 DEF Honours
    <3>4. Adds(p)
      BY <2>1 DEF Adds
    <3> QED
      BY <2>1, <3>1, <3>3, <3>4, KeepsAudited
  <2>4. CASE StatusReturns(p)
    <3>1. \/ req[p].kind = "offline" /\ Finish(p)
          \/ req[p].kind = "deploy" /\ Goto(p, "meta")
          \/ req[p].kind # "offline" /\ Goto(p, "record")
      BY <2>4 DEF StatusReturns
    <3>2. req[p].kind = "offline" => ~Owes(p)
      BY DEF Owes
    <3> QED
      BY <2>2, <2>3, <3>1, <3>2
  <2>5. CASE UpdateMeta(p)
    <3>1. \/ req[p].kind = "deploy" /\ Goto(p, "record")
          \/ ~Owes(p) /\ Finish(p)
      BY <2>5 DEF UpdateMeta, AfterMeta, Owes
    <3> QED
      BY <2>2, <2>3, <3>1
  <2> QED
    BY <1>7, <2>4, <2>5
<1>8. ASSUME NEW p \in Procs, Record(p)
      PROVE  Audited'
  <2> DEFINE row == [cluster |-> req[p].cluster, tpl |-> req[p].tpl, status |-> req[p].hist]
  <2>1. history' = history \cup {row} /\ applied' = applied
    BY <1>8 DEF Record
  <2>2. \A q \in Procs : q # p => req'[q] = req[q]
    BY <1>8, Reads DEF Record, Goto, Finish, Types
  <2>3. row \in history' /\ row.cluster = req[p].cluster /\ row.tpl = req[p].tpl
    BY <2>1
  <2> HIDE DEF row
  <2>4. Honours(p)
    BY <2>3 DEF Honours
  <2>5. Adds(p)
    BY <2>1 DEF Adds
  <2> QED
    BY <2>1, <2>2, <2>4, <2>5, KeepsAudited
<1>9. ASSUME UNCHANGED <<history, applied, req>>
      PROVE  Audited'
  BY <1>9 DEF Audited, Owes
<1>10. ASSUME NEW p \in Procs, Step(p)
       PROVE  Audited'
  BY <1>3, <1>4, <1>5, <1>6, <1>7, <1>8, <1>9, <1>10 DEF Step, StatusStep
<1>11. ~Crash
  BY DEF Crash, PS!Crash
<1> QED
  BY <1>1, <1>2, <1>9, <1>10, <1>11 DEF Next, vars

(* Where the server stays up and the history table takes its rows, no      *)
(* template reaches a cluster without a history row, now or once the       *)
(* request that stored it has ended.                                       *)
THEOREM AppliedGetsAudited == Spec => []AppliedIsAudited
<1>1. CASE {"crash", "history"} \cap Faults = {}
  <2>1. Init => Audited
    <3>1. ASSUME Fresh PROVE Audited
      BY <3>1 DEF Fresh, Audited
    <3>2. ASSUME NEW c, NEW t, NEW n, Deployed(c, t, n) PROVE Audited
      <4> DEFINE row == [cluster |-> c, tpl |-> t, status |-> "ok"]
      <4>1. history = {row} /\ applied = {<<c, t>>}
        BY <3>2 DEF Deployed
      <4>2. row.cluster = c /\ row.tpl = t
        OBVIOUS
      <4> HIDE DEF row
      <4> QED
        BY <4>1, <4>2 DEF Audited
    <3> QED
      BY <3>1, <3>2 DEF Init
  <2>2. PipeInv /\ Audited /\ [Next]_vars => Audited'
    BY <1>1, StepAudited
  <2>3. Audited => AppliedIsAudited
    BY DEF Audited, AppliedIsAudited, Owes, InFlight
  <2> QED
    BY <2>1, <2>2, <2>3, PipeInvariant, PTL DEF Spec
<1>2. CASE {"crash", "history"} \cap Faults # {}
  <2>1. AppliedIsAudited
    BY <1>2 DEF AppliedIsAudited
  <2> QED
    BY <2>1, PTL
<1> QED
  BY <1>1, <1>2

(***************************************************************************)
(* restart, scale and modify write back what they read, and what they read *)
(* is what the cluster runs whenever the API server accepts it.            *)
(***************************************************************************)
THEOREM OnlyPublishersChangeTemplates == Spec => OnlyPublishChangesTemplate
<1> DEFINE Only ==
      \A c \in Clusters :
        kube'[c].tpl \notin {kube[c].tpl, None} =>
          \E p \in Procs : /\ req[p].pc \in {"kput", "kcreate"}
                           /\ req[p].kind \in {"deploy", "upgrade"}
                           /\ req[p].cluster = c /\ req[p].tpl = kube'[c].tpl
<1>1. PipeInv /\ [Next]_vars => Only
  <2> SUFFICES ASSUME PipeInv, [Next]_vars PROVE Only
    OBVIOUS
  <2>1. ASSUME UNCHANGED kube PROVE Only
    BY <2>1
  <2>2. ASSUME NEW p \in Procs, req[p].pc \in {"kput", "kcreate"}, Accepted(p), Store(p)
        PROVE  Only
    <3>1. /\ req[p].cluster \in Clusters /\ req[p].obj \in Object
          /\ kube \in [Clusters -> Object]
      BY <2>2, AcceptedObject, Reads DEF Types
    <3>2. /\ \A c \in Clusters : c # req[p].cluster => kube'[c] = kube[c]
          /\ kube'[req[p].cluster].tpl = req[p].obj.tpl
      BY <2>2, <3>1 DEF Store, Object
    <3> QED
      BY <2>2, <3>2, AcceptedObject DEF Publishes
  <2>3. ASSUME NEW p \in Procs, DeleteObject(p) PROVE Only
    <3>1. /\ kube \in [Clusters -> Object]
          /\ \/ kube' = kube
             \/ kube' = [kube EXCEPT ![req[p].cluster] =
                  [tpl |-> None, reps |-> 0, rv |-> kube[req[p].cluster].rv + 1]]
      BY <2>3, Reads DEF DeleteObject, Types
    <3>2. \A c \in Clusters : kube'[c] = kube[c] \/ kube'[c].tpl = None
      BY <3>1
    <3> QED
      BY <3>2
  <2>4. ASSUME NEW p \in Procs, Write(p) \/ WriteFails(p) PROVE Only
    BY <2>1, <2>2, <2>4 DEF Write, WriteFails
  <2>5. ASSUME NEW p \in Procs, Step(p) PROVE Only
    <3>1. CASE ReadRow(p) \/ CheckResourceAvailable(p) \/ GetObject(p) \/ GetByCluster(p)
               \/ GetOld(p) \/ CallStatus(p) \/ StatusStep(p) \/ StatusReturns(p)
               \/ UpdateMeta(p) \/ Record(p)
      BY <2>1, <3>1
         DEF ReadRow, CheckResourceAvailable, GetObject, GetByCluster, GetOld, CallStatus,
             StatusStep, StatusReturns, UpdateMeta, Record
    <3> QED
      BY <2>3, <2>4, <2>5, <3>1 DEF Step
  <2> QED
    BY <2>1, <2>5 DEF Next, Start, StartOffline, Crash, vars
<1>2. PipeInv /\ [Next]_vars => [Only]_vars
  BY <1>1
<1>3. Spec => [][Only]_vars
  BY <1>2, PipeInvariant, PTL DEF Spec
<1> QED
  BY <1>3 DEF OnlyPublishChangesTemplate

(***************************************************************************)
(* The table and the clusters, where requests for a cluster come one at a  *)
(* time and commits do not fail.  A cluster is then the concern of one     *)
(* request at most, and so are its rows and its object.                    *)
(***************************************************************************)
OnePerCluster ==
  \A p, q \in Procs :
    InFlight(p) /\ InFlight(q) /\ req[p].cluster = req[q].cluster => p = q

(* The status call of a request is about its cluster.                      *)
Calls(p) ==
  /\ ~PSP!Idle(p) => req[p].pc = "called"
  /\ PSP!Publishing(p) => /\ tx[p].cluster = req[p].cluster /\ tx[p].tpl = req[p].tpl
                          /\ req[p].kind # "offline"
  /\ tx[p].pc \in {"read", "remove"} => tx[p].id = req[p].id /\ req[p].kind = "offline"
  /\ req[p].kind = "offline" =>
       \A r \in PSP!AllRows : r.id = req[p].id => r.cluster = req[p].cluster
  /\ tx[p].pc = "remove" => \E r \in PSP!RowsOf(req[p].cluster) : r.id = tx[p].id
  /\ reply[p] # "lost"

(* What it will tell the table is what the cluster runs, or the cluster is *)
(* unsettled; and once the call has succeeded the table says it.           *)
Tells(p, c) ==
  /\ /\ req[p].pc \in {"kget", "kput", "status", "called"}
     /\ req[p].kind \in {"restart", "scale"} /\ c \notin unsettled
     => req[p].tpl = kube[c].tpl
  /\ req[p].pc \in {"status", "called"} /\ Publishes(p) => kube[c].tpl = req[p].tpl
  /\ req[p].pc \in {"status", "called"} /\ req[p].kind = "offline" /\ c \notin unsettled
     => ~Live(c)

Told(p, c) ==
  req[p].pc = "called" /\ PSP!Idle(p) /\ reply[p] = "ok" =>
    /\ Publishes(p) => {r.tpl : r \in PSP!RowsOf(c)} = {req[p].tpl}
    /\ req[p].kind = "offline" => PSP!RowsOf(c) = {}

Agrees(p) == Tells(p, req[p].cluster) /\ Told(p, req[p].cluster)

Synced(c) == c \notin unsettled => InSync(c)

SyncInv ==
  /\ PSP!OneRowInv /\ PSP!IdInv
  /\ OnePerCluster
  /\ \A p \in Procs : Calls(p) /\ Agrees(p)
  /\ \A c \in Clusters : Synced(c)

(* The rows of a cluster, in the two instances of PublishStatus.           *)
LEMMA SameRowsOf == \A c : PS!RowsOf(c) = PSP!RowsOf(c)
  BY DEF PS!RowsOf, PSP!RowsOf

(* A step of p that is about cluster c alone.                              *)
Apart(p, c) ==
  /\ \A q \in Procs : q # p => req'[q] = req[q] /\ tx'[q] = tx[q] /\ reply'[q] = reply[q]
  /\ \A d \in Clusters : d # c => /\ PSP!RowsOf(d)' = PSP!RowsOf(d)
                                  /\ kube'[d] = kube[d]
                                  /\ d \in unsettled' <=> d \in unsettled
  /\ \A r \in PSP!AllRows' : r \in PSP!AllRows \/ lastId < r.id

Owns(p, c) == \A q \in Procs : q # p /\ InFlight(q) => req[q].cluster # c

(* A request is the only one of its cluster.                               *)
LEMMA OwnsIts ==
  ASSUME SyncInv, NEW p \in Procs, InFlight(p)
  PROVE  Owns(p, req[p].cluster)
  BY DEF SyncInv, OnePerCluster, Owns

(* A step about c leaves the requests for other clusters as they were.     *)
LEMMA OthersAgree ==
  ASSUME PipeInv, SyncInv, NEW p \in Procs, NEW c, Apart(p, c), Owns(p, c),
         NEW q \in Procs, q # p
  PROVE  Calls(q)' /\ Agrees(q)'
<1>1. req'[q] = req[q] /\ tx'[q] = tx[q] /\ reply'[q] = reply[q]
  BY DEF Apart
<1>2. Calls(q) /\ Agrees(q)
  BY DEF SyncInv
<1>3. CASE ~InFlight(q)
  <2>1. req[q].pc = "idle" /\ req[q].kind = None
    BY <1>3, Reads DEF InFlight, RequestInv, Placed, Place
  <2>2. req[q].kind # "offline" /\ ~Publishes(q)
    BY <2>1, StatusAssumption DEF Kinds, Publishes
  <2>3. PSP!Idle(q) /\ reply[q] # "lost"
    BY <1>2, <2>1 DEF Calls
  <2>4. Calls(q)'
    BY <1>1, <2>2, <2>3 DEF Calls, PSP!Idle, PSP!Publishing, PSP!PublishPCs
  <2>5. Agrees(q)'
    BY <1>1, <2>1 DEF Agrees, Tells, Told
  <2> QED
    BY <2>4, <2>5
<1>4. CASE InFlight(q)
  <2>1. PICK d \in Clusters : d = req[q].cluster /\ d # c
    BY <1>4, Reads DEF Owns
  <2>2. /\ PSP!RowsOf(d)' = PSP!RowsOf(d) /\ kube'[d] = kube[d]
        /\ d \in unsettled' <=> d \in unsettled
    BY <2>1 DEF Apart
  <2>3. ASSUME req[q].kind = "offline", NEW r \in PSP!AllRows', r.id = req[q].id
        PROVE  r.cluster = req[q].cluster
    <3>1. req[q].id \in 1..lastId /\ lastId \in Nat
      BY <2>3, Reads DEF RequestInv, Named
    <3>2. ~(lastId < r.id)
      BY <2>3, <3>1
    <3> QED
      BY <1>2, <2>3, <3>2 DEF Apart, Calls
  <2>4. Calls(q)'
    BY <1>1, <1>2, <2>1, <2>2, <2>3 DEF Calls, PSP!Idle, PSP!Publishing
  <2>5. Tells(q, d)' /\ Told(q, d)'
    BY <1>1, <1>2, <2>1, <2>2 DEF Agrees, Tells, Told, Live, Publishes, PSP!Idle
  <2> QED
    BY <1>1, <2>1, <2>4, <2>5 DEF Agrees
<1> QED
  BY <1>3, <1>4

(* So it is enough to look at p and at c.                                  *)
LEMMA SyncStep ==
  ASSUME PipeInv, SyncInv, PSP!OneRowInv', PSP!IdInv', NEW p \in Procs, NEW c \in Clusters,
         Apart(p, c), Owns(p, c), InFlight(p)' => req'[p].cluster = c,
         Calls(p)', Agrees(p)', Synced(c)'
  PROVE  SyncInv'
<1>1. \A q \in Procs : Calls(q)' /\ Agrees(q)'
  BY OthersAgree
<1>2. ASSUME NEW d \in Clusters, d # c PROVE Synced(d)'
  <2>1. /\ PSP!RowsOf(d)' = PSP!RowsOf(d) /\ kube'[d] = kube[d]
        /\ d \in unsettled' <=> d \in unsettled
    BY <1>2 DEF Apart
  <2>2. Synced(d)
    BY DEF SyncInv
  <2> QED
    BY <2>1, <2>2, SameRowsOf DEF Synced, InSync, Live, PS!RowsOf, PSP!RowsOf
<1>3. OnePerCluster'
  <2>1. \A q \in Procs : q # p => /\ InFlight(q)' <=> InFlight(q)
                                  /\ req'[q] = req[q]
    BY DEF Apart, InFlight
  <2>2. \A q \in Procs : q # p /\ InFlight(q) => req[q].cluster # c
    BY DEF Owns
  <2>3. \A q, r \in Procs :
          InFlight(q) /\ InFlight(r) /\ req[q].cluster = req[r].cluster => q = r
    BY DEF SyncInv, OnePerCluster
  <2> HIDE DEF InFlight
  <2> QED
    BY <2>1, <2>2, <2>3 DEF OnePerCluster
<1> QED
  BY <1>1, <1>2, <1>3 DEF SyncInv

(***************************************************************************)
(* The status call, again: it goes on, is refused, or takes effect.        *)
(***************************************************************************)
MovesOn(p) ==
  /\ UNCHANGED <<rows, reply>>
  /\ \A q \in Procs : q # p => tx'[q] = tx[q]
  /\ ~PSP!Idle(p) /\ ~PSP!Idle(p)'
  /\ tx'[p].cluster = tx[p].cluster /\ tx'[p].tpl = tx[p].tpl /\ tx'[p].id = tx[p].id
  /\ PSP!Publishing(p)' <=> PSP!Publishing(p)
  /\ tx'[p].pc = "remove" => \E r \in rows : r.id = tx[p].id
  /\ \A r \in tx'[p].new : r \in tx[p].new \/ r.id = lastId + 1

Refuses(p) == ~PSP!Idle(p) /\ PSP!Return(p, "err") /\ rows' = rows

(* Each step of the call does one of these.                                *)
LEMMA StatusOutcome ==
  ASSUME "commit" \notin Faults, PSP!TypeInv, NEW p \in Procs, PSP!Proceed(p) \/ PSP!Fail(p)
  PROVE  MovesOn(p) \/ Refuses(p) \/ PSP!SelectSame(p) \/ PSP!Commit(p) \/ PSP!Remove(p)
<1>1. ASSUME NEW pc \in PSP!PCs \ {"idle"}, PSP!Goto(p, pc), ~PSP!Idle(p),
             UNCHANGED <<rows, reply>>,
             pc \in PSP!PublishPCs <=> PSP!Publishing(p),
             pc = "remove" => \E r \in rows : r.id = tx[p].id
      PROVE  MovesOn(p)
  <2>1. /\ tx'[p].pc = pc /\ tx'[p].new = tx[p].new /\ tx'[p].id = tx[p].id
        /\ tx'[p].cluster = tx[p].cluster /\ tx'[p].tpl = tx[p].tpl
        /\ \A q \in Procs : q # p => tx'[q] = tx[q]
    BY <1>1 DEF PSP!Goto, PSP!TypeInv, PSP!TypeOK, PSP!Tx
  <2> QED
    BY <1>1, <2>1 DEF MovesOn, PSP!Idle, PSP!Publishing
<1>2. CASE PSP!Begin(p)
  <2>1. tx[p].pc = "begin" /\ PSP!Goto(p, "select") /\ UNCHANGED <<rows, reply>>
    BY <1>2 DEF PSP!Begin
  <2> QED
    BY <1>1, <2>1 DEF PSP!PCs, PSP!PublishPCs, PSP!Idle, PSP!Publishing
<1>3. CASE PSP!SelectNone(p) \/ PSP!Delete(p)
  <2>1. /\ tx[p].pc \in {"select", "delete"} /\ PSP!Goto(p, "insert")
        /\ UNCHANGED <<rows, reply>>
    BY <1>3 DEF PSP!SelectNone, PSP!Delete
  <2> QED
    BY <1>1, <2>1 DEF PSP!PCs, PSP!PublishPCs, PSP!Idle, PSP!Publishing
<1>4. CASE PSP!Read(p)
  <2>1. /\ tx[p].pc = "read" /\ PSP!Goto(p, "remove") /\ UNCHANGED <<rows, reply>>
        /\ \E r \in rows : r.id = tx[p].id
    BY <1>4 DEF PSP!Read
  <2> QED
    BY <1>1, <2>1 DEF PSP!PCs, PSP!PublishPCs, PSP!Idle, PSP!Publishing
<1>5. CASE PSP!SelectOther(p)
  <2>1. PICK r : tx' = [tx EXCEPT ![p] = [tx[p] EXCEPT !.pc = "delete", !.old = {r}]]
    BY <1>5 DEF PSP!SelectOther
  <2>2. /\ tx'[p].pc = "delete" /\ tx'[p].new = tx[p].new /\ tx'[p].id = tx[p].id
        /\ tx'[p].cluster = tx[p].cluster /\ tx'[p].tpl = tx[p].tpl
        /\ \A q \in Procs : q # p => tx'[q] = tx[q]
    BY <2>1 DEF PSP!TypeInv, PSP!TypeOK, PSP!Tx
  <2>3. tx[p].pc = "select" /\ UNCHANGED <<rows, reply>>
    BY <1>5 DEF PSP!SelectOther
  <2> QED
    BY <2>2, <2>3 DEF MovesOn, PSP!Idle, PSP!Publishing, PSP!PublishPCs
<1>6. CASE PSP!Insert(p)
  <2>1. PICK row : /\ row.id = lastId + 1
                   /\ tx' = [tx EXCEPT ![p] = [tx[p] EXCEPT !.pc = "commit", !.new = {row}]]
    BY <1>6 DEF PSP!Insert
  <2>2. /\ tx'[p].pc = "commit" /\ tx'[p].new = {row} /\ tx'[p].id = tx[p].id
        /\ tx'[p].cluster = tx[p].cluster /\ tx'[p].tpl = tx[p].tpl
        /\ \A q \in Procs : q # p => tx'[q] = tx[q]
    BY <2>1 DEF PSP!TypeInv, PSP!TypeOK, PSP!Tx
  <2>3. tx[p].pc = "insert" /\ UNCHANGED <<rows, reply>>
    BY <1>6 DEF PSP!Insert
  <2> QED
    BY <2>1, <2>2, <2>3 DEF MovesOn, PSP!Idle, PSP!Publishing, PSP!PublishPCs
<1>7. CASE PSP!BeginFails(p) \/ PSP!ReadFails(p) \/ PSP!RemoveFails(p)
  BY <1>7 DEF PSP!BeginFails, PSP!ReadFails, PSP!RemoveFails, Refuses, PSP!Idle
<1>8. CASE PSP!Fail(p)
  BY <1>8 DEF PSP!Fail, PSP!SelectFails, PSP!DeleteFails, PSP!InsertFails, PSP!CommitFails,
              PSP!Abandon, Refuses, PSP!Idle
<1> QED
  BY <1>2, <1>3, <1>4, <1>5, <1>6, <1>7, <1>8 DEF PSP!Proceed

(* A call that returns leaves the others, and no row of its own behind.    *)
LEMMA ReturnApart ==
  ASSUME PSP!TypeInv, NEW p \in Procs, NEW res, PSP!Return(p, res)
  PROVE  /\ \A q \in Procs : q # p => tx'[q] = tx[q] /\ reply'[q] = reply[q]
         /\ tx'[p] = PSP!IdleTx /\ PSP!Idle(p)' /\ ~PSP!Publishing(p)' /\ reply'[p] = res
         /\ \A q \in Procs : tx'[q].new \subseteq tx[q].new
  BY DEF PSP!TypeInv, PSP!TypeOK, PSP!Return, PSP!IdleTx, PSP!Idle, PSP!Publishing,
         PSP!PublishPCs

(* The table changes to what the request names, or not at all.             *)
LEMMA StatusSync ==
  ASSUME "commit" \notin Faults, Serial, PipeInv, SyncInv, NEW p \in Procs, StatusStep(p)
  PROVE  SyncInv'
<1>1. /\ PSP!Proceed(p) \/ PSP!Fail(p)
      /\ UNCHANGED <<kube, meta, history, req, started, applied, unsettled>>
  BY StatusStepIs DEF StatusStep
<1>2. PSP!TypeInv /\ Calls(p) /\ Agrees(p) /\ lastId \in Nat
  BY DEF PipeInv, SyncInv, PSP!TypeInv, PSP!TypeOK
<1>3. MovesOn(p) \/ Refuses(p) \/ PSP!SelectSame(p) \/ PSP!Commit(p) \/ PSP!Remove(p)
  BY <1>1, <1>2, StatusOutcome
<1>4. ~PSP!Idle(p)
  BY <1>3 DEF MovesOn, Refuses, PSP!SelectSame, PSP!Commit, PSP!Remove, PSP!Idle
<1>5. req[p].pc = "called" /\ InFlight(p)
  BY <1>2, <1>4 DEF Calls, InFlight
<1> PICK c \in Clusters : c = req[p].cluster
  BY <1>5, Reads
<1>0. Tells(p, c) /\ Told(p, c) /\ Synced(c)
  BY <1>2 DEF Agrees, SyncInv
<1>6. PSP!OneRowInv' /\ PSP!IdInv'
  BY <1>1, <1>2, StatusConstants, PSP!StepOneRow, PSP!StepIds DEF SyncInv, PSP!Next
<1>7. PSP!OneRowPerCluster /\ PSP!Replaces(p)
  BY DEF SyncInv, PSP!OneRowInv
<1>8. Owns(p, c)
  BY <1>5, OwnsIts
<1>9. Tells(p, c)'
  BY <1>0, <1>1 DEF Tells, Live, Publishes
<1>10. CASE MovesOn(p)
  <2>1. \A q \in Procs : reply'[q] = reply[q]
    BY <1>10 DEF MovesOn
  <2>2. \A r \in PSP!AllRows' : r \in PSP!AllRows \/ lastId < r.id
    BY <1>2, <1>10 DEF MovesOn, PSP!AllRows
  <2>3. Apart(p, c)
    BY <1>1, <1>10, <2>1, <2>2 DEF Apart, MovesOn, PSP!RowsOf
  <2>4. Told(p, c)'
    BY <1>10 DEF MovesOn, Told
  <2>5. Synced(c)'
    BY <1>0, <1>1, <1>10 DEF MovesOn, Synced, InSync, Live, PS!RowsOf
  <2>6. ASSUME req[p].kind = "offline", NEW r \in PSP!AllRows', r.id = req[p].id
        PROVE  r.cluster = c
    <3>1. req[p].id \in 1..lastId
      BY <2>6, Reads DEF RequestInv, Named
    <3> QED
      BY <1>2, <2>2, <2>6, <3>1 DEF Calls
  <2>7. tx'[p].pc \in {"read", "remove"} => tx[p].pc \in {"read", "remove"}
    BY <1>2, <1>10 DEF MovesOn, PSP!Publishing, PSP!PublishPCs, PSP!Idle, PSP!TypeInv,
                       PSP!TypeOK, PSP!Tx, PSP!PCs
  <2>8. tx'[p].pc = "remove" => \E r \in PSP!RowsOf(c)' : r.id = tx'[p].id
    <3>1. SUFFICES ASSUME tx'[p].pc = "remove" PROVE \E r \in PSP!RowsOf(c)' : r.id = tx'[p].id
      OBVIOUS
    <3>2. PICK r \in rows : r.id = tx[p].id
      BY <1>10, <3>1 DEF MovesOn
    <3>3. r \in PSP!AllRows /\ tx[p].id = req[p].id /\ req[p].kind = "offline"
      BY <1>2, <2>7, <3>1 DEF Calls, PSP!AllRows
    <3>4. r.cluster = c
      BY <1>2, <3>2, <3>3 DEF Calls
    <3> QED
      BY <1>10, <3>2, <3>4 DEF MovesOn, PSP!RowsOf
  <2>9. Calls(p)'
    BY <1>1, <1>2, <1>5, <1>10, <2>1, <2>6, <2>7, <2>8 DEF Calls, MovesOn
  <2> QED
    BY <1>1, <1>5, <1>6, <1>8, <1>9, <2>3, <2>4, <2>5, <2>9, SyncStep DEF Agrees
<1>11. ASSUME NEW res \in {"ok", "err"}, PSP!Return(p, res),
              rows' \subseteq PSP!AllRows,
              \A d \in Clusters : d # c => PSP!RowsOf(d)' = PSP!RowsOf(d),
              res = "ok" => Told(p, c)', Synced(c)'
       PROVE  SyncInv'
  <2>1. /\ \A q \in Procs : q # p => tx'[q] = tx[q] /\ reply'[q] = reply[q]
        /\ tx'[p] = PSP!IdleTx /\ PSP!Idle(p)' /\ ~PSP!Publishing(p)' /\ reply'[p] = res
        /\ \A q \in Procs : tx'[q].new \subseteq tx[q].new
    BY <1>2, <1>11, ReturnApart
  <2>2. PSP!AllRows' \subseteq PSP!AllRows
    BY <1>11, <2>1 DEF PSP!AllRows
  <2>3. Apart(p, c)
    BY <1>1, <1>11, <2>1, <2>2 DEF Apart
  <2>4. Calls(p)'
    BY <1>1, <1>2, <1>11, <2>1, <2>2 DEF Calls, PSP!IdleTx
  <2>5. Told(p, c)'
    BY <1>11, <2>1 DEF Told
  <2> QED
    BY <1>1, <1>5, <1>6, <1>8, <1>9, <1>11, <2>3, <2>4, <2>5, SyncStep DEF Agrees
<1>12. rows' = rows => Synced(c)'
  BY <1>0, <1>1 DEF Synced, InSync, Live, PS!RowsOf
<1>13. CASE Refuses(p)
  BY <1>11, <1>12, <1>13 DEF Refuses, PSP!AllRows, PSP!RowsOf
<1>14. CASE PSP!SelectSame(p)
  <2>1. /\ tx[p].pc = "select" /\ PSP!Return(p, "ok") /\ rows' = rows
        /\ \E r \in PSP!RowsOf(tx[p].cluster) : r.tpl = tx[p].tpl
    BY <1>14 DEF PSP!SelectSame, PSP!Abandon
  <2>2. tx[p].cluster = c /\ tx[p].tpl = req[p].tpl /\ req[p].kind # "offline"
    BY <1>2, <2>1 DEF Calls, PSP!Publishing, PSP!PublishPCs
  <2>3. PICK r \in PSP!RowsOf(c) : r.tpl = req[p].tpl
    BY <2>1, <2>2
  <2>4. PSP!RowsOf(c) = {r}
    BY <1>7, <2>3 DEF PSP!OneRowPerCluster, PSP!RowsOf
  <2>5. {x.tpl : x \in PSP!RowsOf(c)'} = {req[p].tpl}
    BY <2>1, <2>3, <2>4 DEF PSP!RowsOf
  <2>6. Told(p, c)'
    BY <1>1, <2>2, <2>5 DEF Told
  <2> QED
    BY <1>11, <1>12, <2>1, <2>6 DEF PSP!AllRows, PSP!RowsOf
<1>15. CASE PSP!Commit(p)
  <2>1. /\ tx[p].pc = "commit" /\ PSP!Return(p, "ok")
        /\ rows' = (rows \ tx[p].old) \cup tx[p].new
    BY <1>15 DEF PSP!Commit
  <2>2. tx[p].cluster = c /\ tx[p].tpl = req[p].tpl /\ req[p].kind # "offline"
    BY <1>2, <2>1 DEF Calls, PSP!Publishing, PSP!PublishPCs
  <2>3. PICK n : n.cluster = c /\ n.tpl = req[p].tpl /\ tx[p].new = {n}
    BY <1>2, <2>1, <2>2 DEF PSP!TypeInv, PSP!Holds
  <2>4. \A r \in tx[p].old : r.cluster = c
    BY <1>2, <2>2 DEF PSP!TypeInv, PSP!Holds
  <2>5. PSP!RowsOf(c) \subseteq tx[p].old
    BY <1>7, <2>1, <2>2 DEF PSP!Replaces, PSP!Selected
  <2>6. PSP!RowsOf(c)' = {n}
    BY <2>1, <2>3, <2>5 DEF PSP!RowsOf
  <2>7. \A d \in Clusters : d # c => PSP!RowsOf(d)' = PSP!RowsOf(d)
    BY <2>1, <2>3, <2>4 DEF PSP!RowsOf
  <2>8. {x.tpl : x \in PSP!RowsOf(c)'} = {req[p].tpl}
    BY <2>3, <2>6
  <2>9. Told(p, c)'
    BY <1>1, <2>2, <2>8 DEF Told
  <2>10. c \notin unsettled => kube[c].tpl = req[p].tpl
    BY <1>0, <1>5, <2>2, Reads DEF Tells, Publishes, RequestInv, Placed, Place
  <2>11. req[p].tpl \in Tpls
    BY <2>1, <2>2, <1>2 DEF PSP!TypeInv, PSP!Holds, PSP!Publishing, PSP!PublishPCs
  <2>12. Synced(c)'
    <3>1. SUFFICES ASSUME c \notin unsettled PROVE InSync(c)'
      BY <1>1 DEF Synced
    <3>2. kube'[c].tpl = req[p].tpl /\ req[p].tpl # None
      BY <1>1, <2>10, <2>11, <3>1, StatusAssumption
    <3> QED
      BY <2>8, <3>2 DEF InSync, Live, PS!RowsOf, PSP!RowsOf
  <2>13. rows' \subseteq PSP!AllRows
    BY <2>1 DEF PSP!AllRows
  <2> QED
    BY <1>11, <2>1, <2>7, <2>9, <2>12, <2>13
<1>16. CASE PSP!Remove(p)
  <2>1. /\ tx[p].pc = "remove" /\ PSP!Return(p, "ok")
        /\ rows' = {r \in rows : r.id # tx[p].id}
    BY <1>16 DEF PSP!Remove
  <2>2. tx[p].id = req[p].id /\ req[p].kind = "offline"
    BY <1>2, <2>1 DEF Calls
  <2>3. \A r \in rows : r.id = tx[p].id => r.cluster = c
    BY <1>2, <2>2 DEF Calls, PSP!AllRows
  <2>4. PICK r \in PSP!RowsOf(c) : r.id = tx[p].id
    BY <1>2, <2>1 DEF Calls
  <2>5. PSP!RowsOf(c)' = {}
    BY <1>7, <2>1, <2>4 DEF PSP!RowsOf, PSP!OneRowPerCluster
  <2>6. \A d \in Clusters : d # c => PSP!RowsOf(d)' = PSP!RowsOf(d)
    BY <2>1, <2>3 DEF PSP!RowsOf
  <2>7. Told(p, c)'
    BY <1>1, <2>2, <2>5 DEF Told, Publishes
  <2>8. Synced(c)'
    <3>1. c \notin unsettled => ~Live(c)
      BY <1>0, <1>5, <2>2 DEF Tells
    <3> QED
      BY <1>1, <2>5, <3>1 DEF Synced, InSync, Live, PS!RowsOf, PSP!RowsOf
  <2>9. rows' \subseteq PSP!AllRows
    BY <2>1 DEF PSP!AllRows
  <2> QED
    BY <1>11, <2>1, <2>6, <2>7, <2>8, <2>9
<1> QED
  BY <1>3, <1>10, <1>13, <1>14, <1>15, <1>16

(***************************************************************************)
(* The steps of the request outside its status call.                       *)
(***************************************************************************)
LEMMA ObjectSync ==
  ASSUME PipeInv, SyncInv, NEW p \in Procs, NEW c \in Clusters, PSP!Idle(p), Owns(p, c),
         UNCHANGED status, \A q \in Procs : q # p => req'[q] = req[q],
         \A d \in Clusters : d # c => kube'[d] = kube[d] /\ (d \in unsettled' <=> d \in unsettled),
         InFlight(p)' => req'[p].cluster = c /\ Tells(p, c)',
         req'[p].pc # "called",
         req'[p].kind = "offline" =>
           \A r \in PSP!AllRows : r.id = req'[p].id => r.cluster = req'[p].cluster,
         Synced(c)'
  PROVE  SyncInv'
<1>1. /\ rows' = rows /\ tx' = tx /\ reply' = reply /\ lastId' = lastId
      /\ PSP!AllRows' = PSP!AllRows
  BY DEF status, PSP!AllRows
<1>2. PSP!OneRowInv' /\ PSP!IdInv'
  BY <1>1 DEF SyncInv, PSP!OneRowInv, PSP!OneRowPerCluster, PSP!Sole, PSP!Publishing,
              PSP!Replaces, PSP!Selected, PSP!RowsOf, PSP!IdInv
<1>3. Apart(p, c)
  BY <1>1 DEF Apart, PSP!RowsOf
<1>4. Calls(p)'
  BY <1>1 DEF SyncInv, Calls, PSP!Idle, PSP!Publishing, PSP!PublishPCs
<1>5. Agrees(p)'
  BY DEF Agrees, Tells, Told, InFlight
<1> QED
  BY <1>2, <1>3, <1>4, <1>5, SyncStep

(* One that leaves the object of the cluster alone.                        *)
LEMMA LocalSync ==
  ASSUME PipeInv, SyncInv, NEW p \in Procs, NEW c \in Clusters, PSP!Idle(p), Owns(p, c),
         UNCHANGED <<status, kube, unsettled>>, \A q \in Procs : q # p => req'[q] = req[q],
         InFlight(p)' => req'[p].cluster = c,
         req'[p].pc \notin {"status", "called"},
         /\ req'[p].pc \in {"kget", "kput"} /\ req'[p].kind \in {"restart", "scale"}
         /\ c \notin unsettled
         => req'[p].tpl = kube[c].tpl,
         req'[p].kind = "offline" =>
           \A r \in PSP!AllRows : r.id = req'[p].id => r.cluster = req'[p].cluster
  PROVE  SyncInv'
<1>1. Synced(c)'
  BY DEF SyncInv, Synced, InSync, Live, PS!RowsOf, status
<1>2. Tells(p, c)'
  BY DEF Tells
<1> QED
  BY <1>1, <1>2, ObjectSync

(* A request whose status call is not in progress.                         *)
LEMMA NotCalled ==
  ASSUME PipeInv, SyncInv, NEW p \in Procs, req[p].pc # "called"
  PROVE  PSP!Idle(p) /\ Calls(p) /\ Agrees(p)
  BY DEF SyncInv, Calls

(* A goroutine at rest has no kind of request.                             *)
LEMMA IdleKind == \A p \in Procs : req'[p] = NoRequest =>
                    /\ req'[p].pc = "idle" /\ req'[p].kind \notin Kinds /\ ~InFlight(p)'
  BY StatusAssumption DEF NoRequest, InFlight

(* A request ends without having changed its object.                       *)
LEMMA FinishSync ==
  ASSUME PipeInv, SyncInv, NEW p \in Procs, NEW c \in Clusters, PSP!Idle(p), Owns(p, c),
         UNCHANGED <<status, kube, unsettled>>, Finish(p)
  PROVE  SyncInv'
<1>1. /\ req'[p].pc = "idle" /\ req'[p].kind # "offline" /\ ~InFlight(p)'
      /\ \A q \in Procs : q # p => req'[q] = req[q]
  BY FinishFields, IdleKind, Reads DEF Kinds
<1> QED
  BY <1>1, LocalSync

(* A request begins, for a cluster that has no other.                      *)
LEMMA StartSync ==
  ASSUME Serial, PipeInv, SyncInv, NEW p \in Procs, NEW c \in Clusters,
         NEW kind \in Kinds \ {"offline"}, NEW t, NEW n, Start(p, kind, c, t, n)
  PROVE  SyncInv'
<1>1. /\ req'[p].pc = First(kind) /\ req'[p].kind = kind /\ req'[p].cluster = c
      /\ \A q \in Procs : q # p => req'[q] = req[q]
  BY Reads DEF Start, Types, NoRequest
<1>2. First(kind) \in {"row", "oget"}
  BY DEF First, Kinds
<1>3. Owns(p, c) /\ UNCHANGED <<status, kube, unsettled>> /\ req[p].pc # "called"
  BY DEF Start, Owns, InFlight
<1> QED
  BY <1>1, <1>2, <1>3, NotCalled, LocalSync

(* An offline begins with the id of a row of its cluster, or of none.      *)
LEMMA StartOfflineSync ==
  ASSUME Serial, PipeInv, SyncInv, NEW p \in Procs, NEW c \in Clusters, NEW id, NEW force,
         StartOffline(p, c, id, force)
  PROVE  SyncInv'
<1>1. /\ req'[p].pc = "kdelete" /\ req'[p].kind = "offline" /\ req'[p].cluster = c
      /\ req'[p].id = id
      /\ \A q \in Procs : q # p => req'[q] = req[q]
  BY Reads DEF StartOffline, Types, NoRequest
<1>2. Owns(p, c) /\ UNCHANGED <<status, kube, unsettled>> /\ req[p].pc # "called"
  BY DEF StartOffline, Owns, InFlight
<1>3. \A r \in PSP!AllRows : r.id = id => r.cluster = c
  BY DEF StartOffline, PSP!AllRows
<1> QED
  BY <1>1, <1>2, <1>3, NotCalled, LocalSync

(* What the steps that only read, or only write the database's other       *)
(* tables, do to their request.                                            *)
LEMMA ReadSync ==
  ASSUME PipeInv, SyncInv, NEW p \in Procs,
         \/ ReadRow(p) \/ CheckResourceAvailable(p) \/ GetObject(p) \/ GetByCluster(p)
         \/ GetOld(p) \/ UpdateMeta(p) \/ Record(p)
  PROVE  SyncInv'
<1>1. /\ req[p].pc \in {"row", "quota", "oget", "online", "kget", "meta", "record"}
      /\ UNCHANGED <<status, kube, unsettled>>
  BY DEF ReadRow, CheckResourceAvailable, GetObject, GetByCluster, GetOld, UpdateMeta, Record
<1>2. InFlight(p) /\ req[p].kind \in Kinds \ {"offline"}
  BY <1>1, Reads DEF InFlight, RequestInv, Placed, Place, Kinds
<1>3. PICK c \in Clusters : c = req[p].cluster
  BY <1>2, Reads
<1>4. PSP!Idle(p) /\ Owns(p, c) /\ Tells(p, c) /\ Synced(c)
  BY <1>1, <1>2, <1>3, NotCalled, OwnsIts DEF Agrees, SyncInv
<1>5. CASE Finish(p)
  BY <1>1, <1>4, <1>5, FinishSync
<1>6. ASSUME \A q \in Procs : q # p => req'[q] = req[q],
             req'[p].cluster = c, req'[p].kind = req[p].kind,
             req'[p].pc \notin {"status", "called"},
             /\ req'[p].pc \in {"kget", "kput"} /\ req[p].kind \in {"restart", "scale"}
             /\ c \notin unsettled
             => req'[p].tpl = kube[c].tpl
      PROVE  SyncInv'
  BY <1>1, <1>2, <1>4, <1>6, LocalSync
<1>7. ASSUME NEW pc \in ReqPCs \ {"status", "called"}, Goto(p, pc) \/ FailTo(p, pc),
             pc \in {"kget", "kput"} => req[p].kind \notin {"restart", "scale"}
      PROVE  SyncInv'
  <2>1. /\ req'[p].pc = pc /\ req'[p].kind = req[p].kind /\ req'[p].cluster = c
        /\ \A q \in Procs : q # p => req'[q] = req[q]
    BY <1>3, <1>7, GotoFields, FailToFields, Reads
  <2> QED
    BY <1>6, <1>7, <2>1
<1>8. CASE ReadRow(p) /\ ~Finish(p)
  <2> DEFINE pc == CASE req[p].kind = "deploy"  -> "quota"
                     [] req[p].kind = "upgrade" -> "kget"
                     [] req[p].kind = "scale"   -> "oget"
             n == IF req[p].kind = "upgrade" THEN meta[req[p].cluster] ELSE req[p].reps
             v == [req[p] EXCEPT !.pc = pc, !.row = meta, !.reps = n]
  <2>1. req[p].kind \in {"deploy", "upgrade", "scale"}
    BY <1>8, Reads DEF ReadRow, RequestInv, Placed, Place
  <2>2. pc \in {"quota", "kget", "oget"} /\ (pc = "kget" => req[p].kind = "upgrade")
    BY <2>1
  <2>3. req' = [req EXCEPT ![p] = v]
    BY <1>8 DEF ReadRow
  <2> HIDE DEF pc, n
  <2>4. v.pc = pc /\ v.kind = req[p].kind /\ v.cluster = c
    BY <1>3, Reads DEF Request
  <2> HIDE DEF v
  <2>5. req'[p] = v /\ \A q \in Procs : q # p => req'[q] = req[q]
    BY <2>3, Reads DEF Types
  <2> QED
    BY <1>6, <2>2, <2>4, <2>5
<1>9. CASE CheckResourceAvailable(p)
  <2>1. req[p].kind = "deploy"
    BY <1>9, Reads DEF CheckResourceAvailable, RequestInv, Placed, Place
  <2> QED
    BY <1>7, <1>9, <2>1 DEF CheckResourceAvailable, ReqPCs
<1>10. CASE GetObject(p) /\ ~Finish(p)
  <2> DEFINE n == IF req[p].kind = "restart" THEN kube[c].reps ELSE req[p].reps
             o == [kube[c] EXCEPT !.reps = n]
             pc == IF req[p].kind = "modify" THEN "kput" ELSE "online"
             v == [req[p] EXCEPT !.pc = pc, !.obj = o]
  <2>1. req' = [req EXCEPT ![p] = v]
    BY <1>3, <1>10 DEF GetObject
  <2>2. pc \in {"kput", "online"} /\ (pc = "kput" => req[p].kind = "modify")
    OBVIOUS
  <2> HIDE DEF o, pc
  <2>3. v.pc = pc /\ v.kind = req[p].kind /\ v.cluster = c
    BY <1>3, Reads DEF Request
  <2> HIDE DEF v
  <2>4. req'[p] = v /\ \A q \in Procs : q # p => req'[q] = req[q]
    BY <2>1, Reads DEF Types
  <2> QED
    BY <1>6, <2>2, <2>3, <2>4
<1>11. CASE GetByCluster(p) /\ ~Finish(p)
  <2>1. PICK r \in rows :
          /\ r.cluster = c
          /\ req' = [req EXCEPT ![p] = [req[p] EXCEPT !.pc = "kget", !.tpl = r.tpl]]
    BY <1>3, <1>11 DEF GetByCluster
  <2>2. /\ req'[p].pc = "kget" /\ req'[p].kind = req[p].kind /\ req'[p].cluster = c
        /\ req'[p].tpl = r.tpl
        /\ \A q \in Procs : q # p => req'[q] = req[q]
    BY <1>3, <2>1, Reads DEF Types, Request
  <2>3. c \notin unsettled => r.tpl = kube[c].tpl
    <3>1. r \in PS!RowsOf(c)
      BY <2>1 DEF PS!RowsOf
    <3> QED
      BY <1>4, <3>1 DEF Synced, InSync
  <2> QED
    BY <1>6, <2>2, <2>3
<1>12. ASSUME NEW pc \in {"kput", "kcreate"}, NEW o,
              req' = [req EXCEPT ![p] = [req[p] EXCEPT !.pc = pc, !.obj = o]],
              req[p].pc = "kget"
       PROVE  SyncInv'
  <2>1. /\ req'[p].pc = pc /\ req'[p].kind = req[p].kind /\ req'[p].cluster = c
        /\ req'[p].tpl = req[p].tpl
        /\ \A q \in Procs : q # p => req'[q] = req[q]
    BY <1>3, <1>12, Reads DEF Types, Request
  <2>2. req[p].kind \in {"restart", "scale"} /\ c \notin unsettled => req[p].tpl = kube[c].tpl
    BY <1>4, <1>12 DEF Tells
  <2> QED
    BY <1>6, <1>12, <2>1, <2>2
<1>13. CASE GetOld(p)
  <2> DEFINE spec == [tpl |-> req[p].tpl, reps |-> req[p].reps, rv |-> kube[c].rv]
             o == IF req[p].kind \in {"deploy", "upgrade"} THEN spec ELSE req[p].obj
  <2>1. req[p].pc = "kget"
    BY <1>13 DEF GetOld
  <2>2. \/ req' = [req EXCEPT ![p] = [req[p] EXCEPT !.pc = "kput", !.obj = o]]
        \/ req' = [req EXCEPT ![p] = [req[p] EXCEPT !.pc = "kcreate", !.obj = spec]]
        \/ FailTo(p, "record")
    BY <1>3, <1>13 DEF GetOld
  <2> HIDE DEF o, spec
  <2> QED
    BY <1>7, <1>12, <2>1, <2>2 DEF ReqPCs
<1>14. CASE UpdateMeta(p) \/ Record(p)
  <2>1. Finish(p) \/ Goto(p, "record") \/ Goto(p, "meta")
    BY <1>14 DEF UpdateMeta, AfterMeta, Record
  <2> QED
    BY <1>5, <1>7, <2>1 DEF ReqPCs
<1> QED
  BY <1>5, <1>8, <1>9, <1>10, <1>11, <1>13, <1>14

(* A stored object has the template of before, or unsettles its cluster.   *)
LEMMA StoreSynced ==
  ASSUME PipeInv, SyncInv, NEW p \in Procs, NEW c \in Clusters, c = req[p].cluster,
         req[p].pc \in {"kcreate", "kput"}, Accepted(p), Store(p), rows' = rows
  PROVE  /\ Synced(c)'
         /\ kube'[c].tpl = req[p].obj.tpl
         /\ c \notin unsettled' => c \notin unsettled /\ kube'[c].tpl = kube[c].tpl
         /\ \A d \in Clusters : d # c => kube'[d] = kube[d] /\ (d \in unsettled' <=> d \in unsettled)
<1>1. /\ kube \in [Clusters -> Object] /\ req[p].obj \in Object
      /\ kube' = [kube EXCEPT ![c] = [req[p].obj EXCEPT !.rv = kube[c].rv + 1]]
      /\ unsettled' = IF kube[c].tpl # req[p].obj.tpl THEN unsettled \cup {c} ELSE unsettled
  BY AcceptedObject, Reads DEF Types, Store
<1>2. kube'[c].tpl = req[p].obj.tpl
  BY <1>1 DEF Object
<1>3. c \notin unsettled' => c \notin unsettled /\ kube'[c].tpl = kube[c].tpl
  BY <1>1, <1>2
<1>4. Synced(c)'
  BY <1>3 DEF SyncInv, Synced, InSync, Live, PS!RowsOf
<1> QED
  BY <1>1, <1>2, <1>3, <1>4

(* The write of the object, taken, refused or unanswered.                  *)
LEMMA WriteSync ==
  ASSUME PipeInv, SyncInv, NEW p \in Procs, Write(p) \/ WriteFails(p)
  PROVE  SyncInv'
<1>1. /\ req[p].pc \in {"kcreate", "kput"} /\ UNCHANGED status /\ rows' = rows
      /\ Placed(p) /\ InFlight(p)
  BY Reads DEF Write, WriteFails, status, InFlight, RequestInv
<1>2. PICK c \in Clusters : c = req[p].cluster
  BY <1>1, Reads
<1>3. PSP!Idle(p) /\ Owns(p, c) /\ Tells(p, c) /\ Synced(c) /\ req[p].kind # "offline"
  BY <1>1, <1>2, NotCalled, OwnsIts DEF Agrees, SyncInv, Placed, Place
<1>4. ASSUME Synced(c)',
             \A d \in Clusters :
               d # c => kube'[d] = kube[d] /\ (d \in unsettled' <=> d \in unsettled),
             Finish(p)
      PROVE  SyncInv'
  <2>1. /\ req'[p].pc = "idle" /\ req'[p].kind # "offline" /\ ~InFlight(p)'
        /\ \A q \in Procs : q # p => req'[q] = req[q]
    BY <1>4, FinishFields, IdleKind, Reads DEF Kinds
  <2> QED
    BY <1>1, <1>3, <1>4, <2>1, ObjectSync
<1>5. ASSUME Synced(c)',
             \A d \in Clusters :
               d # c => kube'[d] = kube[d] /\ (d \in unsettled' <=> d \in unsettled),
             FailTo(p, "record")
      PROVE  SyncInv'
  <2>1. /\ req'[p].pc = "record" /\ req'[p].kind # "offline" /\ req'[p].cluster = c
        /\ \A q \in Procs : q # p => req'[q] = req[q]
    BY <1>2, <1>3, <1>5, FailToFields, Reads DEF ReqPCs
  <2>2. Tells(p, c)'
    BY <2>1 DEF Tells
  <2> QED
    BY <1>1, <1>3, <1>5, <2>1, <2>2, ObjectSync
<1>6. CASE Write(p)
  <2>1. Accepted(p) /\ Store(p)
    BY <1>6 DEF Write
  <2>2. CASE req[p].kind = "modify"
    <3>1. Finish(p)
      BY <1>6, <2>2 DEF Write, Finish
    <3> QED
      BY <1>1, <1>2, <1>4, <2>1, <3>1, StoreSynced
  <2>3. CASE req[p].kind # "modify"
    <3>1. req' = [req EXCEPT ![p] = [req[p] EXCEPT !.pc = "status", !.hist = "ok"]]
      BY <1>6, <2>3 DEF Write
    <3>2. /\ req'[p].pc = "status" /\ req'[p].kind = req[p].kind /\ req'[p].cluster = c
          /\ req'[p].tpl = req[p].tpl
          /\ \A q \in Procs : q # p => req'[q] = req[q]
      BY <1>2, <3>1, Reads DEF Types, Request
    <3>3. Publishes(p) => kube'[c].tpl = req[p].tpl
      BY <1>1, <1>2, <2>1, AcceptedObject, StoreSynced
    <3>4. req[p].kind \in {"restart", "scale"} /\ c \notin unsettled' => req[p].tpl = kube'[c].tpl
      <4>1. req[p].kind \in {"restart", "scale"} => req[p].pc = "kput"
        BY <1>1 DEF Placed, Place
      <4> QED
        BY <1>1, <1>2, <1>3, <2>1, <4>1, StoreSynced DEF Tells
    <3>5. Tells(p, c)'
      BY <1>3, <3>2, <3>3, <3>4 DEF Tells, Publishes
    <3> QED
      BY <1>1, <1>2, <1>3, <2>1, <3>2, <3>5, StoreSynced, ObjectSync
  <2> QED
    BY <2>2, <2>3
<1>7. CASE WriteFails(p)
  <2>1. Finish(p) \/ FailTo(p, "record")
    BY <1>7 DEF WriteFails
  <2>2. CASE UNCHANGED <<kube, unsettled>>
    <3>1. Synced(c)'
      BY <1>1, <1>3, <2>2 DEF Synced, InSync, Live, PS!RowsOf
    <3> QED
      BY <1>4, <1>5, <2>1, <2>2, <3>1
  <2>3. CASE Accepted(p) /\ Store(p)
    BY <1>1, <1>2, <1>4, <1>5, <2>1, <2>3, StoreSynced
  <2> QED
    BY <1>7, <2>2, <2>3 DEF WriteFails
<1> QED
  BY <1>6, <1>7

(* The deletion of the object unsettles its cluster.                       *)
LEMMA DeleteSync ==
  ASSUME PipeInv, SyncInv, NEW p \in Procs, DeleteObject(p)
  PROVE  SyncInv'
<1>1. req[p].pc = "kdelete" /\ UNCHANGED status /\ rows' = rows /\ InFlight(p)
      /\ req[p].kind = "offline"
  BY Reads DEF DeleteObject, status, InFlight, RequestInv, Placed, Place
<1>2. PICK c \in Clusters : c = req[p].cluster
  BY <1>1, Reads
<1>3. PSP!Idle(p) /\ Calls(p) /\ Owns(p, c) /\ Synced(c)
  BY <1>1, <1>2, NotCalled, OwnsIts DEF SyncInv
<1>4. /\ kube \in [Clusters -> Object]
      /\ \/ /\ kube' = [kube EXCEPT ![c] = [tpl |-> None, reps |-> 0, rv |-> kube[c].rv + 1]]
            /\ unsettled' = unsettled \cup {c}
            /\ Finish(p) \/ Goto(p, "status")
         \/ /\ kube' = kube
            /\ Finish(p) \/ Goto(p, "status")
            /\ unsettled' \in {unsettled, unsettled \cup {c}}
            /\ Goto(p, "status") /\ Live(c) => unsettled' = unsettled \cup {c}
  <2>1. kube \in [Clusters -> Object]
    BY Reads DEF Types
  <2>2. Finish(p) => req'[p].pc = "idle"
    BY FinishFields, IdleKind, Reads
  <2>3. Goto(p, "status") => req'[p].pc = "status"
    BY GotoFields, Reads DEF ReqPCs
  <2> QED
    BY <1>2, <2>1, <2>2, <2>3 DEF DeleteObject
<1>5. \A d \in Clusters : d # c => kube'[d] = kube[d] /\ (d \in unsettled' <=> d \in unsettled)
  BY <1>4
<1>6. c \notin unsettled' => kube' = kube /\ c \notin unsettled /\ (Goto(p, "status") => ~Live(c))
  BY <1>4
<1>7. Synced(c)'
  BY <1>1, <1>3, <1>6 DEF Synced, InSync, Live, PS!RowsOf
<1>8. CASE Finish(p)
  <2>1. /\ req'[p].pc = "idle" /\ req'[p].kind # "offline" /\ ~InFlight(p)'
        /\ \A q \in Procs : q # p => req'[q] = req[q]
    BY <1>8, FinishFields, IdleKind, Reads DEF Kinds
  <2> QED
    BY <1>1, <1>3, <1>5, <1>7, <2>1, ObjectSync
<1>9. CASE Goto(p, "status")
  <2>1. /\ req'[p].pc = "status" /\ req'[p].kind = "offline" /\ req'[p].cluster = c
        /\ req'[p].id = req[p].id
        /\ \A q \in Procs : q # p => req'[q] = req[q]
    BY <1>1, <1>2, <1>9, GotoFields, Reads DEF ReqPCs
  <2>2. Tells(p, c)'
    BY <1>6, <1>9, <2>1 DEF Tells, Publishes, Live
  <2>3. \A r \in PSP!AllRows : r.id = req'[p].id => r.cluster = req'[p].cluster
    BY <1>1, <1>2, <1>3, <2>1 DEF Calls
  <2> QED
    BY <1>1, <1>3, <1>5, <1>7, <2>1, <2>2, <2>3, ObjectSync
<1> QED
  BY <1>4, <1>8, <1>9

(***************************************************************************)
(* The status call begins, and returns.                                    *)
(***************************************************************************)
LEMMA CallStatusSync ==
  ASSUME Serial, PipeInv, SyncInv, NEW p \in Procs, CallStatus(p)
  PROVE  SyncInv'
<1>1. /\ req[p].pc = "status" /\ InFlight(p) /\ Goto(p, "called")
      /\ UNCHANGED <<kube, meta, history, started, applied, unsettled>>
  BY DEF CallStatus, InFlight
<1> PICK c \in Clusters : c = req[p].cluster
  BY <1>1, Reads
<1>2. PSP!TypeInv /\ PSP!Idle(p) /\ Calls(p) /\ Tells(p, c) /\ Synced(c) /\ Owns(p, c)
  BY <1>1, NotCalled, OwnsIts DEF PipeInv, SyncInv, Agrees
<1>3. /\ req'[p].pc = "called" /\ req'[p].kind = req[p].kind /\ req'[p].cluster = c
      /\ req'[p].tpl = req[p].tpl /\ req'[p].id = req[p].id
      /\ \A q \in Procs : q # p => req'[q] = req[q]
  BY <1>1, GotoFields, Reads DEF ReqPCs
<1>4. ASSUME UNCHANGED <<rows, lastId>>, tx'[p].new = tx[p].new, ~PSP!Idle(p)',
             \A q \in Procs : q # p => tx'[q] = tx[q] /\ reply'[q] = reply[q],
             reply'[p] = "none", tx'[p].pc # "remove",
             PSP!Publishing(p)' =>
               tx'[p].cluster = c /\ tx'[p].tpl = req[p].tpl /\ req[p].kind # "offline",
             tx'[p].pc = "read" => tx'[p].id = req[p].id /\ req[p].kind = "offline",
             PSP!OneRowInv', PSP!IdInv'
      PROVE  SyncInv'
  <2>1. PSP!AllRows' = PSP!AllRows
    <3>1. \A q \in Procs : tx'[q].new = tx[q].new
      BY <1>4
    <3> QED
      BY <1>4, <3>1 DEF PSP!AllRows
  <2>2. Apart(p, c)
    BY <1>1, <1>3, <1>4, <2>1 DEF Apart, PSP!RowsOf
  <2>3. Calls(p)'
    BY <1>2, <1>3, <1>4, <2>1 DEF Calls
  <2>4. Tells(p, c)' /\ Told(p, c)'
    BY <1>1, <1>2, <1>3, <1>4 DEF Tells, Told, Publishes, Live
  <2>5. Agrees(p)'
    BY <1>3, <2>4 DEF Agrees
  <2>6. Synced(c)'
    BY <1>1, <1>2, <1>4 DEF Synced, InSync, Live, PS!RowsOf
  <2> QED
    BY <1>2, <1>3, <1>4, <2>2, <2>3, <2>5, <2>6, SyncStep
<1>5. CASE req[p].kind = "offline"
  <2>1. PSP!DeleteById(p, req[p].id) /\ req[p].id \in 1..lastId
    BY <1>5, CallsAre, Reads DEF CallStatus, RequestInv, Named
  <2>2. PSP!OneRowInv' /\ PSP!IdInv'
    BY <1>2, <2>1, StatusConstants, PSP!StepOneRow, PSP!StepIds DEF SyncInv, PSP!Next
  <2>3. /\ tx'[p].pc = "read" /\ tx'[p].id = req[p].id /\ tx'[p].new = tx[p].new
        /\ \A q \in Procs : q # p => tx'[q] = tx[q] /\ reply'[q] = reply[q]
        /\ reply'[p] = "none" /\ UNCHANGED <<rows, lastId>>
    BY <1>2, <2>1 DEF PSP!DeleteById, PSP!TypeInv, PSP!TypeOK, PSP!Tx
  <2> QED
    BY <1>4, <1>5, <2>2, <2>3 DEF PSP!Idle, PSP!Publishing, PSP!PublishPCs
<1>6. CASE req[p].kind # "offline"
  <2>1. req[p].tpl \in Tpls
    BY <1>1, <1>6, Reads DEF RequestInv, Truthful, Ran, Types
  <2>2. PSP!Add(p, c, req[p].tpl)
    BY <1>6, CallsAre DEF CallStatus
  <2>3. PSP!OneRowInv' /\ PSP!IdInv'
    BY <1>2, <2>1, <2>2, StatusConstants, PSP!StepOneRow, PSP!StepIds DEF SyncInv, PSP!Next
  <2>4. /\ tx'[p].pc = "begin" /\ tx'[p].cluster = c /\ tx'[p].tpl = req[p].tpl
        /\ tx'[p].new = tx[p].new
        /\ \A q \in Procs : q # p => tx'[q] = tx[q] /\ reply'[q] = reply[q]
        /\ reply'[p] = "none" /\ UNCHANGED <<rows, lastId>>
    BY <1>2, <2>2 DEF PSP!Add, PSP!TypeInv, PSP!TypeOK, PSP!Tx
  <2> QED
    BY <1>4, <1>6, <2>3, <2>4 DEF PSP!Idle
<1> QED
  BY <1>5, <1>6

(* A call that reports success has put the table right.                    *)
LEMMA StatusReturnsSync ==
  ASSUME PipeInv, SyncInv, NEW p \in Procs, StatusReturns(p)
  PROVE  SyncInv'
<1>1. /\ req[p].pc = "called" /\ InFlight(p) /\ PSP!Idle(p)
      /\ UNCHANGED <<status, kube>> /\ rows' = rows
      /\ unsettled' = IF Settles(p) THEN unsettled \ {req[p].cluster} ELSE unsettled
      /\ IF req[p].kind = "offline" THEN Finish(p) ELSE Goto(p, "meta") \/ Goto(p, "record")
  BY DEF StatusReturns, InFlight, PS!Idle, PSP!Idle, status
<1> PICK c \in Clusters : c = req[p].cluster
  BY <1>1, Reads
<1>2. Calls(p) /\ Tells(p, c) /\ Told(p, c) /\ Synced(c) /\ Owns(p, c)
  BY <1>1, OwnsIts DEF SyncInv, Agrees
<1>3. Synced(c)'
  <2>1. CASE ~Settles(p)
    BY <1>1, <1>2, <2>1 DEF Synced, InSync, Live, PS!RowsOf
  <2>2. CASE Settles(p)
    <3>1. reply[p] = "ok" /\ (Publishes(p) \/ (req[p].kind = "offline" /\ ~Live(c)))
      BY <1>2, <2>2 DEF Settles, Published, Calls, Publishes
    <3>2. CASE Publishes(p)
      <4>1. /\ {r.tpl : r \in PSP!RowsOf(c)} = {req[p].tpl}
            /\ kube[c].tpl = req[p].tpl
        BY <1>1, <1>2, <3>1, <3>2 DEF Tells, Told
      <4>2. Live(c)
        BY <3>2, <4>1, Reads, StatusAssumption DEF RequestInv, Named, Live
      <4>3. InSync(c)
        BY <4>1, <4>2, SameRowsOf DEF InSync
      <4> QED
        BY <1>1, <4>3 DEF Synced, InSync, Live, PS!RowsOf
    <3>3. CASE req[p].kind = "offline" /\ ~Live(c)
      <4>1. PSP!RowsOf(c) = {}
        BY <1>1, <1>2, <3>1, <3>3 DEF Told
      <4>2. InSync(c)
        BY <3>3, <4>1, SameRowsOf DEF InSync
      <4> QED
        BY <1>1, <4>2 DEF Synced, InSync, Live, PS!RowsOf
    <3> QED
      BY <3>1, <3>2, <3>3
  <2> QED
    BY <2>1, <2>2
<1>4. \A d \in Clusters : d # c => kube'[d] = kube[d] /\ (d \in unsettled' <=> d \in unsettled)
  BY <1>1
<1>5. /\ req'[p].pc \in {"idle", "meta", "record"} /\ req'[p].kind # "offline"
      /\ InFlight(p)' => req'[p].cluster = c
      /\ \A q \in Procs : q # p => req'[q] = req[q]
  <2>1. CASE Finish(p)
    BY <2>1, FinishFields, IdleKind, Reads DEF Kinds
  <2>2. CASE req[p].kind # "offline" /\ (Goto(p, "meta") \/ Goto(p, "record"))
    BY <2>2, GotoFields, Reads DEF ReqPCs
  <2> QED
    BY <1>1, <2>1, <2>2
<1>6. Tells(p, c)'
  BY <1>5 DEF Tells
<1> QED
  BY <1>1, <1>2, <1>3, <1>4, <1>5, <1>6, ObjectSync

(***************************************************************************)
(* A crash ends the requests, and nothing else.                            *)
(***************************************************************************)
LEMMA RestSync ==
  ASSUME PSP!OneRowInv, PSP!IdInv, \A c \in Clusters : Synced(c),
         \A p \in Procs : /\ PSP!Idle(p) /\ reply[p] = "none"
                          /\ req[p] = NoRequest
  PROVE  SyncInv
<1>1. \A p \in Procs : req[p].pc = "idle" /\ req[p].kind = None /\ ~InFlight(p)
  BY DEF NoRequest, InFlight
<1>2. OnePerCluster
  BY <1>1 DEF OnePerCluster
<1>3. ASSUME NEW p \in Procs PROVE Calls(p) /\ Agrees(p)
  <2>1. req[p].kind # "offline" /\ ~PSP!Publishing(p)
    BY <1>1, StatusAssumption DEF Kinds, PSP!Idle, PSP!Publishing, PSP!PublishPCs
  <2> QED
    BY <1>1, <2>1 DEF Calls, Agrees, Tells, Told, PSP!Idle
<1> QED
  BY <1>2, <1>3 DEF SyncInv

(* The rows, the objects and what is unsettled outlive the process.        *)
LEMMA CrashSync ==
  ASSUME PipeInv, SyncInv, Crash
  PROVE  SyncInv'
<1>1. PSP!Crash
  BY DEF Crash, PS!Crash, PSP!Crash, PS!IdleTx, PSP!IdleTx
<1>2. PSP!OneRowInv' /\ PSP!IdInv'
  BY <1>1, StatusConstants, PSP!StepOneRow, PSP!StepIds DEF PipeInv, SyncInv, PSP!Next
<1>3. \A c \in Clusters : Synced(c)'
  BY <1>1 DEF Crash, PSP!Crash, SyncInv, Synced, InSync, Live, PS!RowsOf
<1>4. \A p \in Procs : PSP!Idle(p)' /\ reply'[p] = "none" /\ req'[p] = NoRequest
  BY <1>1 DEF Crash, PSP!Crash, PSP!Idle, PSP!IdleTx
<1>5. \A p \in Procs : req'[p].pc = "idle" /\ req'[p].kind = None /\ ~InFlight(p)'
  BY <1>4 DEF NoRequest, InFlight
<1>6. OnePerCluster'
  BY <1>5 DEF OnePerCluster
<1>7. ASSUME NEW p \in Procs PROVE Calls(p)' /\ Agrees(p)'
  <2>1. req'[p].kind # "offline" /\ ~PSP!Publishing(p)'
    BY <1>4, <1>5, StatusAssumption DEF Kinds, PSP!Idle, PSP!Publishing, PSP!PublishPCs
  <2> QED
    BY <1>4, <1>5, <2>1 DEF Calls, Agrees, Tells, Told, PSP!Idle
<1> QED
  BY <1>2, <1>3, <1>6, <1>7 DEF SyncInv

(* At the start the table says what each cluster runs.                     *)
LEMMA InitSync == Init => SyncInv
<1> SUFFICES ASSUME Init PROVE SyncInv
  OBVIOUS
<1>1. \A p \in Procs : req[p] = NoRequest
  BY DEF Init
<1>2. CASE Fresh
  <2>1. PSP!Init
    BY <1>2 DEF Fresh, PS!Init, PSP!Init, PS!IdleTx, PSP!IdleTx
  <2>2. PSP!OneRowInv /\ PSP!IdInv
    BY <2>1, StatusConstants, PSP!InitOneRow, PSP!InitIds
  <2>3. \A p \in Procs : PSP!Idle(p) /\ reply[p] = "none"
    BY <2>1 DEF PSP!Init, PSP!Idle, PSP!IdleTx
  <2>4. \A c \in Clusters : Synced(c)
    BY <1>2, <2>1 DEF Fresh, PSP!Init, Synced, InSync, Live, PS!RowsOf
  <2> QED
    BY <1>1, <2>2, <2>3, <2>4, RestSync
<1>3. ASSUME NEW c \in Running, NEW t \in Tpls, NEW n \in Replicas, Deployed(c, t, n)
      PROVE  SyncInv
  <2> DEFINE row == [id |-> 1, cluster |-> c, tpl |-> t]
  <2>1. rows = {row} /\ lastId = 1 /\ tx = [p \in Procs |-> PSP!IdleTx]
    BY <1>3 DEF Deployed, PS!IdleTx, PSP!IdleTx
  <2>2. \A p \in Procs : PSP!Idle(p) /\ reply[p] = "none" /\ tx[p].new = {} /\ tx[p].pc = "idle"
    BY <1>3, <2>1 DEF Deployed, PSP!Idle, PSP!IdleTx
  <2>3. PSP!OneRowInv
    BY <2>1, <2>2 DEF PSP!OneRowInv, PSP!OneRowPerCluster, PSP!Sole, PSP!Publishing,
                      PSP!PublishPCs, PSP!Replaces, PSP!Selected
  <2>4. PSP!IdInv
    <3>1. PSP!AllRows = {row}
      BY <2>1, <2>2 DEF PSP!AllRows
    <3> QED
      BY <2>1, <3>1 DEF PSP!IdInv
  <2>5. \A d \in Clusters : d # c => PS!RowsOf(d) = {} /\ kube[d].tpl = None
    BY <1>3, <2>1 DEF Deployed, PS!RowsOf
  <2>6. PS!RowsOf(c) = {row} /\ kube[c].tpl = t /\ t # None
    BY <1>3, <2>1, RequestsAssumption, StatusAssumption DEF Deployed, PS!RowsOf
  <2>7. \A d \in Clusters : Synced(d)
    <3>1. {r.tpl : r \in PS!RowsOf(c)} = {t}
      BY <2>6
    <3> QED
      BY <2>5, <2>6, <3>1 DEF Synced, InSync, Live
  <2> QED
    BY <1>1, <2>2, <2>3, <2>4, <2>7, RestSync
<1> QED
  BY <1>2, <1>3 DEF Init

(* Every step keeps the table right.                                       *)
LEMMA StepSync ==
  ASSUME Serial, "commit" \notin Faults, PipeInv, SyncInv, [Next]_vars
  PROVE  SyncInv'
<1>1. ASSUME NEW p \in Procs, NEW c \in Clusters,
             \/ \E t \in Tpls, n \in Replicas : Start(p, "deploy", c, t, n)
             \/ \E t \in Tpls : Start(p, "upgrade", c, t, 0)
             \/ Start(p, "restart", c, None, 0)
             \/ \E n \in Replicas, kind \in {"scale", "modify"} : Start(p, kind, c, None, n)
      PROVE  SyncInv'
  <2>1. \E kind \in Kinds \ {"offline"} : \E t, n : Start(p, kind, c, t, n)
    BY <1>1 DEF Kinds
  <2> QED
    BY <2>1, StartSync
<1>2. ASSUME NEW p \in Procs, NEW c \in Clusters, NEW id, NEW force, StartOffline(p, c, id, force)
      PROVE  SyncInv'
  BY <1>2, StartOfflineSync
<1>3. ASSUME NEW p \in Procs, Step(p)
      PROVE  SyncInv'
  BY <1>3, ReadSync, WriteSync, DeleteSync, CallStatusSync, StatusSync, StatusReturnsSync
     DEF Step
<1>4. CASE UNCHANGED vars
  <2>1. PSP!OneRowInv' /\ PSP!IdInv' /\ PSP!AllRows' = PSP!AllRows
    BY <1>4 DEF vars, status, SyncInv, PSP!OneRowInv, PSP!OneRowPerCluster, PSP!Sole,
                PSP!Publishing, PSP!Replaces, PSP!Selected, PSP!RowsOf, PSP!IdInv, PSP!AllRows
  <2>2. \A p \in Procs : Calls(p)' /\ Agrees(p)'
    BY <1>4, <2>1 DEF vars, status, SyncInv, Calls, Agrees, Tells, Told, Live, Publishes,
                      PSP!Idle, PSP!Publishing, PSP!RowsOf
  <2>3. \A c \in Clusters : Synced(c)'
    BY <1>4 DEF vars, status, SyncInv, Synced, InSync, Live, PS!RowsOf
  <2>4. OnePerCluster'
    BY <1>4 DEF vars, SyncInv, OnePerCluster, InFlight
  <2> QED
    BY <2>1, <2>2, <2>3, <2>4 DEF SyncInv
<1> QED
  BY <1>1, <1>2, <1>3, <1>4, CrashSync DEF Next

(* Where clients send one request at a time for each cluster and commits   *)
(* do not fail, a cluster whose last change of template has been reported  *)
(* published, or that never had one, runs what the status table says.      *)
THEOREM SettledIsInSync == Spec => []InSyncUnlessUnsettled
<1>1. CASE Serial /\ "commit" \notin Faults
  <2>1. PipeInv /\ SyncInv /\ [Next]_vars => SyncInv'
    BY <1>1, StepSync
  <2>2. SyncInv => InSyncUnlessUnsettled
    BY DEF SyncInv, Synced, InSyncUnlessUnsettled
  <2> QED
    BY <2>1, <2>2, InitSync, PipeInvariant, PTL DEF Spec
<1>2. CASE ~(Serial /\ "commit" \notin Faults)
  <2>1. InSyncUnlessUnsettled
    BY <1>2 DEF InSyncUnlessUnsettled
  <2> QED
    BY <2>1, PTL
<1> QED
  BY <1>1, <1>2
=============================================================================
