------------------------- MODULE PublishStatusProofs -------------------------
(***************************************************************************)
(* Theorems of PublishStatus, for every number of goroutines, clusters,    *)
(* templates and connections, every set of failing calls and every bound.  *)
(***************************************************************************)
EXTENDS PublishStatus, TLAPS

(***************************************************************************)
(* What a call in progress holds: its arguments once it publishes; a row   *)
(* of its own cluster to replace; and, before the commit, one row for it.  *)
(***************************************************************************)
Holds(p) ==
  /\ Publishing(p) => tx[p].cluster \in Clusters /\ tx[p].tpl \in Tpls
  /\ Idle(p) => tx[p].old = {}
  /\ \A r \in tx[p].old : r.cluster = tx[p].cluster
  /\ tx[p].pc = "commit" => \E n \in Nat :
       tx[p].new = {[id |-> n, cluster |-> tx[p].cluster, tpl |-> tx[p].tpl]}

TypeInv == TypeOK /\ \A p \in Procs : Holds(p)

(* The record of one call is replaced by one that holds what it should.    *)
LEMMA UpdateHolds ==
  ASSUME TypeInv, NEW p \in Procs, NEW v \in Tx, tx' = [tx EXCEPT ![p] = v],
         v.pc # "idle",
         v.pc \in PublishPCs => v.cluster \in Clusters /\ v.tpl \in Tpls,
         \A r \in v.old : r.cluster = v.cluster,
         v.pc = "commit" => \E n \in Nat :
           v.new = {[id |-> n, cluster |-> v.cluster, tpl |-> v.tpl]}
  PROVE  tx' \in [Procs -> Tx] /\ \A q \in Procs : Holds(q)'
<1>1. tx' \in [Procs -> Tx]
  BY DEF TypeInv, TypeOK
<1>2. Holds(p)'
  BY DEF TypeInv, TypeOK, Holds, Publishing, Idle
<1>3. ASSUME NEW q \in Procs, q # p PROVE Holds(q)'
  <2>1. tx'[q] = tx[q]
    BY <1>3 DEF TypeInv, TypeOK
  <2> QED
    BY <2>1 DEF TypeInv, Holds, Publishing, Idle
<1> QED
  BY <1>1, <1>2, <1>3

(* A call moves on without a change of what it holds.                      *)
LEMMA GotoHolds ==
  ASSUME TypeInv, NEW p \in Procs, NEW pc \in PCs, Goto(p, pc),
         pc \notin {"idle", "commit"}, pc \in PublishPCs => Publishing(p)
  PROVE  tx' \in [Procs -> Tx] /\ \A q \in Procs : Holds(q)'
  BY DEF TypeInv, TypeOK, Holds, Goto, Publishing, PublishPCs, Tx, Idle

(* A call that returns holds nothing.                                      *)
LEMMA ReturnHolds ==
  ASSUME TypeInv, NEW p \in Procs, NEW res \in Replies, Return(p, res)
  PROVE  /\ tx' \in [Procs -> Tx]
         /\ reply' \in [Procs -> Replies]
         /\ \A q \in Procs : Holds(q)'
  BY DEF TypeInv, TypeOK, Replies, Holds, Return, Publishing, PublishPCs, PCs, Tx, IdleTx, Idle

(* Row locks are ids of rows.                                              *)
LEMMA LockedType == ASSUME TypeOK, NEW p \in Procs PROVE Locked(p) \subseteq Nat
  BY DEF TypeOK, Locked, Tx, Row

(* A call that returns with its transaction open holds nothing itself.     *)
LEMMA AbandonHolds ==
  ASSUME TypeInv, NEW p \in Procs, NEW res \in Replies, Abandon(p, res)
  PROVE  /\ tx' \in [Procs -> Tx]
         /\ reply' \in [Procs -> Replies]
         /\ leaked' \in Nat
         /\ orphanLocks' \subseteq Nat
         /\ \A q \in Procs : Holds(q)'
<1>1. Locked(p) \subseteq Nat
  BY LockedType DEF TypeInv
<1>2. leaked' \in Nat
  BY DEF Abandon, TypeInv, TypeOK, Replies
<1>3. orphanLocks' \subseteq Nat
  BY <1>1 DEF Abandon, TypeInv, TypeOK, Replies
<1> QED
  BY <1>2, <1>3, ReturnHolds DEF Abandon

(* A server that has just started: nobody holds anything.                  *)
LEMMA InitTypeInv == Init => TypeInv
  BY DEF Init, TypeInv, TypeOK, Replies, Holds, Publishing, PublishPCs, PCs, Tx, IdleTx, Idle

(* No step of Publish, of DeleteById or of the server breaks TypeInv.      *)
LEMMA StepTypeInv == TypeInv /\ [Next]_vars => TypeInv'
<1> SUFFICES ASSUME TypeInv, [Next]_vars PROVE TypeInv'
  OBVIOUS
<1> USE DEF PublishPCs, PCs
<1>1. ASSUME NEW p \in Procs, NEW c \in Clusters, NEW t \in Tpls, Add(p, c, t)
      PROVE  TypeInv'
  <2> DEFINE v == [tx[p] EXCEPT !.pc = "begin", !.cluster = c, !.tpl = t]
  <2>1. v \in Tx /\ v.pc = "begin" /\ v.cluster = c /\ v.tpl = t /\ v.old = tx[p].old
    BY DEF TypeInv, TypeOK, Tx
  <2>2. tx' = [tx EXCEPT ![p] = v]
    BY <1>1 DEF Add
  <2>3. v.old = {}
    BY <1>1, <2>1 DEF Add, TypeInv, Idle, Holds
  <2> HIDE DEF v
  <2>4. tx' \in [Procs -> Tx] /\ \A q \in Procs : Holds(q)'
    BY <2>1, <2>2, <2>3, UpdateHolds
  <2> QED
    BY <1>1, <2>4 DEF Add, TypeInv, TypeOK, Replies
<1>2. ASSUME NEW p \in Procs, NEW id \in 1..lastId, DeleteById(p, id)
      PROVE  TypeInv'
  <2> DEFINE v == [tx[p] EXCEPT !.pc = "read", !.id = id]
  <2>1. id \in Nat
    BY DEF TypeInv, TypeOK
  <2>2. v \in Tx /\ v.pc = "read" /\ v.old = tx[p].old
    BY <2>1 DEF TypeInv, TypeOK, Tx
  <2>3. tx' = [tx EXCEPT ![p] = v]
    BY <1>2 DEF DeleteById
  <2>4. v.old = {}
    BY <1>2, <2>2 DEF DeleteById, TypeInv, Idle, Holds
  <2> HIDE DEF v
  <2>5. tx' \in [Procs -> Tx] /\ \A q \in Procs : Holds(q)'
    BY <2>2, <2>3, <2>4, UpdateHolds
  <2> QED
    BY <1>2, <2>5 DEF DeleteById, TypeInv, TypeOK, Replies
<1>3. ASSUME NEW p \in Procs, Proceed(p)
      PROVE  TypeInv'
  <2>1. CASE Begin(p)
    BY <2>1, GotoHolds DEF Begin, TypeInv, TypeOK, Publishing
  <2>2. CASE BeginFails(p)
    BY <2>2, ReturnHolds DEF BeginFails, TypeInv, TypeOK, Replies
  <2>3. CASE SelectNone(p)
    BY <2>3, GotoHolds DEF SelectNone, TypeInv, TypeOK, Publishing
  <2>4. CASE SelectOther(p)
    <3>1. PICK r \in RowsOf(tx[p].cluster) :
            tx' = [tx EXCEPT ![p] = [@ EXCEPT !.pc = "delete", !.old = {r}]]
      BY <2>4 DEF SelectOther
    <3> DEFINE v == [tx[p] EXCEPT !.pc = "delete", !.old = {r}]
    <3>2. v \in Tx /\ v.pc = "delete" /\ v.old = {r}
          /\ v.cluster = tx[p].cluster /\ v.tpl = tx[p].tpl
      BY DEF RowsOf, TypeInv, TypeOK, Tx
    <3>3. tx' = [tx EXCEPT ![p] = v]
      BY <3>1
    <3>4. tx[p].cluster \in Clusters /\ tx[p].tpl \in Tpls /\ r.cluster = tx[p].cluster
      BY <2>4 DEF SelectOther, RowsOf, TypeInv, Holds, Publishing
    <3> HIDE DEF v
    <3>5. tx' \in [Procs -> Tx] /\ \A q \in Procs : Holds(q)'
      BY <3>2, <3>3, <3>4, UpdateHolds
    <3> QED
      BY <2>4, <3>5 DEF SelectOther, TypeInv, TypeOK
  <2>5. CASE SelectSame(p)
    BY <2>5, AbandonHolds DEF SelectSame, TypeInv, TypeOK, Replies
  <2>6. CASE Delete(p)
    BY <2>6, GotoHolds DEF Delete, TypeInv, TypeOK, Publishing
  <2>7. CASE Insert(p)
    <3> DEFINE row == [id |-> lastId + 1, cluster |-> tx[p].cluster, tpl |-> tx[p].tpl]
    <3>1. row \in Row
      BY <2>7 DEF Insert, TypeInv, TypeOK, Holds, Publishing, Row
    <3> DEFINE v == [tx[p] EXCEPT !.pc = "commit", !.new = {row}]
    <3>2. v \in Tx /\ v.pc = "commit" /\ v.new = {row} /\ v.old = tx[p].old
          /\ v.cluster = tx[p].cluster /\ v.tpl = tx[p].tpl
      BY <3>1 DEF TypeInv, TypeOK, Tx
    <3>3. tx' = [tx EXCEPT ![p] = v]
      BY <2>7 DEF Insert
    <3>4. tx[p].cluster \in Clusters /\ tx[p].tpl \in Tpls
          /\ \A r \in tx[p].old : r.cluster = tx[p].cluster
      BY <2>7 DEF Insert, TypeInv, Holds, Publishing
    <3>5. lastId + 1 \in Nat
      BY DEF TypeInv, TypeOK
    <3> HIDE DEF v
    <3>6. tx' \in [Procs -> Tx] /\ \A q \in Procs : Holds(q)'
      BY <3>2, <3>3, <3>4, <3>5, UpdateHolds
    <3> QED
      BY <2>7, <3>5, <3>6 DEF Insert, TypeInv, TypeOK
  <2>8. CASE Commit(p)
    <3>1. rows' \subseteq Row
      BY <2>8 DEF Commit, TypeInv, TypeOK, Tx
    <3> QED
      BY <2>8, <3>1, ReturnHolds DEF Commit, TypeInv, TypeOK, Replies
  <2>9. CASE Read(p)
    BY <2>9, GotoHolds DEF Read, TypeInv, TypeOK, Publishing
  <2>10. CASE ReadFails(p)
    BY <2>10, ReturnHolds DEF ReadFails, TypeInv, TypeOK, Replies
  <2>11. CASE Remove(p)
    BY <2>11, ReturnHolds DEF Remove, TypeInv, TypeOK, Replies
  <2>12. CASE RemoveFails(p)
    BY <2>12, ReturnHolds DEF RemoveFails, TypeInv, TypeOK, Replies
  <2> QED
    BY <1>3, <2>1, <2>2, <2>3, <2>4, <2>5, <2>6, <2>7, <2>8, <2>9, <2>10, <2>11, <2>12
       DEF Proceed
<1>4. ASSUME NEW p \in Procs, Fail(p)
      PROVE  TypeInv'
  <2>1. CASE SelectFails(p)
    BY <2>1, AbandonHolds DEF SelectFails, TypeInv, TypeOK, Replies
  <2>2. CASE DeleteFails(p)
    BY <2>2, AbandonHolds DEF DeleteFails, TypeInv, TypeOK, Replies
  <2>3. CASE InsertFails(p)
    BY <2>3, ReturnHolds DEF InsertFails, TypeInv, TypeOK, Replies
  <2>4. CASE CommitFails(p)
    BY <2>4, ReturnHolds DEF CommitFails, TypeInv, TypeOK, Replies
  <2> QED
    BY <1>4, <2>1, <2>2, <2>3, <2>4 DEF Fail
<1>5. CASE Crash
  BY <1>5 DEF Crash, TypeInv, TypeOK, Replies, Holds, Publishing, Tx, IdleTx, Idle
<1>6. CASE UNCHANGED vars
  BY <1>6 DEF vars, TypeInv, TypeOK, Holds, Publishing, Idle
<1> QED
  BY <1>1, <1>2, <1>3, <1>4, <1>5, <1>6 DEF Next

(* Type correctness of the transactions on publish_status.                 *)
THEOREM TypeCorrect == Spec => []TypeOK
<1>1. TypeInv => TypeOK
  BY DEF TypeInv
<1> QED
  BY <1>1, InitTypeInv, StepTypeInv, PTL DEF Spec

(* At every moment each call in progress holds what Holds says: a Publish has*)
(* its arguments, replaces rows of its own cluster only, and commits one row*)
(* for it.                                                                 *)
THEOREM TypeInvariant == Spec => []TypeInv
  BY InitTypeInv, StepTypeInv, PTL DEF Spec

(***************************************************************************)
(* A call that returns without ending its transaction holds no row lock:   *)
(* it has not reached its DELETE.                                          *)
(***************************************************************************)
THEOREM OrphansLockNothing == Spec => []NoOrphanLocks
<1>1. Init => NoOrphanLocks
  BY DEF Init, NoOrphanLocks
<1>2. NoOrphanLocks /\ [Next]_vars => NoOrphanLocks'
  <2> SUFFICES ASSUME NoOrphanLocks, [Next]_vars PROVE NoOrphanLocks'
    OBVIOUS
  <2>1. ASSUME NEW p \in Procs, NEW res, tx[p].pc \in {"select", "delete"}, Abandon(p, res)
        PROVE  NoOrphanLocks'
    BY <2>1 DEF Abandon, Locked, NoOrphanLocks
  <2>2. ASSUME NEW p \in Procs, SelectSame(p) \/ SelectFails(p) \/ DeleteFails(p)
        PROVE  NoOrphanLocks'
    BY <2>1, <2>2 DEF SelectSame, SelectFails, DeleteFails
  <2>3. CASE UNCHANGED orphanLocks
    BY <2>3 DEF NoOrphanLocks
  <2>4. CASE Crash
    BY <2>4 DEF Crash, NoOrphanLocks
  <2> QED
    BY <2>2, <2>3, <2>4
       DEF Next, Proceed, Fail, vars, Add, DeleteById, Begin, BeginFails, SelectNone,
           SelectOther, Delete, Insert, InsertFails, Commit, CommitFails, Read, ReadFails,
           Remove, RemoveFails
<1> QED
  BY <1>1, <1>2, PTL DEF Spec

(***************************************************************************)
(* One row per cluster, where publishes to a cluster come one at a time.   *)
(* From its SELECT to its COMMIT a Publish replaces every row its cluster  *)
(* has: nobody else adds one, and one that DeleteById takes away meanwhile *)
(* only makes the set smaller.                                             *)
(***************************************************************************)
Sole == \A p, q \in Procs :
  Publishing(p) /\ Publishing(q) /\ tx[p].cluster = tx[q].cluster => p = q

Selected(p) == tx[p].pc \in {"delete", "insert", "commit"}

Replaces(p) == Selected(p) => RowsOf(tx[p].cluster) \subseteq tx[p].old

OneRowInv == Serial => OneRowPerCluster /\ Sole /\ \A p \in Procs : Replaces(p)

(* A call that returns without a new row keeps OneRowInv.                  *)
LEMMA ReturnOneRow ==
  ASSUME TypeInv, OneRowInv, NEW p \in Procs, NEW res, Return(p, res), rows' \subseteq rows
  PROVE  OneRowInv'
<1> SUFFICES ASSUME Serial PROVE OneRowInv'
  BY DEF OneRowInv
<1>1. OneRowPerCluster'
  BY DEF OneRowInv, OneRowPerCluster
<1>2. tx'[p] = IdleTx /\ \A q \in Procs : q # p => tx'[q] = tx[q]
  BY DEF Return, TypeInv, TypeOK
<1>3. \A q \in Procs : Publishing(q)' => q # p
  BY <1>2 DEF Publishing, PublishPCs, IdleTx
<1>4. Sole'
  BY <1>2, <1>3 DEF OneRowInv, Sole, Publishing
<1>5. ASSUME NEW q \in Procs PROVE Replaces(q)'
  BY <1>2 DEF OneRowInv, Replaces, Selected, RowsOf, IdleTx
<1> QED
  BY <1>1, <1>4, <1>5 DEF OneRowInv

(* A call that moves on, replacing what its cluster has, keeps OneRowInv.  *)
LEMMA GotoOneRow ==
  ASSUME TypeInv, OneRowInv, NEW p \in Procs, NEW pc, Goto(p, pc), rows' = rows,
         pc \in PublishPCs => Publishing(p),
         pc \in {"delete", "insert", "commit"} => RowsOf(tx[p].cluster) \subseteq tx[p].old
  PROVE  OneRowInv'
<1> SUFFICES ASSUME Serial PROVE OneRowInv'
  BY DEF OneRowInv
<1>1. /\ tx'[p].pc = pc /\ tx'[p].cluster = tx[p].cluster /\ tx'[p].old = tx[p].old
      /\ \A q \in Procs : q # p => tx'[q] = tx[q]
  BY DEF Goto, TypeInv, TypeOK, Tx
<1>2. \A q \in Procs : (Publishing(q)' => Publishing(q)) /\ tx'[q].cluster = tx[q].cluster
  BY <1>1 DEF Publishing
<1>3. Sole'
  BY <1>2 DEF OneRowInv, Sole
<1>4. ASSUME NEW q \in Procs PROVE Replaces(q)'
  BY <1>1 DEF OneRowInv, Replaces, Selected, RowsOf
<1> QED
  BY <1>3, <1>4 DEF OneRowInv, OneRowPerCluster

(* An empty table has at most one row per cluster.                         *)
LEMMA InitOneRow == Init => OneRowInv
  BY DEF Init, OneRowInv, OneRowPerCluster, Sole, Replaces, Selected, Publishing,
         PublishPCs, IdleTx

(* No step of Publish, of DeleteById or of the server breaks OneRowInv.    *)
LEMMA StepOneRow == TypeInv /\ OneRowInv /\ [Next]_vars => OneRowInv'
<1> SUFFICES ASSUME TypeInv, OneRowInv, [Next]_vars PROVE OneRowInv'
  OBVIOUS
<1>1. ASSUME NEW p \in Procs, NEW c \in Clusters, NEW t \in Tpls, Add(p, c, t)
      PROVE  OneRowInv'
  <2> SUFFICES ASSUME Serial PROVE OneRowInv'
    BY DEF OneRowInv
  <2>1. /\ tx'[p].pc = "begin" /\ tx'[p].cluster = c
        /\ \A q \in Procs : q # p => tx'[q] = tx[q]
    BY <1>1 DEF Add, TypeInv, TypeOK, Tx
  <2>2. \A q \in Procs : Publishing(q) => tx[q].cluster # c
    BY <1>1 DEF Add
  <2>3. Sole'
    BY <2>1, <2>2 DEF OneRowInv, Sole, Publishing
  <2>4. ASSUME NEW q \in Procs PROVE Replaces(q)'
    BY <1>1, <2>1 DEF Add, OneRowInv, Replaces, Selected, RowsOf
  <2> QED
    BY <1>1, <2>3, <2>4 DEF Add, OneRowInv, OneRowPerCluster
<1>2. ASSUME NEW p \in Procs, NEW id \in 1..lastId, DeleteById(p, id)
      PROVE  OneRowInv'
  <2> SUFFICES ASSUME Serial PROVE OneRowInv'
    BY DEF OneRowInv
  <2>1. tx'[p].pc = "read" /\ \A q \in Procs : q # p => tx'[q] = tx[q]
    BY <1>2 DEF DeleteById, TypeInv, TypeOK, Tx
  <2>2. Sole'
    BY <2>1 DEF OneRowInv, Sole, Publishing, PublishPCs
  <2>3. ASSUME NEW q \in Procs PROVE Replaces(q)'
    BY <1>2, <2>1 DEF DeleteById, OneRowInv, Replaces, Selected, RowsOf
  <2> QED
    BY <1>2, <2>2, <2>3 DEF DeleteById, OneRowInv, OneRowPerCluster
<1>3. ASSUME NEW p \in Procs, Proceed(p)
      PROVE  OneRowInv'
  <2>1. CASE Begin(p)
    BY <2>1, GotoOneRow DEF Begin, Publishing, PublishPCs
  <2>2. CASE SelectNone(p)
    BY <2>2, GotoOneRow DEF SelectNone, Publishing, PublishPCs
  <2>3. CASE SelectOther(p)
    <3> SUFFICES ASSUME Serial PROVE OneRowInv'
      BY DEF OneRowInv
    <3>1. PICK r \in RowsOf(tx[p].cluster) :
            tx' = [tx EXCEPT ![p] = [@ EXCEPT !.pc = "delete", !.old = {r}]]
      BY <2>3 DEF SelectOther
    <3>2. /\ tx'[p].cluster = tx[p].cluster /\ tx'[p].old = {r}
          /\ \A q \in Procs : q # p => tx'[q] = tx[q]
      BY <3>1 DEF TypeInv, TypeOK, Tx
    <3>3. Publishing(p)
      BY <2>3 DEF SelectOther, Publishing, PublishPCs
    <3>4. Sole'
      BY <3>2, <3>3 DEF OneRowInv, Sole, Publishing
    <3>5. RowsOf(tx[p].cluster) \subseteq {r}
      BY DEF OneRowInv, OneRowPerCluster, RowsOf
    <3>6. ASSUME NEW q \in Procs PROVE Replaces(q)'
      BY <2>3, <3>2, <3>5 DEF SelectOther, OneRowInv, Replaces, Selected, RowsOf
    <3> QED
      BY <2>3, <3>4, <3>6 DEF SelectOther, OneRowInv, OneRowPerCluster
  <2>4. CASE Delete(p)
    <3>1. Publishing(p) /\ Selected(p)
      BY <2>4 DEF Delete, Publishing, PublishPCs, Selected
    <3>2. CASE Serial
      BY <2>4, <3>1, <3>2, GotoOneRow DEF Delete, OneRowInv, Replaces
    <3>3. CASE ~Serial
      BY <3>3 DEF OneRowInv
    <3> QED
      BY <3>2, <3>3
  <2>5. CASE Insert(p)
    <3> SUFFICES ASSUME Serial PROVE OneRowInv'
      BY DEF OneRowInv
    <3>1. /\ tx'[p].cluster = tx[p].cluster /\ tx'[p].old = tx[p].old
          /\ \A q \in Procs : q # p => tx'[q] = tx[q]
      BY <2>5 DEF Insert, TypeInv, TypeOK, Tx
    <3>2. Publishing(p) /\ Selected(p)
      BY <2>5 DEF Insert, Publishing, PublishPCs, Selected
    <3>3. Sole'
      BY <3>1, <3>2 DEF OneRowInv, Sole, Publishing
    <3>4. ASSUME NEW q \in Procs PROVE Replaces(q)'
      BY <2>5, <3>1, <3>2 DEF Insert, OneRowInv, Replaces, Selected, RowsOf
    <3> QED
      BY <2>5, <3>3, <3>4 DEF Insert, OneRowInv, OneRowPerCluster
  <2>6. CASE Commit(p)
    <3> SUFFICES ASSUME Serial PROVE OneRowInv'
      BY DEF OneRowInv
    <3>1. PICK n \in Nat :
            tx[p].new = {[id |-> n, cluster |-> tx[p].cluster, tpl |-> tx[p].tpl]}
      BY <2>6 DEF Commit, TypeInv, Holds
    <3>2. Publishing(p) /\ RowsOf(tx[p].cluster) \subseteq tx[p].old
      BY <2>6 DEF Commit, OneRowInv, Replaces, Selected, Publishing, PublishPCs
    <3>3. /\ \A r \in rows' \ tx[p].new : r \in rows /\ r.cluster # tx[p].cluster
          /\ \A r \in tx[p].new : r.cluster = tx[p].cluster
      BY <2>6, <3>1, <3>2 DEF Commit, RowsOf
    <3>4. OneRowPerCluster'
      BY <3>1, <3>3 DEF OneRowInv, OneRowPerCluster
    <3>5. tx'[p] = IdleTx /\ \A q \in Procs : q # p => tx'[q] = tx[q]
      BY <2>6 DEF Commit, Return, TypeInv, TypeOK
    <3>6. \A q \in Procs : Publishing(q)' => q # p
      BY <3>5 DEF Publishing, PublishPCs, IdleTx
    <3>7. Sole'
      BY <3>5, <3>6 DEF OneRowInv, Sole, Publishing
    <3>8. ASSUME NEW q \in Procs, Selected(q)' PROVE Replaces(q)'
      <4>1. q # p /\ tx'[q] = tx[q] /\ Selected(q) /\ Publishing(q)
        BY <3>5, <3>8 DEF Selected, IdleTx, Publishing, PublishPCs
      <4>2. tx[q].cluster # tx[p].cluster
        BY <3>2, <4>1 DEF OneRowInv, Sole
      <4> QED
        BY <3>3, <4>1, <4>2 DEF OneRowInv, Replaces, RowsOf
    <3> QED
      BY <3>4, <3>7, <3>8 DEF OneRowInv, Replaces
  <2>7. CASE Read(p)
    BY <2>7, GotoOneRow DEF Read, PublishPCs
  <2>8. CASE BeginFails(p) \/ SelectSame(p) \/ ReadFails(p) \/ Remove(p) \/ RemoveFails(p)
    BY <2>8, ReturnOneRow
       DEF BeginFails, SelectSame, Abandon, ReadFails, Remove, RemoveFails
  <2> QED
    BY <1>3, <2>1, <2>2, <2>3, <2>4, <2>5, <2>6, <2>7, <2>8 DEF Proceed
<1>4. ASSUME NEW p \in Procs, Fail(p)
      PROVE  OneRowInv'
  BY <1>4, ReturnOneRow
     DEF Fail, SelectFails, DeleteFails, InsertFails, CommitFails, Abandon
<1>5. CASE Crash
  BY <1>5 DEF Crash, OneRowInv, OneRowPerCluster, Sole, Replaces, Selected, Publishing,
              PublishPCs, IdleTx
<1>6. CASE UNCHANGED vars
  BY <1>6 DEF vars, OneRowInv, OneRowPerCluster, Sole, Replaces, Selected, Publishing, RowsOf
<1> QED
  BY <1>1, <1>2, <1>3, <1>4, <1>5, <1>6 DEF Next

(* Where publishes to a cluster come one at a time, a cluster has at most one*)
(* row in publish_status, whatever fails and whatever the others do.       *)
THEOREM OneRowWhereSerial == Spec => []SerialOneRow
<1>1. OneRowInv => SerialOneRow
  BY DEF OneRowInv, SerialOneRow
<1> QED
  BY <1>1, TypeInvariant, InitOneRow, StepOneRow, PTL DEF Spec

(***************************************************************************)
(* Whatever overlaps and whatever fails, only DeleteById takes away the    *)
(* last row of a cluster: a Publish commits its DELETE and its INSERT of   *)
(* the same cluster together or not at all.                                *)
(***************************************************************************)
THEOREM OnlyDeleteByIdClears == Spec => PublishedStaysPublished
<1> DEFINE Stays ==
      \A c \in Clusters :
        RowsOf(c) # {} /\ ~(\E p \in Procs : tx[p].pc = "remove" /\ tx'[p].pc = "idle")
          => \E r \in rows' : r.cluster = c
<1>1. TypeInv /\ [Next]_vars => Stays
  <2> SUFFICES ASSUME TypeInv, [Next]_vars PROVE Stays
    OBVIOUS
  <2>1. ASSUME NEW p \in Procs, Commit(p) PROVE Stays
    <3>1. PICK n \in Nat :
            tx[p].new = {[id |-> n, cluster |-> tx[p].cluster, tpl |-> tx[p].tpl]}
      BY <2>1 DEF Commit, TypeInv, Holds
    <3> DEFINE row == [id |-> n, cluster |-> tx[p].cluster, tpl |-> tx[p].tpl]
    <3>2. row \in rows' /\ row.cluster = tx[p].cluster
      BY <2>1, <3>1 DEF Commit
    <3>3. \A r \in rows : r \in rows' \/ r.cluster = tx[p].cluster
      BY <2>1 DEF Commit, TypeInv, Holds
    <3> HIDE DEF row
    <3> QED
      BY <3>2, <3>3 DEF RowsOf
  <2>2. ASSUME NEW p \in Procs, Remove(p) PROVE Stays
    <3>1. tx[p].pc = "remove" /\ tx'[p].pc = "idle"
      BY <2>2 DEF Remove, Return, IdleTx, TypeInv, TypeOK
    <3> QED
      BY <3>1
  <2>3. CASE UNCHANGED rows
    BY <2>3 DEF RowsOf
  <2> QED
    BY <2>1, <2>2, <2>3
       DEF Next, Proceed, Fail, Crash, vars, Add, DeleteById, Begin, BeginFails,
           SelectNone, SelectOther, SelectSame, SelectFails, Delete, DeleteFails, Insert,
           InsertFails, CommitFails, Read, ReadFails, RemoveFails
<1>2. TypeInv /\ [Next]_vars => [Stays]_vars
  BY <1>1
<1>3. Spec => [][Stays]_vars
  BY <1>2, TypeInvariant, PTL DEF Spec
<1> QED
  BY <1>3 DEF PublishedStaysPublished

(***************************************************************************)
(* Refinement: each call takes effect at one instant, the commit of its    *)
(* INSERT or its DELETE, and every other step leaves what clients read.    *)
(***************************************************************************)
LEMMA SameRowsSameBoard ==
  ASSUME NEW c \in Clusters, RowsOf(c)' = RowsOf(c)
  PROVE  Online(c)' = Online(c)
  BY DEF Online

(* The operation of the board that a call stands for.                      *)
LEMMA OperationOf ==
  ASSUME NEW p \in Procs
  PROVE  /\ Idle(p) => Operation(p) = [kind |-> "none"]
         /\ Publishing(p) =>
              Operation(p) = [kind |-> "publish", cluster |-> tx[p].cluster, tpl |-> tx[p].tpl]
         /\ tx[p].pc \in {"read", "remove"} => Operation(p) = [kind |-> "remove"]
  BY DEF Operation, Idle, Publishing, PublishPCs

(***************************************************************************)
(* A removal touches one cluster: ids are never given twice.               *)
(***************************************************************************)
AllRows == rows \cup UNION {tx[p].new : p \in Procs}

IdInv ==
  /\ \A r \in AllRows : r.id <= lastId
  /\ \A r1, r2 \in AllRows : r1.id = r2.id => r1 = r2

(* Ids stay unique when rows only go.                                      *)
LEMMA FewerRows ==
  ASSUME IdInv, lastId' = lastId, AllRows' \subseteq AllRows
  PROVE  IdInv'
  BY DEF IdInv

(* No call inserts and none commits more: no row comes.                    *)
LEMMA SameNews ==
  ASSUME rows' \subseteq rows, \A p \in Procs : tx'[p].new \subseteq tx[p].new
  PROVE  AllRows' \subseteq AllRows
  BY DEF AllRows

(* The empty table has no id twice.                                        *)
LEMMA InitIds == Init => IdInv
  BY DEF Init, IdInv, AllRows, IdleTx

(* No step gives an id a second time: the counter only grows.              *)
LEMMA StepIds == TypeInv /\ IdInv /\ [Next]_vars => IdInv'
<1> SUFFICES ASSUME TypeInv, IdInv, [Next]_vars PROVE IdInv'
  OBVIOUS
<1>1. ASSUME NEW p \in Procs, NEW res, Return(p, res), rows' \subseteq rows, lastId' = lastId
      PROVE  IdInv'
  <2>1. \A q \in Procs : tx'[q].new \subseteq tx[q].new
    BY <1>1 DEF Return, IdleTx, TypeInv, TypeOK
  <2> QED
    BY <1>1, <2>1, SameNews, FewerRows
<1>2. ASSUME NEW p \in Procs, NEW pc, Goto(p, pc), rows' = rows, lastId' = lastId
      PROVE  IdInv'
  <2>1. \A q \in Procs : tx'[q].new = tx[q].new
    BY <1>2 DEF Goto, TypeInv, TypeOK, Tx
  <2> QED
    BY <1>2, <2>1, SameNews, FewerRows
<1>3. ASSUME NEW p \in Procs, NEW c \in Clusters, NEW t \in Tpls, Add(p, c, t)
      PROVE  IdInv'
  <2>1. \A q \in Procs : tx'[q].new = tx[q].new
    BY <1>3 DEF Add, TypeInv, TypeOK, Tx
  <2> QED
    BY <1>3, <2>1, SameNews, FewerRows DEF Add
<1>4. ASSUME NEW p \in Procs, NEW id \in 1..lastId, DeleteById(p, id)
      PROVE  IdInv'
  <2>1. \A q \in Procs : tx'[q].new = tx[q].new
    BY <1>4 DEF DeleteById, TypeInv, TypeOK, Tx
  <2> QED
    BY <1>4, <2>1, SameNews, FewerRows DEF DeleteById
<1>5. ASSUME NEW p \in Procs, SelectOther(p)
      PROVE  IdInv'
  <2>1. \A q \in Procs : tx'[q].new = tx[q].new
    BY <1>5 DEF SelectOther, TypeInv, TypeOK, Tx
  <2> QED
    BY <1>5, <2>1, SameNews, FewerRows DEF SelectOther
<1>6. ASSUME NEW p \in Procs, Insert(p)
      PROVE  IdInv'
  <2> DEFINE row == [id |-> lastId + 1, cluster |-> tx[p].cluster, tpl |-> tx[p].tpl]
  <2>1. \A q \in Procs : tx'[q].new = IF q = p THEN {row} ELSE tx[q].new
    BY <1>6 DEF Insert, TypeInv, TypeOK, Tx
  <2>2. row.id = lastId + 1
    OBVIOUS
  <2> HIDE DEF row
  <2>3. \A r \in AllRows' : r = row \/ r \in AllRows
    BY <1>6, <2>1 DEF Insert, AllRows
  <2>4. \A r \in AllRows : r.id \in Nat
    BY DEF AllRows, TypeInv, TypeOK, Tx, Row
  <2>5. \A r \in AllRows : r.id <= lastId /\ r.id # lastId + 1
    BY <2>4 DEF IdInv, TypeInv, TypeOK
  <2>6. lastId \in Nat /\ lastId' = lastId + 1
    BY <1>6 DEF Insert, TypeInv, TypeOK
  <2>7. \A r \in AllRows' : r.id <= lastId'
    BY <2>2, <2>3, <2>4, <2>5, <2>6
  <2>8. \A r1, r2 \in AllRows' : r1.id = r2.id => r1 = r2
    BY <2>2, <2>3, <2>5 DEF IdInv
  <2> QED
    BY <2>7, <2>8 DEF IdInv
<1>7. ASSUME NEW p \in Procs, Commit(p)
      PROVE  IdInv'
  <2>1. \A q \in Procs : tx'[q].new \subseteq tx[q].new
    BY <1>7 DEF Commit, Return, IdleTx, TypeInv, TypeOK
  <2>2. AllRows' \subseteq AllRows
    BY <1>7, <2>1 DEF Commit, AllRows
  <2> QED
    BY <1>7, <2>2, FewerRows DEF Commit
<1>8. CASE Crash
  <2>1. \A q \in Procs : tx'[q].new = {}
    BY <1>8 DEF Crash, IdleTx
  <2> QED
    BY <1>8, <2>1, SameNews, FewerRows DEF Crash
<1>9. CASE UNCHANGED vars
  <2>1. rows' = rows /\ tx' = tx /\ lastId' = lastId
    BY <1>9 DEF vars
  <2> QED
    BY <2>1, SameNews, FewerRows
<1>10. ASSUME NEW p \in Procs,
              \/ BeginFails(p) \/ SelectSame(p) \/ SelectFails(p) \/ DeleteFails(p)
              \/ InsertFails(p) \/ CommitFails(p) \/ ReadFails(p) \/ Remove(p)
              \/ RemoveFails(p)
       PROVE  IdInv'
  <2>1. PICK res \in {"ok", "err", "lost"} : Return(p, res) /\ lastId' = lastId
    BY <1>10
       DEF BeginFails, SelectSame, SelectFails, DeleteFails, InsertFails, CommitFails,
           ReadFails, Remove, RemoveFails, Abandon
  <2>2. rows' \subseteq rows
    BY <1>10
       DEF BeginFails, SelectSame, SelectFails, DeleteFails, InsertFails, CommitFails,
           ReadFails, Remove, RemoveFails
  <2> QED
    BY <1>1, <2>1, <2>2
<1>11. ASSUME NEW p \in Procs, Begin(p) \/ SelectNone(p) \/ Delete(p) \/ Read(p)
       PROVE  IdInv'
  BY <1>2, <1>11 DEF Begin, SelectNone, Delete, Read
<1> QED
  BY <1>3, <1>4, <1>5, <1>6, <1>7, <1>8, <1>9, <1>10, <1>11 DEF Next, Proceed, Fail

(* The empty table is the empty board.                                     *)
LEMMA BoardInit == Init => Board!Init
<1> SUFFICES ASSUME Init PROVE Board!Init
  OBVIOUS
<1>1. \A c \in Clusters : Online(c) = None
  BY DEF Init, Online, RowsOf
<1>2. \A p \in Procs : Operation(p) = [kind |-> "none"]
  BY OperationOf DEF Init, Idle, IdleTx
<1> QED
  BY <1>1, <1>2 DEF Init, Board!Init, Board!NoOp

(* While the committed rows stay, clients read the same board.             *)
LEMMA SameRows ==
  ASSUME rows' = rows
  PROVE  [c \in Clusters |-> Online(c)]' = [c \in Clusters |-> Online(c)]
<1>1. \A c \in Clusters : RowsOf(c)' = RowsOf(c)
  BY DEF RowsOf
<1>2. \A c \in Clusters : Online(c)' = Online(c)
  BY <1>1, SameRowsSameBoard
<1> QED
  BY <1>2

(* A step of one goroutine changes the operation of that goroutine only.   *)
LEMMA OneOperation ==
  ASSUME NEW p \in Procs, \A q \in Procs : q # p => tx'[q] = tx[q]
  PROVE  [q \in Procs |-> Operation(q)]' =
           [[q \in Procs |-> Operation(q)] EXCEPT ![p] = Operation(p)']
<1>1. \A q \in Procs : q # p => Operation(q)' = Operation(q)
  BY DEF Operation, Idle, Publishing
<1> QED
  BY <1>1

(* A step that keeps the rows, the reply and the kind of call is invisible. *)
LEMMA Stutter ==
  ASSUME TypeInv, NEW p \in Procs, \A q \in Procs : q # p => tx'[q] = tx[q],
         Operation(p)' = Operation(p), UNCHANGED <<rows, reply>>
  PROVE  UNCHANGED Board!vars
<1>1. [q \in Procs |-> Operation(q)]' = [q \in Procs |-> Operation(q)]
  BY OneOperation
<1> QED
  BY <1>1, SameRows DEF Board!vars

(* A call that moves on within Publish or DeleteById is invisible.         *)
LEMMA GotoStutters ==
  ASSUME TypeInv, NEW p \in Procs, NEW pc, Goto(p, pc), UNCHANGED <<rows, reply>>,
         \/ Publishing(p) /\ pc \in PublishPCs
         \/ tx[p].pc \in {"read", "remove"} /\ pc \in {"read", "remove"}
  PROVE  UNCHANGED Board!vars
<1>1. /\ tx'[p].pc = pc /\ tx'[p].cluster = tx[p].cluster /\ tx'[p].tpl = tx[p].tpl
      /\ \A q \in Procs : q # p => tx'[q] = tx[q]
  BY DEF Goto, TypeInv, TypeOK, Tx
<1>2. Operation(p)' = Operation(p)
  BY <1>1 DEF Operation, Idle, Publishing, PublishPCs
<1> QED
  BY <1>1, <1>2, Stutter

(* A call that returns answers its caller and nobody else.                 *)
LEMMA ReturnResponds ==
  ASSUME TypeInv, NEW p \in Procs, NEW res, Return(p, res), ~Idle(p)
  PROVE  Board!Respond(p, res)
<1>1. tx'[p] = IdleTx /\ \A q \in Procs : q # p => tx'[q] = tx[q]
  BY DEF Return, TypeInv, TypeOK
<1>2. Operation(p)' = [kind |-> "none"]
  BY <1>1 DEF Operation, Idle, IdleTx, Publishing, PublishPCs
<1>3. [q \in Procs |-> Operation(q)]' =
        [[q \in Procs |-> Operation(q)] EXCEPT ![p] = [kind |-> "none"]]
  BY <1>1, <1>2, OneOperation
<1>4. Operation(p).kind # "none"
  <2>1. CASE Publishing(p)
    BY <2>1, OperationOf
  <2>2. CASE tx[p].pc \in {"read", "remove"}
    BY <2>2, OperationOf
  <2> QED
    BY <2>1, <2>2 DEF TypeInv, TypeOK, Tx, PCs, Idle, Publishing
<1>5. reply' = [reply EXCEPT ![p] = res]
  BY DEF Return
<1> QED
  BY <1>3, <1>4, <1>5 DEF Board!Respond, Board!NoOp

(* A call that returns an error and leaves the rows alone is a refusal.    *)
LEMMA RefuseStep ==
  ASSUME TypeInv, NEW p \in Procs, Return(p, "err"), ~Idle(p), rows' = rows
  PROVE  Board!Next
  BY ReturnResponds, SameRows DEF Board!Next, Board!Refuse

(* A commit that fails loses the publish.                                  *)
LEMMA CommitFailsStep ==
  ASSUME TypeInv, NEW p \in Procs, CommitFails(p)
  PROVE  Board!Next
<1>1. tx[p].pc = "commit" /\ Return(p, "lost") /\ rows' = rows
  BY DEF CommitFails
<1>2. PICK c \in Clusters : c = tx[p].cluster
  BY <1>1 DEF TypeInv, Holds, Publishing, PublishPCs
<1>3. Board!Respond(p, "lost")
  BY <1>1, ReturnResponds DEF Idle
<1>4. Operation(p).kind = "publish"
  BY <1>1, OperationOf DEF Publishing, PublishPCs
<1> QED
  BY <1>1, <1>3, <1>4, SameRows DEF Board!Next, Board!Lose

(* A publish that returns "ok" with its template online is one of the      *)
(* board.                                                                  *)
LEMMA PublishStep ==
  ASSUME TypeInv, NEW p \in Procs, Return(p, "ok"), Publishing(p),
         NEW c \in Clusters, NEW t, tx[p].cluster = c, tx[p].tpl = t, Online(c)' = t,
         \A d \in Clusters : d # c => RowsOf(d)' = RowsOf(d)
  PROVE  Board!Next
<1>1. Operation(p) = [kind |-> "publish", cluster |-> c, tpl |-> t]
  BY OperationOf
<1>2. \A d \in Clusters : d # c => Online(d)' = Online(d)
  BY SameRowsSameBoard
<1>3. [d \in Clusters |-> Online(d)]' = [[d \in Clusters |-> Online(d)] EXCEPT ![c] = t]
  BY <1>2
<1>4. Board!Respond(p, "ok")
  BY ReturnResponds DEF Idle, Publishing, PublishPCs
<1> DEFINE op == [q \in Procs |-> Operation(q)]
<1>5. op[p].kind = "publish" /\ op[p].cluster = c /\ op[p].tpl = t
  BY <1>1
<1>6. Board!Publish(p)
  <2>1. [d \in Clusters |-> Online(d)]' =
          [[d \in Clusters |-> Online(d)] EXCEPT ![op[p].cluster] = op[p].tpl]
    BY <1>3, <1>5
  <2> QED
    BY <1>4, <1>5, <2>1 DEF Board!Publish
<1> QED
  BY <1>6 DEF Board!Next

(* A goroutine that enters Publish invokes a publish.                      *)
LEMMA AddStep ==
  ASSUME TypeInv, NEW p \in Procs, NEW c \in Clusters, NEW t \in Tpls, Add(p, c, t)
  PROVE  Board!Next
<1> DEFINE o == [kind |-> "publish", cluster |-> c, tpl |-> t]
<1>1. /\ tx'[p].pc = "begin" /\ tx'[p].cluster = c /\ tx'[p].tpl = t
      /\ \A q \in Procs : q # p => tx'[q] = tx[q]
  BY DEF Add, TypeInv, TypeOK, Tx
<1>2. Operation(p)' = o
  BY <1>1 DEF Operation, Idle, Publishing, PublishPCs
<1>3. [q \in Procs |-> Operation(q)]' = [[q \in Procs |-> Operation(q)] EXCEPT ![p] = o]
  BY <1>1, <1>2, OneOperation
<1>4. Operation(p).kind = "none"
  BY OperationOf DEF Add
<1>5. o \in Board!Ops
  BY DEF Board!Ops
<1> HIDE DEF o
<1>6. Board!Invoke(p, o)
  BY <1>3, <1>4, SameRows DEF Board!Invoke, Add
<1> QED
  BY <1>5, <1>6 DEF Board!Next

(* A goroutine that enters DeleteById invokes a removal.                   *)
LEMMA DeleteByIdStep ==
  ASSUME TypeInv, NEW p \in Procs, NEW id \in 1..lastId, DeleteById(p, id)
  PROVE  Board!Next
<1> DEFINE o == [kind |-> "remove"]
<1>1. tx'[p].pc = "read" /\ \A q \in Procs : q # p => tx'[q] = tx[q]
  BY DEF DeleteById, TypeInv, TypeOK, Tx
<1>2. Operation(p)' = o
  BY <1>1 DEF Operation, Idle, Publishing, PublishPCs
<1>3. [q \in Procs |-> Operation(q)]' = [[q \in Procs |-> Operation(q)] EXCEPT ![p] = o]
  BY <1>1, <1>2, OneOperation
<1>4. Operation(p).kind = "none"
  BY OperationOf DEF DeleteById
<1>5. o \in Board!Ops
  BY DEF Board!Ops
<1> HIDE DEF o
<1>6. Board!Invoke(p, o)
  BY <1>3, <1>4, SameRows DEF Board!Invoke, DeleteById
<1> QED
  BY <1>5, <1>6 DEF Board!Next

(* The template was online already.                                        *)
LEMMA SelectSameStep ==
  ASSUME TypeInv, OneRowPerCluster, NEW p \in Procs, SelectSame(p)
  PROVE  Board!Next
<1>1. Publishing(p) /\ Return(p, "ok") /\ rows' = rows
  BY DEF SelectSame, Abandon, Publishing, PublishPCs
<1>2. PICK c \in Clusters : c = tx[p].cluster
  BY <1>1 DEF TypeInv, Holds
<1>3. PICK r \in RowsOf(c) : r.tpl = tx[p].tpl
  BY <1>2 DEF SelectSame
<1>4. RowsOf(c) = {r}
  BY <1>3 DEF OneRowPerCluster, RowsOf
<1>5. \A d \in Clusters : RowsOf(d)' = RowsOf(d)
  BY <1>1 DEF RowsOf
<1>6. Online(c)' = r.tpl
  <2>1. Online(c) = (CHOOSE x \in {r} : TRUE).tpl
    BY <1>4 DEF Online
  <2>2. (CHOOSE x \in {r} : TRUE) = r
    OBVIOUS
  <2> QED
    BY <1>5, <2>1, <2>2, SameRowsSameBoard
<1>7. PICK t : t = tx[p].tpl
  OBVIOUS
<1>8. Online(c)' = t
  BY <1>3, <1>6, <1>7
<1> QED
  BY <1>1, <1>2, <1>5, <1>7, <1>8, PublishStep
(* The commit puts the one row of the cluster in the place of the others.  *)
LEMMA CommitStep ==
  ASSUME TypeInv, NEW p \in Procs, Replaces(p), Commit(p)
  PROVE  Board!Next
<1>1. Publishing(p) /\ Return(p, "ok") /\ rows' = (rows \ tx[p].old) \cup tx[p].new
  BY DEF Commit, Publishing, PublishPCs
<1>2. PICK c \in Clusters : c = tx[p].cluster
  BY <1>1 DEF TypeInv, Holds
<1>3. PICK t : t = tx[p].tpl
  OBVIOUS
<1>4. PICK n \in Nat : tx[p].new = {[id |-> n, cluster |-> c, tpl |-> t]}
  BY <1>2, <1>3 DEF Commit, TypeInv, Holds
<1> DEFINE row == [id |-> n, cluster |-> c, tpl |-> t]
<1>5. row.cluster = c /\ row.tpl = t /\ tx[p].new = {row}
  BY <1>4
<1> HIDE DEF row
<1>6. \A r \in tx[p].old : r.cluster = c
  BY <1>2 DEF TypeInv, Holds
<1>7. RowsOf(c) \subseteq tx[p].old
  BY <1>2 DEF Commit, Replaces, Selected
<1>8. RowsOf(c)' = {row}
  BY <1>1, <1>5, <1>7 DEF RowsOf
<1>9. \A d \in Clusters : d # c => RowsOf(d)' = RowsOf(d)
  BY <1>1, <1>5, <1>6 DEF RowsOf
<1>10. Online(c)' = t
  <2>1. (CHOOSE x \in {row} : TRUE) = row
    OBVIOUS
  <2>2. Online(c)' = (CHOOSE x \in {row} : TRUE).tpl
    BY <1>8 DEF Online
  <2> QED
    BY <1>5, <2>1, <2>2
<1> QED
  BY <1>1, <1>2, <1>3, <1>9, <1>10, PublishStep

(* A removal takes away one row at most, and so the row of one cluster.    *)
LEMMA RemoveStep ==
  ASSUME TypeInv, OneRowPerCluster, IdInv, NEW p \in Procs, Remove(p)
  PROVE  Board!Next
<1>1. /\ tx[p].pc = "remove" /\ ~Idle(p) /\ Return(p, "ok")
      /\ rows' = {r \in rows : r.id # tx[p].id}
  BY DEF Remove, Idle
<1>2. Operation(p) = [kind |-> "remove"]
  BY <1>1, OperationOf
<1>3. Board!Respond(p, "ok")
  BY <1>1, ReturnResponds
<1> DEFINE bd == [d \in Clusters |-> Online(d)]
           op == [q \in Procs |-> Operation(q)]
<1>4. op[p].kind = "remove"
  BY <1>2
<1>5. bd' = bd \/ \E c \in Clusters : bd' = [bd EXCEPT ![c] = None]
  <2>1. CASE rows' = rows
    BY <2>1, SameRows
  <2>2. CASE rows' # rows
    <3>1. PICK r \in rows : r.id = tx[p].id
      BY <1>1, <2>2
    <3>2. r \in Row /\ r.cluster \in Clusters
      BY DEF TypeInv, TypeOK, Row
    <3>3. \A x \in rows : x.id = tx[p].id => x = r
      BY <3>1 DEF IdInv, AllRows
    <3>4. rows' = rows \ {r}
      BY <1>1, <3>1, <3>3
    <3>5. RowsOf(r.cluster)' = {}
      BY <3>4 DEF RowsOf, OneRowPerCluster
    <3>6. Online(r.cluster)' = None
      BY <3>5 DEF Online
    <3>7. \A d \in Clusters : d # r.cluster => RowsOf(d)' = RowsOf(d)
      BY <3>4 DEF RowsOf
    <3>8. \A d \in Clusters : d # r.cluster => Online(d)' = Online(d)
      BY <3>7, SameRowsSameBoard
    <3>9. bd' = [bd EXCEPT ![r.cluster] = None]
      BY <3>6, <3>8
    <3> QED
      BY <3>2, <3>9
  <2> QED
    BY <2>1, <2>2
<1>6. Board!Remove(p)
  BY <1>3, <1>4, <1>5 DEF Board!Remove
<1> QED
  BY <1>6 DEF Board!Next

(* The server's end answers nobody and changes nothing.                    *)
LEMMA CrashStep == ASSUME Crash PROVE Board!Next
<1>1. \A p \in Procs : Operation(p)' = [kind |-> "none"]
  BY DEF Crash, Operation, Idle, IdleTx, Publishing, PublishPCs
<1>2. [p \in Procs |-> Operation(p)]' = [p \in Procs |-> [kind |-> "none"]]
  BY <1>1
<1>3. Board!Crash
  BY <1>2, SameRows DEF Crash, Board!Crash, Board!NoOp
<1> QED
  BY <1>3 DEF Board!Next

(* Every step of the transactions is a step of the board or invisible.     *)
LEMMA StepBoard ==
  ASSUME Serial, TypeInv, OneRowInv, IdInv, [Next]_vars
  PROVE  [Board!Next]_(Board!vars)
<1>1. ASSUME NEW p \in Procs, Proceed(p)
      PROVE  [Board!Next]_(Board!vars)
  <2>1. CASE Begin(p) \/ SelectNone(p) \/ Delete(p)
    BY <2>1, GotoStutters DEF Begin, SelectNone, Delete, Publishing, PublishPCs
  <2>2. CASE SelectOther(p)
    <3>1. /\ tx[p].pc = "select" /\ tx'[p].pc = "delete"
          /\ tx'[p].cluster = tx[p].cluster /\ tx'[p].tpl = tx[p].tpl
          /\ \A q \in Procs : q # p => tx'[q] = tx[q]
      BY <2>2 DEF SelectOther, TypeInv, TypeOK, Tx
    <3>2. Operation(p)' = Operation(p)
      BY <3>1 DEF Operation, Idle, Publishing, PublishPCs
    <3> QED
      BY <2>2, <3>1, <3>2, Stutter DEF SelectOther
  <2>3. CASE Insert(p)
    <3>1. /\ tx[p].pc = "insert" /\ tx'[p].pc = "commit"
          /\ tx'[p].cluster = tx[p].cluster /\ tx'[p].tpl = tx[p].tpl
          /\ \A q \in Procs : q # p => tx'[q] = tx[q]
      BY <2>3 DEF Insert, TypeInv, TypeOK, Tx
    <3>2. Operation(p)' = Operation(p)
      BY <3>1 DEF Operation, Idle, Publishing, PublishPCs
    <3> QED
      BY <2>3, <3>1, <3>2, Stutter DEF Insert
  <2>4. CASE Read(p)
    BY <2>4, GotoStutters DEF Read
  <2>5. CASE SelectSame(p)
    BY <2>5, SelectSameStep DEF OneRowInv
  <2>6. CASE Commit(p)
    BY <2>6, CommitStep DEF OneRowInv
  <2>7. CASE Remove(p)
    BY <2>7, RemoveStep DEF OneRowInv
  <2>8. CASE BeginFails(p) \/ ReadFails(p) \/ RemoveFails(p)
    BY <2>8, RefuseStep DEF BeginFails, ReadFails, RemoveFails, Idle
  <2> QED
    BY <1>1, <2>1, <2>2, <2>3, <2>4, <2>5, <2>6, <2>7, <2>8 DEF Proceed
<1>2. ASSUME NEW p \in Procs, Fail(p)
      PROVE  [Board!Next]_(Board!vars)
  BY <1>2, RefuseStep, CommitFailsStep
     DEF Fail, SelectFails, DeleteFails, InsertFails, Abandon, Idle
<1>3. CASE UNCHANGED vars
  <2>1. \A p \in Procs : Operation(p)' = Operation(p)
    BY <1>3 DEF vars, Operation, Idle, Publishing
  <2>2. [p \in Procs |-> Operation(p)]' = [p \in Procs |-> Operation(p)]
    BY <2>1
  <2> QED
    BY <1>3, <2>2, SameRows DEF vars, Board!vars
<1> QED
  BY <1>1, <1>2, <1>3, AddStep, DeleteByIdStep, CrashStep DEF Next

(***************************************************************************)
(* Where clients publish to a cluster one at a time, the transactions of   *)
(* Publish and DeleteById implement StatusBoard, whatever fails.           *)
(***************************************************************************)
THEOREM StatusImplementsBoard ==
  ASSUME Serial
  PROVE  Spec => ImplementsBoard
<1>1. TypeInv /\ OneRowInv /\ IdInv /\ [Next]_vars => [Board!Next]_(Board!vars)
  BY StepBoard
<1>2. Spec => Board!Init /\ [][Board!Next]_(Board!vars)
  BY <1>1, BoardInit, TypeInvariant, InitOneRow, StepOneRow, InitIds, StepIds, PTL DEF Spec
<1> QED
  BY <1>2 DEF ImplementsBoard, Board!Spec
=============================================================================
