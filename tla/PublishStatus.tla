---------------------------- MODULE PublishStatus ----------------------------
(***************************************************************************)
(* The publish_status table of one resource, and the transactions that     *)
(* publishStatusModel runs on it (src/backend/models/publish_status.go).   *)
(*                                                                         *)
(* A row says which template is online in which cluster.  Publish reads    *)
(* the rows of the resource with a plain SELECT inside a transaction,      *)
(* deletes the row of the cluster if it names another template, inserts a  *)
(* row and commits.  The table has no unique key on (resource, cluster),   *)
(* and the database is InnoDB at its default isolation: the SELECT takes   *)
(* no lock, a DELETE waits for the row lock of another transaction and     *)
(* deletes nothing when that transaction has removed the row.              *)
(*                                                                         *)
(* A transaction that Publish returns from without Commit or Rollback      *)
(* keeps its connection until the process ends: "leaked" counts those and  *)
(* "orphanLocks" holds the rows they keep locked.                          *)
(***************************************************************************)
EXTENDS Integers, FiniteSets

CONSTANTS Procs,     \* the goroutines that serve requests
          Clusters, Tpls,
          MaxConns,  \* the connections the database accepts (max_connections)
          Faults,    \* the database calls that may fail
          Serial,    \* TRUE: clients do not publish twice to one cluster at once
          MaxId,     \* bound: the rows ever inserted
          None       \* no cluster, no template

FaultKinds == {"begin", "select", "delete", "insert", "commit", "read", "remove", "crash"}

ASSUME BoundsAssumption == MaxConns \in Nat /\ MaxId \in Nat
ASSUME SerialAssumption == Serial \in BOOLEAN
ASSUME NoneAssumption == None \notin Clusters \cup Tpls

VARIABLES rows,        \* the committed rows
          lastId,      \* the auto-increment counter
          tx,          \* per goroutine: where its call stands
          reply,       \* per goroutine: how its last call ended
          leaked,      \* transactions left open by calls that returned
          orphanLocks  \* the ids of the rows those keep locked

vars == <<rows, lastId, tx, reply, leaked, orphanLocks>>

Row == [id : Nat, cluster : Clusters, tpl : Tpls]

PublishPCs == {"begin", "select", "delete", "insert", "commit"}
TxPCs      == {"select", "delete", "insert", "commit"}
PCs        == PublishPCs \cup {"idle", "read", "remove"}

(* old: the row of the cluster that the SELECT found and Publish replaces  *)
(* ({} if none); new: the row it inserted; id: the argument of DeleteById. *)
Tx == [pc : PCs, cluster : Clusters \cup {None}, tpl : Tpls \cup {None}, id : Nat,
       old : SUBSET Row, new : SUBSET Row]

IdleTx == [pc |-> "idle", cluster |-> None, tpl |-> None, id |-> 0,
           old |-> {}, new |-> {}]

(* "lost": the call returned nil as for "ok", but its COMMIT had failed.    *)
Replies == {"none", "ok", "err", "lost"}

Idle(p) == tx[p].pc = "idle"

Publishing(p) == tx[p].pc \in PublishPCs

(* The rows a transaction has deleted and not yet committed.               *)
Locked(p) == IF tx[p].pc \in {"insert", "commit"} THEN {r.id : r \in tx[p].old} ELSE {}

FreeOfLocks(p, ids) ==
  /\ ids \cap orphanLocks = {}
  /\ \A q \in Procs \ {p} : ids \cap Locked(q) = {}

InUse == leaked + Cardinality({p \in Procs : tx[p].pc \in TxPCs})

Goto(p, pc) == tx' = [tx EXCEPT ![p].pc = pc]

(* The call returns res; its transaction, if any, is closed.               *)
Return(p, res) ==
  /\ tx' = [tx EXCEPT ![p] = IdleTx]
  /\ reply' = [reply EXCEPT ![p] = res]

(* The call returns res with its transaction neither committed nor rolled  *)
(* back: the connection and the row locks stay.                            *)
Abandon(p, res) ==
  /\ Return(p, res)
  /\ leaked' = leaked + 1
  /\ orphanLocks' = orphanLocks \cup Locked(p)

Room == lastId + Cardinality({p \in Procs : Publishing(p)}) < MaxId

(***************************************************************************)
(* Publish                                                                 *)
(***************************************************************************)
Add(p, c, t) ==
  /\ Idle(p)
  /\ Room
  /\ Serial => \A q \in Procs : Publishing(q) => tx[q].cluster # c
  /\ tx' = [tx EXCEPT ![p] = [@ EXCEPT !.pc = "begin", !.cluster = c, !.tpl = t]]
  /\ reply' = [reply EXCEPT ![p] = "none"]
  /\ UNCHANGED <<rows, lastId, leaked, orphanLocks>>

Begin(p) ==
  /\ tx[p].pc = "begin"
  /\ InUse < MaxConns
  /\ Goto(p, "select")
  /\ UNCHANGED <<rows, lastId, reply, leaked, orphanLocks>>

(* No connection left, or the call failed: nothing was opened.             *)
BeginFails(p) ==
  /\ tx[p].pc = "begin"
  /\ InUse >= MaxConns \/ "begin" \in Faults
  /\ Return(p, "err")
  /\ UNCHANGED <<rows, lastId, leaked, orphanLocks>>

RowsOf(c) == {r \in rows : r.cluster = c}

(* No row of the cluster (or no row at all): go on to insert one.          *)
SelectNone(p) ==
  /\ tx[p].pc = "select"
  /\ RowsOf(tx[p].cluster) = {}
  /\ Goto(p, "insert")
  /\ UNCHANGED <<rows, lastId, reply, leaked, orphanLocks>>

(* The first row of the cluster that the loop meets names another          *)
(* template: it must go.  The query has no ORDER BY.                       *)
SelectOther(p) ==
  /\ tx[p].pc = "select"
  /\ \E r \in RowsOf(tx[p].cluster) :
       /\ r.tpl # tx[p].tpl
       /\ tx' = [tx EXCEPT ![p] = [@ EXCEPT !.pc = "delete", !.old = {r}]]
  /\ UNCHANGED <<rows, lastId, reply, leaked, orphanLocks>>

(* It names this template: Publish returns nil, and the transaction stays. *)
SelectSame(p) ==
  /\ tx[p].pc = "select"
  /\ \E r \in RowsOf(tx[p].cluster) : r.tpl = tx[p].tpl
  /\ Abandon(p, "ok")
  /\ UNCHANGED <<rows, lastId>>

SelectFails(p) ==
  /\ tx[p].pc = "select"
  /\ "select" \in Faults
  /\ Abandon(p, "err")
  /\ UNCHANGED <<rows, lastId>>

Delete(p) ==
  /\ tx[p].pc = "delete"
  /\ FreeOfLocks(p, {r.id : r \in tx[p].old})
  /\ Goto(p, "insert")
  /\ UNCHANGED <<rows, lastId, reply, leaked, orphanLocks>>

DeleteFails(p) ==
  /\ tx[p].pc = "delete"
  /\ "delete" \in Faults
  /\ Abandon(p, "err")
  /\ UNCHANGED <<rows, lastId>>

(* Mutant of Insert: the record is built without its cluster.              *)
InsertWithoutCluster(p) ==
  /\ tx[p].pc = "insert"
  /\ lastId' = lastId + 1
  /\ tx' = [tx EXCEPT ![p] = [@ EXCEPT !.pc = "commit",
                !.new = {[id |-> lastId + 1, cluster |-> None, tpl |-> tx[p].tpl]}]]
  /\ UNCHANGED <<rows, reply, leaked, orphanLocks>>

Insert(p) ==
  /\ tx[p].pc = "insert"
  /\ lastId' = lastId + 1
  /\ tx' = [tx EXCEPT ![p] = [@ EXCEPT !.pc = "commit",
                !.new = {[id |-> lastId + 1, cluster |-> tx[p].cluster, tpl |-> tx[p].tpl]}]]
  /\ UNCHANGED <<rows, reply, leaked, orphanLocks>>

(* Mutant of InsertFails: it commits instead of rolling back.              *)
InsertFailsCommits(p) ==
  /\ tx[p].pc = "insert"
  /\ "insert" \in Faults
  /\ rows' = rows \ tx[p].old
  /\ Return(p, "err")
  /\ UNCHANGED <<lastId, leaked, orphanLocks>>

(* Mutant of InsertFails: it returns without rolling back.                 *)
InsertFailsAbandons(p) ==
  /\ tx[p].pc = "insert"
  /\ "insert" \in Faults
  /\ Abandon(p, "err")
  /\ UNCHANGED <<rows, lastId>>

(* After a DELETE the failure rolls back; without one it commits nothing.  *)
InsertFails(p) ==
  /\ tx[p].pc = "insert"
  /\ "insert" \in Faults
  /\ Return(p, "err")
  /\ UNCHANGED <<rows, lastId, leaked, orphanLocks>>

(* Mutant of Commit: the record it replaces was never deleted.             *)
CommitKeepsOld(p) ==
  /\ tx[p].pc = "commit"
  /\ rows' = rows \cup tx[p].new
  /\ Return(p, "ok")
  /\ UNCHANGED <<lastId, leaked, orphanLocks>>

Commit(p) ==
  /\ tx[p].pc = "commit"
  /\ rows' = (rows \ tx[p].old) \cup tx[p].new
  /\ Return(p, "ok")
  /\ UNCHANGED <<lastId, leaked, orphanLocks>>

(* The error of Commit is logged and the error of Insert, nil, returned.   *)
CommitFails(p) ==
  /\ tx[p].pc = "commit"
  /\ "commit" \in Faults
  /\ Return(p, "lost")
  /\ UNCHANGED <<rows, lastId, leaked, orphanLocks>>

(***************************************************************************)
(* DeleteById: a read and a delete, each a statement of its own.           *)
(***************************************************************************)
DeleteById(p, id) ==
  /\ Idle(p)
  /\ tx' = [tx EXCEPT ![p] = [@ EXCEPT !.pc = "read", !.id = id]]
  /\ reply' = [reply EXCEPT ![p] = "none"]
  /\ UNCHANGED <<rows, lastId, leaked, orphanLocks>>

Read(p) ==
  /\ tx[p].pc = "read"
  /\ InUse < MaxConns
  /\ \E r \in rows : r.id = tx[p].id
  /\ Goto(p, "remove")
  /\ UNCHANGED <<rows, lastId, reply, leaked, orphanLocks>>

ReadFails(p) ==
  /\ tx[p].pc = "read"
  /\ \/ ~\E r \in rows : r.id = tx[p].id
     \/ InUse >= MaxConns
     \/ "read" \in Faults
  /\ Return(p, "err")
  /\ UNCHANGED <<rows, lastId, leaked, orphanLocks>>

Remove(p) ==
  /\ tx[p].pc = "remove"
  /\ InUse < MaxConns
  /\ FreeOfLocks(p, {tx[p].id})
  /\ rows' = {r \in rows : r.id # tx[p].id}
  /\ Return(p, "ok")
  /\ UNCHANGED <<lastId, leaked, orphanLocks>>

RemoveFails(p) ==
  /\ tx[p].pc = "remove"
  /\ InUse >= MaxConns \/ "remove" \in Faults
  /\ Return(p, "err")
  /\ UNCHANGED <<rows, lastId, leaked, orphanLocks>>

(* The API server dies: the database rolls back what was open.             *)
Crash ==
  /\ "crash" \in Faults
  /\ tx' = [p \in Procs |-> IdleTx]
  /\ reply' = [p \in Procs |-> "none"]
  /\ leaked' = 0
  /\ orphanLocks' = {}
  /\ UNCHANGED <<rows, lastId>>

Init ==
  /\ rows = {}
  /\ lastId = 0
  /\ tx = [p \in Procs |-> IdleTx]
  /\ reply = [p \in Procs |-> "none"]
  /\ leaked = 0
  /\ orphanLocks = {}

(* What a call in progress does next.                                      *)
Proceed(p) ==
  \/ Begin(p) \/ BeginFails(p)
  \/ SelectNone(p) \/ SelectOther(p) \/ SelectSame(p)
  \/ Delete(p) \/ Insert(p) \/ Commit(p)
  \/ Read(p) \/ ReadFails(p) \/ Remove(p) \/ RemoveFails(p)

Fail(p) ==
  SelectFails(p) \/ DeleteFails(p) \/ InsertFails(p) \/ CommitFails(p)

Next ==
  \/ \E p \in Procs :
       \/ \E c \in Clusters, t \in Tpls : Add(p, c, t)
       \/ \E id \in 1..lastId : DeleteById(p, id)
       \/ Proceed(p)
       \/ Fail(p)
  \/ Crash

(* Goroutines that can run do run, and InnoDB grants a row lock in the     *)
(* order of the requests, so a waiting DELETE is not overtaken for ever.   *)
Fairness ==
  \A p \in Procs : WF_vars(Proceed(p)) /\ SF_vars(Delete(p)) /\ SF_vars(Remove(p))

Spec == Init /\ [][Next]_vars /\ Fairness

(***************************************************************************)
(* Properties                                                              *)
(***************************************************************************)

(* Every variable has its type.                                            *)
TypeOK ==
  /\ rows \subseteq Row
  /\ lastId \in Nat
  /\ tx \in [Procs -> Tx]
  /\ reply \in [Procs -> Replies]
  /\ leaked \in Nat
  /\ orphanLocks \subseteq Nat

(* Where clients publish to a cluster one at a time, a cluster has at most *)
(* one row: Publish deletes the record of another template before it       *)
(* inserts its own, whatever fails, whatever happens meanwhile on other    *)
(* clusters or through DeleteById, and across a crash.                     *)
OneRowPerCluster ==
  \A r1, r2 \in rows : r1.cluster = r2.cluster => r1 = r2

SerialOneRow == Serial => OneRowPerCluster

(* No transaction that Publish leaves open holds a row lock: the paths     *)
(* that return without Commit or Rollback are those that deleted nothing.  *)
NoOrphanLocks == orphanLocks = {}

(* A published cluster never reads as unpublished because of a Publish,    *)
(* even between its DELETE and its INSERT, or when one of them fails, or   *)
(* when other calls on the same cluster overlap it: only DeleteById can    *)
(* take away the last row of a cluster.                                    *)
PublishedStaysPublished ==
  [][\A c \in Clusters :
       RowsOf(c) # {} /\ ~(\E p \in Procs : tx[p].pc = "remove" /\ tx'[p].pc = "idle")
         => \E r \in rows' : r.cluster = c]_vars

(* Every call returns, also while others wait for the same row.            *)
CallsReturn == \A p \in Procs : ~Idle(p) ~> Idle(p)

(***************************************************************************)
(* Refinement of StatusBoard                                               *)
(***************************************************************************)

(* The template a client reads for a cluster, and the call it waits for.   *)
Online(c) == IF RowsOf(c) = {} THEN None ELSE (CHOOSE r \in RowsOf(c) : TRUE).tpl

Operation(p) ==
  CASE Idle(p)       -> [kind |-> "none"]
    [] Publishing(p) -> [kind |-> "publish", cluster |-> tx[p].cluster, tpl |-> tx[p].tpl]
    [] OTHER         -> [kind |-> "remove"]

Board == INSTANCE StatusBoard
  WITH board <- [c \in Clusters |-> Online(c)], op <- [p \in Procs |-> Operation(p)]

(* Where clients publish to a cluster one at a time, publish_status        *)
(* implements the board: a publish takes effect at one instant and only if *)
(* it reports success, a removal likewise, and what reports success has    *)
(* taken effect unless its COMMIT failed.                                  *)
ImplementsBoard == Board!Spec
=============================================================================
