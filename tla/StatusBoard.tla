----------------------------- MODULE StatusBoard -----------------------------
(***************************************************************************)
(* What publish_status promises to its callers: one template per cluster,  *)
(* replaced at one instant by a publish that then reports success, left    *)
(* alone by one that reports failure, and cleared at one instant by the    *)
(* removal of its record.  A crash answers nobody.  One promise it breaks: *)
(* a publish may be lost without its caller learning of it (Lose).         *)
(***************************************************************************)
CONSTANTS Procs, Clusters, Tpls, None

VARIABLES board,  \* the template that is online in each cluster, or None
          op,     \* the operation each goroutine has in progress
          reply   \* what its last operation returned

vars == <<board, op, reply>>

NoOp == [kind |-> "none"]
Ops == [kind : {"publish"}, cluster : Clusters, tpl : Tpls] \cup [kind : {"remove"}]

Init ==
  /\ board = [c \in Clusters |-> None]
  /\ op = [p \in Procs |-> NoOp]
  /\ reply = [p \in Procs |-> "none"]

Invoke(p, o) ==
  /\ op[p].kind = "none"
  /\ op' = [op EXCEPT ![p] = o]
  /\ reply' = [reply EXCEPT ![p] = "none"]
  /\ UNCHANGED board

Respond(p, res) ==
  /\ op[p].kind # "none"
  /\ op' = [op EXCEPT ![p] = NoOp]
  /\ reply' = [reply EXCEPT ![p] = res]

Publish(p) ==
  /\ op[p].kind = "publish"
  /\ board' = [board EXCEPT ![op[p].cluster] = op[p].tpl]
  /\ Respond(p, "ok")

(* The record named by the caller may be gone already.                     *)
Remove(p) ==
  /\ op[p].kind = "remove"
  /\ board' = board \/ \E c \in Clusters : board' = [board EXCEPT ![c] = None]
  /\ Respond(p, "ok")

Refuse(p) == Respond(p, "err") /\ UNCHANGED board

(* The caller reads success, as for "ok".                                  *)
Lose(p) ==
  /\ op[p].kind = "publish"
  /\ Respond(p, "lost")
  /\ UNCHANGED board

Crash ==
  /\ op' = [p \in Procs |-> NoOp]
  /\ reply' = [p \in Procs |-> "none"]
  /\ UNCHANGED board

Next ==
  \/ \E p \in Procs :
       \/ \E o \in Ops : Invoke(p, o)
       \/ Publish(p) \/ Remove(p) \/ Refuse(p) \/ Lose(p)
  \/ Crash

Spec == Init /\ [][Next]_vars
=============================================================================
