--------------------------- MODULE ClusterManagers ---------------------------
(***************************************************************************)
(* The registry of cluster clients (src/backend/client/client.go).         *)
(*                                                                         *)
(* A manager holds the client of one cluster and informers that run until  *)
(* its stop channel is closed; closing the channel twice panics.           *)
(* BuildApiserverClient brings the registry in line with the cluster       *)
(* table.  A timer runs it every five seconds, and so does each request    *)
(* that asks for a cluster the registry does not have.  The registry is a  *)
(* sync.Map: each Load, Store and Delete is atomic, nothing else is.       *)
(***************************************************************************)
EXTENDS Integers, FiniteSets

CONSTANTS Clusters, Confs,
          BadConfs,    \* those a client cannot be built from (no master, a kubeconfig
                       \* that does not parse)
          Timer,       \* the goroutine of wait.Forever
          Requests,    \* the goroutines that serve requests
          Managers,    \* bound: the managers that can exist at once
          MaxChanges,  \* bound: the changes an administrator makes
          None

ASSUME ConfsAssumption == BadConfs \subseteq Confs /\ Confs # {}
ASSUME TimerAssumption == Timer \notin Requests
ASSUME ChangesAssumption == MaxChanges \in Nat

VARIABLES callers,   \* the requests that ask in this behaviour
          db,        \* the cluster table
          changes,   \* changes made to it
          registry,  \* clusterManagerSets
          open,      \* the managers whose informers run
          copy,      \* ClusterManager.Cluster: the row each manager was built from
          th,        \* per goroutine: where it stands
          reply      \* per request: what Manager returned

vars == <<callers, db, changes, registry, open, copy, th, reply>>

Threads == {Timer} \cup Requests

ClusterRow == [conf : Confs, status : {"normal", "maintaining", "deleted"}]

ASSUME NoneAssumption == None \notin Clusters \cup Managers \cup ClusterRow

PCs == {"idle", "fetch", "compare", "range", "rload", "rclose", "rdelete",
        "build", "load", "close", "store", "reload"}

(* snap: the clusters fetched; todo: those the current loop has still to   *)
(* visit; cur, old, new: the cluster in hand, the manager loaded for it    *)
(* and the one built for it; want: the cluster a request asked for.        *)
Thread == [pc : PCs, snap : [Clusters -> ClusterRow \cup {None}], todo : SUBSET Clusters,
           cur : Clusters \cup {None}, old : Managers \cup {None},
           new : Managers \cup {None}, want : Clusters \cup {None}]

IdleThread == [pc |-> "idle", snap |-> [c \in Clusters |-> None], todo |-> {},
               cur |-> None, old |-> None, new |-> None, want |-> None]

Replies == {"none", "manager", "not exist", "maintaining", "panic"}

Fetched(p) == {c \in Clusters : th[p].snap[c] # None}
Registered == {c \in Clusters : registry[c] # None}

Goto(p, pc) == th' = [th EXCEPT ![p].pc = pc]

(* BuildApiserverClient returns: to the timer, or to Manager, which looks  *)
(* again.                                                                  *)
Return(p) ==
  th' = [th EXCEPT ![p] = IF p = Timer THEN IdleThread
                          ELSE [IdleThread EXCEPT !.pc = "reload", !.want = th[p].want]]

(* A panic in a request is recovered by the web server; one in the timer   *)
(* is raised again by wait.Forever and ends the process, which starts anew *)
(* with an empty registry.                                                 *)
Panic(p) ==
  IF p = Timer
    THEN /\ th' = [q \in Threads |-> IdleThread]
         /\ reply' = [q \in Requests |-> "none"]
         /\ registry' = [c \in Clusters |-> None]
         /\ open' = {}
         /\ UNCHANGED <<callers, db, changes, copy>>
    ELSE /\ th' = [th EXCEPT ![p] = IdleThread]
         /\ reply' = [reply EXCEPT ![p] = "panic"]
         /\ UNCHANGED <<callers, db, changes, registry, open, copy>>

(***************************************************************************)
(* Who calls.                                                              *)
(***************************************************************************)
Administer(c, row) ==
  /\ changes < MaxChanges
  /\ row # db[c]
  /\ db' = [db EXCEPT ![c] = row]
  /\ changes' = changes + 1
  /\ UNCHANGED <<callers, registry, open, copy, th, reply>>

Tick ==
  /\ th[Timer].pc = "idle"
  /\ Goto(Timer, "fetch")
  /\ UNCHANGED <<callers, db, changes, registry, open, copy, reply>>

Answer(m) == IF copy[m].status = "maintaining" THEN "maintaining" ELSE "manager"

Manager(p, c) ==
  /\ p \in callers
  /\ th[p].pc = "idle"
  /\ IF registry[c] # None
       THEN reply' = [reply EXCEPT ![p] = Answer(registry[c])] /\ UNCHANGED th
       ELSE /\ th' = [th EXCEPT ![p] = [@ EXCEPT !.pc = "fetch", !.want = c]]
            /\ reply' = [reply EXCEPT ![p] = "none"]
  /\ UNCHANGED <<callers, db, changes, registry, open, copy>>

LookAgain(p) ==
  LET m == registry[th[p].want]
  IN /\ th[p].pc = "reload"
     /\ reply' = [reply EXCEPT ![p] = IF m = None THEN "not exist" ELSE Answer(m)]
     /\ th' = [th EXCEPT ![p] = IdleThread]
     /\ UNCHANGED <<callers, db, changes, registry, open, copy>>

(***************************************************************************)
(* BuildApiserverClient                                                    *)
(***************************************************************************)
GetAllNormal(p) ==
  /\ th[p].pc = "fetch"
  /\ th' = [th EXCEPT ![p] = [@ EXCEPT !.pc = "compare",
               !.snap = [c \in Clusters |-> IF db[c].status = "normal" THEN db[c] ELSE None]]]
  /\ UNCHANGED <<callers, db, changes, registry, open, copy, reply>>

GetAllNormalFails(p) ==
  /\ th[p].pc = "fetch"
  /\ Return(p)
  /\ UNCHANGED <<callers, db, changes, registry, open, copy, reply>>

(* Mutant of Changed: the rows are not compared.                           *)
ChangedInNumber(p) ==
  \/ Cardinality(Registered) # Cardinality(Fetched(p))
  \/ \E c \in Fetched(p) : registry[c] = None

(* The numbers differ, a cluster is new, or its row is not the manager's.  *)
Changed(p) ==
  \/ Cardinality(Registered) # Cardinality(Fetched(p))
  \/ \E c \in Fetched(p) : registry[c] = None \/ copy[registry[c]] # th[p].snap[c]

Compare(p) ==
  /\ th[p].pc = "compare"
  /\ IF Changed(p)
       THEN th' = [th EXCEPT ![p] = [@ EXCEPT !.pc = "range", !.todo = Clusters \ Fetched(p)]]
       ELSE Return(p)
  /\ UNCHANGED <<callers, db, changes, registry, open, copy, reply>>

(* shouldRemoveClusters: Range hands over each key once; what it finds is  *)
(* looked up again, closed and deleted.                                    *)
Visit(p, c) ==
  /\ th[p].pc = "range"
  /\ c \in th[p].todo \cap Registered
  /\ th' = [th EXCEPT ![p] = [@ EXCEPT !.pc = "rload", !.cur = c, !.todo = th[p].todo \ {c}]]
  /\ UNCHANGED <<callers, db, changes, registry, open, copy, reply>>

LoadRemoved(p) ==
  /\ th[p].pc = "rload"
  /\ IF registry[th[p].cur] = None
       THEN Panic(p)
       ELSE /\ th' = [th EXCEPT ![p] = [@ EXCEPT !.pc = "rclose", !.old = registry[th[p].cur]]]
            /\ UNCHANGED <<callers, db, changes, registry, open, copy, reply>>

Close(p, next) ==
  IF th[p].old \notin open
    THEN Panic(p)
    ELSE /\ open' = open \ {th[p].old}
         /\ Goto(p, next)
         /\ UNCHANGED <<callers, db, changes, registry, copy, reply>>

CloseRemoved(p) ==
  /\ th[p].pc = "rclose"
  /\ Close(p, "rdelete")

(* Mutant of DeleteRemoved: the manager is closed and stays.               *)
DeleteRemovedNot(p) ==
  /\ th[p].pc = "rdelete"
  /\ th' = [th EXCEPT ![p] = [@ EXCEPT !.pc = "range", !.cur = None, !.old = None]]
  /\ UNCHANGED <<callers, db, changes, registry, open, copy, reply>>

DeleteRemoved(p) ==
  /\ th[p].pc = "rdelete"
  /\ registry' = [registry EXCEPT ![th[p].cur] = None]
  /\ th' = [th EXCEPT ![p] = [@ EXCEPT !.pc = "range", !.cur = None, !.old = None]]
  /\ UNCHANGED <<callers, db, changes, open, copy, reply>>

RangeEnds(p) ==
  /\ th[p].pc = "range"
  /\ th[p].todo \cap Registered = {}
  /\ th' = [th EXCEPT ![p] = [@ EXCEPT !.pc = "build", !.todo = Fetched(p)]]
  /\ UNCHANGED <<callers, db, changes, registry, open, copy, reply>>

(* Nothing can be built from this row: the loop goes on.                   *)
Skip(p, c) ==
  /\ th[p].pc = "build"
  /\ c \in th[p].todo
  /\ th[p].snap[c].conf \in BadConfs
  /\ th' = [th EXCEPT ![p].todo = @ \ {c}]
  /\ UNCHANGED <<callers, db, changes, registry, open, copy, reply>>

(* A manager that nothing refers to and whose informers have stopped is    *)
(* garbage; its name is used again.                                        *)
Garbage(m) ==
  /\ m \notin open
  /\ \A c \in Clusters : registry[c] # m
  /\ \A p \in Threads : th[p].old # m

(* Mutant of Build: the manager is built without its row.                  *)
BuildWithoutRow(p, c) ==
  /\ th[p].pc = "build"
  /\ c \in th[p].todo
  /\ th[p].snap[c].conf \notin BadConfs
  /\ \E m \in Managers :
       /\ Garbage(m)
       /\ open' = open \cup {m}
       /\ copy' = [copy EXCEPT ![m] = None]
       /\ th' = [th EXCEPT ![p] = [@ EXCEPT !.pc = "load", !.cur = c, !.new = m,
                                            !.todo = th[p].todo \ {c}]]
  /\ UNCHANGED <<callers, db, changes, registry, reply>>

Build(p, c) ==
  /\ th[p].pc = "build"
  /\ c \in th[p].todo
  /\ th[p].snap[c].conf \notin BadConfs
  /\ \E m \in Managers :
       /\ Garbage(m)
       /\ open' = open \cup {m}
       /\ copy' = [copy EXCEPT ![m] = th[p].snap[c]]
       /\ th' = [th EXCEPT ![p] = [@ EXCEPT !.pc = "load", !.cur = c, !.new = m,
                                            !.todo = th[p].todo \ {c}]]
  /\ UNCHANGED <<callers, db, changes, registry, reply>>

(* Mutant of Load: the manager that is replaced is not closed.             *)
LoadAndReplace(p) ==
  /\ th[p].pc = "load"
  /\ th' = [th EXCEPT ![p] = [@ EXCEPT !.pc = "store"]]
  /\ UNCHANGED <<callers, db, changes, registry, open, copy, reply>>

Load(p) ==
  /\ th[p].pc = "load"
  /\ th' = [th EXCEPT ![p] = [@ EXCEPT !.old = registry[th[p].cur],
               !.pc = IF registry[th[p].cur] = None THEN "store" ELSE "close"]]
  /\ UNCHANGED <<callers, db, changes, registry, open, copy, reply>>

CloseOld(p) ==
  /\ th[p].pc = "close"
  /\ Close(p, "store")

Store(p) ==
  /\ th[p].pc = "store"
  /\ registry' = [registry EXCEPT ![th[p].cur] = th[p].new]
  /\ th' = [th EXCEPT ![p] = [@ EXCEPT !.pc = "build", !.cur = None, !.old = None,
                                       !.new = None]]
  /\ UNCHANGED <<callers, db, changes, open, copy, reply>>

BuildEnds(p) ==
  /\ th[p].pc = "build"
  /\ th[p].todo = {}
  /\ Return(p)
  /\ UNCHANGED <<callers, db, changes, registry, open, copy, reply>>

Init ==
  /\ callers \in SUBSET Requests
  /\ db \in [Clusters -> ClusterRow]
  /\ changes = 0
  /\ registry = [c \in Clusters |-> None]
  /\ open = {}
  /\ copy = [m \in Managers |-> CHOOSE row \in ClusterRow : TRUE]
  /\ th = [p \in Threads |-> IdleThread]
  /\ reply = [p \in Requests |-> "none"]

(* What BuildApiserverClient does next.                                    *)
Work(p) ==
  \/ GetAllNormal(p) \/ Compare(p)
  \/ \E c \in Clusters : Visit(p, c) \/ Skip(p, c) \/ Build(p, c)
  \/ LoadRemoved(p) \/ CloseRemoved(p) \/ DeleteRemoved(p) \/ RangeEnds(p)
  \/ Load(p) \/ CloseOld(p) \/ Store(p) \/ BuildEnds(p)

Next ==
  \/ \E c \in Clusters, row \in ClusterRow : Administer(c, row)
  \/ Tick
  \/ \E p \in Requests : (\E c \in Clusters : Manager(p, c)) \/ LookAgain(p)
  \/ \E p \in Threads : Work(p) \/ GetAllNormalFails(p)

(* The timer fires again and again, goroutines that can run do run, and    *)
(* the query succeeds now and then.                                        *)
Fairness ==
  /\ WF_vars(Tick)
  /\ \A p \in Threads : WF_vars(Work(p)) /\ SF_vars(GetAllNormal(p))
  /\ \A p \in Requests : WF_vars(LookAgain(p))

Spec == Init /\ [][Next]_vars /\ Fairness

(***************************************************************************)
(* Properties                                                              *)
(***************************************************************************)

(* Every variable has its type.                                            *)
TypeOK ==
  /\ callers \subseteq Requests
  /\ db \in [Clusters -> ClusterRow]
  /\ changes \in 0..MaxChanges
  /\ registry \in [Clusters -> Managers \cup {None}]
  /\ open \subseteq Managers
  /\ copy \in [Managers -> ClusterRow]
  /\ th \in [Threads -> Thread]
  /\ reply \in [Requests -> Replies]

(* A manager that the registry hands out is running, except while the one  *)
(* goroutine that stopped it is about to put another in its place or to    *)
(* delete it: however builders overlap or panic, no stopped manager stays. *)
RegisteredIsOpen ==
  \A c \in Registered :
    \/ registry[c] \in open
    \/ \E p \in Threads : /\ th[p].pc \in {"store", "rdelete"}
                          /\ th[p].cur = c /\ th[p].old = registry[c]

(* A manager in a closing goroutine's hands has not been stopped before.   *)
NoDoubleClose ==
  \A p \in Threads : th[p].pc \in {"close", "rclose"} => th[p].old \in open

(* Every running manager is in the registry or about to be put there.      *)
NoLeak ==
  \A m \in open : \/ \E c \in Clusters : registry[c] = m
                  \/ \E p \in Threads : th[p].new = m

(* While only the timer builds, no manager is stopped twice and none is    *)
(* left running outside the registry, whatever the administrator does      *)
(* between the query and the end of the loops.                             *)
AloneIsClean == callers = {} => NoDoubleClose /\ NoLeak

(* While only the timer builds, and once the table rests, the registry     *)
(* holds a manager of the current row for every normal cluster that one    *)
(* can be built for, and none for a cluster that is not normal, although   *)
(* clusters that cannot be built make the builder start over for ever.     *)
Settled(c) ==
  /\ db[c].status # "normal" => registry[c] = None
  /\ db[c].status = "normal" /\ db[c].conf \notin BadConfs =>
       registry[c] # None /\ copy[registry[c]] = db[c]

Converges == \A c \in Clusters : <>[](callers = {} => Settled(c))
=============================================================================
