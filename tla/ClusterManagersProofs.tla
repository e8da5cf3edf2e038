------------------------ MODULE ClusterManagersProofs ------------------------
(***************************************************************************)
(* Theorems of ClusterManagers, for every set of clusters, configurations, *)
(* managers and goroutines.                                                *)
(***************************************************************************)
EXTENDS ClusterManagers, TLAPS

(* What a goroutine has in hand belongs to the place where it stands.      *)
InHand(r) ==
  /\ r.pc \in {"rload", "rclose", "rdelete", "load", "close", "store"} => r.cur \in Clusters
  /\ r.new # None <=> r.pc \in {"load", "close", "store"}
  /\ r.old # None => r.pc \in {"rclose", "rdelete", "close", "store"}
  /\ r.pc \in {"build", "load", "close", "store"} => \A c \in r.todo : r.snap[c] # None

(* A manager that was built and not stored yet runs, and nobody else knows *)
(* of it.                                                                  *)
NewIsFresh ==
  \A p \in Threads : th[p].new # None =>
    /\ th[p].new \in open
    /\ \A c \in Clusters : registry[c] # th[p].new
    /\ \A q \in Threads : th[q].old # th[p].new /\ (q # p => th[q].new # th[p].new)

(* A manager is registered for one cluster.                                *)
OneCluster == \A c, d \in Clusters : registry[c] # None /\ registry[c] = registry[d] => c = d

(* One that was loaded to be closed can only be found where it was.        *)
OldIsOfCur ==
  \A p \in Threads, c \in Clusters : th[p].old # None /\ registry[c] = th[p].old => c = th[p].cur

(* Requests that do not ask in this behaviour do nothing.                  *)
OthersIdle == \A p \in Requests \ callers : th[p].pc = "idle"

(* Alone, the timer finds the registry as it has left it.                  *)
TimerAlone ==
  callers = {} =>
    /\ th[Timer].pc \in {"close", "rclose"} =>
         th[Timer].old # None /\ registry[th[Timer].cur] = th[Timer].old
    /\ th[Timer].pc \in {"store", "rdelete"} =>
         registry[th[Timer].cur] = th[Timer].old /\ th[Timer].old \notin open
    /\ NoLeak

RegistryInv ==
  /\ TypeOK
  /\ \A p \in Threads : InHand(th[p])
  /\ NewIsFresh
  /\ OneCluster
  /\ OldIsOfCur
  /\ RegisteredIsOpen
  /\ OthersIdle
  /\ TimerAlone

(* An idle goroutine has nothing in hand.                                  *)
LEMMA IdleInHand ==
  /\ IdleThread \in Thread
  /\ InHand(IdleThread)
  /\ IdleThread.pc = "idle" /\ IdleThread.old = None /\ IdleThread.new = None
  BY DEF IdleThread, Thread, PCs, InHand

(* A step of one goroutine that leaves the registry alone keeps the        *)
(* invariant when what the goroutine has in hand afterwards is right.      *)
LEMMA MoveStep ==
  ASSUME RegistryInv, NEW p \in Threads, NEW r \in Thread, th' = [th EXCEPT ![p] = r],
         UNCHANGED <<callers, db, changes, registry, open, copy>>,
         reply' \in [Requests -> Replies],
         p \in Requests => p \in callers,
         InHand(r),
         r.new = th[p].new,
         \/ r.old = None
         \/ r.old = th[p].old /\ r.cur = th[p].cur
         \/ r.cur \in Clusters /\ r.old = registry[r.cur],
         th[p].pc \notin {"store", "rdelete"},
         r.pc \in {"close", "rclose"} => r.old # None /\ registry[r.cur] = r.old,
         r.pc \in {"store", "rdelete"} => r.old = None /\ registry[r.cur] = None
  PROVE  RegistryInv'
<1>1. th'[p] = r /\ (\A q \in Threads : q # p => th'[q] = th[q]) /\ th' \in [Threads -> Thread]
  BY DEF RegistryInv, TypeOK
<1>2. TypeOK'
  BY <1>1 DEF RegistryInv, TypeOK
<1>3. \A q \in Threads : InHand(th'[q])
  BY <1>1 DEF RegistryInv
<1>4. NewIsFresh'
  <2>1. \A q \in Threads : th'[q].new = th[q].new
    BY <1>1
  <2>2. \A q \in Threads : th'[q].old \in {th[q].old, None} \/ \E c \in Clusters : th'[q].old = registry[c]
    BY <1>1
  <2> QED
    BY <2>1, <2>2 DEF RegistryInv, NewIsFresh
<1>5. OneCluster'
  BY DEF RegistryInv, OneCluster
<1>6. OldIsOfCur'
  BY <1>1 DEF RegistryInv, OldIsOfCur, OneCluster
<1>7. RegisteredIsOpen'
  <2>1. \A q \in Threads : th[q].pc \in {"store", "rdelete"} => th'[q] = th[q]
    BY <1>1
  <2> QED
    BY <2>1 DEF RegistryInv, RegisteredIsOpen, Registered
<1>8. TimerAlone'
  <2> SUFFICES ASSUME callers = {} PROVE TimerAlone'
    BY DEF TimerAlone
  <2>1. p = Timer
    BY DEF Threads
  <2>3. NoLeak'
    <3>1. \A q \in Threads : th'[q].new = th[q].new
      BY <1>1
    <3> QED
      BY <3>1 DEF RegistryInv, TimerAlone, NoLeak
  <2>4. None \notin open
    BY NoneAssumption DEF RegistryInv, TypeOK
  <2> QED
    BY <1>1, <2>1, <2>3, <2>4 DEF TimerAlone
<1>9. OthersIdle'
  BY <1>1 DEF RegistryInv, OthersIdle, Threads
<1> QED
  BY <1>2, <1>3, <1>4, <1>5, <1>6, <1>7, <1>8, <1>9 DEF RegistryInv

(* A goroutine that has something to do asks in this behaviour.            *)
LEMMA BusyAsks ==
  ASSUME RegistryInv, NEW p \in Threads, th[p].pc # "idle"
  PROVE  p \in Requests => p \in callers
  BY DEF RegistryInv, OthersIdle

(***************************************************************************)
(* The steps that leave the registry alone.                                *)
(***************************************************************************)
(* The timer fires.                                                      *)
LEMMA TickStep ==
  ASSUME RegistryInv, Tick
  PROVE  RegistryInv'
<1> DEFINE r == [th[Timer] EXCEPT !.pc = "fetch"]
<1>1. Timer \in Threads /\ th[Timer] \in Thread /\ InHand(th[Timer]) /\ Timer \notin Requests
  BY TimerAssumption DEF RegistryInv, TypeOK, Threads
<1>2. /\ r \in Thread /\ r.pc = "fetch" /\ r.old = th[Timer].old /\ r.new = th[Timer].new
      /\ r.cur = th[Timer].cur
  BY <1>1 DEF Thread, PCs
<1>3. th[Timer].pc = "idle" /\ th' = [th EXCEPT ![Timer] = r]
  BY DEF Tick, Goto
<1>4. InHand(r)
  BY <1>1, <1>2, <1>3 DEF InHand
<1>5. UNCHANGED <<callers, db, changes, registry, open, copy, reply>>
  BY DEF Tick
<1> HIDE DEF r
<1> QED
  BY <1>1, <1>2, <1>3, <1>4, <1>5, MoveStep DEF RegistryInv, TypeOK

(* A request asks for a manager.                                         *)
LEMMA ManagerStep ==
  ASSUME RegistryInv, NEW p \in Requests, NEW c \in Clusters, Manager(p, c)
  PROVE  RegistryInv'
<1>1. p \in Threads /\ th[p] \in Thread /\ InHand(th[p]) /\ p \in callers /\ th[p].pc = "idle"
  BY DEF RegistryInv, TypeOK, Threads, Manager
<1>2. UNCHANGED <<callers, db, changes, registry, open, copy>>
  BY DEF Manager
<1>3. reply' \in [Requests -> Replies]
  BY DEF RegistryInv, TypeOK, Manager, Replies, Answer
<1>4. CASE registry[c] # None
  <2>1. th' = th
    BY <1>4 DEF Manager
  <2> QED
    BY <1>1, <1>2, <1>3, <2>1, MoveStep DEF RegistryInv, TypeOK, InHand
<1>5. CASE registry[c] = None
  <2> DEFINE r == [th[p] EXCEPT !.pc = "fetch", !.want = c]
  <2>1. /\ r \in Thread /\ r.pc = "fetch" /\ r.old = th[p].old /\ r.new = th[p].new
        /\ r.cur = th[p].cur
    BY <1>1 DEF Thread, PCs
  <2>2. th' = [th EXCEPT ![p] = r]
    BY <1>5 DEF Manager
  <2>3. InHand(r)
    BY <1>1, <2>1 DEF InHand
  <2> HIDE DEF r
  <2> QED
    BY <1>1, <1>2, <1>3, <2>1, <2>2, <2>3, MoveStep
<1> QED
  BY <1>4, <1>5

(* It looks again, and is answered.                                      *)
LEMMA LookAgainStep ==
  ASSUME RegistryInv, NEW p \in Requests, LookAgain(p)
  PROVE  RegistryInv'
<1>1. p \in Threads /\ InHand(th[p]) /\ th[p].pc = "reload"
  BY DEF RegistryInv, Threads, LookAgain
<1>2. th' = [th EXCEPT ![p] = IdleThread] /\ UNCHANGED <<callers, db, changes, registry, open, copy>>
  BY DEF LookAgain
<1>3. reply' \in [Requests -> Replies]
  BY DEF RegistryInv, TypeOK, LookAgain, Replies, Answer
<1>4. IdleThread.new = th[p].new
  BY <1>1, IdleInHand DEF InHand
<1> QED
  BY <1>1, <1>2, <1>3, <1>4, IdleInHand, BusyAsks, MoveStep

(* BuildApiserverClient returns with nothing in hand.                      *)
LEMMA ReturnStep ==
  ASSUME RegistryInv, NEW p \in Threads, Return(p), th[p].pc \in {"fetch", "compare", "build"},
         UNCHANGED <<callers, db, changes, registry, open, copy, reply>>
  PROVE  RegistryInv'
<1> DEFINE r == IF p = Timer THEN IdleThread ELSE [IdleThread EXCEPT !.pc = "reload", !.want = th[p].want]
<1>1. th' = [th EXCEPT ![p] = r]
  BY DEF Return
<1>2. th[p] \in Thread /\ InHand(th[p])
  BY DEF RegistryInv, TypeOK
<1>3. r \in Thread /\ r.pc \in {"idle", "reload"} /\ r.old = None /\ r.new = None
  BY <1>2, IdleInHand DEF Thread, PCs
<1>4. InHand(r) /\ r.new = th[p].new
  BY <1>2, <1>3 DEF InHand
<1> HIDE DEF r
<1> QED
  BY <1>1, <1>2, <1>3, <1>4, BusyAsks, MoveStep DEF RegistryInv, TypeOK

(* The rows of the normal clusters are read.                             *)
LEMMA FetchStep ==
  ASSUME RegistryInv, NEW p \in Threads, GetAllNormal(p)
  PROVE  RegistryInv'
<1> DEFINE rows == [c \in Clusters |-> IF db[c].status = "normal" THEN db[c] ELSE None]
<1> DEFINE r == [th[p] EXCEPT !.pc = "compare", !.snap = rows]
<1>1. th[p] \in Thread /\ InHand(th[p]) /\ th[p].pc = "fetch"
  BY DEF RegistryInv, TypeOK, GetAllNormal
<1>2. rows \in [Clusters -> ClusterRow \cup {None}]
  BY DEF RegistryInv, TypeOK
<1>3. /\ r \in Thread /\ r.pc = "compare" /\ r.old = th[p].old /\ r.new = th[p].new
      /\ r.cur = th[p].cur
  <2> HIDE DEF rows
  <2> QED
    BY <1>1, <1>2 DEF Thread, PCs
<1>4. th' = [th EXCEPT ![p] = r]
  BY DEF GetAllNormal
<1>5. InHand(r)
  <2> HIDE DEF r
  <2> QED
    BY <1>1, <1>3 DEF InHand
<1>6. UNCHANGED <<callers, db, changes, registry, open, copy, reply>>
  BY DEF GetAllNormal
<1> HIDE DEF r
<1> QED
  BY <1>1, <1>3, <1>4, <1>5, <1>6, BusyAsks, MoveStep DEF RegistryInv, TypeOK

(* They are compared with the registry.                                  *)
LEMMA CompareStep ==
  ASSUME RegistryInv, NEW p \in Threads, Compare(p)
  PROVE  RegistryInv'
<1>1. th[p] \in Thread /\ InHand(th[p]) /\ th[p].pc = "compare"
  BY DEF RegistryInv, TypeOK, Compare
<1>2. UNCHANGED <<callers, db, changes, registry, open, copy, reply>>
  BY DEF Compare
<1>3. CASE Return(p)
  BY <1>1, <1>2, <1>3, ReturnStep
<1>4. CASE th' = [th EXCEPT ![p] = [th[p] EXCEPT !.pc = "range", !.todo = Clusters \ Fetched(p)]]
  <2> DEFINE r == [th[p] EXCEPT !.pc = "range", !.todo = Clusters \ Fetched(p)]
  <2>1. /\ r \in Thread /\ r.pc = "range" /\ r.old = th[p].old /\ r.new = th[p].new
        /\ r.cur = th[p].cur
    BY <1>1 DEF Thread, PCs
  <2> HIDE DEF r
  <2>2. InHand(r)
    BY <1>1, <2>1 DEF InHand
  <2> QED
    BY <1>1, <1>2, <1>4, <2>1, <2>2, BusyAsks, MoveStep DEF RegistryInv, TypeOK, r
<1> QED
  BY <1>3, <1>4 DEF Compare

(* The loop comes to a registered cluster that is not normal any more.   *)
LEMMA VisitStep ==
  ASSUME RegistryInv, NEW p \in Threads, NEW c \in Clusters, Visit(p, c)
  PROVE  RegistryInv'
<1> DEFINE r == [th[p] EXCEPT !.pc = "rload", !.cur = c, !.todo = th[p].todo \ {c}]
<1>1. th[p] \in Thread /\ InHand(th[p]) /\ th[p].pc = "range"
  BY DEF RegistryInv, TypeOK, Visit
<1>2. r \in Thread /\ r.pc = "rload" /\ r.old = th[p].old /\ r.new = th[p].new /\ r.cur = c
  BY <1>1 DEF Thread, PCs
<1>3. th' = [th EXCEPT ![p] = r] /\ UNCHANGED <<callers, db, changes, registry, open, copy, reply>>
  BY DEF Visit
<1> HIDE DEF r
<1>4. InHand(r) /\ r.old = None
  BY <1>1, <1>2 DEF InHand
<1> QED
  BY <1>1, <1>2, <1>3, <1>4, BusyAsks, MoveStep DEF RegistryInv, TypeOK

(* There is none left: the rows are built in turn.                       *)
LEMMA RangeEndsStep ==
  ASSUME RegistryInv, NEW p \in Threads, RangeEnds(p)
  PROVE  RegistryInv'
<1> DEFINE r == [th[p] EXCEPT !.pc = "build", !.todo = Fetched(p)]
<1>1. th[p] \in Thread /\ InHand(th[p]) /\ th[p].pc = "range" /\ Fetched(p) \subseteq Clusters
  BY DEF RegistryInv, TypeOK, RangeEnds, Fetched
<1>2. /\ r \in Thread /\ r.pc = "build" /\ r.old = th[p].old /\ r.new = th[p].new
      /\ r.cur = th[p].cur /\ r.todo = Fetched(p) /\ r.snap = th[p].snap
  BY <1>1 DEF Thread, PCs
<1>3. th' = [th EXCEPT ![p] = r] /\ UNCHANGED <<callers, db, changes, registry, open, copy, reply>>
  BY DEF RangeEnds
<1> HIDE DEF r
<1>4. InHand(r) /\ r.old = None
  BY <1>1, <1>2 DEF InHand, Fetched
<1> QED
  BY <1>1, <1>2, <1>3, <1>4, BusyAsks, MoveStep DEF RegistryInv, TypeOK

(* One that nothing can be built from is skipped.                        *)
LEMMA SkipStep ==
  ASSUME RegistryInv, NEW p \in Threads, NEW c \in Clusters, Skip(p, c)
  PROVE  RegistryInv'
<1> DEFINE r == [th[p] EXCEPT !.todo = th[p].todo \ {c}]
<1>1. th[p] \in Thread /\ InHand(th[p]) /\ th[p].pc = "build"
  BY DEF RegistryInv, TypeOK, Skip
<1>2. /\ r \in Thread /\ r.pc = "build" /\ r.old = th[p].old /\ r.new = th[p].new
      /\ r.cur = th[p].cur /\ r.todo \subseteq th[p].todo /\ r.snap = th[p].snap
  BY <1>1 DEF Thread, PCs
<1>3. th' = [th EXCEPT ![p] = r]
  BY DEF Skip, RegistryInv, TypeOK
<1>4. UNCHANGED <<callers, db, changes, registry, open, copy, reply>>
  BY DEF Skip
<1> HIDE DEF r
<1>5. InHand(r) /\ r.old = None
  BY <1>1, <1>2 DEF InHand
<1> QED
  BY <1>1, <1>2, <1>3, <1>4, <1>5, BusyAsks, MoveStep DEF RegistryInv, TypeOK

(* The manager that a new one will replace is loaded.                    *)
LEMMA LoadStep ==
  ASSUME RegistryInv, NEW p \in Threads, Load(p)
  PROVE  RegistryInv'
<1> DEFINE m == registry[th[p].cur]
<1> DEFINE r == [th[p] EXCEPT !.old = m, !.pc = IF m = None THEN "store" ELSE "close"]
<1>1. th[p] \in Thread /\ InHand(th[p]) /\ th[p].pc = "load" /\ th[p].cur \in Clusters
  BY DEF RegistryInv, TypeOK, Load, InHand
<1>2. m \in Managers \cup {None}
  BY <1>1 DEF RegistryInv, TypeOK
<1>3. th' = [th EXCEPT ![p] = r] /\ UNCHANGED <<callers, db, changes, registry, open, copy, reply>>
  BY DEF Load
<1>4. /\ r \in Thread /\ r.old = m /\ r.new = th[p].new /\ r.cur = th[p].cur
      /\ r.todo = th[p].todo /\ r.snap = th[p].snap
      /\ r.pc = IF m = None THEN "store" ELSE "close"
  <2> HIDE DEF m
  <2> QED
    BY <1>1, <1>2 DEF Thread, PCs
<1> HIDE DEF r
<1>5. InHand(r)
  BY <1>1, <1>4 DEF InHand
<1> QED
  BY <1>1, <1>3, <1>4, <1>5, BusyAsks, MoveStep DEF RegistryInv, TypeOK

(***************************************************************************)
(* Panics, and the steps that change the registry.                         *)
(***************************************************************************)
(* A panic that ends the process leaves an empty registry; in a request it *)
(* leaves at most a manager that nobody refers to.                         *)
LEMMA PanicStep ==
  ASSUME RegistryInv, NEW p \in Threads, Panic(p), th[p].pc \in {"rload", "rclose", "close"}
  PROVE  RegistryInv'
<1>1. CASE p = Timer
  <2>1. /\ th' = [q \in Threads |-> IdleThread]
        /\ reply' = [q \in Requests |-> "none"]
        /\ registry' = [c \in Clusters |-> None]
        /\ open' = {}
        /\ UNCHANGED <<callers, db, changes, copy>>
    BY <1>1 DEF Panic
  <2>2. TypeOK'
    BY <2>1, IdleInHand DEF RegistryInv, TypeOK, Replies
  <2>3. \A q \in Threads : /\ InHand(th'[q]) /\ th'[q].old = None /\ th'[q].new = None
                          /\ th'[q].pc = "idle"
    BY <2>1, IdleInHand
  <2>4. NewIsFresh' /\ OldIsOfCur' /\ OneCluster' /\ OthersIdle'
    BY <2>1, <2>3 DEF NewIsFresh, OldIsOfCur, OneCluster, OthersIdle, Threads
  <2>5. RegisteredIsOpen'
    BY <2>1 DEF RegisteredIsOpen, Registered
  <2>6. TimerAlone'
    BY <2>1, <2>3 DEF TimerAlone, NoLeak, Threads
  <2> QED
    BY <2>2, <2>3, <2>4, <2>5, <2>6 DEF RegistryInv
<1>2. CASE p # Timer
  <2>1. /\ th' = [th EXCEPT ![p] = IdleThread]
        /\ reply' = [reply EXCEPT ![p] = "panic"]
        /\ UNCHANGED <<callers, db, changes, registry, open, copy>>
    BY <1>2 DEF Panic
  <2>2. p \in Requests /\ p \in callers
    BY <1>2, BusyAsks DEF Threads
  <2>3. th'[p] = IdleThread /\ \A q \in Threads : q # p => th'[q] = th[q]
    BY <2>1 DEF RegistryInv, TypeOK
  <2>4. TypeOK'
    BY <2>1, IdleInHand DEF RegistryInv, TypeOK, Replies
  <2>5. \A q \in Threads : InHand(th'[q])
    BY <2>3, IdleInHand DEF RegistryInv
  <2>6. NewIsFresh' /\ OldIsOfCur' /\ OneCluster' /\ OthersIdle'
    BY <2>1, <2>3, IdleInHand DEF RegistryInv, NewIsFresh, OldIsOfCur, OneCluster, OthersIdle, Threads
  <2>7. RegisteredIsOpen'
    BY <2>1, <2>3 DEF RegistryInv, RegisteredIsOpen, Registered
  <2>8. TimerAlone'
    BY <2>1, <2>2 DEF TimerAlone
  <2> QED
    BY <2>4, <2>5, <2>6, <2>7, <2>8 DEF RegistryInv
<1> QED
  BY <1>1, <1>2

(* The manager that will be removed is loaded; when it is gone, a panic. *)
LEMMA LoadRemovedStep ==
  ASSUME RegistryInv, NEW p \in Threads, LoadRemoved(p)
  PROVE  RegistryInv'
<1> DEFINE m == registry[th[p].cur]
<1> DEFINE r == [th[p] EXCEPT !.pc = "rclose", !.old = m]
<1>1. th[p] \in Thread /\ InHand(th[p]) /\ th[p].pc = "rload" /\ th[p].cur \in Clusters
  BY DEF RegistryInv, TypeOK, LoadRemoved, InHand
<1>2. CASE m = None
  BY <1>1, <1>2, PanicStep DEF LoadRemoved
<1>3. CASE m # None
  <2>1. m \in Managers
    BY <1>1, <1>3 DEF RegistryInv, TypeOK
  <2>2. th' = [th EXCEPT ![p] = r] /\ UNCHANGED <<callers, db, changes, registry, open, copy, reply>>
    BY <1>3 DEF LoadRemoved
  <2>3. r \in Thread /\ r.old = m /\ r.new = th[p].new /\ r.cur = th[p].cur /\ r.pc = "rclose"
    <3> HIDE DEF m
    <3> QED
      BY <1>1, <2>1 DEF Thread, PCs
  <2> HIDE DEF r
  <2>4. InHand(r)
    BY <1>1, <2>3 DEF InHand
  <2> QED
    BY <1>1, <1>3, <2>2, <2>3, <2>4, BusyAsks, MoveStep DEF RegistryInv, TypeOK
<1> QED
  BY <1>2, <1>3

(* The manager loaded is closed; when it was closed before, a panic.     *)
LEMMA CloseStep ==
  ASSUME RegistryInv, NEW p \in Threads, NEW next \in {"rdelete", "store"}, Close(p, next),
         \/ th[p].pc = "rclose" /\ next = "rdelete"
         \/ th[p].pc = "close" /\ next = "store",
         UNCHANGED callers
  PROVE  RegistryInv'
<1>1. CASE th[p].old \notin open
  BY <1>1, PanicStep DEF Close
<1>2. CASE th[p].old \in open
  <2> DEFINE r == [th[p] EXCEPT !.pc = next]
  <2>1. th[p] \in Thread /\ InHand(th[p]) /\ th[p].cur \in Clusters
    BY DEF RegistryInv, TypeOK, InHand
  <2>2. /\ r \in Thread /\ r.pc = next /\ r.old = th[p].old /\ r.new = th[p].new
        /\ r.cur = th[p].cur /\ r.todo = th[p].todo /\ r.snap = th[p].snap
    BY <2>1 DEF Thread, PCs
  <2>3. /\ open' = open \ {th[p].old}
        /\ UNCHANGED <<callers, db, changes, registry, copy, reply>>
    BY <1>2 DEF Close
  <2>4. th' = [th EXCEPT ![p] = r]
    BY <1>2 DEF Close, Goto, RegistryInv, TypeOK
  <2> HIDE DEF r
  <2>5. th'[p] = r /\ (\A q \in Threads : q # p => th'[q] = th[q]) /\ th' \in [Threads -> Thread]
    BY <2>2, <2>4 DEF RegistryInv, TypeOK
  <2>6. /\ th[p].old # None
        /\ \A q \in Threads : /\ th'[q].old = th[q].old /\ th'[q].new = th[q].new
                             /\ th'[q].cur = th[q].cur
    BY <1>2, <2>2, <2>5, NoneAssumption DEF RegistryInv, TypeOK
  <2>7. TypeOK'
    BY <2>3, <2>5 DEF RegistryInv, TypeOK
  <2>8. \A q \in Threads : InHand(th'[q])
    <3>1. InHand(r)
      BY <2>1, <2>2 DEF InHand
    <3> QED
      BY <2>5, <3>1 DEF RegistryInv
  <2>9. NewIsFresh'
    BY <2>3, <2>6 DEF RegistryInv, NewIsFresh
  <2>10. OneCluster' /\ OldIsOfCur'
    BY <2>3, <2>6 DEF RegistryInv, OneCluster, OldIsOfCur
  <2>11. RegisteredIsOpen'
    <3>1. ASSUME NEW c \in Clusters, registry[c] # None
          PROVE  \/ registry[c] \in open'
                 \/ \E q \in Threads : /\ th'[q].pc \in {"store", "rdelete"}
                                      /\ th'[q].cur = c /\ th'[q].old = registry[c]
      <4>1. CASE registry[c] = th[p].old
        BY <2>2, <2>5, <2>6, <3>1, <4>1 DEF RegistryInv, OldIsOfCur
      <4>2. CASE registry[c] # th[p].old /\ registry[c] \in open
        BY <2>3, <4>2
      <4>3. CASE registry[c] # th[p].old /\ registry[c] \notin open
        <5>1. PICK q \in Threads : /\ th[q].pc \in {"store", "rdelete"}
                                 /\ th[q].cur = c /\ th[q].old = registry[c]
          BY <3>1, <4>3 DEF RegistryInv, RegisteredIsOpen, Registered
        <5> QED
          BY <2>5, <4>3, <5>1
      <4> QED
        BY <4>1, <4>2, <4>3
    <3> QED
      BY <2>3, <3>1 DEF RegisteredIsOpen, Registered
  <2>12. OthersIdle'
    BY <2>3, <2>5, BusyAsks DEF RegistryInv, OthersIdle, Threads
  <2>13. TimerAlone'
    <3> SUFFICES ASSUME callers = {} PROVE TimerAlone'
      BY <2>3 DEF TimerAlone
    <3>1. p = Timer
      BY BusyAsks DEF Threads
    <3>2. NoLeak'
      BY <2>3, <2>6 DEF RegistryInv, TimerAlone, NoLeak
    <3> QED
      BY <2>2, <2>3, <2>5, <3>1, <3>2 DEF RegistryInv, TimerAlone
  <2> QED
    BY <2>7, <2>8, <2>9, <2>10, <2>11, <2>12, <2>13 DEF RegistryInv
<1> QED
  BY <1>1, <1>2

(* The closed manager is deleted from the registry.                      *)
LEMMA DeleteRemovedStep ==
  ASSUME RegistryInv, NEW p \in Threads, DeleteRemoved(p)
  PROVE  RegistryInv'
<1> DEFINE r == [th[p] EXCEPT !.pc = "range", !.cur = None, !.old = None]
<1>1. th[p] \in Thread /\ InHand(th[p]) /\ th[p].pc = "rdelete" /\ th[p].cur \in Clusters
  BY DEF RegistryInv, TypeOK, InHand, DeleteRemoved
<1>2. /\ r \in Thread /\ r.pc = "range" /\ r.old = None /\ r.new = th[p].new
  BY <1>1 DEF Thread, PCs
<1>3. /\ registry' = [registry EXCEPT ![th[p].cur] = None]
      /\ th' = [th EXCEPT ![p] = r]
      /\ UNCHANGED <<callers, db, changes, open, copy, reply>>
  BY DEF DeleteRemoved
<1> HIDE DEF r
<1>4. th'[p] = r /\ (\A q \in Threads : q # p => th'[q] = th[q]) /\ th' \in [Threads -> Thread]
  BY <1>2, <1>3 DEF RegistryInv, TypeOK
<1>5. registry'[th[p].cur] = None /\ \A c \in Clusters : c # th[p].cur => registry'[c] = registry[c]
  BY <1>1, <1>3 DEF RegistryInv, TypeOK
<1>6. TypeOK'
  BY <1>3, <1>4 DEF RegistryInv, TypeOK
<1>7. InHand(r) /\ \A q \in Threads : InHand(th'[q])
  <2>1. InHand(r)
    BY <1>1, <1>2 DEF InHand
  <2> QED
    BY <1>4, <2>1 DEF RegistryInv
<1>8. \A q \in Threads : th'[q].new = th[q].new /\ th'[q].old \in {th[q].old, None}
  BY <1>2, <1>4
<1>9. NewIsFresh'
  BY <1>3, <1>5, <1>8 DEF RegistryInv, NewIsFresh
<1>10. OneCluster'
  BY <1>5 DEF RegistryInv, OneCluster
<1>11. OldIsOfCur'
  BY <1>2, <1>4, <1>5 DEF RegistryInv, OldIsOfCur
<1>12. RegisteredIsOpen'
  BY <1>3, <1>4, <1>5 DEF RegistryInv, RegisteredIsOpen, Registered
<1>13. OthersIdle'
  BY <1>1, <1>3, <1>4, BusyAsks DEF RegistryInv, OthersIdle, Threads
<1>14. TimerAlone'
  <2> SUFFICES ASSUME callers = {} PROVE TimerAlone'
    BY <1>3 DEF TimerAlone
  <2>1. p = Timer
    BY <1>1, BusyAsks DEF Threads
  <2>2. registry[th[p].cur] \notin open
    BY <1>1, <2>1 DEF RegistryInv, TimerAlone
  <2>3. NoLeak'
    BY <1>3, <1>5, <1>8, <2>2 DEF RegistryInv, TimerAlone, NoLeak
  <2> QED
    BY <1>2, <1>4, <2>1, <2>3 DEF TimerAlone
<1> QED
  BY <1>6, <1>7, <1>9, <1>10, <1>11, <1>12, <1>13, <1>14 DEF RegistryInv

(* A manager is built, and its informers start.                          *)
LEMMA BuildStep ==
  ASSUME RegistryInv, NEW p \in Threads, NEW c \in Clusters, Build(p, c)
  PROVE  RegistryInv'
<1>1. PICK m \in Managers :
        /\ Garbage(m)
        /\ open' = open \cup {m}
        /\ copy' = [copy EXCEPT ![m] = th[p].snap[c]]
        /\ th' = [th EXCEPT ![p] = [th[p] EXCEPT !.pc = "load", !.cur = c, !.new = m,
                                                !.todo = th[p].todo \ {c}]]
  BY DEF Build
<1> DEFINE r == [th[p] EXCEPT !.pc = "load", !.cur = c, !.new = m, !.todo = th[p].todo \ {c}]
<1>2. th[p] \in Thread /\ InHand(th[p]) /\ th[p].pc = "build" /\ c \in th[p].todo
  BY DEF RegistryInv, TypeOK, Build
<1>3. /\ r \in Thread /\ r.pc = "load" /\ r.old = th[p].old /\ r.new = m
      /\ r.cur = c /\ r.todo \subseteq th[p].todo /\ r.snap = th[p].snap
  BY <1>2 DEF Thread, PCs
<1>4. th' = [th EXCEPT ![p] = r] /\ UNCHANGED <<callers, db, changes, registry, reply>>
  BY <1>1 DEF Build
<1> HIDE DEF r
<1>5. th'[p] = r /\ (\A q \in Threads : q # p => th'[q] = th[q]) /\ th' \in [Threads -> Thread]
  BY <1>3, <1>4 DEF RegistryInv, TypeOK
<1>6. th[p].new = None /\ th[p].old = None /\ m # None
  BY <1>2, NoneAssumption DEF InHand
<1>7. TypeOK'
  <2>1. th[p].snap[c] \in ClusterRow
    BY <1>2 DEF InHand, Thread
  <2> QED
    BY <1>1, <1>4, <1>5, <2>1 DEF RegistryInv, TypeOK
<1>8. \A q \in Threads : InHand(th'[q])
  <2>1. InHand(r)
    BY <1>2, <1>3, <1>6 DEF InHand
  <2> QED
    BY <1>5, <2>1 DEF RegistryInv
<1>9. NewIsFresh'
  <2>1. \A q \in Threads : th[q].new # m /\ th[q].old # m
    BY <1>1, <1>6 DEF RegistryInv, NewIsFresh, Garbage
  <2>2. \A d \in Clusters : registry[d] # m
    BY <1>1 DEF Garbage
  <2>3. th'[p].new = m /\ \A q \in Threads : th'[q].old = th[q].old /\ (q # p => th'[q].new = th[q].new)
    BY <1>3, <1>5
  <2> QED
    BY <1>1, <1>4, <2>1, <2>2, <2>3 DEF RegistryInv, NewIsFresh
<1>10. OneCluster' /\ OldIsOfCur'
  BY <1>3, <1>4, <1>5, <1>6 DEF RegistryInv, OneCluster, OldIsOfCur
<1>11. RegisteredIsOpen'
  BY <1>1, <1>2, <1>4, <1>5 DEF RegistryInv, RegisteredIsOpen, Registered
<1>12. OthersIdle'
  BY <1>2, <1>4, <1>5, BusyAsks DEF RegistryInv, OthersIdle, Threads
<1>13. TimerAlone'
  <2> SUFFICES ASSUME callers = {} PROVE TimerAlone'
    BY <1>4 DEF TimerAlone
  <2>1. p = Timer
    BY <1>2, BusyAsks DEF Threads
  <2>2. NoLeak'
    <3>1. \A n \in open' : n = m \/ (n \in open /\ n # None)
      BY <1>1, NoneAssumption DEF RegistryInv, TypeOK
    <3>2. th'[p].new = m
      BY <1>3, <1>5
    <3>3. \A n \in open : n # None => \/ \E d \in Clusters : registry[d] = n
                                    \/ \E q \in Threads : q # p /\ th[q].new = n
      BY <1>6 DEF RegistryInv, TimerAlone, NoLeak
    <3> QED
      BY <1>4, <1>5, <3>1, <3>2, <3>3 DEF NoLeak
  <2> QED
    BY <1>3, <1>5, <2>1, <2>2 DEF TimerAlone
<1> QED
  BY <1>7, <1>8, <1>9, <1>10, <1>11, <1>12, <1>13 DEF RegistryInv

(* It is put into the registry.                                          *)
LEMMA StoreStep ==
  ASSUME RegistryInv, NEW p \in Threads, Store(p)
  PROVE  RegistryInv'
<1> DEFINE r == [th[p] EXCEPT !.pc = "build", !.cur = None, !.old = None, !.new = None]
<1> DEFINE m == th[p].new
<1>1. th[p] \in Thread /\ InHand(th[p]) /\ th[p].pc = "store" /\ th[p].cur \in Clusters
  BY DEF RegistryInv, TypeOK, InHand, Store
<1>2. /\ r \in Thread /\ r.pc = "build" /\ r.old = None /\ r.new = None
      /\ r.todo = th[p].todo /\ r.snap = th[p].snap
  BY <1>1 DEF Thread, PCs
<1>3. /\ registry' = [registry EXCEPT ![th[p].cur] = m]
      /\ th' = [th EXCEPT ![p] = r]
      /\ UNCHANGED <<callers, db, changes, open, copy, reply>>
  BY DEF Store
<1> HIDE DEF r
<1>4. th'[p] = r /\ (\A q \in Threads : q # p => th'[q] = th[q]) /\ th' \in [Threads -> Thread]
  BY <1>2, <1>3 DEF RegistryInv, TypeOK
<1>5. registry'[th[p].cur] = m /\ \A c \in Clusters : c # th[p].cur => registry'[c] = registry[c]
  BY <1>1, <1>3 DEF RegistryInv, TypeOK
<1>6. /\ m # None /\ m \in Managers /\ m \in open
      /\ \A c \in Clusters : registry[c] # m
      /\ \A q \in Threads : th[q].old # m /\ (q # p => th[q].new # m)
  BY <1>1 DEF RegistryInv, NewIsFresh, InHand, Thread
<1>7. \A q \in Threads : th'[q].old \in {th[q].old, None}
  BY <1>2, <1>4
<1>8. \A q \in Threads : q # p => th'[q].new = th[q].new
  BY <1>4
<1>9. th'[p].new = None
  BY <1>2, <1>4
<1>10. \A q \in Threads : InHand(th'[q])
  <2>1. InHand(r)
    BY <1>1, <1>2 DEF InHand
  <2> QED
    BY <1>4, <2>1 DEF RegistryInv
<1>11. TypeOK'
  <2>1. registry' \in [Clusters -> Managers \cup {None}]
    BY <1>1, <1>3, <1>6 DEF RegistryInv, TypeOK
  <2> QED
    BY <1>3, <1>4, <2>1 DEF RegistryInv, TypeOK
<1> HIDE DEF m
<1>12. NewIsFresh'
  <2> SUFFICES ASSUME NEW q \in Threads, th'[q].new # None
               PROVE  /\ th'[q].new \in open
                      /\ \A c \in Clusters : registry'[c] # th'[q].new
                      /\ \A s \in Threads : th'[s].old # th'[q].new /\ (s # q => th'[s].new # th'[q].new)
    BY <1>3 DEF NewIsFresh
  <2>1. q # p /\ th'[q].new = th[q].new
    BY <1>8, <1>9
  <2>2. \A c \in Clusters : registry[c] # th[q].new
    BY <2>1 DEF RegistryInv, NewIsFresh
  <2>3. \A c \in Clusters : registry'[c] # th[q].new
    BY <1>1, <1>5, <1>6, <2>1, <2>2
  <2>4. \A s \in Threads : th[s].old # th[q].new /\ (s # q => th[s].new # th[q].new)
    BY <2>1 DEF RegistryInv, NewIsFresh
  <2>5. th[q].new \in open
    BY <2>1 DEF RegistryInv, NewIsFresh
  <2> QED
    BY <1>7, <1>8, <1>9, <2>1, <2>3, <2>4, <2>5
<1>13. OneCluster'
  BY <1>1, <1>5, <1>6 DEF RegistryInv, OneCluster
<1>14. OldIsOfCur'
  <2>1. \A q \in Threads : q # p => th'[q].cur = th[q].cur /\ th'[q].old = th[q].old
    BY <1>4
  <2>2. th'[p].old = None
    BY <1>2, <1>4
  <2> QED
    BY <1>1, <1>5, <1>6, <2>1, <2>2 DEF RegistryInv, OldIsOfCur
<1>15. RegisteredIsOpen'
  BY <1>1, <1>3, <1>4, <1>5, <1>6 DEF RegistryInv, RegisteredIsOpen, Registered
<1>16. OthersIdle'
  BY <1>1, <1>3, <1>4, BusyAsks DEF RegistryInv, OthersIdle, Threads
<1>17. TimerAlone'
  <2> SUFFICES ASSUME callers = {} PROVE TimerAlone'
    BY <1>3 DEF TimerAlone
  <2>1. p = Timer
    BY <1>1, BusyAsks DEF Threads
  <2>2. registry[th[p].cur] \notin open
    BY <1>1, <2>1 DEF RegistryInv, TimerAlone
  <2>3. \A n \in open : \/ \E c \in Clusters : c # th[p].cur /\ registry[c] = n
                        \/ n = m
                        \/ \E q \in Threads : q # p /\ th[q].new = n
    BY <2>2 DEF RegistryInv, TimerAlone, NoLeak, m
  <2>4. NoLeak'
    BY <1>1, <1>3, <1>5, <1>8, <2>3 DEF NoLeak
  <2> QED
    BY <1>2, <1>4, <2>1, <2>4 DEF TimerAlone
<1> QED
  BY <1>10, <1>11, <1>12, <1>13, <1>14, <1>15, <1>16, <1>17 DEF RegistryInv

(* An administrator changes the table.                                   *)
LEMMA AdministerStep ==
  ASSUME RegistryInv, NEW c \in Clusters, NEW row \in ClusterRow, Administer(c, row)
  PROVE  RegistryInv'
<1>1. UNCHANGED <<callers, registry, open, copy, th, reply>>
  BY DEF Administer
<1>2. db' \in [Clusters -> ClusterRow] /\ changes' \in 0..MaxChanges
  BY ChangesAssumption DEF RegistryInv, TypeOK, Administer
<1>3. TypeOK'
  BY <1>1, <1>2 DEF RegistryInv, TypeOK
<1> QED
  BY <1>1, <1>3 DEF RegistryInv, NewIsFresh, OneCluster, OldIsOfCur, RegisteredIsOpen, Registered,
                    OthersIdle, TimerAlone, NoLeak

(* The invariant holds at first.                                         *)
LEMMA RegistryInit == Init => RegistryInv
<1> SUFFICES ASSUME Init PROVE RegistryInv
  OBVIOUS
<1>1. ClusterRow # {}
  <2>1. PICK conf \in Confs : TRUE
    BY ConfsAssumption
  <2>2. [conf |-> conf, status |-> "normal"] \in ClusterRow
    BY DEF ClusterRow
  <2> QED
    BY <2>2
<1>2. (CHOOSE row \in ClusterRow : TRUE) \in ClusterRow
  BY <1>1
<1>3. TypeOK
  BY <1>2, IdleInHand, ChangesAssumption DEF Init, TypeOK, Replies
<1>4. \A p \in Threads : /\ InHand(th[p]) /\ th[p].old = None /\ th[p].new = None
                        /\ th[p].pc = "idle"
  BY IdleInHand DEF Init
<1>5. NewIsFresh /\ OneCluster /\ OldIsOfCur /\ OthersIdle
  BY <1>4 DEF Init, NewIsFresh, OneCluster, OldIsOfCur, OthersIdle, Threads
<1>6. RegisteredIsOpen
  BY DEF Init, RegisteredIsOpen, Registered
<1>7. TimerAlone
  BY <1>4 DEF Init, TimerAlone, NoLeak, Threads
<1> QED
  BY <1>3, <1>4, <1>5, <1>6, <1>7 DEF RegistryInv

(* Every step of BuildApiserverClient keeps it.                          *)
LEMMA WorkStep ==
  ASSUME RegistryInv, NEW p \in Threads, Work(p)
  PROVE  RegistryInv'
<1>1. CASE BuildEnds(p)
  <2>1. th[p].pc = "build" /\ Return(p) /\ UNCHANGED <<callers, db, changes, registry, open, copy, reply>>
    BY <1>1 DEF BuildEnds
  <2> QED
    BY <2>1, ReturnStep
<1>2. CASE CloseRemoved(p)
  <2>1. th[p].pc = "rclose" /\ Close(p, "rdelete") /\ UNCHANGED callers
    BY <1>2 DEF CloseRemoved, Close, Panic
  <2> QED
    BY <2>1, CloseStep
<1>3. CASE CloseOld(p)
  <2>1. th[p].pc = "close" /\ Close(p, "store") /\ UNCHANGED callers
    BY <1>3 DEF CloseOld, Close, Panic
  <2> QED
    BY <2>1, CloseStep
<1> QED
  BY <1>1, <1>2, <1>3, FetchStep, CompareStep, VisitStep, SkipStep, BuildStep, LoadRemovedStep,
     DeleteRemovedStep, RangeEndsStep, LoadStep, StoreStep DEF Work

(* Every step keeps it.                                                  *)
LEMMA RegistryStep == RegistryInv /\ [Next]_vars => RegistryInv'
<1> SUFFICES ASSUME RegistryInv, [Next]_vars PROVE RegistryInv'
  OBVIOUS
<1>1. CASE UNCHANGED vars
  BY <1>1 DEF RegistryInv, TypeOK, NewIsFresh, OneCluster, OldIsOfCur, RegisteredIsOpen, Registered,
              OthersIdle, TimerAlone, NoLeak, vars
<1>2. ASSUME NEW p \in Threads, GetAllNormalFails(p) PROVE RegistryInv'
  BY <1>2, ReturnStep DEF GetAllNormalFails
<1> QED
  BY <1>1, <1>2, AdministerStep, TickStep, ManagerStep, LookAgainStep, WorkStep DEF Next

(* So it holds for ever.                                                 *)
LEMMA Invariance == Spec => []RegistryInv
  BY RegistryInit, RegistryStep, PTL DEF Spec

(* Every variable has its type: what the timer and the requests load,      *)
(* build and store are managers and rows that exist.                       *)
THEOREM ManagersTypes == Spec => []TypeOK
<1>1. RegistryInv => TypeOK
  BY DEF RegistryInv
<1> QED
  BY <1>1, Invariance, PTL

(* However many goroutines build, overlap and panic, a manager that the    *)
(* registry hands out runs, or is about to be replaced or deleted.         *)
THEOREM RegisteredIsAlwaysOpen == Spec => []RegisteredIsOpen
<1>1. RegistryInv => RegisteredIsOpen
  BY DEF RegistryInv
<1> QED
  BY <1>1, Invariance, PTL

(* A timer that builds alone neither stops a manager twice nor leaves one  *)
(* running outside the registry, whatever the administrator does.          *)
THEOREM TimerAloneIsClean == Spec => []AloneIsClean
<1>1. RegistryInv => AloneIsClean
  <2> SUFFICES ASSUME RegistryInv, callers = {} PROVE NoDoubleClose /\ NoLeak
    BY DEF AloneIsClean
  <2>1. NoLeak
    BY DEF RegistryInv, TimerAlone
  <2>2. ASSUME NEW p \in Threads, th[p].pc \in {"close", "rclose"} PROVE th[p].old \in open
    <3>1. p = Timer
      BY <2>2, BusyAsks DEF Threads
    <3>2. th[p].cur \in Clusters /\ th[p].old # None /\ registry[th[p].cur] = th[p].old
      BY <2>2, <3>1 DEF RegistryInv, TimerAlone, InHand
    <3>3. \A q \in Threads : th[q].pc \notin {"store", "rdelete"}
      BY <2>2, <3>1, BusyAsks DEF Threads
    <3> QED
      BY <3>2, <3>3 DEF RegistryInv, RegisteredIsOpen, Registered
  <2> QED
    BY <2>1, <2>2 DEF NoDoubleClose
<1> QED
  BY <1>1, Invariance, PTL
=============================================================================
