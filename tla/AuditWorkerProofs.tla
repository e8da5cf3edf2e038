-------------------------- MODULE AuditWorkerProofs --------------------------
(***************************************************************************)
(* Theorems of AuditWorker, for every set of messages, every number of     *)
(* consumers and connections, and every fault.                             *)
(***************************************************************************)
EXTENDS AuditWorker, FiniteSetTheorems, TLAPS

TypeRest ==
  /\ main \in {"dial", "create", "wait"}
  /\ conn \in 0..MaxConns
  /\ up \in BOOLEAN
  /\ started \in 0..Concurrency
  /\ declared \in BOOLEAN
  /\ lock \in {"free", "signal"}
  /\ worker \in [Workers -> Worker]
  /\ bound \in BOOLEAN
  /\ ready \subseteq Messages
  /\ pushed \in [Workers -> SUBSET Messages]
  /\ todo \subseteq Messages
  /\ audited \in [Messages -> Nat]
  /\ refused \subseteq Messages
  /\ lost \subseteq Messages

(* The consumers of the current connection whose Run has failed.           *)
FailedNow == {k \in 1..Concurrency : <<conn, k>> \in Workers /\ worker[<<conn, k>>].at = "failed"}

(* Nobody works for a connection that was not made yet, and the workers of *)
(* a connection are made in order.                                         *)
MadeInOrder ==
  /\ main # "dial" => conn > 0
  /\ up => main # "dial"
  /\ \A w \in Workers : Conn(w) > conn \/ (Conn(w) = conn /\ w[2] > started) => worker[w].at = "unborn"

(* The WaitGroup counts the workers of its connection that have failed.    *)
Counted == waits = Cardinality(FailedNow)

(* A worker that processes or acknowledges has a message in its hands.     *)
InHand == \A w \in Workers : worker[w].at \in {"process", "ack"} => worker[w].got # None

(* What was written or refused stays so: an acknowledgement comes after.   *)
AckedIsSettled == \A w \in Workers : worker[w].at = "ack" => Settled(worker[w].got)

(* Only the workers of the open connection have deliveries.                *)
PushedIsLive == \A w \in Workers : pushed[w] # {} => Live(w)

(* A message is in one place of the broker at most, and what a worker of   *)
(* the open connection has was pushed to it.                               *)
OnePlace ==
  /\ \A w \in Workers : worker[w].buffer # {} => Live(w)
  /\ \A w \in Workers : worker[w].at \in {"process", "ack"} => worker[w].got \notin worker[w].buffer
  /\ \A w \in Workers : Live(w) => worker[w].buffer \subseteq pushed[w]
  /\ \A w \in Workers : Live(w) /\ worker[w].at \in {"process", "ack"} => worker[w].got \in pushed[w]
  /\ ready \cap todo = {}
  /\ \A w \in Workers : pushed[w] \cap (ready \cup todo) = {}
  /\ \A v, w \in Workers : v # w => pushed[v] \cap pushed[w] = {}

(* The workers that may still write a message to the log.                  *)
Holds(w, m) == m \in worker[w].buffer \/ (worker[w].at = "process" /\ worker[w].got = m)
Holding(m) == {w \in Workers : Holds(w, m)}

(* Every writing, past or to come, has a connection of its own, and one is *)
(* left for a message that waits while the connection is open.             *)
Budget ==
  /\ \A m \in Messages : audited[m] + Cardinality(Holding(m)) <= conn
  /\ up => \A m \in ready \cup todo : audited[m] + Cardinality(Holding(m)) < conn

(* A worker is named by its connection and its number there.               *)
LEMMA WorkerNumbers ==
  ASSUME NEW w \in Workers
  PROVE  Conn(w) \in 1..MaxConns /\ w[2] \in 1..Concurrency
  BY DEF Workers, Conn

(* A worker is a pair of these numbers.                                  *)
LEMMA WorkersPairs ==
  ASSUME NEW w \in Workers
  PROVE  w = <<Conn(w), w[2]>>
  BY DEF Workers, Conn

(* Every step keeps the types.                                             *)
LEMMA TypeStep ==
  ASSUME TypeRest, MadeInOrder, InHand, [Next]_vars
  PROVE  TypeRest'
<1> USE WorkerAssumption
<1>1. CASE UNCHANGED vars
  BY <1>1 DEF TypeRest, vars
<1>2. CASE Loop
  <2>1. CASE Dial
    BY <2>1 DEF TypeRest, Dial
  <2>2. CASE RecoverableWorker
    <3>1. <<conn, started + 1>> \in Workers /\ started + 1 \in 0..Concurrency
      BY <2>2 DEF TypeRest, MadeInOrder, RecoverableWorker, Creates, Workers
    <3>2. worker' \in [Workers -> Worker]
      BY <2>2, <3>1 DEF TypeRest, RecoverableWorker, Goes, Worker
    <3> QED
      BY <2>2, <3>1, <3>2 DEF TypeRest, RecoverableWorker, Creates
  <2>3. CASE RecoverableWorkerFails
    BY <2>3 DEF TypeRest, RecoverableWorkerFails, Creates
  <2>4. CASE WaitGroup
    BY <2>4 DEF TypeRest, WaitGroup
  <2>5. CASE Reconnect
    <3> DEFINE told(w) == worker[w].stop \/ (Conn(w) = conn /\ worker[w].at # "unborn")
    <3>1. ASSUME NEW w \in Workers PROVE [worker[w] EXCEPT !.stop = told(w)] \in Worker
      <4>1. told(w) \in BOOLEAN
        BY Zenon
      <4> HIDE DEF told
      <4> QED
        BY <4>1 DEF TypeRest, Worker
    <3>2. worker' \in [Workers -> Worker]
      BY <2>5, <3>1 DEF Reconnect
    <3> QED
      BY <2>5, <3>2 DEF TypeRest, Reconnect
  <2> QED
    BY <1>2, <2>1, <2>2, <2>3, <2>4, <2>5 DEF Loop
<1>3. CASE Signal
  BY <1>3 DEF TypeRest, Signal
<1>4. CASE Delivers
  BY <1>4 DEF TypeRest, Delivers, Deliver, Worker
<1>5. CASE ConnectionLost
  <2>1. worker' \in [Workers -> Worker]
    BY <1>5 DEF TypeRest, ConnectionLost, Worker
  <2>2. ready' \subseteq Messages /\ lost' \subseteq Messages
    BY <1>5 DEF TypeRest, ConnectionLost, Close
  <2> QED
    BY <1>5, <2>1, <2>2 DEF TypeRest, ConnectionLost, Close
<1>6. CASE Crash
  <2>1. ready' \subseteq Messages /\ lost' \subseteq Messages
    BY <1>6 DEF TypeRest, Crash, Close
  <2>2. worker' \in [Workers -> Worker]
    BY <1>6 DEF Crash, Worker, Unborn
  <2>3. pushed' \in [Workers -> SUBSET Messages]
    BY <1>6 DEF Crash, Close
  <2>4. up' = FALSE /\ bound' \in BOOLEAN
    BY <1>6 DEF TypeRest, Crash, Close
  <2>5. /\ main' = "dial" /\ started' = 0 /\ declared' \in BOOLEAN /\ lock' = "free"
        /\ UNCHANGED <<conn, todo, audited, refused>>
    BY <1>6, Zenon DEF Crash
  <2> QED
    <3>1. main' \in {"dial", "create", "wait"} /\ conn' \in 0..MaxConns
      BY <2>5 DEF TypeRest
    <3>2. started' \in 0..Concurrency
      BY <2>5
    <3>3. lock' \in {"free", "signal"}
      BY <2>5
    <3>4. todo' \subseteq Messages /\ audited' \in [Messages -> Nat] /\ refused' \subseteq Messages
      BY <2>5 DEF TypeRest
    <3> QED
      BY <2>1, <2>2, <2>3, <2>4, <2>5, <3>1, <3>2, <3>3, <3>4 DEF TypeRest
<1>7. ASSUME NEW w \in Workers, Run(w) PROVE TypeRest'
  <2>1. CASE Consume(w)
    <3>1. worker' \in [Workers -> Worker]
      BY <2>1 DEF TypeRest, Consume, Goes, Worker
    <3> QED
      BY <2>1, <3>1 DEF TypeRest, Consume, InHand, Worker
  <2>2. CASE ConsumeFails(w)
    <3>1. worker' \in [Workers -> Worker]
      BY <2>2 DEF TypeRest, ConsumeFails, Goes, Worker
    <3> QED
      BY <2>2, <3>1 DEF TypeRest, ConsumeFails, InHand, Worker
  <2>3. CASE Stopped(w)
    <3>1. worker' \in [Workers -> Worker]
      <4>1. worker' = [worker EXCEPT ![w].at = "ended"]
        BY <2>3 DEF Stopped, Goes
      <4> QED
        BY <4>1 DEF TypeRest, Worker
    <3> QED
      BY <2>3, <3>1 DEF TypeRest, Stopped, InHand, Worker
  <2>4. CASE Process(w)
    <3>1. worker' \in [Workers -> Worker]
      BY <2>4 DEF TypeRest, Process, Goes, Worker
    <3> QED
      BY <2>4, <3>1 DEF TypeRest, Process, InHand, Worker
  <2>5. CASE ProcessFails(w)
    <3>1. worker' \in [Workers -> Worker]
      BY <2>5 DEF TypeRest, ProcessFails, Goes, Worker
    <3> QED
      BY <2>5, <3>1 DEF TypeRest, ProcessFails, InHand, Worker
  <2>6. CASE Ack(w)
    <3>1. worker' \in [Workers -> Worker]
      <4>1. worker' = [worker EXCEPT ![w].at = "select", ![w].got = None]
        BY <2>6 DEF Ack
      <4>2. [worker[w] EXCEPT !.at = "select", !.got = None] \in Worker
        BY DEF TypeRest, Worker
      <4> QED
        BY <4>1, <4>2 DEF TypeRest
    <3> QED
      BY <2>6, <3>1 DEF TypeRest, Ack, InHand, Worker
  <2>7. ASSUME NEW m \in Messages, Take(w, m) PROVE TypeRest'
    <3>1. worker' \in [Workers -> Worker]
      BY <2>7 DEF TypeRest, Take, Worker
    <3> QED
      BY <2>7, <3>1 DEF TypeRest, Take
  <2> QED
    BY <1>7, <2>1, <2>2, <2>3, <2>4, <2>5, <2>6, <2>7 DEF Run
<1>8. ASSUME NEW m \in Messages, Publish(m) PROVE TypeRest'
  BY <1>8 DEF TypeRest, Publish
<1> QED
  BY <1>1, <1>2, <1>3, <1>4, <1>5, <1>6, <1>7, <1>8 DEF Next

(* Every step keeps the order in which workers are made.                   *)
LEMMA OrderStep ==
  ASSUME TypeRest, MadeInOrder, [Next]_vars
  PROVE  MadeInOrder'
<1> USE WorkerAssumption
<1>1. CASE UNCHANGED vars
  BY <1>1 DEF MadeInOrder, vars
<1>2. CASE Dial
  <2>1. ASSUME NEW w \in Workers, Conn(w) > conn' \/ (Conn(w) = conn' /\ w[2] > started')
        PROVE  worker'[w].at = "unborn"
    <3>1. Conn(w) > conn
      BY <1>2, <2>1, WorkerNumbers DEF TypeRest, Dial
    <3> QED
      BY <1>2, <3>1 DEF MadeInOrder, Dial
  <2> QED
    BY <1>2, <2>1 DEF TypeRest, MadeInOrder, Dial
<1>3. CASE RecoverableWorker
  <2>1. ASSUME NEW w \in Workers, Conn(w) > conn' \/ (Conn(w) = conn' /\ w[2] > started')
        PROVE  worker'[w].at = "unborn"
    <3>1. w # <<conn, started + 1>>
      BY <1>3, <2>1, WorkerNumbers DEF TypeRest, RecoverableWorker, Creates, Conn
    <3>2. Conn(w) > conn \/ (Conn(w) = conn /\ w[2] > started)
      BY <1>3, <2>1, WorkerNumbers DEF TypeRest, RecoverableWorker, Creates
    <3> QED
      BY <1>3, <3>1, <3>2 DEF TypeRest, MadeInOrder, RecoverableWorker, Goes
  <2> QED
    BY <1>3, <2>1 DEF MadeInOrder, RecoverableWorker, Creates
<1>4. CASE RecoverableWorkerFails
  <2>1. ASSUME NEW w \in Workers, w[2] > started' PROVE w[2] > started
    BY <1>4, <2>1, WorkerNumbers DEF TypeRest, RecoverableWorkerFails, Creates
  <2> QED
    BY <1>4, <2>1 DEF MadeInOrder, RecoverableWorkerFails, Creates
<1>12. CASE WaitGroup
  BY <1>12 DEF MadeInOrder, WaitGroup
<1>5. CASE Reconnect
  <2>1. \A w \in Workers : worker'[w].at = worker[w].at
    BY <1>5 DEF TypeRest, Reconnect, Worker
  <2> QED
    BY <1>5, <2>1 DEF MadeInOrder, Reconnect
<1>6. CASE Signal
  BY <1>6 DEF MadeInOrder, Signal
<1>7. CASE Delivers
  <2>1. PICK w \in Workers, m \in Messages : Deliver(w, m)
    BY <1>7 DEF Delivers
  <2>2. worker[w].at # "unborn"
    BY <2>1 DEF Deliver
  <2>3. \A v \in Workers : v # w => worker'[v] = worker[v]
    BY <2>1 DEF TypeRest, Deliver
  <2> QED
    BY <2>1, <2>2, <2>3 DEF MadeInOrder, Deliver
<1>8. CASE ConnectionLost
  <2>1. \A w \in Workers : worker'[w].at = worker[w].at
    BY <1>8 DEF TypeRest, ConnectionLost, Worker
  <2>2. up' = FALSE /\ UNCHANGED <<main, conn, started>>
    BY <1>8 DEF ConnectionLost, Close
  <2> QED
    BY <2>1, <2>2 DEF MadeInOrder
<1>9. CASE Crash
  <2>1. main' = "dial" /\ up' = FALSE
    BY <1>9 DEF Crash, Close
  <2>2. \A w \in Workers : worker'[w].at = "unborn"
    BY <1>9 DEF Crash, Unborn
  <2> QED
    BY <2>1, <2>2 DEF MadeInOrder
<1>10. ASSUME NEW w \in Workers, Run(w) PROVE MadeInOrder'
  <2>1. worker[w].at # "unborn"
    BY <1>10 DEF Run, Consume, ConsumeFails, Stopped, Process, ProcessFails, Ack, Take
  <2>3. \A v \in Workers : v # w => worker'[v] = worker[v]
    BY <1>10 DEF TypeRest, Run, Consume, ConsumeFails, Stopped, Process, ProcessFails, Ack, Take, Goes
  <2>4. UNCHANGED <<main, conn, up, started>>
    BY <1>10 DEF Run, Consume, ConsumeFails, Stopped, Process, ProcessFails, Ack, Take
  <2> QED
    BY <2>1, <2>3, <2>4 DEF MadeInOrder
<1>11. ASSUME NEW m \in Messages, Publish(m) PROVE MadeInOrder'
  BY <1>11 DEF MadeInOrder, Publish
<1> QED
  BY <1>1, <1>2, <1>3, <1>4, <1>5, <1>6, <1>7, <1>8, <1>9, <1>10, <1>11, <1>12 DEF Next, Loop

(* The failed workers of a connection are finite in number.              *)
LEMMA FailedFinite == IsFiniteSet(FailedNow) /\ Cardinality(FailedNow) <= Concurrency
<1>1. IsFiniteSet(1..Concurrency) /\ Cardinality(1..Concurrency) = Concurrency
  BY WorkerAssumption, FS_Interval
<1>2. FailedNow \in SUBSET (1..Concurrency)
  BY DEF FailedNow
<1> QED
  BY <1>1, <1>2, FS_Subset

(* What does not touch the failed workers of the connection keeps the      *)
(* count.                                                                  *)
LEMMA CountKept ==
  ASSUME Counted, UNCHANGED <<conn, waits>>,
         \A w \in Workers : worker'[w].at = "failed" <=> worker[w].at = "failed"
  PROVE  Counted'
<1>1. FailedNow' = FailedNow
  BY DEF FailedNow
<1> QED
  BY <1>1 DEF Counted

(* Every step keeps the count.                                             *)
LEMMA CountStep ==
  ASSUME TypeRest, MadeInOrder, Counted, [Next]_vars
  PROVE  Counted'
<1> USE WorkerAssumption
<1>1. CASE UNCHANGED vars
  BY <1>1, CountKept DEF vars
<1>2. CASE Dial
  <2>1. ASSUME NEW k \in 1..Concurrency, <<conn', k>> \in Workers PROVE worker'[<<conn', k>>].at # "failed"
    <3>1. Conn(<<conn', k>>) > conn
      BY <1>2 DEF TypeRest, Dial, Conn
    <3> QED
      BY <1>2, <2>1, <3>1 DEF MadeInOrder, Dial
  <2>2. FailedNow' = {}
    BY <2>1 DEF FailedNow
  <2> QED
    BY <1>2, <2>2, FS_EmptySet DEF Counted, Dial
<1>3. CASE RecoverableWorker
  <2> DEFINE new == <<conn, started + 1>>
  <2>1. new \in Workers => worker[new].at # "failed"
    <3>1. Conn(new) = conn /\ new[2] > started
      BY <1>3 DEF TypeRest, Creates, RecoverableWorker, Conn
    <3> QED
      BY <3>1 DEF MadeInOrder
  <2>2. \A w \in Workers : worker'[w].at = "failed" <=> worker[w].at = "failed"
    BY <1>3, <2>1 DEF TypeRest, RecoverableWorker, Goes, Worker
  <2> QED
    BY <1>3, <2>2, CountKept DEF RecoverableWorker
<1>4. CASE RecoverableWorkerFails \/ WaitGroup
  BY <1>4, CountKept DEF RecoverableWorkerFails, WaitGroup
<1>5. CASE Reconnect
  <2>1. \A w \in Workers : worker'[w].at = worker[w].at
    BY <1>5 DEF TypeRest, Reconnect, Worker
  <2> QED
    BY <1>5, <2>1, CountKept DEF Reconnect
<1>6. CASE Signal
  BY <1>6, CountKept DEF Signal
<1>7. CASE Delivers
  <2>1. PICK v \in Workers, m \in Messages : Deliver(v, m)
    BY <1>7 DEF Delivers
  <2>2. \A w \in Workers : worker'[w].at = worker[w].at
    BY <2>1 DEF TypeRest, Deliver, Worker
  <2> QED
    BY <2>1, <2>2, CountKept DEF Deliver
<1>8. CASE ConnectionLost
  <2>1. \A w \in Workers : worker'[w].at = worker[w].at
    BY <1>8 DEF TypeRest, ConnectionLost, Worker
  <2> QED
    BY <1>8, <2>1, CountKept DEF ConnectionLost
<1>9. CASE Crash
  <2>1. \A w \in Workers : worker'[w].at = "unborn"
    BY <1>9 DEF Crash, Unborn
  <2>2. FailedNow' = {}
    BY <2>1 DEF FailedNow
  <2> QED
    BY <1>9, <2>2, FS_EmptySet DEF Counted, Crash
<1>10. ASSUME NEW w \in Workers, Run(w) PROVE Counted'
  <2>1. CASE ConsumeFails(w)
    <3>1. /\ worker[w].at = "run"
          /\ worker'[w].at = "failed"
          /\ \A v \in Workers : v # w => worker'[v] = worker[v]
          /\ conn' = conn
      BY <2>1 DEF TypeRest, ConsumeFails, Goes, Worker
    <3>2. CASE Conn(w) = conn
      <4>1. w = <<conn, w[2]>> /\ w[2] \in 1..Concurrency
        BY <3>2, WorkersPairs, WorkerNumbers
      <4>2. w[2] \notin FailedNow
        BY <3>1, <4>1 DEF FailedNow
      <4>3. \A k \in 1..Concurrency : k # w[2] => <<conn, k>> # w
        BY <4>1
      <4>4. FailedNow' = FailedNow \cup {w[2]}
        BY <3>1, <4>1, <4>3 DEF FailedNow
      <4>5. IsFiniteSet(FailedNow)
        BY FailedFinite
      <4>6. Cardinality(FailedNow') = Cardinality(FailedNow) + 1
        BY <4>2, <4>4, <4>5, FS_AddElement
      <4> QED
        BY <2>1, <3>2, <4>6 DEF Counted, ConsumeFails
    <3>3. CASE Conn(w) # conn
      <4>1. \A k \in 1..Concurrency : <<conn, k>> # w
        BY <3>3 DEF Conn
      <4>2. FailedNow' = FailedNow
        BY <3>1, <4>1 DEF FailedNow
      <4> QED
        BY <2>1, <3>3, <4>2 DEF Counted, ConsumeFails
    <3> QED
      BY <3>2, <3>3
  <2>2. CASE ~ConsumeFails(w)
    <3>1. \A v \in Workers : v # w => worker'[v] = worker[v]
      BY <1>10 DEF TypeRest, Run, Consume, ConsumeFails, Stopped, Process, ProcessFails, Ack, Take, Goes
    <3>2. worker[w].at \in {"run", "select", "process", "ack"}
      BY <1>10 DEF Run, Consume, ConsumeFails, Stopped, Process, ProcessFails, Ack, Take
    <3>3. worker'[w].at \in {"select", "ended", "process", "ack"}
      <4>1. CASE Consume(w)
        BY <4>1 DEF TypeRest, Consume, Goes, Worker
      <4>2. CASE Stopped(w)
        BY <4>2 DEF TypeRest, Stopped, Goes, Worker
      <4>3. CASE Process(w)
        BY <4>3 DEF TypeRest, Process, Goes, Worker
      <4>4. CASE ProcessFails(w)
        BY <4>4 DEF TypeRest, ProcessFails, Goes, Worker
      <4>5. CASE Ack(w)
        BY <4>5 DEF TypeRest, Ack, Worker
      <4>6. ASSUME NEW m \in Messages, Take(w, m) PROVE worker'[w].at = "process"
        BY <4>6 DEF TypeRest, Take, Worker
      <4> QED
        BY <1>10, <2>2, <4>1, <4>2, <4>3, <4>4, <4>5, <4>6 DEF Run
    <3>4. UNCHANGED <<conn, waits>>
      BY <1>10, <2>2 DEF Run, Consume, Stopped, Process, ProcessFails, Ack, Take
    <3> QED
      BY <3>1, <3>2, <3>3, <3>4, CountKept
  <2> QED
    BY <2>1, <2>2
<1>11. ASSUME NEW m \in Messages, Publish(m) PROVE Counted'
  BY <1>11, CountKept DEF Publish
<1> QED
  BY <1>1, <1>2, <1>3, <1>4, <1>5, <1>6, <1>7, <1>8, <1>9, <1>10, <1>11 DEF Next, Loop

(* The counter stays within the number of consumers.                       *)
LEMMA CountBound ==
  ASSUME Counted
  PROVE  waits \in 0..Concurrency
<1>1. Cardinality(FailedNow) \in Nat
  BY FailedFinite, FS_CardinalityType
<1> QED
  BY <1>1, FailedFinite, WorkerAssumption DEF Counted

(***************************************************************************)
(* What the steps do to the workers, field by field.                       *)
(***************************************************************************)
(* A worker goes on to another place of its code.                        *)
LEMMA GoesEffect ==
  ASSUME TypeRest, NEW w \in Workers, NEW at, Goes(w, at)
  PROVE  /\ worker'[w].at = at
         /\ worker'[w].got = worker[w].got
         /\ worker'[w].buffer = worker[w].buffer
         /\ worker'[w].stop = worker[w].stop
         /\ \A v \in Workers : v # w => worker'[v] = worker[v]
<1>1. worker[w] \in Worker
  BY DEF TypeRest
<1>2. worker'[w] = [worker[w] EXCEPT !.at = at]
  BY DEF TypeRest, Goes
<1>3. \A v \in Workers : v # w => worker'[v] = worker[v]
  BY DEF TypeRest, Goes
<1> QED
  BY <1>1, <1>2, <1>3 DEF Worker

(* A delivery goes from the buffer into the hands of the worker.         *)
LEMMA TakeEffect ==
  ASSUME TypeRest, NEW w \in Workers, NEW m \in Messages, Take(w, m)
  PROVE  /\ worker'[w].at = "process"
         /\ worker'[w].got = m
         /\ worker'[w].buffer = worker[w].buffer \ {m}
         /\ worker'[w].stop = worker[w].stop
         /\ \A v \in Workers : v # w => worker'[v] = worker[v]
<1>1. worker[w] \in Worker
  BY DEF TypeRest
<1>2. worker'[w] = [worker[w] EXCEPT !.at = "process", !.got = m, !.buffer = worker[w].buffer \ {m}]
  BY DEF TypeRest, Take
<1>3. \A v \in Workers : v # w => worker'[v] = worker[v]
  BY DEF TypeRest, Take
<1> QED
  BY <1>1, <1>2, <1>3 DEF Worker

(* The worker goes back to its select with empty hands.                  *)
LEMMA AckEffect ==
  ASSUME TypeRest, NEW w \in Workers, Ack(w)
  PROVE  /\ worker'[w].at = "select"
         /\ worker'[w].got = None
         /\ worker'[w].buffer = worker[w].buffer
         /\ worker'[w].stop = worker[w].stop
         /\ \A v \in Workers : v # w => worker'[v] = worker[v]
<1>1. worker[w] \in Worker
  BY DEF TypeRest
<1>2. worker'[w] = [worker[w] EXCEPT !.at = "select", !.got = None]
  BY DEF TypeRest, Ack
<1>3. \A v \in Workers : v # w => worker'[v] = worker[v]
  BY DEF TypeRest, Ack
<1> QED
  BY <1>1, <1>2, <1>3 DEF Worker

(* A delivery enters the buffer of its worker.                           *)
LEMMA DeliverEffect ==
  ASSUME TypeRest, NEW w \in Workers, NEW m \in Messages, Deliver(w, m)
  PROVE  /\ worker'[w].at = worker[w].at
         /\ worker'[w].got = worker[w].got
         /\ worker'[w].buffer = worker[w].buffer \cup {m}
         /\ worker'[w].stop = worker[w].stop
         /\ \A v \in Workers : v # w => worker'[v] = worker[v]
<1>1. worker[w] \in Worker
  BY DEF TypeRest
<1>2. worker'[w] = [worker[w] EXCEPT !.buffer = worker[w].buffer \cup {m}]
  BY DEF TypeRest, Deliver
<1>3. \A v \in Workers : v # w => worker'[v] = worker[v]
  BY DEF TypeRest, Deliver
<1> QED
  BY <1>1, <1>2, <1>3 DEF Worker

(* The loss of the connection empties the buffers, and nothing else.     *)
LEMMA LostEffect ==
  ASSUME TypeRest, ConnectionLost, NEW w \in Workers
  PROVE  /\ worker'[w].at = worker[w].at
         /\ worker'[w].got = worker[w].got
         /\ worker'[w].buffer = {}
         /\ worker'[w].stop = worker[w].stop
<1>1. worker[w] \in Worker
  BY DEF TypeRest
<1>2. worker'[w] = [worker[w] EXCEPT !.buffer = {}]
  BY DEF ConnectionLost
<1> QED
  BY <1>1, <1>2 DEF Worker

(* The loop closes the stop channels of the connection it has lost.      *)
LEMMA ReconnectEffect ==
  ASSUME TypeRest, Reconnect, NEW w \in Workers
  PROVE  /\ worker'[w].at = worker[w].at
         /\ worker'[w].got = worker[w].got
         /\ worker'[w].buffer = worker[w].buffer
         /\ worker[w].stop => worker'[w].stop
         /\ Conn(w) = conn /\ worker[w].at # "unborn" => worker'[w].stop
<1> DEFINE told == worker[w].stop \/ (Conn(w) = conn /\ worker[w].at # "unborn")
<1>1. worker[w] \in Worker
  BY DEF TypeRest
<1>2. worker'[w] = [worker[w] EXCEPT !.stop = told]
  BY DEF Reconnect
<1>3. worker'[w].stop = told
  <2> HIDE DEF told
  <2> QED
    BY <1>1, <1>2 DEF Worker
<1>4. worker'[w].at = worker[w].at /\ worker'[w].got = worker[w].got /\ worker'[w].buffer = worker[w].buffer
  <2> HIDE DEF told
  <2> QED
    BY <1>1, <1>2 DEF Worker
<1>5. told => worker'[w].stop
  BY <1>3, Zenon
<1> QED
  BY <1>4, <1>5

(* A crash leaves no worker.                                             *)
LEMMA CrashEffect ==
  ASSUME Crash, NEW w \in Workers
  PROVE  worker'[w].at = "unborn" /\ worker'[w].buffer = {}
  BY DEF Crash, Unborn

(* A worker of the open connection is one after a step that keeps both.    *)
LEMMA LiveKept ==
  ASSUME UNCHANGED <<up, conn>>
  PROVE  \A w \in Workers : Live(w)' <=> Live(w)
  BY DEF Live, Conn

(***************************************************************************)
(* The smaller invariants.                                                 *)
(***************************************************************************)
(* Every step leaves a message in the hands of those who process one.      *)
LEMMA InHandStep ==
  ASSUME TypeRest, InHand, [Next]_vars
  PROVE  InHand'
<1>1. CASE UNCHANGED vars
  BY <1>1 DEF InHand, vars
<1>2. CASE Dial \/ RecoverableWorkerFails \/ WaitGroup \/ Signal
  BY <1>2 DEF InHand, Dial, RecoverableWorkerFails, WaitGroup, Signal
<1>3. CASE RecoverableWorker
  <2> DEFINE new == <<conn, started + 1>>
  <2>1. ASSUME NEW v \in Workers PROVE worker'[v] = worker[v] \/ worker'[v].at = "run"
    BY <1>3 DEF TypeRest, RecoverableWorker, Goes, Worker
  <2> QED
    BY <2>1 DEF InHand
<1>4. CASE Reconnect
  BY <1>4, ReconnectEffect DEF InHand
<1>5. CASE Delivers
  <2>1. PICK v \in Workers, m \in Messages : Deliver(v, m)
    BY <1>5 DEF Delivers
  <2> QED
    BY <2>1, DeliverEffect DEF InHand
<1>6. CASE ConnectionLost
  BY <1>6, LostEffect DEF InHand
<1>7. CASE Crash
  BY <1>7, CrashEffect DEF InHand
<1>8. ASSUME NEW w \in Workers, Run(w) PROVE InHand'
  <2>1. CASE Consume(w) \/ ConsumeFails(w) \/ Stopped(w)
    <3>1. PICK at \in {"select", "failed", "ended"} : Goes(w, at)
      BY <2>1 DEF Consume, ConsumeFails, Stopped
    <3> QED
      BY <3>1, GoesEffect DEF InHand
  <2>2. CASE Process(w) \/ ProcessFails(w)
    <3>1. Goes(w, "ack") /\ worker[w].at = "process"
      BY <2>2 DEF Process, ProcessFails
    <3> QED
      BY <3>1, GoesEffect DEF InHand
  <2>3. CASE Ack(w)
    BY <2>3, AckEffect DEF InHand
  <2>4. ASSUME NEW m \in Messages, Take(w, m) PROVE InHand'
    BY <2>4, TakeEffect, WorkerAssumption DEF InHand
  <2> QED
    BY <1>8, <2>1, <2>2, <2>3, <2>4 DEF Run
<1>9. ASSUME NEW m \in Messages, Publish(m) PROVE InHand'
  BY <1>9 DEF InHand, Publish
<1> QED
  BY <1>1, <1>2, <1>3, <1>4, <1>5, <1>6, <1>7, <1>8, <1>9 DEF Next, Loop

(* Every step leaves the workers of lost connections stopped.              *)
LEMMA StoppedStep ==
  ASSUME TypeRest, MadeInOrder, StaleAreStopped, [Next]_vars
  PROVE  StaleAreStopped'
<1>1. CASE UNCHANGED vars
  BY <1>1 DEF StaleAreStopped, vars, Conn
<1>2. CASE Dial
  <2>1. \A w \in Workers : Conn(w) < conn + 1 \/ ~(Conn(w) < conn + 1)
    OBVIOUS
  <2> QED
    BY <1>2 DEF StaleAreStopped, Dial
<1>3. CASE RecoverableWorker
  <2> DEFINE new == <<conn, started + 1>>
  <2>1. \A v \in Workers : v # new => worker'[v] = worker[v]
    BY <1>3 DEF TypeRest, RecoverableWorker, Goes
  <2>2. ~(Conn(new) < conn)
    BY DEF TypeRest, Conn
  <2> QED
    BY <1>3, <2>1, <2>2 DEF StaleAreStopped, RecoverableWorker, Creates
<1>4. CASE RecoverableWorkerFails \/ WaitGroup \/ Signal
  BY <1>4 DEF StaleAreStopped, RecoverableWorkerFails, WaitGroup, Signal
<1>5. CASE Reconnect
  <2>1. ASSUME NEW w \in Workers, worker'[w].at \in {"run", "select", "process", "ack"}
        PROVE  worker'[w].stop
    <3>1. worker[w].at \in {"run", "select", "process", "ack"}
      BY <1>5, <2>1, ReconnectEffect
    <3>2. ~(Conn(w) > conn)
      BY <3>1 DEF MadeInOrder
    <3>3. Conn(w) < conn \/ Conn(w) = conn
      BY <3>2, WorkerNumbers DEF TypeRest
    <3> QED
      BY <1>5, <3>1, <3>3, ReconnectEffect DEF StaleAreStopped
  <2> QED
    BY <2>1 DEF StaleAreStopped
<1>6. CASE Delivers
  <2>1. PICK v \in Workers, m \in Messages : Deliver(v, m)
    BY <1>6 DEF Delivers
  <2>2. UNCHANGED <<main, conn>>
    BY <2>1 DEF Deliver
  <2> QED
    BY <2>1, <2>2, DeliverEffect DEF StaleAreStopped
<1>7. CASE ConnectionLost
  <2>1. UNCHANGED <<main, conn>>
    BY <1>7 DEF ConnectionLost
  <2> QED
    BY <1>7, <2>1, LostEffect DEF StaleAreStopped
<1>8. CASE Crash
  BY <1>8, CrashEffect DEF StaleAreStopped
<1>9. ASSUME NEW w \in Workers, Run(w) PROVE StaleAreStopped'
  <2>1. UNCHANGED <<main, conn>> /\ worker[w].at \in {"run", "select", "process", "ack"}
    BY <1>9 DEF Run, Consume, ConsumeFails, Stopped, Process, ProcessFails, Ack, Take
  <2>2. worker'[w].stop = worker[w].stop /\ \A v \in Workers : v # w => worker'[v] = worker[v]
    BY <1>9, GoesEffect, TakeEffect, AckEffect DEF Run, Consume, ConsumeFails, Stopped, Process, ProcessFails
  <2> QED
    BY <2>1, <2>2 DEF StaleAreStopped
<1>10. ASSUME NEW m \in Messages, Publish(m) PROVE StaleAreStopped'
  BY <1>10 DEF StaleAreStopped, Publish
<1> QED
  BY <1>1, <1>2, <1>3, <1>4, <1>5, <1>6, <1>7, <1>8, <1>9, <1>10 DEF Next, Loop

(* Every step acknowledges after the message was settled.                  *)
LEMMA AckedStep ==
  ASSUME TypeRest, InHand, AckedIsSettled, [Next]_vars
  PROVE  /\ AckedIsSettled'
         /\ \A m \in Messages : Settled(m) => Settled(m)'
<1>1. ASSUME NEW w \in Workers, Process(w) \/ ProcessFails(w)
      PROVE  /\ \A m \in Messages : Settled(m) => Settled(m)'
             /\ Settled(worker[w].got)'
             /\ Goes(w, "ack")
  <2>1. worker[w].got \in Messages
    BY <1>1 DEF TypeRest, InHand, Worker, Process, ProcessFails
  <2>2. Goes(w, "ack")
    BY <1>1 DEF Process, ProcessFails
  <2>3. worker'[w].got = worker[w].got
    BY <2>2, GoesEffect
  <2>4. \A m \in Messages : audited'[m] >= audited[m]
    BY <1>1 DEF TypeRest, Process, ProcessFails
  <2>5. refused \subseteq refused'
    BY <1>1 DEF Process, ProcessFails
  <2>6. audited'[worker[w].got] = audited[worker[w].got] + 1 \/ worker[w].got \in refused'
    BY <1>1, <2>1 DEF TypeRest, Process, ProcessFails
  <2>7. \A m \in Messages : audited[m] \in Nat /\ audited'[m] \in Int
    BY <1>1 DEF TypeRest, Process, ProcessFails
  <2> QED
    BY <2>1, <2>2, <2>3, <2>4, <2>5, <2>6, <2>7 DEF Settled
<1>2. CASE \E w \in Workers : Process(w) \/ ProcessFails(w)
  <2>1. PICK w \in Workers : Process(w) \/ ProcessFails(w)
    BY <1>2
  <2>2. \A v \in Workers : worker[v].at = "ack" => worker[v].got \in Messages
    BY DEF TypeRest, InHand, Worker
  <2> QED
    BY <1>1, <2>1, <2>2, GoesEffect DEF AckedIsSettled
<1>3. CASE ~\E w \in Workers : Process(w) \/ ProcessFails(w)
  <2>1. UNCHANGED <<audited, refused>>
    BY <1>3 DEF Next, vars, Loop, Dial, RecoverableWorker, RecoverableWorkerFails, WaitGroup, Reconnect,
                Signal, Delivers, Deliver, ConnectionLost, Crash, Run, Consume, ConsumeFails, Stopped,
                Ack, Take, Publish
  <2>2. \A v \in Workers : worker'[v].at = "ack" => worker[v].at = "ack" /\ worker'[v].got = worker[v].got
    <3>1. CASE UNCHANGED worker
      BY <3>1
    <3>2. CASE RecoverableWorker
      BY <3>2 DEF TypeRest, RecoverableWorker, Goes, Worker
    <3>3. CASE Reconnect
      BY <3>3, ReconnectEffect
    <3>4. CASE ConnectionLost
      BY <3>4, LostEffect
    <3>5. CASE Crash
      BY <3>5, CrashEffect
    <3>6. ASSUME NEW w \in Workers, NEW m \in Messages, Deliver(w, m) \/ Take(w, m)
          PROVE  \A v \in Workers : worker'[v].at = "ack" =>
                   worker[v].at = "ack" /\ worker'[v].got = worker[v].got
      BY <3>6, DeliverEffect, TakeEffect
    <3>7. ASSUME NEW w \in Workers, NEW at \in {"select", "failed", "ended"}, Goes(w, at) \/ Ack(w)
          PROVE  \A v \in Workers : worker'[v].at = "ack" =>
                   worker[v].at = "ack" /\ worker'[v].got = worker[v].got
      BY <3>7, GoesEffect, AckEffect
    <3> QED
      BY <1>3, <3>1, <3>2, <3>3, <3>4, <3>5, <3>6, <3>7
      DEF Next, vars, Loop, Dial, RecoverableWorkerFails, WaitGroup, Signal, Delivers, Run, Consume,
          ConsumeFails, Stopped, Publish
  <2> QED
    BY <2>1, <2>2 DEF AckedIsSettled, Settled
<1> QED
  BY <1>2, <1>3

(* What the loss of the connection does to the broker.                     *)
LEMMA CloseEffect ==
  ASSUME TypeRest, NEW keeps \in BOOLEAN, Close(keeps)
  PROVE  /\ up' = FALSE
         /\ \A w \in Workers : pushed'[w] = {}
         /\ lost \subseteq lost'
         /\ \A m \in ready : m \in ready' \cup lost'
         /\ \A w \in Workers : \A m \in pushed[w] : m \in ready' \cup lost'
         /\ \A m \in ready' : m \in ready \/ \E w \in Workers : m \in pushed[w]
<1>1. up' = FALSE /\ \A w \in Workers : pushed'[w] = {}
  BY DEF Close
<1> DEFINE held == ready \cup UNION {pushed[w] : w \in Workers}
<1>2. \/ ready' = held /\ lost' = lost
      \/ ready' = {} /\ lost' = lost \cup held
  BY DEF Close
<1>3. \A m : m \in held <=> m \in ready \/ \E w \in Workers : m \in pushed[w]
  OBVIOUS
<1> HIDE DEF held
<1> QED
  BY <1>1, <1>2, <1>3

(* Both ways to lose the connection are a Close.                         *)
LEMMA LossEffect ==
  ASSUME TypeRest, ConnectionLost \/ Crash
  PROVE  \E keeps \in BOOLEAN : Close(keeps) /\ UNCHANGED <<conn, todo, audited, refused>>
  BY DEF ConnectionLost, Crash

(* Every step leaves deliveries with the open connection alone.            *)
LEMMA PushedStep ==
  ASSUME TypeRest, MadeInOrder, PushedIsLive, [Next]_vars
  PROVE  PushedIsLive'
<1>1. CASE UNCHANGED <<up, conn, pushed>>
  BY <1>1 DEF PushedIsLive, Live, Conn
<1>2. CASE Dial
  <2>1. ~up
    BY <1>2 DEF MadeInOrder, Dial
  <2> QED
    BY <1>2, <2>1 DEF PushedIsLive, Live, Dial
<1>3. CASE ConnectionLost \/ Crash
  BY <1>3, LossEffect, CloseEffect DEF PushedIsLive
<1>4. ASSUME NEW w \in Workers, NEW m \in Messages, Deliver(w, m) PROVE PushedIsLive'
  <2>1. \A v \in Workers : v # w => pushed'[v] = pushed[v]
    BY <1>4 DEF TypeRest, Deliver
  <2> QED
    BY <1>4, <2>1 DEF PushedIsLive, Live, Conn, Deliver
<1>5. ASSUME NEW w \in Workers, Ack(w) PROVE PushedIsLive'
  <2>1. \A v \in Workers : pushed'[v] \subseteq pushed[v]
    BY <1>5 DEF TypeRest, Ack
  <2> QED
    BY <1>5, <2>1 DEF PushedIsLive, Live, Conn, Ack
<1> QED
  BY <1>1, <1>2, <1>3, <1>4, <1>5
  DEF Next, vars, Loop, RecoverableWorker, RecoverableWorkerFails, WaitGroup, Reconnect, Signal, Delivers,
      Run, Consume, ConsumeFails, Stopped, Process, ProcessFails, Take, Publish

(* Every step leaves a message where it is found, or settles it.           *)
LEMMA KeptStep ==
  ASSUME TypeRest, MadeInOrder, InHand, AckedIsSettled, PushedIsLive, NothingIsLost, [Next]_vars
  PROVE  NothingIsLost'
<1> DEFINE Found(m) == m \in ready \/ (\E w \in Workers : m \in pushed[w]) \/ Settled(m)
<1>1. \A m \in Messages \ (todo \cup lost) : Found(m)
  BY DEF NothingIsLost
<1>2. \A m \in Messages : Settled(m) => Settled(m)'
  BY AckedStep
<1>3. ASSUME NEW m \in Messages \ (todo' \cup lost') PROVE Found(m)'
  <2>1. CASE UNCHANGED <<ready, pushed, todo, lost>>
    BY <1>1, <1>2, <2>1
  <2>2. CASE ConnectionLost \/ Crash
    <3>1. PICK keeps \in BOOLEAN : Close(keeps) /\ todo' = todo
      BY <2>2, LossEffect
    <3>2. Found(m)
      BY <1>1, <3>1, CloseEffect
    <3> QED
      BY <1>2, <3>1, <3>2, CloseEffect
  <2>3. ASSUME NEW w \in Workers, NEW d \in Messages, Deliver(w, d) PROVE Found(m)'
    <3>1. Found(m)
      BY <1>1, <2>3 DEF Deliver
    <3>2. pushed'[w] = pushed[w] \cup {d} /\ \A v \in Workers : v # w => pushed'[v] = pushed[v]
      BY <2>3 DEF TypeRest, Deliver
    <3>3. ready' = ready \ {d}
      BY <2>3 DEF Deliver
    <3> QED
      BY <1>2, <3>1, <3>2, <3>3
  <2>4. ASSUME NEW w \in Workers, Ack(w) PROVE Found(m)'
    <3>1. Found(m)
      BY <1>1, <2>4 DEF Ack
    <3>2. /\ pushed'[w] = pushed[w] \ {worker[w].got}
          /\ \A v \in Workers : v # w => pushed'[v] = pushed[v]
          /\ ready' = ready
      BY <2>4 DEF TypeRest, Ack
    <3>3. Settled(worker[w].got)
      BY <2>4 DEF AckedIsSettled, Ack
    <3> QED
      BY <1>2, <3>1, <3>2, <3>3
  <2>5. ASSUME NEW d \in Messages, Publish(d) PROVE Found(m)'
    <3>1. m # d => Found(m)
      BY <1>1, <2>5 DEF Publish
    <3>2. pushed' = pushed /\ ready \subseteq ready'
      BY <2>5 DEF Publish
    <3>3. d \in ready' \cup lost'
      BY <2>5 DEF Publish
    <3> QED
      BY <1>2, <3>1, <3>2, <3>3
  <2> QED
    BY <2>1, <2>2, <2>3, <2>4, <2>5
    DEF Next, vars, Loop, Dial, RecoverableWorker, RecoverableWorkerFails, WaitGroup, Reconnect, Signal,
        Delivers, Run, Consume, ConsumeFails, Stopped, Process, ProcessFails, Take
<1>4. PushedIsLive'
  BY PushedStep
<1> QED
  BY <1>3, <1>4 DEF NothingIsLost, PushedIsLive

(* Every step leaves a message in one place.                               *)
LEMMA PlaceStep ==
  ASSUME TypeRest, MadeInOrder, InHand, PushedIsLive, OnePlace, [Next]_vars
  PROVE  OnePlace'
<1>1. CASE UNCHANGED <<up, conn, worker, ready, pushed, todo>>
  BY <1>1, LiveKept DEF OnePlace
<1>2. CASE Dial
  <2>1. \A w \in Workers : ~Live(w)
    BY <1>2 DEF MadeInOrder, Dial, Live
  <2>2. \A w \in Workers : Live(w)' => worker[w].at = "unborn"
    <3>1. ASSUME NEW w \in Workers, Live(w)' PROVE Conn(w) > conn
      BY <1>2, <3>1 DEF TypeRest, Dial, Live, Conn
    <3> QED
      BY <3>1 DEF MadeInOrder
  <2>3. UNCHANGED <<worker, ready, pushed, todo>>
    BY <1>2 DEF Dial
  <2>4. \A w \in Workers : worker[w].buffer = {}
    BY <2>1 DEF OnePlace
  <2> QED
    BY <2>1, <2>2, <2>3, <2>4 DEF OnePlace
<1>3. CASE RecoverableWorker
  <2> DEFINE new == <<conn, started + 1>>
  <2>1. UNCHANGED <<up, conn, ready, pushed, todo>>
    BY <1>3 DEF RecoverableWorker
  <2>2. ASSUME NEW v \in Workers
        PROVE  worker'[v] = worker[v] \/ (worker'[v].at = "run" /\ worker'[v].buffer = worker[v].buffer)
    BY <1>3 DEF TypeRest, RecoverableWorker, Goes, Worker
  <2> QED
    BY <2>1, <2>2, LiveKept DEF OnePlace
<1>4. CASE Reconnect
  <2>1. UNCHANGED <<up, conn, ready, pushed, todo>>
    BY <1>4 DEF Reconnect
  <2> QED
    BY <1>4, <2>1, ReconnectEffect, LiveKept DEF OnePlace
<1>5. CASE ConnectionLost \/ Crash
  <2>1. PICK keeps \in BOOLEAN : Close(keeps) /\ todo' = todo
    BY <1>5, LossEffect
  <2>2. \A w \in Workers : worker'[w].buffer = {}
    BY <1>5, LostEffect, CrashEffect
  <2>3. up' = FALSE /\ \A w \in Workers : pushed'[w] = {}
    BY <2>1, CloseEffect
  <2>4. ready' \cap todo' = {}
    BY <2>1, CloseEffect DEF OnePlace
  <2> QED
    BY <2>2, <2>3, <2>4 DEF OnePlace, Live
<1>6. ASSUME NEW w \in Workers, NEW m \in Messages, Deliver(w, m) PROVE OnePlace'
  <2>1. Live(w) /\ m \in ready /\ ready' = ready \ {m} /\ UNCHANGED <<up, conn, todo>>
    BY <1>6 DEF Deliver
  <2>2. pushed'[w] = pushed[w] \cup {m} /\ \A v \in Workers : v # w => pushed'[v] = pushed[v]
    BY <1>6 DEF TypeRest, Deliver
  <2>3. worker[w].at \in {"process", "ack"} => worker[w].got # m
    BY <2>1 DEF OnePlace
  <2> QED
    BY <1>6, <2>1, <2>2, <2>3, DeliverEffect, LiveKept DEF OnePlace
<1>7. ASSUME NEW w \in Workers, Run(w) PROVE OnePlace'
  <2>0. UNCHANGED <<up, conn, ready, todo>>
    BY <1>7 DEF Run, Consume, ConsumeFails, Stopped, Process, ProcessFails, Ack, Take
  <2>1. CASE Consume(w) \/ ConsumeFails(w) \/ Stopped(w)
    <3>1. PICK at \in {"select", "failed", "ended"} : Goes(w, at) /\ pushed' = pushed
      BY <2>1 DEF Consume, ConsumeFails, Stopped
    <3> QED
      BY <2>0, <3>1, GoesEffect, LiveKept DEF OnePlace
  <2>2. CASE Process(w) \/ ProcessFails(w)
    <3>1. Goes(w, "ack") /\ worker[w].at = "process" /\ pushed' = pushed
      BY <2>2 DEF Process, ProcessFails
    <3> QED
      BY <2>0, <3>1, GoesEffect, LiveKept DEF OnePlace
  <2>3. CASE Ack(w)
    <3>1. /\ worker[w].at = "ack"
          /\ pushed'[w] = pushed[w] \ {worker[w].got}
          /\ \A v \in Workers : v # w => pushed'[v] = pushed[v]
      BY <2>3 DEF TypeRest, Ack
    <3> QED
      BY <2>0, <2>3, <3>1, AckEffect, LiveKept DEF OnePlace
  <2>4. ASSUME NEW m \in Messages, Take(w, m) PROVE OnePlace'
    <3>1. m \in worker[w].buffer /\ pushed' = pushed
      BY <2>4 DEF Take
    <3> QED
      BY <2>0, <2>4, <3>1, TakeEffect, LiveKept DEF OnePlace
  <2> QED
    BY <1>7, <2>1, <2>2, <2>3, <2>4 DEF Run
<1>8. ASSUME NEW m \in Messages, Publish(m) PROVE OnePlace'
  <2>1. m \in todo /\ todo' = todo \ {m} /\ ready' \subseteq ready \cup {m} /\ UNCHANGED <<up, conn, worker, pushed>>
    BY <1>8 DEF Publish
  <2> QED
    BY <2>1, LiveKept DEF OnePlace
<1> QED
  BY <1>1, <1>2, <1>3, <1>4, <1>5, <1>6, <1>7, <1>8
  DEF Next, vars, Loop, RecoverableWorkerFails, WaitGroup, Signal, Delivers

(* The holders of a message are finite in number.                        *)
LEMMA HoldingFinite ==
  ASSUME NEW m
  PROVE  IsFiniteSet(Holding(m)) /\ Cardinality(Holding(m)) \in Nat
<1>1. IsFiniteSet(Workers)
  <2>1. IsFiniteSet(1..MaxConns) /\ IsFiniteSet(1..Concurrency)
    BY WorkerAssumption, FS_Interval
  <2> QED
    BY <2>1, FS_Product DEF Workers
<1>2. Holding(m) \in SUBSET Workers
  BY DEF Holding
<1> QED
  BY <1>1, <1>2, FS_Subset, FS_CardinalityType

(* A worker that gives a message up, or never had it, takes no share.      *)
LEMMA HoldingShrinks ==
  ASSUME NEW m, \A w \in Workers : Holds(w, m)' => Holds(w, m)
  PROVE  Cardinality(Holding(m)') <= Cardinality(Holding(m)) /\ Cardinality(Holding(m)') \in Nat
<1>1. Holding(m)' \in SUBSET Holding(m)
  BY DEF Holding
<1> QED
  BY <1>1, HoldingFinite, FS_Subset, FS_CardinalityType

(* A step that neither writes nor connects nor delivers keeps the budget.*)
LEMMA BudgetKept ==
  ASSUME TypeRest, Budget, UNCHANGED <<audited, conn>>, up' => up,
         up' => ready' \cup todo' \subseteq ready \cup todo, ready' \cup todo' \subseteq Messages,
         \A m \in Messages : \A w \in Workers : Holds(w, m)' => Holds(w, m)
  PROVE  Budget'
<1>1. \A m \in Messages : /\ Cardinality(Holding(m)') <= Cardinality(Holding(m))
                          /\ Cardinality(Holding(m)') \in Nat
                          /\ Cardinality(Holding(m)) \in Nat
                          /\ audited[m] \in Nat
  BY HoldingShrinks, HoldingFinite DEF TypeRest
<1>2. \A m \in Messages : audited'[m] + Cardinality(Holding(m)') <= conn'
  BY <1>1 DEF Budget, TypeRest
<1>3. ASSUME up', NEW m \in ready' \cup todo' PROVE audited'[m] + Cardinality(Holding(m)') < conn'
  BY <1>1, <1>3 DEF Budget, TypeRest
<1> QED
  BY <1>2, <1>3 DEF Budget

(* Every step keeps the budget of each message.                            *)
LEMMA BudgetStep ==
  ASSUME TypeRest, TypeRest', MadeInOrder, InHand, PushedIsLive, OnePlace, Budget, [Next]_vars
  PROVE  Budget'
<1>0. ready \cup todo \subseteq Messages /\ ready' \cup todo' \subseteq Messages
  BY DEF TypeRest
<1>1. CASE UNCHANGED <<up, conn, worker, ready, todo, audited>>
  BY <1>0, <1>1, BudgetKept DEF Holds
<1>2. CASE Dial
  <2>1. \A m \in Messages : audited'[m] = audited[m] /\ Holding(m)' = Holding(m) /\ audited[m] \in Nat
    BY <1>2 DEF TypeRest, Dial, Holding, Holds
  <2>2. ASSUME NEW m \in Messages PROVE audited'[m] + Cardinality(Holding(m)') < conn'
    BY <1>2, <2>1, HoldingFinite DEF Budget, TypeRest, Dial
  <2>3. \A m \in Messages : audited'[m] + Cardinality(Holding(m)') <= conn'
    BY <2>1, <2>2, HoldingFinite DEF TypeRest
  <2> QED
    BY <1>0, <2>2, <2>3 DEF Budget
<1>3. CASE RecoverableWorker
  <2>1. UNCHANGED <<up, conn, ready, todo, audited>>
    BY <1>3 DEF RecoverableWorker
  <2>2. ASSUME NEW v \in Workers
        PROVE  worker'[v] = worker[v] \/ (worker'[v].at = "run" /\ worker'[v].buffer = worker[v].buffer)
    BY <1>3 DEF TypeRest, RecoverableWorker, Goes, Worker
  <2>3. \A m \in Messages : \A w \in Workers : Holds(w, m)' => Holds(w, m)
    BY <2>2 DEF Holds
  <2> QED
    BY <1>0, <2>1, <2>3, BudgetKept
<1>4. CASE Reconnect
  <2>1. UNCHANGED <<up, conn, ready, todo, audited>>
    BY <1>4 DEF Reconnect
  <2>2. \A m \in Messages : \A w \in Workers : Holds(w, m)' => Holds(w, m)
    BY <1>4, ReconnectEffect DEF Holds
  <2> QED
    BY <1>0, <2>1, <2>2, BudgetKept
<1>5. CASE ConnectionLost \/ Crash
  <2>1. UNCHANGED <<audited, conn>> /\ up' = FALSE
    BY <1>5, LossEffect, CloseEffect
  <2>2. \A m \in Messages : \A w \in Workers : Holds(w, m)' => Holds(w, m)
    BY <1>5, LostEffect, CrashEffect DEF Holds
  <2> QED
    BY <1>0, <2>1, <2>2, BudgetKept
<1>6. ASSUME NEW w \in Workers, NEW d \in Messages, Deliver(w, d) PROVE Budget'
  <2>1. /\ up /\ d \in ready /\ ready' = ready \ {d} /\ d \notin todo
        /\ UNCHANGED <<up, conn, todo, audited>>
    BY <1>6 DEF Deliver, Live, OnePlace
  <2>2. \A m \in Messages : m # d => Holding(m)' = Holding(m)
    BY <1>6, DeliverEffect DEF Holding, Holds
  <2>3. Holding(d)' = Holding(d) \cup {w}
    BY <1>6, DeliverEffect DEF Holding, Holds
  <2>4. Cardinality(Holding(d)') <= Cardinality(Holding(d)) + 1 /\ Cardinality(Holding(d)') \in Nat
    <3>1. IsFiniteSet(Holding(d)) /\ Cardinality(Holding(d)) \in Nat
      BY HoldingFinite
    <3>2. Cardinality(Holding(d) \cup {w}) =
            IF w \in Holding(d) THEN Cardinality(Holding(d)) ELSE Cardinality(Holding(d)) + 1
      BY <3>1, FS_AddElement
    <3> QED
      BY <2>3, <3>1, <3>2
  <2>5. audited[d] + Cardinality(Holding(d)) < conn /\ audited[d] \in Nat
    BY <2>1 DEF Budget, TypeRest
  <2>6. audited'[d] + Cardinality(Holding(d)') <= conn'
    BY <2>1, <2>4, <2>5, HoldingFinite DEF TypeRest
  <2>7. \A m \in Messages : audited'[m] + Cardinality(Holding(m)') <= conn'
    BY <2>1, <2>2, <2>6 DEF Budget
  <2>8. ASSUME up', NEW m \in ready' \cup todo' PROVE audited'[m] + Cardinality(Holding(m)') < conn'
    <3>1. m # d /\ m \in ready \cup todo /\ m \in Messages
      BY <1>0, <2>1, <2>8
    <3> QED
      BY <2>1, <2>2, <3>1 DEF Budget
  <2> QED
    BY <2>7, <2>8 DEF Budget
<1>7. ASSUME NEW w \in Workers, Run(w) PROVE Budget'
  <2>0. UNCHANGED <<up, conn, ready, todo>>
    BY <1>7 DEF Run, Consume, ConsumeFails, Stopped, Process, ProcessFails, Ack, Take
  <2>1. CASE Consume(w) \/ ConsumeFails(w) \/ Stopped(w)
    <3>1. PICK at \in {"select", "failed", "ended"} : Goes(w, at) /\ audited' = audited
      BY <2>1 DEF Consume, ConsumeFails, Stopped
    <3>2. \A m \in Messages : \A v \in Workers : Holds(v, m)' => Holds(v, m)
      BY <3>1, GoesEffect DEF Holds
    <3> QED
      BY <1>0, <2>0, <3>1, <3>2, BudgetKept
  <2>2. CASE Process(w) \/ ProcessFails(w)
    <3>1. Goes(w, "ack") /\ worker[w].at = "process"
      BY <2>2 DEF Process, ProcessFails
    <3>2. PICK d \in Messages : d = worker[w].got /\ d \notin worker[w].buffer
      BY <3>1 DEF TypeRest, InHand, OnePlace, Worker
    <3>3. audited' = audited \/ audited' = [audited EXCEPT ![d] = @ + 1]
      BY <2>2, <3>2 DEF Process, ProcessFails
    <3>4. \A m \in Messages : m # d => Holding(m)' = Holding(m) /\ audited'[m] = audited[m]
      BY <3>1, <3>2, <3>3, GoesEffect DEF TypeRest, Holding, Holds
    <3>5. w \in Holding(d) /\ Holding(d)' = Holding(d) \ {w}
      BY <3>1, <3>2, GoesEffect DEF Holding, Holds
    <3>6. Cardinality(Holding(d)') = Cardinality(Holding(d)) - 1
      BY <3>5, HoldingFinite, FS_RemoveElement
    <3>7. audited[d] \in Nat /\ (audited'[d] = audited[d] \/ audited'[d] = audited[d] + 1)
      BY <3>2, <3>3 DEF TypeRest
    <3>8. audited'[d] + Cardinality(Holding(d)') <= audited[d] + Cardinality(Holding(d))
      BY <3>6, <3>7, HoldingFinite
    <3>9. audited'[d] + Cardinality(Holding(d)') \in Int /\ audited[d] + Cardinality(Holding(d)) \in Int
      BY <3>6, <3>7, HoldingFinite
    <3>10. ASSUME NEW m \in Messages PROVE audited'[m] + Cardinality(Holding(m)') <= conn'
      <4>1. audited[m] + Cardinality(Holding(m)) <= conn /\ conn' = conn /\ conn \in Int
        BY <2>0 DEF Budget, TypeRest
      <4>2. CASE m = d
        BY <3>8, <3>9, <4>1, <4>2
      <4>3. CASE m # d
        BY <3>4, <4>1, <4>3
      <4> QED
        BY <4>2, <4>3
    <3>11. ASSUME up', NEW m \in ready' \cup todo' PROVE audited'[m] + Cardinality(Holding(m)') < conn'
      <4>1. m \in Messages
        BY <1>0, <3>11
      <4>2. audited[m] + Cardinality(Holding(m)) < conn /\ conn' = conn /\ conn \in Int
        BY <2>0, <3>11 DEF Budget, TypeRest
      <4>3. CASE m = d
        BY <3>8, <3>9, <4>2, <4>3
      <4>4. CASE m # d
        BY <3>4, <4>1, <4>2, <4>4
      <4> QED
        BY <4>3, <4>4
    <3> QED
      BY <3>10, <3>11 DEF Budget
  <2>3. CASE Ack(w)
    <3>1. audited' = audited
      BY <2>3 DEF Ack
    <3>2. \A m \in Messages : \A v \in Workers : Holds(v, m)' => Holds(v, m)
      BY <2>3, AckEffect DEF Holds
    <3> QED
      BY <1>0, <2>0, <3>1, <3>2, BudgetKept
  <2>4. ASSUME NEW m \in Messages, Take(w, m) PROVE Budget'
    <3>1. m \in worker[w].buffer /\ audited' = audited
      BY <2>4 DEF Take
    <3>2. \A d \in Messages : \A v \in Workers : Holds(v, d)' => Holds(v, d)
      BY <2>4, <3>1, TakeEffect DEF Holds
    <3> QED
      BY <1>0, <2>0, <3>1, <3>2, BudgetKept
  <2> QED
    BY <1>7, <2>1, <2>2, <2>3, <2>4 DEF Run
<1>8. ASSUME NEW m \in Messages, Publish(m) PROVE Budget'
  <2>1. ready' \cup todo' \subseteq ready \cup todo /\ UNCHANGED <<up, conn, worker, audited>>
    BY <1>8 DEF Publish
  <2> QED
    BY <1>0, <2>1, BudgetKept DEF Holds
<1> QED
  BY <1>1, <1>2, <1>3, <1>4, <1>5, <1>6, <1>7, <1>8
  DEF Next, vars, Loop, RecoverableWorkerFails, WaitGroup, Signal, Delivers

(***************************************************************************)
(* The theorems.                                                           *)
(***************************************************************************)
(* The inductive invariant.                                                *)
WorkerInv ==
  /\ TypeRest
  /\ MadeInOrder
  /\ Counted
  /\ InHand
  /\ AckedIsSettled
  /\ PushedIsLive
  /\ OnePlace
  /\ Budget
  /\ StaleAreStopped
  /\ NothingIsLost

(* It holds at first.                                                    *)
LEMMA WorkerInit == Init => WorkerInv
<1> SUFFICES ASSUME Init PROVE WorkerInv
  OBVIOUS
<1> USE WorkerAssumption
<1>1. \A w \in Workers : /\ worker[w].at = "unborn" /\ worker[w].got = None /\ worker[w].buffer = {}
                        /\ pushed[w] = {}
  BY DEF Init, Unborn
<1>2. TypeRest
  <2>1. worker \in [Workers -> Worker]
    BY DEF Init, Worker, Unborn
  <2>2. pushed \in [Workers -> SUBSET Messages] /\ audited \in [Messages -> Nat]
    BY DEF Init
  <2>3. conn \in 0..MaxConns /\ started \in 0..Concurrency
    BY DEF Init
  <2>4. up \in BOOLEAN /\ declared \in BOOLEAN /\ bound \in BOOLEAN
    BY DEF Init
  <2> QED
    BY <2>1, <2>2, <2>3, <2>4 DEF Init, TypeRest
<1>3. MadeInOrder
  BY <1>1 DEF Init, MadeInOrder
<1>4. Counted
  <2>1. FailedNow = {}
    BY <1>1 DEF FailedNow
  <2> QED
    BY <2>1, FS_EmptySet DEF Counted, Init
<1>5. InHand /\ AckedIsSettled /\ StaleAreStopped
  BY <1>1 DEF InHand, AckedIsSettled, StaleAreStopped
<1>6. PushedIsLive /\ OnePlace
  BY <1>1 DEF PushedIsLive, OnePlace, Init
<1>7. Budget
  <2>1. \A m \in Messages : Holding(m) = {}
    BY <1>1 DEF Holding, Holds
  <2>2. \A m \in Messages : audited[m] = 0 /\ Cardinality(Holding(m)) = 0
    BY <2>1, FS_EmptySet DEF Init
  <2> QED
    BY <2>2 DEF Budget, Init
<1>8. NothingIsLost
  BY DEF NothingIsLost, Init
<1> QED
  BY <1>2, <1>3, <1>4, <1>5, <1>6, <1>7, <1>8 DEF WorkerInv

(* Every step keeps it.                                                  *)
LEMMA WorkerStep == WorkerInv /\ [Next]_vars => WorkerInv'
<1> SUFFICES ASSUME WorkerInv, [Next]_vars PROVE WorkerInv'
  OBVIOUS
<1> USE DEF WorkerInv
<1>1. TypeRest'
  BY TypeStep
<1>2. MadeInOrder' /\ Counted' /\ InHand'
  BY OrderStep, CountStep, InHandStep
<1>3. AckedIsSettled' /\ PushedIsLive' /\ StaleAreStopped'
  BY AckedStep, PushedStep, StoppedStep
<1>4. OnePlace'
  BY PlaceStep
<1>5. Budget'
  BY <1>1, BudgetStep
<1>6. NothingIsLost'
  BY KeptStep
<1> QED
  BY <1>1, <1>2, <1>3, <1>4, <1>5, <1>6

(* So it holds for ever.                                                 *)
LEMMA Invariance == Spec => []WorkerInv
  BY WorkerInit, WorkerStep, PTL DEF Spec

(* Every variable has its type in every state: the WaitGroup never counts  *)
(* more failures than its connection has consumers.                        *)
THEOREM WorkerTypes == Spec => []TypeOK
<1>1. WorkerInv => TypeOK
  BY CountBound DEF WorkerInv, TypeRest, TypeOK
<1> QED
  BY <1>1, Invariance, PTL

(* No fault takes a message of the queue away before it was settled, but   *)
(* for the broker losing the queue.                                        *)
THEOREM NothingIsEverLost == Spec => []NothingIsLost
<1>1. WorkerInv => NothingIsLost
  BY DEF WorkerInv
<1> QED
  BY <1>1, Invariance, PTL

(* A message is written to the audit log no more often than connections    *)
(* were made (the workers' Ack comes after the handling).                  *)
THEOREM WrittenOncePerConnection == Spec => []OncePerConnection
<1>1. WorkerInv => OncePerConnection
  <2> SUFFICES ASSUME WorkerInv, NEW m \in Messages PROVE audited[m] <= conn
    BY DEF OncePerConnection
  <2>1. audited[m] + Cardinality(Holding(m)) <= conn /\ audited[m] \in Nat /\ conn \in Nat
    BY DEF WorkerInv, Budget, TypeRest
  <2> QED
    BY <2>1, HoldingFinite
<1> QED
  BY <1>1, Invariance, PTL

(* Every worker of a connection that was lost is told to stop before the   *)
(* next one is dialled.                                                    *)
THEOREM StaleAreAlwaysStopped == Spec => []StaleAreStopped
<1>1. WorkerInv => StaleAreStopped
  BY DEF WorkerInv
<1> QED
  BY <1>1, Invariance, PTL
=============================================================================
