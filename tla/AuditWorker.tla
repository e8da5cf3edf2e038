----------------------------- MODULE AuditWorker -----------------------------
(***************************************************************************)
(* The worker process (cmd/worker, workers, workers/audit): one goroutine  *)
(* that connects to RabbitMQ, starts a number of consumers of the queue    *)
(* audit and waits for the connection to close; the consumers, which write *)
(* each message to the audit log and acknowledge it; and a goroutine that  *)
(* waits for a signal.  The broker pushes each message to one consumer and *)
(* takes back, when the connection closes, what was not acknowledged.      *)
(***************************************************************************)
EXTENDS Naturals, FiniteSets

CONSTANTS Messages,     \* what is published in the exchange
          Concurrency,  \* the consumers of a connection
          MaxConns,     \* bound: the connections that are made
          Faults        \* what may go wrong: a subset of FaultKinds

FaultKinds == {"close",   \* the connection is lost
               "wipe",    \* the broker comes back without its queues
               "crash",   \* the process dies and is started again
               "signal",  \* it receives SIGINT
               "audit"}   \* a message is no JSON, or its row cannot be written

None == "none"

ASSUME WorkerAssumption ==
  /\ None \notin Messages
  /\ Concurrency \in Nat \ {0}
  /\ MaxConns \in Nat \ {0}
  /\ Faults \subseteq FaultKinds

VARIABLES main,       \* where the loop of run stands
          conn,       \* the number of the current connection, 0 before the first
          up,         \* it is open
          started,    \* the workers that have been made for it
          waits,      \* the counter of its WaitGroup, when the loop waits for it
          declared,   \* queueDeclared
          lock,       \* who holds the lock of the package
          worker,     \* the consumers of every connection
          bound,      \* the broker has the queue, bound to the exchange
          ready,      \* the messages in it
          pushed,     \* those that each worker was given and has not acknowledged
          todo,       \* the messages that are not published yet
          audited,    \* history variable: how often each was written to the log
          refused,    \* history variable: those acknowledged after an error
          lost        \* history variable: those that no queue took, or kept

vars == <<main, conn, up, started, waits, declared, lock, worker, bound, ready, pushed,
          todo, audited, refused, lost>>

Workers == (1..MaxConns) \X (1..Concurrency)
Conn(w) == w[1]

(* at: where Run stands; got: the message in its hands; buffer: those that *)
(* wait in its delivery channel; stop: stopChan is closed.                 *)
Worker == [at : {"unborn", "run", "select", "process", "ack", "ended", "failed"},
           got : Messages \cup {None}, buffer : SUBSET Messages, stop : BOOLEAN]
Unborn == [at |-> "unborn", got |-> None, buffer |-> {}, stop |-> FALSE]
Goes(w, at) == worker' = [worker EXCEPT ![w].at = at]

Live(w) == up /\ Conn(w) = conn

Fault(kind) == kind \in Faults

Init ==
  /\ main = "dial"
  /\ conn = 0
  /\ up = FALSE
  /\ started = 0
  /\ waits = 0
  /\ declared = FALSE
  /\ lock = "free"
  /\ worker = [w \in Workers |-> Unborn]
  /\ bound = FALSE
  /\ ready = {}
  /\ pushed = [w \in Workers |-> {}]
  /\ todo = Messages
  /\ audited = [m \in Messages |-> 0]
  /\ refused = {}
  /\ lost = {}

(***************************************************************************)
(* The loop of run.                                                        *)
(***************************************************************************)
(* NewBus.  A failure sleeps and tries again: nothing changes.             *)
Dial ==
  /\ main = "dial"
  /\ conn < MaxConns
  /\ main' = "create"
  /\ conn' = conn + 1
  /\ up' = TRUE
  /\ started' = 0
  /\ waits' = 0
  /\ UNCHANGED <<declared, lock, worker, bound, ready, pushed, todo, audited, refused, lost>>

Creates == main = "create" /\ started < Concurrency /\ lock = "free" /\ started' = started + 1

(* Mutant of RecoverableWorker: the lock is not released.                  *)
RecoverableWorkerLocked ==
  /\ Creates
  /\ declared \/ up
  /\ lock' = "run"
  /\ declared' = TRUE
  /\ bound' = (bound \/ ~declared)
  /\ Goes(<<conn, started + 1>>, "run")
  /\ UNCHANGED <<main, conn, up, waits, ready, pushed, todo, audited, refused, lost>>

(* The first worker of the process declares the queue, those of later      *)
(* connections take it for granted.  Run is left to a goroutine.           *)
RecoverableWorker ==
  /\ Creates
  /\ declared \/ up
  /\ declared' = TRUE
  /\ bound' = (bound \/ ~declared)
  /\ Goes(<<conn, started + 1>>, "run")
  /\ UNCHANGED <<main, conn, up, waits, lock, ready, pushed, todo, audited, refused, lost>>

(* The connection is lost before the queue was declared: no worker.        *)
RecoverableWorkerFails ==
  /\ Creates
  /\ ~declared
  /\ ~up
  /\ UNCHANGED <<main, conn, up, waits, declared, lock, worker, bound, ready, pushed, todo, audited,
                 refused, lost>>

(* wg.Wait: a worker whose Run has failed before has raised the counter.   *)
WaitGroup ==
  /\ main = "create"
  /\ started = Concurrency
  /\ waits = 0
  /\ main' = "wait"
  /\ UNCHANGED <<conn, up, started, waits, declared, lock, worker, bound, ready, pushed, todo, audited,
                 refused, lost>>

(* Mutant of Reconnect: the workers are left to themselves.                *)
ReconnectOnly ==
  /\ main = "wait"
  /\ ~up
  /\ main' = "dial"
  /\ UNCHANGED <<conn, up, started, waits, declared, lock, worker, bound, ready, pushed, todo, audited,
                 refused, lost>>

(* NotifyClose: every worker of the connection is stopped.                 *)
Reconnect ==
  /\ main = "wait"
  /\ ~up
  /\ main' = "dial"
  /\ worker' = [w \in Workers |-> [worker[w] EXCEPT
                  !.stop = @ \/ (Conn(w) = conn /\ worker[w].at # "unborn")]]
  /\ UNCHANGED <<conn, up, started, waits, declared, lock, bound, ready, pushed, todo, audited,
                 refused, lost>>

(* SIGINT.  The handler has the map of workers that run made first, and    *)
(* replaced since: it stops nobody, and it keeps the lock.                 *)
Signal ==
  /\ Fault("signal")
  /\ lock = "free"
  /\ lock' = "signal"
  /\ UNCHANGED <<main, conn, up, started, waits, declared, worker, bound, ready, pushed, todo, audited,
                 refused, lost>>

(***************************************************************************)
(* The workers.                                                            *)
(***************************************************************************)
(* Run registers a consumer.                                               *)
Consume(w) ==
  /\ worker[w].at = "run"
  /\ Live(w)
  /\ bound
  /\ Goes(w, "select")
  /\ UNCHANGED <<main, conn, up, started, waits, declared, lock, bound, ready, pushed, todo, audited,
                 refused, lost>>

(* ... or returns an error, and its goroutine adds to the WaitGroup of its *)
(* connection, which the loop may be waiting for, or not.                  *)
ConsumeFails(w) ==
  /\ worker[w].at = "run"
  /\ ~(Live(w) /\ bound)
  /\ Goes(w, "failed")
  /\ waits' = IF Conn(w) = conn THEN waits + 1 ELSE waits
  /\ UNCHANGED <<main, conn, up, started, declared, lock, bound, ready, pushed, todo, audited,
                 refused, lost>>

(* Mutant of Take: the delivery is acknowledged as it is received.         *)
TakeAcked(w, m) ==
  /\ worker[w].at = "select"
  /\ m \in worker[w].buffer
  /\ worker' = [worker EXCEPT ![w].at = "process", ![w].got = m, ![w].buffer = @ \ {m}]
  /\ pushed' = [pushed EXCEPT ![w] = @ \ {m}]
  /\ UNCHANGED <<main, conn, up, started, waits, declared, lock, bound, ready, todo, audited,
                 refused, lost>>

(* The select of Run takes a delivery, while there are any.                *)
Take(w, m) ==
  /\ worker[w].at = "select"
  /\ m \in worker[w].buffer
  /\ worker' = [worker EXCEPT ![w].at = "process", ![w].got = m, ![w].buffer = @ \ {m}]
  /\ UNCHANGED <<main, conn, up, started, waits, declared, lock, bound, ready, pushed, todo, audited,
                 refused, lost>>

(* ... or the closed stopChan.  The deliveries of a connection that is     *)
(* closed are empty, and the loop turns until then.                        *)
Stopped(w) ==
  /\ worker[w].at = "select"
  /\ worker[w].stop
  /\ Goes(w, "ended")
  /\ UNCHANGED <<main, conn, up, started, waits, declared, lock, bound, ready, pushed, todo, audited,
                 refused, lost>>

Process(w) ==
  /\ worker[w].at = "process"
  /\ audited' = [audited EXCEPT ![worker[w].got] = @ + 1]
  /\ Goes(w, "ack")
  /\ UNCHANGED <<main, conn, up, started, waits, declared, lock, bound, ready, pushed, todo, refused, lost>>

(* Mutant of ProcessFails: a message whose row failed is given back.       *)
ProcessFailsRequeues(w) ==
  /\ worker[w].at = "process"
  /\ Fault("audit")
  /\ audited' \in {audited, [audited EXCEPT ![worker[w].got] = @ + 1]}
  /\ worker' = [worker EXCEPT ![w].at = "select", ![w].got = None]
  /\ pushed' = [pushed EXCEPT ![w] = @ \ {worker[w].got}]
  /\ ready' = IF Live(w) THEN ready \cup {worker[w].got} ELSE ready
  /\ UNCHANGED <<main, conn, up, started, waits, declared, lock, bound, todo, refused, lost>>

(* The message is acknowledged all the same; an error of the database may  *)
(* have come after the row was written.                                    *)
ProcessFails(w) ==
  /\ worker[w].at = "process"
  /\ Fault("audit")
  /\ audited' \in {audited, [audited EXCEPT ![worker[w].got] = @ + 1]}
  /\ refused' = refused \cup {worker[w].got}
  /\ Goes(w, "ack")
  /\ UNCHANGED <<main, conn, up, started, waits, declared, lock, bound, ready, pushed, todo, lost>>

(* On a connection that was lost an error is logged: the broker has taken  *)
(* the message back.                                                       *)
Ack(w) ==
  /\ worker[w].at = "ack"
  /\ pushed' = [pushed EXCEPT ![w] = @ \ {worker[w].got}]
  /\ worker' = [worker EXCEPT ![w].at = "select", ![w].got = None]
  /\ UNCHANGED <<main, conn, up, started, waits, declared, lock, bound, ready, todo, audited,
                 refused, lost>>

(***************************************************************************)
(* The broker, and those who publish.                                      *)
(***************************************************************************)
(* The exchange is direct: without a queue the message goes nowhere.       *)
Publish(m) ==
  /\ m \in todo
  /\ todo' = todo \ {m}
  /\ IF bound THEN ready' = ready \cup {m} /\ lost' = lost
              ELSE lost' = lost \cup {m} /\ ready' = ready
  /\ UNCHANGED <<main, conn, up, started, waits, declared, lock, worker, bound, pushed, audited, refused>>

(* Qos belongs to a channel: it was set on that of the connection that has *)
(* declared the queue, and the broker pushes without limit on the others.  *)
(* Here it does on all: what a worker does with a delivery is the same.    *)
Deliver(w, m) ==
  /\ Live(w)
  /\ worker[w].at \in {"select", "process", "ack"}
  /\ m \in ready
  /\ ready' = ready \ {m}
  /\ pushed' = [pushed EXCEPT ![w] = @ \cup {m}]
  /\ worker' = [worker EXCEPT ![w].buffer = @ \cup {m}]
  /\ UNCHANGED <<main, conn, up, started, waits, declared, lock, bound, todo, audited, refused, lost>>

(* The connection is lost, and maybe the queue with it.                    *)
Close(keeps) ==
  /\ conn < MaxConns
  /\ up' = FALSE
  /\ bound' = (bound /\ keeps)
  /\ pushed' = [w \in Workers |-> {}]
  /\ LET held == ready \cup UNION {pushed[w] : w \in Workers}
     IN /\ ready' = IF keeps THEN held ELSE {}
        /\ lost' = IF keeps THEN lost ELSE lost \cup held

(* The client drops what it has not handed to a worker yet.                *)
ConnectionLost ==
  /\ up
  /\ \/ Fault("close") /\ Close(TRUE)
     \/ Fault("wipe") /\ Close(FALSE)
  /\ worker' = [w \in Workers |-> [worker[w] EXCEPT !.buffer = {}]]
  /\ UNCHANGED <<main, conn, started, waits, declared, lock, todo, audited, refused>>

(* The process dies and is started again: nothing of it is left.           *)
Crash ==
  /\ Fault("crash")
  /\ conn > 0
  /\ Close(TRUE)
  /\ main' = "dial"
  /\ started' = 0
  /\ waits' = 0
  /\ declared' = FALSE
  /\ lock' = "free"
  /\ worker' = [w \in Workers |-> Unborn]
  /\ UNCHANGED <<conn, todo, audited, refused>>

Loop == Dial \/ RecoverableWorker \/ RecoverableWorkerFails \/ WaitGroup \/ Reconnect

Run(w) ==
  \/ Consume(w) \/ ConsumeFails(w) \/ Stopped(w) \/ Process(w) \/ ProcessFails(w) \/ Ack(w)
  \/ \E m \in Messages : Take(w, m)

Delivers == \E w \in Workers, m \in Messages : Deliver(w, m)

Next ==
  \/ Loop \/ Signal \/ Delivers \/ ConnectionLost \/ Crash
  \/ \E w \in Workers : Run(w)
  \/ \E m \in Messages : Publish(m)

(* The goroutines of the process go on, and the broker delivers; nobody    *)
(* owes a message, and nothing has to go wrong.                            *)
Fairness == WF_vars(Loop) /\ WF_vars(Delivers) /\ \A w \in Workers : WF_vars(Run(w))

Spec == Init /\ [][Next]_vars /\ Fairness

(***************************************************************************)
(* What is expected of the worker.                                         *)
(***************************************************************************)
(* Every variable has its type.                                            *)
TypeOK ==
  /\ main \in {"dial", "create", "wait"}
  /\ conn \in 0..MaxConns
  /\ up \in BOOLEAN
  /\ started \in 0..Concurrency
  /\ waits \in 0..Concurrency
  /\ declared \in BOOLEAN
  /\ lock \in {"free", "signal"}
  /\ worker \in [Workers -> Worker]
  /\ bound \in BOOLEAN
  /\ ready \subseteq Messages
  /\ pushed \in [Workers -> SUBSET Messages]
  /\ todo \subseteq Messages
  /\ audited \in [Messages -> Nat]
  /\ refused \subseteq Messages
  /\ lost \subseteq Messages

(* A message that reached the queue is in it, or in the hands of a worker  *)
(* whose connection is open, until it was written to the log or refused:   *)
(* no loss of the connection, and no crash, takes it away, unless the      *)
(* broker loses its queue.                                                 *)
Settled(m) == audited[m] > 0 \/ m \in refused
NothingIsLost ==
  \A m \in Messages \ (todo \cup lost) :
    \/ m \in ready
    \/ \E w \in Workers : Live(w) /\ m \in pushed[w]
    \/ Settled(m)

(* A message is written no more often than connections were made, although *)
(* a worker of a connection that was lost may still have it in its hands,  *)
(* although it is delivered again, and although a row that was written may *)
(* be reported as an error.                                                *)
OncePerConnection == \A m \in Messages : audited[m] <= conn

(* Nothing has gone wrong that the worker does not survive: a Run that     *)
(* failed is never run again and may block the loop, and a signal takes    *)
(* the lock for good.                                                      *)
Unharmed == lock # "signal" /\ \A w \in Workers : worker[w].at # "failed"

(* Unless it was harmed, the worker settles every message of the queue, on *)
(* this connection or on a later one.                                      *)
QueueIsServed == \A m \in Messages : m \in ready ~> Settled(m) \/ ~Unharmed \/ m \in lost

(* When the next connection is made, every worker of those before has been *)
(* told to stop: none turns for ever on the empty deliveries of a closed   *)
(* channel.                                                                *)
StaleAreStopped ==
  \A w \in Workers :
    worker[w].at \in {"run", "select", "process", "ack"} /\ (Conn(w) < conn \/ main = "dial") =>
      worker[w].stop

(* The message that is logged when Run returns an error promises another   *)
(* run after 5 seconds.                                                    *)
FailedIsRerun ==
  (\E w \in Workers : worker[w].at = "failed") ~>
    (\E w \in Workers : Live(w) /\ worker[w].at = "select")
=============================================================================
