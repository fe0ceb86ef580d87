----------------------------- MODULE SimpleThread -----------------------------
(***************************************************************************)
(* client/src/simple_thread.{h,cc}: a worker thread with a priority queue  *)
(* of timed tasks. An owner thread starts and stops it, application        *)
(* threads and the tasks themselves post to it.                            *)
(*                                                                         *)
(* An action is what a thread does between two points where another        *)
(* thread can see or change what it uses: the worker holds queue_mutex_    *)
(* from line 74 to a wait or to line 100, so each of these stretches is    *)
(* one action, while PostDelayedTask reads the clock before it locks and   *)
(* notifies after it unlocks, so it takes three.                           *)
(***************************************************************************)
EXTENDS Naturals, FiniteSets

CONSTANTS
  Tasks,       (* the tasks that may be posted, each at most once          *)
  AppThreads,  (* the threads that post                                    *)
  Owner,       (* the one of them that calls Start and Stop                *)
  Worker,      (* the thread Start creates                                 *)
  Delays,      (* the delays tasks are posted with, 0 for PostTask         *)
  Horizon,     (* BOUND: the clock stops here, and nothing is due later    *)
  NoNode       (* the absence of a task node                               *)

ASSUME ThreadsAssumption == Owner \in AppThreads /\ Worker \notin AppThreads
ASSUME TimeAssumption == Delays \subseteq Nat /\ Horizon \in Nat
ASSUME NoNodeAssumption == NoNode \notin [task : Tasks, when : Nat]

Callers == AppThreads \cup {Worker}
Node == [task : Tasks, when : Nat]

VARIABLES
  now,        (* std::chrono::steady_clock                                 *)
  running,    (* running_                                                  *)
  stop_flag,  (* stop_flag_                                                *)
  queue,      (* task_queue_, as the set of its nodes                      *)
  wpc,        (* where the worker is                                       *)
  deadline,   (* while it sleeps: the end of wait_for; 0 otherwise         *)
  current,    (* the node whose function it runs, or NoNode                *)
  signalled,  (* it waits and has been notified, or woken for no reason    *)
  opc,        (* where the owner is in Stop, idle outside it               *)
  cpc,        (* where each thread is in PostDelayedTask, out outside it   *)
  arg,        (* the node it is about to push                              *)
  fresh,      (* the tasks nobody has posted yet                           *)
  done        (* the tasks that ran                                        *)

workerVars == <<wpc, deadline, current, signalled>>
callVars == <<cpc, arg, fresh>>
vars == <<now, running, stop_flag, queue, workerVars, opc, callVars, done>>

Init ==
  /\ now = 0
  /\ running = FALSE
  /\ stop_flag = FALSE
  /\ queue = {}
  /\ wpc = "none"
  /\ deadline = 0
  /\ current = NoNode
  /\ signalled = FALSE
  /\ opc = "idle"
  /\ cpc = [c \in Callers |-> "out"]
  /\ arg = [c \in Callers |-> NoNode]
  /\ fresh = Tasks
  /\ done = {}

Tick ==
  /\ now < Horizon
  /\ now' = now + 1
  /\ UNCHANGED <<running, stop_flag, queue, workerVars, opc, callVars, done>>

-----------------------------------------------------------------------------
(* The worker waits on queue_cv_.                                          *)
Waiting == wpc \in {"idle", "sleep"}

(* Mutant of Notify: the call is forgotten.                                *)
NotifyForgotten == UNCHANGED signalled

(* Waking the one waiter, if it waits: notify_one and notify_all.          *)
Notify == signalled' = (signalled \/ Waiting)

(* A thread outside the calls below. The worker is the code of a task.     *)
MayCall(c) ==
  /\ cpc[c] = "out"
  /\ c = Worker => wpc = "task"
  /\ c = Owner => opc = "idle"

(* Mutant of PostStamp: the delay has the wrong sign.                      *)
PostStampPast(c, t, d) ==
  /\ MayCall(c)
  /\ now + d <= Horizon
  /\ cpc' = [cpc EXCEPT ![c] = "push"]
  /\ arg' = [arg EXCEPT ![c] = [task |-> t, when |-> now - d]]
  /\ fresh' = fresh \ {t}
  /\ UNCHANGED <<now, running, stop_flag, queue, workerVars, opc, done>>

(* PostDelayedTask, before the lock: `when` is fixed here.                 *)
PostStamp(c, t, d) ==
  /\ MayCall(c)
  /\ now + d <= Horizon
  /\ cpc' = [cpc EXCEPT ![c] = "push"]
  /\ arg' = [arg EXCEPT ![c] = [task |-> t, when |-> now + d]]
  /\ fresh' = fresh \ {t}
  /\ UNCHANGED <<now, running, stop_flag, queue, workerVars, opc, done>>

(* Under the lock: the push.                                               *)
PostPush(c) ==
  /\ cpc[c] = "push"
  /\ queue' = queue \cup {arg[c]}
  /\ cpc' = [cpc EXCEPT ![c] = "notify"]
  /\ arg' = [arg EXCEPT ![c] = NoNode]
  /\ UNCHANGED <<now, running, stop_flag, workerVars, opc, fresh, done>>

(* After the unlock: notify_one.                                           *)
PostNotify(c) ==
  /\ cpc[c] = "notify"
  /\ cpc' = [cpc EXCEPT ![c] = "out"]
  /\ Notify
  /\ UNCHANGED <<now, running, stop_flag, queue, wpc, deadline, current,
                 opc, arg, fresh, done>>

-----------------------------------------------------------------------------
(* Mutant of Start: stop_flag_ keeps its value from the last Stop.         *)
StartKeepsFlag ==
  /\ MayCall(Owner)
  /\ ~running
  /\ running' = TRUE
  /\ wpc' = "loop"
  /\ UNCHANGED <<now, stop_flag, queue, deadline, current, signalled, opc,
                 callVars, done>>

(* Start returns early when the thread runs.                               *)
Start ==
  /\ MayCall(Owner)
  /\ ~running
  /\ running' = TRUE
  /\ stop_flag' = FALSE
  /\ wpc' = "loop"
  /\ UNCHANGED <<now, queue, deadline, current, signalled, opc, callVars, done>>

(* Stop returns early when the thread does not run; running_ is cleared    *)
(* before the lock is taken.                                               *)
StopBegin ==
  /\ MayCall(Owner)
  /\ running
  /\ running' = FALSE
  /\ opc' = "flag"
  /\ UNCHANGED <<now, stop_flag, queue, workerVars, callVars, done>>

StopFlag ==
  /\ opc = "flag"
  /\ stop_flag' = TRUE
  /\ opc' = "notify"
  /\ UNCHANGED <<now, running, queue, workerVars, callVars, done>>

StopNotify ==
  /\ opc = "notify"
  /\ opc' = "join"
  /\ Notify
  /\ UNCHANGED <<now, running, stop_flag, queue, wpc, deadline, current,
                 callVars, done>>

(* Mutant of StopJoin: the thread is detached instead of joined.           *)
StopDetach ==
  /\ opc = "join"
  /\ wpc' = IF wpc = "exited" THEN "none" ELSE wpc
  /\ opc' = "idle"
  /\ UNCHANGED <<now, running, stop_flag, queue, deadline, current, signalled,
                 callVars, done>>

(* join and reset.                                                         *)
StopJoin ==
  /\ opc = "join"
  /\ wpc = "exited"
  /\ wpc' = "none"
  /\ opc' = "idle"
  /\ UNCHANGED <<now, running, stop_flag, queue, deadline, current, signalled,
                 callVars, done>>

-----------------------------------------------------------------------------
(* The nodes top() may return: `when` is the only key of the heap, so      *)
(* nodes that are due at the same instant come in any order.               *)
Earliest == {n \in queue : \A m \in queue : n.when <= m.when}

(* The loop condition of Run.                                              *)
RunLoop ==
  /\ wpc = "loop"
  /\ wpc' = IF running /\ ~stop_flag THEN "process" ELSE "exited"
  /\ UNCHANGED <<now, running, stop_flag, queue, deadline, current, signalled,
                 opc, callVars, done>>

(* Lines 98 to 101: the node leaves the queue before the lock is released. *)
Take(n) ==
  /\ queue' = queue \ {n}
  /\ current' = n
  /\ wpc' = "task"
  /\ deadline' = 0

BackToLoop ==
  /\ wpc' = "loop"
  /\ deadline' = 0
  /\ UNCHANGED <<queue, current>>

(* Mutant of TakeOrSleep: the wait does not last until the task is due.    *)
TakeOrNap ==
  \E n \in Earliest :
    \/ n.when <= now /\ Take(n)
    \/ n.when > now /\ stop_flag /\ BackToLoop
    \/ /\ n.when > now /\ ~stop_flag
       /\ wpc' = "sleep"
       /\ deadline' = now
       /\ UNCHANGED <<queue, current>>

(* Lines 83 to 95. wait_for tests its predicate before it waits.           *)
TakeOrSleep ==
  \E n \in Earliest :
    \/ n.when <= now /\ Take(n)
    \/ n.when > now /\ stop_flag /\ BackToLoop
    \/ /\ n.when > now /\ ~stop_flag
       /\ wpc' = "sleep"
       /\ deadline' = n.when
       /\ UNCHANGED <<queue, current>>

(* Lines 74 to 95, up to the first wait.                                   *)
ProcessTasks ==
  /\ wpc = "process"
  /\ \/ queue # {} /\ TakeOrSleep
     \/ queue = {} /\ stop_flag /\ BackToLoop
     \/ /\ queue = {} /\ ~stop_flag
        /\ wpc' = "idle"
        /\ UNCHANGED <<queue, deadline, current>>
  /\ UNCHANGED <<now, running, stop_flag, signalled, opc, callVars, done>>

(* Line 78: the wait on an empty queue is woken and tests its predicate.   *)
IdleWake ==
  /\ wpc = "idle"
  /\ signalled
  /\ signalled' = FALSE
  /\ \/ stop_flag /\ BackToLoop
     \/ ~stop_flag /\ queue # {} /\ TakeOrSleep
     \/ ~stop_flag /\ queue = {} /\ UNCHANGED <<queue, wpc, deadline, current>>
  /\ UNCHANGED <<now, running, stop_flag, opc, callVars, done>>

(* Mutant of SleepWake: the woken worker does not look at the time again.  *)
SleepWakeRuns ==
  /\ wpc = "sleep"
  /\ signalled
  /\ signalled' = FALSE
  /\ \E n \in Earliest : Take(n)
  /\ UNCHANGED <<now, running, stop_flag, opc, callVars, done>>

(* Line 88: the timed wait is woken; only stop_flag_ ends it early.        *)
SleepWake ==
  /\ wpc = "sleep"
  /\ signalled
  /\ signalled' = FALSE
  /\ \/ stop_flag /\ BackToLoop
     \/ ~stop_flag /\ UNCHANGED <<queue, wpc, deadline, current>>
  /\ UNCHANGED <<now, running, stop_flag, opc, callVars, done>>

(* Line 88, the time is up: line 92 looks at the queue again.              *)
SleepTimeout ==
  /\ wpc = "sleep"
  /\ deadline <= now
  /\ signalled' = FALSE
  /\ \/ stop_flag /\ BackToLoop
     \/ /\ ~stop_flag
        /\ \E n \in Earliest : IF n.when > now THEN BackToLoop ELSE Take(n)
  /\ UNCHANGED <<now, running, stop_flag, opc, callVars, done>>

(* A condition variable may wake its waiter without a notification.        *)
SpuriousWakeup ==
  /\ Waiting
  /\ ~signalled
  /\ signalled' = TRUE
  /\ UNCHANGED <<now, running, stop_flag, queue, wpc, deadline, current, opc,
                 callVars, done>>

(* The task returns, out of every call it made.                            *)
TaskReturns ==
  /\ wpc = "task"
  /\ cpc[Worker] = "out"
  /\ done' = done \cup {current.task}
  /\ current' = NoNode
  /\ wpc' = "loop"
  /\ UNCHANGED <<now, running, stop_flag, queue, deadline, signalled, opc,
                 callVars>>

-----------------------------------------------------------------------------
WorkerNext ==
  RunLoop \/ ProcessTasks \/ IdleWake \/ SleepWake \/ SleepTimeout \/ TaskReturns

OwnerNext == Start \/ StopBegin \/ StopFlag \/ StopNotify \/ StopJoin

CallerNext ==
  \E c \in Callers :
    \/ \E t \in fresh, d \in Delays : PostStamp(c, t, d)
    \/ PostPush(c)
    \/ PostNotify(c)

Next == Tick \/ WorkerNext \/ OwnerNext \/ CallerNext \/ SpuriousWakeup

Spec == Init /\ [][Next]_vars

(* The scheduler lets a thread that can go on go on, the clock advances    *)
(* and tasks return. Nobody has to post, to start or to stop.              *)
Fairness ==
  /\ WF_vars(Tick)
  /\ WF_vars(RunLoop) /\ WF_vars(ProcessTasks) /\ WF_vars(TaskReturns)
  /\ WF_vars(IdleWake) /\ WF_vars(SleepWake) /\ WF_vars(SleepTimeout)
  /\ WF_vars(StopFlag) /\ WF_vars(StopNotify) /\ WF_vars(StopJoin)
  /\ \A c \in Callers : WF_vars(PostPush(c)) /\ WF_vars(PostNotify(c))

FairSpec == Spec /\ Fairness

-----------------------------------------------------------------------------
TypeOK ==
  /\ now \in Nat
  /\ running \in BOOLEAN
  /\ stop_flag \in BOOLEAN
  /\ queue \subseteq Node
  /\ wpc \in {"none", "loop", "process", "idle", "sleep", "task", "exited"}
  /\ deadline \in Nat
  /\ current \in Node \cup {NoNode}
  /\ signalled \in BOOLEAN
  /\ opc \in {"idle", "flag", "notify", "join"}
  /\ cpc \in [Callers -> {"out", "push", "notify"}]
  /\ arg \in [Callers -> Node \cup {NoNode}]
  /\ fresh \subseteq Tasks
  /\ done \subseteq Tasks

(* No wakeup is lost: a worker that waits although its predicate holds (a  *)
(* task came while it waited for any, or Stop set the flag) has been woken, *)
(* or the thread that changed the state is between its unlock and notify.  *)
NoLostWakeup ==
  /\ wpc = "idle" /\ queue # {} =>
       signalled \/ \E c \in Callers : cpc[c] = "notify"
  /\ Waiting /\ stop_flag => signalled \/ opc = "notify"

(* ProcessTasks calls top() and pop() again after it waited (lines 92, 98) *)
(* without testing for an empty queue at 98: while it sleeps, the task it  *)
(* sleeps for, or an earlier one, stays in the queue. So the queue is not  *)
(* empty there, and when the time is up line 93 is never reached.          *)
SleepHasTask ==
  wpc = "sleep" => \E n \in queue : n.when <= deadline

(* running_, stop_flag_ and the thread agree whenever no Stop is under     *)
(* way: a started thread never leaves its loop on its own, and after Stop  *)
(* there is no thread left that could run a task.                          *)
ThreadLifetime ==
  opc = "idle" =>
    IF running THEN wpc \notin {"none", "exited"} /\ ~stop_flag
               ELSE wpc = "none"

(* The promises of TimedExecutor: tasks run one at a time, once, not early *)
(* and earliest first, at most one begins after Stop was called, and none  *)
(* after it returned.                                                      *)
Mode ==
  IF opc = "idle" THEN IF running THEN "on" ELSE "off"
  ELSE IF wpc \in {"process", "idle", "sleep"} THEN "draining" ELSE "drained"

Executor == INSTANCE TimedExecutor
              WITH pending <- queue, busy <- current, mode <- Mode

ImplementsExecutor == Executor!ExecSpec

(* Stop, once called, returns: the worker is woken, leaves its loop and is *)
(* joined.                                                                 *)
StopReturns == opc # "idle" ~> opc = "idle"

(* Every posted task runs if the thread is running from some point on:     *)
(* whether it was posted before Start, across a restart, by another task   *)
(* or while the worker was about to sleep.                                 *)
PostedTasksRun ==
  <>[]running => \A t \in Tasks : t \notin fresh ~> t \in done

(* The header says PostTask executes its task at once, and the comment at  *)
(* line 86 that the timed wait lasts until the time or a wakeup: the       *)
(* worker is not left asleep with a task that is due.                      *)
DueTaskWakesSleeper ==
  ~ /\ wpc = "sleep" /\ now < deadline /\ ~signalled
    /\ \E n \in queue : n.when < now
    /\ \A c \in Callers : cpc[c] = "out"
=============================================================================
