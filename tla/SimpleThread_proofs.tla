------------------------- MODULE SimpleThread_proofs -------------------------
(***************************************************************************)
(* The safety of SimpleThread for any tasks, threads, delays and horizon.  *)
(*                                                                         *)
(* The argument: TypeOK is inductive alone. Lifecycle ties running_,       *)
(* stop_flag_ and the owner's place in Stop to the worker's place and      *)
(* Accounting says that a task is in one place at a time; both are         *)
(* inductive relative to TypeOK. With them NoLostWakeup and SleepHasTask   *)
(* are inductive, and each step is a step of TimedExecutor or a stutter.   *)
(***************************************************************************)
EXTENDS SimpleThread, TLAPS

(* Where the owner and the worker can be at the same time.                 *)
Lifecycle ==
  /\ ThreadLifetime
  /\ opc # "idle" => ~running /\ wpc # "none"
  /\ opc = "flag" => ~stop_flag
  /\ opc \in {"notify", "join"} => stop_flag
  /\ cpc[Worker] # "out" => wpc = "task"

(* The nodes the worker and the callers hold are there when they use them. *)
Handles ==
  /\ wpc = "task" <=> current # NoNode
  /\ \A c \in Callers : cpc[c] = "push" => arg[c] \in Node

(* A task is unposted, about to be pushed, queued, running or done.        *)
Accounting ==
  /\ fresh \cap done = {}
  /\ \A n \in queue : n.task \notin fresh \cup done
  /\ \A m, n \in queue : m.task = n.task => m = n
  /\ current # NoNode =>
       /\ current.task \notin fresh \cup done
       /\ \A n \in queue : n.task # current.task
  /\ \A c \in Callers : cpc[c] = "push" =>
       /\ arg[c].task \notin fresh \cup done
       /\ \A n \in queue : n.task # arg[c].task
       /\ current # NoNode => current.task # arg[c].task
       /\ \A d \in Callers : cpc[d] = "push" /\ d # c => arg[d].task # arg[c].task

-----------------------------------------------------------------------------
(* TypeOK in two parts: the solver takes the Booleans apart from the rest. *)
FlagsOK ==
  running \in BOOLEAN /\ stop_flag \in BOOLEAN /\ signalled \in BOOLEAN

DataOK ==
  /\ now \in Nat
  /\ queue \subseteq Node
  /\ wpc \in {"none", "loop", "process", "idle", "sleep", "task", "exited"}
  /\ deadline \in Nat
  /\ current \in Node \cup {NoNode}
  /\ opc \in {"idle", "flag", "notify", "join"}
  /\ cpc \in [Callers -> {"out", "push", "notify"}]
  /\ arg \in [Callers -> Node \cup {NoNode}]
  /\ fresh \subseteq Tasks
  /\ done \subseteq Tasks

LEMMA TypeParts == TypeOK <=> FlagsOK /\ DataOK
  BY DEF TypeOK, FlagsOK, DataOK

LEMMA TypeInit == Init => TypeOK /\ Handles
<1>1. Init => FlagsOK
  BY DEF Init, FlagsOK
<1>2. Init => DataOK /\ Handles
  BY DEF Init, DataOK, Handles
<1> QED BY <1>1, <1>2, TypeParts

LEMMA FlagsStep == FlagsOK /\ [Next]_vars => FlagsOK'
<1> SUFFICES ASSUME FlagsOK, [Next]_vars
             PROVE  FlagsOK'
  OBVIOUS
<1> USE DEF FlagsOK, workerVars, callVars
<1>1. CASE Tick
  BY <1>1 DEF Tick
<1>2. CASE WorkerNext
  BY <1>2 DEF WorkerNext, RunLoop, ProcessTasks, IdleWake, SleepWake,
              SleepTimeout, TaskReturns
<1>3. CASE OwnerNext
  BY <1>3 DEF OwnerNext, Start, StopBegin, StopFlag, StopNotify, StopJoin,
              Notify, Waiting
<1>4. CASE CallerNext
  BY <1>4 DEF CallerNext, PostStamp, PostPush, PostNotify, Notify, Waiting
<1>5. CASE SpuriousWakeup
  BY <1>5 DEF SpuriousWakeup
<1>6. CASE UNCHANGED vars
  BY <1>6 DEF vars
<1> QED BY <1>1, <1>2, <1>3, <1>4, <1>5, <1>6 DEF Next

LEMMA DataStep ==
  DataOK /\ Handles /\ ThreadLifetime /\ [Next]_vars => DataOK' /\ Handles'
<1> SUFFICES ASSUME DataOK, Handles, ThreadLifetime, [Next]_vars
             PROVE  DataOK' /\ Handles'
  OBVIOUS
<1> USE NoNodeAssumption DEF DataOK, Handles, Node, workerVars, callVars
<1>1. CASE Tick
  BY <1>1 DEF Tick
<1>2. CASE WorkerNext
  <2>1. CASE RunLoop
    BY <2>1 DEF RunLoop
  <2>2. CASE ProcessTasks
    BY <2>2 DEF ProcessTasks, TakeOrSleep, Take, BackToLoop, Earliest
  <2>3. CASE IdleWake
    BY <2>3 DEF IdleWake, TakeOrSleep, Take, BackToLoop, Earliest
  <2>4. CASE SleepWake
    BY <2>4 DEF SleepWake, BackToLoop
  <2>5. CASE SleepTimeout
    BY <2>5 DEF SleepTimeout, Take, BackToLoop, Earliest
  <2>6. CASE TaskReturns
    BY <2>6 DEF TaskReturns
  <2> QED BY <1>2, <2>1, <2>2, <2>3, <2>4, <2>5, <2>6 DEF WorkerNext
<1>3. CASE OwnerNext
  BY <1>3 DEF OwnerNext, Start, StopBegin, StopFlag, StopNotify, StopJoin,
              MayCall, ThreadLifetime
<1>4. CASE CallerNext
  <2> PICK c \in Callers :
           \/ \E t \in fresh, d \in Delays : PostStamp(c, t, d)
           \/ PostPush(c)
           \/ PostNotify(c)
    BY <1>4 DEF CallerNext
  <2>1. CASE \E t \in fresh, d \in Delays : PostStamp(c, t, d)
    BY <2>1, TimeAssumption DEF PostStamp
  <2>2. CASE PostPush(c)
    BY <2>2 DEF PostPush
  <2>3. CASE PostNotify(c)
    BY <2>3 DEF PostNotify
  <2> QED BY <2>1, <2>2, <2>3
<1>5. CASE SpuriousWakeup
  BY <1>5 DEF SpuriousWakeup
<1>6. CASE UNCHANGED vars
  BY <1>6 DEF vars
<1> QED BY <1>1, <1>2, <1>3, <1>4, <1>5, <1>6 DEF Next

LEMMA LifecycleStep ==
  FlagsOK /\ DataOK /\ Lifecycle /\ [Next]_vars => Lifecycle'
<1> SUFFICES ASSUME FlagsOK, DataOK, Lifecycle, [Next]_vars
             PROVE  Lifecycle'
  OBVIOUS
<1> USE ThreadsAssumption
    DEF FlagsOK, DataOK, Lifecycle, ThreadLifetime, Callers, workerVars, callVars
<1>1. CASE Tick
  BY <1>1 DEF Tick
<1>2. CASE WorkerNext
  <2>1. CASE RunLoop
    BY <2>1 DEF RunLoop
  <2>2. CASE ProcessTasks
    BY <2>2 DEF ProcessTasks, TakeOrSleep, Take, BackToLoop
  <2>3. CASE IdleWake
    BY <2>3 DEF IdleWake, TakeOrSleep, Take, BackToLoop
  <2>4. CASE SleepWake
    BY <2>4 DEF SleepWake, BackToLoop
  <2>5. CASE SleepTimeout
    BY <2>5 DEF SleepTimeout, Take, BackToLoop
  <2>6. CASE TaskReturns
    BY <2>6 DEF TaskReturns
  <2> QED BY <1>2, <2>1, <2>2, <2>3, <2>4, <2>5, <2>6 DEF WorkerNext
<1>3. CASE OwnerNext
  <2>1. CASE Start
    BY <2>1 DEF Start, MayCall
  <2>2. CASE StopBegin
    BY <2>2 DEF StopBegin, MayCall
  <2>3. CASE StopFlag \/ StopNotify
    BY <2>3 DEF StopFlag, StopNotify
  <2>4. CASE StopJoin
    BY <2>4 DEF StopJoin
  <2> QED BY <1>3, <2>1, <2>2, <2>3, <2>4 DEF OwnerNext
<1>4. CASE CallerNext
  BY <1>4 DEF CallerNext, PostStamp, PostPush, PostNotify, MayCall
<1>5. CASE SpuriousWakeup
  BY <1>5 DEF SpuriousWakeup
<1>6. CASE UNCHANGED vars
  BY <1>6 DEF vars
<1> QED BY <1>1, <1>2, <1>3, <1>4, <1>5, <1>6 DEF Next
-----------------------------------------------------------------------------
LEMMA AccountingStep ==
  DataOK /\ Handles /\ Lifecycle /\ Accounting /\ [Next]_vars => Accounting'
<1> SUFFICES ASSUME DataOK, Handles, Lifecycle, Accounting, [Next]_vars
             PROVE  Accounting'
  OBVIOUS
<1> USE DEF Accounting
<1> DEFINE Same == /\ fresh' = fresh /\ queue' = queue /\ done' = done
                   /\ cpc' = cpc /\ arg' = arg
           Began(n) == /\ n \in queue
                       /\ queue' = queue \ {n} /\ current' = n
                       /\ cpc' = cpc /\ arg' = arg
                       /\ fresh' = fresh /\ done' = done
<1>1. ASSUME Same, current' = current PROVE Accounting'
  BY <1>1
<1>2. ASSUME NEW n \in queue, Began(n), wpc # "task" PROVE Accounting'
  <2>1. current = NoNode
    BY <1>2 DEF Handles
  <2> QED BY <1>2, <2>1
<1> HIDE DEF Accounting
<1>3. CASE Tick
  BY <1>3, <1>1 DEF Tick, workerVars, callVars
<1>4. CASE WorkerNext
  <2> USE DEF callVars
  <2>1. CASE RunLoop
    BY <2>1, <1>1 DEF RunLoop
  <2>2. CASE ProcessTasks
    BY <2>2, <1>1, <1>2 DEF ProcessTasks, TakeOrSleep, Take, BackToLoop, Earliest
  <2>3. CASE IdleWake
    BY <2>3, <1>1, <1>2 DEF IdleWake, TakeOrSleep, Take, BackToLoop, Earliest
  <2>4. CASE SleepWake
    BY <2>4, <1>1 DEF SleepWake, BackToLoop
  <2>5. CASE SleepTimeout
    BY <2>5, <1>1, <1>2 DEF SleepTimeout, Take, BackToLoop, Earliest
  <2>6. CASE TaskReturns
    <3>1. current # NoNode /\ current \in Node
      BY <2>6 DEF TaskReturns, Handles, DataOK
    <3> QED BY <2>6, <3>1 DEF TaskReturns, Accounting
  <2> QED BY <1>4, <2>1, <2>2, <2>3, <2>4, <2>5, <2>6 DEF WorkerNext
<1>5. CASE OwnerNext
  BY <1>5, <1>1 DEF OwnerNext, Start, StopBegin, StopFlag, StopNotify, StopJoin,
                    workerVars, callVars
<1>6. CASE CallerNext
  <2> PICK c \in Callers :
           \/ \E t \in fresh, d \in Delays : PostStamp(c, t, d)
           \/ PostPush(c)
           \/ PostNotify(c)
    BY <1>6 DEF CallerNext
  <2>1. CASE \E t \in fresh, d \in Delays : PostStamp(c, t, d)
    <3> PICK t \in fresh, d \in Delays : PostStamp(c, t, d)
      BY <2>1
    <3>1. arg'[c].task = t /\ \A e \in Callers : e # c => arg'[e] = arg[e]
      BY DEF PostStamp, DataOK
    <3>2. cpc'[c] = "push" /\ \A e \in Callers : e # c => cpc'[e] = cpc[e]
      BY DEF PostStamp, DataOK
    <3>3. UNCHANGED <<queue, current, done>> /\ fresh' = fresh \ {t}
      BY DEF PostStamp, workerVars
    <3>4. cpc[c] = "out"
      BY DEF PostStamp, MayCall
    <3> QED BY <3>1, <3>2, <3>3, <3>4 DEF Accounting
  <2>2. CASE PostPush(c)
    <3>1. arg'[c] = NoNode /\ \A e \in Callers : e # c => arg'[e] = arg[e]
      BY <2>2 DEF PostPush, DataOK
    <3>2. cpc'[c] = "notify" /\ \A e \in Callers : e # c => cpc'[e] = cpc[e]
      BY <2>2 DEF PostPush, DataOK
    <3>3. UNCHANGED <<fresh, current, done>> /\ queue' = queue \cup {arg[c]}
      BY <2>2 DEF PostPush, workerVars
    <3>4. cpc[c] = "push"
      BY <2>2 DEF PostPush
    <3> QED BY <3>1, <3>2, <3>3, <3>4 DEF Accounting
  <2>3. CASE PostNotify(c)
    <3>1. cpc'[c] = "out" /\ \A e \in Callers : e # c => cpc'[e] = cpc[e]
      BY <2>3 DEF PostNotify, DataOK
    <3>2. UNCHANGED <<queue, current, done, fresh, arg>>
      BY <2>3 DEF PostNotify
    <3> QED BY <3>1, <3>2 DEF Accounting
  <2> QED BY <2>1, <2>2, <2>3
<1>7. CASE SpuriousWakeup
  BY <1>7, <1>1 DEF SpuriousWakeup, callVars
<1>8. CASE UNCHANGED vars
  BY <1>8, <1>1 DEF vars, workerVars, callVars
<1> QED BY <1>3, <1>4, <1>5, <1>6, <1>7, <1>8 DEF Next
-----------------------------------------------------------------------------
LEMMA WakeupStep ==
  DataOK /\ Lifecycle /\ NoLostWakeup /\ [Next]_vars => NoLostWakeup'
<1> SUFFICES ASSUME DataOK, Lifecycle, NoLostWakeup, [Next]_vars
             PROVE  NoLostWakeup'
  OBVIOUS
<1> USE DEF NoLostWakeup, Waiting, workerVars, callVars
<1>1. CASE Tick
  BY <1>1 DEF Tick
<1>2. CASE WorkerNext
  <2>1. CASE RunLoop
    BY <2>1 DEF RunLoop
  <2>2. CASE ProcessTasks
    <3>1. wpc' = "idle" => queue' = {} /\ ~stop_flag'
      BY <2>2 DEF ProcessTasks, TakeOrSleep, Take, BackToLoop
    <3>2. wpc' = "sleep" => ~stop_flag'
      BY <2>2 DEF ProcessTasks, TakeOrSleep, Take, BackToLoop
    <3> QED BY <3>1, <3>2
  <2>3. CASE IdleWake
    <3>1. wpc' = "idle" => queue' = {} /\ ~stop_flag'
      BY <2>3 DEF IdleWake, TakeOrSleep, Take, BackToLoop
    <3>2. wpc' = "sleep" => ~stop_flag'
      BY <2>3 DEF IdleWake, TakeOrSleep, Take, BackToLoop
    <3> QED BY <3>1, <3>2
  <2>4. CASE SleepWake
    BY <2>4 DEF SleepWake, BackToLoop
  <2>5. CASE SleepTimeout
    BY <2>5 DEF SleepTimeout, Take, BackToLoop
  <2>6. CASE TaskReturns
    BY <2>6 DEF TaskReturns
  <2> QED BY <1>2, <2>1, <2>2, <2>3, <2>4, <2>5, <2>6 DEF WorkerNext
<1>3. CASE OwnerNext
  <2>1. CASE Start
    BY <2>1 DEF Start
  <2>2. CASE StopBegin
    BY <2>2 DEF StopBegin, MayCall
  <2>3. CASE StopFlag
    BY <2>3 DEF StopFlag
  <2>4. CASE StopNotify
    BY <2>4 DEF StopNotify, Notify
  <2>5. CASE StopJoin
    BY <2>5 DEF StopJoin
  <2> QED BY <1>3, <2>1, <2>2, <2>3, <2>4, <2>5 DEF OwnerNext
<1>4. CASE CallerNext
  <2> PICK c \in Callers :
           \/ \E t \in fresh, d \in Delays : PostStamp(c, t, d)
           \/ PostPush(c)
           \/ PostNotify(c)
    BY <1>4 DEF CallerNext
  <2>1. CASE \E t \in fresh, d \in Delays : PostStamp(c, t, d)
    <3>1. cpc[c] = "out" /\ \A e \in Callers : e # c => cpc'[e] = cpc[e]
      BY <2>1 DEF PostStamp, MayCall, DataOK
    <3> QED BY <2>1, <3>1 DEF PostStamp
  <2>2. CASE PostPush(c)
    <3>1. cpc'[c] = "notify"
      BY <2>2 DEF PostPush, DataOK
    <3> QED BY <2>2, <3>1 DEF PostPush
  <2>3. CASE PostNotify(c)
    BY <2>3 DEF PostNotify, Notify
  <2> QED BY <2>1, <2>2, <2>3
<1>5. CASE SpuriousWakeup
  BY <1>5 DEF SpuriousWakeup
<1>6. CASE UNCHANGED vars
  BY <1>6 DEF vars
<1> QED BY <1>1, <1>2, <1>3, <1>4, <1>5, <1>6 DEF Next

LEMMA SleepStep ==
  DataOK /\ Lifecycle /\ SleepHasTask /\ [Next]_vars => SleepHasTask'
<1> SUFFICES ASSUME DataOK, Lifecycle, SleepHasTask, [Next]_vars
             PROVE  SleepHasTask'
  OBVIOUS
<1> USE DEF SleepHasTask, workerVars, callVars
<1>1. CASE Tick
  BY <1>1 DEF Tick
<1>2. CASE WorkerNext
  <2>1. ASSUME TakeOrSleep PROVE SleepHasTask'
    <3> PICK n \in Earliest :
             \/ n.when <= now /\ Take(n)
             \/ n.when > now /\ stop_flag /\ BackToLoop
             \/ /\ n.when > now /\ ~stop_flag
                /\ wpc' = "sleep"
                /\ deadline' = n.when
                /\ UNCHANGED <<queue, current>>
      BY <2>1 DEF TakeOrSleep
    <3>1. n \in queue /\ n.when <= n.when
      BY DEF Earliest, DataOK, Node
    <3> QED BY <3>1 DEF Take, BackToLoop
  <2> QED
    BY <1>2, <2>1 DEF WorkerNext, RunLoop, ProcessTasks, IdleWake, SleepWake,
                      SleepTimeout, TaskReturns, Take, BackToLoop
<1>3. CASE OwnerNext
  BY <1>3 DEF OwnerNext, Start, StopBegin, StopFlag, StopNotify, StopJoin
<1>4. CASE CallerNext
  BY <1>4 DEF CallerNext, PostStamp, PostPush, PostNotify
<1>5. CASE SpuriousWakeup
  BY <1>5 DEF SpuriousWakeup
<1>6. CASE UNCHANGED vars
  BY <1>6 DEF vars
<1> QED BY <1>1, <1>2, <1>3, <1>4, <1>5, <1>6 DEF Next

-----------------------------------------------------------------------------
(* The inductive invariant.                                                *)
IInv ==
  TypeOK /\ Handles /\ Lifecycle /\ Accounting /\ NoLostWakeup /\ SleepHasTask

LEMMA IInvInit == Init => IInv
<1> SUFFICES ASSUME Init
             PROVE  IInv
  OBVIOUS
<1>1. TypeOK /\ Handles
  BY TypeInit
<1>2. Lifecycle
  BY ThreadsAssumption DEF Init, Lifecycle, ThreadLifetime, Callers
<1>3. Accounting
  BY DEF Init, Accounting
<1>4. NoLostWakeup /\ SleepHasTask
  BY DEF Init, NoLostWakeup, SleepHasTask, Waiting
<1> QED BY <1>1, <1>2, <1>3, <1>4 DEF IInv

LEMMA IInvStep == IInv /\ [Next]_vars => IInv'
<1> SUFFICES ASSUME IInv, [Next]_vars
             PROVE  IInv'
  OBVIOUS
<1>1. FlagsOK /\ DataOK /\ Handles /\ Lifecycle /\ ThreadLifetime
  BY TypeParts DEF IInv, Lifecycle
<1>2. FlagsOK' /\ DataOK' /\ Handles'
  BY <1>1, FlagsStep, DataStep
<1>3. TypeOK'
  BY <1>2 DEF TypeOK, FlagsOK, DataOK
<1>4. Lifecycle' /\ Accounting'
  BY <1>1, LifecycleStep, AccountingStep DEF IInv
<1>5. NoLostWakeup' /\ SleepHasTask'
  BY <1>1, WakeupStep, SleepStep DEF IInv
<1> QED BY <1>2, <1>3, <1>4, <1>5 DEF IInv

LEMMA Invariance == Spec => []IInv
  BY IInvInit, IInvStep, PTL DEF Spec

(* Every variable keeps its type, however many tasks and threads there are.*)
THEOREM TypeCorrect == Spec => []TypeOK
<1>1. IInv => TypeOK
  BY DEF IInv
<1> QED BY <1>1, Invariance, PTL

(* No interleaving of PostDelayedTask and Stop with the worker's two waits *)
(* loses a wakeup.                                                         *)
THEOREM WakeupsKept == Spec => []NoLostWakeup
<1>1. IInv => NoLostWakeup
  BY DEF IInv
<1> QED BY <1>1, Invariance, PTL

(* The second top() and the pop() of ProcessTasks find a task, and one     *)
(* that is due: line 93 is dead code.                                      *)
THEOREM SleeperFindsTask == Spec => []SleepHasTask
<1>1. IInv => SleepHasTask
  BY DEF IInv
<1> QED BY <1>1, Invariance, PTL

(* A running thread has a worker in its loop, a stopped one has none.      *)
THEOREM LifetimeHolds == Spec => []ThreadLifetime
<1>1. IInv => ThreadLifetime
  BY DEF IInv, Lifecycle
<1> QED BY <1>1, Invariance, PTL
-----------------------------------------------------------------------------
(* The steps of SimpleThread are steps of TimedExecutor: a push submits,   *)
(* Take begins, TaskReturns completes; Start, StopBegin and StopJoin switch *)
(* the mode, and a draining worker that finds nothing to do gives up.      *)
LEMMA RefinementInit == Init => Executor!ExecInit
  BY DEF Init, Executor!ExecInit, Mode

LEMMA ExecutorBegins ==
  ASSUME IInv, NEW n \in Earliest, n.when <= now, Take(n),
         wpc \in {"process", "idle", "sleep"},
         UNCHANGED <<now, done, opc, running>>
  PROVE  Executor!ExecNext
<1>1. current = NoNode
  BY DEF IInv, Handles
<1>2. Mode \in {"on", "draining"}
  BY DEF Mode, IInv, Lifecycle, ThreadLifetime
<1>3. Mode' = IF Mode = "on" THEN "on" ELSE "drained"
  BY DEF Mode, IInv, Lifecycle, ThreadLifetime, Take
<1>4. Executor!Begin(n)
  BY <1>1, <1>2, <1>3 DEF Executor!Begin, Earliest, Take
<1> QED BY <1>4 DEF Executor!ExecNext, Earliest

LEMMA ExecutorWaits ==
  ASSUME IInv, wpc \in {"process", "idle", "sleep"},
         wpc' \in {"loop", "idle", "sleep"},
         UNCHANGED <<now, queue, current, done, opc, running>>
  PROVE  [Executor!ExecNext]_(Executor!execVars)
<1>1. CASE opc # "idle" /\ wpc' = "loop"
  BY <1>1 DEF Mode, Executor!ExecNext, Executor!GiveUp
<1>2. CASE opc = "idle" \/ wpc' # "loop"
  BY <1>2 DEF Mode, Executor!execVars
<1> QED BY <1>1, <1>2

LEMMA RefinementStep ==
  IInv /\ [Next]_vars => [Executor!ExecNext]_(Executor!execVars)
<1> SUFFICES ASSUME IInv, [Next]_vars
             PROVE  [Executor!ExecNext]_(Executor!execVars)
  OBVIOUS
<1> USE DEF workerVars, callVars
<1>1. CASE Tick
  BY <1>1 DEF Tick, Mode, Executor!ExecNext, Executor!Pass
<1>2. CASE WorkerNext
  <2>1. CASE RunLoop
    BY <2>1 DEF RunLoop, Mode, IInv, Lifecycle, ThreadLifetime, Executor!execVars
  <2>2. ASSUME TakeOrSleep, wpc \in {"process", "idle"},
               UNCHANGED <<now, done, opc, running>>
        PROVE  [Executor!ExecNext]_(Executor!execVars)
    <3>1. CASE \E n \in Earliest : n.when <= now /\ Take(n)
      BY <2>2, <3>1, ExecutorBegins
    <3>2. CASE wpc' \in {"loop", "sleep"} /\ UNCHANGED <<queue, current>>
      BY <2>2, <3>2, ExecutorWaits
    <3> QED BY <2>2, <3>1, <3>2 DEF TakeOrSleep, BackToLoop
  <2>3. CASE ProcessTasks
    BY <2>2, <2>3, ExecutorWaits DEF ProcessTasks, BackToLoop
  <2>4. CASE IdleWake
    BY <2>2, <2>4, ExecutorWaits DEF IdleWake, BackToLoop
  <2>5. CASE SleepWake
    BY <2>5, ExecutorWaits DEF SleepWake, BackToLoop
  <2>6. CASE SleepTimeout
    <3>1. CASE wpc' = "loop" /\ UNCHANGED <<queue, current>>
      BY <2>6, <3>1, ExecutorWaits DEF SleepTimeout
    <3>2. CASE \E n \in Earliest : ~(n.when > now) /\ Take(n)
      <4> PICK n \in Earliest : ~(n.when > now) /\ Take(n)
        BY <3>2
      <4>1. n.when <= now
        BY DEF Earliest, IInv, TypeOK, Node
      <4> QED BY <2>6, <4>1, ExecutorBegins DEF SleepTimeout
    <3> QED BY <2>6, <3>1, <3>2 DEF SleepTimeout, BackToLoop
  <2>7. CASE TaskReturns
    <3>1. current # NoNode /\ Mode' = Mode
      BY <2>7 DEF TaskReturns, IInv, Handles, Mode
    <3> QED BY <2>7, <3>1 DEF TaskReturns, Executor!ExecNext, Executor!Complete
  <2> QED BY <1>2, <2>1, <2>3, <2>4, <2>5, <2>6, <2>7 DEF WorkerNext
<1>3. CASE OwnerNext
  <2>1. CASE Start
    <3>1. Mode = "off" /\ Mode' = "on"
      BY <2>1 DEF Start, MayCall, Mode
    <3> QED BY <2>1, <3>1 DEF Start, Executor!ExecNext, Executor!SwitchOn
  <2>2. CASE StopBegin
    <3>1. Mode = "on" /\ Mode' \in {"draining", "drained"}
      BY <2>2 DEF StopBegin, MayCall, Mode
    <3>2. current # NoNode => Mode' = "drained"
      BY <2>2 DEF StopBegin, Mode, IInv, Handles
    <3> QED BY <2>2, <3>1, <3>2
            DEF StopBegin, Executor!ExecNext, Executor!RequestStop
  <2>3. CASE StopFlag \/ StopNotify
    BY <2>3 DEF StopFlag, StopNotify, Mode, Executor!execVars
  <2>4. CASE StopJoin
    <3>1. Mode = "drained" /\ Mode' = "off" /\ current = NoNode
      BY <2>4 DEF StopJoin, Mode, IInv, Lifecycle, Handles
    <3> QED BY <2>4, <3>1 DEF StopJoin, Executor!ExecNext, Executor!SwitchOff
  <2> QED BY <1>3, <2>1, <2>2, <2>3, <2>4 DEF OwnerNext
<1>4. CASE CallerNext
  <2> PICK c \in Callers :
           \/ \E t \in fresh, d \in Delays : PostStamp(c, t, d)
           \/ PostPush(c)
           \/ PostNotify(c)
    BY <1>4 DEF CallerNext
  <2>1. CASE (\E t \in fresh, d \in Delays : PostStamp(c, t, d)) \/ PostNotify(c)
    BY <2>1 DEF PostStamp, PostNotify, Mode, Executor!execVars
  <2>2. CASE PostPush(c)
    <3>1. arg[c] \in Executor!Node
      BY <2>2 DEF PostPush, IInv, Handles, Node, Executor!Node
    <3>2. /\ arg[c].task \notin done
          /\ \A m \in queue : m.task # arg[c].task
          /\ current # NoNode => current.task # arg[c].task
      BY <2>2 DEF PostPush, IInv, Accounting
    <3>3. Executor!Submit(arg[c])
      BY <2>2, <3>1, <3>2 DEF PostPush, Executor!Submit, Mode
    <3>4. arg[c] \in queue'
      BY <2>2 DEF PostPush
    <3> QED BY <3>3, <3>4 DEF Executor!ExecNext
  <2> QED BY <2>1, <2>2
<1>5. CASE SpuriousWakeup
  BY <1>5 DEF SpuriousWakeup, Mode, Executor!execVars
<1>6. CASE UNCHANGED vars
  BY <1>6 DEF vars, Mode, Executor!execVars
<1> QED BY <1>1, <1>2, <1>3, <1>4, <1>5, <1>6 DEF Next

(* SimpleThread implements TimedExecutor: each posted task runs at most    *)
(* once, alone, not before it is due and after every earlier one that was  *)
(* posted by then; at most one begins once Stop was called.                *)
THEOREM Refinement == Spec => ImplementsExecutor
  BY RefinementInit, RefinementStep, Invariance, PTL
     DEF Spec, ImplementsExecutor, Executor!ExecSpec
=============================================================================
