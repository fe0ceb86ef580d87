---------------------------- MODULE TimedExecutor ----------------------------
(***************************************************************************)
(* What SimpleThread promises to the code that posts to it, without its    *)
(* mutex, its condition variable or its loop: a bag of timed tasks, at     *)
(* most one of which runs at a time, each of which runs at most once and   *)
(* never before it is due, earliest first; and a stop request after which  *)
(* at most one more task begins.                                           *)
(***************************************************************************)
EXTENDS Naturals

CONSTANTS Tasks,   (* the tasks that are ever posted                       *)
          NoNode   (* the value of busy while nothing runs                 *)

VARIABLES now,      (* the steady clock                                    *)
          pending,  (* the tasks that were submitted and did not begin     *)
          busy,     (* the task that runs, or NoNode                       *)
          done,     (* the tasks that have run to their end                *)
          mode      (* off, on, draining (one more may begin), drained     *)

execVars == <<now, pending, busy, done, mode>>

Node == [task : Tasks, when : Nat]

ExecInit ==
  /\ now = 0
  /\ pending = {}
  /\ busy = NoNode
  /\ done = {}
  /\ mode = "off"

(* The clock never runs backwards.                                         *)
Pass ==
  /\ now' = now + 1
  /\ UNCHANGED <<pending, busy, done, mode>>

(* A task is accepted in every mode, and only once.                        *)
Submit(n) ==
  /\ n \in Node
  /\ n.task \notin done
  /\ \A m \in pending : m.task # n.task
  /\ busy # NoNode => busy.task # n.task
  /\ pending' = pending \cup {n}
  /\ UNCHANGED <<now, busy, done, mode>>

(* The earliest due task begins. After a stop request it is the last one.  *)
Begin(n) ==
  /\ mode \in {"on", "draining"}
  /\ busy = NoNode
  /\ n \in pending
  /\ n.when <= now
  /\ \A m \in pending : n.when <= m.when
  /\ pending' = pending \ {n}
  /\ busy' = n
  /\ mode' = IF mode = "on" THEN "on" ELSE "drained"
  /\ UNCHANGED <<now, done>>

Complete ==
  /\ busy # NoNode
  /\ done' = done \cup {busy.task}
  /\ busy' = NoNode
  /\ UNCHANGED <<now, pending, mode>>

SwitchOn ==
  /\ mode = "off"
  /\ mode' = "on"
  /\ UNCHANGED <<now, pending, busy, done>>

(* A task that runs when the stop is requested is the last one.            *)
RequestStop ==
  /\ mode = "on"
  /\ mode' \in {"draining", "drained"}
  /\ busy # NoNode => mode' = "drained"
  /\ UNCHANGED <<now, pending, busy, done>>

GiveUp ==
  /\ mode = "draining"
  /\ mode' = "drained"
  /\ UNCHANGED <<now, pending, busy, done>>

(* The stop returns once nothing runs any more; what is pending stays.     *)
SwitchOff ==
  /\ mode = "drained"
  /\ busy = NoNode
  /\ mode' = "off"
  /\ UNCHANGED <<now, pending, busy, done>>

ExecNext ==
  \/ Pass
  \/ \E n \in pending' : Submit(n)
  \/ \E n \in pending : Begin(n)
  \/ Complete
  \/ SwitchOn
  \/ RequestStop
  \/ GiveUp
  \/ SwitchOff

ExecSpec == ExecInit /\ [][ExecNext]_execVars
=============================================================================
