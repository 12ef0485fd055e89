---------------------------- MODULE EngineProofs ----------------------------
(* Engines: ticks of any number and errors in any order.                   *)
EXTENDS Engines, TLAPS

LEMMA InitHolds == Init => EngineInv
<1> SUFFICES ASSUME Init PROVE EngineInv
  OBVIOUS
<1>1. <<>> \in Seq(Ticks)
  OBVIOUS
<1>2. backlog \in [Engines -> Seq(Ticks)]
  BY <1>1 DEF Init
<1>3. TypeOK
  BY <1>2 DEF Init, NoTask, TypeOK, ServerPc, TaskPc
<1> QED BY <1>3 DEF Init, NoTask, EngineInv, OnlyStopCancels, StoppedLeave, EndsForCause

(* A step of an engine changes its own task; what it makes of its backlog  *)
(* and of the client is up to it.                                          *)
EngineStep(e) == EngineRuns(e) \/ DbFails(e) \/ RedisFails(e)

LEMMA TailOfTicks ==
  ASSUME NEW s \in Seq(Ticks), s # <<>>
  PROVE  Tail(s) \in Seq(Ticks)
  OBVIOUS

LEMMA GotoTypes ==
  ASSUME TypeOK, NEW e \in Engines, NEW from, NEW to \in TaskPc, Goto(e, from, to)
  PROVE  task' \in [Engines -> [pc : TaskPc, cancelled : BOOLEAN]]
  BY DEF Goto, TypeOK

LEMMA EngineStepTyped ==
  ASSUME TypeOK, NEW e \in Engines, EngineStep(e)
  PROVE  TypeOK'
<1>1. CASE TakeTick(e)
  <2>1. backlog' \in [Engines -> Seq(Ticks)]
    BY <1>1, TailOfTicks DEF TakeTick, TypeOK
  <2>2. task' \in [Engines -> [pc : TaskPc, cancelled : BOOLEAN]]
    BY <1>1, GotoTypes DEF TakeTick, TaskPc
  <2> QED BY <1>1, <2>1, <2>2 DEF TakeTick, TypeOK
<1>2. CASE Begin(e) \/ Subscribe(e) \/ Handled(e) \/ Unsubscribe(e) \/ Close(e)
  <2>1. task' \in [Engines -> [pc : TaskPc, cancelled : BOOLEAN]]
    BY <1>2, GotoTypes DEF Begin, Subscribe, Handled, Unsubscribe, Close, TaskPc
  <2> QED BY <1>2, <2>1 DEF Begin, Subscribe, Handled, Unsubscribe, Close, TypeOK
<1>3. CASE CancelDelivered(e)
  BY <1>3 DEF CancelDelivered, AfterError, TypeOK, TaskPc
<1>4. CASE DbFails(e)
  <2>1. task' \in [Engines -> [pc : TaskPc, cancelled : BOOLEAN]]
    BY <1>4, GotoTypes DEF DbFails, TaskPc
  <2> QED BY <1>4, <2>1 DEF DbFails, TypeOK
<1>5. CASE RedisFails(e)
  <2>1. task' \in [Engines -> [pc : TaskPc, cancelled : BOOLEAN]]
    BY <1>5, GotoTypes DEF RedisFails, AfterError, TaskPc
  <2> QED BY <1>5, <2>1 DEF RedisFails, TypeOK
<1> QED BY <1>1, <1>2, <1>3, <1>4, <1>5 DEF EngineStep, EngineRuns

(* Where a step leads: it cancels nothing, a stopped task does not enter   *)
(* its loop again, and a task leaves its loop with a cause.                *)
LEMMA EngineStepLeads ==
  ASSUME TypeOK, OnlyStopCancels, NEW e \in Engines, EngineStep(e)
  PROVE  /\ server' = server
         /\ \A f \in Engines \ {e} : task'[f] = task[f] /\ cause'[f] = cause[f]
         /\ task'[e].cancelled => task[e].cancelled
         /\ task[e].pc # "none"
         /\ task[e].cancelled => task'[e].pc \in {"unsubscribing", "ended"}
         /\ task[e].pc \in {"unsubscribing", "closing", "ended"}
               => task'[e].pc \in {"unsubscribing", "closing", "ended"}
         /\ \/ task[e].cancelled
            \/ task'[e].pc \notin {"unsubscribing", "closing", "ended"}
            \/ task[e].pc \in {"unsubscribing", "closing"} /\ cause'[e] = cause[e]
            \/ cause'[e] = "redis"
            \/ e = "stoploss" /\ cause'[e] = "database"
<1>1. CASE Begin(e) \/ Subscribe(e) \/ TakeTick(e) \/ Handled(e) \/ Unsubscribe(e) \/ Close(e)
  BY <1>1 DEF Begin, Subscribe, TakeTick, Handled, Unsubscribe, Close, Goto, TypeOK
<1>2. CASE CancelDelivered(e)
  BY <1>2 DEF CancelDelivered, AfterError, TypeOK, OnlyStopCancels, Done
<1>3. CASE DbFails(e)
  BY <1>3 DEF DbFails, Goto, TypeOK
<1>4. CASE RedisFails(e)
  BY <1>4 DEF RedisFails, AfterError, Goto, TypeOK
<1> QED BY <1>1, <1>2, <1>3, <1>4 DEF EngineStep, EngineRuns

LEMMA EngineStepUncancelled ==
  ASSUME TypeOK, NEW e \in Engines, EngineStep(e)
  PROVE  ~task'[e].cancelled
<1>1. ASSUME NEW from, NEW to, Goto(e, from, to)
      PROVE  ~task'[e].cancelled
  BY <1>1 DEF Goto, TypeOK
<1>2. CASE Begin(e) \/ Subscribe(e) \/ TakeTick(e) \/ Handled(e) \/ Unsubscribe(e) \/ Close(e)
  BY <1>1, <1>2 DEF Begin, Subscribe, TakeTick, Handled, Unsubscribe, Close
<1>3. CASE DbFails(e) \/ RedisFails(e)
  BY <1>1, <1>3 DEF DbFails, RedisFails
<1>4. CASE CancelDelivered(e)
  BY <1>4 DEF CancelDelivered, TypeOK
<1> QED BY <1>2, <1>3, <1>4 DEF EngineStep, EngineRuns

LEMMA EngineStepKeeps ==
  ASSUME EngineInv, NEW e \in Engines, EngineStep(e)
  PROVE  EngineInv'
<1>0. TypeOK /\ OnlyStopCancels /\ StoppedLeave /\ EndsForCause
  BY DEF EngineInv
<1> USE <1>0
<1>1. TypeOK'
  BY EngineStepTyped
<1>2. OnlyStopCancels'
  <2> SUFFICES ASSUME NEW f \in Engines, task'[f].cancelled
              PROVE  server' \notin {"new", "serving"} /\ ~Done(task'[f])
    BY DEF OnlyStopCancels
  <2>1. CASE f = e
    BY <2>1, EngineStepLeads, EngineStepUncancelled DEF OnlyStopCancels
  <2>2. CASE f # e
    BY <2>2, EngineStepLeads DEF OnlyStopCancels
  <2> QED BY <2>1, <2>2
<1>3. StoppedLeave'
  BY EngineStepLeads DEF StoppedLeave
<1>4. server' = "new" => \A f \in Engines : task'[f].pc = "none"
  BY EngineStepLeads DEF EngineInv
<1>5. EndsForCause'
  <2> SUFFICES ASSUME server' = "serving", NEW f \in Engines,
                      task'[f].pc \in {"unsubscribing", "closing", "ended"}
              PROVE  cause'[f] \in (IF f = "stoploss" THEN {"redis", "database"} ELSE {"redis"})
    BY DEF EndsForCause
  <2>1. ~task[f].cancelled
    BY EngineStepLeads DEF OnlyStopCancels
  <2>2. CASE f = e
    BY <2>1, <2>2, EngineStepLeads DEF EndsForCause
  <2>3. CASE f # e
    BY <2>3, EngineStepLeads DEF EndsForCause
  <2> QED BY <2>2, <2>3
<1> QED BY <1>1, <1>2, <1>3, <1>4, <1>5 DEF EngineInv

(* Startup and the two cancellations act on both tasks alike. *)
LEMMA ServerStepKeeps ==
  ASSUME EngineInv, Startup \/ Shutdown \/ CloseRedis \/ LoopEnds
  PROVE  EngineInv'
<1>0. TypeOK /\ OnlyStopCancels /\ StoppedLeave /\ EndsForCause
  BY DEF EngineInv
<1> USE <1>0
<1>1. CASE Startup
  BY <1>1 DEF Startup, Started, Done, EngineInv, TypeOK, ServerPc, TaskPc, OnlyStopCancels,
              StoppedLeave, EndsForCause
<1>2. CASE Shutdown \/ LoopEnds
  <2>1. \A e \in Engines :
            /\ task'[e] = Stopped(task[e])
            /\ task'[e] \in [pc : TaskPc, cancelled : BOOLEAN]
            /\ task'[e].pc = task[e].pc
            /\ task'[e].cancelled <=> ~Done(task[e])
    <3> SUFFICES ASSUME NEW e \in Engines
                PROVE  /\ task'[e] = Stopped(task[e])
                       /\ task'[e] \in [pc : TaskPc, cancelled : BOOLEAN]
                       /\ task'[e].pc = task[e].pc
                       /\ task'[e].cancelled <=> ~Done(task[e])
      OBVIOUS
    <3>1. task'[e] = Stopped(task[e])
      BY <1>2 DEF Shutdown, LoopEnds
    <3>2. task[e] \in [pc : TaskPc, cancelled : BOOLEAN]
      BY DEF TypeOK
    <3>3. CASE Done(task[e])
      BY <3>1, <3>2, <3>3 DEF Stopped, OnlyStopCancels
    <3>4. CASE ~Done(task[e])
      BY <3>1, <3>2, <3>4 DEF Stopped
    <3> QED BY <3>3, <3>4
  <2>2. TypeOK'
    BY <1>2, <2>1 DEF Shutdown, LoopEnds, TypeOK, ServerPc
  <2>3. OnlyStopCancels' /\ StoppedLeave'
    BY <1>2, <2>1 DEF Shutdown, LoopEnds, OnlyStopCancels, StoppedLeave, Done
  <2> QED BY <1>2, <2>2, <2>3 DEF Shutdown, LoopEnds, EngineInv, EndsForCause
<1>3. CASE CloseRedis
  BY <1>3 DEF CloseRedis, Done, EngineInv, TypeOK, ServerPc, TaskPc, OnlyStopCancels,
              StoppedLeave, EndsForCause
<1> QED BY <1>1, <1>2, <1>3

LEMMA PublishKeeps ==
  ASSUME EngineInv, NEW k \in Ticks, Publish(k)
  PROVE  EngineInv'
<1>1. backlog' \in [Engines -> Seq(Ticks)]
  BY DEF EngineInv, TypeOK, Publish
<1> QED BY <1>1 DEF EngineInv, TypeOK, Publish, OnlyStopCancels, Done, StoppedLeave, EndsForCause

LEMMA StepKeeps == EngineInv /\ [Next]_vars => EngineInv'
<1> SUFFICES ASSUME EngineInv, [Next]_vars PROVE EngineInv'
  OBVIOUS
<1>1. CASE Next
  BY <1>1, ServerStepKeeps, PublishKeeps, EngineStepKeeps DEF Next, EngineStep
<1>2. CASE UNCHANGED vars
  BY <1>2 DEF vars, EngineInv, TypeOK, OnlyStopCancels, Done, StoppedLeave, EndsForCause
<1> QED BY <1>1, <1>2

(* The inductive invariant of the engines' tasks: a cancellation is        *)
(* pending only after a stop and only for a task that runs, and after a    *)
(* stop a task is either still to meet it or past its loop.                *)
THEOREM EngineInvariant == Spec => []EngineInv
  BY InitHolds, StepKeeps, PTL DEF Spec

(* While the server runs, a task leaves its loop only for an error that it *)
(* met, and the matching engine only for one of Redis.                     *)
THEOREM EndedForCause == Spec => []EndsForCause
<1>1. EngineInv => EndsForCause
  BY DEF EngineInv
<1> QED BY <1>1, EngineInvariant, PTL

(* After the stop, a step of an engine takes no tick and makes no client.  *)
LEMMA EngineStepQuiet ==
  ASSUME EngineInv, server \notin {"new", "serving"}, NEW e \in Engines, EngineStep(e)
  PROVE  backlog' = backlog /\ (client' => client)
<1>1. task[e].cancelled \/ task[e].pc \in {"none", "unsubscribing", "closing", "ended"}
  BY DEF EngineInv, StoppedLeave
<1>2. ~TakeTick(e) /\ ~Begin(e)
  BY <1>1 DEF TakeTick, Begin, Goto
<1> QED BY <1>2 DEF EngineStep, EngineRuns, Subscribe, Handled, Unsubscribe, Close,
                    CancelDelivered, DbFails, RedisFails

LEMMA StepQuiet ==
  ASSUME EngineInv, [Next]_vars
  PROVE  [server \notin {"new", "serving"} =>
             /\ \A e \in Engines : Len(backlog'[e]) >= Len(backlog[e])
             /\ client' => client]_vars
<1> SUFFICES ASSUME Next, server \notin {"new", "serving"}
            PROVE  /\ \A e \in Engines : Len(backlog'[e]) >= Len(backlog[e])
                   /\ client' => client
  OBVIOUS
<1>0. \A e \in Engines : backlog[e] \in Seq(Ticks)
  BY DEF EngineInv, TypeOK
<1>1. \A e \in Engines : Len(backlog[e]) \in Nat
  BY <1>0
<1>2. CASE Startup \/ Shutdown \/ CloseRedis \/ LoopEnds
  BY <1>1, <1>2 DEF Startup, Shutdown, CloseRedis, LoopEnds
<1>3. ASSUME NEW k \in Ticks, Publish(k)
      PROVE  /\ \A e \in Engines : Len(backlog'[e]) >= Len(backlog[e])
             /\ client' => client
  <2> SUFFICES ASSUME NEW e \in Engines PROVE Len(backlog'[e]) >= Len(backlog[e])
    BY <1>3 DEF Publish
  <2>1. backlog'[e] = Append(backlog[e], k) \/ backlog'[e] = backlog[e]
    BY <1>3 DEF Publish
  <2> QED BY <1>0, <1>1, <2>1
<1>4. ASSUME NEW e \in Engines, EngineStep(e)
      PROVE  /\ \A f \in Engines : Len(backlog'[f]) >= Len(backlog[f])
             /\ client' => client
  BY <1>1, <1>4, EngineStepQuiet
<1> QED BY <1>2, <1>3, <1>4 DEF Next, EngineStep

(* A server that has stopped its engines handles no tick and opens no      *)
(* connection any more, wherever the cancellation meets them.              *)
THEOREM StoppedStayQuiet == Spec => QuietAfterStop
  BY EngineInvariant, StepQuiet, PTL DEF Spec, QuietAfterStop
=============================================================================
