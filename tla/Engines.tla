------------------------------- MODULE Engines -------------------------------
(* The tasks of the matching engine and the stop-loss engine in the life   *)
(* of the server.  lifespan starts and cancels them; they share one client *)
(* of Redis, which lifespan closes without waiting for them to end.        *)
EXTENDS Integers, Sequences

CONSTANTS MaxBacklog,   \* bound: ticks waiting for an engine
          RedisMayFail, DbMayFail

ASSUME BacklogAssumption == MaxBacklog \in Nat \ {0}
ASSUME FailAssumption == RedisMayFail \in BOOLEAN /\ DbMayFail \in BOOLEAN

VARIABLES
    server,   \* where lifespan is, and the process around it
    client,   \* whether core/redis.py holds a client
    task,     \* [Engines -> where _run is, and whether it is to be cancelled]
    backlog,  \* [Engines -> ticks sent to it that it has not taken]
    cause     \* [Engines -> the last error that its _run met]

vars == <<server, client, task, backlog, cause>>

Engines == {"stoploss", "matching"}
Ticks == {"price", "malformed"}
ServerPc == {"new", "serving", "closing", "closed", "ending"}
TaskPc == {"none", "created", "subscribing", "listening", "handling",
           "unsubscribing", "closing", "ended"}

TypeOK ==
    /\ server \in ServerPc /\ client \in BOOLEAN
    /\ task \in [Engines -> [pc : TaskPc, cancelled : BOOLEAN]]
    /\ backlog \in [Engines -> Seq(Ticks)]
    /\ cause \in [Engines -> {"none", "redis", "database"}]

NoTask == [pc |-> "none", cancelled |-> FALSE]

Init ==
    /\ server = "new" /\ client = FALSE
    /\ task = [e \in Engines |-> NoTask]
    /\ backlog = [e \in Engines |-> <<>>]
    /\ cause = [e \in Engines |-> "none"]

Done(t) == t.pc \in {"none", "ended"}

----------------------------------------------------------------------------
(* lifespan, and the event loop that ends after it *)

Started(t) == IF Done(t) THEN [pc |-> "created", cancelled |-> FALSE] ELSE t

Startup ==
    /\ server = "new" /\ server' = "serving"
    /\ task' = [e \in Engines |-> Started(task[e])]
    /\ UNCHANGED <<client, backlog, cause>>

(* stop(): a request to cancel, which the task meets when it runs next. *)
Stopped(t) == IF Done(t) THEN t ELSE [t EXCEPT !.cancelled = TRUE]

Shutdown ==
    /\ server = "serving" /\ server' = "closing"
    /\ task' = [e \in Engines |-> Stopped(task[e])]
    /\ UNCHANGED <<client, backlog, cause>>

(* close_redis; if aclose raises, the client is kept. *)
CloseRedis ==
    /\ server = "closing" /\ server' = "closed"
    /\ client' = FALSE \/ (RedisMayFail /\ UNCHANGED client)
    /\ UNCHANGED <<task, backlog, cause>>

(* asyncio.run cancels what is still running, some of it again. *)
LoopEnds ==
    /\ server = "closed" /\ server' = "ending"
    /\ task' = [e \in Engines |-> Stopped(task[e])]
    /\ UNCHANGED <<client, backlog, cause>>

----------------------------------------------------------------------------
(* _run of an engine *)

Goto(e, from, to) ==
    /\ task[e].pc = from /\ ~task[e].cancelled
    /\ task' = [task EXCEPT ![e].pc = to]

(* get_redis makes the client that both share. *)
Begin(e) ==
    /\ Goto(e, "created", "subscribing") /\ client' = TRUE
    /\ UNCHANGED <<server, backlog, cause>>

Subscribe(e) ==
    Goto(e, "subscribing", "listening") /\ UNCHANGED <<server, client, backlog, cause>>

Hears(e) == task[e].pc \in {"listening", "handling"}

Publish(k) ==
    /\ \A e \in Engines : Len(backlog[e]) < MaxBacklog
    /\ \E e \in Engines : Hears(e)
    /\ backlog' = [e \in Engines |-> IF Hears(e) THEN Append(backlog[e], k) ELSE backlog[e]]
    /\ UNCHANGED <<server, client, task, cause>>

(* Mutant of TakeTick: what cannot be parsed ends the loop. *)
TakeTickStrictly(e) ==
    /\ backlog[e] # <<>>
    /\ Goto(e, "listening", IF Head(backlog[e]) = "price" THEN "handling" ELSE "unsubscribing")
    /\ backlog' = [backlog EXCEPT ![e] = Tail(@)]
    /\ UNCHANGED <<server, client, cause>>

(* A tick that cannot be parsed is skipped. *)
TakeTick(e) ==
    /\ backlog[e] # <<>>
    /\ Goto(e, "listening", IF Head(backlog[e]) = "price" THEN "handling" ELSE "listening")
    /\ backlog' = [backlog EXCEPT ![e] = Tail(@)]
    /\ UNCHANGED <<server, client, cause>>

Handled(e) ==
    Goto(e, "handling", "listening") /\ UNCHANGED <<server, client, backlog, cause>>

(* process_price_update catches every error, and _try_execute its own; one *)
(* in the scan of _check_symbol leaves the loop.                           *)
DbFails(e) ==
    /\ DbMayFail
    /\ \/ Goto(e, "handling", "listening")
       \/ e = "stoploss" /\ Goto(e, "handling", "unsubscribing")
    /\ cause' = [cause EXCEPT ![e] = "database"]
    /\ UNCHANGED <<server, client, backlog>>

(* An error ends the task: before the try at once, in the loop through the *)
(* finally clause, and in the finally clause without the rest of it.       *)
AfterError(pc) == IF pc \in {"listening", "handling"} THEN "unsubscribing" ELSE "ended"

RedisFails(e) ==
    /\ RedisMayFail
    /\ task[e].pc \in {"subscribing", "listening", "unsubscribing", "closing"}
    /\ Goto(e, task[e].pc, AfterError(task[e].pc))
    /\ cause' = [cause EXCEPT ![e] = "redis"]
    /\ UNCHANGED <<server, client, backlog>>

Unsubscribe(e) ==
    Goto(e, "unsubscribing", "closing") /\ UNCHANGED <<server, client, backlog, cause>>

Close(e) == Goto(e, "closing", "ended") /\ UNCHANGED <<server, client, backlog, cause>>

(* Mutant of CancelDelivered: the handling of a tick swallows it. *)
CancelSwallowed(e) ==
    /\ task[e].cancelled
    /\ task' = [task EXCEPT ![e] =
          [pc |-> IF task[e].pc = "handling" THEN "listening" ELSE AfterError(task[e].pc),
           cancelled |-> FALSE]]
    /\ UNCHANGED <<server, client, backlog, cause>>

(* CancelledError is raised at the await where the task is, or instead of  *)
(* its first line.  A second one cuts the finally clause short.            *)
CancelDelivered(e) ==
    /\ task[e].cancelled
    /\ task' = [task EXCEPT ![e] = [pc |-> AfterError(task[e].pc), cancelled |-> FALSE]]
    /\ UNCHANGED <<server, client, backlog, cause>>

EngineRuns(e) ==
    \/ Begin(e) \/ Subscribe(e) \/ TakeTick(e) \/ Handled(e)
    \/ Unsubscribe(e) \/ Close(e) \/ CancelDelivered(e)

Next ==
    \/ Startup \/ Shutdown \/ CloseRedis \/ LoopEnds
    \/ \E k \in Ticks : Publish(k)
    \/ \E e \in Engines : EngineRuns(e) \/ DbFails(e) \/ RedisFails(e)

Spec == Init /\ [][Next]_vars

(* The event loop runs both tasks, and a shutdown that has begun goes on.  *)
Fairness ==
    /\ WF_vars(CloseRedis) /\ WF_vars(LoopEnds)
    /\ \A e \in Engines : WF_vars(EngineRuns(e))
FairSpec == Spec /\ Fairness

----------------------------------------------------------------------------
(* While the server runs, an engine leaves its loop only for an error that *)
(* it met: Redis may end both, the database only the stop-loss engine      *)
(* (order_matching_service.py:106); a tick that is no JSON, or lacks a     *)
(* symbol or a price, ends neither (matching_engine.py:44).  What the text *)
(* of a tick makes the driver of Redis or the database raise is an error   *)
(* of that driver here.                                                    *)
EndsForCause ==
    server = "serving" => \A e \in Engines :
        task[e].pc \in {"unsubscribing", "closing", "ended"} =>
            cause[e] \in (IF e = "stoploss" THEN {"redis", "database"} ELSE {"redis"})

(* From the moment lifespan stops the engines, neither takes another tick  *)
(* nor makes another client, although nobody waits for them: an order is   *)
(* not filled by a server that has closed its connections (main.py:20).    *)
QuietAfterStop ==
    [][server \notin {"new", "serving"} =>
           /\ \A e \in Engines : Len(backlog'[e]) >= Len(backlog[e])
           /\ client' => client]_vars

(* Both tasks end after a shutdown, wherever it met them (main.py:20).     *)
EnginesEnd == server = "closing" ~> \A e \in Engines : Done(task[e])

(* "Runs as a persistent background task (started from app lifespan)."     *)
(* (matching_engine.py:4).  The code breaks this: nobody starts an engine  *)
(* again that an error has ended.                                          *)
EnginesPersist == server = "serving" => \A e \in Engines : task[e].pc # "ended"

----------------------------------------------------------------------------
(* What the properties rest on: only a stop cancels, and only what runs;   *)
(* a task that was stopped has its cancellation before it or its loop      *)
(* behind it.                                                              *)
OnlyStopCancels ==
    \A e \in Engines : task[e].cancelled =>
        server \notin {"new", "serving"} /\ ~Done(task[e])

StoppedLeave ==
    server \notin {"new", "serving"} => \A e \in Engines :
        task[e].cancelled \/ task[e].pc \in {"none", "unsubscribing", "closing", "ended"}

EngineInv ==
    /\ TypeOK
    /\ OnlyStopCancels
    /\ StoppedLeave
    /\ server = "new" => \A e \in Engines : task[e].pc = "none"
    /\ EndsForCause
=============================================================================
