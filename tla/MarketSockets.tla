--------------------------- MODULE MarketSockets ---------------------------
(* The ConnectionManager behind /ws/market: the list of WebSocket clients, *)
(* and the asyncio task that listens to Redis for all of them.  The first  *)
(* client starts the task, the last one to leave cancels it.               *)
(*                                                                         *)
(* Code between two awaits is one step.  A listener is named after the     *)
(* client whose connect() created it, since a connect creates at most one. *)
EXTENDS Integers, Sequences

CONSTANTS Clients,       \* WebSocket connections, each made once
          Null,          \* Python's None
          MaxTicks,      \* bound: ticks published in a behaviour
          RedisMayFail   \* whether calls to Redis may raise or time out

ASSUME NullAssumption == Null \notin Clients
ASSUME MaxTicksAssumption == MaxTicks \in Nat
ASSUME RedisMayFailAssumption == RedisMayFail \in BOOLEAN

VARIABLES
    published,  \* number of ticks published on market_data
    socket,     \* [Clients -> state of the connection and its market_ws]
    clients,    \* manager._clients
    task,       \* manager._task: the name of a listener, or Null
    listener,   \* [Clients -> the listener this client's connect created]
    got         \* [Clients -> the ticks its peer was sent, each with the listener's since]

vars == <<published, socket, clients, task, listener, got>>

ListenerPc == {"none", "created", "subscribing", "listening", "broadcast",
               "matching", "closing", "done"}
Listener == [pc : ListenerPc,
             cancelled : BOOLEAN,       \* cancel() called, not yet delivered
             seen : Nat,                \* the last tick taken, or missed
             since : Nat,               \* the last tick missed
             todo : SUBSET Clients,     \* _broadcast: still to be sent to
             dead : SUBSET Clients]     \* _broadcast: sending failed
Delivery == [since : Nat, tick : Nat]
NoListener ==
    [pc |-> "none", cancelled |-> FALSE, seen |-> 0, since |-> 0, todo |-> {}, dead |-> {}]

TypeOK ==
    /\ published \in Nat
    /\ socket \in [Clients -> {"new", "open", "gone", "ended"}]
    /\ clients \subseteq Clients
    /\ task \in Clients \cup {Null}
    /\ listener \in [Clients -> Listener]
    /\ got \in [Clients -> Seq(Delivery)]
    /\ \A t \in Clients : listener[t].since <= listener[t].seen /\ listener[t].seen <= published

Init ==
    /\ published = 0
    /\ socket = [c \in Clients |-> "new"]
    /\ clients = {}
    /\ task = Null
    /\ listener = [c \in Clients |-> NoListener]
    /\ got = [c \in Clients |-> <<>>]

Live(t) == listener[t].pc \notin {"none", "done"}
Hearing(t) == listener[t].pc \in {"listening", "broadcast", "matching"}
Running(t) == Live(t) /\ listener[t].pc # "closing" /\ ~listener[t].cancelled

Publish ==
    /\ published < MaxTicks
    /\ published' = published + 1
    /\ UNCHANGED <<socket, clients, task, listener, got>>

----------------------------------------------------------------------------
(* Mutants of NeedsListener: one listener per client; and one that does    *)
(* not wait for a cancelled listener to end.                               *)
NeedsListenerAlways == TRUE
NeedsListenerSoon == task = Null \/ ~Running(task)

(* connect tests whether the task has ended, not whether it is ending. *)
NeedsListener == task = Null \/ ~Live(task)

Connect(c) ==
    /\ socket[c] = "new"
    /\ socket' = [socket EXCEPT ![c] = "open"]
    /\ clients' = clients \cup {c}
    /\ IF NeedsListener
         THEN /\ task' = c
              /\ listener' = [listener EXCEPT ![c].pc = "created"]
         ELSE UNCHANGED <<task, listener>>
    /\ UNCHANGED <<published, got>>

(* websocket.accept raises: connect is left before the client is listed. *)
AcceptFails(c) ==
    /\ socket[c] = "new"
    /\ socket' = [socket EXCEPT ![c] = "ended"]
    /\ UNCHANGED <<published, clients, task, listener, got>>

(* The peer closes, or the network does; nobody has noticed yet.  What is  *)
(* sent from here on vanishes, and what was sent is of no more interest.   *)
PeerLeaves(c) ==
    /\ socket[c] = "open"
    /\ socket' = [socket EXCEPT ![c] = "gone"]
    /\ got' = [got EXCEPT ![c] = <<>>]
    /\ UNCHANGED <<published, clients, task, listener>>

(* disconnect, called for every member of leaving: cancels the task when   *)
(* nobody is left, also for a client that was no longer in the list.       *)
CancelsTask(leaving) ==
    leaving # {} /\ clients \subseteq leaving /\ task # Null /\ Live(task)

Disconnected(leaving, ls) ==
    IF CancelsTask(leaving) THEN [ls EXCEPT ![task].cancelled = TRUE] ELSE ls

(* The finally clause of market_ws. *)
HandlerEnds(c) ==
    /\ socket[c] = "gone"
    /\ socket' = [socket EXCEPT ![c] = "ended"]
    /\ clients' = clients \ {c}
    /\ listener' = Disconnected({c}, listener)
    /\ UNCHANGED <<published, task, got>>

ClientStep(c) == Connect(c) \/ AcceptFails(c) \/ PeerLeaves(c) \/ HandlerEnds(c)

----------------------------------------------------------------------------
(* The listener t.  A step from pc is what follows the await it stands at; *)
(* once cancel() was called, every await raises CancelledError instead.    *)
At(t, pc) == listener[t].pc = pc /\ ~listener[t].cancelled

Goto(t, pc) ==
    /\ listener' = [listener EXCEPT ![t].pc = pc]
    /\ UNCHANGED <<published, socket, clients, task, got>>

Starts(t) == At(t, "created") /\ Goto(t, "subscribing")

(* Redis holds a subscription from here on; earlier ticks are missed. *)
Listens(t) ==
    /\ listener' = [listener EXCEPT ![t].pc = "listening", ![t].seen = published,
                                    ![t].since = published]
    /\ UNCHANGED <<published, socket, clients, task, got>>

Subscribes(t) == At(t, "subscribing") /\ Listens(t)

(* A read that times out makes listen() connect and subscribe again, in    *)
(* the same loop: the ticks that had not arrived are lost.                 *)
Resubscribes(t) == RedisMayFail /\ At(t, "listening") /\ Listens(t)

(* Mutant of HasTick: what listen() yields is not looked at. *)
TakesAnything(t) == published < MaxTicks

HasTick(t) == listener[t].seen < published

(* _broadcast goes through a copy of the client list. *)
TakesTick(t) ==
    /\ At(t, "listening")
    /\ HasTick(t)
    /\ listener' = [listener EXCEPT ![t].pc = "broadcast", ![t].seen = @ + 1,
                                    ![t].todo = clients, ![t].dead = {}]
    /\ UNCHANGED <<published, socket, clients, task, got>>

Sends(t, c) ==
    /\ At(t, "broadcast")
    /\ c \in listener[t].todo
    /\ socket[c] = "open"
    /\ got' = [got EXCEPT ![c] = Append(@, [since |-> listener[t].since,
                                            tick |-> listener[t].seen])]
    /\ listener' = [listener EXCEPT ![t].todo = @ \ {c}]
    /\ UNCHANGED <<published, socket, clients, task>>

(* A send to a peer that has left raises, or vanishes in a buffer. *)
SendsInVain(t, c) ==
    /\ At(t, "broadcast")
    /\ c \in listener[t].todo
    /\ socket[c] # "open"
    /\ \E failed \in SUBSET {c} :
         listener' = [listener EXCEPT ![t].todo = @ \ {c}, ![t].dead = @ \cup failed]
    /\ UNCHANGED <<published, socket, clients, task, got>>

(* Mutant of EndsBroadcast: dead clients are struck off the list only. *)
EndsBroadcastQuietly(t) ==
    /\ At(t, "broadcast")
    /\ listener[t].todo = {}
    /\ clients' = clients \ listener[t].dead
    /\ listener' = [listener EXCEPT ![t].pc = "matching"]
    /\ UNCHANGED <<published, socket, task, got>>

(* The dead are disconnected, by which the listener may cancel itself; it  *)
(* then goes on up to its next await, inside process_price_update.         *)
EndsBroadcast(t) ==
    /\ At(t, "broadcast")
    /\ listener[t].todo = {}
    /\ clients' = clients \ listener[t].dead
    /\ listener' = Disconnected(listener[t].dead, 
           [listener EXCEPT ![t].pc = "matching", ![t].dead = {}])
    /\ UNCHANGED <<published, socket, task, got>>

(* process_price_update returns, or raises what the listener ignores. *)
EndsMatching(t) == At(t, "matching") /\ Goto(t, "listening")

(* On the way out, nothing of what the listener was about matters. *)
Leaves(t, pc) ==
    /\ listener' = [listener EXCEPT ![t] = [NoListener EXCEPT !.pc = pc]]
    /\ UNCHANGED <<published, socket, clients, task, got>>

(* Mutant of CancelDelivered: CancelledError is caught like an Exception.  *)
CancelIgnored(t) ==
    /\ Live(t) /\ listener[t].cancelled
    /\ listener' = [listener EXCEPT ![t].cancelled = FALSE, ![t].pc =
            IF @ = "matching" THEN "listening"
            ELSE IF @ \in {"listening", "broadcast"} THEN "closing" ELSE "done"]
    /\ UNCHANGED <<published, socket, clients, task, got>>

(* CancelledError ends the coroutine before its try and within its finally *)
(* clause, and leads from the try into the finally clause.                 *)
CancelDelivered(t) ==
    /\ Live(t) /\ listener[t].cancelled
    /\ Leaves(t, IF Hearing(t) THEN "closing" ELSE "done")

(* Redis raises: from subscribe and unsubscribe out of the coroutine, from *)
(* listen into the finally clause.                                         *)
RedisFails(t) ==
    /\ RedisMayFail
    /\ \/ At(t, "subscribing") /\ Goto(t, "done")
       \/ At(t, "listening") /\ Leaves(t, "closing")
       \/ At(t, "closing") /\ Goto(t, "done")

Closes(t) == At(t, "closing") /\ Goto(t, "done")

ListenerRuns(t) ==
    \/ Starts(t) \/ Subscribes(t) \/ TakesTick(t)
    \/ \E c \in Clients : Sends(t, c) \/ SendsInVain(t, c)
    \/ EndsBroadcast(t) \/ EndsMatching(t) \/ CancelDelivered(t) \/ Closes(t)

Next ==
    \/ Publish
    \/ \E c \in Clients : ClientStep(c)
    \/ \E t \in Clients : ListenerRuns(t) \/ Resubscribes(t) \/ RedisFails(t)

Spec == Init /\ [][Next]_vars

(* The event loop runs every task that can run; whether peers connect or   *)
(* leave, and whether ticks are published, is up to others.                *)
Fairness == \A c \in Clients : WF_vars(HandlerEnds(c)) /\ WF_vars(ListenerRuns(c))
FairSpec == Spec /\ Fairness

----------------------------------------------------------------------------
(* At most one listener exists at a time, and the manager holds it: nobody *)
(* is sent a tick twice, and cancel() reaches the listener that exists     *)
(* (ws.py:34, ws.py:42).                                                   *)
OneListener == \A t \in Clients : Live(t) => t = task

(* Whoever disconnects the last client, a handler or the listener itself   *)
(* in _broadcast, has told the listener to end (ws.py:42, ws.py:53).       *)
IdleListenerStops == clients = {} => \A t \in Clients : ~Running(t)

(* A client is sent ticks in the order they were published and none twice; *)
(* between two it misses only those published before the subscription that *)
(* brought the second, and those only if it is new since the first.        *)
(* Copies of the list, failed sends, newcomers and another listener cost   *)
(* it none (ws.py:47).                                                     *)
Later(m, n) == IF m < n THEN n ELSE m

TicksInOrder ==
    \A c \in Clients : \A i \in 1..(Len(got[c]) - 1) :
        got[c][i + 1].tick = Later(got[c][i].tick, got[c][i + 1].since) + 1

(* Once the last client has left, the listener ends unless somebody comes: *)
(* no Redis subscription is kept for nobody (ws.py:43, ws.py:75).          *)
IdleListenerEnds == clients = {} ~> (clients # {} \/ \A t \in Clients : ~Live(t))

(* The broadcast is for "all clients" (ws.py:23): a client on the list     *)
(* leaves it or finds a running listener.  The code breaks this: a client  *)
(* that connects while the task is being cancelled gets none, for good.    *)
ClientsAreServed ==
    \A c \in Clients : c \in clients ~> (c \notin clients \/ \E t \in Clients : Running(t))

----------------------------------------------------------------------------
(* What the invariants rest on.                                            *)

(* A connection is listed from connect up to disconnect, which nobody      *)
(* calls while its peer is there; before connect it has created no task.   *)
Listed ==
    \A c \in Clients :
        /\ socket[c] = "open" => c \in clients
        /\ c \in clients => socket[c] \in {"open", "gone"}
        /\ socket[c] = "new" => listener[c].pc = "none" /\ got[c] = <<>>

(* Only a peer that was connected is sent to, and only one that has left   *)
(* can fail a send.                                                        *)
DeadAreGone ==
    \A t, c \in Clients :
        /\ c \in listener[t].todo => socket[c] # "new"
        /\ c \in listener[t].dead => socket[c] \in {"gone", "ended"}

LastOf(c) == got[c][Len(got[c])]

(* Whoever is still there was sent the last tick that its listener took,   *)
(* unless it waits for that one, or nothing since the listener subscribed. *)
Waits(t, c) == listener[t].pc = "broadcast" /\ c \in listener[t].todo

SentSoFar(t, c) ==
    Later(LastOf(c).tick, listener[t].since)
        = IF Waits(t, c) THEN listener[t].seen - 1 ELSE listener[t].seen

UpToDate ==
    \A c \in Clients : got[c] # <<>> =>
        /\ LastOf(c).tick <= published
        /\ \A t \in Clients : Hearing(t) /\ socket[c] = "open" => SentSoFar(t, c)

SocketInv ==
    /\ TypeOK
    /\ OneListener
    /\ IdleListenerStops
    /\ Listed
    /\ DeadAreGone
    /\ UpToDate
    /\ TicksInOrder
=============================================================================
