---------------------------- MODULE SocketProofs ----------------------------
(* Proofs about MarketSockets: for any number of clients, ticks and Redis  *)
(* failures, one listener at most, none for nobody, and ticks in order.    *)
EXTENDS MarketSockets, TLAPS

(* The fields of a listener. *)
LEMMA ListenerFields ==
    ASSUME TypeOK, NEW t \in Clients
    PROVE  /\ listener[t].pc \in ListenerPc
           /\ listener[t].cancelled \in BOOLEAN
           /\ listener[t].seen \in Nat /\ listener[t].since \in Nat
           /\ listener[t].todo \subseteq Clients
           /\ listener[t].dead \subseteq Clients
  BY DEF TypeOK, Listener

(* What a step does to one listener if it leaves the others alone. *)
Becomes(t, pc, cancelled, seen, since, todo, dead) ==
    /\ listener' \in [Clients -> Listener]
    /\ listener'[t].pc = pc
    /\ listener'[t].cancelled = cancelled
    /\ listener'[t].seen = seen
    /\ listener'[t].since = since
    /\ listener'[t].todo = todo
    /\ listener'[t].dead = dead
    /\ \A u \in Clients : u # t => listener'[u] = listener[u]

(* What EXCEPT does to the function of listeners. *)
LEMMA ListenerSet ==
    ASSUME TypeOK, NEW t \in Clients, NEW l \in Listener,
           listener' = [listener EXCEPT ![t] = l]
    PROVE  Becomes(t, l.pc, l.cancelled, l.seen, l.since, l.todo, l.dead)
  BY DEF Becomes, TypeOK

(* A listener that is not ahead of the channel afterwards keeps the types. *)
LEMMA TypeByBecomes ==
    ASSUME TypeOK, NEW t \in Clients, NEW pc, NEW b, NEW n, NEW m, NEW S, NEW D,
           Becomes(t, pc, b, n, m, S, D), m <= n, n <= published, published' = published
    PROVE  /\ listener' \in [Clients -> Listener]
           /\ \A u \in Clients :
                listener'[u].since <= listener'[u].seen /\ listener'[u].seen <= published'
  BY DEF Becomes, TypeOK

(* Goto changes the place and nothing else. *)
LEMMA GotoBecomes ==
    ASSUME TypeOK, NEW t \in Clients, NEW pc \in ListenerPc, Goto(t, pc)
    PROVE  Becomes(t, pc, listener[t].cancelled, listener[t].seen, listener[t].since,
                   listener[t].todo, listener[t].dead)
<1>1. /\ listener[t] \in Listener
      /\ pc \in ListenerPc
      /\ listener[t].seen \in Nat /\ listener[t].since \in Nat
      /\ listener[t].todo \subseteq Clients
    BY ListenerFields DEF TypeOK, ListenerPc
<1> DEFINE l == [listener[t] EXCEPT !.pc = pc]
<1>2. /\ l \in Listener
      /\ l.pc = pc /\ l.cancelled = listener[t].cancelled
      /\ l.seen = listener[t].seen /\ l.since = listener[t].since /\ l.todo = listener[t].todo
      /\ l.dead = listener[t].dead
    BY <1>1 DEF Listener, ListenerPc
<1>3. listener' = [listener EXCEPT ![t] = l]
    BY DEF Goto, TypeOK
<1> HIDE DEF l
<1> QED BY <1>2, <1>3, ListenerSet

(* connect creates the listener of that client. *)
LEMMA ConnectBecomes ==
    ASSUME TypeOK, NEW t \in Clients, Connect(t), NeedsListener
    PROVE  Becomes(t, "created", listener[t].cancelled, listener[t].seen, listener[t].since,
                   listener[t].todo, listener[t].dead)
<1>1. /\ listener[t] \in Listener
      /\ "created" \in ListenerPc
      /\ listener[t].seen \in Nat /\ listener[t].since \in Nat
      /\ listener[t].todo \subseteq Clients
    BY ListenerFields DEF TypeOK, ListenerPc
<1> DEFINE l == [listener[t] EXCEPT !.pc = "created"]
<1>2. /\ l \in Listener
      /\ l.pc = "created" /\ l.cancelled = listener[t].cancelled
      /\ l.seen = listener[t].seen /\ l.since = listener[t].since /\ l.todo = listener[t].todo
      /\ l.dead = listener[t].dead
    BY <1>1 DEF Listener, ListenerPc
<1>3. listener' = [listener EXCEPT ![t] = l]
    BY DEF Connect, TypeOK
<1> HIDE DEF l
<1> QED BY <1>2, <1>3, ListenerSet

(* A subscription starts at the end of the channel. *)
LEMMA ListensBecomes ==
    ASSUME TypeOK, NEW t \in Clients, Listens(t)
    PROVE  Becomes(t, "listening", listener[t].cancelled, published, published,
                   listener[t].todo, listener[t].dead)
<1>1. /\ listener[t] \in Listener
      /\ "listening" \in ListenerPc
      /\ published \in Nat
    BY ListenerFields DEF TypeOK, ListenerPc
<1> DEFINE l == [listener[t] EXCEPT !.pc = "listening", !.seen = published, !.since = published]
<1>2. /\ l \in Listener
      /\ l.pc = "listening" /\ l.cancelled = listener[t].cancelled
      /\ l.seen = published /\ l.since = published
      /\ l.todo = listener[t].todo /\ l.dead = listener[t].dead
    BY <1>1 DEF Listener, ListenerPc
<1>3. listener' = [listener EXCEPT ![t] = l]
    BY DEF Listens, TypeOK
<1> HIDE DEF l
<1> QED BY <1>2, <1>3, ListenerSet

(* A tick is taken, with a copy of the client list. *)
LEMMA TakesTickBecomes ==
    ASSUME TypeOK, NEW t \in Clients, TakesTick(t)
    PROVE  Becomes(t, "broadcast", listener[t].cancelled, listener[t].seen + 1,
                   listener[t].since, clients, {})
<1>1. /\ listener[t] \in Listener
      /\ "broadcast" \in ListenerPc
      /\ listener[t].seen + 1 \in Nat
      /\ clients \subseteq Clients
    BY ListenerFields DEF TypeOK, ListenerPc
<1> DEFINE l == [listener[t] EXCEPT !.pc = "broadcast",
                                    !.seen = listener[t].seen + 1,
                                    !.todo = clients,
                                    !.dead = {}]
<1>2. /\ l \in Listener
      /\ l.pc = "broadcast" /\ l.cancelled = listener[t].cancelled
      /\ l.seen = listener[t].seen + 1 /\ l.since = listener[t].since /\ l.todo = clients
      /\ l.dead = {}
    BY <1>1 DEF Listener, ListenerPc
<1>3. listener' = [listener EXCEPT ![t] = l]
    BY DEF TakesTick, TypeOK
<1> HIDE DEF l
<1> QED BY <1>2, <1>3, ListenerSet

(* A client that was sent to is struck off the copy. *)
LEMMA SendsBecomes ==
    ASSUME TypeOK, NEW t \in Clients, NEW c \in Clients, Sends(t, c)
    PROVE  Becomes(t, listener[t].pc, listener[t].cancelled, listener[t].seen, listener[t].since,
                   listener[t].todo \ {c}, listener[t].dead)
<1>1. /\ listener[t] \in Listener
      /\ listener[t].pc \in ListenerPc
      /\ listener[t].seen \in Nat /\ listener[t].since \in Nat
      /\ listener[t].todo \ {c} \subseteq Clients
    BY ListenerFields DEF TypeOK, ListenerPc
<1> DEFINE l == [listener[t] EXCEPT !.todo = listener[t].todo \ {c}]
<1>2. /\ l \in Listener
      /\ l.pc = listener[t].pc /\ l.cancelled = listener[t].cancelled
      /\ l.seen = listener[t].seen /\ l.since = listener[t].since /\ l.todo = listener[t].todo \ {c}
      /\ l.dead = listener[t].dead
    BY <1>1 DEF Listener, ListenerPc
<1>3. listener' = [listener EXCEPT ![t] = l]
    BY DEF Sends, TypeOK
<1> HIDE DEF l
<1> QED BY <1>2, <1>3, ListenerSet

(* So is one that has left, and it may be noted as dead. *)
LEMMA SendsInVainBecomes ==
    ASSUME TypeOK, NEW t \in Clients, NEW c \in Clients, SendsInVain(t, c)
    PROVE  \E failed \in SUBSET {c} :
             Becomes(t, listener[t].pc, listener[t].cancelled, listener[t].seen, listener[t].since,
                     listener[t].todo \ {c}, listener[t].dead \cup failed)
<1> PICK failed \in SUBSET {c} :
      listener' = [listener EXCEPT ![t].todo = @ \ {c}, ![t].dead = @ \cup failed]
    BY DEF SendsInVain
<1>1. /\ listener[t] \in Listener
      /\ listener[t].todo \ {c} \in SUBSET Clients
      /\ listener[t].dead \cup failed \in SUBSET Clients
    BY ListenerFields DEF TypeOK
<1> DEFINE l == [listener[t] EXCEPT !.todo = listener[t].todo \ {c},
                                    !.dead = listener[t].dead \cup failed]
<1>2. /\ l \in Listener
      /\ l.pc = listener[t].pc /\ l.cancelled = listener[t].cancelled
      /\ l.seen = listener[t].seen /\ l.since = listener[t].since /\ l.todo = listener[t].todo \ {c}
      /\ l.dead = listener[t].dead \cup failed
    BY <1>1 DEF Listener, ListenerPc
<1>3. listener' = [listener EXCEPT ![t] = l]
    BY DEF Listener, TypeOK
<1> HIDE DEF l
<1>4. Becomes(t, listener[t].pc, listener[t].cancelled, listener[t].seen, listener[t].since,
              listener[t].todo \ {c}, listener[t].dead \cup failed)
    <2>1. Becomes(t, l.pc, l.cancelled, l.seen, l.since, l.todo, l.dead)
        BY <1>2, <1>3, ListenerSet
    <2> QED BY <1>2, <2>1 DEF Becomes
<1> QED BY <1>4

(* A listener on its way out has nothing else. *)
LEMMA LeavesBecomes ==
    ASSUME TypeOK, NEW t \in Clients, NEW pc \in ListenerPc, Leaves(t, pc)
    PROVE  Becomes(t, pc, FALSE, 0, 0, {}, {})
<1> DEFINE l == [NoListener EXCEPT !.pc = pc]
<1>1. /\ l \in Listener
      /\ l.pc = pc /\ l.cancelled = FALSE
      /\ l.seen = 0 /\ l.since = 0 /\ l.todo = {} /\ l.dead = {}
    BY DEF NoListener, Listener, ListenerPc
<1>2. listener' = [listener EXCEPT ![t] = l]
    BY DEF Leaves
<1> HIDE DEF l
<1> QED BY <1>1, <1>2, ListenerSet

(* Where the ways out start, and where they lead. *)
LEMMA WaysOut ==
    ASSUME NEW t \in Clients, CancelDelivered(t) \/ RedisFails(t)
    PROVE  /\ Live(t)
           /\ \E pc \in {"closing", "done"} : Leaves(t, pc) \/ Goto(t, pc)
  BY DEF CancelDelivered, RedisFails, Live, At

(* disconnect marks the task at most. *)
LEMMA DisconnectedFields ==
    ASSUME TypeOK, NEW leaving, NEW ls \in [Clients -> Listener]
    PROVE  /\ Disconnected(leaving, ls) \in [Clients -> Listener]
           /\ \A u \in Clients :
                /\ Disconnected(leaving, ls)[u].pc = ls[u].pc
                /\ Disconnected(leaving, ls)[u].seen = ls[u].seen
                /\ Disconnected(leaving, ls)[u].since = ls[u].since
                /\ Disconnected(leaving, ls)[u].todo = ls[u].todo
                /\ Disconnected(leaving, ls)[u].dead = ls[u].dead
                /\ ~(u = task /\ CancelsTask(leaving))
                     => Disconnected(leaving, ls)[u].cancelled = ls[u].cancelled
                /\ u = task /\ CancelsTask(leaving)
                     => Disconnected(leaving, ls)[u].cancelled = TRUE
<1>1. CASE ~CancelsTask(leaving) BY <1>1 DEF Disconnected
<1>2. CASE CancelsTask(leaving)
    <2> DEFINE l == [ls[task] EXCEPT !.cancelled = TRUE]
    <2>1. task \in Clients /\ ls[task] \in Listener BY <1>2 DEF CancelsTask, TypeOK
    <2>2. /\ l \in Listener
          /\ l.pc = ls[task].pc /\ l.seen = ls[task].seen /\ l.since = ls[task].since
          /\ l.todo = ls[task].todo /\ l.dead = ls[task].dead
          /\ l.cancelled = TRUE
        BY <2>1 DEF Listener
    <2>3. Disconnected(leaving, ls) = [ls EXCEPT ![task] = l]
        BY <1>2, <2>1 DEF Disconnected
    <2> HIDE DEF l
    <2> QED BY <1>2, <2>1, <2>2, <2>3
<1> QED BY <1>1, <1>2

(* A broadcast that ends moves its listener on, before it disconnects. *)
LEMMA MatchingNext ==
    ASSUME TypeOK, NEW t \in Clients
    PROVE  LET ls == [listener EXCEPT ![t].pc = "matching", ![t].dead = {}] IN
           /\ ls \in [Clients -> Listener]
           /\ ls[t].pc = "matching" /\ ls[t].dead = {}
           /\ \A u \in Clients : u # t => ls[u] = listener[u]
           /\ \A u \in Clients :
                /\ ls[u].seen = listener[u].seen
                /\ ls[u].since = listener[u].since
                /\ ls[u].cancelled = listener[u].cancelled
                /\ ls[u].todo = listener[u].todo
<1> DEFINE l == [listener[t] EXCEPT !.pc = "matching", !.dead = {}]
<1>1. listener[t] \in Listener BY DEF TypeOK
<1>2. /\ l \in Listener /\ l.pc = "matching" /\ l.seen = listener[t].seen
      /\ l.since = listener[t].since /\ l.cancelled = listener[t].cancelled
      /\ l.todo = listener[t].todo /\ l.dead = {}
    BY <1>1 DEF Listener, ListenerPc
<1>3. [listener EXCEPT ![t].pc = "matching", ![t].dead = {}] = [listener EXCEPT ![t] = l]
    BY DEF TypeOK
<1> HIDE DEF l
<1> QED BY <1>2, <1>3 DEF TypeOK

(* What disconnect leaves of the listeners ls: marks at most. *)
OnlyMarks(leaving, ls) ==
    /\ listener' \in [Clients -> Listener]
    /\ \A u \in Clients :
         /\ listener'[u].pc = ls[u].pc /\ listener'[u].seen = ls[u].seen
         /\ listener'[u].since = ls[u].since
         /\ listener'[u].todo = ls[u].todo /\ listener'[u].dead = ls[u].dead
         /\ ls[u].cancelled => listener'[u].cancelled
         /\ u = task /\ CancelsTask(leaving) => listener'[u].cancelled

(* A handler that ends only marks. *)
LEMMA HandlerEndsFields ==
    ASSUME TypeOK, NEW c \in Clients, HandlerEnds(c)
    PROVE  OnlyMarks({c}, listener)
<1> DEFINE leaving == {c}  after == Disconnected(leaving, listener)
<1>1. listener \in [Clients -> Listener] BY DEF TypeOK
<1>2. listener' = after BY DEF HandlerEnds
<1> HIDE DEF leaving
<1>3. /\ after \in [Clients -> Listener]
      /\ \A u \in Clients :
           /\ after[u].pc = listener[u].pc
           /\ after[u].seen = listener[u].seen
           /\ after[u].since = listener[u].since
           /\ after[u].todo = listener[u].todo
           /\ after[u].dead = listener[u].dead
           /\ ~(u = task /\ CancelsTask(leaving))
                => after[u].cancelled = listener[u].cancelled
           /\ u = task /\ CancelsTask(leaving) => after[u].cancelled = TRUE
    BY <1>1, DisconnectedFields
<1> HIDE DEF after
<1>4. ASSUME NEW u \in Clients, listener[u].cancelled PROVE after[u].cancelled
    BY <1>3, <1>4
<1>5. ASSUME NEW u \in Clients, u = task, CancelsTask(leaving) PROVE after[u].cancelled
    BY <1>3, <1>5
<1>6. OnlyMarks(leaving, listener) BY <1>2, <1>3, <1>4, <1>5 DEF OnlyMarks
<1> QED BY <1>6 DEF leaving

(* A broadcast that ends moves its listener on, and marks. *)
LEMMA EndsBroadcastFields ==
    ASSUME TypeOK, NEW t \in Clients, EndsBroadcast(t)
    PROVE  /\ listener' \in [Clients -> Listener]
           /\ listener'[t].pc = "matching" /\ listener'[t].dead = {}
           /\ \A u \in Clients :
                /\ u # t => listener'[u].pc = listener[u].pc
                /\ listener'[u].seen = listener[u].seen
                /\ listener'[u].since = listener[u].since
                /\ listener'[u].todo = listener[u].todo
                /\ u # t => listener'[u].dead = listener[u].dead
                /\ listener[u].cancelled => listener'[u].cancelled
                /\ u = task /\ CancelsTask(listener[t].dead) => listener'[u].cancelled
<1> DEFINE ls == [listener EXCEPT ![t].pc = "matching", ![t].dead = {}]
<1>1. /\ ls \in [Clients -> Listener] /\ ls[t].pc = "matching" /\ ls[t].dead = {}
      /\ \A u \in Clients :
           /\ u # t => ls[u].pc = listener[u].pc
           /\ u # t => ls[u].dead = listener[u].dead
           /\ ls[u].seen = listener[u].seen /\ ls[u].cancelled = listener[u].cancelled
           /\ ls[u].since = listener[u].since /\ ls[u].todo = listener[u].todo
    BY MatchingNext
<1> HIDE DEF ls
<1>2. listener' = Disconnected(listener[t].dead, ls)
    BY DEF EndsBroadcast, ls
<1> DEFINE leaving == listener[t].dead  after == Disconnected(leaving, ls)
<1>3. listener' = after BY <1>2
<1>4. ls \in [Clients -> Listener] BY <1>1
<1> HIDE DEF leaving
<1>5. /\ after \in [Clients -> Listener]
      /\ \A u \in Clients :
           /\ after[u].pc = ls[u].pc
           /\ after[u].seen = ls[u].seen
           /\ after[u].since = ls[u].since
           /\ after[u].todo = ls[u].todo
           /\ after[u].dead = ls[u].dead
           /\ ~(u = task /\ CancelsTask(leaving))
                => after[u].cancelled = ls[u].cancelled
           /\ u = task /\ CancelsTask(leaving) => after[u].cancelled = TRUE
    BY <1>4, DisconnectedFields
<1> HIDE DEF after
<1>6. \A u \in Clients : ls[u].cancelled => after[u].cancelled
    BY <1>5
<1>7. \A u \in Clients : u = task /\ CancelsTask(leaving) => after[u].cancelled
    BY <1>5
<1> QED BY <1>1, <1>3, <1>5, <1>6, <1>7 DEF leaving

(* Variables keep their types, and no listener is ahead of the channel. *)
LEMMA TypeKept == TypeOK /\ [Next]_vars => TypeOK'
<1> SUFFICES ASSUME TypeOK, [Next]_vars PROVE TypeOK'
    OBVIOUS
<1>0. published \in Nat BY DEF TypeOK
<1>1. CASE Publish
    <2>1. published' \in Nat /\ published <= published'
        BY <1>0, <1>1 DEF Publish
    <2>2. \A t \in Clients :
            listener'[t].since <= listener'[t].seen /\ listener'[t].seen <= published'
        BY <1>1, <2>1, ListenerFields DEF Publish, TypeOK
    <2> QED BY <1>1, <2>1, <2>2 DEF Publish, TypeOK
<1>2. ASSUME NEW t \in Clients, NEW n, NEW m, published' = published, m <= n, n <= published,
             \E pc, b, S, D : Becomes(t, pc, b, n, m, S, D)
      PROVE  /\ listener' \in [Clients -> Listener]
             /\ \A u \in Clients :
                  listener'[u].since <= listener'[u].seen /\ listener'[u].seen <= published'
    <2> PICK pc, b, S, D : Becomes(t, pc, b, n, m, S, D) BY <1>2
    <2> QED BY <1>2, TypeByBecomes
<1>3. ASSUME NEW c \in Clients, ClientStep(c) PROVE TypeOK'
    <2>1. CASE Connect(c) /\ NeedsListener
        <3>1. /\ listener[c].since <= listener[c].seen /\ listener[c].seen <= published
              /\ published' = published
            BY <2>1 DEF TypeOK, Connect
        <3>2. \E pc, b, S, D :
                Becomes(c, pc, b, listener[c].seen, listener[c].since, S, D)
            BY <2>1, ConnectBecomes
        <3>3. /\ listener' \in [Clients -> Listener]
              /\ \A u \in Clients :
                   listener'[u].since <= listener'[u].seen /\ listener'[u].seen <= published'
            BY <1>2, <3>1, <3>2
        <3> QED BY <2>1, <3>3 DEF Connect, TypeOK
    <2>2. CASE Connect(c) /\ ~NeedsListener BY <2>2 DEF Connect, TypeOK
    <2>3. CASE AcceptFails(c) \/ PeerLeaves(c)
        <3>1. got' \in [Clients -> Seq(Delivery)]
            <4>1. CASE AcceptFails(c) BY <4>1 DEF AcceptFails, TypeOK
            <4>2. CASE PeerLeaves(c)
                <5>1. got \in [Clients -> Seq(Delivery)] /\ <<>> \in Seq(Delivery)
                    BY DEF TypeOK
                <5>2. got' = [got EXCEPT ![c] = <<>>] BY <4>2 DEF PeerLeaves
                <5> QED BY <5>1, <5>2
            <4> QED BY <2>3, <4>1, <4>2
        <3>2. /\ UNCHANGED <<published, clients, task, listener>>
              /\ socket' \in [Clients -> {"new", "open", "gone", "ended"}]
            BY <2>3 DEF AcceptFails, PeerLeaves, TypeOK
        <3> QED BY <3>1, <3>2 DEF TypeOK
    <2>4. CASE HandlerEnds(c)
        BY <2>4, HandlerEndsFields DEF HandlerEnds, OnlyMarks, TypeOK
    <2> QED BY <1>3, <2>1, <2>2, <2>3, <2>4 DEF ClientStep
<1>4. ASSUME NEW t \in Clients, NEW pc \in ListenerPc, Goto(t, pc) PROVE TypeOK'
    <2>1. /\ listener[t].since <= listener[t].seen /\ listener[t].seen <= published
          /\ published' = published
        BY <1>4 DEF TypeOK, Goto
    <2>2. \E p, b, S, D : Becomes(t, p, b, listener[t].seen, listener[t].since, S, D)
        BY <1>4, GotoBecomes
    <2> QED BY <1>2, <1>4, <2>1, <2>2 DEF Goto, TypeOK
<1>5. ASSUME NEW t \in Clients, NEW pc \in ListenerPc, Leaves(t, pc) PROVE TypeOK'
    <2>1. \E p, b, S, D : Becomes(t, p, b, 0, 0, S, D)
        BY <1>5, LeavesBecomes
    <2>2. 0 <= 0 /\ 0 <= published /\ published' = published
        BY <1>0, <1>5 DEF Leaves
    <2> QED BY <1>2, <1>5, <2>1, <2>2 DEF Leaves, TypeOK
<1>6. ASSUME NEW t \in Clients, ListenerRuns(t) \/ Resubscribes(t) \/ RedisFails(t) PROVE TypeOK'
    <2>0. /\ listener[t].seen \in Nat /\ listener[t].seen <= published
          /\ listener[t].since \in Nat /\ listener[t].since <= listener[t].seen
        BY ListenerFields DEF TypeOK
    <2>1. CASE Starts(t) \/ EndsMatching(t) \/ Closes(t)
        BY <1>4, <2>1 DEF Starts, EndsMatching, Closes, ListenerPc
    <2>2. CASE Subscribes(t) \/ Resubscribes(t)
        <3>1. Listens(t) BY <2>2 DEF Subscribes, Resubscribes
        <3>2. published' = published /\ published <= published BY <1>0, <3>1 DEF Listens
        <3>3. \E p, b, S, D : Becomes(t, p, b, published, published, S, D)
            BY <3>1, ListensBecomes
        <3> QED BY <1>2, <3>1, <3>2, <3>3 DEF Listens, TypeOK
    <2>3. CASE TakesTick(t)
        <3>1. /\ published' = published /\ listener[t].seen + 1 <= published
              /\ listener[t].since <= listener[t].seen + 1
            BY <1>0, <2>0, <2>3 DEF TakesTick, HasTick
        <3>2. \E p, b, S, D : Becomes(t, p, b, listener[t].seen + 1, listener[t].since, S, D)
            BY <2>3, TakesTickBecomes
        <3> QED BY <1>2, <2>3, <3>1, <3>2 DEF TakesTick, TypeOK
    <2>4. ASSUME NEW c \in Clients, Sends(t, c) PROVE TypeOK'
        <3>1. [since |-> listener[t].since, tick |-> listener[t].seen] \in Delivery
            BY <2>0 DEF Delivery
        <3>2. got' \in [Clients -> Seq(Delivery)]
            BY <2>4, <3>1 DEF Sends, TypeOK
        <3>3. \E p, b, S, D : Becomes(t, p, b, listener[t].seen, listener[t].since, S, D)
            BY <2>4, SendsBecomes
        <3>4. published' = published BY <2>4 DEF Sends
        <3> QED BY <1>2, <2>0, <2>4, <3>2, <3>3, <3>4 DEF Sends, TypeOK
    <2>5. ASSUME NEW c \in Clients, SendsInVain(t, c) PROVE TypeOK'
        <3>1. \E p, b, S, D : Becomes(t, p, b, listener[t].seen, listener[t].since, S, D)
            <4> PICK failed \in SUBSET {c} :
                  Becomes(t, listener[t].pc, listener[t].cancelled, listener[t].seen,
                          listener[t].since, listener[t].todo \ {c}, listener[t].dead \cup failed)
                BY <2>5, SendsInVainBecomes
            <4> QED OBVIOUS
        <3>2. published' = published BY <2>5 DEF SendsInVain
        <3> QED BY <1>2, <2>0, <2>5, <3>1, <3>2 DEF SendsInVain, TypeOK
    <2>6. CASE EndsBroadcast(t)
        <3>1. /\ listener' \in [Clients -> Listener]
              /\ \A u \in Clients : /\ listener'[u].seen = listener[u].seen
                                     /\ listener'[u].since = listener[u].since
            BY <2>6, EndsBroadcastFields
        <3>2. clients' \subseteq Clients /\ UNCHANGED <<published, socket, task, got>>
            BY <2>6 DEF EndsBroadcast, TypeOK
        <3> QED BY <3>1, <3>2 DEF TypeOK
    <2>7. CASE CancelDelivered(t) \/ RedisFails(t)
        BY <1>4, <1>5, <2>7, WaysOut DEF ListenerPc
    <2> QED BY <1>6, <2>1, <2>2, <2>3, <2>4, <2>5, <2>6, <2>7 DEF ListenerRuns
<1>7. CASE UNCHANGED vars BY <1>7 DEF vars, TypeOK
<1> QED BY <1>1, <1>3, <1>6, <1>7 DEF Next

----------------------------------------------------------------------------
(* Only connect brings a listener to life. *)
StepMoves ==
    /\ task' = task
    /\ \A u \in Clients : /\ Live(u)' => Live(u)
                          /\ Running(u)' => Running(u)

(* A place reached from a live one. *)
LEMMA BecomesMoves ==
    ASSUME TypeOK, NEW t \in Clients, NEW pc, NEW b, NEW n, NEW m, NEW S, NEW D,
           Becomes(t, pc, b, n, m, S, D), task' = task,
           pc \notin {"none", "done"} => Live(t),
           pc \notin {"none", "done", "closing"} /\ ~b => Running(t)
    PROVE  StepMoves
<1>1. (Live(t)' => Live(t)) /\ (Running(t)' => Running(t))
    BY DEF Becomes, Live, Running
<1>2. \A u \in Clients : u # t => Live(u)' = Live(u) /\ Running(u)' = Running(u)
    BY DEF Becomes, Live, Running
<1> QED BY <1>1, <1>2 DEF StepMoves

(* A step of a listener starts none and revives none. *)
LEMMA Moves ==
    ASSUME TypeOK, NEW t \in Clients, ListenerRuns(t) \/ Resubscribes(t) \/ RedisFails(t)
    PROVE  StepMoves
<1> USE DEF At, Live, Running
<1>1. ASSUME NEW pc \in ListenerPc, Goto(t, pc), Live(t), pc # "closing" /\ pc # "done" => Running(t)
      PROVE  StepMoves
    <2>1. Becomes(t, pc, listener[t].cancelled, listener[t].seen, listener[t].since,
                  listener[t].todo, listener[t].dead)
        BY <1>1, GotoBecomes
    <2> QED BY <1>1, <2>1, BecomesMoves DEF Goto
<1>2. CASE Starts(t) \/ EndsMatching(t) \/ Closes(t)
    BY <1>1, <1>2 DEF Starts, EndsMatching, Closes, ListenerPc
<1>3. CASE Subscribes(t) \/ Resubscribes(t)
    BY <1>3, ListensBecomes, BecomesMoves DEF Subscribes, Resubscribes, Listens
<1>4. CASE TakesTick(t)
    BY <1>4, TakesTickBecomes, BecomesMoves DEF TakesTick
<1>5. ASSUME NEW c \in Clients, Sends(t, c) PROVE StepMoves
    BY <1>5, SendsBecomes, BecomesMoves DEF Sends
<1>6. ASSUME NEW c \in Clients, SendsInVain(t, c) PROVE StepMoves
    <2> PICK failed \in SUBSET {c} :
          Becomes(t, listener[t].pc, listener[t].cancelled, listener[t].seen, listener[t].since,
                  listener[t].todo \ {c}, listener[t].dead \cup failed)
        BY <1>6, SendsInVainBecomes
    <2> QED BY <1>6, BecomesMoves DEF SendsInVain
<1>7. CASE EndsBroadcast(t)
    BY <1>7, EndsBroadcastFields DEF EndsBroadcast, StepMoves
<1>8. CASE CancelDelivered(t) \/ RedisFails(t)
    <2>1. PICK pc \in {"closing", "done"} : Leaves(t, pc) \/ Goto(t, pc)
        BY <1>8, WaysOut
    <2>2. Live(t) /\ pc \in ListenerPc
        BY <1>8, <2>1, WaysOut DEF ListenerPc
    <2>3. CASE Leaves(t, pc)
        BY <2>1, <2>2, <2>3, LeavesBecomes, BecomesMoves DEF Leaves
    <2> QED BY <1>1, <2>1, <2>2, <2>3
<1> QED BY <1>2, <1>3, <1>4, <1>5, <1>6, <1>7, <1>8 DEF ListenerRuns

(* A handler that ends does neither. *)
LEMMA HandlerMoves ==
    ASSUME TypeOK, NEW c \in Clients, HandlerEnds(c)
    PROVE  StepMoves
  BY HandlerEndsFields DEF OnlyMarks, HandlerEnds, StepMoves, Live, Running

(* Steps that touch neither the listeners nor the handle. *)
LEMMA QuietMoves ==
    ASSUME UNCHANGED <<task, listener>>
    PROVE  StepMoves
  BY DEF StepMoves, Live, Running

(* connect creates a listener only when the last one has ended. *)
LEMMA OneListenerKept ==
    ASSUME TypeOK, OneListener, [Next]_vars
    PROVE  OneListener'
<1>1. ASSUME StepMoves PROVE OneListener'
    BY <1>1 DEF StepMoves, OneListener
<1>2. ASSUME NEW c \in Clients, Connect(c) PROVE OneListener'
    <2>1. CASE NeedsListener
        <3>1. \A u \in Clients : ~Live(u)
            BY <2>1, NullAssumption DEF NeedsListener, OneListener
        <3>2. \A u \in Clients : u # c => ~Live(u)'
            BY <1>2, <2>1, <3>1, ConnectBecomes DEF Becomes, Live
        <3> QED BY <1>2, <2>1, <3>2 DEF Connect, OneListener
    <2>2. CASE ~NeedsListener
        BY <1>1, <1>2, <2>2, QuietMoves DEF Connect
    <2> QED BY <2>1, <2>2
<1>3. ASSUME NEW c \in Clients, AcceptFails(c) \/ PeerLeaves(c) PROVE OneListener'
    BY <1>1, <1>3, QuietMoves DEF AcceptFails, PeerLeaves
<1>4. CASE Publish \/ UNCHANGED vars
    BY <1>1, <1>4, QuietMoves DEF Publish, vars
<1> QED BY <1>1, <1>2, <1>3, <1>4, HandlerMoves, Moves DEF Next, ClientStep

(* Whoever strikes the last client off the list marks the listener. *)
LEMMA IdleListenerKept ==
    ASSUME TypeOK, OneListener, IdleListenerStops, [Next]_vars
    PROVE  IdleListenerStops'
<1>1. ASSUME StepMoves, clients' = {} => clients = {} PROVE IdleListenerStops'
    BY <1>1 DEF StepMoves, IdleListenerStops
<1>2. ASSUME NEW c \in Clients, Connect(c) PROVE IdleListenerStops'
    BY <1>2 DEF Connect, IdleListenerStops
<1>3. ASSUME NEW c \in Clients, AcceptFails(c) \/ PeerLeaves(c) PROVE IdleListenerStops'
    BY <1>1, <1>3, QuietMoves DEF AcceptFails, PeerLeaves
<1>4. CASE Publish \/ UNCHANGED vars
    BY <1>1, <1>4, QuietMoves DEF Publish, vars
<1>5. ASSUME NEW c \in Clients, HandlerEnds(c) PROVE IdleListenerStops'
    <2> SUFFICES ASSUME clients' = {}, NEW u \in Clients, Running(u)' PROVE FALSE
        BY DEF IdleListenerStops
    <2>1. Live(u)
        BY <1>5, HandlerMoves DEF StepMoves, Running
    <2>2. u = task BY <2>1 DEF OneListener
    <2>3. CancelsTask({c})
        BY <1>5, <2>1, <2>2, NullAssumption DEF CancelsTask, HandlerEnds
    <2> QED BY <1>5, <2>2, <2>3, HandlerEndsFields DEF OnlyMarks, Running
<1>6. ASSUME NEW t \in Clients, EndsBroadcast(t) PROVE IdleListenerStops'
    <2> SUFFICES ASSUME clients' = {}, NEW u \in Clients, Running(u)' PROVE FALSE
        BY DEF IdleListenerStops
    <2>1. Live(u) /\ Running(u)
        BY <1>6, Moves DEF StepMoves, Running, ListenerRuns
    <2>2. u = task BY <2>1 DEF OneListener
    <2>3. clients # {} BY <2>1 DEF IdleListenerStops
    <2>4. CancelsTask(listener[t].dead)
        BY <1>6, <2>1, <2>2, <2>3, NullAssumption DEF CancelsTask, EndsBroadcast
    <2> QED BY <1>6, <2>2, <2>4, EndsBroadcastFields DEF Running
<1>7. ASSUME NEW t \in Clients, ListenerRuns(t) \/ Resubscribes(t) \/ RedisFails(t) PROVE IdleListenerStops'
    <2>1. CASE EndsBroadcast(t) BY <1>6, <2>1
    <2>2. CASE ~EndsBroadcast(t)
        <3>1. clients' = clients
            BY <1>7, <2>2 DEF ListenerRuns, Resubscribes, RedisFails, Starts, Subscribes, Listens, TakesTick,
               Sends, SendsInVain, EndsMatching, CancelDelivered, Closes, Goto, Leaves
        <3> QED BY <1>1, <1>7, <3>1, Moves
    <2> QED BY <2>1, <2>2
<1> QED BY <1>2, <1>3, <1>4, <1>5, <1>7 DEF Next, ClientStep

(* What every step of a listener leaves to the others. *)
LEMMA Untouched ==
    ASSUME TypeOK, NEW t \in Clients, ListenerRuns(t) \/ Resubscribes(t) \/ RedisFails(t)
    PROVE  /\ UNCHANGED <<published, socket, task>>
           /\ listener[t].pc # "none" /\ listener'[t].pc # "none"
           /\ \A u \in Clients : u # t =>
                /\ listener'[u].pc = listener[u].pc /\ listener'[u].seen = listener[u].seen
                /\ listener'[u].since = listener[u].since
                /\ listener'[u].todo = listener[u].todo /\ listener'[u].dead = listener[u].dead
<1> USE DEF At
<1>1. ASSUME NEW pc \in ListenerPc \ {"none"}, Goto(t, pc)
      PROVE  /\ UNCHANGED <<published, socket, task>>
             /\ listener'[t].pc # "none"
             /\ \A u \in Clients : u # t => listener'[u] = listener[u]
    BY <1>1, GotoBecomes DEF Becomes, Goto
<1>2. CASE Starts(t) \/ EndsMatching(t) \/ Closes(t)
    BY <1>1, <1>2 DEF Starts, EndsMatching, Closes, ListenerPc
<1>3. CASE Subscribes(t) \/ Resubscribes(t)
    BY <1>3, ListensBecomes DEF Subscribes, Resubscribes, Listens, Becomes
<1>4. CASE TakesTick(t)
    BY <1>4, TakesTickBecomes DEF TakesTick, Becomes
<1>5. ASSUME NEW c \in Clients, Sends(t, c)
      PROVE  /\ UNCHANGED <<published, socket, task>>
             /\ listener[t].pc # "none" /\ listener'[t].pc # "none"
             /\ \A u \in Clients : u # t => listener'[u] = listener[u]
    BY <1>5, SendsBecomes DEF Sends, Becomes
<1>6. ASSUME NEW c \in Clients, SendsInVain(t, c)
      PROVE  /\ UNCHANGED <<published, socket, task>>
             /\ listener[t].pc # "none" /\ listener'[t].pc # "none"
             /\ \A u \in Clients : u # t => listener'[u] = listener[u]
    BY <1>6, SendsInVainBecomes DEF SendsInVain, Becomes
<1>7. CASE EndsBroadcast(t)
    <2>1. UNCHANGED <<published, socket, task>> /\ listener[t].pc # "none"
        BY <1>7 DEF EndsBroadcast
    <2>2. listener'[t].pc # "none"
        BY <1>7, EndsBroadcastFields
    <2>3. \A u \in Clients : u # t =>
            /\ listener'[u].pc = listener[u].pc /\ listener'[u].seen = listener[u].seen
            /\ listener'[u].since = listener[u].since
            /\ listener'[u].todo = listener[u].todo /\ listener'[u].dead = listener[u].dead
        BY <1>7, EndsBroadcastFields
    <2> QED BY <2>1, <2>2, <2>3
<1>8. CASE CancelDelivered(t) \/ RedisFails(t)
    <2>1. PICK pc \in {"closing", "done"} : Leaves(t, pc) \/ Goto(t, pc)
        BY <1>8, WaysOut
    <2>2. listener[t].pc # "none" /\ pc \in ListenerPc \ {"none"}
        BY <1>8, <2>1, WaysOut DEF ListenerPc, Live
    <2>3. CASE Leaves(t, pc)
        BY <2>2, <2>3, LeavesBecomes DEF Leaves, Becomes
    <2> QED BY <1>1, <2>1, <2>2, <2>3
<1> QED BY <1>2, <1>3, <1>4, <1>5, <1>6, <1>7, <1>8 DEF ListenerRuns

(* Nobody is struck off the list while its peer is there. *)
LEMMA ListedKept ==
    ASSUME TypeOK, Listed, DeadAreGone, [Next]_vars
    PROVE  Listed'
<1> USE DEF Listed
<1>1. ASSUME NEW c \in Clients, Connect(c) PROVE Listed'
    <2>0. \A u \in Clients : u # c => listener'[u] = listener[u]
        <3>1. CASE NeedsListener BY <1>1, <3>1, ConnectBecomes DEF Becomes
        <3>2. CASE ~NeedsListener BY <1>1, <3>2 DEF Connect
        <3> QED BY <3>1, <3>2
    <2>1. \A u \in Clients : u # c => listener'[u].pc = listener[u].pc
        BY <2>0
    <2> QED BY <1>1, <2>1 DEF Connect, TypeOK
<1>2. ASSUME NEW c \in Clients, AcceptFails(c) \/ PeerLeaves(c) PROVE Listed'
    BY <1>2 DEF AcceptFails, PeerLeaves, TypeOK
<1>3. ASSUME NEW c \in Clients, HandlerEnds(c) PROVE Listed'
    <2>1. \A u \in Clients : listener'[u].pc = listener[u].pc
        BY <1>3, HandlerEndsFields DEF OnlyMarks
    <2> QED BY <1>3, <2>1 DEF HandlerEnds, TypeOK
<1>4. CASE Publish \/ UNCHANGED vars
    BY <1>4 DEF Publish, vars
<1>5. ASSUME NEW t \in Clients, ListenerRuns(t) \/ Resubscribes(t) \/ RedisFails(t) PROVE Listed'
    <2>1. /\ socket' = socket
          /\ listener[t].pc # "none" /\ listener'[t].pc # "none"
          /\ \A u \in Clients : u # t => listener'[u].pc = listener[u].pc
        BY <1>5, Untouched
    <2>2. ASSUME NEW c \in Clients, Sends(t, c) PROVE Listed'
        <3>1. clients' = clients /\ \A x \in Clients : x # c => got'[x] = got[x]
            BY <2>2 DEF Sends, TypeOK
        <3>2. socket[c] = "open" BY <2>2 DEF Sends
        <3> QED BY <2>1, <3>1, <3>2
    <2>3. CASE EndsBroadcast(t)
        <3>1. \A c \in listener[t].dead : socket[c] \in {"gone", "ended"}
            BY ListenerFields DEF DeadAreGone
        <3> QED BY <2>1, <2>3, <3>1 DEF EndsBroadcast
    <2>4. CASE ~EndsBroadcast(t) /\ ~\E c \in Clients : Sends(t, c)
        <3>1. clients' = clients /\ got' = got
            BY <1>5, <2>4 DEF ListenerRuns, Resubscribes, RedisFails, Starts, Subscribes, Listens, TakesTick,
               SendsInVain, EndsMatching, CancelDelivered, Closes, Goto, Leaves
        <3> QED BY <2>1, <3>1
    <2> QED BY <2>2, <2>3, <2>4
<1> QED BY <1>1, <1>2, <1>3, <1>4, <1>5 DEF Next, ClientStep

(* Who has left never comes back. *)
LEMMA DeadKept ==
    ASSUME TypeOK, Listed, DeadAreGone, [Next]_vars
    PROVE  DeadAreGone'
<1> USE DEF DeadAreGone
<1>1. ASSUME NEW c \in Clients, ClientStep(c) PROVE DeadAreGone'
    <2>1. \A u \in Clients :
            /\ listener'[u].todo = listener[u].todo
            /\ listener'[u].dead = listener[u].dead
        <3>1. CASE Connect(c) BY <3>1, ConnectBecomes DEF Connect, Becomes
        <3>2. CASE HandlerEnds(c) BY <3>2, HandlerEndsFields DEF OnlyMarks
        <3> QED BY <1>1, <3>1, <3>2 DEF ClientStep, AcceptFails, PeerLeaves
    <2>2. \A x \in Clients :
            /\ socket[x] # "new" => socket'[x] # "new"
            /\ socket[x] \in {"gone", "ended"} => socket'[x] \in {"gone", "ended"}
        BY <1>1 DEF ClientStep, Connect, AcceptFails, PeerLeaves, HandlerEnds, TypeOK
    <2> QED BY <2>1, <2>2
<1>2. CASE Publish \/ UNCHANGED vars
    BY <1>2 DEF Publish, vars
<1>3. ASSUME NEW t \in Clients, ListenerRuns(t) \/ Resubscribes(t) \/ RedisFails(t) PROVE DeadAreGone'
    <2>1. /\ socket' = socket
          /\ \A u \in Clients : u # t =>
               /\ listener'[u].todo = listener[u].todo
               /\ listener'[u].dead = listener[u].dead
        BY <1>3, Untouched
    <2>2. CASE Starts(t) \/ EndsMatching(t) \/ Closes(t) \/ \E pc \in {"closing", "done"} : Goto(t, pc)
        <3>1. ASSUME NEW pc \in ListenerPc, Goto(t, pc)
              PROVE  listener'[t].todo = listener[t].todo /\ listener'[t].dead = listener[t].dead
            BY <3>1, GotoBecomes DEF Becomes
        <3>2. listener'[t].todo = listener[t].todo /\ listener'[t].dead = listener[t].dead
            BY <2>2, <3>1 DEF Starts, EndsMatching, Closes, ListenerPc
        <3> QED BY <2>1, <3>2
    <2>3. CASE Subscribes(t) \/ Resubscribes(t)
        BY <2>1, <2>3, ListensBecomes DEF Subscribes, Resubscribes, Becomes
    <2>4. CASE TakesTick(t) BY <2>1, <2>4, TakesTickBecomes DEF Becomes, Listed
    <2>5. ASSUME NEW c \in Clients, Sends(t, c) PROVE DeadAreGone'
        BY <2>1, <2>5, SendsBecomes DEF Becomes
    <2>6. ASSUME NEW c \in Clients, SendsInVain(t, c) PROVE DeadAreGone'
        <3>1. /\ listener'[t].todo \subseteq listener[t].todo
              /\ listener'[t].dead \subseteq listener[t].dead \cup {c}
            BY <2>6, SendsInVainBecomes DEF Becomes
        <3>2. socket[c] \in {"gone", "ended"} BY <2>6 DEF SendsInVain, TypeOK
        <3> QED BY <2>1, <3>1, <3>2
    <2>7. CASE EndsBroadcast(t) BY <2>1, <2>7, EndsBroadcastFields
    <2>8. ASSUME NEW pc \in {"closing", "done"}, Leaves(t, pc) PROVE DeadAreGone'
        <3>1. listener'[t].todo = {} /\ listener'[t].dead = {}
            BY <2>8, LeavesBecomes DEF ListenerPc, Becomes
        <3> QED BY <2>1, <3>1
    <2>9. CASE CancelDelivered(t) \/ RedisFails(t)
        BY <2>2, <2>8, <2>9, WaysOut
    <2> QED BY <1>3, <2>2, <2>3, <2>4, <2>5, <2>6, <2>7, <2>9 DEF ListenerRuns
<1> QED BY <1>1, <1>2, <1>3 DEF Next

----------------------------------------------------------------------------
(* Deliveries. *)

(* The newest delivery is one, with a tick. *)
LEMMA LastDelivery ==
    ASSUME TypeOK, NEW c \in Clients, got[c] # <<>>
    PROVE  /\ Len(got[c]) \in Nat \ {0}
           /\ LastOf(c).tick \in Nat
<1>1. Len(got[c]) \in 1..Len(got[c]) /\ got[c] \in Seq(Delivery)
    BY DEF TypeOK
<1>2. LastOf(c) \in Delivery BY <1>1 DEF LastOf
<1> QED BY <1>1, <1>2 DEF Delivery

(* A listener that has neither moved nor taken or sent anything. *)
SameProgress(t) ==
    /\ listener'[t].pc = listener[t].pc
    /\ listener'[t].seen = listener[t].seen
    /\ listener'[t].since = listener[t].since
    /\ listener'[t].todo = listener[t].todo

(* Steps that send nothing: everybody is still up to date, if so for the   *)
(* listeners T that have moved.                                            *)
LEMMA NothingSent ==
    ASSUME TypeOK, UpToDate, published <= published', published' \in Nat,
           \A c \in Clients : got'[c] \in {got[c], <<>>},
           \A c \in Clients : got'[c] # <<>> /\ socket'[c] = "open" => socket[c] = "open",
           NEW T, \A t \in Clients \ T : SameProgress(t),
           \A t \in Clients \cap T, c \in Clients :
             got'[c] # <<>> /\ Hearing(t)' /\ socket'[c] = "open" => SentSoFar(t, c)'
    PROVE  UpToDate'
<1> SUFFICES ASSUME NEW c \in Clients, got'[c] # <<>>
             PROVE  /\ LastOf(c)'.tick <= published'
                    /\ \A t \in Clients : Hearing(t)' /\ socket'[c] = "open" => SentSoFar(t, c)'
    BY DEF UpToDate
<1>1. got[c] # <<>> /\ LastOf(c)' = LastOf(c) BY DEF LastOf
<1>2. LastOf(c).tick <= published' 
    <2>1. LastOf(c).tick \in Nat /\ LastOf(c).tick <= published
        BY <1>1, LastDelivery DEF UpToDate
    <2> QED BY <2>1 DEF TypeOK
<1>3. ASSUME NEW t \in Clients \ T, Hearing(t)', socket'[c] = "open" PROVE SentSoFar(t, c)'
    <2>1. SentSoFar(t, c)
        BY <1>1, <1>3 DEF UpToDate, Hearing, SameProgress
    <2> QED BY <1>1, <1>3, <2>1 DEF SentSoFar, Waits, SameProgress
<1> QED BY <1>1, <1>2, <1>3

(* Who has been sent what, step by step. *)
LEMMA UpToDateKept ==
    ASSUME TypeOK, OneListener, Listed, DeadAreGone, UpToDate, [Next]_vars
    PROVE  UpToDate'
<1> USE DEF At, Hearing
<1>0. published \in Nat /\ published <= published /\ got \in [Clients -> Seq(Delivery)]
    BY DEF TypeOK
<1>1. ASSUME NEW c \in Clients, Connect(c) PROVE UpToDate'
    <2>1. got[c] = <<>> /\ listener[c].pc = "none" BY <1>1 DEF Connect, Listed
    <2>2. got' = got /\ published' = published BY <1>1 DEF Connect
    <2>3. \A x \in Clients : got'[x] # <<>> /\ socket'[x] = "open" => socket[x] = "open"
        BY <1>1, <2>1, <2>2 DEF Connect, TypeOK
    <2>4. /\ \A t \in Clients : t # c => SameProgress(t)
          /\ listener'[c].pc \in {"none", "created"}
        BY <1>1, <2>1, ConnectBecomes DEF Connect, Becomes, SameProgress
    <2> DEFINE T == {c}
    <2>5. \A t \in Clients \ T : SameProgress(t) BY <2>4
    <2>6. \A t \in Clients \cap T, x \in Clients :
            got'[x] # <<>> /\ Hearing(t)' /\ socket'[x] = "open" => SentSoFar(t, x)'
        BY <2>4
    <2> HIDE DEF T
    <2> QED BY <1>0, <2>2, <2>3, <2>5, <2>6, NothingSent
<1>2. ASSUME published <= published', published' \in Nat,
             \A x \in Clients : got'[x] \in {got[x], <<>>},
             \A t \in Clients : SameProgress(t),
             \A x \in Clients : socket'[x] = "open" => socket[x] = "open"
      PROVE  UpToDate'
    <2> DEFINE T == {}
    <2>1. \A t \in Clients \ T : SameProgress(t) BY <1>2
    <2>2. Clients \cap T = {} OBVIOUS
    <2> HIDE DEF T
    <2> QED BY <1>2, <2>1, <2>2, NothingSent
<1>3. ASSUME NEW c \in Clients, AcceptFails(c) \/ PeerLeaves(c) PROVE UpToDate'
    BY <1>0, <1>2, <1>3 DEF AcceptFails, PeerLeaves, TypeOK, SameProgress
<1>4. ASSUME NEW c \in Clients, HandlerEnds(c) PROVE UpToDate'
    BY <1>0, <1>2, <1>4, HandlerEndsFields DEF HandlerEnds, OnlyMarks, TypeOK, SameProgress
<1>5. CASE Publish
    BY <1>0, <1>2, <1>5 DEF Publish, SameProgress
<1>6. CASE UNCHANGED vars
    BY <1>0, <1>2, <1>6 DEF vars, SameProgress
<1>7. ASSUME NEW t \in Clients, got' = got, published' = published, socket' = socket,
             \A u \in Clients : u # t => SameProgress(u),
             \A x \in Clients : got[x] # <<>> /\ Hearing(t)' /\ socket[x] = "open"
                                  => SentSoFar(t, x)'
      PROVE  UpToDate'
    <2> DEFINE T == {t}
    <2>1. \A u \in Clients \ T : SameProgress(u) BY <1>7
    <2>2. \A u \in Clients \cap T, x \in Clients :
            got'[x] # <<>> /\ Hearing(u)' /\ socket'[x] = "open" => SentSoFar(u, x)'
        BY <1>7
    <2> HIDE DEF T
    <2> QED BY <1>0, <1>7, <2>1, <2>2, NothingSent
<1>8. ASSUME NEW t \in Clients, ListenerRuns(t) \/ Resubscribes(t) \/ RedisFails(t) PROVE UpToDate'
    <2>0. /\ published' = published /\ socket' = socket
          /\ \A u \in Clients : u # t => SameProgress(u)
        BY <1>8, Untouched DEF SameProgress
    <2>1. listener[t].seen \in Nat /\ listener[t].since \in Nat
        BY ListenerFields
    <2>2. ASSUME NEW pc \in ListenerPc, Goto(t, pc),
                 pc = "listening" => listener[t].pc = "matching",
                 pc \notin {"broadcast", "matching"}
          PROVE  UpToDate'
        <3>1. /\ listener'[t].pc = pc /\ listener'[t].seen = listener[t].seen
              /\ listener'[t].since = listener[t].since /\ got' = got
            BY <2>2, GotoBecomes DEF Becomes, Goto
        <3>2. ASSUME NEW x \in Clients, got[x] # <<>>, Hearing(t)', socket[x] = "open"
              PROVE  SentSoFar(t, x)'
            <4>1. LastOf(x)' = LastOf(x) BY <3>1 DEF LastOf
            <4>2. pc = "listening" /\ listener[t].pc = "matching" BY <2>2, <3>1, <3>2
            <4>3. SentSoFar(t, x) BY <3>2, <4>2 DEF UpToDate
            <4> QED BY <3>1, <4>1, <4>2, <4>3 DEF SentSoFar, Waits
        <3> QED BY <1>7, <2>0, <3>1, <3>2
    <2>3. CASE Starts(t) \/ EndsMatching(t) \/ Closes(t)
        BY <2>2, <2>3 DEF Starts, EndsMatching, Closes, ListenerPc
    <2>4. CASE Subscribes(t) \/ Resubscribes(t)
        <3>1. /\ listener'[t].pc = "listening" /\ listener'[t].seen = published
              /\ listener'[t].since = published /\ got' = got
            BY <2>4, ListensBecomes DEF Becomes, Listens, Subscribes, Resubscribes
        <3>2. ASSUME NEW x \in Clients, got[x] # <<>>, Hearing(t)', socket[x] = "open"
              PROVE  SentSoFar(t, x)'
            <4>1. LastOf(x)' = LastOf(x) BY <3>1 DEF LastOf
            <4>2. LastOf(x).tick \in Nat /\ LastOf(x).tick <= published
                BY <3>2, LastDelivery DEF UpToDate
            <4> QED BY <1>0, <3>1, <4>1, <4>2 DEF SentSoFar, Waits, Later
        <3> QED BY <1>7, <2>0, <3>1, <3>2
    <2>5. CASE TakesTick(t)
        <3>1. /\ listener'[t].pc = "broadcast" /\ listener'[t].seen = listener[t].seen + 1
              /\ listener'[t].since = listener[t].since
              /\ listener'[t].todo = clients /\ got' = got
            BY <2>5, TakesTickBecomes DEF Becomes, TakesTick
        <3>2. ASSUME NEW x \in Clients, got[x] # <<>>, Hearing(t)', socket[x] = "open"
              PROVE  SentSoFar(t, x)'
            <4>1. LastOf(x)' = LastOf(x) BY <3>1 DEF LastOf
            <4>2. listener[t].pc = "listening" BY <2>5 DEF TakesTick
            <4>3. SentSoFar(t, x) /\ x \in clients
                BY <3>2, <4>2 DEF UpToDate, Listed
            <4>4. Later(LastOf(x).tick, listener[t].since) = listener[t].seen
                BY <4>2, <4>3 DEF SentSoFar, Waits
            <4>5. listener[t].seen = (listener[t].seen + 1) - 1 BY <2>1
            <4> QED BY <3>1, <4>1, <4>3, <4>4, <4>5 DEF SentSoFar, Waits
        <3> QED BY <1>7, <2>0, <3>1, <3>2
    <2>6. ASSUME NEW c \in Clients, SendsInVain(t, c) PROVE UpToDate'
        <3>1. /\ listener'[t].pc = listener[t].pc /\ listener'[t].seen = listener[t].seen
              /\ listener'[t].since = listener[t].since
              /\ listener'[t].todo = listener[t].todo \ {c} /\ got' = got
            BY <2>6, SendsInVainBecomes DEF Becomes, SendsInVain
        <3>2. listener[t].pc = "broadcast" /\ socket[c] # "open" BY <2>6 DEF SendsInVain
        <3>3. ASSUME NEW x \in Clients, got[x] # <<>>, Hearing(t)', socket[x] = "open"
              PROVE  SentSoFar(t, x)'
            <4>1. LastOf(x)' = LastOf(x) BY <3>1 DEF LastOf
            <4>2. SentSoFar(t, x) BY <3>2, <3>3 DEF UpToDate
            <4>3. Waits(t, x)' = Waits(t, x) BY <3>1, <3>2, <3>3 DEF Waits
            <4> QED BY <3>1, <4>1, <4>2, <4>3 DEF SentSoFar
        <3> QED BY <1>7, <2>0, <3>1, <3>3
    <2>7. CASE EndsBroadcast(t)
        <3>1. /\ listener'[t].pc = "matching" /\ listener'[t].seen = listener[t].seen
              /\ listener'[t].since = listener[t].since /\ got' = got
            BY <2>7, EndsBroadcastFields DEF EndsBroadcast
        <3>2. listener[t].pc = "broadcast" /\ listener[t].todo = {} BY <2>7 DEF EndsBroadcast
        <3>3. ASSUME NEW x \in Clients, got[x] # <<>>, Hearing(t)', socket[x] = "open"
              PROVE  SentSoFar(t, x)'
            <4>1. LastOf(x)' = LastOf(x) BY <3>1 DEF LastOf
            <4>2. SentSoFar(t, x) BY <3>2, <3>3 DEF UpToDate
            <4> QED BY <3>1, <3>2, <4>1, <4>2 DEF SentSoFar, Waits
        <3> QED BY <1>7, <2>0, <3>1, <3>3
    <2>8. ASSUME NEW pc \in {"closing", "done"}, Leaves(t, pc) PROVE UpToDate'
        <3>1. listener'[t].pc = pc /\ got' = got
            BY <2>8, LeavesBecomes DEF Becomes, Leaves, ListenerPc
        <3> QED BY <1>7, <2>0, <3>1
    <2>9. CASE CancelDelivered(t) \/ RedisFails(t)
        BY <2>2, <2>8, <2>9, WaysOut DEF ListenerPc
    <2>10. ASSUME NEW c \in Clients, Sends(t, c) PROVE UpToDate'
        <3> DEFINE d == [since |-> listener[t].since, tick |-> listener[t].seen]
        <3>1. /\ listener'[t].pc = "broadcast" /\ listener'[t].seen = listener[t].seen
              /\ listener'[t].since = listener[t].since
              /\ listener'[t].todo = listener[t].todo \ {c}
            BY <2>10, SendsBecomes DEF Becomes, Sends
        <3>2. /\ \A x \in Clients : x # c => got'[x] = got[x]
              /\ got'[c] = Append(got[c], d)
            BY <1>0, <2>10 DEF Sends
        <3>3. LastOf(c)' = d /\ got'[c] # <<>>
            <4>1. got[c] \in Seq(Delivery) /\ d \in Delivery
                BY <1>0, <2>1 DEF Delivery
            <4> HIDE DEF d
            <4> QED BY <3>2, <4>1 DEF LastOf
        <3>4. \A x \in Clients : x # c => LastOf(x)' = LastOf(x) BY <3>2 DEF LastOf
        <3>5. /\ listener[t].pc = "broadcast"
              /\ \A u \in Clients : u # t => ~Hearing(u)
            BY <2>10 DEF Sends, OneListener, Live
        <3>6. listener[t].seen <= published /\ listener[t].since <= listener[t].seen
            BY DEF TypeOK
        <3>7. ASSUME NEW x \in Clients, got'[x] # <<>>
              PROVE  LastOf(x)'.tick <= published'
            BY <2>0, <3>2, <3>3, <3>4, <3>6, <3>7 DEF UpToDate
        <3>8. ASSUME NEW u \in Clients, u # t PROVE ~Hearing(u)'
            BY <2>0, <3>5, <3>8 DEF SameProgress
        <3>9. SentSoFar(t, c)'
            <4>1. ~Waits(t, c)' BY <3>1 DEF Waits
            <4> QED BY <2>1, <3>1, <3>3, <3>6, <4>1 DEF SentSoFar, Later
        <3>10. ASSUME NEW x \in Clients, x # c, got'[x] # <<>>, socket'[x] = "open"
               PROVE  SentSoFar(t, x)'
            <4>1. SentSoFar(t, x) BY <2>0, <3>2, <3>5, <3>10 DEF UpToDate
            <4>2. Waits(t, x)' = Waits(t, x) BY <3>1, <3>5, <3>10 DEF Waits
            <4> QED BY <3>1, <3>4, <3>10, <4>1, <4>2 DEF SentSoFar
        <3> QED BY <3>7, <3>8, <3>9, <3>10 DEF UpToDate
    <2> QED BY <1>8, <2>3, <2>4, <2>5, <2>6, <2>7, <2>9, <2>10 DEF ListenerRuns
<1> QED BY <1>1, <1>3, <1>4, <1>5, <1>6, <1>8 DEF Next, ClientStep

(* A delivery comes right after the last one, unless a subscription lies   *)
(* between.                                                                *)
LEMMA InOrderKept ==
    ASSUME TypeOK, UpToDate, TicksInOrder, [Next]_vars
    PROVE  TicksInOrder'
<1> DEFINE InOrder(s) == \A i \in 1..(Len(s) - 1) :
                           s[i + 1].tick = Later(s[i].tick, s[i + 1].since) + 1
<1>1. \A c \in Clients : InOrder(got[c]) BY DEF TicksInOrder
<1>2. InOrder(<<>>) OBVIOUS
<1>3. ASSUME \A c \in Clients : InOrder(got'[c]) PROVE TicksInOrder'
    BY <1>3 DEF TicksInOrder
<1>4. ASSUME NEW t \in Clients, NEW c \in Clients, Sends(t, c) PROVE TicksInOrder'
    <2> DEFINE d == [since |-> listener[t].since, tick |-> listener[t].seen]
    <2>1. /\ \A x \in Clients : x # c => got'[x] = got[x]
          /\ got'[c] = Append(got[c], d)
        BY <1>4 DEF Sends, TypeOK
    <2>2. d \in Delivery /\ got[c] \in Seq(Delivery) /\ Len(got[c]) \in Nat
        <3>1. d \in Delivery BY ListenerFields DEF Delivery
        <3>2. got[c] \in Seq(Delivery) BY DEF TypeOK
        <3>3. Len(got[c]) \in Nat BY <3>2
        <3> QED BY <3>1, <3>2, <3>3
    <2>3. d.since = listener[t].since /\ d.tick = listener[t].seen OBVIOUS
    <2> HIDE DEF d
    <2>4. /\ Len(got'[c]) = Len(got[c]) + 1
          /\ got'[c][Len(got[c]) + 1] = d
          /\ \A i \in 1..Len(got[c]) : got'[c][i] = got[c][i]
        BY <2>1, <2>2
    <2>5. ASSUME NEW i \in 1..(Len(got'[c]) - 1)
          PROVE  got'[c][i + 1].tick = Later(got'[c][i].tick, got'[c][i + 1].since) + 1
        <3>1. CASE i # Len(got[c])
            <4>1. i \in 1..(Len(got[c]) - 1) BY <2>2, <2>4, <3>1
            <4>2. got'[c][i] = got[c][i] /\ got'[c][i + 1] = got[c][i + 1]
                BY <2>2, <2>4, <4>1
            <4> QED BY <4>1, <4>2 DEF TicksInOrder
        <3>2. CASE i = Len(got[c])
            <4>1. got[c] # <<>> BY <2>2, <2>4, <3>2
            <4>2. got'[c][i] = LastOf(c) /\ got'[c][i + 1] = d
                BY <2>2, <2>4, <3>2 DEF LastOf
            <4>3. SentSoFar(t, c) /\ Waits(t, c)
                BY <1>4, <4>1 DEF UpToDate, Hearing, Sends, At, Waits
            <4>4. Later(LastOf(c).tick, listener[t].since) = listener[t].seen - 1
                BY <4>3 DEF SentSoFar
            <4>5. LastOf(c).tick \in Nat /\ listener[t].seen \in Nat
                BY <4>1, LastDelivery, ListenerFields
            <4> QED BY <2>3, <4>2, <4>4, <4>5
        <3> QED BY <3>1, <3>2
    <2>6. ASSUME NEW x \in Clients PROVE InOrder(got'[x])
        <3>1. CASE x = c BY <2>5, <3>1
        <3>2. CASE x # c
            <4>1. got'[x] = got[x] BY <2>1, <3>2
            <4> HIDE DEF InOrder
            <4> QED BY <1>1, <4>1
        <3> QED BY <3>1, <3>2
    <2> QED BY <1>3, <2>6
<1> HIDE DEF InOrder
<1>5. ASSUME NEW c \in Clients, PeerLeaves(c) PROVE TicksInOrder'
    <2>1. \A x \in Clients : got'[x] \in {got[x], <<>>}
        BY <1>5 DEF PeerLeaves, TypeOK
    <2> QED BY <1>1, <1>2, <1>3, <2>1
<1>6. CASE got' = got BY <1>1, <1>3, <1>6
<1>7. CASE ~(\E t, c \in Clients : Sends(t, c)) /\ ~\E c \in Clients : PeerLeaves(c)
    <2>1. got' = got
        BY <1>7 DEF Next, vars, Publish, ClientStep, Connect, AcceptFails, HandlerEnds,
           ListenerRuns, Resubscribes, RedisFails, Starts, Subscribes, Listens, TakesTick,
           SendsInVain, EndsBroadcast, EndsMatching, CancelDelivered, Closes, Goto, Leaves
    <2> QED BY <1>6, <2>1
<1> QED BY <1>4, <1>5, <1>7

----------------------------------------------------------------------------
(* The inductive invariant: the four properties below with who is listed,  *)
(* who can be dead, and who has been sent what (ws.py:26-82).              *)
THEOREM SocketInvariant == Spec => []SocketInv
<1>1. Init => SocketInv
    <2> SUFFICES ASSUME Init PROVE SocketInv
        OBVIOUS
    <2>1. NoListener \in Listener BY DEF NoListener, Listener, ListenerPc
    <2>2. /\ NoListener.pc = "none" /\ NoListener.seen = 0 /\ NoListener.since = 0
          /\ NoListener.todo = {} /\ NoListener.dead = {}
        BY DEF NoListener
    <2>3. TypeOK BY <2>1, <2>2 DEF Init, TypeOK
    <2>4. OneListener /\ IdleListenerStops /\ Listed /\ DeadAreGone /\ UpToDate /\ TicksInOrder
        BY <2>2 DEF Init, OneListener, IdleListenerStops, Listed, DeadAreGone, UpToDate,
           TicksInOrder, Live, Running
    <2> QED BY <2>3, <2>4 DEF SocketInv
<1>2. SocketInv /\ [Next]_vars => SocketInv'
    BY TypeKept, OneListenerKept, IdleListenerKept, ListedKept, DeadKept, UpToDateKept,
       InOrderKept DEF SocketInv
<1> QED BY <1>1, <1>2, PTL DEF Spec

(* Variables keep their types; no listener takes a tick that was not       *)
(* published.                                                              *)
THEOREM SocketTypes == Spec => []TypeOK
<1>1. SocketInv => TypeOK BY DEF SocketInv
<1> QED BY <1>1, SocketInvariant, PTL

(* There is never a second listener, and the manager holds the one there   *)
(* is, whoever connects, leaves or fails (ws.py:34).                       *)
THEOREM AtMostOneListener == Spec => []OneListener
<1>1. SocketInv => OneListener BY DEF SocketInv
<1> QED BY <1>1, SocketInvariant, PTL

(* No listener goes on for nobody (ws.py:42).                              *)
THEOREM NobodyNoListener == Spec => []IdleListenerStops
<1>1. SocketInv => IdleListenerStops BY DEF SocketInv
<1> QED BY <1>1, SocketInvariant, PTL

(* Every client is sent ticks in order, none twice, and none left out but  *)
(* those published before a subscription that came in between, of another  *)
(* listener or after a read that timed out (ws.py:45-53, redis.py:15-16).  *)
THEOREM DeliveredInOrder == Spec => []TicksInOrder
<1>1. SocketInv => TicksInOrder BY DEF SocketInv
<1> QED BY <1>1, SocketInvariant, PTL
=============================================================================
