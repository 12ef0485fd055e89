--------------------------- MODULE PortfolioStream ---------------------------
(* One connection to /ws/portfolio.  It values the user's positions at     *)
(* every tick it hears; the positions are a copy that is read again when a *)
(* tick finds it RefreshSecs old.  The user's orders and the market go on  *)
(* beside it.                                                              *)
EXTENDS Integers, Sequences, FiniteSets

CONSTANTS Symbols, Prices,
          Quantities, Averages,  \* values of the columns quantity and avg_price
          RefreshSecs,           \* _POSITION_REFRESH_SECS, in ticks of the clock
          MaxAge,                \* bound: the age of positions, in such ticks
          MaxTrades,             \* bound: commits that change a position
          MaxBacklog,            \* bound: ticks waiting for the stream
          Null, Lost, DbMayFail, RedisMayFail

ASSUME NumbersAssumption ==
    /\ Prices \cup Averages \subseteq Nat \ {0} /\ Quantities \subseteq Nat
    /\ RefreshSecs \in Nat \ {0} /\ MaxAge \in Nat
    /\ MaxTrades \in Nat /\ MaxBacklog \in Nat \ {0}
ASSUME NullAssumption == Null # Lost /\ {Null, Lost} \cap (Prices \cup Averages) = {}
ASSUME FailAssumption == DbMayFail \in BOOLEAN /\ RedisMayFail \in BOOLEAN

VARIABLES
    position,  \* [Symbols -> the columns of the user's row]
    trades,    \* number of commits so far
    quoted,    \* [Symbols -> last price published since the subscription, Null if none,
               \* Lost if it was lost with a connection to Redis]
    backlog,   \* ticks published and not yet taken by the stream
    pc, peer,  \* where portfolio_ws is; the peer: here, gone, or seen to be
    prices,    \* its prices: the last one heard of each symbol, or Null
    cache,     \* its positions: those with a quantity when the database read them
    portfolio, \* what it has computed last
    since,     \* time since last_refresh, up to RefreshSecs
    age,       \* time since the database read the positions, up to MaxAge
    late       \* the time from that reading to last_refresh, if this came after

database == <<position, trades>>
market == <<quoted, backlog>>
local == <<prices, cache, portfolio>>
clock == <<since, age, late>>
vars == <<database, market, pc, peer, local, clock>>

Columns == [quantity : Quantities, avg_price : Averages]
Position == [symbol : Symbols, quantity : Quantities, avg_price : Averages]
Row == [of : Position, current_price : Prices \cup Averages]
StreamPc == {"new", "subscribing", "loading", "loaded", "listening", "reloading",
             "reloaded", "sending", "closing", "ended"}

TypeOK ==
    /\ position \in [Symbols -> Columns] /\ trades \in 0..MaxTrades
    /\ quoted \in [Symbols -> Prices \cup {Null, Lost}]
    /\ backlog \in Seq([symbol : Symbols, price : Prices])
    /\ pc \in StreamPc /\ peer \in {"here", "left", "lost"}
    /\ prices \in [Symbols -> Prices \cup {Null}] /\ cache \subseteq Position
    /\ portfolio \subseteq Row
    /\ since \in 0..RefreshSecs /\ age \in 0..MaxAge /\ late \in 0..MaxAge

Init ==
    /\ position \in [Symbols -> Columns] /\ trades = 0
    /\ quoted = [y \in Symbols |-> Null] /\ backlog = <<>>
    /\ pc = "new" /\ peer = "here"
    /\ prices = [y \in Symbols |-> Null] /\ cache = {} /\ portfolio = {}
    /\ since = 0 /\ age = 0 /\ late = 0

----------------------------------------------------------------------------
(* An execution commits; another second passes; the market moves.          *)
Trade(y) ==
    /\ trades < MaxTrades
    /\ \E c \in Columns \ {position[y]} : position' = [position EXCEPT ![y] = c]
    /\ trades' = trades + 1
    /\ UNCHANGED <<market, pc, peer, local, clock>>

Later(t, bound) == IF t < bound THEN t + 1 ELSE t

ClockTick ==
    /\ since' = Later(since, RefreshSecs) /\ age' = Later(age, MaxAge)
    /\ UNCHANGED <<database, market, pc, peer, local, late>>

Hears == pc \notin {"new", "subscribing", "closing", "ended"}

Publish(y, p) ==
    /\ Len(backlog) < MaxBacklog
    /\ IF Hears THEN /\ backlog' = Append(backlog, [symbol |-> y, price |-> p])
                     /\ quoted' = [quoted EXCEPT ![y] = p]
                ELSE UNCHANGED market
    /\ UNCHANGED <<database, pc, peer, local, clock>>

PeerLeaves == peer = "here" /\ peer' = "left" /\ UNCHANGED <<database, market, pc, local, clock>>
PeerMissed == peer = "left" /\ peer' = "lost" /\ UNCHANGED <<database, market, pc, local, clock>>

----------------------------------------------------------------------------
(* portfolio_ws *)
Goto(from, to) == pc = from /\ pc' = to
Stays == UNCHANGED <<database, market, peer, local, clock>>

(* On the way out, nothing of what the stream was about matters. *)
Leaves(from, to) ==
    /\ Goto(from, to)
    /\ quoted' = [y \in Symbols |-> Null] /\ backlog' = <<>>
    /\ prices' = [y \in Symbols |-> Null] /\ cache' = {} /\ portfolio' = {}
    /\ since' = 0 /\ age' = 0 /\ late' = 0
    /\ UNCHANGED <<database, peer>>

(* The token is checked before the connection is accepted. *)
Open == (Goto("new", "subscribing") \/ Goto("new", "ended")) /\ Stays

Subscribe == Goto("subscribing", "loading") /\ Stays

(* SELECT ... WHERE quantity > 0 *)
LoadPositions ==
    {r \in {[symbol |-> y, quantity |-> position[y].quantity,
             avg_price |-> position[y].avg_price] : y \in Symbols} : r.quantity > 0}

(* The database reads the positions; the stream has them when the query    *)
(* returns and the session is closed, which is a step of its own.          *)
Reads ==
    /\ cache' = LoadPositions /\ age' = 0 /\ late' = 0
    /\ UNCHANGED <<database, market, peer, prices, portfolio, since>>

Load == Goto("loading", "loaded") /\ Reads

(* The first time, last_refresh is taken after that. *)
Note ==
    /\ Goto("loaded", "listening")
    /\ since' = 0 /\ late' = age
    /\ UNCHANGED <<database, market, peer, local, age>>

PriceOf(p, heard) == IF heard[p.symbol] = Null THEN p.avg_price ELSE heard[p.symbol]

(* _calc_portfolio: a position whose symbol was not heard of is shown at   *)
(* its average price.  Profits and sums are functions of these rows.       *)
CalcPortfolio(positions, heard) ==
    {[of |-> p, current_price |-> PriceOf(p, heard)] : p \in positions}

Heard == [prices EXCEPT ![Head(backlog).symbol] = Head(backlog).price]

(* Mutant of TakesTick: a burst of ticks is answered once. *)
TakesLastTick ==
    /\ pc = "listening" /\ backlog # <<>>
    /\ prices' = [prices EXCEPT ![backlog[Len(backlog)].symbol] = backlog[Len(backlog)].price]
    /\ backlog' = <<>>
    /\ IF since >= RefreshSecs THEN pc' = "reloading" /\ since' = 0 /\ UNCHANGED portfolio
       ELSE pc' = "sending" /\ portfolio' = CalcPortfolio(cache, prices') /\ UNCHANGED since
    /\ UNCHANGED <<database, quoted, peer, cache, age, late>>

(* Mutant of TakesTick: a refresh is due only at a tick of a position.   *)
TakesHeldTick ==
    /\ pc = "listening" /\ backlog # <<>>
    /\ prices' = Heard /\ backlog' = Tail(backlog)
    /\ IF since >= RefreshSecs /\ (\E r \in cache : r.symbol = Head(backlog).symbol)
         THEN pc' = "reloading" /\ since' = 0 /\ UNCHANGED portfolio
         ELSE pc' = "sending" /\ portfolio' = CalcPortfolio(cache, Heard) /\ UNCHANGED since
    /\ UNCHANGED <<database, quoted, peer, cache, age, late>>

(* The tick is booked; the time of a refresh is that before the query. *)
TakesTick ==
    /\ pc = "listening" /\ backlog # <<>>
    /\ prices' = Heard /\ backlog' = Tail(backlog)
    /\ IF since >= RefreshSecs THEN pc' = "reloading" /\ since' = 0 /\ UNCHANGED portfolio
       ELSE pc' = "sending" /\ portfolio' = CalcPortfolio(cache, Heard) /\ UNCHANGED since
    /\ UNCHANGED <<database, quoted, peer, cache, age, late>>

Reload == Goto("reloading", "reloaded") /\ Reads

(* Mutant of Reloaded: the time of the refresh is that after the query. *)
ReloadedAndNotes ==
    /\ Goto("reloaded", "sending")
    /\ portfolio' = CalcPortfolio(cache, prices) /\ since' = 0
    /\ UNCHANGED <<database, market, peer, prices, cache, age, late>>

Reloaded ==
    /\ Goto("reloaded", "sending")
    /\ portfolio' = CalcPortfolio(cache, prices)
    /\ UNCHANGED <<database, market, peer, prices, cache, clock>>

(* A read that times out makes listen() connect and subscribe again, in    *)
(* the same loop: the ticks that had not arrived are lost.                 *)
Resubscribes ==
    /\ RedisMayFail
    /\ pc = "listening"
    /\ backlog' = <<>>
    /\ quoted' = [y \in Symbols |->
                    IF \E i \in DOMAIN backlog : backlog[i].symbol = y THEN Lost ELSE quoted[y]]
    /\ UNCHANGED <<database, pc, peer, local, clock>>

(* A peer that has left is noticed by a send that fails, and by nothing    *)
(* else: nobody receives.  Before that, what is sent to it vanishes.       *)
Send == peer # "lost" /\ Goto("sending", "listening") /\ Stays

(* Mutant of SendFails: the error of a send is logged. *)
SendFailsUnheeded == peer # "here" /\ Goto("sending", "listening") /\ Stays
SendFails == peer # "here" /\ Leaves("sending", "closing")

(* unsubscribe and aclose *)
Close == Leaves("closing", "ended")

(* An error before the loop leaves portfolio_ws at once, without aclose;   *)
(* in the loop it leads to the finally clause.                             *)
LoadFails ==
    /\ DbMayFail
    /\ \/ Leaves("loading", "ended") \/ Leaves("loaded", "ended")
       \/ Leaves("reloading", "closing") \/ Leaves("reloaded", "closing")

RedisFails ==
    /\ RedisMayFail
    /\ \/ Leaves("subscribing", "ended") \/ Leaves("listening", "closing")
       \/ Leaves("closing", "ended")

StreamRuns ==
    \/ Subscribe \/ Load \/ Note
    \/ TakesTick \/ Reload \/ Reloaded \/ Send \/ SendFails \/ Close

Next ==
    \/ \E y \in Symbols : Trade(y) \/ \E p \in Prices : Publish(y, p)
    \/ ClockTick \/ PeerLeaves \/ PeerMissed
    \/ Open \/ StreamRuns \/ Resubscribes \/ LoadFails \/ RedisFails

Spec == Init /\ [][Next]_vars

(* The event loop runs the handler, time passes, the server's pings find   *)
(* dead peers, and the market engine goes through its symbols for ever.    *)
(* Reads time out when there is nothing to read, so that ticks which come  *)
(* again and again are taken at times, however often a connection is lost. *)
Fairness ==
    /\ WF_vars(StreamRuns) /\ SF_vars(TakesTick)
    /\ WF_vars(ClockTick) /\ WF_vars(PeerMissed)
    /\ WF_vars(\E y \in Symbols, p \in Prices : Publish(y, p))
FairSpec == Spec /\ Fairness

----------------------------------------------------------------------------
(* A tick that causes no refresh is shown with positions that the database *)
(* read less than RefreshSecs before (ws.py:205); those of the first query *)
(* may be older by the time its answer took to arrive, since it is on the  *)
(* clock only from then (ws.py:191).  A trade stays hidden no longer,      *)
(* however ticks, refreshes, slow queries and slow sends interleave.       *)
PositionsFresh ==
    [][pc = "listening" /\ pc' = "sending" => age' < RefreshSecs + late']_vars

(* A stream that has caught up shows each position at the last price that  *)
(* was published since it subscribed, also of symbols that it did not hold *)
(* at the time; one of which no price was published shows neither profit   *)
(* nor loss (ws.py:132).  The exception is a price that was lost with a    *)
(* connection to Redis (redis.py:15), up to the next one of its symbol.    *)
ShowsLastPrices ==
    pc = "listening" /\ backlog = <<>> =>
        \A r \in portfolio :
            quoted[r.of.symbol] = Lost \/ r.current_price = PriceOf(r.of, quoted)

Shown == {r.of : r \in portfolio}

(* As long as ticks come, a stream ends or shows the user's positions as   *)
(* they are, once no more trades are made (ws.py:204).                     *)
CatchesUp == <>[](pc \in {"new", "ended"} \/ Shown = LoadPositions)

(* A stream whose peer has left ends, and with it its subscription: ticks  *)
(* lead to sends, and sends fail (ws.py:215).                              *)
GoneStreamsEnd == peer = "lost" /\ pc # "new" ~> pc = "ended"
=============================================================================
