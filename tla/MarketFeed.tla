----------------------------- MODULE MarketFeed -----------------------------
(* The market engine's process and Redis: a key with the latest price of   *)
(* each symbol, and a pub/sub channel that hands every tick at most once   *)
(* to each subscriber, in the order they were published.                   *)
EXTENDS TradingModels

CONSTANTS MaxTicks,     \* bound: ticks published in a behaviour
          FeedMayDrop   \* whether a subscriber's connection may drop

ASSUME MaxTicksAssumption == MaxTicks \in Nat
ASSUME FeedMayDropAssumption == FeedMayDrop \in BOOLEAN

VARIABLES
    price_key,  \* [Symbols -> the value of the key price:<symbol>, or Null]
    outbox,     \* the tick that was SET and is not yet PUBLISHed, or Null
    feed,       \* the ticks published so far
    cursor      \* [Subscribers -> ticks of feed that it has taken or lost]

feedVars == <<price_key, outbox, feed, cursor>>

Tick == [symbol : Symbols, price : Prices]

ASSUME TickAssumption == Null \notin Tick

FeedTypeOK ==
    /\ price_key \in [Symbols -> Prices \cup {Null}]
    /\ outbox \in Tick \cup {Null}
    /\ feed \in Seq(Tick)
    /\ cursor \in [Subscribers -> Nat]

FeedInit ==
    /\ price_key = [y \in Symbols |-> Null]
    /\ outbox = Null
    /\ feed = <<>>
    /\ cursor = [s \in Subscribers |-> 0]

(* SymbolEngine.tick, then SET: the key changes before any subscriber hears. *)
SetPrice(y, p) ==
    /\ outbox = Null
    /\ Len(feed) < MaxTicks
    /\ price_key' = [price_key EXCEPT ![y] = p]
    /\ outbox' = [symbol |-> y, price |-> p]
    /\ UNCHANGED <<feed, cursor>>

Publish ==
    /\ outbox # Null
    /\ feed' = Append(feed, outbox)
    /\ outbox' = Null
    /\ UNCHANGED <<price_key, cursor>>

PublisherStep == Publish \/ \E y \in Symbols, p \in Prices : SetPrice(y, p)

----------------------------------------------------------------------------
(* Mutant of TakeTick: a queue of one, that keeps only the latest tick. *)
TakeLatest(s) ==
    /\ cursor[s] < Len(feed)
    /\ cursor' = [cursor EXCEPT ![s] = Len(feed)]
    /\ UNCHANGED <<price_key, outbox, feed>>

(* Steps of a subscriber: take the next tick, or lose all that is waiting. *)
TakeTick(s) ==
    /\ cursor[s] < Len(feed)
    /\ cursor' = [cursor EXCEPT ![s] = @ + 1]
    /\ UNCHANGED <<price_key, outbox, feed>>

SkipToEnd(s) ==
    /\ cursor' = [cursor EXCEPT ![s] = Len(feed)]
    /\ UNCHANGED <<price_key, outbox, feed>>

CurrentTick(s) == feed[cursor[s]]
=============================================================================
