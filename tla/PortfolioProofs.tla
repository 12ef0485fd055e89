--------------------------- MODULE PortfolioProofs ---------------------------
(* Proofs about PortfolioStream for every set of symbols, prices and       *)
(* columns, every refresh period and every backlog.                        *)
EXTENDS PortfolioStream, TLAPS

Tick == [symbol : Symbols, price : Prices]

(* The last price of symbol y in the backlog is the one published last; if *)
(* there is none, that one was heard, or lost.                             *)
QuotedLast ==
    \A y \in Symbols :
        \/ /\ \A i \in 1 .. Len(backlog) : backlog[i].symbol # y
           /\ quoted[y] = Lost \/ prices[y] = quoted[y]
        \/ \E i \in 1 .. Len(backlog) :
            /\ backlog[i].symbol = y /\ backlog[i].price = quoted[y]
            /\ \A j \in 1 .. Len(backlog) : i < j => backlog[j].symbol # y

(* The prices are up to date but for the backlog and what was lost; while  *)
(* no query is under way, the positions are no older than the time since   *)
(* last_refresh says, but for the delay of the first one; and what was     *)
(* computed last has the prices heard since.                               *)
StreamInv ==
    /\ TypeOK
    /\ QuotedLast
    /\ pc \in {"new", "subscribing"} =>
        /\ backlog = <<>>
        /\ \A y \in Symbols : prices[y] = Null /\ quoted[y] = Null
    /\ pc \in {"new", "subscribing", "loading", "loaded"} => portfolio = {}
    /\ pc \in {"listening", "reloaded", "sending"} =>
        (since < RefreshSecs => age <= since + late)
    /\ pc \in {"listening", "sending"} =>
        \A r \in portfolio : r.current_price = PriceOf(r.of, prices)

USE DEF Goto, Stays, database, market, local, clock

----------------------------------------------------------------------------
(* Types *)

LEMMA LoadType == ASSUME TypeOK PROVE LoadPositions \subseteq Position
BY DEF TypeOK, LoadPositions, Columns, Position

LEMMA CalcType ==
    ASSUME NEW positions \in SUBSET Position, NEW heard \in [Symbols -> Prices \cup {Null}]
    PROVE  /\ CalcPortfolio(positions, heard) \subseteq Row
           /\ \A r \in CalcPortfolio(positions, heard) :
                r.current_price = PriceOf(r.of, heard)
<1>1. \A p \in positions :
        /\ p \in Position
        /\ PriceOf(p, heard) \in Prices \cup Averages
  BY DEF Position, PriceOf
<1> QED
  BY <1>1 DEF CalcPortfolio, Row

(* A tick that arrives is the last one; the tick taken was the first. *)
LEMMA TickArrives ==
    ASSUME TypeOK, QuotedLast, NEW y \in Symbols, NEW p \in Prices,
           backlog' = Append(backlog, [symbol |-> y, price |-> p]),
           quoted' = [quoted EXCEPT ![y] = p], UNCHANGED prices
    PROVE  /\ backlog' \in Seq(Tick) /\ quoted' \in [Symbols -> Prices \cup {Null, Lost}]
           /\ QuotedLast'
<1> DEFINE n == Len(backlog)
<1>1. backlog \in Seq(Tick) /\ n \in Nat
  BY DEF TypeOK, Tick
<1>2. [symbol |-> y, price |-> p] \in Tick
  BY DEF Tick
<1>3. /\ backlog' \in Seq(Tick) /\ Len(backlog') = n + 1
      /\ backlog'[n + 1] = [symbol |-> y, price |-> p]
      /\ \A i \in 1 .. n : backlog'[i] = backlog[i]
  BY <1>1, <1>2
<1>4. /\ quoted' \in [Symbols -> Prices \cup {Null, Lost}] /\ quoted'[y] = p
      /\ \A x \in Symbols : x # y => quoted'[x] = quoted[x]
  BY DEF TypeOK
<1> HIDE DEF n
<1>5. ASSUME NEW x \in Symbols, x # y
      PROVE  \/ /\ \A i \in 1 .. Len(backlog') : backlog'[i].symbol # x
                /\ quoted'[x] = Lost \/ prices'[x] = quoted'[x]
             \/ \E i \in 1 .. Len(backlog') :
                /\ backlog'[i].symbol = x /\ backlog'[i].price = quoted'[x]
                /\ \A j \in 1 .. Len(backlog') : i < j => backlog'[j].symbol # x
  <2>1. \A i \in 1 .. Len(backlog') : i \in 1 .. n \/ i = n + 1
    BY <1>1, <1>3 DEF n
  <2>2. backlog'[n + 1].symbol # x
    BY <1>3, <1>5
  <2>3. CASE /\ \A i \in 1 .. n : backlog[i].symbol # x
             /\ quoted[x] = Lost \/ prices[x] = quoted[x]
    BY <1>3, <1>4, <1>5, <2>1, <2>2, <2>3
  <2>4. CASE \E i \in 1 .. n :
                /\ backlog[i].symbol = x /\ backlog[i].price = quoted[x]
                /\ \A j \in 1 .. n : i < j => backlog[j].symbol # x
    <3>1. PICK i \in 1 .. n :
                /\ backlog[i].symbol = x /\ backlog[i].price = quoted[x]
                /\ \A j \in 1 .. n : i < j => backlog[j].symbol # x
      BY <2>4
    <3>2. i \in 1 .. Len(backlog')
      BY <1>1, <1>3 DEF n
    <3>3. backlog'[i].symbol = x /\ backlog'[i].price = quoted'[x]
      BY <1>3, <1>4, <1>5, <3>1
    <3>4. \A j \in 1 .. Len(backlog') : i < j => backlog'[j].symbol # x
      BY <1>3, <2>1, <2>2, <3>1
    <3> QED
      BY <3>2, <3>3, <3>4
  <2> QED
    BY <2>3, <2>4 DEF QuotedLast, n
<1>6. \E i \in 1 .. Len(backlog') :
        /\ backlog'[i].symbol = y /\ backlog'[i].price = quoted'[y]
        /\ \A j \in 1 .. Len(backlog') : i < j => backlog'[j].symbol # y
  <2>1. n + 1 \in 1 .. Len(backlog') /\ ~ \E j \in 1 .. Len(backlog') : n + 1 < j
    BY <1>1, <1>3 DEF n
  <2>2. backlog'[n + 1].symbol = y /\ backlog'[n + 1].price = quoted'[y]
    BY <1>3, <1>4
  <2> QED
    BY <2>1, <2>2
<1>7. QuotedLast'
  <2> SUFFICES ASSUME NEW x \in Symbols
               PROVE  \/ /\ \A i \in 1 .. Len(backlog') : backlog'[i].symbol # x
                         /\ quoted'[x] = Lost \/ prices'[x] = quoted'[x]
                      \/ \E i \in 1 .. Len(backlog') :
                         /\ backlog'[i].symbol = x /\ backlog'[i].price = quoted'[x]
                         /\ \A j \in 1 .. Len(backlog') : i < j => backlog'[j].symbol # x
    BY DEF QuotedLast
  <2>1. CASE x = y BY <1>6, <2>1
  <2>2. CASE x # y BY <1>5, <2>2
  <2> QED
    BY <2>1, <2>2
<1> QED
  BY <1>3, <1>4, <1>7

LEMMA TickTaken ==
    ASSUME TypeOK, QuotedLast, backlog # <<>>,
           prices' = Heard, backlog' = Tail(backlog), UNCHANGED quoted
    PROVE  /\ backlog' \in Seq(Tick) /\ prices' \in [Symbols -> Prices \cup {Null}]
           /\ QuotedLast'
<1> DEFINE n == Len(backlog)
           y == backlog[1].symbol
<1>1. backlog \in Seq(Tick) /\ n \in Nat /\ n >= 1
  BY DEF TypeOK, Tick
<1>2. /\ backlog' \in Seq(Tick) /\ Len(backlog') = n - 1
      /\ \A i \in 1 .. n - 1 : backlog'[i] = backlog[i + 1]
  BY <1>1
<1>3. backlog[1] \in Tick /\ Head(backlog) = backlog[1]
  BY <1>1
<1>4. /\ prices' \in [Symbols -> Prices \cup {Null}] /\ y \in Symbols
      /\ prices'[y] = backlog[1].price
      /\ \A x \in Symbols : x # y => prices'[x] = prices[x]
  BY <1>3 DEF Heard, TypeOK, Tick
<1> HIDE DEF n, y
<1>5. ASSUME NEW x \in Symbols
      PROVE  \/ /\ \A i \in 1 .. Len(backlog') : backlog'[i].symbol # x
                /\ quoted'[x] = Lost \/ prices'[x] = quoted'[x]
             \/ \E i \in 1 .. Len(backlog') :
                /\ backlog'[i].symbol = x /\ backlog'[i].price = quoted'[x]
                /\ \A j \in 1 .. Len(backlog') : i < j => backlog'[j].symbol # x
  <2>1. \A i \in 1 .. Len(backlog') : i + 1 \in 1 .. n /\ backlog'[i] = backlog[i + 1]
    BY <1>1, <1>2 DEF n
  <2>2. CASE /\ \A i \in 1 .. n : backlog[i].symbol # x
             /\ quoted[x] = Lost \/ prices[x] = quoted[x]
    <3>1. x # y
      BY <1>1, <2>2 DEF y
    <3> QED
      BY <1>4, <2>1, <2>2, <3>1
  <2>3. CASE \E i \in 1 .. n :
                /\ backlog[i].symbol = x /\ backlog[i].price = quoted[x]
                /\ \A j \in 1 .. n : i < j => backlog[j].symbol # x
    <3>1. PICK i \in 1 .. n :
                /\ backlog[i].symbol = x /\ backlog[i].price = quoted[x]
                /\ \A j \in 1 .. n : i < j => backlog[j].symbol # x
      BY <2>3
    <3>2. CASE i = 1
      <4>1. x = y /\ prices'[x] = quoted'[x]
        BY <1>4, <3>1, <3>2 DEF y
      <4>2. \A k \in 1 .. Len(backlog') : 1 < k + 1
        BY <1>1, <1>2
      <4>3. \A k \in 1 .. Len(backlog') : backlog'[k].symbol # x
        BY <2>1, <3>1, <3>2, <4>2
      <4> QED
        BY <4>1, <4>3
    <3>3. CASE i # 1
      <4> DEFINE k == i - 1
      <4>1. k \in 1 .. Len(backlog') /\ k + 1 = i
        BY <1>1, <1>2, <3>3 DEF n
      <4>2. backlog'[k].symbol = x /\ backlog'[k].price = quoted'[x]
        BY <2>1, <3>1, <4>1
      <4>3. \A j \in 1 .. Len(backlog') : k < j => i < j + 1
        BY <1>1, <1>2, <4>1
      <4>4. \A j \in 1 .. Len(backlog') : k < j => backlog'[j].symbol # x
        BY <2>1, <3>1, <4>3
      <4> QED
        BY <4>1, <4>2, <4>4
    <3> QED
      BY <3>2, <3>3
  <2> QED
    BY <2>2, <2>3 DEF QuotedLast, n
<1> QED
  BY <1>2, <1>4, <1>5 DEF QuotedLast

----------------------------------------------------------------------------
(* The inductive invariant *)

LEMMA StreamInit == Init => StreamInv
<1> SUFFICES ASSUME Init
             PROVE  StreamInv
  OBVIOUS
<1>1. TypeOK
  BY NumbersAssumption DEF Init, TypeOK, StreamPc
<1>2. QuotedLast
  BY DEF Init, QuotedLast
<1> QED
  BY <1>1, <1>2, NumbersAssumption DEF Init, StreamInv

LEMMA StreamNext == StreamInv /\ [Next]_vars => StreamInv'
<1> SUFFICES ASSUME StreamInv, [Next]_vars
             PROVE  StreamInv'
  OBVIOUS
<1>0. UNCHANGED <<prices, quoted, backlog>> => QuotedLast'
  BY DEF StreamInv, QuotedLast
<1> USE DEF StreamInv, TypeOK
<1>1. CASE UNCHANGED vars
  BY <1>0, <1>1 DEF vars, PriceOf
<1>2. ASSUME NEW y \in Symbols, Trade(y)
      PROVE  StreamInv'
  <2>1. /\ position' \in [Symbols -> Columns] /\ trades' \in 0 .. MaxTrades
        /\ UNCHANGED <<quoted, backlog, pc, peer, prices, cache, portfolio, since, age, late>>
    BY <1>2, NumbersAssumption DEF Trade
  <2> QED
    BY <1>0, <2>1 DEF PriceOf
<1>3. CASE ClockTick
  <2>1. /\ since' \in 0 .. RefreshSecs /\ age' \in 0 .. MaxAge
        /\ since' < RefreshSecs => since' = since + 1
        /\ age' <= age + 1
        /\ UNCHANGED <<position, trades, quoted, backlog, pc, peer, prices, cache, portfolio, late>>
    BY <1>3, NumbersAssumption DEF ClockTick, Later
  <2>2. pc \in {"listening", "reloaded", "sending"} =>
          (since' < RefreshSecs => age' <= since' + late')
    BY <2>1, NumbersAssumption
  <2> QED
    BY <1>0, <2>1, <2>2 DEF PriceOf
<1>4. ASSUME NEW y \in Symbols, NEW p \in Prices, Publish(y, p)
      PROVE  StreamInv'
  <2>1. CASE Hears
    <3>1. /\ backlog' \in Seq(Tick) /\ quoted' \in [Symbols -> Prices \cup {Null, Lost}]
          /\ QuotedLast'
      BY <1>4, <2>1, TickArrives DEF Publish
    <3> QED
      BY <1>4, <2>1, <3>1 DEF Publish, Hears, Tick, PriceOf
  <2>2. CASE ~Hears
    BY <1>0, <1>4, <2>2 DEF Publish, PriceOf
  <2> QED
    BY <2>1, <2>2
<1>5. CASE PeerLeaves \/ PeerMissed
  BY <1>0, <1>5 DEF PeerLeaves, PeerMissed, PriceOf
<1>6. CASE Open \/ Subscribe \/ Send
  <2>1. /\ UNCHANGED <<position, trades, quoted, backlog, peer, prices, cache, portfolio>>
        /\ UNCHANGED <<since, age, late>> /\ pc' \in StreamPc
        /\ pc' \in {"new", "subscribing"} => pc = "new"
        /\ pc' = "loading" => pc = "subscribing"
        /\ pc' # "loaded" /\ pc' # "reloaded"
        /\ pc' \in {"listening", "sending"} => pc = "sending"
    BY <1>6 DEF Open, Subscribe, Send, StreamPc
  <2> QED
    BY <1>0, <2>1 DEF PriceOf
<1>7. CASE Close \/ SendFails \/ LoadFails \/ RedisFails
  <2>1. PICK from, to : to \in {"closing", "ended"} /\ Leaves(from, to)
    BY <1>7 DEF Close, SendFails, LoadFails, RedisFails
  <2>2. backlog' = <<>> /\ quoted' = [y \in Symbols |-> Null]
        /\ prices' = [y \in Symbols |-> Null]
    BY <2>1 DEF Leaves
  <2>3. QuotedLast' /\ backlog' \in Seq(Tick)
    BY <2>2 DEF QuotedLast
  <2> QED
    BY <2>1, <2>2, <2>3, NumbersAssumption DEF Leaves, StreamPc, Tick
<1>8. CASE Load \/ Reload
  <2>1. /\ cache' \subseteq Position /\ pc' \in {"loaded", "reloaded"} /\ age' = 0 /\ late' = 0
        /\ pc' = "loaded" => portfolio = {}
        /\ UNCHANGED <<position, trades, quoted, backlog, peer, prices, portfolio, since>>
    BY <1>8, LoadType DEF Load, Reload, Reads
  <2> QED
    BY <1>0, <2>1, NumbersAssumption DEF StreamPc
<1>9. CASE Note
  <2>1. /\ pc' = "listening" /\ since' = 0 /\ late' = age /\ portfolio = {}
        /\ UNCHANGED <<position, trades, quoted, backlog, peer, prices, cache, portfolio, age>>
    BY <1>9 DEF Note
  <2> QED
    BY <1>0, <2>1, NumbersAssumption DEF StreamPc
<1>10. CASE Resubscribes
  <2>1. /\ quoted' \in [Symbols -> Prices \cup {Null, Lost}] /\ backlog' = <<>>
        /\ pc = "listening" /\ backlog' \in Seq(Tick)
        /\ UNCHANGED <<position, trades, pc, peer, prices, cache, portfolio, since, age, late>>
    BY <1>10 DEF Resubscribes
  <2>2. QuotedLast'
    <3>1. DOMAIN backlog = 1 .. Len(backlog)
      OBVIOUS
    <3>2. ASSUME NEW y \in Symbols
          PROVE  quoted'[y] = Lost \/ prices'[y] = quoted'[y]
      BY <1>10, <2>1, <3>1 DEF Resubscribes, QuotedLast
    <3> QED
      BY <2>1, <3>2 DEF QuotedLast
  <2> QED
    BY <2>1, <2>2 DEF Tick, PriceOf
<1>11. CASE TakesTick
  <2>1. /\ backlog' \in Seq(Tick) /\ prices' \in [Symbols -> Prices \cup {Null}]
        /\ QuotedLast' /\ prices' = Heard
    BY <1>11, TickTaken DEF TakesTick
  <2>2. CASE since >= RefreshSecs
    BY <1>11, <2>1, <2>2, NumbersAssumption DEF TakesTick, StreamPc, Tick
  <2>3. CASE ~(since >= RefreshSecs)
    <3>1. /\ portfolio' = CalcPortfolio(cache, prices')
          /\ pc = "listening" /\ pc' = "sending"
          /\ UNCHANGED <<position, trades, quoted, peer, cache, since, age, late>>
      BY <1>11, <2>1, <2>3 DEF TakesTick
    <3>2. /\ CalcPortfolio(cache, prices') \subseteq Row
          /\ \A r \in CalcPortfolio(cache, prices') :
                r.current_price = PriceOf(r.of, prices')
      BY <2>1, CalcType
    <3> QED
      BY <2>1, <3>1, <3>2 DEF StreamPc, Tick, PriceOf
  <2> QED
    BY <2>2, <2>3
<1>12. CASE Reloaded
  <2>1. /\ CalcPortfolio(cache, prices) \subseteq Row
        /\ \A r \in CalcPortfolio(cache, prices) :
                r.current_price = PriceOf(r.of, prices)
    BY CalcType
  <2>2. /\ pc = "reloaded" /\ pc' = "sending" /\ portfolio' = CalcPortfolio(cache, prices)
        /\ UNCHANGED <<position, trades, quoted, backlog, peer, prices, cache, since, age, late>>
    BY <1>12 DEF Reloaded
  <2> QED
    BY <1>0, <2>1, <2>2 DEF StreamPc, PriceOf
<1> QED
  BY <1>1, <1>2, <1>3, <1>4, <1>5, <1>6, <1>7, <1>8, <1>9, <1>10, <1>11, <1>12
     DEF Next, StreamRuns

(* The types, and both theorems below, follow from this invariant: what a  *)
(* stream holds agrees with what Redis published and has not lost, and     *)
(* with what the database read, as long as its clock says (ws.py:168-223). *)
THEOREM StreamInvariant == Spec => []StreamInv
<1> QED
  BY StreamInit, StreamNext, PTL DEF Spec

(* At a tick without a refresh, portfolio_ws shows positions read less     *)
(* than _POSITION_REFRESH_SECS before, or less than that plus the time the *)
(* first query took to arrive, however slow its sends and queries are      *)
(* (ws.py:190-208).                                                        *)
THEOREM ShowsFreshPositions == Spec => PositionsFresh
<1>1. ASSUME StreamInv, Next, pc = "listening", pc' = "sending"
      PROVE  age' < RefreshSecs + late'
  <2>1. TakesTick
    <3>1. ~ \E y \in Symbols : Trade(y) \/ \E p \in Prices : Publish(y, p)
      BY <1>1 DEF Trade, Publish
    <3> QED
      BY <1>1, <3>1 DEF Next, StreamRuns, ClockTick, PeerLeaves, PeerMissed, Open, Subscribe,
         Load, Note, Reload, Reloaded, Send, SendFails, Close, Leaves, Resubscribes,
         LoadFails, RedisFails
  <2>2. since < RefreshSecs /\ UNCHANGED <<age, late>>
    BY <1>1, <2>1, NumbersAssumption DEF TakesTick, StreamInv, TypeOK
  <2>3. age <= since + late
    BY <1>1, <2>2 DEF StreamInv
  <2> QED
    BY <1>1, <2>2, <2>3, NumbersAssumption DEF StreamInv, TypeOK
<1>2. StreamInv /\ [Next]_vars
        => [pc = "listening" /\ pc' = "sending" => age' < RefreshSecs + late']_vars
  BY <1>1
<1> QED
  BY <1>2, StreamInvariant, PTL DEF Spec, PositionsFresh

(* A portfolio_ws that has taken all its ticks shows each position at the  *)
(* price published last since it subscribed, for any backlog of ticks, but *)
(* those whose last price was lost with a connection to Redis.             *)
THEOREM ShowsPublishedPrices == Spec => []ShowsLastPrices
<1>1. StreamInv => ShowsLastPrices
  <2> SUFFICES ASSUME StreamInv, pc = "listening", backlog = <<>>, NEW r \in portfolio,
                      quoted[r.of.symbol] # Lost
               PROVE  r.current_price = PriceOf(r.of, quoted)
    BY DEF ShowsLastPrices
  <2>1. \A y \in Symbols : quoted[y] = Lost \/ prices[y] = quoted[y]
    BY DEF StreamInv, QuotedLast
  <2>2. r.of.symbol \in Symbols /\ r.current_price = PriceOf(r.of, prices)
    BY DEF StreamInv, TypeOK, Row, Position
  <2> QED
    BY <2>1, <2>2 DEF PriceOf
<1> QED
  BY <1>1, StreamInvariant, PTL
=============================================================================
