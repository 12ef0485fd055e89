----------------------------- MODULE MCTrading -----------------------------
(* Small instances of Trading for TLC.  Money is in units small enough for *)
(* the opening balance to run out within the few orders of a behaviour.    *)
EXTENDS TradingInv, TLC

CONSTANTS ann, bob, nifty   \* two users and a symbol

Request(user, side, type, quantity, limit, trigger) ==
    [user |-> user, symbol |-> nifty, side |-> side, order_type |-> type,
     quantity |-> quantity, limit_price |-> limit, trigger_price |-> trigger]

MarketBuy(user) == Request(user, "buy", "market", 1, Null, Null)
MarketSale(user) == Request(user, "sell", "market", 1, Null, Null)

Stops(user, sl, tp) ==
    [user |-> user, symbol |-> nifty, stop_loss |-> sl, target_price |-> tp]

NoStops == {}

(* MCRace: one wallet and one holding, orders of every type.  The buy stop *)
(* is triggered by 3 and filled by 2; 2 triggers and fills the sell stop.  *)
RaceRequests ==
    {MarketBuy(ann), MarketSale(ann),
     Request(ann, "buy", "limit", 2, 2, Null),
     Request(ann, "buy", "stop_limit", 1, 2, 3),
     Request(ann, "sell", "stop_limit", 1, 2, 2)}

RaceSymmetry == Permutations(RequestIds) \cup Permutations(Matchers)

(* MCStops: a holding that is bought, given stops, sold by two stop-loss   *)
(* engines, a limit order or its owner, and bought again.                  *)
HoldRequests ==
    {MarketBuy(ann), MarketSale(ann), Request(ann, "sell", "limit", 1, 2, Null)}

HoldStops == {Stops(ann, 1, Null), Stops(ann, Null, 2), Stops(ann, 1, 2)}

HoldSymmetry ==
    UNION {Permutations(S) : S \in {RequestIds, StopEngines, SaleIds}}

(* MCStopOrder: two requests that each name one of the stops. *)
OneStopEach == {Stops(ann, 2, Null), Stops(ann, Null, 1)}

(* MCLive: orders and stops that wait for the same ticks. *)
LiveRequests ==
    {MarketBuy(ann), Request(ann, "buy", "limit", 1, 1, Null),
     Request(ann, "buy", "stop_limit", 1, 1, 2)}

LiveStops == {Stops(ann, 1, Null), Stops(ann, Null, 2)}
=============================================================================
