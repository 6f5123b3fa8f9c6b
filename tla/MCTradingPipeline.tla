-------------------------- MODULE MCTradingPipeline --------------------------
(* The frames of src/main.cpp with their prices.  Multicast may bring the  *)
(* four first frames in any order; when it does not bring all of them in   *)
(* time, those it brought are followed by all four again.  The lz4 frame   *)
(* comes last.                                                             *)
EXTENDS TradingPipeline, SequencesExt

FrameTicks ==
  [itch    |-> <<Tick("itch", 10000, 10), Tick("itch", 9980, 20)>>,
   mtbt    |-> <<Tick("mtbt", 250000, 111), Tick("mtbt", 251000, 222)>>,
   mcx_ref |-> <<Quote("mcx", 7200000, 7200100, 0, 5001)>>,
   mcx_buy |-> <<Quote("mcx", 7100000, 7100100, 0, 5001)>>,
   lz4     |-> <<Tick("mtbt", 249000, 333)>>]

Direct == <<"itch", "mtbt", "mcx_ref", "mcx_buy">>

SimFrames == {"itch", "mtbt", "mcx_ref", "mcx_buy"}

FrameOrders ==
  {order \o <<"lz4">> : order \in SetToSeqs(SimFrames)}
    \cup {some \o Direct \o <<"lz4">> : some \in SetToAllKPermutations(SimFrames)}

MCArrivals ==
  {FlattenSeq([i \in DOMAIN order |-> FrameTicks[order[i]]]) : order \in FrameOrders}

MCBbos == <<Quote("sbe", 6500000, 6500100, -2, 1), Quote("sbe", 6400000, 6400100, -2, 1)>>

MCPoolSlots == 1 .. 14
=============================================================================
