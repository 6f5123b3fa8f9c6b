---------------------------- MODULE MCFeedStartup ----------------------------
(* The five frames of src/main.cpp on its three channels, and one frame    *)
(* that somebody else may send to the first channel.                       *)
EXTENDS FeedStartup

CONSTANTS itch, mtbt, mcx_ref, mcx_buy, lz4, other

MCWriters   == {"main", "hub"}
MCFrames    == {itch, mtbt, mcx_ref, mcx_buy, lz4, other}
MCSimFrames == <<itch, mtbt, mcx_ref, mcx_buy>>
MCForeign   == {other}
MCChannels  == <<"itch", "mtbt", "mcx">>
MCChannel   ==
  [f \in MCFrames |-> CASE f \in {itch, other}       -> "itch"
                        [] f \in {mtbt, lz4}         -> "mtbt"
                        [] f \in {mcx_ref, mcx_buy}  -> "mcx"]
MCEndpoints == {"hub", "simulator"} \X {"itch", "mtbt", "mcx"}
MCRegions   == <<"pool", "market_queue", "signal_queue", "pending_queue", "confirm_queue", "inlet">>
MCExpected  == [c \in {"itch", "mtbt", "mcx"} |-> IF c = "mcx" THEN 2 ELSE 1]
=============================================================================
