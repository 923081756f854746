--------------------------- MODULE MCLearningRound --------------------------
(* The main loop alone, and the main loop with one thread of the gRPC pool.  An event    *)
(* without a gain and with half a drift, one with a small gain, and one with a large     *)
(* gain under hard drift.                                                                *)
EXTENDS LearningRound
CONSTANT grpc
MCPools == {{Main}, {Main, grpc}}
MCUpdates == [tampered : BOOLEAN, degraded : {FALSE}, outside : BOOLEAN]
MCEvents == {[risk |-> "high", distribution |-> FALSE, score |-> TRUE],
             [risk |-> "near", distribution |-> FALSE, score |-> FALSE],
             [risk |-> "low", distribution |-> TRUE, score |-> TRUE]}
=============================================================================
