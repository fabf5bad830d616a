---------------------------- MODULE MCLoadShedding ----------------------------
(***************************************************************************)
(* Instances of LoadShedding for TLC: entries are all alike, and the marks *)
(* and the cap come from an environment that leaves the cap unset.         *)
(***************************************************************************)
EXTENDS LoadShedding, Config, TLC

CONSTANTS e, r1, a1, a2

MCEntry == {e}
OneRequest == {r1}
OneApi == {a1}
TwoApis == {a1, a2}
ApiSymmetry == Permutations(TwoApis)

MCEnv ==
    [Profile |-> "custom", StreamMaxLen |-> 0, RedisPoolSize |-> 0,
     WSFanoutBufferSize |-> 0, IngestMaxQueueDepth |-> 3,
     IngestStreamMaxLen |-> 0, QueueDepthLowWaterPct |-> 50, StreamCount |-> 2]

MCConfig == applyProfileDefaults(MCEnv)

MCHighWater == HighMark(MCConfig)
MCLowWaterPct == MCConfig.QueueDepthLowWaterPct
MCMaxLen == Cap(MCConfig.IngestStreamMaxLen)
MCCount == BatchSize(MCConfig)
===============================================================================
