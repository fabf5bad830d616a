------------------------------- MODULE Config -------------------------------
(***************************************************************************)
(* The settings the other modules take as constants, and how a process     *)
(* comes by them (internal/config/config.go): what the environment says,   *)
(* with 0 for what it does not say; the defaults of the profile; and the   *)
(* fallbacks of the code that uses a setting.                              *)
(***************************************************************************)
EXTENDS Integers

Profiles == {"small", "medium", "large"}

Tier(len, pool, buffer, depth) ==
    [StreamMaxLen |-> len, RedisPoolSize |-> pool,
     WSFanoutBufferSize |-> buffer, IngestMaxQueueDepth |-> depth]

profilesTable ==
    [small  |-> Tier(1000, 50, 100, 5000),
     medium |-> Tier(5000, 100, 256, 25000),
     large  |-> Tier(10000, 200, 512, 50000)]

Env == [Profile : STRING,
        StreamMaxLen : Int, RedisPoolSize : Int, WSFanoutBufferSize : Int,
        IngestMaxQueueDepth : Int, IngestStreamMaxLen : Int,
        QueueDepthLowWaterPct : Int, StreamCount : Int]

\* applyProfileDefaults refuses a profile it does not know and a percentage
\* that is none; the process then exits.
Accepted(env) ==
    /\ env.Profile \in Profiles \cup {"custom"}
    /\ env.QueueDepthLowWaterPct \in 0 .. 100

\* A setting of the profile's tier that is 0 gets the tier's value.
Filled(env, field) ==
    IF env.Profile \in Profiles /\ env[field] = 0
    THEN profilesTable[env.Profile][field]
    ELSE env[field]

\* Faulty variant: the cap is the high mark itself.
DefaultCapOfDepth(env, depth) == depth

\* The cap on events:in that goes with a high mark.
DefaultCap(env, depth) ==
    IF env.Profile = "custom" /\ depth <= 0 THEN 0 ELSE depth * 2

applyProfileDefaults(env) ==
    LET depth == Filled(env, "IngestMaxQueueDepth")
    IN  [env EXCEPT
           !.StreamMaxLen = Filled(env, "StreamMaxLen"),
           !.RedisPoolSize = Filled(env, "RedisPoolSize"),
           !.WSFanoutBufferSize = Filled(env, "WSFanoutBufferSize"),
           !.IngestMaxQueueDepth = depth,
           !.IngestStreamMaxLen = IF @ = 0 THEN DefaultCap(env, depth) ELSE @]

----------------------------------------------------------------------------
(***************************************************************************)
(* What the settings come to where they are used.                          *)
(***************************************************************************)

\* MAXLEN of an XADD or XTRIM: none unless it is positive.
Cap(n) == IF n > 0 THEN n ELSE 0

\* NewQueueDepthMonitor: shedding is disabled unless the mark is positive.
HighMark(cfg) == IF cfg.IngestMaxQueueDepth > 0 THEN cfg.IngestMaxQueueDepth ELSE 0

\* Subscribe and StreamTenantEvents: the room in a channel.
ChannelRoom(cfg) == IF cfg.WSFanoutBufferSize <= 0 THEN 100 ELSE cfg.WSFanoutBufferSize

\* NewReader: the size of a batch.
BatchSize(cfg) == IF cfg.StreamCount <= 0 THEN 32 ELSE cfg.StreamCount
=============================================================================
