----------------------------- MODULE ConfigProofs -----------------------------
(***************************************************************************)
(* The settings every accepted environment leads to.                       *)
(***************************************************************************)
EXTENDS Config, TLAPS

\* An environment that leaves INGEST_STREAM_MAX_LEN out never caps events:in
\* below twice the mark at which the API starts to shed, so the shedder acts
\* before MAXLEN cuts: "safe-by-default", in every profile.
THEOREM DefaultCapIsAboveMark ==
  ASSUME NEW env \in Env, Accepted(env), env.IngestStreamMaxLen = 0
  PROVE  LET cfg == applyProfileDefaults(env)
         IN  Cap(cfg.IngestStreamMaxLen) = 2 * HighMark(cfg)
<1> DEFINE depth == Filled(env, "IngestMaxQueueDepth")
<1>1. depth \in Int
  BY DEF Filled, Env, Profiles, profilesTable, Tier
<1>2. /\ applyProfileDefaults(env).IngestMaxQueueDepth = depth
      /\ applyProfileDefaults(env).IngestStreamMaxLen = DefaultCap(env, depth)
  BY DEF applyProfileDefaults, Env
<1> HIDE DEF depth
<1>3. QED
  BY <1>1, <1>2 DEF DefaultCap, Cap, HighMark
=============================================================================
