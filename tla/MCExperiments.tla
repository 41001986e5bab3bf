----------------------------- MODULE MCExperiments -----------------------------
(* The weight experiments for TLC: the codecs asked one question each, or a    *)
(* campaign of scripts.                                                        *)
EXTENDS MCWeightCodecs, QualificationScripts

MCScripts == DOMAIN Programs
MCItems == DOMAIN OutsideVersions

Campaign(scripts, jobs, n, killed, changed, items) ==
  [scripts |-> scripts, jobs |-> jobs, runs |-> n, kills |-> killed, changes |-> changed,
   items |-> items]

Quiet == Campaign({}, {}, 0, 0, 0, {})

MCCampaigns ==
  { Quiet,
    \* the four experiments in any order, one of them killed anywhere
    Campaign({"c4", "implicit", "simd", "weight"}, {1}, 4, 1, 0, {}),
    \* the same with another model or llama.cpp in between
    Campaign({"c4", "implicit"}, {1}, 3, 1, 1, {"source", "llama"}),
    \* two runs that both find nothing, and a third
    Campaign({"lut"}, {1, 2}, 3, 1, 0, {}),
    \* step 21, one after another and overlapping
    Campaign({"prepare", "bridge", "runtime"}, {1}, 3, 1, 1, {"tree"}),
    Campaign({"bridge", "runtime"}, {1, 2}, 2, 1, 1, {"tree"}),
    \* the benchmarks behind its gate, and the scripts without one
    Campaign({"s22", "s22a", "s23", "runtime"}, {1}, 2, 0, 2, {"tree"}),
    Campaign({"s19a", "s19b"}, {1}, 2, 0, 1, {"consumer", "models"}),
    Campaign({"geometric", "structured"}, {1}, 2, 0, 0, {}) }

ExperimentsInit ==
  /\ ChainInit
  /\ kind \in (IF campaign = Quiet THEN Kinds ELSE {"none"}) /\ question = NoQuestion

ExperimentsNext ==
  \/ Next /\ UNCHANGED chainVars
  \/ ChainNext /\ UNCHANGED codecVars

ExperimentsSpec == ExperimentsInit /\ [][ExperimentsNext]_<<chainVars, codecVars>>

=============================================================================
