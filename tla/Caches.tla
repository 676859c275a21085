------------------------------- MODULE Caches -------------------------------
(***************************************************************************)
(* The two caches every run of a pipeline shares (autopsy/cache.py):       *)
(* StageCache, keyed by config, tenant, stage and payload, and             *)
(* EmbeddingCache, keyed by the text alone (one index, one model).         *)
(*                                                                         *)
(* get_or_compute looks the key up, computes on a miss, and stores: no     *)
(* lock spans the three, so two runs that miss one key both compute it and *)
(* the last to finish overwrites the other.  A value is represented by the *)
(* run that computed it.                                                   *)
(***************************************************************************)
CONSTANT CacheEnabled    \* runtime.cache_enabled

ASSUME CacheAssumption == CacheEnabled \in BOOLEAN

VARIABLES stage_cache, embed_cache

cacheVars == <<stage_cache, embed_cache>>

\* Slip: the config is left out of the key.
KeyWithoutConfig(config, tenant, stage, payload) == <<tenant, stage, payload>>

\* StageCache.key.
Key(config, tenant, stage, payload) == <<config, tenant, stage, payload>>

CacheInit == stage_cache = <<>> /\ embed_cache = <<>>

Cache(stage) == IF stage = "embed" THEN embed_cache ELSE stage_cache

Hit(stage, key) == CacheEnabled /\ key \in DOMAIN Cache(stage)

Stored(cache, key, value) ==
  IF CacheEnabled
  THEN [k \in DOMAIN cache \cup {key} |-> IF k = key THEN value ELSE cache[k]]
  ELSE cache

Store(stage, key, value) ==
  IF stage = "embed"
  THEN embed_cache' = Stored(embed_cache, key, value) /\ UNCHANGED stage_cache
  ELSE stage_cache' = Stored(stage_cache, key, value) /\ UNCHANGED embed_cache
=============================================================================
