------------------------------- MODULE Config -------------------------------
(***************************************************************************)
(* The configuration of an indexer: subdex-config (lib.rs) layers an       *)
(* optional TOML file and the environment, validates the result and builds *)
(* the framework's typed configurations from it.                           *)
(*                                                                         *)
(* A file is [status, keys]: it may be missing, unreadable or not TOML.    *)
(* The environment maps each variable to its value, None when it is unset  *)
(* or Malformed when it does not parse to its field's type.                *)
(***************************************************************************)
EXTENDS Naturals, Sequences, FiniteSets

CONSTANTS
  None,        \* Option::None
  Malformed,   \* a value that FromStr refuses
  Url          \* any connection URL

\* The variables that override a field, in the order overlay_env reads them.
Knobs ==
  << [var |-> "WS_URL",          key |-> "source.url"],
     [var |-> "DATABASE_URL",    key |-> "store.url"],
     [var |-> "BATCH_SIZE",      key |-> "source.batch_size"],
     [var |-> "CONCURRENCY",     key |-> "source.concurrency"],
     [var |-> "SS58_PREFIX",     key |-> "source.ss58_prefix"],
     [var |-> "STRICT",          key |-> "source.strict"],
     [var |-> "MAX_CONNECTIONS", key |-> "store.max_connections"],
     [var |-> "REORG_RETENTION", key |-> "store.reorg_retention"],
     [var |-> "START_HEIGHT",    key |-> "processor.start_height"],
     [var |-> "MAX_REORG_DEPTH", key |-> "processor.max_reorg_depth"] >>

Vars == {Knobs[i].var : i \in DOMAIN Knobs}

\* The fields of IndexerConfig, section by section.
Keys == {Knobs[i].key : i \in DOMAIN Knobs} \cup {"processor.batch_size"}

\* The field that a variable overrides.
KeyOf(var) == (CHOOSE k \in {Knobs[i] : i \in DOMAIN Knobs} : k.var = var).key

NoFile == [status |-> "missing", keys |-> [k \in Keys |-> None]]

OrElse(v, default) == IF v = None THEN default ELSE v

\* overlay_env, when every variable parses: the environment wins, then the
\* processor's batch size falls back on the source's.
Overlay(keys, env) ==
  LET Over(k) ==
        IF \E v \in Vars : KeyOf(v) = k /\ env[v] # None
        THEN env[CHOOSE v \in Vars : KeyOf(v) = k]
        ELSE keys[k]
  IN  [k \in Keys |->
         IF k = "processor.batch_size"
         THEN OrElse(keys[k], Over("source.batch_size"))
         ELSE Over(k)]

\* The fields' defaults, as SourceConfig::new, StoreConfig::new and
\* ProcessorConfig::default set them.
Defaults ==
  [k \in Keys |->
     CASE k = "source.batch_size"         -> 100
       [] k = "source.concurrency"        -> 16
       [] k = "source.ss58_prefix"        -> 42
       [] k = "source.strict"             -> FALSE
       [] k = "store.max_connections"     -> 5
       [] k = "store.reorg_retention"     -> 5000
       [] k = "processor.start_height"    -> 0
       [] k = "processor.batch_size"      -> 100
       [] k = "processor.max_reorg_depth" -> 64
       [] OTHER                           -> None]

\* The builders that floor their argument at 1.
Faulty_Floored == {"source.batch_size", "source.concurrency",
                   "store.max_connections"}   \* not the processor's

Floored == {"source.batch_size", "source.concurrency",
            "store.max_connections", "processor.batch_size"}

\* source_config, store_config and processor_config.
Build(cfg) ==
  [k \in Keys |->
     IF cfg[k] = None THEN Defaults[k]
     ELSE IF k \in Floored /\ cfg[k] = 0 THEN 1
     ELSE cfg[k]]

-----------------------------------------------------------------------------
(* What is refused, and the error that names it.                           *)

\* A ConfigError; about is the variable, field or file it names.
Error(kind, about) == [kind |-> kind, about |-> about]

\* set_opt on every knob in order: the first variable that does not parse.
BadKnobs(env) == {i \in DOMAIN Knobs : env[Knobs[i].var] = Malformed}

EnvError(env) ==
  Error("BadEnv",
        Knobs[CHOOSE i \in BadKnobs(env) : \A j \in BadKnobs(env) : i <= j].var)

\* 0 keeps all; otherwise the window must hold the deepest walk.
Faulty_WindowTooShort(cfg) ==   \* off by one
  LET retention == OrElse(cfg["store.reorg_retention"], 5000)
      depth     == OrElse(cfg["processor.max_reorg_depth"], 64)
  IN  retention # 0 /\ retention + 1 < depth

WindowTooShort(cfg) ==
  LET retention == OrElse(cfg["store.reorg_retention"], 5000)
      depth     == OrElse(cfg["processor.max_reorg_depth"], 64)
  IN  retention # 0 /\ retention < depth

\* validate: what it refuses, in its order.
Faulty_Refusals(cfg) ==   \* takes the two URLs for one
  << IF cfg["source.url"] = None THEN Error("Missing", "WS_URL") ELSE None,
     IF cfg["store.url"] = None THEN Error("Missing", "WS_URL") ELSE None,
     IF WindowTooShort(cfg) THEN Error("Invalid", "REORG_RETENTION") ELSE None >>

Refusals(cfg) ==
  << IF cfg["source.url"] = None THEN Error("Missing", "WS_URL") ELSE None,
     IF cfg["store.url"] = None THEN Error("Missing", "DATABASE_URL") ELSE None,
     IF WindowTooShort(cfg) THEN Error("Invalid", "REORG_RETENTION") ELSE None >>

Validate(cfg) ==
  LET found == {i \in DOMAIN Refusals(cfg) : Refusals(cfg)[i] # None}
  IN  IF found = {} THEN None
      ELSE Refusals(cfg)[CHOOSE i \in found : \A j \in found : i <= j]

\* load_from: the error it ends with, or None.
LoadError(file, env) ==
  IF file.status = "unreadable" THEN Error("Read", "file")
  ELSE IF file.status = "malformed" THEN Error("Parse", "file")
  ELSE IF BadKnobs(env) # {} THEN EnvError(env)
  ELSE Validate(Overlay(file.keys, env))

\* load_from: the configuration it returns otherwise.
Loaded(file, env) == Overlay(file.keys, env)
=============================================================================
