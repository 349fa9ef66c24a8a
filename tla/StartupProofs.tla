---------------------------- MODULE StartupProofs ----------------------------
(***************************************************************************)
(* The life of an indexer binary, for every file, environment and sequence *)
(* of failures, repairs and edits: what main runs with, when the API is    *)
(* up, that backfilled heights are one run, and that pruning stays below   *)
(* the walk, through every rewind and every block of the tip.              *)
(***************************************************************************)
EXTENDS Startup, FiniteSetTheorems, WellFoundedInduction, TLAPS

\* What the engine retains and how deep it walks, given a file and an environment.
Retained(f, e) ==
  OrElse(IF e["REORG_RETENTION"] # None THEN e["REORG_RETENTION"]
         ELSE f.keys["store.reorg_retention"], 5000)

Depth(f, e) ==
  OrElse(IF e["MAX_REORG_DEPTH"] # None THEN e["MAX_REORG_DEPTH"]
         ELSE f.keys["processor.max_reorg_depth"], 64)

InputsOK ==
  /\ \A v \in NumericVars : v \in DOMAIN env /\ env[v] \in Nat \cup {None, Malformed}
  /\ \A k \in NumericKeys : file.keys[k] \in Nat \cup {None}

\* A repair of a missing or an invalid setting leaves a number where one is due.
ErrorOK ==
  error # None =>
    /\ error.kind = "Missing" => error.about \notin NumericVars
    /\ error.kind = "Invalid" => error.about = "REORG_RETENTION"

\* While main runs, its configuration is what file and environment say.
ConfigOK ==
  phase \in Running =>
    /\ LoadError(file, env) = None
    /\ phase = "loaded" => cfg = Overlay(file.keys, env)
    /\ phase # "loaded" =>
         /\ cfg["store.reorg_retention"] = Retained(file, env)
         /\ cfg["processor.max_reorg_depth"] = Depth(file, env)
         /\ cfg["processor.start_height"] \in Nat
         /\ cfg["processor.batch_size"] \in Nat \ {0}
         /\ cfg["source.batch_size"] \in Nat \ {0}

\* Heights that were only backfilled are one run, from where they began or above,
\* and backfill goes on right behind it.
OneRun ==
  /\ first \in Nat \cup {None}
  /\ first = None => table = {} /\ dropped = {}
  /\ ~followed /\ table # {} =>
       \E a, b \in 0..MaxHead :
         /\ a <= b /\ table = a..b /\ first <= a
         /\ phase = "backfill" => next = b + 1

\* init has run before anything is served or indexed.
MigratedFirst ==
  /\ phase \in {"ready", "backfill", "follow", "serving"} => migrated
  /\ api # "off" \/ table # {} => migrated

StartInv ==
  /\ TypeOK /\ head \in 1..MaxHead
  /\ InputsOK /\ ErrorOK /\ ConfigOK /\ OneRun /\ MigratedFirst

\* Nobody edits the window or the depth between two runs.
WindowFixed == DOMAIN Edits \cap {"REORG_RETENTION", "MAX_REORG_DEPTH"} = {}

\* Once a height is indexed the window is settled: the file loads, its two settings
\* parse, it holds the depth, and no error on record asks to repair it.
Settled ==
  first # None =>
    /\ file.status \notin {"unreadable", "malformed"}
    /\ env["REORG_RETENTION"] # Malformed /\ env["MAX_REORG_DEPTH"] # Malformed
    /\ Retained(file, env) = 0 \/ Depth(file, env) <= Retained(file, env)
    /\ error # None =>
         /\ error.kind \notin {"Read", "Parse", "Invalid"}
         /\ error.about \notin {"REORG_RETENTION", "MAX_REORG_DEPTH"}

\* What pruning took lies below what is retained of the highest height.
WindowHeld ==
  \A h \in dropped :
    Retained(file, env) # 0 /\ h < Minus(hiwater, Retained(file, env))

-----------------------------------------------------------------------------
(* The configuration.                                                      *)

\* Each variable overrides one field, and each such field has one variable.
LEMMA Overrides ==
  ASSUME NEW i \in 1..10
  PROVE  /\ Knobs[i].var \in Vars /\ KeyOf(Knobs[i].var) = Knobs[i].key
         /\ Knobs[i].key \in Keys
         /\ \A v \in Vars : KeyOf(v) = Knobs[i].key => v = Knobs[i].var
<1>1. DOMAIN Knobs = 1..10
  BY DEF Knobs
<1>2. \A m, n \in 1..10 : /\ Knobs[m].var = Knobs[n].var => m = n
                          /\ Knobs[m].key = Knobs[n].key => m = n
  BY DEF Knobs
<1>3. ASSUME NEW j \in 1..10
      PROVE  KeyOf(Knobs[j].var) = Knobs[j].key
  <2> DEFINE S == {Knobs[n] : n \in DOMAIN Knobs}
  <2>1. Knobs[j] \in S
    BY <1>1
  <2>2. \A k \in S : k.var = Knobs[j].var => k = Knobs[j]
    BY <1>1, <1>2
  <2> QED
    BY <2>1, <2>2 DEF KeyOf
<1> QED
  BY <1>1, <1>2, <1>3 DEF Vars, Keys

\* What overlay_env leaves in a field that has a variable.
LEMMA OverlayKnob ==
  ASSUME NEW i \in 1..10, NEW keys, NEW e
  PROVE  Overlay(keys, e)[Knobs[i].key] =
           IF e[Knobs[i].var] # None THEN e[Knobs[i].var] ELSE keys[Knobs[i].key]
<1>1. Knobs[i].key # "processor.batch_size"
  BY DEF Knobs
<1> QED
  BY <1>1, Overrides DEF Overlay

\* The same for the fields whose numbers the engine runs with.
LEMMA OverlayFields ==
  ASSUME NEW keys, NEW e
  PROVE  LET c == Overlay(keys, e)
             Pick(v, k) == IF e[v] # None THEN e[v] ELSE keys[k]
         IN  /\ DOMAIN c = Keys
             /\ NumericVars \subseteq Vars /\ NumericKeys \subseteq Keys
             /\ c["source.batch_size"] = Pick("BATCH_SIZE", "source.batch_size")
             /\ c["store.reorg_retention"] =
                  Pick("REORG_RETENTION", "store.reorg_retention")
             /\ c["processor.start_height"] =
                  Pick("START_HEIGHT", "processor.start_height")
             /\ c["processor.max_reorg_depth"] =
                  Pick("MAX_REORG_DEPTH", "processor.max_reorg_depth")
             /\ c["processor.batch_size"] =
                  OrElse(keys["processor.batch_size"],
                         Pick("BATCH_SIZE", "source.batch_size"))
<1>1. /\ Knobs[3] = [var |-> "BATCH_SIZE", key |-> "source.batch_size"]
      /\ Knobs[8] = [var |-> "REORG_RETENTION", key |-> "store.reorg_retention"]
      /\ Knobs[9] = [var |-> "START_HEIGHT", key |-> "processor.start_height"]
      /\ Knobs[10] = [var |-> "MAX_REORG_DEPTH", key |-> "processor.max_reorg_depth"]
  BY DEF Knobs
<1>2. /\ "BATCH_SIZE" \in Vars /\ "REORG_RETENTION" \in Vars
      /\ "START_HEIGHT" \in Vars /\ "MAX_REORG_DEPTH" \in Vars
  BY <1>1, Overrides
<1>3. /\ "source.batch_size" \in Keys /\ "store.reorg_retention" \in Keys
      /\ "processor.start_height" \in Keys /\ "processor.max_reorg_depth" \in Keys
      /\ "processor.batch_size" \in Keys
  BY <1>1, Overrides DEF Keys
<1>4. \A i \in {3, 8, 9, 10} :
        Overlay(keys, e)[Knobs[i].key] =
          IF e[Knobs[i].var] # None THEN e[Knobs[i].var] ELSE keys[Knobs[i].key]
  BY OverlayKnob
<1>5. DOMAIN Overlay(keys, e) = Keys
  BY DEF Overlay
<1>6. Overlay(keys, e)["processor.batch_size"] =
        OrElse(keys["processor.batch_size"], Overlay(keys, e)["source.batch_size"])
  BY <1>3 DEF Overlay
<1> QED
  BY <1>1, <1>2, <1>3, <1>4, <1>5, <1>6 DEF NumericVars, NumericKeys

\* The builders keep a given number and floor the batch sizes.
LEMMA BuildFields ==
  ASSUME NEW c
  PROVE  /\ DOMAIN Build(c) = Keys
         /\ Build(c)["store.reorg_retention"] = OrElse(c["store.reorg_retention"], 5000)
         /\ Build(c)["processor.max_reorg_depth"] =
              OrElse(c["processor.max_reorg_depth"], 64)
         /\ \A k \in {"source.batch_size", "processor.batch_size"} :
              c[k] \in Nat \cup {None} => Build(c)[k] \in Nat \ {0}
<1>1. NumericKeys \subseteq Keys
  BY OverlayFields
<1>2. /\ Defaults["store.reorg_retention"] = 5000
      /\ Defaults["processor.max_reorg_depth"] = 64
      /\ Defaults["source.batch_size"] = 100
      /\ Defaults["processor.batch_size"] = 100
  BY <1>1 DEF Defaults, NumericKeys
<1>3. \A k \in Keys : Build(c)[k] = IF c[k] = None THEN Defaults[k]
                                    ELSE IF k \in Floored /\ c[k] = 0 THEN 1 ELSE c[k]
  BY DEF Build
<1>4. DOMAIN Build(c) = Keys
  BY DEF Build
<1> QED
  BY <1>1, <1>2, <1>3, <1>4 DEF NumericKeys, Floored, OrElse

\* An error is not None.
LEMMA ErrorIsSome ==
  ASSUME NEW k \in {"Read", "Parse", "BadEnv", "Missing", "Invalid", "Run"},
         NEW a \in Vars \cup {"file", ""}
  PROVE  Error(k, a) # None /\ Error(k, a).kind = k /\ Error(k, a).about = a
<1>1. Error(k, a) # None
  BY StartupAssumption
<1>2. Error(k, a).kind = k /\ Error(k, a).about = a
  BY DEF Error
<1> QED
  BY <1>1, <1>2

\* The first variable that does not parse is one that does not.
LEMMA EnvErrorFacts ==
  ASSUME NEW e, BadKnobs(e) # {}
  PROVE  /\ EnvError(e).kind = "BadEnv" /\ EnvError(e) # None
         /\ e[EnvError(e).about] = Malformed
<1>1. BadKnobs(e) \subseteq 1..10
  BY DEF BadKnobs, Knobs
<1>2. PICK i \in BadKnobs(e) : \A j \in BadKnobs(e) : i <= j
  <2>1. \A n \in 1..10 : n = 1 \/ n = 2 \/ n = 3 \/ n = 4 \/ n = 5 \/ n = 6 \/ n = 7
                          \/ n = 8 \/ n = 9 \/ n = 10
    OBVIOUS
  <2> QED
    BY <1>1, <2>1
<1> DEFINE m == CHOOSE k \in BadKnobs(e) : \A j \in BadKnobs(e) : k <= j
<1>3. m \in BadKnobs(e)
  BY <1>2
<1>4. e[Knobs[m].var] = Malformed
  BY <1>3 DEF BadKnobs
<1>5. Knobs[m].var \in Vars
  BY <1>1, <1>3, Overrides
<1> HIDE DEF m
<1>6. Error("BadEnv", Knobs[m].var) # None
  BY <1>5, ErrorIsSome
<1> QED
  BY <1>4, <1>6 DEF EnvError, Error, m

\* validate names the first of its three refusals.
LEMMA ValidateFacts ==
  ASSUME NEW c
  PROVE  /\ Validate(c) = None => ~WindowTooShort(c)
         /\ Validate(c) # None =>
              \/ /\ Validate(c).kind = "Missing"
                 /\ Validate(c).about \in {"WS_URL", "DATABASE_URL"}
              \/ /\ Validate(c).kind = "Invalid"
                 /\ Validate(c).about = "REORG_RETENTION"
                 /\ WindowTooShort(c)
<1> DEFINE r == Refusals(c)
           found == {i \in DOMAIN r : r[i] # None}
<1>1. /\ DOMAIN r = 1..3
      /\ r[1] \in {None, Error("Missing", "WS_URL")}
      /\ r[2] \in {None, Error("Missing", "DATABASE_URL")}
      /\ r[3] = IF WindowTooShort(c) THEN Error("Invalid", "REORG_RETENTION") ELSE None
  BY DEF Refusals
<1>2. Error("Invalid", "REORG_RETENTION") # None
  <2>1. "REORG_RETENTION" \in Vars
    BY OverlayFields DEF NumericVars
  <2> QED
    BY <2>1, ErrorIsSome
<1> HIDE DEF r
<1>3. CASE found = {}
  <2>1. r[3] = None
    BY <1>1, <1>3
  <2> QED
    BY <1>1, <1>2, <1>3, <2>1 DEF Validate, r
<1>4. CASE found # {}
  <2> DEFINE m == CHOOSE i \in found : \A j \in found : i <= j
  <2>1. \E i \in found : \A j \in found : i <= j
    <3>1. \A n \in 1..3 : n = 1 \/ n = 2 \/ n = 3
      OBVIOUS
    <3> QED
      BY <1>1, <1>4, <3>1
  <2>2. m \in found
    BY <2>1
  <2>3. Validate(c) = r[m]
    BY <1>4 DEF Validate, r
  <2>4. m \in 1..3 /\ r[m] # None
    BY <1>1, <2>2
  <2> HIDE DEF m
  <2>5. m = 1 \/ m = 2 \/ m = 3
    BY <2>4
  <2> QED
    BY <1>1, <2>3, <2>4, <2>5 DEF Error
<1> QED
  BY <1>3, <1>4

\* What load_from answers, as far as the repairs and the window go.
LEMMA LoadFacts ==
  ASSUME NEW f, NEW e
  PROVE  LET r == LoadError(f, e)
         IN  /\ r = None =>
                  /\ f.status \notin {"unreadable", "malformed"}
                  /\ \A v \in NumericVars : e[v] # Malformed
                  /\ ~WindowTooShort(Overlay(f.keys, e))
             /\ r # None =>
                  \/ /\ r.kind \in {"Read", "Parse"} /\ r.about = "file"
                     /\ f.status \in {"unreadable", "malformed"}
                  \/ r.kind = "BadEnv" /\ e[r.about] = Malformed
                  \/ r.kind = "Missing" /\ r.about \in {"WS_URL", "DATABASE_URL"}
                  \/ /\ r.kind = "Invalid" /\ r.about = "REORG_RETENTION"
                     /\ WindowTooShort(Overlay(f.keys, e))
<1>0. Error("Read", "file") # None /\ Error("Parse", "file") # None
  BY ErrorIsSome
<1>1. CASE f.status \in {"unreadable", "malformed"}
  BY <1>0, <1>1 DEF LoadError, Error
<1>2. CASE f.status \notin {"unreadable", "malformed"} /\ BadKnobs(e) # {}
  <2>1. LoadError(f, e) = EnvError(e)
    BY <1>2 DEF LoadError
  <2> QED
    BY <1>2, <2>1, EnvErrorFacts
<1>3. CASE f.status \notin {"unreadable", "malformed"} /\ BadKnobs(e) = {}
  <2>1. LoadError(f, e) = Validate(Overlay(f.keys, e))
    BY <1>3 DEF LoadError
  <2>2. \A v \in NumericVars : e[v] # Malformed
    <3>1. DOMAIN Knobs = 1..10 /\ \A i \in 1..10 : e[Knobs[i].var] # Malformed
      BY <1>3 DEF BadKnobs, Knobs
    <3>2. \A v \in NumericVars : \E i \in 1..10 : v = Knobs[i].var
      BY DEF NumericVars, Knobs
    <3> QED
      BY <3>1, <3>2
  <2> QED
    BY <1>3, <2>1, <2>2, ValidateFacts
<1> QED
  BY <1>1, <1>2, <1>3

\* What main holds of a file and an environment that load.
LEMMA ConfigFields ==
  ASSUME InputsOK
  PROVE  LET c == Overlay(file.keys, env)
         IN  /\ DOMAIN c = Keys
             /\ LoadError(file, env) = None =>
                  /\ \A k \in NumericKeys : c[k] \in Nat \cup {None}
                  /\ Retained(file, env) \in Nat /\ Depth(file, env) \in Nat
             /\ Build(c)["store.reorg_retention"] = Retained(file, env)
             /\ Build(c)["processor.max_reorg_depth"] = Depth(file, env)
             /\ WindowTooShort(c) <=>
                  Retained(file, env) # 0 /\ Retained(file, env) < Depth(file, env)
<1> DEFINE c == Overlay(file.keys, env)
<1>1. /\ DOMAIN c = Keys
      /\ Build(c)["store.reorg_retention"] = Retained(file, env)
      /\ Build(c)["processor.max_reorg_depth"] = Depth(file, env)
      /\ WindowTooShort(c) <=>
           Retained(file, env) # 0 /\ Retained(file, env) < Depth(file, env)
  BY OverlayFields, BuildFields DEF Retained, Depth, WindowTooShort
<1>2. ASSUME LoadError(file, env) = None
      PROVE  /\ \A k \in NumericKeys : c[k] \in Nat \cup {None}
             /\ Retained(file, env) \in Nat /\ Depth(file, env) \in Nat
  <2>1. \A v \in NumericVars : env[v] \in Nat \cup {None}
    BY <1>2, LoadFacts DEF InputsOK
  <2>2. \A k \in NumericKeys : file.keys[k] \in Nat \cup {None}
    BY DEF InputsOK
  <2>3. Retained(file, env) \in Nat /\ Depth(file, env) \in Nat
    BY <2>1, <2>2 DEF Retained, Depth, OrElse, NumericVars, NumericKeys
  <2> QED
    BY <2>1, <2>2, <2>3, OverlayFields DEF NumericVars, NumericKeys, OrElse
<1> QED
  BY <1>1, <1>2

\* Least and highest of an interval.
LEMMA Ends ==
  ASSUME NEW a \in Nat, NEW b \in Nat, a <= b
  PROVE  Highest(a..b) = b /\ Lowest(a..b) = a
<1>1. b \in a..b /\ \A k \in a..b : k <= b
  OBVIOUS
<1>2. a \in a..b /\ \A k \in a..b : a <= k
  OBVIOUS
<1>3. Highest(a..b) \in a..b /\ \A k \in a..b : k <= Highest(a..b)
  BY <1>1 DEF Highest
<1>4. Lowest(a..b) \in a..b /\ \A k \in a..b : Lowest(a..b) <= k
  BY <1>2 DEF Lowest
<1> QED
  BY <1>1, <1>2, <1>3, <1>4

\* A set of heights that is not empty has a highest.
LEMMA HighestExists ==
  ASSUME NEW n \in Nat, NEW S \in SUBSET (0..n), S # {}
  PROVE  Highest(S) \in S
<1> DEFINE Less == OpToRel(<, Nat)
           D == {n - h : h \in S}
<1>1. \A x, y \in Nat : <<y, x>> \in Less <=> y < x
  BY DEF OpToRel
<1>2. IsWellFoundedOn(Less, Nat)
  BY NatLessThanWellFounded
<1>3. D \subseteq Nat /\ D # {}
  <2>1. \A h \in S : h \in 0..n
    OBVIOUS
  <2>2. \A h \in S : n - h \in Nat
    BY <2>1
  <2>3. PICK h \in S : TRUE
    OBVIOUS
  <2> QED
    BY <2>2, <2>3
<1> HIDE DEF Less
<1>4. PICK x \in D : \A y \in D : ~ (<<y, x>> \in Less)
  BY <1>2, <1>3, WFMin
<1>5. PICK h \in S : x = n - h
  BY <1>4
<1>6. ASSUME NEW k \in S PROVE k <= h
  <2>1. n - k \in D /\ k \in 0..n /\ h \in 0..n
    BY <1>5
  <2>2. ~ (n - k < x)
    BY <1>1, <1>3, <1>4, <2>1
  <2> QED
    BY <1>5, <2>1, <2>2
<1> QED
  BY <1>5, <1>6 DEF Highest

LEMMA InitStart == Init => StartInv
<1> SUFFICES ASSUME Init PROVE StartInv
  OBVIOUS
<1>1. DOMAIN cfg = Keys
  BY DEF Init, NoFile
<1>2. TypeOK
  <2>1. 0 \in 0..MaxHead
    <3>1. MaxHead \in Nat \ {0}
      BY StartupAssumption
    <3> QED
      BY <3>1
  <2>2. phase = "off" /\ phase \notin Running /\ api = "off" /\ error = None
    BY DEF Init, Running
  <2>3. /\ table = {} /\ target = 0 /\ migrated = FALSE
        /\ next = 0 /\ hiwater = 0 /\ dropped = {} /\ followed = FALSE
    BY DEF Init
  <2> QED
    BY <1>1, <2>1, <2>2, <2>3 DEF TypeOK
<1>3. InputsOK
  <2>1. NumericVars \subseteq Vars
    BY OverlayFields
  <2> QED
    BY <2>1, StartupAssumption DEF Init, InputsOK
<1> QED
  BY <1>2, <1>3 DEF Init, StartInv, ErrorOK, ConfigOK, OneRun, MigratedFirst, Running

\* A batch lies between where it begins and the head that was read.
LEMMA BatchFacts ==
  ASSUME StartInv, BackfillBatch
  PROVE  /\ next \in 0..MaxHead /\ BatchEnd \in 0..MaxHead /\ next <= BatchEnd
         /\ Record(next, BatchEnd) /\ next' = BatchEnd + 1
<1>1. /\ phase = "backfill" /\ next <= target
      /\ Record(next, BatchEnd) /\ next' = BatchEnd + 1
  BY DEF BackfillBatch
<1>2. MaxHead \in Nat /\ target \in 0..MaxHead /\ next \in Nat
  BY StartupAssumption DEF StartInv, TypeOK
<1>3. /\ cfg["processor.batch_size"] \in Nat \ {0}
      /\ cfg["source.batch_size"] \in Nat \ {0}
  BY <1>1 DEF StartInv, ConfigOK, Running
<1> DEFINE p == cfg["processor.batch_size"]
           s == cfg["source.batch_size"]
           most == CHOOSE n \in {p, s} : n <= p /\ n <= s
<1>4. p \in Nat \ {0} /\ s \in Nat \ {0}
  BY <1>3
<1> HIDE DEF p, s
<1>5. \E n \in {p, s} : n <= p /\ n <= s
  BY <1>4
<1>6. most \in {p, s}
  BY <1>5
<1>7. most \in Nat \ {0}
  BY <1>4, <1>6
<1>8. BatchEnd = IF next + most - 1 < target THEN next + most - 1 ELSE target
  BY DEF BatchEnd, p, s
<1> HIDE DEF most
<1>9. next <= BatchEnd /\ BatchEnd <= target /\ BatchEnd \in Nat
  BY <1>1, <1>2, <1>7, <1>8
<1> QED
  BY <1>1, <1>2, <1>9

\* What a transaction leaves on record while the engine runs.
LEMMA RecordFacts ==
  ASSUME StartInv, phase \in {"backfill", "follow"},
         NEW from \in 0..MaxHead, NEW to \in 0..MaxHead, from <= to, Record(from, to)
  PROVE  LET r   == Retained(file, env)
             low == IF r = 0 THEN 0 ELSE Minus(to, r)
         IN  /\ r \in Nat /\ low \in Nat /\ low <= to
             /\ table' = {h \in table \cup from..to : h >= low}
             /\ dropped' = (dropped \cup table \cup from..to) \ table'
             /\ first' = IF table = {} THEN from ELSE first
             /\ hiwater' = IF hiwater < to THEN to ELSE hiwater
             /\ to \in table' /\ table' \subseteq 0..MaxHead
             /\ dropped' \subseteq 0..MaxHead /\ hiwater' \in 0..MaxHead
             /\ first' \in Nat /\ first' # None
<1> DEFINE r   == Retained(file, env)
           low == IF r = 0 THEN 0 ELSE Minus(to, r)
<1>1. /\ MaxHead \in Nat /\ None \notin Nat /\ table \subseteq 0..MaxHead
      /\ dropped \subseteq 0..MaxHead /\ hiwater \in 0..MaxHead
      /\ first \in Nat \cup {None} /\ (first = None => table = {})
  BY StartupAssumption DEF StartInv, TypeOK, OneRun
<1>2. cfg["store.reorg_retention"] = r /\ LoadError(file, env) = None
  BY DEF StartInv, ConfigOK, Running
<1>3. r \in Nat
  BY <1>2, ConfigFields DEF StartInv
<1>4. /\ table' = {h \in table \cup from..to : r = 0 \/ h >= Minus(to, r)}
      /\ dropped' = (dropped \cup (table \cup from..to)) \ table'
      /\ first' = IF table = {} THEN from ELSE first
      /\ hiwater' = IF hiwater < to THEN to ELSE hiwater
  BY <1>2 DEF Record
<1> HIDE DEF r
<1>5. low \in Nat /\ low <= to /\ to \in Nat /\ from \in Nat
  BY <1>1, <1>3 DEF Minus
<1> DEFINE written == table \cup from..to
<1>6. written \subseteq 0..MaxHead /\ to \in written /\ \A h \in written : h \in Nat
  BY <1>1, <1>5
<1>7. table' = {h \in written : r = 0 \/ h >= Minus(to, r)}
  BY <1>4
<1>8. dropped' = (dropped \cup written) \ table'
  BY <1>4
<1> HIDE DEF written
<1>9. ASSUME NEW h \in written PROVE (r = 0 \/ h >= Minus(to, r)) <=> h >= low
  <2>1. h \in Nat
    BY <1>6
  <2> QED
    BY <1>3, <2>1
<1>10. table' = {h \in written : h >= low}
  BY <1>7, <1>9
<1> HIDE DEF low
<1>11. to \in table' /\ table' \subseteq 0..MaxHead
  BY <1>5, <1>6, <1>10
<1>12. dropped' \subseteq 0..MaxHead /\ hiwater' \in 0..MaxHead
  BY <1>1, <1>4, <1>6, <1>8
<1>13. table' = {h \in table \cup from..to : h >= low}
  BY <1>10 DEF written
<1>14. first' \in Nat /\ first' # None
  BY <1>1, <1>4, <1>5
<1> QED
  BY <1>3, <1>4, <1>5, <1>13, <1>11, <1>12, <1>14 DEF low, r

\* A batch extends the run at the top, and prunes it at the bottom.
LEMMA BatchRun ==
  ASSUME StartInv, BackfillBatch, ~followed
  PROVE  \E a \in 0..MaxHead :
           a <= BatchEnd /\ table' = a..BatchEnd /\ first' <= a
<1> DEFINE r   == Retained(file, env)
           low == IF r = 0 THEN 0 ELSE Minus(BatchEnd, r)
<1>1. /\ next \in 0..MaxHead /\ BatchEnd \in 0..MaxHead /\ next <= BatchEnd
      /\ MaxHead \in Nat /\ phase = "backfill"
  BY BatchFacts, StartupAssumption DEF BackfillBatch
<1>2. /\ low \in Nat /\ low <= BatchEnd
      /\ table' = {h \in table \cup next..BatchEnd : h >= low}
      /\ first' = IF table = {} THEN next ELSE first
  BY <1>1, BatchFacts, RecordFacts
<1> HIDE DEF low, r
<1>3. PICK a \in Nat : /\ a <= next /\ first' <= a
                       /\ table \cup next..BatchEnd = a..BatchEnd
  <2>1. CASE table = {}
    <3>1. /\ next \in Nat /\ next <= next /\ first' <= next
          /\ table \cup next..BatchEnd = next..BatchEnd
      BY <1>1, <1>2, <2>1
    <3> QED
      BY <3>1
  <2>2. CASE table # {}
    <3>1. PICK b, c \in 0..MaxHead : b <= c /\ table = b..c /\ first <= b /\ next = c + 1
      BY <1>1, <2>2 DEF StartInv, OneRun
    <3>2. /\ b \in Nat /\ b <= next /\ first' <= b
          /\ table \cup next..BatchEnd = b..BatchEnd
      BY <1>1, <1>2, <2>2, <3>1
    <3> QED
      BY <3>2
  <2> QED
    BY <2>1, <2>2
<1> DEFINE c == IF a < low THEN low ELSE a
<1>4. c \in Nat /\ c <= BatchEnd /\ a <= c
  BY <1>1, <1>2, <1>3
<1>5. table' = c..BatchEnd
  BY <1>1, <1>2, <1>3
<1>6. first' \in Nat
  BY <1>1, BatchFacts, RecordFacts
<1> HIDE DEF c
<1>7. c \in 0..MaxHead /\ first' <= c
  BY <1>1, <1>3, <1>4, <1>6
<1> QED
  BY <1>4, <1>5, <1>7

\* A rewind of a run leaves a run that ends at the fork, or nothing.
LEMMA RewindRun ==
  ASSUME NEW a \in Nat, NEW b \in Nat, a <= b, table = a..b,
         NEW f \in Forks(b), table' = {h \in table : h <= f}
  PROVE  f \in Nat /\ f <= b /\ (table' = {} \/ (a <= f /\ table' = a..f))
<1>1. f \in 0..b /\ (f + 1)..b \subseteq table
  BY DEF Forks
<1>2. f \in Nat /\ f <= b
  BY <1>1
<1>3. CASE a <= f
  BY <1>2, <1>3
<1>4. CASE f < a
  BY <1>2, <1>4
<1> QED
  BY <1>2, <1>3, <1>4

\* Which steps touch the rows, and where backfill goes on after those that do not.
LEMMA RowSteps ==
  ASSUME [Next]_vars
  PROVE  \/ BackfillBatch \/ BackfillRewind
         \/ (TipCommit \/ TipRewind) /\ phase' = "follow"
         \/ /\ UNCHANGED rows
            /\ phase' = "backfill" =>
                 (phase = "backfill" /\ next' = next) \/ next' = ResumeHeight
<1>1. CASE LoadConfig \/ RefuseConfig \/ Connect
  BY <1>1 DEF LoadConfig, RefuseConfig, Connect, database
<1>2. CASE InitStore \/ BeginBackfill \/ EndBackfill
  BY <1>2 DEF InitStore, BeginBackfill, EndBackfill, database
<1>3. CASE Restart \/ Bind \/ Interrupt
  BY <1>3 DEF Restart, Bind, Interrupt, database, loop
<1>4. CASE Abort \/ Edit \/ Finalize \/ UNCHANGED vars
  BY <1>4 DEF Abort, Edit, Finalize, vars, database, loop
<1>5. CASE TipCommit \/ TipRewind
  BY <1>5 DEF TipCommit, TipRewind, RollBack
<1> QED
  BY <1>1, <1>2, <1>3, <1>4, <1>5 DEF Next, Step

\* Nobody touches file or environment while main runs.
LEMMA InputsStep ==
  ASSUME StartInv, [Next]_vars
  PROVE  InputsOK' /\ (UNCHANGED inputs \/ phase' \notin Running)
<1>1. CASE Restart
  <2>1. file' = IF error # None /\ error.kind \in {"Read", "Parse"} THEN NoFile ELSE file
    BY <1>1 DEF Restart
  <2>2. \A k \in NumericKeys : file'.keys[k] \in Nat \cup {None}
    <3>1. \A k \in NumericKeys : NoFile.keys[k] = None
      BY OverlayFields DEF NoFile
    <3> QED
      BY <2>1, <3>1 DEF StartInv, InputsOK
  <2>3. \/ env' = env
        \/ \E v : env' = [env EXCEPT ![v] = None]
        \/ \E v : v \notin NumericVars /\ env' = [env EXCEPT ![v] = Url]
        \/ env' = [env EXCEPT !["REORG_RETENTION"] = 0]
    <3>1. CASE error = None
      BY <1>1, <3>1 DEF Restart
    <3>2. CASE error # None
      <4>1. /\ error.kind = "Missing" => error.about \notin NumericVars
            /\ error.kind = "Invalid" => error.about = "REORG_RETENTION"
        BY <3>2 DEF StartInv, ErrorOK
      <4>2. CASE error.kind = "BadEnv"
        BY <1>1, <3>2, <4>2 DEF Restart
      <4>3. CASE error.kind = "Missing"
        BY <1>1, <3>2, <4>1, <4>3 DEF Restart
      <4>4. CASE error.kind = "Invalid"
        BY <1>1, <3>2, <4>1, <4>4 DEF Restart
      <4>5. CASE error.kind \notin {"BadEnv", "Missing", "Invalid"}
        BY <1>1, <3>2, <4>5 DEF Restart
      <4> QED
        BY <4>2, <4>3, <4>4, <4>5
    <3> QED
      BY <3>1, <3>2
  <2>4. \A v \in NumericVars : v \in DOMAIN env' /\ env'[v] \in Nat \cup {None, Malformed}
    BY <2>3 DEF StartInv, InputsOK
  <2>5. phase' \notin Running
    BY <1>1 DEF Restart, Running
  <2> QED
    BY <2>2, <2>4, <2>5 DEF InputsOK
<1>2. CASE Edit
  <2>0. PICK v \in DOMAIN Edits : \E x \in Edits[v] : env' = [env EXCEPT ![v] = x]
    BY <1>2 DEF Edit
  <2>1. PICK x \in Edits[v] : env' = [env EXCEPT ![v] = x]
    BY <2>0
  <2>2. v \in NumericVars => x \in Nat \cup {None, Malformed}
    BY <2>1, StartupAssumption
  <2>3. \A w \in NumericVars : w \in DOMAIN env' /\ env'[w] \in Nat \cup {None, Malformed}
    BY <2>1, <2>2 DEF StartInv, InputsOK
  <2>4. phase' \notin Running /\ file' = file
    BY <1>2 DEF Edit, Running
  <2> QED
    BY <2>3, <2>4 DEF StartInv, InputsOK
<1>3. CASE UNCHANGED inputs
  BY <1>3 DEF StartInv, InputsOK, inputs
<1>4. CASE UNCHANGED vars
  BY <1>3, <1>4 DEF vars
<1>5. CASE Bind \/ Interrupt \/ Abort \/ Finalize
  BY <1>3, <1>5 DEF Bind, Interrupt, Abort, Finalize
<1>6. CASE LoadConfig \/ RefuseConfig \/ Connect \/ InitStore
  BY <1>3, <1>6 DEF LoadConfig, RefuseConfig, Connect, InitStore
<1>7. CASE BeginBackfill \/ BackfillBatch \/ EndBackfill
  BY <1>3, <1>7 DEF BeginBackfill, BackfillBatch, EndBackfill
<1>8. CASE BackfillRewind \/ TipCommit \/ TipRewind
  BY <1>3, <1>8 DEF BackfillRewind, TipCommit, TipRewind, RollBack
<1> QED
  BY <1>1, <1>2, <1>4, <1>5, <1>6, <1>7, <1>8 DEF Next, Step

LEMMA ErrorStep ==
  ASSUME StartInv, [Next]_vars
  PROVE  ErrorOK'
<1>1. CASE RefuseConfig
  <2>1. error' = LoadError(file, env) /\ error' # None
    BY <1>1 DEF RefuseConfig
  <2>2. {"WS_URL", "DATABASE_URL"} \cap NumericVars = {}
    BY DEF NumericVars
  <2> QED
    BY <2>1, <2>2, LoadFacts DEF ErrorOK
<1>2. CASE Abort
  <2>1. error'.kind = "Run"
    BY <1>2, ErrorIsSome DEF Abort
  <2> QED
    BY <2>1 DEF ErrorOK
<1>3. CASE Restart
  BY <1>3 DEF Restart, ErrorOK
<1>4. CASE error' = error
  BY <1>4 DEF StartInv, ErrorOK
<1>5. CASE Bind \/ Interrupt \/ Edit \/ Finalize \/ UNCHANGED vars
  BY <1>4, <1>5 DEF Bind, Interrupt, Edit, Finalize, vars
<1>6. CASE LoadConfig \/ Connect \/ InitStore
  BY <1>4, <1>6 DEF LoadConfig, Connect, InitStore
<1>7. CASE BeginBackfill \/ BackfillBatch \/ EndBackfill
  BY <1>4, <1>7 DEF BeginBackfill, BackfillBatch, EndBackfill
<1>8. CASE BackfillRewind \/ TipCommit \/ TipRewind
  BY <1>4, <1>8 DEF BackfillRewind, TipCommit, TipRewind, RollBack
<1> QED
  BY <1>1, <1>2, <1>3, <1>5, <1>6, <1>7, <1>8 DEF Next, Step

LEMMA ConfigStep ==
  ASSUME StartInv, [Next]_vars
  PROVE  ConfigOK'
<1>1. CASE LoadConfig
  BY <1>1 DEF LoadConfig, Loaded, inputs, ConfigOK
<1>2. CASE Connect
  <2> DEFINE c == Overlay(file.keys, env)
             start == OrElse(c["processor.start_height"], Minus(head, Recent))
  <2>1. /\ phase = "loaded" /\ phase' = "connected" /\ UNCHANGED <<env, file>>
        /\ LoadError(file, env) = None /\ cfg = c
    BY <1>2 DEF Connect, StartInv, ConfigOK, Running, inputs
  <2>2. cfg' = [Build(c) EXCEPT !["processor.start_height"] = start]
    BY <1>2, <2>1 DEF Connect
  <2>3. \A k \in NumericKeys : c[k] \in Nat \cup {None}
    BY <2>1, ConfigFields DEF StartInv
  <2>4. start \in Nat
    <3>1. head \in Nat /\ Recent \in Nat
      <4>1. Recent \in Nat /\ MaxHead \in Nat
        BY StartupAssumption
      <4> QED
        BY <4>1 DEF StartInv
    <3>2. Minus(head, Recent) \in Nat
      BY <3>1 DEF Minus
    <3> QED
      BY <2>3, <3>2 DEF OrElse, NumericKeys
  <2>5. DOMAIN Build(c) = Keys /\ NumericKeys \subseteq Keys
    BY BuildFields, OverlayFields
  <2> HIDE DEF c, start
  <2>6. /\ cfg'["processor.start_height"] = start
        /\ \A k \in NumericKeys \ {"processor.start_height"} : cfg'[k] = Build(c)[k]
    BY <2>2, <2>5 DEF NumericKeys
  <2>7. /\ cfg'["processor.batch_size"] \in Nat \ {0}
        /\ cfg'["source.batch_size"] \in Nat \ {0}
    BY <2>3, <2>6, BuildFields DEF NumericKeys
  <2>8. /\ cfg'["store.reorg_retention"] = Retained(file, env)
        /\ cfg'["processor.max_reorg_depth"] = Depth(file, env)
    BY <2>6, ConfigFields DEF NumericKeys, StartInv, c
  <2> QED
    BY <2>1, <2>4, <2>6, <2>7, <2>8 DEF ConfigOK
<1>3. CASE phase' \notin Running
  BY <1>3 DEF ConfigOK
<1>4. CASE /\ UNCHANGED <<cfg, inputs>> /\ phase \in Running
           /\ phase' = "loaded" <=> phase = "loaded"
  BY <1>4 DEF StartInv, ConfigOK, inputs
<1>5. CASE RefuseConfig \/ Interrupt \/ Abort \/ Restart
  BY <1>3, <1>5 DEF RefuseConfig, Interrupt, Abort, Restart, Running
<1>6. CASE Edit
  BY <1>3, <1>6 DEF Edit, Running
<1>7. CASE Bind \/ Finalize \/ UNCHANGED vars
  BY <1>3, <1>4, <1>7 DEF Bind, Finalize, vars
<1>8. CASE InitStore \/ BeginBackfill \/ BackfillBatch \/ EndBackfill
  BY <1>3, <1>4, <1>8 DEF InitStore, BeginBackfill, BackfillBatch, EndBackfill, Running
<1>9. CASE BackfillRewind \/ TipCommit \/ TipRewind
  BY <1>4, <1>9 DEF BackfillRewind, TipCommit, TipRewind, RollBack, Running
<1> QED
  BY <1>1, <1>2, <1>5, <1>6, <1>7, <1>8, <1>9 DEF Next, Step

\* The rows stay within the chain, and within what they are declared to be.
LEMMA RowsTyped ==
  ASSUME StartInv, [Next]_vars
  PROVE  /\ table' \subseteq 0..MaxHead /\ dropped' \subseteq 0..MaxHead
         /\ hiwater' \in 0..MaxHead /\ followed' \in BOOLEAN
         /\ first' \in Nat \cup {None} /\ (first' = None => table' = {} /\ dropped' = {})
<1>0. MaxHead \in Nat
  BY StartupAssumption
<1> USE DEF StartInv, TypeOK, OneRun
<1>1. CASE BackfillBatch
  <2>1. phase = "backfill" /\ followed' = followed
    BY <1>1 DEF BackfillBatch
  <2> QED
    BY <1>1, <2>1, BatchFacts, RecordFacts
<1>2. CASE TipCommit
  <2>1. phase = "follow" /\ followed' = TRUE
    BY <1>2 DEF TipCommit
  <2>2. PICK n \in 0..head : Record(n, n)
    BY <1>2 DEF TipCommit
  <2>3. n \in 0..MaxHead /\ n <= n
    BY <1>0
  <2> QED
    BY <2>1, <2>2, <2>3, RecordFacts
<1>3. CASE BackfillRewind \/ TipRewind
  <2>1. \E f : RollBack(f)
    BY <1>3 DEF BackfillRewind, TipRewind
  <2>2. table' \subseteq table /\ UNCHANGED <<first, hiwater, dropped>>
    BY <2>1 DEF RollBack
  <2>3. followed' \in BOOLEAN
    BY <1>3 DEF BackfillRewind, TipRewind
  <2> QED
    BY <2>2, <2>3
<1>4. CASE UNCHANGED rows
  BY <1>4 DEF rows
<1> QED
  BY <1>1, <1>2, <1>3, <1>4, RowSteps

LEMMA RunStep ==
  ASSUME StartInv, [Next]_vars
  PROVE  OneRun'
<1>0. /\ MaxHead \in Nat
      /\ first' \in Nat \cup {None} /\ (first' = None => table' = {} /\ dropped' = {})
  BY StartupAssumption, RowsTyped
<1>1. CASE BackfillBatch
  <2>1. followed' = followed /\ next' = BatchEnd + 1 /\ BatchEnd \in 0..MaxHead
    BY <1>1, BatchFacts DEF BackfillBatch
  <2> QED
    BY <1>0, <1>1, <2>1, BatchRun DEF OneRun
<1>2. CASE TipCommit \/ TipRewind
  <2>1. followed' = TRUE
    BY <1>2 DEF TipCommit, TipRewind
  <2> QED
    BY <1>0, <2>1 DEF OneRun
<1>3. CASE BackfillRewind
  <2>1. PICK f \in Forks(next - 1) : RollBack(f) /\ next' = f + 1
    BY <1>3 DEF BackfillRewind
  <2>2. /\ table' = {h \in table : h <= f} /\ first' = first /\ followed' = followed
        /\ phase = "backfill" /\ next - 1 \in table
    BY <1>3, <2>1 DEF BackfillRewind, RollBack, Forks
  <2>3. ASSUME ~followed
        PROVE  table' = {} \/ \E a, b \in 0..MaxHead :
                 a <= b /\ table' = a..b /\ first' <= a /\ next' = b + 1
    <3>1. PICK a, b \in 0..MaxHead :
                 a <= b /\ table = a..b /\ first <= a /\ next = b + 1
      BY <2>2, <2>3 DEF StartInv, OneRun
    <3>2. a \in Nat /\ b \in Nat /\ next - 1 = b
      BY <1>0, <3>1
    <3>3. f \in Nat /\ f <= b /\ (table' = {} \/ (a <= f /\ table' = a..f))
      BY <2>1, <2>2, <3>1, <3>2, RewindRun
    <3>4. f \in 0..MaxHead
      BY <1>0, <3>1, <3>3
    <3> QED
      BY <2>1, <2>2, <3>1, <3>3, <3>4
  <2> QED
    BY <1>0, <2>2, <2>3 DEF OneRun
<1>4. CASE /\ UNCHANGED rows
           /\ phase' = "backfill" =>
                (phase = "backfill" /\ next' = next) \/ next' = ResumeHeight
  <2>1. ASSUME ~followed, table # {}
        PROVE  \E a, b \in 0..MaxHead :
                 /\ a <= b /\ table = a..b /\ first <= a
                 /\ phase' = "backfill" => next' = b + 1
    <3>1. PICK a, b \in 0..MaxHead :
                 /\ a <= b /\ table = a..b /\ first <= a
                 /\ phase = "backfill" => next = b + 1
      BY <2>1 DEF StartInv, OneRun
    <3>2. a \in Nat /\ b \in Nat
      BY <1>0, <3>1
    <3>3. ResumeHeight = b + 1
      BY <2>1, <3>1, <3>2, Ends DEF ResumeHeight
    <3> QED
      BY <1>4, <3>1, <3>3
  <2> QED
    BY <1>0, <1>4, <2>1 DEF OneRun, rows
<1> QED
  BY <1>1, <1>2, <1>3, <1>4, RowSteps

LEMMA MigratedStep ==
  ASSUME StartInv, [Next]_vars
  PROVE  MigratedFirst'
<1> USE DEF StartInv, MigratedFirst
<1>1. CASE BackfillBatch
  BY <1>1 DEF BackfillBatch
<1>2. CASE InitStore
  BY <1>2 DEF InitStore, rows
<1>3. CASE LoadConfig \/ RefuseConfig \/ Connect \/ BeginBackfill
  BY <1>3 DEF LoadConfig, RefuseConfig, Connect, BeginBackfill, database, rows
<1>4. CASE EndBackfill \/ Restart \/ Bind \/ Interrupt
  BY <1>4 DEF EndBackfill, Restart, Bind, Interrupt, database, rows
<1>5. CASE Abort \/ Edit \/ Finalize \/ UNCHANGED vars
  BY <1>5 DEF Abort, Edit, Finalize, vars, database, rows
<1>6. CASE BackfillRewind
  BY <1>6 DEF BackfillRewind, RollBack
<1>7. CASE TipCommit
  BY <1>7 DEF TipCommit
<1>8. CASE TipRewind
  BY <1>8 DEF TipRewind, RollBack
<1> QED
  BY <1>1, <1>2, <1>3, <1>4, <1>5, <1>6, <1>7, <1>8 DEF Next, Step

\* Where backfill goes on is a height.
LEMMA NextTyped ==
  ASSUME StartInv, [Next]_vars
  PROVE  next' \in Nat /\ target' \in 0..MaxHead /\ head' \in 1..MaxHead
<1>0. MaxHead \in Nat \ {0} /\ head \in 1..MaxHead /\ target \in 0..MaxHead /\ next \in Nat
  BY StartupAssumption DEF StartInv, TypeOK
<1>1. CASE BeginBackfill
  <2>1. ResumeHeight \in Nat
    <3>1. CASE table = {}
      <4>1. cfg["processor.start_height"] \in Nat
        BY <1>1 DEF BeginBackfill, StartInv, ConfigOK, Running
      <4> QED
        BY <3>1, <4>1 DEF ResumeHeight
    <3>2. CASE table # {}
      <4>1. Highest(table) \in table
        BY <1>0, <3>2, HighestExists DEF StartInv, TypeOK
      <4>2. Highest(table) \in 0..MaxHead
        BY <4>1 DEF StartInv, TypeOK
      <4> QED
        BY <1>0, <3>2, <4>2 DEF ResumeHeight
    <3> QED
      BY <3>1, <3>2
  <2>2. next' = ResumeHeight /\ target' = head /\ head' = head
    BY <1>1 DEF BeginBackfill
  <2> QED
    BY <1>0, <2>1, <2>2
<1>2. CASE BackfillBatch
  <2>1. next' = BatchEnd + 1 /\ BatchEnd \in 0..MaxHead
    BY <1>2, BatchFacts
  <2>2. target' = target /\ head' = head
    BY <1>2 DEF BackfillBatch
  <2> QED
    BY <1>0, <2>1, <2>2
<1>3. CASE BackfillRewind
  <2>1. PICK f \in Forks(next - 1) : RollBack(f) /\ next' = f + 1
    BY <1>3 DEF BackfillRewind
  <2>2. f \in 0..(next - 1)
    BY <2>1 DEF Forks
  <2>3. target' = target /\ head' = head
    BY <2>1 DEF RollBack
  <2> QED
    BY <1>0, <2>1, <2>2, <2>3
<1>4. CASE TipRewind
  BY <1>0, <1>4 DEF TipRewind, RollBack
<1>5. CASE TipCommit
  BY <1>0, <1>5 DEF TipCommit, loop
<1>6. CASE LoadConfig \/ RefuseConfig \/ Connect \/ InitStore
  BY <1>0, <1>6 DEF LoadConfig, RefuseConfig, Connect, InitStore, loop
<1>7. CASE EndBackfill \/ Abort
  <2>1. target' = 0 /\ next' = 0 /\ head' = head
    BY <1>7 DEF EndBackfill, Abort
  <2> QED
    BY <1>0, <2>1
<1>8. CASE Restart \/ Bind \/ Interrupt \/ Edit
  BY <1>0, <1>8 DEF Restart, Bind, Interrupt, Edit, loop
<1>9. CASE Finalize \/ UNCHANGED vars
  BY <1>0, <1>9 DEF Finalize, vars, loop
<1> QED
  BY <1>1, <1>2, <1>3, <1>4, <1>5, <1>6, <1>7, <1>8, <1>9 DEF Next, Step

LEMMA TypeOKStep ==
  ASSUME StartInv, [Next]_vars
  PROVE  TypeOK' /\ head' \in 1..MaxHead
<1>0. /\ table' \subseteq 0..MaxHead /\ dropped' \subseteq 0..MaxHead
      /\ hiwater' \in 0..MaxHead /\ followed' \in BOOLEAN
      /\ next' \in Nat /\ target' \in 0..MaxHead /\ head' \in 1..MaxHead
  BY RowsTyped, NextTyped
<1>1. /\ phase' \in Running \cup {"off", "failed", "done"}
      /\ api' \in {"off", "spawned", "up", "failed"}
      /\ phase' \notin Running => api' = "off"
      /\ DOMAIN cfg' = Keys
      /\ migrated' \in BOOLEAN
      /\ phase' = "failed" <=> error' # None
  <2> USE DEF StartInv, TypeOK, Running
  <2>0. NumericKeys \subseteq Keys
    BY OverlayFields
  <2>1. CASE LoadConfig
    <3>1. DOMAIN cfg' = Keys
      BY <2>1, OverlayFields DEF LoadConfig, Loaded
    <3> QED
      BY <2>1, <3>1 DEF LoadConfig, database
  <2>2. CASE RefuseConfig
    BY <2>2 DEF RefuseConfig, database
  <2>3. CASE Connect
    <3>1. DOMAIN cfg' = Keys
      BY <2>3, BuildFields DEF Connect
    <3> QED
      BY <2>3, <3>1 DEF Connect, database
  <2>4. CASE InitStore
    BY <2>4 DEF InitStore
  <2>5. CASE BeginBackfill
    BY <2>5 DEF BeginBackfill, database
  <2>6. CASE BackfillBatch
    BY <2>6 DEF BackfillBatch
  <2>7. CASE BackfillRewind
    BY <2>7 DEF BackfillRewind, RollBack
  <2>8. CASE EndBackfill
    BY <2>8 DEF EndBackfill, database
  <2>9. CASE TipCommit
    BY <2>9 DEF TipCommit
  <2>10. CASE TipRewind
    BY <2>10 DEF TipRewind, RollBack
  <2>11. CASE Restart \/ Interrupt
    BY <2>11 DEF Restart, Interrupt, database
  <2>12. CASE Bind
    <3>1. phase \in Running
      BY <2>12 DEF Bind
    <3> QED
      BY <2>12, <3>1 DEF Bind, database
  <2>13. CASE Abort
    <3>1. error' # None
      BY <2>13, ErrorIsSome DEF Abort
    <3> QED
      BY <2>13, <3>1 DEF Abort, database
  <2>14. CASE Edit \/ Finalize \/ UNCHANGED vars
    BY <2>14 DEF Edit, Finalize, vars, database
  <2> QED
    BY <2>1, <2>2, <2>3, <2>4, <2>5, <2>6, <2>7, <2>8, <2>9, <2>10, <2>11, <2>12,
       <2>13, <2>14 DEF Next, Step
<1> QED
  BY <1>0, <1>1 DEF TypeOK

LEMMA StartStep == StartInv /\ [Next]_vars => StartInv'
BY TypeOKStep, InputsStep, ErrorStep, ConfigStep, RunStep, MigratedStep DEF StartInv

-----------------------------------------------------------------------------

\* Phases, task, table and error stay what they are declared to be; in particular
\* main has an error exactly when it has failed, and the API dies with the process.
THEOREM StartupTyped == Spec => []TypeOK
<1>1. StartInv => TypeOK
  BY DEF StartInv
<1> QED
  BY <1>1, InitStart, StartStep, PTL DEF Spec

\* In a database that has only been backfilled, whatever start heights, batch sizes
\* and windows the runs are given, wherever they die and through every rewind,
\* indexerStatus counts as many blocks as lie between the lowest retained height and
\* the cursor, and none lies below where the rows began.
THEOREM HeightsAreOneRun == Spec => []OneRunOfHeights
<1>1. StartInv => OneRunOfHeights
  <2> SUFFICES ASSUME StartInv, ~followed, table # {}
               PROVE  /\ Status.indexed_blocks = Status.height - Lowest(table) + 1
                      /\ first <= Lowest(table)
    BY DEF OneRunOfHeights
  <2>1. PICK a, b \in 0..MaxHead : a <= b /\ table = a..b /\ first <= a
    BY DEF StartInv, OneRun
  <2>2. MaxHead \in Nat
    BY StartupAssumption
  <2>3. a \in Nat /\ b \in Nat /\ a \in Int /\ b \in Int
    BY <2>1, <2>2
  <2>4. Highest(table) = b /\ Lowest(table) = a
    BY <2>1, <2>3, Ends
  <2>5. Cardinality(table) = b - a + 1
    <3>1. Cardinality(a..b) = IF a > b THEN 0 ELSE b - a + 1
      BY <2>3, FS_Interval
    <3> QED
      BY <2>1, <2>3, <3>1
  <2>6. Status.height = b /\ Status.indexed_blocks = b - a + 1
    BY <2>4, <2>5 DEF Status
  <2> QED
    BY <2>1, <2>4, <2>6
<1> QED
  BY <1>1, InitStart, StartStep, PTL DEF Spec

\* Nothing is served or indexed before init has made the tables.
THEOREM ServesMigrated == Spec => []ServedAfterInit
<1>1. StartInv => ServedAfterInit
  BY DEF StartInv, MigratedFirst, ServedAfterInit
<1> QED
  BY <1>1, InitStart, StartStep, PTL DEF Spec

-----------------------------------------------------------------------------
(* The window, when nobody edits it.                                       *)

Window == {"REORG_RETENTION", "MAX_REORG_DEPTH"}

\* Repairs and edits leave a settled window alone.
LEMMA WindowSame ==
  ASSUME StartInv, Settled, WindowFixed, [Next]_vars, first # None
  PROVE  file' = file /\ \A v \in Window : env'[v] = env[v]
<1>0. Window \subseteq DOMAIN env
  BY DEF StartInv, InputsOK, NumericVars, Window
<1>1. CASE Restart
  <2>1. error # None => /\ error.kind \notin {"Read", "Parse", "Invalid"}
                        /\ error.about \notin Window
    BY DEF Settled, Window
  <2>2. file' = file
    BY <1>1, <2>1 DEF Restart
  <2>3. env' = env \/ (error # None /\ \E x : env' = [env EXCEPT ![error.about] = x])
    <3>1. CASE error = None
      BY <1>1, <3>1 DEF Restart
    <3>2. CASE error # None /\ error.kind = "BadEnv"
      BY <1>1, <3>2 DEF Restart
    <3>3. CASE error # None /\ error.kind = "Missing"
      BY <1>1, <3>3 DEF Restart
    <3>4. CASE error # None /\ error.kind \notin {"BadEnv", "Missing"}
      <4>1. error.kind \notin {"BadEnv", "Missing", "Invalid"}
        BY <2>1, <3>4
      <4> QED
        BY <1>1, <3>4, <4>1 DEF Restart
    <3> QED
      BY <3>1, <3>2, <3>3, <3>4
  <2>4. ASSUME NEW v \in Window PROVE env'[v] = env[v]
    BY <1>0, <2>1, <2>3
  <2> QED
    BY <2>2, <2>4
<1>2. CASE Edit
  <2>1. PICK v \in DOMAIN Edits : \E x \in Edits[v] : env' = [env EXCEPT ![v] = x]
    BY <1>2 DEF Edit
  <2>2. v \notin Window
    BY <2>1 DEF WindowFixed, Window
  <2> QED
    BY <1>0, <1>2, <2>1, <2>2 DEF Edit
<1>3. UNCHANGED inputs \/ Restart \/ Edit
  BY DEF Next, Step, vars, LoadConfig, RefuseConfig, Connect, InitStore, BeginBackfill,
         BackfillBatch, EndBackfill, Bind, Interrupt, Abort, Finalize, BackfillRewind,
         TipCommit, TipRewind, RollBack
<1> QED
  BY <1>1, <1>2, <1>3 DEF inputs

\* A configuration that loads has a window that holds the depth.
LEMMA LoadedWindow ==
  ASSUME StartInv, LoadError(file, env) = None
  PROVE  /\ file.status \notin {"unreadable", "malformed"}
         /\ env["REORG_RETENTION"] # Malformed /\ env["MAX_REORG_DEPTH"] # Malformed
         /\ Retained(file, env) \in Nat /\ Depth(file, env) \in Nat
         /\ Retained(file, env) = 0 \/ Depth(file, env) <= Retained(file, env)
<1>1. /\ file.status \notin {"unreadable", "malformed"}
      /\ \A v \in NumericVars : env[v] # Malformed
      /\ ~WindowTooShort(Overlay(file.keys, env))
  BY LoadFacts
<1>2. Retained(file, env) \in Nat /\ Depth(file, env) \in Nat
  BY ConfigFields DEF StartInv
<1>3. ~(Retained(file, env) # 0 /\ Retained(file, env) < Depth(file, env))
  BY <1>1, ConfigFields DEF StartInv
<1>4. Retained(file, env) = 0 \/ Depth(file, env) <= Retained(file, env)
  BY <1>2, <1>3
<1> QED
  BY <1>1, <1>2, <1>4 DEF NumericVars

LEMMA SettledStep ==
  ASSUME StartInv, Settled, WindowFixed, [Next]_vars
  PROVE  Settled'
<1>1. CASE BackfillBatch \/ TipCommit
  <2>1. phase \in Running /\ phase # "failed" /\ UNCHANGED <<inputs, error>>
    BY <1>1 DEF BackfillBatch, TipCommit, Running
  <2>2. error' = None
    BY <2>1 DEF StartInv, TypeOK
  <2>3. LoadError(file, env) = None
    BY <2>1 DEF StartInv, ConfigOK
  <2> QED
    BY <2>1, <2>2, <2>3, LoadedWindow DEF Settled, inputs
<1>2. CASE first' = first /\ first # None
  <2>1. /\ file' = file
        /\ env'["REORG_RETENTION"] = env["REORG_RETENTION"]
        /\ env'["MAX_REORG_DEPTH"] = env["MAX_REORG_DEPTH"]
    BY <1>2, WindowSame DEF Window
  <2>2. /\ Retained(file, env)' = Retained(file, env)
        /\ Depth(file, env)' = Depth(file, env)
    BY <2>1 DEF Retained, Depth
  <2>3. error' # None => /\ error'.kind \notin {"Read", "Parse", "Invalid"}
                         /\ error'.about \notin {"REORG_RETENTION", "MAX_REORG_DEPTH"}
    <3>1. CASE RefuseConfig
      <4>1. /\ error' = LoadError(file, env) /\ error' # None
            /\ UNCHANGED inputs
        BY <3>1 DEF RefuseConfig
      <4>2. ~WindowTooShort(Overlay(file.keys, env))
        <5>1. /\ env["REORG_RETENTION"] \in Nat \cup {None}
              /\ env["MAX_REORG_DEPTH"] \in Nat \cup {None}
          BY <1>2 DEF StartInv, InputsOK, Settled, NumericVars
        <5>2. Retained(file, env) \in Nat /\ Depth(file, env) \in Nat
          BY <5>1 DEF StartInv, InputsOK, Retained, Depth, OrElse, NumericKeys
        <5>3. Retained(file, env) = 0 \/ Depth(file, env) <= Retained(file, env)
          BY <1>2 DEF Settled
        <5>4. ~(Retained(file, env) # 0 /\ Retained(file, env) < Depth(file, env))
          BY <5>2, <5>3
        <5> QED
          BY <5>4, ConfigFields DEF StartInv
      <4>3. \/ error'.kind = "BadEnv" /\ env[error'.about] = Malformed
            \/ error'.kind = "Missing" /\ error'.about \in {"WS_URL", "DATABASE_URL"}
        BY <1>2, <4>1, <4>2, LoadFacts DEF Settled
      <4> QED
        BY <1>2, <4>3 DEF Settled
    <3>2. CASE Abort
      <4>1. error'.kind = "Run" /\ error'.about = ""
        BY <3>2, ErrorIsSome DEF Abort
      <4> QED
        BY <4>1
    <3>3. CASE error' = error
      BY <1>2, <3>3 DEF Settled
    <3>4. RefuseConfig \/ Abort \/ error' = error \/ error' = None
      BY DEF Next, Step, vars, LoadConfig, Connect, InitStore, BeginBackfill,
             BackfillBatch, EndBackfill, Bind, Interrupt, Edit, Finalize, Restart,
             BackfillRewind, TipCommit, TipRewind, RollBack
    <3> QED
      BY <3>1, <3>2, <3>3, <3>4
  <2> QED
    BY <1>2, <2>1, <2>2, <2>3 DEF Settled
<1>3. CASE first' = None
  BY <1>3 DEF Settled
<1>4. BackfillBatch \/ TipCommit \/ first' = first
  BY RowSteps DEF BackfillRewind, TipRewind, RollBack, rows
<1> QED
  BY <1>1, <1>2, <1>3, <1>4

\* Pruning stays below the window of the highest height, wherever the commit lands.
LEMMA RecordHolds ==
  ASSUME StartInv, WindowHeld, phase \in {"backfill", "follow"}, UNCHANGED inputs,
         NEW from \in 0..MaxHead, NEW to \in 0..MaxHead, from <= to, Record(from, to)
  PROVE  WindowHeld'
<1> DEFINE r   == Retained(file, env)
           low == IF r = 0 THEN 0 ELSE Minus(to, r)
<1>1. /\ r \in Nat /\ low \in Nat
      /\ table' = {h \in table \cup from..to : h >= low}
      /\ dropped' = (dropped \cup table \cup from..to) \ table'
      /\ hiwater' = IF hiwater < to THEN to ELSE hiwater
  BY RecordFacts
<1>2. MaxHead \in Nat /\ hiwater \in Nat /\ to \in Nat /\ hiwater' \in Nat
  <2>1. MaxHead \in Nat
    BY StartupAssumption
  <2> QED
    BY <1>1, <2>1 DEF StartInv, TypeOK
<1>3. Retained(file, env)' = r
  BY DEF inputs, Retained
<1>4. /\ Minus(to, r) <= Minus(hiwater', r) /\ Minus(to, r) \in Nat
      /\ Minus(hiwater, r) <= Minus(hiwater', r) /\ Minus(hiwater, r) \in Nat
      /\ Minus(hiwater', r) \in Nat
  <2> HIDE DEF r
  <2> QED
    BY <1>1, <1>2 DEF Minus
<1>5. ASSUME NEW h \in dropped' PROVE r # 0 /\ h < Minus(hiwater', r)
  <2>1. h \in 0..MaxHead /\ h \in Nat
    <3>1. h \in 0..MaxHead
      BY <1>5, RecordFacts
    <3> QED
      BY <1>2, <3>1
  <2>2. CASE h \in table \cup from..to
    <3>1. ~(h >= low)
      BY <1>1, <1>5, <2>2
    <3>2. h < low
      BY <1>1, <2>1, <3>1
    <3>3. r # 0 /\ low = Minus(to, r)
      BY <2>1, <3>2
    <3> HIDE DEF r, low
    <3> QED
      BY <1>4, <2>1, <3>2, <3>3
  <2>3. CASE h \notin table \cup from..to
    <3>1. h \in dropped
      BY <1>1, <1>5, <2>3
    <3>2. r # 0 /\ h < Minus(hiwater, r)
      BY <3>1 DEF WindowHeld
    <3> HIDE DEF r
    <3> QED
      BY <1>4, <2>1, <3>2
  <2> QED
    BY <2>2, <2>3
<1> QED
  BY <1>3, <1>5 DEF WindowHeld

LEMMA WindowStep ==
  ASSUME StartInv, Settled, WindowHeld, WindowFixed, [Next]_vars
  PROVE  WindowHeld'
<1>1. CASE BackfillBatch
  <2>1. phase = "backfill" /\ UNCHANGED inputs
    BY <1>1 DEF BackfillBatch
  <2> QED
    BY <1>1, <2>1, BatchFacts, RecordHolds
<1>2. CASE TipCommit
  <2>1. phase = "follow" /\ UNCHANGED inputs
    BY <1>2 DEF TipCommit
  <2>2. PICK n \in 0..head : Record(n, n)
    BY <1>2 DEF TipCommit
  <2>3. n \in 0..MaxHead /\ n <= n
    <3>1. MaxHead \in Nat /\ head \in 1..MaxHead
      BY StartupAssumption DEF StartInv
    <3> QED
      BY <3>1
  <2> QED
    BY <2>1, <2>2, <2>3, RecordHolds
<1>3. CASE UNCHANGED <<dropped, hiwater, first>>
  <2>1. CASE first = None
    BY <1>3, <2>1 DEF WindowHeld, StartInv, OneRun
  <2>2. CASE first # None
    <3>1. /\ file' = file
          /\ env'["REORG_RETENTION"] = env["REORG_RETENTION"]
      BY <2>2, WindowSame DEF Window
    <3>2. Retained(file, env)' = Retained(file, env)
      BY <3>1 DEF Retained
    <3> QED
      BY <1>3, <3>2 DEF WindowHeld
  <2> QED
    BY <2>1, <2>2
<1>4. UNCHANGED <<dropped, hiwater, first>> \/ BackfillBatch \/ TipCommit
  BY RowSteps DEF BackfillRewind, TipRewind, RollBack, rows
<1> QED
  BY <1>1, <1>2, <1>3, <1>4

\* If the two settings of the window stay what they were when the first block was
\* indexed, then pruning only ever takes heights that lie deeper below the highest
\* one indexed than a permitted fork walk goes, in backfill and at the tip.
THEOREM WindowCovered == WindowFixed => (Spec => []WindowCoversWalk)
<1> SUFFICES ASSUME WindowFixed PROVE Spec => []WindowCoversWalk
  OBVIOUS
<1> DEFINE I == StartInv /\ Settled /\ WindowHeld
<1>1. Init => I
  <2>1. Init => first = None /\ dropped = {}
    BY DEF Init
  <2> QED
    BY <2>1, InitStart DEF Settled, WindowHeld
<1>2. I /\ [Next]_vars => I'
  BY StartStep, SettledStep, WindowStep
<1>3. I => WindowCoversWalk
  <2> DEFINE depth == cfg["processor.max_reorg_depth"]
  <2> SUFFICES ASSUME I, phase \in {"backfill", "follow"}, depth # 0, NEW h \in dropped
               PROVE  h < Minus(hiwater, depth)
    BY DEF WindowCoversWalk
  <2>1. phase \in Running /\ phase # "loaded"
    BY DEF Running
  <2>2. LoadError(file, env) = None /\ depth = Depth(file, env)
    BY <2>1 DEF StartInv, ConfigOK
  <2>3. /\ Retained(file, env) \in Nat /\ depth \in Nat
        /\ Retained(file, env) = 0 \/ depth <= Retained(file, env)
    BY <2>2, LoadedWindow
  <2>4. hiwater \in Nat /\ h \in Nat
    <3>1. MaxHead \in Nat
      BY StartupAssumption
    <3> QED
      BY <3>1 DEF StartInv, TypeOK
  <2>5. Retained(file, env) # 0 /\ h < Minus(hiwater, Retained(file, env))
    BY DEF WindowHeld
  <2> HIDE DEF depth
  <2>6. /\ Minus(hiwater, Retained(file, env)) <= Minus(hiwater, depth)
        /\ Minus(hiwater, Retained(file, env)) \in Nat /\ Minus(hiwater, depth) \in Nat
    BY <2>3, <2>4, <2>5 DEF Minus
  <2> QED
    BY <2>4, <2>5, <2>6
<1> HIDE DEF I
<1> QED
  BY <1>1, <1>2, <1>3, PTL DEF Spec

=============================================================================
