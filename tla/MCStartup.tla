----------------------------- MODULE MCStartup ------------------------------
(***************************************************************************)
(* Files and environments for Startup: every kind of mistake an operator   *)
(* can make, small batches and windows, an early or a late start.          *)
(***************************************************************************)
EXTENDS Startup

\* An environment that sets these variables and no other.
Setting(pairs) ==
  [v \in Vars \cup {"FOLLOW", "SERVE"} |->
     IF \E p \in pairs : p[1] = v THEN (CHOOSE p \in pairs : p[1] = v)[2] ELSE None]

File(pairs) ==
  [status |-> "ok",
   keys |-> [k \in Keys |->
               IF \E p \in pairs : p[1] = k
               THEN (CHOOSE p \in pairs : p[1] = k)[2] ELSE None]]

SomeFiles ==
  { NoFile,
    [NoFile EXCEPT !.status = "unreadable"],
    [NoFile EXCEPT !.status = "malformed"],
    File({<<"source.url", Url>>, <<"processor.batch_size", 0>>}) }

Urls == {<<"WS_URL", Url>>, <<"DATABASE_URL", Url>>}

SomeEnvs ==
  { Setting({}),
    Setting({<<"WS_URL", Url>>, <<"BATCH_SIZE", Malformed>>, <<"STRICT", Malformed>>}),
    Setting(Urls \cup {<<"BATCH_SIZE", 2>>, <<"START_HEIGHT", 1>>,
                       <<"REORG_RETENTION", 1>>, <<"MAX_REORG_DEPTH", 1>>}),
    Setting(Urls \cup {<<"REORG_RETENTION", 1>>, <<"MAX_REORG_DEPTH", 2>>,
                       <<"FOLLOW", "0">>}),
    Setting(Urls \cup {<<"BATCH_SIZE", 1>>, <<"START_HEIGHT", 0>>,
                       <<"REORG_RETENTION", 1>>, <<"MAX_REORG_DEPTH", 0>>}) }

\* What later runs may be given: another start height, batch size or mode.  The
\* window stays: rows that were pruned under a smaller one do not come back.
SomeEdits ==
  [v \in {"START_HEIGHT", "BATCH_SIZE", "FOLLOW", "SERVE"} |->
     IF v \in {"FOLLOW", "SERVE"} THEN {"0"} ELSE {0, 3}]
=============================================================================
