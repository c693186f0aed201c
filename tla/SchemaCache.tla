---------------------------- MODULE SchemaCache ----------------------------
(***************************************************************************)
(* ContentSchemaResolver and SchemaVersionBuilder: the schema of a project, *)
(* cached in a process and brought up to date by every call, while          *)
(* migrations are executed beside it.                                       *)
(***************************************************************************)
EXTENDS Migrations

CONSTANTS
  Readers,   \* who calls getSchema, again and again
  Stages,
  NoStage

ASSUME SchemaCacheAssumption == NoStage \notin Stages

(* No schema is cached; versions begin with 1. *)
Nothing == {0}

VARIABLES
  base,      \* baseSchemaCache: the versions of the schema migrations it was built from
  stages,    \* stageSchemaCache
  reader,    \* each call: "none", "asking", "answered"
  stage,     \* of which stage
  prev,      \* prevBaseSchema
  seen,      \* the new schema migrations its query returned
  new,       \* it returned any, content migrations too
  floor,     \* history: the schema migrations that were committed when it was called
  doubtful,  \* history: since the cache was cleared, rows changed behind what is cached
  regressed  \* history: the base cache went back, or may do so after it was cleared

cacheVars == <<base, stages, reader, stage, prev, seen, new, floor, doubtful, regressed>>
schemaVars == <<migrationVars, cacheVars>>

Schemas == SUBSET Versions
NoStages == [s \in Stages |-> Nothing]

CacheTypeOK ==
  /\ base \in Schemas \cup {Nothing} /\ stages \in [Stages -> Schemas \cup {Nothing}]
  /\ reader \in [Readers -> {"none", "asking", "answered"}]
  /\ stage \in [Readers -> Stages \cup {NoStage}] /\ prev \in [Readers -> Schemas \cup {Nothing}]
  /\ seen \in [Readers -> Schemas] /\ new \in [Readers -> BOOLEAN] /\ floor \in [Readers -> Schemas]
  /\ doubtful \in BOOLEAN /\ regressed \in BOOLEAN

CacheInit ==
  /\ base = Nothing /\ stages = NoStages
  /\ reader = [r \in Readers |-> "none"] /\ stage = [r \in Readers |-> NoStage]
  /\ prev = [r \in Readers |-> Nothing] /\ seen = [r \in Readers |-> {}]
  /\ new = [r \in Readers |-> FALSE] /\ floor = [r \in Readers |-> {}]
  /\ doubtful = FALSE /\ regressed = FALSE
-----------------------------------------------------------------------------
(* getSchema is called: the cached schema is remembered, the query sent. *)
Ask(r) ==
  /\ reader[r] = "none" /\ reader' = [reader EXCEPT ![r] = "asking"]
  /\ \E s \in Stages \cup {NoStage} : stage' = [stage EXCEPT ![r] = s]
  /\ prev' = [prev EXCEPT ![r] = base] /\ floor' = [floor EXCEPT ![r] = SchemaVersions(rows)]
  /\ UNCHANGED <<base, stages, seen, new, doubtful, regressed>>

(* Mutant: the version of a schema counts content migrations. *)
CachedVersionAny(r) ==
  IF prev[r] = Nothing THEN 0 ELSE Latest(prev[r] \cup (DOMAIN rows \ SchemaVersions(rows)))

(* after.version *)
CachedVersion(r) == Latest(prev[r])

(* The server answers with the migrations after the cached version. *)
Answer(r) ==
  /\ reader[r] = "asking" /\ reader' = [reader EXCEPT ![r] = "answered"]
  /\ LET after == {v \in DOMAIN rows : v > CachedVersion(r)}
     IN  seen' = [seen EXCEPT ![r] = after \cap SchemaVersions(rows)] /\ new' = [new EXCEPT ![r] = after # {}]
  /\ UNCHANGED <<base, stages, stage, prev, floor, doubtful, regressed>>

(* buildSchema: the object it was given when there is nothing new, another one otherwise. *)
Built(r) == (prev[r] \ Nothing) \cup seen[r]
Same(r) == prev[r] # Nothing /\ ~new[r]

(* Mutant: the stage cache is never emptied. *)
KeptKeeps(r) == stages

(* The stage cache is emptied when the call found something new. *)
Kept(r) == IF Same(r) THEN stages ELSE NoStages

(* What the call returns. *)
Result(r) == IF stage[r] = NoStage \/ Kept(r)[stage[r]] = Nothing THEN Built(r) ELSE Kept(r)[stage[r]]

Finish(r) ==
  /\ reader[r] = "answered" /\ reader' = [reader EXCEPT ![r] = "none"] /\ base' = Built(r)
  /\ stages' = [s \in Stages |-> IF s = stage[r] THEN Result(r) ELSE Kept(r)[s]]
  /\ regressed' = (regressed \/ ~(base \ Nothing \subseteq Built(r)))
  /\ stage' = [stage EXCEPT ![r] = NoStage] /\ prev' = [prev EXCEPT ![r] = Nothing]
  /\ seen' = [seen EXCEPT ![r] = {}] /\ new' = [new EXCEPT ![r] = FALSE] /\ floor' = [floor EXCEPT ![r] = {}]
  /\ UNCHANGED doubtful

(* clearCache, when a request to the system API ends, in debug mode; a call in flight will put  *)
(* back what it remembers.                                                                     *)
Clear ==
  LET inFlight == \E r \in Readers : reader[r] # "none"
  IN  /\ Debug /\ base' = Nothing /\ stages' = NoStages
      /\ doubtful' = (doubtful /\ inFlight) /\ regressed' = inFlight
      /\ UNCHANGED <<reader, stage, prev, seen, new, floor>>

Reads(r) == Ask(r) \/ Answer(r) \/ Finish(r)

SchemaInit == MigrationsInit /\ CacheInit
SchemaNext ==
  \/ MigrationsNext /\ doubtful' = (doubtful \/ (rows' # rows /\ alters' > 0))
     /\ UNCHANGED <<base, stages, reader, stage, prev, seen, new, floor, regressed>>
  \/ ((\E r \in Readers : Reads(r)) \/ Clear) /\ UNCHANGED migrationVars
SchemaSpec == SchemaInit /\ [][SchemaNext]_schemaVars
-----------------------------------------------------------------------------
(* Without a stage, getSchema returns no less than what was committed when it was called,     *)
(* whatever calls wrote the cache meanwhile and in whatever order; in debug mode, where rows    *)
(* change behind the cached version, once the cache was cleared with no call in flight          *)
(* (ContentSchemaResolver.ts:17-22, SchemaVersionBuilder.ts:19).                               *)
BaseFresh ==
  [][\A r \in Readers : Finish(r) /\ stage[r] = NoStage /\ ~doubtful => floor[r] \subseteq Result(r)]_schemaVars

(* With a stage too, as long as no late call has put an older schema back: the stage cache is  *)
(* then filled from it, and stays when the next call brings the base up to date without having  *)
(* found anything new itself (ContentSchemaResolver.ts:20-26).                                  *)
StageFresh ==
  [][\A r \in Readers : Finish(r) /\ ~doubtful /\ ~regressed' => floor[r] \subseteq Result(r)]_schemaVars
=============================================================================
