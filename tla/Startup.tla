------------------------------ MODULE Startup ------------------------------
(***************************************************************************)
(* main up to its loop: the configuration, the database and the cache are  *)
(* set up in turn.  A failure one of them reports ends main; an exception  *)
(* that nothing catches ends the process.                                  *)
(***************************************************************************)
EXTENDS Naturals

CONSTANTS
  Modes,        \* what the configuration may hold as the database's mode
  MaxArchives,  \* archives the main index has room for, at most
  kCounter      \* values of the counter that goes through them: 65536

\* The counter passes the last archive, and one more, before it wraps.
ASSUME StartupAssumption ==
  /\ MaxArchives \in Nat /\ kCounter \in Nat /\ MaxArchives + 2 <= kCounter
  /\ {"mysql", "sqlite"} \subseteq Modes

IndexNumbers == 0 .. MaxArchives

\* What logins and the database read of config.json: the file of the database,
\* the key that decrypts a login, where players begin, the names of the server.
ConfigKeys == {"filename", "login", "starting_location", "server"}

\* What an archive of the main index makes of PopulateIndexMetadata.
Tables == {"good", "broken", "undecodable"}

VARIABLES
  phase,       \* how far main is
  mode,        \* of the database, or "unset"; "none" if the file has none
  configFile,  \* the mode in it; "unreadable" if it cannot be parsed
  settings,    \* the others in it that can be used: there, and of their type
  database,    \* what the file of the accounts does: "works" or "fails"
  cacheFiles,  \* of "dat2" and "idx255"
  keys,        \* of the maps, in the config.json of the cache: "none" if it is
               \* no object, "partly" if some are missing or no numbers
  indexFiles,  \* numbers with a file
  tables,      \* the archives of the main index
  next,        \* the number the constructor of Cache is at
  stores,      \* indexes opened
  described    \* indexes whose table is read

fileVars == <<configFile, settings, database, cacheFiles, keys, indexFiles, tables>>
startVars == <<phase, mode, fileVars, next, stores, described>>

ArchiveCount == IF DOMAIN tables = {} THEN 0 ELSE CHOOSE n \in 1 .. MaxArchives : DOMAIN tables = 0 .. n - 1

Running == {"config", "database", "cache", "open", "populate", "serving"}

StartTypeOK ==
  /\ phase \in Running \cup {"failed", "aborted", "killed"}
  /\ mode \in Modes \cup {"unset", "none"} /\ configFile \in Modes \cup {"unreadable", "none"}
  /\ settings \subseteq ConfigKeys /\ database \in {"works", "fails"}
  /\ cacheFiles \subseteq {"dat2", "idx255"} /\ keys \in {"none", "partly", "whole"}
  /\ indexFiles \subseteq IndexNumbers
  /\ tables \in UNION {[0 .. n - 1 -> Tables] : n \in 0 .. MaxArchives}
  /\ next \in 0 .. MaxArchives + 1
  /\ stores \subseteq IndexNumbers /\ described \subseteq stores

Unstarted == mode = "unset" /\ next = 0 /\ stores = {} /\ described = {}

StartInit ==
  /\ phase = "config" /\ Unstarted
  /\ configFile \in Modes \cup {"unreadable", "none"}
  /\ settings \in SUBSET ConfigKeys /\ (configFile = "unreadable" => settings = {})
  /\ database \in {"works", "fails"}
  /\ cacheFiles \in SUBSET {"dat2", "idx255"} /\ keys \in {"none", "partly", "whole"}
  /\ indexFiles \in SUBSET IndexNumbers
  /\ tables \in UNION {[0 .. n - 1 -> Tables] : n \in 0 .. MaxArchives}

\* GenerateDefaultConfig; it also writes the file.
DefaultMode == "sqlite"

\* ConfigManager::Init: a file that cannot be parsed, or is not there, is
\* replaced by the defaults; in one that parses anything may be missing.
InitConfig ==
  /\ phase = "config"
  /\ mode' = IF configFile = "unreadable" THEN DefaultMode ELSE configFile
  /\ configFile' = IF configFile = "unreadable" THEN DefaultMode ELSE configFile
  /\ settings' = IF configFile = "unreadable" THEN ConfigKeys ELSE settings
  /\ phase' = "database"
  /\ UNCHANGED <<database, cacheFiles, keys, indexFiles, tables, next, stores, described>>

\* The columns of the MySQL table throw, when its server is there; the name of
\* the SQLite file throws, when it is missing.
InitMySQL == {"failed", "aborted"}
InitSqlite == {IF "filename" \notin settings THEN "aborted" ELSE IF database = "fails" THEN "failed" ELSE "cache"}

\* DatabaseManager::Init: every mode but "mysql" opens SQLite.
InitDatabase ==
  /\ phase = "database"
  /\ phase' \in IF mode = "none" THEN {"aborted"} ELSE IF mode = "mysql" THEN InitMySQL ELSE InitSqlite
  /\ UNCHANGED <<mode, fileVars, next, stores, described>>

\* CacheManager::Init, to the two files the cache cannot do without.
InitCache ==
  /\ phase = "cache"
  /\ phase' = IF {"dat2", "idx255"} \subseteq cacheFiles THEN "open" ELSE "failed"
  /\ UNCHANGED <<mode, fileVars, next, stores, described>>

\* (Seeded defects.) The first number without a file ends the loop; the
\* counter is one bit too narrow; it goes one further still.
OpenTwoMore ==
  /\ phase = "open"
  /\ IF next <= ArchiveCount + 1
     THEN stores' = stores \cup ({next} \cap indexFiles) /\ next' = next + 1 /\ UNCHANGED phase
     ELSE phase' = "populate" /\ UNCHANGED <<stores, next>>
  /\ UNCHANGED <<mode, fileVars, described>>
OpenUntilMissing ==
  /\ phase = "open"
  /\ IF next <= ArchiveCount /\ next \in indexFiles
     THEN stores' = stores \cup {next} /\ next' = next + 1 /\ UNCHANGED phase
     ELSE phase' = "populate" /\ UNCHANGED <<stores, next>>
  /\ UNCHANGED <<mode, fileVars, described>>
OpenNarrow ==
  /\ phase = "open"
  /\ IF next <= ArchiveCount
     THEN stores' = stores \cup ({next} \cap indexFiles) /\ next' = (next + 1) % (kCounter \div 2) /\ UNCHANGED phase
     ELSE phase' = "populate" /\ UNCHANGED <<stores, next>>
  /\ UNCHANGED <<mode, fileVars, described>>

\* Cache::Cache opens every number up to the count, that one included.
OpenIndex ==
  /\ phase = "open"
  /\ IF next <= ArchiveCount
     THEN stores' = stores \cup ({next} \cap indexFiles) /\ next' = (next + 1) % kCounter /\ UNCHANGED phase
     ELSE phase' = "populate" /\ UNCHANGED <<stores, next>>
  /\ UNCHANGED <<mode, fileVars, described>>

NextStore == CHOOSE id \in stores \ described : \A other \in stores \ described : id <= other

\* (Seeded defect.) An index without a table is passed over.
PopulateLeniently ==
  /\ phase = "populate" /\ stores # described
  /\ described' = described \cup {NextStore}
  /\ UNCHANGED <<phase, mode, fileVars, next, stores>>

\* PopulateIndexMetadata, in the order of the numbers.
PopulateIndex ==
  /\ phase = "populate" /\ stores # described
  /\ IF NextStore \in DOMAIN tables /\ tables[NextStore] = "good"
     THEN described' = described \cup {NextStore} /\ UNCHANGED phase
     ELSE /\ phase' = IF NextStore \in DOMAIN tables /\ tables[NextStore] = "undecodable"
                      THEN "aborted" ELSE "failed"
          /\ UNCHANGED described
  /\ UNCHANGED <<mode, fileVars, next, stores>>

\* The worlds and the reactor follow; the port may be taken.
Serve ==
  /\ phase = "populate" /\ stores = described
  /\ phase' \in {"serving", "failed"}
  /\ UNCHANGED <<mode, fileVars, next, stores, described>>

\* Started again by hand.
Restart ==
  /\ phase \in {"failed", "aborted", "killed"}
  /\ phase' = "config" /\ mode' = "unset" /\ next' = 0 /\ stores' = {} /\ described' = {}
  /\ UNCHANGED fileVars

\* The file of the accounts is locked, full or damaged, or is so no longer.
DatabaseChanges ==
  /\ database' = IF database = "works" THEN "fails" ELSE "works"
  /\ UNCHANGED <<phase, mode, configFile, settings, cacheFiles, keys, indexFiles, tables, next, stores, described>>

Start == InitConfig \/ InitDatabase \/ InitCache \/ OpenIndex \/ PopulateIndex \/ Serve

-----------------------------------------------------------------------------
(* Properties *)

\* A server that serves has a store for every index file whose archive the main
\* index has, no other, and the table of each has been read and was good: the
\* loop that opens them skips numbers without a file and goes one too far.
StoresAreComplete ==
  phase = "serving" =>
    /\ stores = indexFiles \cap DOMAIN tables
    /\ described = stores
    /\ \A id \in stores : tables[id] = "good"

\* main serves or ends: no loop of the start runs for ever.
StartEnds == phase = "config" ~> phase \in {"serving", "failed", "aborted"}
=============================================================================
