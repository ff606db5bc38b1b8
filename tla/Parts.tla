-------------------------------- MODULE Parts --------------------------------
(***************************************************************************)
(* Six parts of the program that are pure, or nearly so, and share no      *)
(* state.  A behaviour belongs to one of them, named by the variable part; *)
(* the variables of the others rest.  So one run checks all six, and its   *)
(* states are those of the six together.                                   *)
(***************************************************************************)
EXTENDS Integers, SequencesExt

CONSTANTS
  Releases, Majors,                          \* ServerVersion
  Shapes, Numbers, Strings, Gaps, Parameter, \* Normalization
  Objects, Unseen, QuotedParts, Lists, Pools, NoName, MaxChanges, \* ListedObjects
  Databases, Authority, NoFile, System, Installed,    \* Connection
  Statements, Times, CountArgs, TimeArgs, OtherRows,  \* QueryParameters
  DefaultQueryMonitoringCountThreshold, MaxQueryCountThreshold,
  DefaultQueryResponseTimeThreshold, MaxIndividualQueryCountThreshold,
  PublishThreshold,
  DatabasesWithLocks, ListedDatabases, Sessions,      \* LockMetrics
  Modes, OtherModes, Places, MaxLocks

VARIABLES
  part,
  v_server, v_plain, v_text, v_version, v_state,
  n_first, n_live, n_semicolon,
  o_list, o_catalog, o_lasting, o_jobs, o_samples, o_failed, o_changes,
  c_args, c_server, c_pc, c_conns,
  q_countArg, q_timeArg, q_isRds, q_server, q_cp, q_pc, q_slow, q_individual,
  q_calls,
  l_pg_locks, l_pc, l_metrics

Version == INSTANCE ServerVersion WITH
  server <- v_server, plain <- v_plain, text <- v_text,
  version <- v_version, state <- v_state

Text == INSTANCE Normalization WITH
  first <- n_first, live <- n_live, semicolon <- n_semicolon

Obj == INSTANCE ListedObjects WITH
  list <- o_list, catalog <- o_catalog, lasting <- o_lasting, jobs <- o_jobs,
  samples <- o_samples, failed <- o_failed, changes <- o_changes

Conn == INSTANCE Connection WITH
  args <- c_args, server <- c_server, pc <- c_pc, conns <- c_conns

Parameters == INSTANCE QueryParameters WITH
  countArg <- q_countArg, timeArg <- q_timeArg, isRds <- q_isRds,
  server <- q_server, cp <- q_cp, pc <- q_pc, slow <- q_slow,
  individual <- q_individual, calls <- q_calls

Locks == INSTANCE LockMetrics WITH
  Databases <- DatabasesWithLocks, Listed <- ListedDatabases,
  pg_locks <- l_pg_locks, pc <- l_pc, metrics <- l_metrics

ASSUME PartsAssumption ==
  /\ Version!VersionAssumption /\ Text!NormalizationAssumption
  /\ Obj!ListedAssumption /\ Conn!ConnectionAssumption
  /\ Parameters!ParametersAssumption /\ Locks!LockAssumption

-----------------------------------------------------------------------------
(* What a part does while the others rest *)

versionVars == <<v_server, v_plain, v_text, v_version, v_state>>
textVars == <<n_first, n_live, n_semicolon>>
objectsVars == <<o_list, o_catalog, o_lasting, o_jobs, o_samples, o_failed,
                 o_changes>>
connectionVars == <<c_args, c_server, c_pc, c_conns>>
parametersVars == <<q_countArg, q_timeArg, q_isRds, q_server, q_cp, q_pc, q_slow,
                    q_individual, q_calls>>
locksVars == <<l_pg_locks, l_pc, l_metrics>>

Rest == <<>>

versionRest ==
  /\ v_server = Rest /\ v_plain = Rest /\ v_text = Rest
  /\ v_version = Rest /\ v_state = Rest

textRest ==
  /\ n_first = Rest /\ n_live = Rest /\ n_semicolon = Rest

objectsRest ==
  /\ o_list = Rest /\ o_catalog = Rest /\ o_lasting = Rest
  /\ o_jobs = Rest /\ o_samples = Rest /\ o_failed = Rest
  /\ o_changes = Rest

connectionRest ==
  /\ c_args = Rest /\ c_server = Rest /\ c_pc = Rest
  /\ c_conns = Rest

parametersRest ==
  /\ q_countArg = Rest /\ q_timeArg = Rest /\ q_isRds = Rest
  /\ q_server = Rest /\ q_cp = Rest /\ q_pc = Rest
  /\ q_slow = Rest /\ q_individual = Rest /\ q_calls = Rest

locksRest ==
  /\ l_pg_locks = Rest /\ l_pc = Rest /\ l_metrics = Rest

Init ==
  \/ /\ part = "version" /\ Version!Init
     /\ textRest /\ objectsRest /\ connectionRest
     /\ parametersRest /\ locksRest
  \/ /\ part = "text" /\ Text!Init
     /\ versionRest /\ objectsRest /\ connectionRest
     /\ parametersRest /\ locksRest
  \/ /\ part = "objects" /\ Obj!Init
     /\ versionRest /\ textRest /\ connectionRest
     /\ parametersRest /\ locksRest
  \/ /\ part = "connection" /\ Conn!Init
     /\ versionRest /\ textRest /\ objectsRest
     /\ parametersRest /\ locksRest
  \/ /\ part = "parameters" /\ Parameters!Init
     /\ versionRest /\ textRest /\ objectsRest
     /\ connectionRest /\ locksRest
  \/ /\ part = "locks" /\ Locks!Init
     /\ versionRest /\ textRest /\ objectsRest
     /\ connectionRest /\ parametersRest

VersionStep ==
  /\ part = "version" /\ Version!Next
  /\ UNCHANGED <<part, textVars, objectsVars, connectionVars,
                 parametersVars, locksVars>>

TextStep ==
  /\ part = "text" /\ Text!Next
  /\ UNCHANGED <<part, versionVars, objectsVars, connectionVars,
                 parametersVars, locksVars>>

ObjectsStep ==
  /\ part = "objects" /\ Obj!Next
  /\ UNCHANGED <<part, versionVars, textVars, connectionVars,
                 parametersVars, locksVars>>

ConnectionStep ==
  /\ part = "connection" /\ Conn!Next
  /\ UNCHANGED <<part, versionVars, textVars, objectsVars,
                 parametersVars, locksVars>>

ParametersStep ==
  /\ part = "parameters" /\ Parameters!Next
  /\ UNCHANGED <<part, versionVars, textVars, objectsVars,
                 connectionVars, locksVars>>

LocksStep ==
  /\ part = "locks" /\ Locks!Next
  /\ UNCHANGED <<part, versionVars, textVars, objectsVars,
                 connectionVars, parametersVars>>

Next ==
  \/ VersionStep \/ TextStep \/ ObjectsStep
  \/ ConnectionStep \/ ParametersStep \/ LocksStep

vars == <<part, versionVars, textVars, objectsVars,
          connectionVars, parametersVars, locksVars>>

Spec == Init /\ [][Next]_vars

-----------------------------------------------------------------------------
(* The properties of the parts, which their modules state *)

\* Type correctness of the part that acts.
TypeOK ==
  /\ part = "version" => Version!TypeOK
  /\ part = "text" => Text!TypeOK
  /\ part = "objects" => Obj!TypeOK
  /\ part = "connection" => Conn!TypeOK
  /\ part = "parameters" => Parameters!TypeOK
  /\ part = "locks" => Locks!TypeOK

\* metrics.go:226-248: a version is read that is good enough for every choice
\* of queries, or none.
VersionIsUnderstood == part = "version" => Version!VersionIsUnderstood

\* common_helpers.go:28-65: a text that is anonymized has no literal left, the
\* executions of one statement correlate, and statements with one normal form
\* are nearly the same.
TextsAreSound == part = "text" => Text!TextsAreSound

\* metrics.go:313-536: every listed object that lasts and is in the relations the
\* queries read is reported, unless a query of its database failed, under an
\* entity of its own, and nothing that is not listed, but for dots in names.
ListIsReported == part = "objects" => Obj!ListIsReported

\* pgsql_connection.go:140-197: every connection of the run is encrypted and
\* verified as the arguments say, and an extension is found where it is.
ConnectedAsAsked == part = "connection" => Conn!ConnectedAsAsked

\* common_parameters.go:40-59: the slowest executions over the threshold are
\* reported, and no list fills a batch.
ThresholdsAreKept == part = "parameters" => Parameters!ThresholdsAreKept

\* lock_definitions.go:19-53: a lock count is never too high, 0 only for a mode
\* nobody holds, and exact when the locks are in one place.
CountsAreSound == part = "locks" => Locks!CountsAreSound
=============================================================================
