----------------------------- MODULE Migrations -----------------------------
(***************************************************************************)
(* Migrator.Up called by several instances of a service that start at the  *)
(* same time, perhaps of different versions, and perhaps to be killed in   *)
(* the middle of a migration.  golang-migrate keeps the schema's version   *)
(* and its dirty flag, and serialises the runs; Up interprets its errors.  *)
(***************************************************************************)
EXTENDS Naturals, FiniteSets

CONSTANTS Migrators,
          Deploys,     \* instance -> [source, allowMissing]
          MaxVersion

VARIABLES deploy,
          version, dirty,  \* schema_migrations; version 0 is no row
          applied,     \* migrations that ran to their end
          locked,      \* the holder of golang-migrate's lock
          ipc, raw, outcome   \* an instance: its step, golang-migrate's error, what Up returned

mvars == <<deploy, version, dirty, applied, locked, ipc, raw, outcome>>

NoInstance == "nobody"

(* Every source holds the migrations up to some version, without a gap.    *)
ASSUME MigrationsAssumption ==
    /\ MaxVersion \in Nat /\ NoInstance \notin Migrators
    /\ \A d \in Deploys : d \in [Migrators -> [source : {1 .. n : n \in 0 .. MaxVersion}, allowMissing : BOOLEAN]]

MigrationsTypeOK == version \in 0 .. MaxVersion /\ dirty \in BOOLEAN /\ applied \subseteq 1 .. MaxVersion

(* The database may be new, or left by an earlier deployment.              *)
MigrationsInit ==
    /\ deploy \in Deploys
    /\ version \in 0 .. MaxVersion /\ dirty = FALSE /\ applied = 1 .. version /\ locked = NoInstance
    /\ ipc = [i \in Migrators |-> "start"] /\ raw = [i \in Migrators |-> "none"] /\ outcome = [i \in Migrators |-> "none"]

GoTo(i, l) == ipc' = [ipc EXCEPT ![i] = l]
Raises(i, e) == raw' = [raw EXCEPT ![i] = e] /\ GoTo(i, "classify")

(* Up: a dead context, the TLS policy, the path, or the database itself    *)
(* may end it before golang-migrate is asked.                              *)
Up(i) ==
    /\ ipc[i] = "start"
    /\ \/ GoTo(i, "run") /\ UNCHANGED outcome
       \/ GoTo(i, "done") /\ outcome' = [outcome EXCEPT ![i] = "error"]
    /\ UNCHANGED <<deploy, version, dirty, applied, locked, raw>>

(* golang-migrate: what it finds once it has the lock.                     *)
Source(i) == deploy[i].source
Ahead(i)  == {v \in Source(i) : v > version}

LocksAndReads(i) ==
    /\ ipc[i] = "run" /\ locked = NoInstance
    /\ \/ dirty /\ Raises(i, "dirty") /\ UNCHANGED locked
       \/ ~dirty /\ (IF version = 0 THEN Source(i) = {} ELSE version \notin Source(i)) /\ Raises(i, "notExist") /\ UNCHANGED locked
       \/ ~dirty /\ version \in Source(i) /\ Ahead(i) = {} /\ Raises(i, "noChange") /\ UNCHANGED locked
       \/ /\ ~dirty /\ (version = 0 \/ version \in Source(i)) /\ Ahead(i) # {}
          /\ locked' = i /\ GoTo(i, "migrating") /\ UNCHANGED raw
    /\ UNCHANGED <<deploy, version, dirty, applied, outcome>>

(* The next migration is marked, run, and marked done; the last one, or a  *)
(* failure, gives the lock back.                                           *)
Migrates(i) ==
    /\ ipc[i] = "migrating"
    /\ \/ /\ ~dirty /\ Ahead(i) # {} /\ dirty' = TRUE /\ version' = CHOOSE v \in Ahead(i) : \A w \in Ahead(i) : v <= w
          /\ UNCHANGED <<applied, locked, ipc, raw>>
       \/ dirty /\ dirty' = FALSE /\ applied' = applied \cup {version} /\ UNCHANGED <<version, locked, ipc, raw>>
       \/ dirty /\ locked' = NoInstance /\ Raises(i, "failed") /\ UNCHANGED <<version, dirty, applied>>
       \/ ~dirty /\ Ahead(i) = {} /\ locked' = NoInstance /\ Raises(i, "nil") /\ UNCHANGED <<version, dirty, applied>>
    /\ UNCHANGED <<deploy, outcome>>

(* The process is killed; the lock goes with its connection.               *)
Killed(i) ==
    /\ ipc[i] = "migrating" /\ GoTo(i, "dead") /\ locked' = NoInstance
    /\ UNCHANGED <<deploy, version, dirty, applied, raw, outcome>>

(* An operator undoes what is half done.                                   *)
Repairs ==
    /\ dirty /\ locked = NoInstance /\ dirty' = FALSE /\ version' = version - 1
    /\ UNCHANGED <<deploy, applied, locked, ipc, raw, outcome>>

(* inspectMigrationState, after the lock is gone: the version, if it can   *)
(* be read, and what the source holds.                                     *)
inspectMigrationState(i, readable) == [hasVersion |-> readable /\ version > 0, sourceCount |-> Cardinality(Source(i))]

versionNotInSourceOutcome(s) == s.sourceCount > 0 /\ s.hasVersion

(* A missing file: none was needed, the database is ahead of the source,   *)
(* or it should have been there.                                           *)
missingFile(allowMissing, s) ==
    IF allowMissing THEN "nil" ELSE IF versionNotInSourceOutcome(s) THEN "versionAhead" ELSE "notFound"

(* Mutant: a dirty database is taken for one with nothing to do.           *)
dirtyIsBenign(e, allowMissing, s) ==
    CASE e \in {"nil", "noChange", "dirty"} -> "nil"
      [] e = "notExist" -> missingFile(allowMissing, s)
      [] OTHER          -> "error"

classifyMigrationError(e, allowMissing, s) ==
    CASE e \in {"nil", "noChange"} -> "nil"
      [] e = "notExist" -> missingFile(allowMissing, s)
      [] e = "dirty"    -> "dirty"
      [] OTHER          -> "error"

runMigrations(i) ==
    /\ ipc[i] = "classify" /\ GoTo(i, "done")
    /\ \E readable \in BOOLEAN :
         outcome' = [outcome EXCEPT ![i] = classifyMigrationError(raw[i], deploy[i].allowMissing, inspectMigrationState(i, readable))]
    /\ UNCHANGED <<deploy, version, dirty, applied, locked, raw>>

MigrationsNext ==
    \/ Repairs
    \/ \E i \in Migrators : Up(i) \/ LocksAndReads(i) \/ Migrates(i) \/ Killed(i) \/ runMigrations(i)

MigrationsSpec == MigrationsInit /\ [][MigrationsNext]_mvars

-----------------------------------------------------------------------------
(* However the instances overlap and die: an instance that was not allowed *)
(* to find its migrations missing and whose Up succeeded has every one of  *)
(* its migrations applied, and a reported version ahead is one of a source *)
(* with migrations.                                                        *)
MigrationsSound ==
    /\ MigrationsTypeOK
    /\ \A i \in Migrators :
         /\ outcome[i] = "nil" /\ ~deploy[i].allowMissing => Source(i) \subseteq applied /\ Source(i) # {}
         /\ outcome[i] = "versionAhead" => Source(i) # {}
    /\ \A v \in applied : 1 .. v \subseteq applied
=============================================================================
