-------------------------- MODULE TunnelFiles_proofs --------------------------
(***************************************************************************)
(* Proofs about TunnelFiles, for any number of tunnels, of operations and  *)
(* of menus cut off, if no two menus are at work at the same time.         *)
(***************************************************************************)
EXTENDS TunnelFiles, WellFoundedInduction, TLAPS

\* No two menus are at work at the same time; the timer runs beside them.
Alone == \A m, n \in Menus : job[m].op # "idle" /\ job[n].op # "idle" => m = n

-------------------------------------------------------------------------------
(* The invariant: what an operation has achieved before each of its steps. *)

\* The steps of each operation.
Steps(op) ==
  CASE op = "idle" -> {"end"}
    [] op = "edit" -> {"truncate", "write", "restart"}
    [] op = "wizard" -> {"truncate", "write", "unit", "reload", "enable"}
    [] op = "delete" -> {"disable", "rmunit", "reload", "rmconfig", "rmmetrics"}
    [] op = "restart" -> {"restart"}
    [] op = "backup" -> {"copy"}
    [] op = "restore" -> {"extract", "truncate", "write", "install", "unit", "reload", "enable"}
    [] op = "uninstall" -> {"next", "disable", "rmunit", "reload", "rmbinary"}
    [] op = "update" -> {"download", "downloading", "rename", "stat", "restart"}
    [] op = "migrate" -> {"truncate", "write", "retire", "rmlegacy", "unit", "reload", "enable",
                          "forget"}
    [] op = "orphan" -> {"retire", "rmlegacy"}
    [] op = "retune" -> {"scan", "truncate", "write"}

Saves == {"truncate", "write"}
Installs == {"unit", "reload", "enable"}

\* An operation has the tunnel, the data and the copies that its next steps need.
Ready(j) ==
  /\ j.at \in Steps(j.op)
  /\ j.op \in {"edit", "wizard", "delete", "migrate"}
       \/ j.at \in Saves \cup {"disable", "rmunit", "unit", "enable"}
       \/ (j.op = "restore" /\ j.at = "reload") => j.t \in Tunnels
  /\ j.op \in {"backup", "restore"} <=> j.copy # None
  /\ j.at \in Saves =>
       /\ j.op \in {"edit", "wizard"} => j.data = "changed"
       /\ j.op = "retune" => j.data = "own"
       /\ j.op = "migrate" => j.data = "legacy"
       /\ j.op = "restore" => j.data = j.copy[j.t] /\ j.data # None

\* Nothing runs, or can be started, under the name, but for the exceptions of NoTwin.
Quiet(t) == unit[t] = "none" /\ (service[t].st = "down" \/ t \in seen.astray)
\* The file is not a copy of the flat install, but for those exceptions.
Tame(t) == config[t] # "legacy" \/ t \in seen.astray

Deleting(j) ==
  j.op = "delete" =>
    /\ j.at # "disable" => j.t \in seen.leaving \cup seen.astray
    /\ j.at = "reload" => unit[j.t] # "file"
    /\ j.at \in {"rmconfig", "rmmetrics"} => unit[j.t] = "none"
    /\ j.at = "rmmetrics" => config[j.t] = None

Migrating(j) ==
  j.op = "migrate" =>
    /\ j.at \in Saves \cup {"retire"} => Quiet(j.t)
    /\ j.at \in Saves => legacy.config # None
    /\ j.at \notin Saves => config[j.t] = "legacy"
    /\ j.at \notin Saves \cup {"retire"} => ~legacy.up

\* What a restore has extracted, and is about to install.
Restoring(j) ==
  j.op = "restore" =>
    /\ \A t \in j.todo : j.copy[t] # None
    /\ \A t \in Tunnels :
         j.copy[t] # None /\ ~(j.at \in Saves /\ t = j.t)
           /\ (j.at \in {"extract"} \cup Saves => t \notin j.todo) => Tame(t)
    /\ j.at \notin {"extract"} \cup Saves =>
         \A t \in j.todo \cup (IF j.at \in Installs THEN {j.t} ELSE {}) :
           j.copy[t] # None /\ config[t] # None

Updating(j) ==
  /\ j.at = "rename" => tmp = Latest
  /\ j.op \in {"migrate", "orphan", "retune"} \/ (j.op = "update" /\ j.at \in {"stat", "restart"})
       => binary # "old"

Task(j) ==
  /\ Ready(j) /\ Deleting(j) /\ Migrating(j) /\ Restoring(j) /\ Updating(j)
  /\ j.op = "wizard" /\ j.at \in Installs => config[j.t] = "changed"

Tasks ==
  /\ \A m \in Menus : Task(job[m])
  /\ job[Timer].op \in {"idle", "restart"} /\ Ready(job[Timer])

\* A name without a configuration is free, for the migration to take.
Free == legacy.config # None => \A t \in Tunnels : config[t] = None => Quiet(t)
\* While the flat install runs, nothing would start with its configuration.
Twin == legacy.up => \A t \in Tunnels \ seen.astray : config[t] = "legacy" => Quiet(t)
Stopped == \A t \in seen.leaving : service[t].st = "down"
Kept == seen.discarded \/ legacy.config # None \/ \E t \in Tunnels : config[t] = "legacy"
Replaced == seen.reported # {} => binary # "old"

Files == Free /\ Twin /\ NoTwin /\ Stopped /\ GoneLeavesNothing /\ Kept
Runs == Replaced /\ RestartApplies

IInv == TypeOK /\ Tasks /\ Files /\ Runs

-------------------------------------------------------------------------------
(* Operators.                                                              *)

LEMMA MinIn == ASSUME NEW S \in SUBSET Tunnels, S # {} PROVE Min(S) \in S
<1>1. Tunnels \subseteq Nat
  BY CountAssumption DEF Tunnels
<1>2. S \subseteq Nat
  BY <1>1
<1>3. PICK x \in S : \A y \in S : ~(<<y, x>> \in OpToRel(<, Nat))
  BY <1>2, NatLessThanWellFounded, WFMin
<1>4. \A y \in S : x <= y
  <2> SUFFICES ASSUME NEW y \in S, ~(x <= y) PROVE FALSE
    OBVIOUS
  <2>1. y < x /\ y \in Nat /\ x \in Nat
    BY <1>2
  <2>2. <<y, x>> \in OpToRel(<, Nat)
    BY <2>1, Zenon DEF OpToRel
  <2>3. QED
    BY <1>3, <2>2
<1>5. QED
  BY <1>4 DEF Min

Ats == {"end", "truncate", "write", "unit", "reload", "enable", "disable", "rmunit",
        "rmconfig", "rmmetrics", "next", "rmbinary", "restart", "copy", "extract", "install",
        "download", "downloading", "rename", "stat", "retire", "rmlegacy", "forget", "scan"}

LEMMA IdleJob == Idle \in Jobs
BY CountAssumption DEF Idle, Jobs

LEMMA GoStep ==
  ASSUME job \in [Procs -> Jobs], NEW p \in Procs, NEW at \in Ats, Go(p, at)
  PROVE  /\ job' \in [Procs -> Jobs]
         /\ \A q \in Procs : q # p => job'[q] = job[q]
         /\ at = "end" => job'[p] = Idle
         /\ at # "end" => /\ job'[p].op = job[p].op /\ job'[p].at = at /\ job'[p].t = job[p].t
                          /\ job'[p].data = job[p].data /\ job'[p].todo = job[p].todo
                          /\ job'[p].copy = job[p].copy
<1>1. job[p] \in Jobs /\ [job[p] EXCEPT !.at = at] \in Jobs
  BY DEF Jobs, Ats
<1>2. QED
  BY <1>1, IdleJob DEF Go, Jobs

-------------------------------------------------------------------------------
(* The types.                                                              *)

LEMMA SeenStarted ==
  ASSUME TypeOK, NEW t \in Tunnels, NEW op
  PROVE  Started(t) \in Seens /\ Restarted(t, op) \in Seens
BY DEF TypeOK, Started, Restarted, Seens

LEMMA DownIs ==
  /\ Down = [st |-> "down", cfg |-> None, build |-> "none"] /\ Down \in Services
  /\ In("starting") = [st |-> "starting", cfg |-> None, build |-> "none"]
  /\ In("starting") \in Services /\ In("starting").st = "starting"
  /\ In("failing") = [st |-> "failing", cfg |-> None, build |-> "none"]
  /\ In("failing") \in Services
BY DEF Down, In, Services

\* One service changes.
LEMMA ServiceType ==
  ASSUME TypeOK, NEW t \in Tunnels, NEW r \in Services, r.st = "up" <=> r.cfg # None,
         service' = [service EXCEPT ![t] = r]
  PROVE  /\ service' \in [Tunnels -> Services]
         /\ \A u \in Tunnels : service'[u].st = "up" <=> service'[u].cfg # None
BY DEF TypeOK

LEMMA StartType ==
  ASSUME TypeOK, NEW t \in Tunnels, NEW works, NEW op, Restart(t, works, op) \/ StartUnit(t, works)
  PROVE  /\ service' \in [Tunnels -> Services] /\ seen' \in Seens /\ metrics' \subseteq Tunnels
         /\ \A u \in Tunnels : service'[u].st = "up" <=> service'[u].cfg # None
<1>1. CASE UNCHANGED service
  BY <1>1, SeenStarted DEF TypeOK, Restart, StartUnit
<1>2. CASE service' = [service EXCEPT ![t] = In("starting")]
  <2>1. In("starting") \in Services /\ In("starting").st # "up" /\ In("starting").cfg = None
    BY DownIs
  <2>2. /\ service' \in [Tunnels -> Services]
        /\ \A u \in Tunnels : service'[u].st = "up" <=> service'[u].cfg # None
    BY <1>2, <2>1, ServiceType
  <2>3. seen' \in Seens /\ metrics' \subseteq Tunnels
    BY SeenStarted DEF TypeOK, Restart, StartUnit
  <2>4. QED
    BY <2>2, <2>3
<1>3. QED
  BY <1>1, <1>2 DEF Restart, StartUnit

LEMMA StopType ==
  ASSUME TypeOK, NEW t \in Tunnels, Stop(t)
  PROVE  /\ service' \in [Tunnels -> Services] /\ metrics' \subseteq Tunnels
         /\ \A u \in Tunnels : service'[u].st = "up" <=> service'[u].cfg # None
<1>1. Down \in Services /\ Down.st # "up" /\ Down.cfg = None
  BY DownIs
<1>2. QED
  BY <1>1, ServiceType DEF TypeOK, Stop

LEMMA NewJob ==
  ASSUME job \in [Procs -> Jobs], NEW p \in Procs, NEW r \in Jobs, job' = [job EXCEPT ![p] = r]
  PROVE  job' \in [Procs -> Jobs] /\ job'[p] = r /\ \A q \in Procs : q # p => job'[q] = job[q]
OBVIOUS

\* Every operation under way has what its next step needs.
LEMMA AllReady == ASSUME TypeOK, Tasks, NEW p \in Procs PROVE job[p] \in Jobs /\ Ready(job[p])
BY DEF TypeOK, Tasks, Task, Procs

LEMMA SavingType ==
  ASSUME TypeOK, NEW p \in Procs, job[p].t \in Tunnels PROVE Saving(p) \in Seens
<1> DEFINE t == job[p].t
<1>1. Started(t) \in Seens
  BY SeenStarted
<1>2. seen \in Seens /\ seen.discarded \in BOOLEAN /\ t \in Tunnels
  BY DEF TypeOK, Seens
<1> HIDE DEF t
<1>3. QED
  BY <1>1, <1>2 DEF Saving, Seens, t

LEMMA TypeSave ==
  ASSUME TypeOK, Tasks, NEW p \in Procs, Truncate(p) \/ Write(p) PROVE TypeOK'
<1>0. job[p] \in Jobs /\ job[p].at \in Saves /\ Ready(job[p])
  BY AllReady DEF Saves, Truncate, Write
<1>1. job[p] \in Jobs /\ job[p].t \in Tunnels /\ job[p].data \in Stored
  <2>1. job[p].t \in Tunnels
    BY <1>0 DEF Ready
  <2>2. job[p].op \in {"edit", "wizard", "retune", "migrate", "restore"}
    BY <1>0 DEF Ready, Steps, Saves, Jobs
  <2>3. job[p].data # None
    BY <1>0, <2>2, NoneAssumption DEF Ready
  <2>4. QED
    BY <1>0, <2>1, <2>3 DEF Jobs
<1>2. seen' \in Seens
  BY <1>1, SavingType DEF Truncate, Write, TypeOK
<1>3. config' \in Archives
  <2>1. "torn" \in Stored
    BY DEF Stored
  <2>2. QED
    BY <1>1, <2>1 DEF Truncate, Write, TypeOK, Archives
<1>4. job' \in [Procs -> Jobs]
  <2>1. CASE \E at \in Ats : Go(p, at)
    BY <2>1, GoStep DEF TypeOK
  <2>2. ASSUME Truncate(p), ~\E at \in Ats : Go(p, at) PROVE job' \in [Procs -> Jobs]
    <3> DEFINE r == [job[p] EXCEPT !.op = "retune", !.at = "scan",
                       !.todo = IF job[p].op = "migrate" THEN listTunnels ELSE job[p].todo]
    <3>1. r \in Jobs
      BY <1>1 DEF Jobs, listTunnels
    <3>2. job' = [job EXCEPT ![p] = Idle] \/ job' = [job EXCEPT ![p] = r]
      BY <2>2 DEF Truncate, Ats
    <3> HIDE DEF r
    <3>3. QED
      BY <3>1, <3>2, NewJob, IdleJob DEF TypeOK
  <2>3. ASSUME Write(p) PROVE \E at \in Ats : Go(p, at)
    <3>1. job[p].op \in {"edit", "wizard", "retune", "migrate", "restore"}
      BY <1>0 DEF Ready, Steps, Saves, Jobs
    <3>2. AfterSave(job[p].op) \subseteq Ats
      BY <3>1 DEF AfterSave, Ats
    <3>3. QED
      BY <2>3, <3>2 DEF Write
  <2>4. QED
    BY <2>1, <2>2, <2>3
<1>5. QED
  BY <1>2, <1>3, <1>4 DEF TypeOK, Truncate, Write, fixed

LEMMA TypeInstall ==
  ASSUME TypeOK, Tasks, NEW p \in Procs,
         WriteUnit(p) \/ Reload(p) \/ Enable(p) \/ Disable(p) \/ RemoveUnit(p)
  PROVE  TypeOK'
<1>1. job[p] \in Jobs /\ (~Reload(p) => job[p].t \in Tunnels)
  BY AllReady DEF Ready, Saves, WriteUnit, Reload, Enable, Disable, RemoveUnit
<1>2. job' \in [Procs -> Jobs]
  <2>1. Enable(p) => job[p].op \in {"wizard", "migrate", "restore"}
    BY AllReady DEF Ready, Steps, Jobs, Enable
  <2>2. \E at \in Ats : Go(p, at)
    BY <2>1 DEF WriteUnit, Reload, Enable, Disable, RemoveUnit, AfterReload, AfterEnable, Ats
  <2>3. QED
    BY <2>2, GoStep DEF TypeOK
<1>3. unit' \in [Tunnels -> {"none", "file", "loaded"}]
  BY <1>1 DEF TypeOK, WriteUnit, Reload, Enable, Disable, RemoveUnit
<1>4. /\ service' \in [Tunnels -> Services] /\ metrics' \subseteq Tunnels
      /\ \A t \in Tunnels : service'[t].st = "up" <=> service'[t].cfg # None
  <2>1. CASE UNCHANGED <<service, metrics>>
    BY <2>1 DEF TypeOK
  <2>2. CASE Disable(p)
    BY <2>2, <1>1, StopType DEF Disable, WriteUnit, Reload, Enable
  <2>3. CASE Enable(p) /\ ~UNCHANGED service
    <3>1. job[p].t \in Tunnels /\ service' = [service EXCEPT ![job[p].t] = In("starting")]
      BY <2>3, <1>1 DEF Enable, Reload
    <3>2. QED
      BY <3>1, <2>3, DownIs, ServiceType DEF TypeOK, Enable
  <2>4. QED
    BY <2>1, <2>2, <2>3 DEF WriteUnit, Reload, RemoveUnit, Enable
<1>5. seen' \in Seens
  <2>1. CASE WriteUnit(p) \/ Enable(p)
    BY <2>1, <1>1, SeenStarted DEF TypeOK, WriteUnit, Enable, Reload
  <2>2. CASE Reload(p) \/ RemoveUnit(p)
    BY <2>2 DEF TypeOK, Reload, RemoveUnit
  <2>3. CASE Disable(p)
    BY <2>3, <1>1 DEF TypeOK, Disable, Reload, Seens
  <2>4. QED
    BY <2>1, <2>2, <2>3
<1>6. QED
  BY <1>2, <1>3, <1>4, <1>5 DEF TypeOK, WriteUnit, Reload, Enable, Disable, RemoveUnit, fixed

LEMMA TypeRemove ==
  ASSUME TypeOK, Tasks, NEW p \in Procs, RemoveConfig(p) \/ RemoveMetrics(p) \/ RemoveBinary(p)
  PROVE  TypeOK'
<1>1. job[p] \in Jobs /\ (~RemoveBinary(p) => job[p].t \in Tunnels)
  <2>1. job[p] \in Jobs /\ Ready(job[p])
    BY AllReady
  <2>2. job[p].at \in {"rmconfig", "rmmetrics"} => job[p].op = "delete"
    BY <2>1 DEF Ready, Steps, Jobs
  <2>3. QED
    BY <2>1, <2>2 DEF Ready, RemoveConfig, RemoveMetrics, RemoveBinary
<1>2. job' \in [Procs -> Jobs]
  BY GoStep DEF TypeOK, RemoveConfig, RemoveMetrics, RemoveBinary, Ats
<1>3. config' \in Archives /\ metrics' \subseteq Tunnels
  BY <1>1 DEF TypeOK, Archives, RemoveConfig, RemoveMetrics, RemoveBinary
<1>4. legacy' \in [unit : BOOLEAN, config : {None, "legacy"}, up : BOOLEAN]
  BY DEF TypeOK, RemoveConfig, RemoveMetrics, RemoveBinary
<1>5. seen' \in Seens
  <2>1. seen \in Seens /\ (~RemoveBinary(p) => job[p].t \in Tunnels)
    BY <1>1 DEF TypeOK
  <2>2. CASE RemoveConfig(p)
    BY <2>1, <2>2 DEF Seens, RemoveConfig, RemoveBinary
  <2>3. CASE RemoveMetrics(p)
    BY <2>1, <2>3 DEF Seens, RemoveMetrics, RemoveBinary
  <2>4. CASE RemoveBinary(p)
    BY <2>1, <2>4 DEF Seens, RemoveBinary
  <2>5. QED
    BY <2>2, <2>3, <2>4
<1>6. binary' \in Builds /\ archive' \in {None} \cup Archives
  BY DEF TypeOK, Builds, RemoveConfig, RemoveMetrics, RemoveBinary
<1>7. QED
  BY <1>2, <1>3, <1>4, <1>5, <1>6 DEF TypeOK, RemoveConfig, RemoveMetrics, RemoveBinary, fixed

\* Steps that only choose what to do next.
LEMMA TypeChoice ==
  ASSUME TypeOK, Tasks, NEW p \in Procs,
         \/ UninstallNext(p) \/ RestartDone(p) \/ Extract(p) \/ InstallNext(p)
         \/ Migrate(p) \/ Retune(p)
  PROVE  TypeOK'
<1>1. job[p] \in Jobs /\ job[p].todo \in SUBSET Tunnels /\ Tunnels \subseteq 0..N
  BY AllReady DEF Jobs, Tunnels
<1>2. job[p].todo # {} => Min(job[p].todo) \in job[p].todo
  BY <1>1, MinIn
<1>3. Tunnels \ listTunnels # {} => Min(Tunnels \ listTunnels) \in Tunnels \ listTunnels
  BY MinIn
<1>4. listTunnels \subseteq Tunnels
  BY DEF listTunnels
<1>5. job' \in [Procs -> Jobs]
  <2>1. CASE \E at \in Ats : Go(p, at)
    BY <2>1, GoStep DEF TypeOK
  <2>2. ASSUME NEW r \in Jobs, job' = [job EXCEPT ![p] = r] PROVE job' \in [Procs -> Jobs]
    BY <2>2, NewJob DEF TypeOK
  <2>3. CASE RestartDone(p)
    BY <2>1, <2>3 DEF RestartDone, Ats
  <2>4. CASE UninstallNext(p)
    <3> DEFINE todo == job[p].todo
               r == IF todo = {} THEN [job[p] EXCEPT !.at = "reload"]
                    ELSE [job[p] EXCEPT !.at = "disable", !.t = Min(todo),
                                        !.todo = todo \ {Min(todo)}]
    <3>1. r \in Jobs
      BY <1>1, <1>2 DEF Jobs
    <3>2. job' = [job EXCEPT ![p] = r]
      BY <2>4 DEF UninstallNext
    <3> HIDE DEF r
    <3>3. QED
      BY <3>1, <3>2, <2>2
  <2>5. CASE Extract(p)
    <3> DEFINE todo == job[p].todo
               copy == job[p].copy
               r == IF todo = {}
                    THEN [job[p] EXCEPT !.at = "install",
                                        !.todo = {t \in listTunnels : copy[t] # None}]
                    ELSE [job[p] EXCEPT !.at = "truncate", !.t = Min(todo),
                                        !.data = copy[Min(todo)], !.todo = todo \ {Min(todo)}]
    <3>1. job[p].op = "restore" /\ copy \in Archives
      <4>1. Ready(job[p]) /\ job[p].at = "extract"
        BY AllReady, <2>5 DEF Extract
      <4>2. job[p].op = "restore"
        BY <4>1, <1>1 DEF Ready, Steps, Jobs
      <4>3. QED
        BY <4>1, <4>2, <1>1 DEF Ready, Jobs
    <3>2. todo # {} => copy[Min(todo)] \in Stored \cup {None}
      BY <3>1, <1>1, <1>2 DEF Archives
    <3>3. {t \in listTunnels : copy[t] # None} \in SUBSET Tunnels
      BY <1>4
    <3>4. r \in Jobs
      BY <1>1, <1>2, <3>2, <3>3 DEF Jobs
    <3>5. job' = [job EXCEPT ![p] = r]
      BY <2>5 DEF Extract
    <3> HIDE DEF r
    <3>6. QED
      BY <3>4, <3>5, <2>2
  <2>6. CASE InstallNext(p)
    <3> DEFINE todo == job[p].todo
               r == [job[p] EXCEPT !.todo = todo \ {Min(todo)}]
               s == [job[p] EXCEPT !.at = "unit", !.t = Min(todo), !.todo = todo \ {Min(todo)}]
    <3>1. r \in Jobs /\ (todo # {} => s \in Jobs)
      BY <1>1, <1>2 DEF Jobs
    <3>2. \/ Go(p, "end") \/ job' = [job EXCEPT ![p] = r]
          \/ todo # {} /\ job' = [job EXCEPT ![p] = s]
      BY <2>6, <1>1 DEF InstallNext, TypeOK
    <3> HIDE DEF r, s
    <3>3. QED
      BY <3>1, <3>2, <2>1, <2>2 DEF Ats
  <2>7. CASE Migrate(p)
    <3> DEFINE free == Tunnels \ listTunnels
               r == [job[p] EXCEPT !.op = "retune", !.at = "scan", !.todo = listTunnels]
               o == [job[p] EXCEPT !.op = "orphan", !.at = "retire"]
               s == [job[p] EXCEPT !.op = "migrate", !.at = "truncate", !.t = Min(free),
                                   !.data = legacy.config]
    <3>1. legacy.config # None => legacy.config \in Stored
      BY DEF TypeOK, Stored, Contents
    <3>2. r \in Jobs /\ o \in Jobs /\ (free # {} /\ legacy.config # None => s \in Jobs)
      BY <1>1, <1>3, <1>4, <3>1 DEF Jobs
    <3>3. \/ job' = [job EXCEPT ![p] = r] \/ job' = [job EXCEPT ![p] = o]
          \/ free # {} /\ legacy.config # None /\ job' = [job EXCEPT ![p] = s]
      BY <2>7 DEF Migrate, Scan
    <3> HIDE DEF r, o, s, free
    <3>4. QED
      BY <3>2, <3>3, <2>2
  <2>8. CASE Retune(p)
    <3> DEFINE todo == job[p].todo
               r == IF todo = {}
                    THEN [job[p] EXCEPT !.op = "update", !.at = "restart", !.todo = listTunnels]
                    ELSE IF config[Min(todo)] = "stale"
                    THEN [job[p] EXCEPT !.at = "truncate", !.t = Min(todo), !.data = "own",
                                        !.todo = todo \ {Min(todo)}]
                    ELSE [job[p] EXCEPT !.todo = todo \ {Min(todo)}]
    <3>1. r \in Jobs
      BY <1>1, <1>2, <1>4 DEF Jobs, Stored, Contents
    <3>2. job' = [job EXCEPT ![p] = r]
      BY <2>8 DEF Retune
    <3> HIDE DEF r
    <3>3. QED
      BY <3>1, <3>2, <2>2
  <2>9. QED
    BY <2>3, <2>4, <2>5, <2>6, <2>7, <2>8
<1>6. UNCHANGED <<config, unit, metrics, service, legacy, legacyOk, binary, tmp, archive, build,
                  seen>>
  BY DEF UninstallNext, RestartDone, Extract, InstallNext, Migrate, Retune, fixed
<1>7. QED
  BY <1>5, <1>6 DEF TypeOK

LEMMA TypeRestart ==
  ASSUME TypeOK, Tasks, NEW p \in Procs, RestartNext(p) \/ Copy(p) PROVE TypeOK'
<1>1. /\ job[p] \in Jobs /\ job[p].todo \in SUBSET Tunnels
      /\ job[p].todo # {} => Min(job[p].todo) \in Tunnels
  BY AllReady, MinIn DEF Jobs
<1>2. CASE RestartNext(p)
  <2>1. [job[p] EXCEPT !.todo = job[p].todo \ {Min(job[p].todo)}] \in Jobs
    BY <1>1 DEF Jobs
  <2>2. job' \in [Procs -> Jobs]
    BY <1>2, <2>1, NewJob DEF RestartNext, TypeOK
  <2>3. /\ service' \in [Tunnels -> Services] /\ seen' \in Seens /\ metrics' \subseteq Tunnels
        /\ \A u \in Tunnels : service'[u].st = "up" <=> service'[u].cfg # None
    BY <1>1, <1>2, StartType DEF RestartNext
  <2>4. QED
    BY <1>2, <2>2, <2>3 DEF RestartNext, TypeOK, fixed
<1>3. CASE Copy(p)
  <2> DEFINE todo == job[p].todo
  <2>1. job[p].copy \in Archives
    <3>1. Ready(job[p]) /\ job[p].at = "copy"
      BY <1>3, AllReady DEF Copy
    <3>2. job[p].op = "backup"
      BY <3>1, <1>1 DEF Ready, Steps, Jobs
    <3>3. QED
      BY <3>1, <3>2, <1>1 DEF Ready, Jobs
  <2>2. CASE todo = {}
    <3>1. job' \in [Procs -> Jobs]
      BY <1>3, <2>2, GoStep DEF Copy, TypeOK, Ats
    <3>2. QED
      BY <1>3, <2>1, <2>2, <3>1 DEF Copy, TypeOK, fixed
  <2>3. CASE todo # {}
    <3> DEFINE r == [job[p] EXCEPT !.todo = todo \ {Min(todo)},
                                   !.copy[Min(todo)] = config[Min(todo)]]
    <3>1. [job[p].copy EXCEPT ![Min(todo)] = config[Min(todo)]] \in Archives
      BY <1>1, <2>1, <2>3 DEF Archives, TypeOK
    <3>2. r \in Jobs
      BY <1>1, <2>3, <3>1 DEF Jobs
    <3>3. job' = [job EXCEPT ![p] = r]
      <4>1. job' = [job EXCEPT ![p].todo = todo \ {Min(todo)},
                               ![p].copy[Min(todo)] = config[Min(todo)]]
        BY <1>3, <2>3 DEF Copy
      <4>2. QED
        BY <4>1, <1>1 DEF TypeOK, Jobs
    <3> HIDE DEF r
    <3>4. job' \in [Procs -> Jobs]
      BY <3>2, <3>3, NewJob DEF TypeOK
    <3>5. QED
      BY <1>3, <2>3, <3>4 DEF Copy, TypeOK, fixed
  <2>4. QED
    BY <2>2, <2>3
<1>4. QED
  BY <1>2, <1>3

LEMMA TypeUpdate ==
  ASSUME TypeOK, Tasks, NEW p \in Procs, Download(p) \/ Rename(p) \/ Retire(p) \/ Forget(p)
  PROVE  TypeOK'
<1>1. job[p] \in Jobs /\ listTunnels \subseteq Tunnels
  BY AllReady DEF listTunnels
<1>2. Scan(p) => job' \in [Procs -> Jobs]
  <2>1. [job[p] EXCEPT !.op = "retune", !.at = "scan", !.todo = listTunnels] \in Jobs
    BY <1>1 DEF Jobs
  <2>2. QED
    BY <2>1, NewJob DEF Scan, TypeOK
<1>3. (\E at \in Ats : Go(p, at)) => job' \in [Procs -> Jobs]
  BY GoStep DEF TypeOK
<1>4. job' \in [Procs -> Jobs]
  BY <1>2, <1>3 DEF Download, Rename, Retire, Forget, Ats
<1>5. legacy' \in [unit : BOOLEAN, config : {None, "legacy"}, up : BOOLEAN]
  BY DEF TypeOK, Download, Rename, Retire, Forget
<1>6. tmp' \in {None, "torn", Latest} /\ binary' \in Builds
  BY DEF TypeOK, Builds, Download, Rename, Retire, Forget
<1>7. QED
  BY <1>4, <1>5, <1>6 DEF TypeOK, Download, Rename, Retire, Forget, fixed

\* A menu or the timer begins an operation, or a menu is cut off.
LEMMA BeginType ==
  ASSUME TypeOK, NEW m \in Menus, NEW j \in Jobs, Begin(m, j) PROVE TypeOK'
<1>1. job' \in [Procs -> Jobs]
  BY NewJob DEF TypeOK, Begin, Procs
<1>2. QED
  BY <1>1 DEF TypeOK, Begin

LEMMA TypeBegin ==
  ASSUME TypeOK, NEW m \in Menus, BeginOp(m) \/ CutOff(m) PROVE TypeOK'
<1>1. listTunnels \subseteq Tunnels /\ Tunnels \subseteq 0..N /\ 0 \in 0..N
  BY CountAssumption DEF listTunnels, Tunnels
<1>2. \A j \in Jobs : Begin(m, j) => TypeOK'
  BY BeginType
<1>3. CASE \E t \in Tunnels : Edit(m, t)
  <2>1. PICK t \in Tunnels : Edit(m, t)
    BY <1>3
  <2>2. [Job("edit", "truncate") EXCEPT !.t = t, !.data = "changed", !.todo = {t}] \in Jobs
    BY <1>1 DEF Job, Idle, Jobs, Stored, Contents
  <2>3. QED
    BY <2>1, <2>2, <1>2 DEF Edit
<1>4. CASE \E t \in Tunnels : Wizard(m, t)
  <2>1. PICK t \in Tunnels : Wizard(m, t)
    BY <1>4
  <2>2. [Job("wizard", "truncate") EXCEPT !.t = t, !.data = "changed"] \in Jobs
    BY <1>1 DEF Job, Idle, Jobs, Stored, Contents
  <2>3. QED
    BY <2>1, <2>2, <1>2 DEF Wizard
<1>5. CASE \E t \in Tunnels : Delete(m, t)
  <2>1. PICK t \in Tunnels : Delete(m, t)
    BY <1>5
  <2>2. [Job("delete", "disable") EXCEPT !.t = t] \in Jobs
    BY <1>1 DEF Job, Idle, Jobs
  <2>3. QED
    BY <2>1, <2>2, <1>2 DEF Delete
<1>6. CASE RestartAll(m) \/ Uninstall(m) \/ Update(m)
  <2>1. /\ [Job("restart", "restart") EXCEPT !.todo = listTunnels] \in Jobs
        /\ [Job("uninstall", "next") EXCEPT !.todo = listTunnels] \in Jobs
        /\ Job("update", "download") \in Jobs
    BY <1>1 DEF Job, Idle, Jobs
  <2>2. QED
    BY <1>6, <2>1, <1>2 DEF RestartAll, Uninstall, Update
<1>7. CASE Backup(m)
  <2>1. [t \in Tunnels |-> None] \in Archives
    BY DEF Archives
  <2>2. [Job("backup", "copy") EXCEPT !.todo = listTunnels,
                                     !.copy = [t \in Tunnels |-> None]] \in Jobs
    BY <1>1, <2>1 DEF Job, Idle, Jobs
  <2>3. QED
    BY <1>7, <2>2, <1>2 DEF Backup
<1>8. CASE Restore(m)
  <2>1. archive \in Archives /\ {t \in Tunnels : archive[t] # None} \in SUBSET Tunnels
    BY <1>8 DEF Restore, TypeOK
  <2>2. [Job("restore", "extract") EXCEPT
           !.todo = {t \in Tunnels : archive[t] # None}, !.copy = archive] \in Jobs
    BY <1>1, <2>1 DEF Job, Idle, Jobs
  <2>3. QED
    BY <1>8, <2>2, <1>2 DEF Restore
<1>9. CASE CutOff(m)
  <2>1. job' \in [Procs -> Jobs]
    BY <1>9, NewJob, IdleJob DEF TypeOK, CutOff, Procs
  <2>2. build' \in [Menus -> Builds]
    BY <1>9 DEF TypeOK, CutOff
  <2>3. QED
    BY <1>9, <2>1, <2>2 DEF TypeOK, CutOff
<1>10. CASE \E t \in Tunnels : Control(m, t)
  <2>1. PICK t \in Tunnels : Control(m, t)
    BY <1>10
  <2>2. /\ service' \in [Tunnels -> Services] /\ seen' \in Seens /\ metrics' \subseteq Tunnels
        /\ \A u \in Tunnels : service'[u].st = "up" <=> service'[u].cfg # None
    <3>1. CASE \E works \in Works(t) : Restart(t, works, "menu") \/ StartUnit(t, works)
      BY <3>1, StartType
    <3>2. CASE Stop(t) /\ UNCHANGED seen
      BY <3>2, StopType DEF TypeOK
    <3>3. QED
      BY <2>1, <3>1, <3>2 DEF Control
  <2>3. QED
    BY <2>1, <2>2 DEF TypeOK, Control
<1>11. QED
  BY <1>3, <1>4, <1>5, <1>6, <1>7, <1>8, <1>9, <1>10 DEF BeginOp

LEMMA TypeServe ==
  ASSUME TypeOK, NEW t \in Tunnels, Boot(t) \/ Snapshot(t) PROVE TypeOK'
<1>1. CASE Boot(t)
  <2> DEFINE r == IF Readable(config[t]) /\ binary \in {"old", Latest}
                  THEN [st |-> "up", cfg |-> config[t], build |-> binary] ELSE In("failing")
  <2>1. r \in Services /\ (r.st = "up" <=> r.cfg # None)
    <3>1. Readable(config[t]) => config[t] \in Contents /\ config[t] # None
      BY NoneAssumption DEF Readable, Contents
    <3>2. QED
      BY <3>1, DownIs DEF Services
  <2>2. service' = [service EXCEPT ![t] = r]
    BY <1>1 DEF Boot
  <2> HIDE DEF r
  <2>3. QED
    BY <1>1, <2>1, <2>2, ServiceType DEF TypeOK, Boot
<1>2. CASE Snapshot(t)
  BY <1>2 DEF TypeOK, Snapshot
<1>3. QED
  BY <1>1, <1>2

LEMMA TypeNext == ASSUME TypeOK, Tasks, [Next]_vars PROVE TypeOK'
<1>1. ASSUME NEW p \in Procs, Step(p) PROVE TypeOK'
  BY <1>1, TypeSave, TypeInstall, TypeRemove, TypeChoice, TypeRestart, TypeUpdate DEF Step
<1>2. ASSUME NEW m \in Menus, BeginOp(m) \/ CutOff(m) PROVE TypeOK'
  BY <1>2, TypeBegin
<1>3. CASE Fire
  <2>1. [Job("restart", "restart") EXCEPT !.todo = listTunnels] \in Jobs
    <3>1. listTunnels \subseteq Tunnels /\ 0 \in 0..N
      BY CountAssumption DEF listTunnels
    <3>2. QED
      BY <3>1 DEF Job, Idle, Jobs
  <2>2. job' \in [Procs -> Jobs]
    BY <1>3, <2>1, NewJob DEF TypeOK, Fire, Procs
  <2>3. QED
    BY <1>3, <2>2 DEF TypeOK, Fire
<1>4. ASSUME NEW t \in Tunnels, Boot(t) \/ Snapshot(t) PROVE TypeOK'
  BY <1>4, TypeServe
<1>5. CASE UNCHANGED vars
  BY <1>5 DEF TypeOK, vars
<1>6. QED
  BY <1>1, <1>2, <1>3, <1>4, <1>5 DEF Next

-------------------------------------------------------------------------------
(* What another process's step leaves of a menu's operation.               *)

\* Nothing is written, and nothing that is quiet starts.
Calm ==
  /\ UNCHANGED <<config, unit, legacy, binary, tmp>>
  /\ \A t \in Tunnels : Quiet(t) => Quiet(t)'
  /\ seen.astray \subseteq seen'.astray
  /\ seen.leaving \subseteq seen'.leaving \cup seen'.astray

LEMMA TasksCalm ==
  ASSUME TypeOK, Tasks, Calm, \A m \in Menus : job'[m] = job[m],
         job'[Timer].op \in {"idle", "restart"}, Ready(job[Timer])'
  PROVE  Tasks'
<1> SUFFICES ASSUME NEW m \in Menus PROVE Task(job[m])'
  BY DEF Tasks
<1> DEFINE j == job[m]
<1>1. Task(j) /\ j' = j /\ j \in Jobs
  BY DEF Tasks, TypeOK, Procs
<1>2. Ready(j)'
  BY <1>1 DEF Task, Ready
<1>3. j.op \in {"edit", "wizard", "delete", "migrate"} => j.t \in Tunnels
  BY <1>1 DEF Task, Ready
<1> HIDE DEF j
<1>4. Deleting(j)'
  BY <1>1, <1>3 DEF Task, Deleting, Calm
<1>5. Migrating(j)'
  <2>1. Migrating(j)
    BY <1>1 DEF Task
  <2>2. CASE j.op # "migrate"
    BY <2>2, <1>1 DEF Migrating
  <2>3. CASE j.op = "migrate"
    <3>1. j.t \in Tunnels
      BY <1>3, <2>3
    <3>2. Quiet(j.t) => Quiet(j.t)'
      BY <3>1, <1>1 DEF Calm, Quiet
    <3>3. QED
      BY <1>1, <2>1, <2>3, <3>2 DEF Migrating, Calm
  <2>4. QED
    BY <2>2, <2>3
<1>6. Restoring(j)'
  <2>1. \A t \in Tunnels : Tame(t) => Tame(t)'
    BY DEF Calm, Tame
  <2>2. Restoring(j)
    BY <1>1 DEF Task
  <2>3. QED
    BY <1>1, <2>1, <2>2 DEF Restoring, Calm
<1>7. Updating(j)'
  BY <1>1 DEF Task, Updating, Calm
<1>8. (j.op = "wizard" /\ j.at \in Installs => config[j.t] = "changed")'
  BY <1>1 DEF Task, Calm
<1>9. QED
  BY <1>2, <1>4, <1>5, <1>6, <1>7, <1>8 DEF Task, j

\* Only the acting menu's operation changes.
OthersWait(p) == \A q \in Procs : q # p => job'[q] = job[q]

LEMMA TasksMenu ==
  ASSUME Alone, Alone', Tasks, NEW m \in Menus, Task(job[m])', OthersWait(m),
         job[m].at # "end" \/ job[m].op # "idle" \/ job'[m].op # "idle"
  PROVE  Tasks'
<1>1. job'[Timer] = job[Timer] /\ \A n \in Menus : n # m => job'[n] = job[n]
  BY TimerAssumption DEF OthersWait, Procs
<1>2. ASSUME NEW n \in Menus, n # m PROVE Task(job[n])'
  <2>1. job'[n].op = "idle"
    <3>1. job[m].op # "idle" \/ job'[m].op # "idle"
      BY DEF Tasks, Task, Ready, Steps
    <3>2. QED
      BY <1>1, <1>2, <3>1 DEF Alone
  <2>2. Ready(job[n])
    BY <1>2 DEF Tasks, Task
  <2>3. Ready(job[n])'
    BY <1>1, <1>2, <2>2 DEF Ready
  <2>4. QED
    BY <2>1, <2>3 DEF Ready, Steps, Task, Deleting, Migrating, Restoring, Updating
<1>3. \A n \in Menus : Task(job[n])'
  BY <1>2
<1>4. job'[Timer].op \in {"idle", "restart"} /\ Ready(job[Timer])'
  BY <1>1 DEF Tasks, Ready
<1>5. QED
  BY <1>3, <1>4 DEF Tasks

-------------------------------------------------------------------------------
(* Starting, stopping and running.                                         *)

\* Each conjunct of Files and Runs reads only these variables.
LEMMA FilesKept ==
  /\ Files /\ UNCHANGED <<config, unit, metrics, service, legacy, seen>> => Files'
  /\ RestartApplies /\ Replaced /\ UNCHANGED <<config, service, binary, seen>>
       => RestartApplies' /\ Replaced'
<1>1. ASSUME Files, UNCHANGED <<config, unit, metrics, service, legacy, seen>> PROVE Files'
  <2>1. Free' /\ Twin'
    BY <1>1 DEF Files, Free, Twin, Quiet
  <2>2. NoTwin' /\ Stopped' /\ GoneLeavesNothing' /\ Kept'
    BY <1>1 DEF Files, NoTwin, Stopped, GoneLeavesNothing, Kept
  <2>3. QED
    BY <2>1, <2>2 DEF Files
<1>2. ASSUME RestartApplies, Replaced, UNCHANGED <<config, service, binary, seen>>
      PROVE  RestartApplies' /\ Replaced'
  BY <1>2 DEF RestartApplies, Replaced
<1>3. QED
  BY <1>1, <1>2

\* What a start changes.
LEMMA StartFacts ==
  ASSUME TypeOK, NEW t \in Tunnels, NEW works \in Works(t), NEW op,
         Restart(t, works, op) \/ StartUnit(t, works)
  PROVE  /\ \A u \in Tunnels : u # t => service'[u] = service[u]
         /\ service'[t] = service[t] \/ service'[t] = In("starting")
         /\ works => /\ unit[t] # "none"
                     /\ seen'.leaving = seen.leaving \ {t} /\ seen'.gone = seen.gone \ {t}
                     /\ seen'.astray = seen.astray \cup ({t} \cap seen.leaving)
                     /\ seen'.discarded = seen.discarded
                     /\ metrics' \subseteq metrics \cup {t}
         /\ ~works => UNCHANGED <<service, metrics, seen>>
<1>1. works => unit[t] # "none"
  BY DEF Works, TypeOK
<1>2. /\ \A u \in Tunnels : u # t => service'[u] = service[u]
      /\ service'[t] = service[t] \/ service'[t] = In("starting")
  BY DEF TypeOK, Restart, StartUnit
<1>3. /\ works => (seen' = Started(t) \/ seen' = Restarted(t, op))
                    /\ metrics' \subseteq metrics \cup {t}
      /\ ~works => UNCHANGED <<service, metrics, seen>>
  BY DEF Restart, StartUnit
<1>4. QED
  BY <1>1, <1>2, <1>3 DEF Started, Restarted, TypeOK, Seens

LEMMA StartFiles ==
  ASSUME TypeOK, Files, NEW t \in Tunnels, NEW works \in Works(t), NEW op,
         Restart(t, works, op) \/ StartUnit(t, works), UNCHANGED <<config, unit, legacy>>
  PROVE  /\ Files' /\ \A u \in Tunnels : Quiet(u) => Quiet(u)'
         /\ seen.astray \subseteq seen'.astray
         /\ seen.leaving \subseteq seen'.leaving \cup seen'.astray
<1>1. CASE ~works
  <2>1. UNCHANGED <<service, metrics, seen>>
    BY <1>1, StartFacts
  <2>2. QED
    BY <2>1, FilesKept DEF Quiet
<1>2. CASE works
  <2>1. unit[t] # "none" /\ \A u \in Tunnels : u # t => service'[u] = service[u]
    BY <1>2, StartFacts
  <2>2. service'[t] = service[t] \/ service'[t].st = "starting"
    <3>1. service'[t] = service[t] \/ service'[t] = In("starting")
      BY StartFacts
    <3>2. QED
      BY <3>1, DownIs
  <2>3. /\ seen'.leaving = seen.leaving \ {t} /\ seen'.gone = seen.gone \ {t}
        /\ seen'.astray = seen.astray \cup ({t} \cap seen.leaving)
        /\ seen'.discarded = seen.discarded /\ metrics' \subseteq metrics \cup {t}
    BY <1>2, StartFacts
  <2>4. \A u \in Tunnels : Quiet(u) => Quiet(u)'
    BY <2>1, <2>3 DEF Quiet
  <2>5. Free' /\ Twin'
    BY <2>3, <2>4 DEF Files, Free, Twin
  <2>6. NoTwin' /\ Kept'
    BY <2>1, <2>2, <2>3 DEF Files, NoTwin, Kept
  <2>7. Stopped'
    BY <2>1, <2>3 DEF Files, Stopped, TypeOK, Seens
  <2>8. GoneLeavesNothing'
    BY <2>1, <2>3 DEF Files, GoneLeavesNothing, TypeOK, Seens
  <2>9. QED
    BY <2>3, <2>4, <2>5, <2>6, <2>7, <2>8 DEF Files
<1>3. QED
  BY <1>1, <1>2

LEMMA StartRuns ==
  ASSUME TypeOK, Runs, NEW t \in Tunnels, NEW works \in Works(t), NEW op,
         op = "update" => binary # "old",
         Restart(t, works, op) \/ StartUnit(t, works), UNCHANGED <<config, binary>>
  PROVE  Runs'
<1>1. CASE ~works
  BY <1>1, StartFacts, FilesKept DEF Runs
<1>2. CASE works
  <2>1. /\ \A u \in Tunnels : u # t => service'[u] = service[u]
        /\ service'[t] = service[t] \/ service'[t].st = "starting"
    <3>1. /\ \A u \in Tunnels : u # t => service'[u] = service[u]
          /\ service'[t] = service[t] \/ service'[t] = In("starting")
      BY StartFacts
    <3>2. QED
      BY <3>1, DownIs
  <2>2. CASE seen' = Started(t)
    BY <2>1, <2>2 DEF Runs, RestartApplies, Replaced, Started, TypeOK, Seens
  <2>3. CASE Restart(t, works, op)
    <3>1. service'[t].st = "starting" /\ seen' = Restarted(t, op)
      BY <1>2, <2>3, DownIs DEF Restart, TypeOK
    <3>2. /\ seen'.applied = seen.applied \cup {t}
          /\ seen'.reported = seen.reported \cup (IF op = "update" THEN {t} ELSE {})
      BY <3>1 DEF Restarted, Started, TypeOK, Seens
    <3>3. QED
      BY <2>1, <3>1, <3>2 DEF Runs, RestartApplies, Replaced, TypeOK, Seens
  <2>4. QED
    BY <1>2, <2>2, <2>3 DEF StartUnit
<1>3. QED
  BY <1>1, <1>2

\* history: the delete that stops the tunnel marks it.
LEMMA StopFiles ==
  ASSUME TypeOK, Files, Runs, NEW t \in Tunnels, Stop(t),
         UNCHANGED <<config, unit, legacy, binary>>,
         seen' = seen \/ seen' = [seen EXCEPT !.leaving = @ \cup {t}]
  PROVE  /\ Files' /\ Runs' /\ \A u \in Tunnels : Quiet(u) => Quiet(u)'
         /\ seen'.astray = seen.astray /\ seen.leaving \subseteq seen'.leaving
<1>1. /\ \A u \in Tunnels : u # t => service'[u] = service[u]
      /\ service'[t].st = "down"
      /\ metrics' = metrics \/ (service[t].st = "up" /\ metrics' = metrics \cup {t})
  BY DownIs DEF Stop, TypeOK
<1>2. /\ seen'.leaving \in {seen.leaving, seen.leaving \cup {t}} /\ seen'.gone = seen.gone
      /\ seen'.astray = seen.astray /\ seen'.discarded = seen.discarded
      /\ seen'.applied = seen.applied /\ seen'.reported = seen.reported
  BY DEF TypeOK, Seens
<1>3. \A u \in Tunnels : Quiet(u) => Quiet(u)'
  BY <1>1, <1>2 DEF Quiet
<1>4. Free' /\ Twin' /\ NoTwin' /\ Kept'
  <2>1. Free' /\ Twin'
    BY <1>2, <1>3 DEF Files, Free, Twin
  <2>2. NoTwin' /\ Kept'
    BY <1>1, <1>2 DEF Files, NoTwin, Kept
  <2>3. QED
    BY <2>1, <2>2
<1>5. Stopped' /\ GoneLeavesNothing'
  <2>1. Stopped'
    BY <1>1, <1>2 DEF Files, Stopped, TypeOK, Seens
  <2>2. GoneLeavesNothing'
    BY <1>1, <1>2 DEF Files, GoneLeavesNothing, TypeOK, Seens
  <2>3. QED
    BY <2>1, <2>2
<1>6. Runs'
  BY <1>1, <1>2 DEF Runs, RestartApplies, Replaced, TypeOK, Seens
<1>7. QED
  BY <1>2, <1>3, <1>4, <1>5, <1>6 DEF Files

LEMMA ServeFiles ==
  ASSUME TypeOK, Files, Runs, NEW t \in Tunnels, Boot(t) \/ Snapshot(t)
  PROVE  Files' /\ Runs' /\ \A u \in Tunnels : Quiet(u) => Quiet(u)'
<1>1. CASE Boot(t)
  <2>1. /\ service[t].st \in {"starting", "failing"}
        /\ \A u \in Tunnels : u # t => service'[u] = service[u]
        /\ service'[t].st \in {"up", "failing"}
        /\ service'[t].st = "up" =>
             service'[t].cfg = config[t] /\ service'[t].build = binary /\ binary \in {"old", Latest}
    BY <1>1, DownIs DEF Boot, TypeOK
  <2>2. UNCHANGED <<config, unit, metrics, legacy, binary, seen>>
    BY <1>1 DEF Boot
  <2>3. \A u \in Tunnels : Quiet(u) => Quiet(u)'
    BY <2>1, <2>2 DEF Quiet
  <2>4. Free' /\ Twin'
    BY <2>2, <2>3 DEF Files, Free, Twin
  <2>5. NoTwin' /\ Kept'
    BY <2>1, <2>2 DEF Files, NoTwin, Twin, Quiet, Kept
  <2>6. Stopped' /\ GoneLeavesNothing'
    BY <2>1, <2>2 DEF Files, Stopped, GoneLeavesNothing, TypeOK, Seens
  <2>7. Runs'
    BY <2>1, <2>2 DEF Runs, RestartApplies, Replaced, TypeOK, Seens
  <2>8. QED
    BY <2>3, <2>4, <2>5, <2>6, <2>7 DEF Files
<1>2. CASE Snapshot(t)
  <2>1. Files'
    <3>1. Free' /\ Twin' /\ NoTwin' /\ Stopped' /\ Kept'
      BY <1>2 DEF Snapshot, Files, Free, Twin, NoTwin, Stopped, Kept, Quiet
    <3>2. GoneLeavesNothing'
      BY <1>2 DEF Snapshot, Files, GoneLeavesNothing
    <3>3. QED
      BY <3>1, <3>2 DEF Files
  <2>2. Runs' /\ \A u \in Tunnels : Quiet(u) => Quiet(u)'
    BY <1>2, FilesKept DEF Snapshot, Runs, Quiet
  <2>3. QED
    BY <2>1, <2>2
<1>3. QED
  BY <1>1, <1>2

-------------------------------------------------------------------------------
(* Saving a configuration.                                                 *)

LEMMA IdleTask == ASSUME NEW m \in Menus, job'[m] = Idle PROVE Task(job[m])'
<1>1. Idle.op = "idle" /\ Idle.at = "end" /\ Idle.copy = None
  BY DEF Idle
<1>2. Ready(job[m])'
  BY <1>1 DEF Ready, Steps, Saves
<1>3. QED
  BY <1>1, <1>2 DEF Task, Deleting, Migrating, Restoring, Updating, Installs

\* Only a menu saves.
LEMMA SavingJob ==
  ASSUME TypeOK, Tasks, NEW p \in Procs, job[p].at \in Saves
  PROVE  /\ p \in Menus /\ Task(job[p]) /\ job[p] \in Jobs /\ job[p].t \in Tunnels
         /\ job[p].op \in {"edit", "wizard", "retune", "migrate", "restore"}
         /\ job[p].data \in Stored
         /\ job[p].data = "legacy" => job[p].op \in {"migrate", "restore"}
<1>1. job[p] \in Jobs /\ Ready(job[p])
  BY AllReady
<1>2. job[p].op \in {"edit", "wizard", "retune", "migrate", "restore"} /\ job[p].t \in Tunnels
  <2>1. job[p].op \in {"edit", "wizard", "retune", "migrate", "restore"}
    BY <1>1 DEF Ready, Steps, Saves, Jobs
  <2>2. QED
    BY <1>1, <2>1 DEF Ready
<1>3. p \in Menus
  BY <1>2 DEF Tasks, Procs
<1>4. job[p].data \in Stored /\ (job[p].data = "legacy" => job[p].op \in {"migrate", "restore"})
  BY <1>1, <1>2, NoneAssumption DEF Ready, Jobs
<1>5. QED
  BY <1>1, <1>2, <1>3, <1>4 DEF Tasks

LEMMA SavingFacts ==
  ASSUME TypeOK, NEW p \in Procs, job[p].t \in Tunnels, seen' = Saving(p)
  PROVE  LET t == job[p].t
         IN /\ seen'.leaving = seen.leaving \ {t} /\ seen'.gone = seen.gone \ {t}
            /\ seen'.applied = seen.applied \ {t} /\ seen'.reported = seen.reported
            /\ seen.astray \subseteq seen'.astray
            /\ t \in seen.leaving => t \in seen'.astray
            /\ job[p].op = "restore" /\ job[p].data = "legacy" => t \in seen'.astray
            /\ seen'.discarded <=>
                 seen.discarded \/ (config[t] = "legacy" /\ job[p].op # "migrate")
<1> DEFINE t == job[p].t
<1>1. seen \in Seens /\ t \in Tunnels
  BY DEF TypeOK
<1>2. seen' = [Started(t) EXCEPT !.applied = @ \ {t},
                 !.discarded = @ \/ (config[t] = "legacy" /\ job[p].op # "migrate"),
                 !.astray = IF job[p].op = "restore" /\ job[p].data = "legacy"
                            THEN @ \cup {t} ELSE @]
  BY DEF Saving
<1> HIDE DEF t
<1>3. QED
  <2>1. /\ seen'.leaving = seen.leaving \ {t} /\ seen'.gone = seen.gone \ {t}
        /\ seen'.applied = seen.applied \ {t} /\ seen'.reported = seen.reported
        /\ seen.astray \subseteq seen'.astray
        /\ t \in seen.leaving => t \in seen'.astray
        /\ job[p].op = "restore" /\ job[p].data = "legacy" => t \in seen'.astray
    BY <1>1, <1>2 DEF Started, Seens
  <2>2. seen'.discarded <=> seen.discarded \/ (config[t] = "legacy" /\ job[p].op # "migrate")
    BY <1>1, <1>2 DEF Started, Seens
  <2>3. QED
    BY <2>1, <2>2 DEF t

\* The file is truncated, or written.
LEMMA SaveFiles ==
  ASSUME TypeOK, Tasks, Files, Runs, NEW p \in Procs, job[p].at \in Saves, NEW c \in Stored,
         config' = [config EXCEPT ![job[p].t] = c], seen' = Saving(p),
         c # "torn" => c = job[p].data,
         UNCHANGED <<unit, metrics, service, legacy, binary>>
  PROVE  Files' /\ Runs' /\ \A u \in Tunnels : Quiet(u) => Quiet(u)'
<1> DEFINE t == job[p].t
           op == job[p].op
<1>1. /\ t \in Tunnels /\ Task(job[p])
      /\ c = "legacy" => op \in {"migrate", "restore"} /\ job[p].data = "legacy"
  BY SavingJob
<1>2. /\ seen'.leaving = seen.leaving \ {t} /\ seen'.gone = seen.gone \ {t}
      /\ seen'.applied = seen.applied \ {t} /\ seen'.reported = seen.reported
      /\ seen.astray \subseteq seen'.astray
      /\ op = "restore" /\ job[p].data = "legacy" => t \in seen'.astray
      /\ seen'.discarded <=> seen.discarded \/ (config[t] = "legacy" /\ op # "migrate")
  BY <1>1, SavingFacts
<1>3. config'[t] = c /\ c # None /\ \A u \in Tunnels : u # t => config'[u] = config[u]
  BY <1>1, NoneAssumption DEF TypeOK, Archives, Stored, Contents
<1>4. op = "migrate" => Quiet(t) /\ legacy.config # None
  BY <1>1 DEF Task, Migrating
<1> HIDE DEF t, op
<1>5. \A u \in Tunnels : Quiet(u) => Quiet(u)'
  BY <1>2 DEF Quiet
<1>6. Free'
  BY <1>3, <1>5 DEF Files, Free
<1>7. Twin'
  BY <1>1, <1>2, <1>3, <1>4, <1>5 DEF Files, Twin
<1>8. NoTwin' /\ Stopped'
  BY <1>2 DEF Files, NoTwin, Stopped, TypeOK, Seens
<1>9. GoneLeavesNothing'
  BY <1>2, <1>3 DEF Files, GoneLeavesNothing, TypeOK, Seens
<1>10. Kept'
  BY <1>1, <1>2, <1>3, <1>4 DEF Files, Kept
<1>11. Runs'
  BY <1>2, <1>3 DEF Runs, RestartApplies, Replaced, TypeOK, Seens
<1>12. QED
  BY <1>5, <1>6, <1>7, <1>8, <1>9, <1>10, <1>11 DEF Files

LEMMA ScanTask ==
  ASSUME NEW m \in Menus, job'[m].op = "retune", job'[m].at = "scan", job'[m].copy = None,
         binary' # "old"
  PROVE  Task(job[m])'
<1>1. Ready(job[m])'
  BY DEF Ready, Steps, Saves
<1>2. QED
  BY <1>1 DEF Task, Deleting, Migrating, Restoring, Updating

LEMMA TruncateStep ==
  ASSUME Alone, Alone', IInv, NEW p \in Procs, Truncate(p) PROVE Tasks' /\ Files' /\ Runs'
<1>1. /\ job[p].at = "truncate" /\ p \in Menus /\ job[p] \in Jobs /\ Task(job[p])
      /\ job[p].t \in Tunnels
      /\ job[p].op \in {"edit", "wizard", "retune", "migrate", "restore"}
  BY SavingJob DEF IInv, Truncate, Saves
<1>2. UNCHANGED <<unit, metrics, service, legacy, binary, tmp>>
  BY DEF Truncate
<1>3. CASE config' = [config EXCEPT ![job[p].t] = "torn"] /\ seen' = Saving(p) /\ Go(p, "write")
  <2>1. Files' /\ Runs' /\ \A u \in Tunnels : Quiet(u) => Quiet(u)'
    <3>1. "torn" \in Stored
      BY DEF Stored
    <3>2. QED
      BY <1>1, <1>2, <1>3, <3>1, SaveFiles DEF IInv, Saves
  <2>2. /\ job'[p].op = job[p].op /\ job'[p].at = "write" /\ job'[p].t = job[p].t
        /\ job'[p].data = job[p].data /\ job'[p].todo = job[p].todo /\ job'[p].copy = job[p].copy
        /\ \A q \in Procs : q # p => job'[q] = job[q]
    BY <1>3, GoStep DEF IInv, TypeOK, Ats
  <2>3. Ready(job[p])'
    BY <1>1, <2>2 DEF Task, Ready, Steps, Saves
  <2>4. Migrating(job[p])' /\ Deleting(job[p])'
    BY <1>1, <1>2, <2>1, <2>2 DEF Task, Migrating, Deleting, Saves
  <2>5. Restoring(job[p])'
    <3>1. \A u \in Tunnels : u # job[p].t => config'[u] = config[u]
      BY <1>1, <1>3 DEF IInv, TypeOK, Archives
    <3>2. seen.astray \subseteq seen'.astray
      BY <1>1, <1>3, SavingFacts DEF IInv
    <3>3. \A u \in Tunnels : u # job[p].t /\ Tame(u) => Tame(u)'
      BY <3>1, <3>2 DEF Tame
    <3>4. Restoring(job[p])
      BY <1>1 DEF Task
    <3>5. QED
      BY <1>1, <2>2, <3>3, <3>4 DEF Restoring, Saves
  <2>6. Updating(job[p])'
    BY <1>1, <1>2, <2>2 DEF Task, Updating
  <2>7. Task(job[p])'
    BY <2>2, <2>3, <2>4, <2>5, <2>6 DEF Task, Installs
  <2>8. OthersWait(p)
    BY <2>2 DEF OthersWait
  <2>9. QED
    BY <1>1, <2>1, <2>7, <2>8, TasksMenu DEF IInv
<1>4. CASE /\ job' = [job EXCEPT ![p] = IF NoSave(job[p].op) = "end" THEN Idle
                        ELSE [job[p] EXCEPT !.op = "retune", !.at = "scan",
                               !.todo = IF job[p].op = "migrate" THEN listTunnels ELSE job[p].todo]]
           /\ UNCHANGED <<config, seen>>
  <2>1. Files' /\ Runs'
    BY <1>2, <1>4, FilesKept DEF IInv, Runs
  <2>2. OthersWait(p)
    BY <1>4 DEF OthersWait, IInv, TypeOK
  <2>3. Task(job[p])'
    <3>1. CASE NoSave(job[p].op) = "end"
      BY <1>1, <1>4, <3>1, IdleTask DEF IInv, TypeOK
    <3>2. CASE NoSave(job[p].op) # "end"
      <4>1. job[p].op \in {"migrate", "retune"}
        BY <3>2 DEF NoSave
      <4>2. job[p].copy = None /\ binary' # "old"
        BY <1>1, <1>2, <4>1 DEF Task, Ready, Updating
      <4>3. job'[p].op = "retune" /\ job'[p].at = "scan" /\ job'[p].copy = job[p].copy
        BY <1>1, <1>4, <3>2 DEF IInv, TypeOK, Jobs
      <4>4. QED
        BY <1>1, <4>2, <4>3, ScanTask
    <3>3. QED
      BY <3>1, <3>2
  <2>4. QED
    BY <1>1, <2>1, <2>2, <2>3, TasksMenu DEF IInv
<1>5. QED
  BY <1>3, <1>4 DEF Truncate

LEMMA WriteStep ==
  ASSUME Alone, Alone', IInv, NEW p \in Procs, Write(p) PROVE Tasks' /\ Files' /\ Runs'
<1> DEFINE t == job[p].t
           op == job[p].op
<1>1. /\ job[p].at = "write" /\ p \in Menus /\ job[p] \in Jobs /\ Task(job[p])
      /\ t \in Tunnels /\ job[p].data \in Stored
      /\ op \in {"edit", "wizard", "retune", "migrate", "restore"}
  BY SavingJob DEF IInv, Write, Saves
<1>2. /\ UNCHANGED <<unit, metrics, service, legacy, binary, tmp>>
      /\ config' = [config EXCEPT ![t] = job[p].data] /\ seen' = Saving(p)
  BY DEF Write
<1>3. Files' /\ Runs' /\ \A u \in Tunnels : Quiet(u) => Quiet(u)'
  BY <1>1, <1>2, SaveFiles DEF IInv, Saves
<1>4. config'[t] = job[p].data /\ \A u \in Tunnels : u # t => config'[u] = config[u]
  BY <1>1, <1>2 DEF IInv, TypeOK, Archives
<1>5. PICK at \in AfterSave(op) : Go(p, at)
  BY DEF Write
<1>6. at \in Ats
  BY <1>1, <1>5 DEF AfterSave, Ats
<1>7. OthersWait(p)
  BY <1>5, <1>6, GoStep DEF OthersWait, IInv, TypeOK
<1>8. Task(job[p])'
  <2>1. CASE at = "end"
    BY <1>1, <1>5, <1>6, <2>1, GoStep, IdleTask DEF IInv, TypeOK
  <2>2. CASE at # "end"
    <3>1. /\ job'[p].op = op /\ job'[p].at = at /\ job'[p].t = t
          /\ job'[p].data = job[p].data /\ job'[p].todo = job[p].todo /\ job'[p].copy = job[p].copy
      BY <1>5, <1>6, <2>2, GoStep DEF IInv, TypeOK
    <3>2. /\ op = "edit" => at = "restart"
          /\ op = "wizard" => at = "unit"
          /\ op = "migrate" => at = "retire"
          /\ op = "retune" => at = "scan"
          /\ op = "restore" => at = "extract"
      BY <1>1, <1>5, <2>2 DEF AfterSave
    <3>3. Ready(job[p])'
      <4>1. job[p].op \in {"backup", "restore"} <=> job[p].copy # None
        BY <1>1 DEF Task, Ready
      <4>2. at \in Steps(op) /\ at \notin Saves
        BY <1>1, <3>2 DEF Steps, Saves
      <4>3. QED
        <5>1. /\ job'[p].at \in Steps(job'[p].op) /\ job'[p].at \notin Saves
              /\ job'[p].t \in Tunnels
              /\ job'[p].op \in {"backup", "restore"} <=> job'[p].copy # None
          BY <1>1, <3>1, <4>1, <4>2
        <5>2. QED
          BY <5>1 DEF Ready
    <3>4. Migrating(job[p])' /\ Deleting(job[p])'
      <4>1. op = "migrate" => Quiet(t) /\ job[p].data = "legacy"
        <5>1. Ready(job[p]) /\ Migrating(job[p]) /\ job[p].at \in Saves
          BY <1>1 DEF Task, Saves
        <5>2. op = "migrate" => Quiet(t)
          BY <5>1 DEF Migrating
        <5>3. op = "migrate" => job[p].data = "legacy"
          BY <5>1 DEF Ready
        <5>4. QED
          BY <5>2, <5>3
      <4>2. \A u \in Tunnels : u = t /\ op = "migrate" => Quiet(u)'
        BY <1>1, <1>3, <4>1
      <4>3. op = "migrate" => Quiet(job[p].t)'
        BY <1>1, <3>1, <4>2 DEF Quiet
      <4>4. QED
        <5>1. Deleting(job[p])'
          BY <1>1, <3>1 DEF Deleting
        <5>2. op = "migrate" => config'[job'[p].t] = "legacy" /\ job'[p].at = "retire"
          BY <1>4, <3>1, <3>2, <4>1
        <5>3. Migrating(job[p])'
          BY <3>1, <4>3, <5>2 DEF Migrating, Saves
        <5>4. QED
          BY <5>1, <5>3
    <3>5. Restoring(job[p])'
      <4>1. seen.astray \subseteq seen'.astray
              /\ (op = "restore" /\ job[p].data = "legacy" => t \in seen'.astray)
        BY <1>1, <1>2, SavingFacts DEF IInv
      <4>2. (\A u \in Tunnels : u # t /\ Tame(u) => Tame(u)')
              /\ (\A u \in Tunnels : u = t /\ op = "restore" => Tame(u)')
        BY <1>1, <1>4, <4>1 DEF Tame
      <4>3. Restoring(job[p])
        BY <1>1 DEF Task
      <4>4. op = "restore" =>
              /\ \A u \in job'[p].todo : job'[p].copy[u] # None
              /\ \A u \in Tunnels : job'[p].copy[u] # None /\ u \notin job'[p].todo => Tame(u)'
        BY <1>1, <3>1, <4>2, <4>3 DEF Restoring, Saves
      <4>5. QED
        BY <3>1, <3>2, <4>4 DEF Restoring
    <3>6. Updating(job[p])'
      BY <1>1, <1>2, <3>1, <3>2 DEF Task, Updating
    <3>7. (job[p].op = "wizard" /\ job[p].at \in Installs => config[job[p].t] = "changed")'
      BY <1>1, <1>4, <3>1 DEF Task, Ready, Saves
    <3>8. QED
      BY <3>3, <3>4, <3>5, <3>6, <3>7 DEF Task
  <2>3. QED
    BY <2>1, <2>2
<1>9. QED
  BY <1>1, <1>3, <1>7, <1>8, TasksMenu DEF IInv

-------------------------------------------------------------------------------
(* Installing and removing a tunnel.                                       *)

\* A menu's operation that stays the same, at another step.
LEMMA GoMenu ==
  ASSUME IInv, NEW p \in Menus, NEW at \in Ats, Go(p, at)
  PROVE  /\ job[p] \in Jobs /\ Task(job[p]) /\ OthersWait(p)
         /\ at = "end" => Task(job[p])'
         /\ at # "end" => /\ job'[p].op = job[p].op /\ job'[p].at = at /\ job'[p].t = job[p].t
                          /\ job'[p].data = job[p].data /\ job'[p].todo = job[p].todo
                          /\ job'[p].copy = job[p].copy
<1>1. p \in Procs
  BY DEF Procs
<1>2. job[p] \in Jobs /\ Task(job[p]) /\ job \in [Procs -> Jobs]
  BY <1>1 DEF IInv, TypeOK, Tasks
<1>3. QED
  BY <1>1, <1>2, GoStep, IdleTask DEF OthersWait

\* A menu takes every step but the restarts.
LEMMA ActingMenu ==
  ASSUME IInv, NEW p \in Procs, job[p].at \notin {"end", "restart"}
  PROVE  p \in Menus /\ Task(job[p]) /\ job[p] \in Jobs
BY DEF IInv, Tasks, Ready, Steps, Procs, TypeOK

LEMMA StartedFacts ==
  ASSUME TypeOK, NEW t \in Tunnels, seen' = Started(t)
  PROVE  /\ seen'.leaving = seen.leaving \ {t} /\ seen'.gone = seen.gone \ {t}
         /\ seen'.astray = seen.astray \cup ({t} \cap seen.leaving)
         /\ seen'.applied = seen.applied /\ seen'.reported = seen.reported
         /\ seen'.discarded = seen.discarded
BY DEF Started, TypeOK, Seens

LEMMA WriteUnitStep ==
  ASSUME Alone, Alone', IInv, NEW p \in Procs, WriteUnit(p) PROVE Tasks' /\ Files' /\ Runs'
<1> DEFINE t == job[p].t
           op == job[p].op
<1>1. p \in Menus /\ Task(job[p]) /\ job[p] \in Jobs /\ job[p].at = "unit"
  BY ActingMenu DEF WriteUnit
<1>2. op \in {"wizard", "restore", "migrate"} /\ t \in Tunnels
  BY <1>1 DEF Task, Ready, Steps, Jobs
<1>3. /\ UNCHANGED <<config, metrics, service, legacy, binary, tmp>>
      /\ unit' = [unit EXCEPT ![t] = "file"] /\ seen' = Started(t) /\ Go(p, "reload")
  BY DEF WriteUnit
<1>4. \A u \in Tunnels : u # t => unit'[u] = unit[u]
  BY <1>2, <1>3 DEF IInv, TypeOK
<1>5. /\ seen'.leaving = seen.leaving \ {t} /\ seen'.gone = seen.gone \ {t}
      /\ seen.astray \subseteq seen'.astray
      /\ seen'.applied = seen.applied /\ seen'.reported = seen.reported
      /\ seen'.discarded = seen.discarded
  BY <1>2, <1>3, StartedFacts DEF IInv
\* The name has a configuration, which would not bring a second flat install up.
<1>6. config[t] # None /\ (legacy.up => config[t] # "legacy" \/ t \in seen.astray)
  <2>1. CASE op = "wizard"
    BY <1>1, <2>1, NoneAssumption DEF Task, Installs
  <2>2. CASE op = "migrate"
    <3>1. Migrating(job[p])
      BY <1>1 DEF Task
    <3>2. QED
      BY <1>1, <2>2, <3>1, NoneAssumption DEF Migrating, Saves
  <2>3. CASE op = "restore"
    <3>1. Restoring(job[p])
      BY <1>1 DEF Task
    <3>2. job[p].copy[t] # None /\ config[t] # None
      BY <1>1, <1>2, <2>3, <3>1 DEF Restoring, Saves, Installs
    <3>3. Tame(t)
      BY <1>1, <1>2, <2>3, <3>1, <3>2 DEF Restoring, Saves
    <3>4. QED
      BY <3>2, <3>3 DEF Tame
  <2>4. QED
    BY <1>2, <2>1, <2>2, <2>3
<1> HIDE DEF t
<1>7. \A u \in Tunnels : u # t /\ Quiet(u) => Quiet(u)'
  BY <1>3, <1>4, <1>5 DEF Quiet
<1>8. Files'
  <2>1. Free' /\ Twin'
    BY <1>3, <1>5, <1>6, <1>7 DEF IInv, Files, Free, Twin
  <2>2. NoTwin' /\ Stopped' /\ Kept'
    BY <1>3, <1>5 DEF IInv, Files, NoTwin, Stopped, Kept
  <2>3. GoneLeavesNothing'
    BY <1>3, <1>4, <1>5 DEF IInv, Files, GoneLeavesNothing, TypeOK, Seens
  <2>4. QED
    BY <2>1, <2>2, <2>3 DEF Files
<1>9. Runs'
  BY <1>3, <1>5 DEF IInv, Runs, RestartApplies, Replaced
<1>10. /\ OthersWait(p) /\ job'[p].op = op /\ job'[p].at = "reload"
       /\ job'[p].t = job[p].t /\ job'[p].data = job[p].data
       /\ job'[p].todo = job[p].todo /\ job'[p].copy = job[p].copy
  BY <1>1, <1>3, GoMenu DEF Ats
<1>11. Task(job[p])'
  <2>1. Ready(job[p])'
    BY <1>1, <1>2, <1>10 DEF Task, Ready, Steps, Saves, t
  <2>2. Deleting(job[p])' /\ Migrating(job[p])'
    BY <1>1, <1>2, <1>3, <1>10 DEF Task, Deleting, Migrating, Saves
  <2>3. Restoring(job[p])'
    <3>1. \A u \in Tunnels : Tame(u) => Tame(u)'
      BY <1>3, <1>5 DEF Tame
    <3>2. Restoring(job[p])
      BY <1>1 DEF Task
    <3>3. QED
      BY <1>1, <1>3, <1>10, <3>1, <3>2 DEF Restoring, Saves, Installs
  <2>4. Updating(job[p])'
           /\ (job[p].op = "wizard" /\ job[p].at \in Installs => config[job[p].t] = "changed")'
    BY <1>1, <1>2, <1>3, <1>10 DEF Task, Updating, Installs
  <2>5. QED
    BY <2>1, <2>2, <2>3, <2>4 DEF Task
<1>12. QED
  BY <1>1, <1>8, <1>9, <1>10, <1>11, TasksMenu DEF IInv

LEMMA ReloadStep ==
  ASSUME Alone, Alone', IInv, NEW p \in Procs, Reload(p) PROVE Tasks' /\ Files' /\ Runs'
<1> DEFINE at == AfterReload(job[p].op)
<1>1. p \in Menus /\ Task(job[p]) /\ job[p] \in Jobs /\ job[p].at = "reload"
  BY ActingMenu DEF Reload
<1>2. /\ UNCHANGED <<config, metrics, service, legacy, binary, tmp, seen>>
      /\ unit' = [u \in Tunnels |-> IF unit[u] = "loaded" THEN "none" ELSE unit[u]]
      /\ Go(p, at)
  BY DEF Reload
<1>3. \A u \in Tunnels : unit[u] \in {"none", "loaded"} => unit'[u] = "none"
  BY <1>2
<1>4. Files' /\ Runs' /\ \A u \in Tunnels : Quiet(u) => Quiet(u)'
  <2>1. \A u \in Tunnels : Quiet(u) => Quiet(u)'
    BY <1>2, <1>3 DEF Quiet
  <2>2. Free' /\ Twin' /\ NoTwin' /\ Stopped' /\ Kept'
    BY <1>2, <2>1 DEF IInv, Files, Free, Twin, NoTwin, Stopped, Kept
  <2>3. GoneLeavesNothing'
    BY <1>2, <1>3 DEF IInv, Files, GoneLeavesNothing, TypeOK, Seens
  <2>4. Runs'
    BY <1>2, FilesKept DEF IInv, Runs
  <2>5. QED
    BY <2>1, <2>2, <2>3, <2>4 DEF Files
<1>5. at \in Ats /\ at # "end"
  BY DEF AfterReload, Ats
<1> HIDE DEF at
<1>6. /\ OthersWait(p) /\ job'[p].op = job[p].op /\ job'[p].at = at
      /\ job'[p].t = job[p].t /\ job'[p].data = job[p].data
      /\ job'[p].todo = job[p].todo /\ job'[p].copy = job[p].copy
  BY <1>1, <1>2, <1>5, GoMenu
<1>7. /\ job[p].op \in {"wizard", "delete", "restore", "uninstall", "migrate"}
      /\ job[p].op # "uninstall" => job[p].t \in Tunnels
  BY <1>1 DEF Task, Ready, Steps, Jobs
<1>8. at = CASE job[p].op = "delete" -> "rmconfig" [] job[p].op = "uninstall" -> "rmbinary"
             [] OTHER -> "enable"
  BY DEF at, AfterReload
<1>9. Task(job[p])'
  <2>1. Ready(job[p])'
    <3>1. job[p].op \in {"backup", "restore"} <=> job[p].copy # None
      BY <1>1 DEF Task, Ready
    <3>2. at \in Steps(job[p].op) /\ at \notin Saves
      BY <1>7, <1>8 DEF Steps, Saves
    <3>3. at \in {"disable", "rmunit", "unit", "enable"} => job[p].t \in Tunnels
      BY <1>7, <1>8
    <3>4. QED
      BY <1>6, <1>7, <1>8, <3>1, <3>2, <3>3 DEF Ready
  <2>2. Deleting(job[p])'
    <3>1. job[p].op = "delete" =>
            job[p].t \in seen.leaving \cup seen.astray /\ unit[job[p].t] # "file"
      BY <1>1 DEF Task, Deleting
    <3>2. job[p].op = "delete" => unit'[job[p].t] = "none" /\ at = "rmconfig"
      BY <1>3, <1>7, <1>8, <3>1 DEF IInv, TypeOK
    <3>3. QED
      BY <1>2, <1>6, <3>1, <3>2 DEF Deleting
  <2>3. Migrating(job[p])'
    BY <1>1, <1>2, <1>6, <1>8 DEF Task, Migrating, Saves
  <2>4. Restoring(job[p])'
    <3>1. \A u \in Tunnels : Tame(u) => Tame(u)'
      BY <1>2 DEF Tame
    <3>2. Restoring(job[p])
      BY <1>1 DEF Task
    <3>3. QED
      BY <1>1, <1>2, <1>6, <1>8, <3>1, <3>2 DEF Restoring, Saves, Installs
  <2>5. Updating(job[p])'
           /\ (job[p].op = "wizard" /\ job[p].at \in Installs => config[job[p].t] = "changed")'
    BY <1>1, <1>2, <1>6, <1>7, <1>8 DEF Task, Updating, Installs
  <2>6. QED
    BY <2>1, <2>2, <2>3, <2>4, <2>5 DEF Task
<1>10. QED
  BY <1>1, <1>4, <1>6, <1>9, TasksMenu DEF IInv

LEMMA EnableStep ==
  ASSUME Alone, Alone', IInv, NEW p \in Procs, Enable(p) PROVE Tasks' /\ Files' /\ Runs'
<1> DEFINE t == job[p].t
           op == job[p].op
           at == AfterEnable(op)
<1>1. p \in Menus /\ Task(job[p]) /\ job[p] \in Jobs /\ job[p].at = "enable"
  BY ActingMenu DEF Enable
<1>2. op \in {"wizard", "restore", "migrate"} /\ t \in Tunnels
  BY <1>1 DEF Task, Ready, Steps, Jobs
<1>3. UNCHANGED <<config, unit, metrics, legacy, binary, tmp>> /\ Go(p, at)
  BY DEF Enable
<1>4. PICK works \in Works(t) : StartUnit(t, works)
  BY DEF Enable, StartUnit
<1>5. /\ Files' /\ \A u \in Tunnels : Quiet(u) => Quiet(u)'
      /\ seen.astray \subseteq seen'.astray
  BY <1>2, <1>3, <1>4, StartFiles DEF IInv
<1>6. Runs'
  <2>1. "menu" = "update" => binary # "old"
    OBVIOUS
  <2>2. QED
    BY <1>2, <1>3, <1>4, <2>1, StartRuns DEF IInv
<1>7. /\ op = "wizard" => at = "end"
      /\ op = "migrate" => at = "forget"
      /\ op = "restore" => at = "install"
  BY DEF AfterEnable
<1>8. at \in Ats
  BY <1>2, <1>7 DEF Ats
<1> HIDE DEF at, t
<1>9. OthersWait(p)
  BY <1>1, <1>3, <1>8, GoMenu
<1>10. Task(job[p])'
  <2>1. CASE op = "wizard"
    BY <1>1, <1>3, <1>7, <1>8, <2>1, GoMenu
  <2>2. CASE op # "wizard"
    <3>1. /\ job'[p].op = op /\ job'[p].at = at /\ job'[p].t = t
          /\ job'[p].data = job[p].data /\ job'[p].todo = job[p].todo /\ job'[p].copy = job[p].copy
      BY <1>1, <1>2, <1>3, <1>7, <1>8, <2>2, GoMenu DEF t
    <3>2. Ready(job[p])'
      <4>1. op \in {"backup", "restore"} <=> job[p].copy # None
        BY <1>1 DEF Task, Ready
      <4>2. at \in Steps(op) /\ at \notin Saves
        BY <1>2, <1>7, <2>2 DEF Steps, Saves
      <4>3. QED
        BY <1>2, <1>7, <2>2, <3>1, <4>1, <4>2 DEF Ready
    <3>3. Migrating(job[p])' /\ Deleting(job[p])'
      <4>1. op = "migrate" => config[t] = "legacy" /\ ~legacy.up
        BY <1>1 DEF Task, Migrating, Saves, t
      <4>2. QED
        BY <1>2, <1>3, <1>7, <2>2, <3>1, <4>1 DEF Migrating, Deleting, Saves
    <3>4. Restoring(job[p])'
      <4>1. \A u \in Tunnels : Tame(u) => Tame(u)'
        BY <1>3, <1>5 DEF Tame
      <4>2. Restoring(job[p])
        BY <1>1 DEF Task
      <4>3. QED
        BY <1>1, <1>2, <1>3, <1>7, <2>2, <3>1, <4>1, <4>2 DEF Restoring, Saves, Installs
    <3>5. Updating(job[p])'
      BY <1>1, <1>2, <1>3, <1>7, <2>2, <3>1 DEF Task, Updating
    <3>6. QED
      BY <2>2, <3>1, <3>2, <3>3, <3>4, <3>5 DEF Task
  <2>3. QED
    BY <2>1, <2>2
<1>11. QED
  BY <1>1, <1>5, <1>6, <1>9, <1>10, TasksMenu DEF IInv

\* What the job of a delete or an uninstall needs, besides being ready.
LEMMA RemovingTask ==
  ASSUME NEW m \in Menus, job'[m].op \in {"delete", "uninstall"}, Ready(job[m])',
         Deleting(job[m])', job'[m].at # "rename"
  PROVE  Task(job[m])'
BY DEF Task, Migrating, Restoring, Updating

LEMMA DisableStep ==
  ASSUME Alone, Alone', IInv, NEW p \in Procs, Disable(p) PROVE Tasks' /\ Files' /\ Runs'
<1>1. p \in Menus /\ Task(job[p]) /\ job[p] \in Jobs /\ job[p].at = "disable"
  BY ActingMenu DEF Disable
<1>2. job[p].op \in {"delete", "uninstall"} /\ job[p].t \in Tunnels /\ job[p].copy = None
  BY <1>1 DEF Task, Ready, Steps, Jobs
<1>3. /\ UNCHANGED <<config, unit, legacy, binary, tmp>> /\ Stop(job[p].t) /\ Go(p, "rmunit")
      /\ seen' = seen \/ seen' = [seen EXCEPT !.leaving = @ \cup {job[p].t}]
  BY DEF Disable
<1>4. Files' /\ Runs'
  BY <1>2, <1>3, StopFiles DEF IInv
<1>5. /\ OthersWait(p) /\ job'[p].op = job[p].op /\ job'[p].at = "rmunit"
      /\ job'[p].t = job[p].t /\ job'[p].copy = job[p].copy
  BY <1>1, <1>3, GoMenu DEF Ats
<1>6. Ready(job[p])'
  BY <1>2, <1>5 DEF Ready, Steps, Saves
<1>7. Deleting(job[p])'
  <2>1. job[p].op = "delete" => job[p].t \in seen'.leaving
    BY DEF Disable, IInv, TypeOK, Seens
  <2>2. QED
    BY <1>5, <2>1 DEF Deleting
<1>8. QED
  BY <1>1, <1>2, <1>4, <1>5, <1>6, <1>7, RemovingTask, TasksMenu DEF IInv

LEMMA RemoveUnitStep ==
  ASSUME Alone, Alone', IInv, NEW p \in Procs, RemoveUnit(p) PROVE Tasks' /\ Files' /\ Runs'
<1> DEFINE at == IF job[p].op = "delete" THEN "reload" ELSE "next"
<1>1. p \in Menus /\ Task(job[p]) /\ job[p] \in Jobs /\ job[p].at = "rmunit"
  BY ActingMenu DEF RemoveUnit
<1>2. job[p].op \in {"delete", "uninstall"} /\ job[p].t \in Tunnels /\ job[p].copy = None
  BY <1>1 DEF Task, Ready, Steps, Jobs
<1>3. UNCHANGED <<config, metrics, service, legacy, binary, tmp, seen>> /\ Go(p, at)
  BY DEF RemoveUnit
<1>4. /\ unit'[job[p].t] # "file"
      /\ \A u \in Tunnels : unit[u] = "none" => unit'[u] = "none"
  BY <1>2 DEF RemoveUnit, IInv, TypeOK
<1>5. Files' /\ Runs'
  <2>1. \A u \in Tunnels : Quiet(u) => Quiet(u)'
    BY <1>3, <1>4 DEF Quiet
  <2>2. Free' /\ Twin' /\ NoTwin' /\ Stopped' /\ Kept'
    BY <1>3, <2>1 DEF IInv, Files, Free, Twin, NoTwin, Stopped, Kept
  <2>3. GoneLeavesNothing'
    BY <1>3, <1>4 DEF IInv, Files, GoneLeavesNothing, TypeOK, Seens
  <2>4. Runs'
    BY <1>3, FilesKept DEF IInv, Runs
  <2>5. QED
    BY <2>2, <2>3, <2>4 DEF Files
<1>6. /\ OthersWait(p) /\ job'[p].op = job[p].op /\ job'[p].at = at
      /\ job'[p].t = job[p].t /\ job'[p].copy = job[p].copy
  BY <1>1, <1>3, GoMenu DEF Ats
<1>7. Ready(job[p])'
  BY <1>2, <1>6 DEF Ready, Steps, Saves
<1>8. Deleting(job[p])'
  <2>1. job[p].op = "delete" => job[p].t \in seen.leaving \cup seen.astray
    BY <1>1 DEF Task, Deleting
  <2>2. QED
    BY <1>3, <1>4, <1>6, <2>1 DEF Deleting
<1>9. QED
  BY <1>1, <1>2, <1>5, <1>6, <1>7, <1>8, RemovingTask, TasksMenu DEF IInv

LEMMA RemoveConfigStep ==
  ASSUME Alone, Alone', IInv, NEW p \in Procs, RemoveConfig(p) PROVE Tasks' /\ Files' /\ Runs'
<1> DEFINE t == job[p].t
<1>1. p \in Menus /\ Task(job[p]) /\ job[p] \in Jobs /\ job[p].at = "rmconfig"
  BY ActingMenu DEF RemoveConfig
<1>2. job[p].op = "delete" /\ t \in Tunnels /\ job[p].copy = None
  BY <1>1 DEF Task, Ready, Steps, Jobs
<1>3. UNCHANGED <<unit, metrics, service, legacy, binary, tmp>> /\ Go(p, "rmmetrics")
  BY DEF RemoveConfig
<1>4. config'[t] = None /\ \A u \in Tunnels : u # t => config'[u] = config[u]
  BY <1>2 DEF RemoveConfig, IInv, TypeOK, Archives
<1>5. /\ seen'.leaving = seen.leaving /\ seen'.gone = seen.gone
      /\ seen'.astray = seen.astray /\ seen'.reported = seen.reported
      /\ seen'.applied = seen.applied \ {t}
  BY DEF RemoveConfig, IInv, TypeOK, Seens
<1>6. seen'.discarded <=> seen.discarded \/ config[t] = "legacy"
  BY DEF RemoveConfig, IInv, TypeOK, Seens
<1>7. t \in seen.leaving \cup seen.astray /\ unit[t] = "none"
  BY <1>1, <1>2 DEF Task, Deleting
<1> HIDE DEF t
<1>8. \A u \in Tunnels : Quiet(u) <=> Quiet(u)'
  BY <1>3, <1>5 DEF Quiet
<1>9. Quiet(t)
  BY <1>7 DEF Quiet, IInv, Files, Stopped
<1>10. Free'
  BY <1>2, <1>3, <1>4, <1>8, <1>9 DEF IInv, Files, Free
<1>11. Twin'
  BY <1>3, <1>4, <1>5, <1>8, NoneAssumption DEF IInv, Files, Twin
<1>12. NoTwin' /\ Stopped'
  BY <1>3, <1>5 DEF IInv, Files, NoTwin, Stopped
<1>13. GoneLeavesNothing'
  BY <1>3, <1>4, <1>5 DEF IInv, Files, GoneLeavesNothing, TypeOK, Seens
<1>14. Kept'
  BY <1>3, <1>4, <1>6 DEF IInv, Files, Kept
<1>15. Runs'
  BY <1>3, <1>4, <1>5 DEF IInv, Runs, RestartApplies, Replaced, TypeOK, Seens
<1>16. /\ OthersWait(p) /\ job'[p].op = job[p].op /\ job'[p].at = "rmmetrics"
       /\ job'[p].t = t /\ job'[p].copy = job[p].copy
  BY <1>1, <1>3, GoMenu DEF Ats, t
<1>17. Ready(job[p])'
  BY <1>2, <1>16 DEF Ready, Steps, Saves
<1>18. Deleting(job[p])'
  BY <1>3, <1>4, <1>5, <1>7, <1>16 DEF Deleting
<1>19. QED
  BY <1>1, <1>2, <1>10, <1>11, <1>12, <1>13, <1>14, <1>15, <1>16, <1>17, <1>18, RemovingTask,
     TasksMenu DEF IInv, Files

LEMMA RemoveMetricsStep ==
  ASSUME Alone, Alone', IInv, NEW p \in Procs, RemoveMetrics(p) PROVE Tasks' /\ Files' /\ Runs'
<1> DEFINE t == job[p].t
<1>1. p \in Menus /\ Task(job[p]) /\ job[p] \in Jobs /\ job[p].at = "rmmetrics"
  BY ActingMenu DEF RemoveMetrics
<1>2. job[p].op = "delete" /\ t \in Tunnels
  BY <1>1 DEF Task, Ready, Steps, Jobs
<1>3. /\ UNCHANGED <<config, unit, service, legacy, binary, tmp>> /\ Go(p, "end")
      /\ metrics' = metrics \ {t}
  BY DEF RemoveMetrics
<1>4. /\ seen'.leaving = seen.leaving \ {t}
      /\ seen'.gone = seen.gone \cup ({t} \cap seen.leaving)
      /\ seen'.astray = seen.astray /\ seen'.reported = seen.reported
      /\ seen'.applied = seen.applied /\ seen'.discarded = seen.discarded
  BY DEF RemoveMetrics, IInv, TypeOK, Seens
<1>5. config[t] = None /\ unit[t] = "none"
  BY <1>1, <1>2 DEF Task, Deleting
<1> HIDE DEF t
<1>6. Free' /\ Twin' /\ NoTwin' /\ Stopped' /\ Kept'
  BY <1>3, <1>4 DEF IInv, Files, Free, Twin, Quiet, NoTwin, Stopped, Kept
<1>7. GoneLeavesNothing'
  BY <1>3, <1>4, <1>5 DEF IInv, Files, Stopped, GoneLeavesNothing
<1>8. Runs'
  BY <1>3, <1>4 DEF IInv, Runs, RestartApplies, Replaced
<1>9. OthersWait(p) /\ Task(job[p])'
  BY <1>1, <1>3, GoMenu DEF Ats
<1>10. QED
  BY <1>1, <1>6, <1>7, <1>8, <1>9, TasksMenu DEF IInv, Files

LEMMA RemoveBinaryStep ==
  ASSUME Alone, Alone', IInv, NEW p \in Procs, RemoveBinary(p) PROVE Tasks' /\ Files' /\ Runs'
<1>1. p \in Menus /\ job[p].at = "rmbinary"
  BY ActingMenu DEF RemoveBinary
<1>2. UNCHANGED <<unit, service, tmp>> /\ binary' = "none" /\ Go(p, "end")
  BY DEF RemoveBinary
<1>3. OthersWait(p) /\ Task(job[p])'
  BY <1>1, <1>2, GoMenu DEF Ats
<1>4. CASE UNCHANGED <<config, metrics, archive, legacy, seen>>
  <2>1. Files'
    BY <1>2, <1>4, FilesKept DEF IInv
  <2>2. Runs'
    BY <1>2, <1>4 DEF IInv, Runs, RestartApplies, Replaced
  <2>3. QED
    BY <1>1, <1>3, <2>1, <2>2, TasksMenu DEF IInv
<1>5. CASE /\ config' = [t \in Tunnels |-> None] /\ metrics' = {} /\ archive' = None
           /\ legacy' = [legacy EXCEPT !.config = None]
           /\ seen' = [seen EXCEPT !.discarded = TRUE, !.applied = {}]
  <2>1. /\ seen'.leaving = seen.leaving /\ seen'.gone = seen.gone
        /\ seen'.astray = seen.astray /\ seen'.reported = seen.reported
        /\ seen'.applied = {} /\ seen'.discarded
    BY <1>5 DEF IInv, TypeOK, Seens
  <2>2. legacy'.config = None /\ legacy'.up = legacy.up /\ \A t \in Tunnels : config'[t] = None
    BY <1>5 DEF IInv, TypeOK
  <2>3. Free' /\ Twin' /\ Kept'
    BY <2>1, <2>2, NoneAssumption DEF Free, Twin, Kept
  <2>4. NoTwin' /\ Stopped'
    BY <1>2, <2>1, <2>2 DEF IInv, Files, NoTwin, Stopped
  <2>5. GoneLeavesNothing'
    BY <1>2, <1>5, <2>1, <2>2 DEF IInv, Files, GoneLeavesNothing, TypeOK, Seens
  <2>6. Runs'
    BY <1>2, <2>1 DEF IInv, Runs, RestartApplies, Replaced
  <2>7. QED
    BY <1>1, <1>3, <2>3, <2>4, <2>5, <2>6, TasksMenu DEF IInv, Files
<1>6. QED
  BY <1>4, <1>5 DEF RemoveBinary

-------------------------------------------------------------------------------
(* Choosing the next step, restarting, backing up and restoring.           *)

LEMMA NothingElse ==
  ASSUME IInv, UNCHANGED <<config, unit, metrics, service, legacy, binary, seen>>
  PROVE  Files' /\ Runs'
BY FilesKept DEF IInv, Runs

\* A menu's operation goes on as r.
LEMMA MenuJob ==
  ASSUME IInv, NEW p \in Menus, NEW r, job' = [job EXCEPT ![p] = r]
  PROVE  job'[p] = r /\ OthersWait(p)
BY DEF OthersWait, IInv, TypeOK, Procs

LEMMA UninstallNextStep ==
  ASSUME Alone, Alone', IInv, NEW p \in Procs, UninstallNext(p) PROVE Tasks' /\ Files' /\ Runs'
<1> DEFINE todo == job[p].todo
           r == IF todo = {} THEN [job[p] EXCEPT !.at = "reload"]
                ELSE [job[p] EXCEPT !.at = "disable", !.t = Min(todo), !.todo = todo \ {Min(todo)}]
<1>1. /\ p \in Menus /\ Task(job[p]) /\ job[p] \in Jobs /\ job[p].at = "next"
      /\ todo \in SUBSET Tunnels /\ (todo # {} => Min(todo) \in Tunnels)
  BY ActingMenu, MinIn DEF UninstallNext, Jobs
<1>2. job[p].op = "uninstall" /\ job[p].copy = None
  BY <1>1 DEF Task, Ready, Steps, Jobs
<1>3. job' = [job EXCEPT ![p] = r]
  BY DEF UninstallNext
<1>4. /\ r.op = "uninstall" /\ r.copy = None
      /\ r.at = "reload" \/ (r.at = "disable" /\ r.t \in Tunnels)
  BY <1>1, <1>2 DEF Jobs
<1> HIDE DEF r
<1>5. job'[p] = r /\ OthersWait(p)
  BY <1>1, <1>3, MenuJob
<1>6. Ready(job[p])' /\ Deleting(job[p])'
  BY <1>4, <1>5 DEF Ready, Deleting, Steps, Saves
<1>7. Files' /\ Runs'
  BY NothingElse DEF UninstallNext
<1>8. QED
  BY <1>1, <1>4, <1>5, <1>6, <1>7, RemovingTask, TasksMenu DEF IInv

\* What a restart-all, the end of an edit or of an update, and a backup need.
LEMMA PlainTask ==
  ASSUME NEW m \in Menus, job'[m].op \in {"edit", "restart", "update", "backup"}, Ready(job[m])',
         Updating(job[m])'
  PROVE  Task(job[m])'
BY DEF Task, Deleting, Migrating, Restoring

LEMMA RestartNextStep ==
  ASSUME Alone, Alone', IInv, NEW p \in Procs, RestartNext(p) PROVE Tasks' /\ Files' /\ Runs'
<1> DEFINE todo == job[p].todo
           t == Min(todo)
           r == [job[p] EXCEPT !.todo = todo \ {t}]
<1>1. /\ job[p] \in Jobs /\ Ready(job[p]) /\ job[p].at = "restart" /\ t \in Tunnels
  BY AllReady, MinIn DEF IInv, RestartNext, Jobs
<1>2. /\ UNCHANGED <<config, unit, legacy, binary, tmp>>
      /\ job' = [job EXCEPT ![p] = r]
  <2>1. job' = [job EXCEPT ![p].todo = todo \ {t}]
    BY DEF RestartNext
  <2>2. QED
    BY <2>1 DEF RestartNext, IInv, TypeOK
<1>3. PICK works \in Works(t) : Restart(t, works, job[p].op)
  BY DEF RestartNext
<1>4. job[p].op \in {"edit", "restart", "update"} /\ (job[p].op = "update" => binary # "old")
  <2>1. job[p].op \in {"edit", "restart", "update"}
    BY <1>1 DEF Ready, Steps, Jobs
  <2>2. CASE p \in Menus
    BY <1>1, <2>1, <2>2 DEF IInv, Tasks, Task, Updating
  <2>3. CASE p = Timer
    BY <2>1, <2>3 DEF IInv, Tasks
  <2>4. QED
    BY <2>1, <2>2, <2>3 DEF Procs
<1>5. /\ Files' /\ \A u \in Tunnels : Quiet(u) => Quiet(u)'
      /\ seen.astray \subseteq seen'.astray
      /\ seen.leaving \subseteq seen'.leaving \cup seen'.astray
  BY <1>1, <1>2, <1>3, StartFiles DEF IInv
<1>6. Runs'
  BY <1>1, <1>2, <1>3, <1>4, StartRuns DEF IInv
<1>7. /\ r.op = job[p].op /\ r.at = "restart" /\ r.t = job[p].t /\ r.copy = job[p].copy
      /\ r.data = job[p].data
  BY <1>1 DEF Jobs
<1> HIDE DEF r, t
<1>8. job'[p] = r /\ \A q \in Procs : q # p => job'[q] = job[q]
  BY <1>2 DEF IInv, TypeOK
<1>9. Ready(job[p])'
  BY <1>1, <1>4, <1>7, <1>8 DEF Ready, Saves
<1>10. CASE p \in Menus
  <2>1. Updating(job[p])'
    BY <1>2, <1>4, <1>7, <1>8 DEF Updating
  <2>2. Task(job[p])'
    BY <1>4, <1>7, <1>8, <1>9, <1>10, <2>1, PlainTask
  <2>3. OthersWait(p)
    BY <1>8 DEF OthersWait
  <2>4. QED
    BY <1>1, <1>5, <1>6, <1>10, <2>2, <2>3, TasksMenu DEF IInv
<1>11. CASE p = Timer
  <2>1. Calm
    BY <1>2, <1>5 DEF Calm
  <2>2. \A m \in Menus : job'[m] = job[m]
    BY <1>8, <1>11, TimerAssumption DEF Procs
  <2>3. job'[Timer].op \in {"idle", "restart"} /\ Ready(job[Timer])'
    BY <1>7, <1>8, <1>9, <1>11 DEF IInv, Tasks
  <2>4. Tasks'
    BY <2>1, <2>2, <2>3, TasksCalm DEF IInv
  <2>5. QED
    BY <1>5, <1>6, <2>4
<1>12. QED
  BY <1>10, <1>11 DEF Procs

LEMMA RestartDoneStep ==
  ASSUME Alone, Alone', IInv, NEW p \in Procs, RestartDone(p) PROVE Tasks' /\ Files' /\ Runs'
<1>1. /\ Files' /\ Runs' /\ Go(p, "end")
      /\ UNCHANGED <<config, unit, legacy, binary, tmp, service, seen>>
  BY NothingElse DEF RestartDone
<1>2. CASE p \in Menus
  BY <1>1, <1>2, GoMenu, TasksMenu DEF RestartDone, IInv, Ats
<1>3. CASE p = Timer
  <2>1. Calm
    BY <1>1 DEF Calm, Quiet
  <2>2. job'[Timer] = Idle /\ \A m \in Menus : job'[m] = job[m]
    BY <1>1, <1>3, GoStep, TimerAssumption DEF IInv, TypeOK, Procs, Ats
  <2>3. job'[Timer].op \in {"idle", "restart"} /\ Ready(job[Timer])'
    BY <2>2 DEF Idle, Ready, Steps, Saves
  <2>4. QED
    BY <1>1, <2>1, <2>2, <2>3, TasksCalm DEF IInv
<1>4. QED
  BY <1>2, <1>3 DEF Procs

LEMMA CopyStep ==
  ASSUME Alone, Alone', IInv, NEW p \in Procs, Copy(p), job' \in [Procs -> Jobs]
  PROVE  Tasks' /\ Files' /\ Runs'
<1> DEFINE todo == job[p].todo
           t == Min(todo)
<1>1. p \in Menus /\ Task(job[p]) /\ job[p] \in Jobs /\ job[p].at = "copy"
  BY ActingMenu DEF Copy
<1>2. job[p].op = "backup" /\ job[p].copy \in Archives
  BY <1>1 DEF Task, Ready, Steps, Jobs
<1>3. Files' /\ Runs'
  BY NothingElse DEF Copy
<1>4. CASE todo = {}
  BY <1>1, <1>3, <1>4, GoMenu, TasksMenu DEF Copy, IInv, Ats
<1>5. CASE todo # {}
  <2>1. job' = [job EXCEPT ![p].todo = todo \ {t}, ![p].copy[t] = config[t]]
    BY <1>5 DEF Copy
  <2>2. /\ OthersWait(p) /\ job'[p].op = "backup" /\ job'[p].at = "copy"
        /\ job'[p].copy # None
    <3>1. OthersWait(p)
      BY <2>1 DEF OthersWait, IInv, TypeOK
    <3>2. job'[p].op = "backup" /\ job'[p].at = "copy"
      BY <1>1, <1>2, <2>1 DEF IInv, TypeOK, Jobs
    <3>3. job'[p].copy = [job[p].copy EXCEPT ![t] = config[t]]
      BY <1>1, <2>1 DEF IInv, TypeOK, Jobs
    <3>4. [job[p].copy EXCEPT ![t] = config[t]] \in Archives
      BY <1>1, <1>2, <1>5, MinIn DEF IInv, TypeOK, Archives, Jobs
    <3>5. QED
      BY <3>1, <3>2, <3>3, <3>4, ArchiveAssumption
  <2>3. Ready(job[p])' /\ Updating(job[p])'
    BY <2>2 DEF Ready, Updating, Steps, Saves
  <2>4. QED
    BY <1>1, <1>3, <2>2, <2>3, PlainTask, TasksMenu DEF IInv
<1>6. QED
  BY <1>4, <1>5

\* What the job of a restore needs, besides being ready.
LEMMA RestoringTask ==
  ASSUME NEW m \in Menus, job'[m].op = "restore", Ready(job[m])', Restoring(job[m])',
         job'[m].at # "rename"
  PROVE  Task(job[m])'
BY DEF Task, Deleting, Migrating, Updating

LEMMA ExtractStep ==
  ASSUME Alone, Alone', IInv, NEW p \in Procs, Extract(p) PROVE Tasks' /\ Files' /\ Runs'
<1> DEFINE todo == job[p].todo
           copy == job[p].copy
           r == IF todo = {}
                THEN [job[p] EXCEPT !.at = "install",
                                    !.todo = {t \in listTunnels : copy[t] # None}]
                ELSE [job[p] EXCEPT !.at = "truncate", !.t = Min(todo),
                                    !.data = copy[Min(todo)], !.todo = todo \ {Min(todo)}]
<1>1. /\ p \in Menus /\ Task(job[p]) /\ job[p] \in Jobs /\ job[p].at = "extract"
      /\ todo \in SUBSET Tunnels /\ (todo # {} => Min(todo) \in todo)
  BY ActingMenu, MinIn DEF Extract, Jobs
<1>2. job[p].op = "restore" /\ copy # None
  BY <1>1 DEF Task, Ready, Steps, Jobs
<1>3. /\ \A u \in todo : copy[u] # None
      /\ \A u \in Tunnels : copy[u] # None /\ u \notin todo => Tame(u)
  BY <1>1, <1>2 DEF Task, Restoring, Saves
<1>4. UNCHANGED <<config, unit, metrics, service, legacy, binary, tmp, seen>>
        /\ job' = [job EXCEPT ![p] = r]
  BY DEF Extract
<1>5. Files' /\ Runs' /\ \A u \in Tunnels : Tame(u) => Tame(u)'
  BY <1>4, NothingElse DEF Tame
<1>6. job'[p] = r /\ OthersWait(p)
  BY <1>1, <1>4, MenuJob
<1>7. r.op = "restore" /\ r.copy = copy
  BY <1>1, <1>2 DEF Jobs
<1>8. CASE todo = {}
  <2>1. r.at = "install" /\ r.todo = {u \in listTunnels : copy[u] # None}
    BY <1>1, <1>8 DEF Jobs
  <2> HIDE DEF r
  <2>2. Ready(job[p])'
    BY <1>2, <1>6, <1>7, <2>1 DEF Ready, Steps, Saves
  <2>3. Restoring(job[p])'
    <3>1. \A u \in r.todo : copy[u] # None /\ config'[u] # None
      BY <1>4, <2>1 DEF listTunnels
    <3>2. \A u \in Tunnels : copy[u] # None => Tame(u)'
      BY <1>3, <1>5, <1>8
    <3>3. QED
      BY <1>6, <1>7, <2>1, <3>1, <3>2 DEF Restoring, Saves, Installs
  <2>4. QED
    BY <1>1, <1>5, <1>6, <1>7, <2>1, <2>2, <2>3, RestoringTask, TasksMenu DEF IInv
<1>9. CASE todo # {}
  <2>1. /\ r.at = "truncate" /\ r.todo = todo \ {Min(todo)} /\ r.t = Min(todo)
        /\ r.data = copy[Min(todo)]
    BY <1>1, <1>9 DEF Jobs
  <2> HIDE DEF r
  <2>2. r.t \in Tunnels /\ r.data # None /\ r.data = r.copy[r.t]
    BY <1>1, <1>3, <1>7, <1>9, <2>1
  <2>3. Ready(job[p])'
    BY <1>2, <1>6, <1>7, <2>1, <2>2 DEF Ready, Steps, Saves
  <2>4. Restoring(job[p])'
    BY <1>3, <1>5, <1>6, <1>7, <2>1 DEF Restoring, Saves, Installs
  <2>5. QED
    BY <1>1, <1>5, <1>6, <1>7, <2>1, <2>3, <2>4, RestoringTask, TasksMenu DEF IInv
<1>10. QED
  BY <1>8, <1>9

LEMMA InstallNextStep ==
  ASSUME Alone, Alone', IInv, NEW p \in Procs, InstallNext(p) PROVE Tasks' /\ Files' /\ Runs'
<1> DEFINE todo == job[p].todo
           t == Min(todo)
           r == [job[p] EXCEPT !.todo = todo \ {t}]
           s == [job[p] EXCEPT !.at = "unit", !.t = t, !.todo = todo \ {t}]
<1>1. /\ p \in Menus /\ Task(job[p]) /\ job[p] \in Jobs /\ job[p].at = "install"
      /\ todo \in SUBSET Tunnels /\ (todo # {} => t \in todo)
  BY ActingMenu, MinIn DEF InstallNext, Jobs
<1>2. job[p].op = "restore" /\ job[p].copy # None
  BY <1>1 DEF Task, Ready, Steps, Jobs
<1>3. /\ \A u \in todo : job[p].copy[u] # None /\ config[u] # None
      /\ \A u \in Tunnels : job[p].copy[u] # None => Tame(u)
  BY <1>1, <1>2 DEF Task, Restoring, Saves, Installs
<1>4. UNCHANGED <<config, unit, metrics, service, legacy, binary, tmp, seen>>
  BY DEF InstallNext
<1>5. Files' /\ Runs' /\ \A u \in Tunnels : Tame(u) => Tame(u)'
  BY <1>4, NothingElse DEF Tame
<1>6. CASE Go(p, "end")
  BY <1>1, <1>5, <1>6, GoMenu, TasksMenu DEF IInv, Ats
<1>7. ASSUME NEW q, q \in {r, s}, todo # {}, job' = [job EXCEPT ![p] = q] PROVE Tasks'
  <2>1. /\ q.op = "restore" /\ q.copy = job[p].copy /\ q.todo = todo \ {t}
        /\ q.at = "install" \/ (q.at = "unit" /\ q.t = t)
    BY <1>1, <1>2, <1>7 DEF Jobs
  <2>2. job'[p] = q /\ OthersWait(p)
    BY <1>1, <1>7, MenuJob
  <2>3. t \in todo /\ t \in Tunnels
    BY <1>1, <1>7
  <2> HIDE DEF r, s, t
  <2>4. Ready(job[p])'
    BY <1>2, <2>1, <2>2, <2>3 DEF Ready, Steps, Saves
  <2>5. Restoring(job[p])'
    <3>1. \A u \in todo : job[p].copy[u] # None /\ config'[u] # None
      BY <1>3, <1>4
    <3>2. QED
      BY <1>3, <1>5, <2>1, <2>2, <2>3, <3>1 DEF Restoring, Saves, Installs
  <2>6. QED
    BY <1>1, <2>1, <2>2, <2>4, <2>5, RestoringTask, TasksMenu DEF IInv
<1>8. \/ Go(p, "end")
      \/ todo # {} /\ (job' = [job EXCEPT ![p] = r] \/ job' = [job EXCEPT ![p] = s])
  BY <1>1 DEF InstallNext, IInv, TypeOK
<1> HIDE DEF r, s
<1>9. QED
  BY <1>5, <1>6, <1>7, <1>8

-------------------------------------------------------------------------------
(* Updating.                                                               *)

LEMMA DownloadStep ==
  ASSUME Alone, Alone', IInv, NEW p \in Procs, Download(p) \/ Rename(p)
  PROVE  Tasks' /\ Files' /\ Runs'
<1>1. /\ p \in Menus /\ Task(job[p]) /\ job[p] \in Jobs
      /\ job[p].at \in {"download", "downloading", "rename"}
  BY ActingMenu DEF Download, Rename
<1>2. job[p].op = "update" /\ job[p].copy = None
  BY <1>1 DEF Task, Ready, Steps, Jobs
<1>3. UNCHANGED <<config, unit, metrics, service, legacy, seen>>
  BY DEF Download, Rename
<1>4. job[p].at = "rename" => tmp = Latest
  BY <1>1 DEF Task, Updating
\* The build that is renamed over the old one is whole.
<1>5. UNCHANGED binary \/ binary' = Latest
  BY <1>4 DEF Download, Rename
<1>6. Files'
  BY <1>3, FilesKept DEF IInv
<1>7. Runs'
  BY <1>3, <1>5 DEF IInv, Runs, RestartApplies, Replaced, Latest
<1>8. PICK at \in Ats : /\ Go(p, at) /\ at \in {"downloading", "rename", "stat", "end"}
                        /\ at = "rename" => tmp' = Latest
                        /\ at = "stat" => binary' = Latest
  <2>1. CASE Rename(p)
    <3>1. tmp # None
      BY <1>4, <2>1, NoneAssumption DEF Rename, Latest
    <3>2. QED
      BY <1>4, <2>1, <3>1 DEF Rename, Ats
  <2>2. CASE Download(p)
    BY <2>2 DEF Download, Ats
  <2>3. QED
    BY <2>1, <2>2
<1>9. OthersWait(p) /\ Task(job[p])'
  <2>1. CASE at = "end"
    BY <1>1, <1>8, <2>1, GoMenu
  <2>2. CASE at # "end"
    <3>1. /\ OthersWait(p) /\ job'[p].op = "update" /\ job'[p].at = at
          /\ job'[p].copy = None
      BY <1>1, <1>2, <1>8, <2>2, GoMenu
    <3>2. Ready(job[p])' /\ Updating(job[p])'
      BY <1>8, <2>2, <3>1 DEF Ready, Updating, Steps, Saves, Latest
    <3>3. QED
      BY <1>1, <3>1, <3>2, PlainTask
  <2>3. QED
    BY <2>1, <2>2
<1>10. QED
  BY <1>1, <1>6, <1>7, <1>9, TasksMenu DEF IInv

LEMMA OrphanTask ==
  ASSUME NEW m \in Menus, job'[m].op = "orphan", job'[m].at \in {"retire", "rmlegacy"},
         job'[m].copy = None, binary' # "old"
  PROVE  Task(job[m])'
<1>1. Ready(job[m])'
  BY DEF Ready, Steps, Saves
<1>2. QED
  BY <1>1 DEF Task, Deleting, Migrating, Restoring, Updating

\* What the job of a migration needs, besides being ready.
LEMMA MigratingTask ==
  ASSUME NEW m \in Menus, job'[m].op = "migrate", Ready(job[m])', Migrating(job[m])',
         job'[m].at # "rename", binary' # "old"
  PROVE  Task(job[m])'
BY DEF Task, Deleting, Restoring, Updating

LEMMA ScanStep ==
  ASSUME IInv, NEW p \in Menus, Scan(p), job[p].copy = None, binary' # "old"
  PROVE  OthersWait(p) /\ Task(job[p])'
<1> DEFINE r == [job[p] EXCEPT !.op = "retune", !.at = "scan", !.todo = listTunnels]
<1>1. job[p] \in Jobs
  BY DEF IInv, TypeOK, Procs
<1>2. r.op = "retune" /\ r.at = "scan" /\ r.copy = None
  BY <1>1 DEF Jobs
<1>3. job' = [job EXCEPT ![p] = r]
  BY DEF Scan
<1> HIDE DEF r
<1>4. job'[p] = r /\ OthersWait(p)
  BY <1>3, MenuJob
<1>5. QED
  BY <1>2, <1>4, ScanTask

LEMMA MigrateStep ==
  ASSUME Alone, Alone', IInv, NEW p \in Procs, Migrate(p) PROVE Tasks' /\ Files' /\ Runs'
<1> DEFINE free == Tunnels \ listTunnels
           o == [job[p] EXCEPT !.op = "orphan", !.at = "retire"]
           r == [job[p] EXCEPT !.op = "migrate", !.at = "truncate", !.t = Min(free),
                               !.data = legacy.config]
<1>1. p \in Menus /\ Task(job[p]) /\ job[p] \in Jobs /\ job[p].at = "stat"
  BY ActingMenu DEF Migrate
<1>2. job[p].op = "update" /\ job[p].copy = None /\ binary # "old"
  BY <1>1 DEF Task, Ready, Updating, Steps, Jobs
<1>3. UNCHANGED <<config, unit, metrics, service, legacy, binary, tmp, seen>>
  BY DEF Migrate
<1>4. Files' /\ Runs'
  BY <1>3, NothingElse
<1>5. CASE Scan(p)
  BY <1>1, <1>2, <1>3, <1>4, <1>5, ScanStep, TasksMenu DEF IInv
<1>6. CASE job' = [job EXCEPT ![p] = o]
  <2>1. o.op = "orphan" /\ o.at = "retire" /\ o.copy = None
    BY <1>1, <1>2 DEF Jobs
  <2> HIDE DEF o
  <2>2. job'[p] = o /\ OthersWait(p)
    BY <1>1, <1>6, MenuJob
  <2>3. QED
    BY <1>1, <1>2, <1>3, <1>4, <2>1, <2>2, OrphanTask, TasksMenu DEF IInv
<1>7. CASE legacy.config # None /\ free # {} /\ job' = [job EXCEPT ![p] = r]
  <2>1. Min(free) \in Tunnels /\ config[Min(free)] = None
    <3>1. Min(free) \in free
      BY <1>7, MinIn
    <3>2. QED
      BY <3>1 DEF listTunnels
  <2>2. /\ r.op = "migrate" /\ r.at = "truncate" /\ r.t = Min(free) /\ r.data = legacy.config
        /\ r.copy = None
    BY <1>1, <1>2 DEF Jobs
  <2> HIDE DEF r, free
  <2>3. job'[p] = r /\ OthersWait(p)
    BY <1>1, <1>7, MenuJob
  <2>4. legacy.config = "legacy"
    BY <1>7 DEF IInv, TypeOK
  <2>5. Ready(job[p])'
    BY <2>1, <2>2, <2>3, <2>4 DEF Ready, Steps, Saves
  <2>6. Migrating(job[p])'
    <3>1. Quiet(Min(free))
      BY <1>7, <2>1 DEF IInv, Files, Free
    <3>2. QED
      BY <1>3, <1>7, <2>2, <2>3, <3>1 DEF Migrating, Quiet, Saves
  <2>7. QED
    BY <1>1, <1>2, <1>3, <1>4, <2>2, <2>3, <2>5, <2>6, MigratingTask, TasksMenu DEF IInv
<1>8. QED
  BY <1>5, <1>6, <1>7 DEF Migrate

LEMMA RetireStep ==
  ASSUME Alone, Alone', IInv, NEW p \in Procs, Retire(p) PROVE Tasks' /\ Files' /\ Runs'
<1> DEFINE t == job[p].t
<1>1. p \in Menus /\ Task(job[p]) /\ job[p] \in Jobs /\ job[p].at \in {"retire", "rmlegacy"}
  BY ActingMenu DEF Retire
<1>2. job[p].op \in {"migrate", "orphan"} /\ job[p].copy = None /\ binary # "old"
  BY <1>1 DEF Task, Ready, Updating, Steps, Jobs
<1>3. UNCHANGED <<config, unit, metrics, service, binary, tmp, seen>>
  BY DEF Retire
<1>4. /\ legacy'.config = legacy.config /\ (legacy'.up => legacy.up)
      /\ job[p].at = "retire" => ~legacy'.up
  BY DEF Retire, IInv, TypeOK
<1>5. Files' /\ Runs'
  <2>1. Files'
    BY <1>3, <1>4 DEF IInv, Files, Free, Twin, Quiet, NoTwin, Stopped, GoneLeavesNothing, Kept
  <2>2. QED
    BY <1>3, <2>1, FilesKept DEF IInv, Runs
<1>6. CASE Scan(p)
  BY <1>1, <1>2, <1>3, <1>5, <1>6, ScanStep, TasksMenu DEF IInv
<1>7. ASSUME NEW at \in {"rmlegacy", "unit"}, Go(p, at),
             at = "rmlegacy" => job[p].at = "retire",
             at = "unit" => job[p].op = "migrate" /\ job[p].at = "rmlegacy"
      PROVE  Tasks'
  <2>1. /\ OthersWait(p) /\ job'[p].op = job[p].op /\ job'[p].at = at
        /\ job'[p].t = t /\ job'[p].copy = None
    BY <1>1, <1>2, <1>7, GoMenu DEF Ats
  <2>2. CASE job[p].op = "orphan"
    BY <1>1, <1>2, <1>3, <1>7, <2>1, <2>2, OrphanTask, TasksMenu DEF IInv
  <2>3. CASE job[p].op = "migrate"
    <3>1. t \in Tunnels /\ config[t] = "legacy" /\ (job[p].at = "rmlegacy" => ~legacy.up)
      BY <1>1, <2>3 DEF Task, Ready, Migrating, Saves
    <3>2. Ready(job[p])'
      BY <1>7, <2>1, <2>3, <3>1 DEF Ready, Steps, Saves
    <3>3. Migrating(job[p])'
      BY <1>3, <1>4, <1>7, <2>1, <3>1 DEF Migrating, Saves
    <3>4. QED
      BY <1>1, <1>2, <1>3, <1>7, <2>1, <2>3, <3>2, <3>3, MigratingTask, TasksMenu DEF IInv
  <2>4. QED
    BY <1>2, <2>2, <2>3
<1>8. \/ Scan(p)
      \/ job[p].at = "retire" /\ Go(p, "rmlegacy")
      \/ job[p].at = "rmlegacy" /\ job[p].op = "migrate" /\ Go(p, "unit")
  BY DEF Retire
<1>9. QED
  BY <1>5, <1>6, <1>7, <1>8

LEMMA ForgetStep ==
  ASSUME Alone, Alone', IInv, NEW p \in Procs, Forget(p) PROVE Tasks' /\ Files' /\ Runs'
<1>1. p \in Menus /\ Task(job[p]) /\ job[p] \in Jobs /\ job[p].at = "forget"
  BY ActingMenu DEF Forget
<1>2. job[p].op = "migrate"
  BY <1>1 DEF Task, Ready, Steps, Jobs
<1>3. /\ job[p].t \in Tunnels /\ job[p].copy = None /\ binary # "old"
      /\ config[job[p].t] = "legacy"
  BY <1>1, <1>2 DEF Task, Ready, Migrating, Updating, Saves
<1>4. UNCHANGED <<config, unit, metrics, service, binary, tmp, seen>> /\ Scan(p)
  BY DEF Forget
<1>5. legacy'.config = None /\ legacy'.up = legacy.up
  BY DEF Forget, IInv, TypeOK
<1>6. Files'
  <2>1. Free' /\ Twin'
    BY <1>4, <1>5 DEF IInv, Files, Free, Twin, Quiet
  <2>2. NoTwin' /\ Stopped' /\ GoneLeavesNothing'
    BY <1>4, <1>5 DEF IInv, Files, NoTwin, Stopped, GoneLeavesNothing
  <2>3. Kept'
    BY <1>3, <1>4 DEF Kept
  <2>4. QED
    BY <2>1, <2>2, <2>3 DEF Files
<1>7. Runs'
  BY <1>4, FilesKept DEF IInv, Runs
<1>8. QED
  BY <1>1, <1>3, <1>4, <1>6, <1>7, ScanStep, TasksMenu DEF IInv

LEMMA RetuneStep ==
  ASSUME Alone, Alone', IInv, NEW p \in Procs, Retune(p) PROVE Tasks' /\ Files' /\ Runs'
<1> DEFINE todo == job[p].todo
           r == IF todo = {}
                THEN [job[p] EXCEPT !.op = "update", !.at = "restart", !.todo = listTunnels]
                ELSE IF config[Min(todo)] = "stale"
                THEN [job[p] EXCEPT !.at = "truncate", !.t = Min(todo), !.data = "own",
                                    !.todo = todo \ {Min(todo)}]
                ELSE [job[p] EXCEPT !.todo = todo \ {Min(todo)}]
<1>1. /\ p \in Menus /\ Task(job[p]) /\ job[p] \in Jobs /\ job[p].at = "scan"
      /\ todo # {} => Min(todo) \in Tunnels
  BY ActingMenu, MinIn DEF Retune, Jobs
<1>2. job[p].op = "retune" /\ job[p].copy = None /\ binary # "old"
  BY <1>1 DEF Task, Ready, Updating, Steps, Jobs
<1>3. UNCHANGED <<config, unit, metrics, service, legacy, binary, tmp, seen>>
        /\ job' = [job EXCEPT ![p] = r]
  BY DEF Retune
<1>4. Files' /\ Runs'
  BY <1>3, NothingElse
<1>5. /\ r.copy = None
      /\ \/ r.op = "update" /\ r.at = "restart"
         \/ r.op = "retune" /\ r.at = "truncate" /\ r.t \in Tunnels /\ r.data = "own"
         \/ r.op = "retune" /\ r.at = "scan"
  BY <1>1, <1>2 DEF Jobs
<1> HIDE DEF r
<1>6. job'[p] = r /\ OthersWait(p)
  BY <1>1, <1>3, MenuJob
<1>7. Ready(job[p])' /\ Updating(job[p])'
  BY <1>2, <1>3, <1>5, <1>6 DEF Ready, Updating, Steps, Saves
<1>8. Task(job[p])'
  BY <1>5, <1>6, <1>7 DEF Task, Deleting, Migrating, Restoring
<1>9. QED
  BY <1>1, <1>4, <1>6, <1>8, TasksMenu DEF IInv

-------------------------------------------------------------------------------
(* Operations begin and are cut off, and the services run.                 *)

\* The operation that a menu begins.
LEMMA BeginTask ==
  ASSUME NEW m \in Menus, job'[m].op # "idle", Ready(job[m])', Restoring(job[m])',
         job'[m].op = "delete" => job'[m].at = "disable",
         job'[m].op \notin {"migrate", "orphan", "retune"},
         job'[m].at \notin {"rename", "stat", "unit", "reload", "enable"},
         job'[m].op = "update" => job'[m].at = "download"
  PROVE  Task(job[m])'
BY DEF Task, Deleting, Migrating, Updating, Installs

LEMMA BeginStep ==
  ASSUME Alone, Alone', IInv, NEW m \in Menus, NEW j, Begin(m, j),
         j.op # "idle", j.op = "delete" => j.at = "disable", j.op = "update" => j.at = "download",
         j.op \notin {"migrate", "orphan", "retune"},
         j.at \notin {"rename", "stat", "unit", "reload", "enable"},
         Ready(j),
         j.op = "restore" =>
           /\ j.at = "extract" /\ \A t \in j.todo : j.copy[t] # None
           /\ \A t \in Tunnels : j.copy[t] # None => t \in j.todo
  PROVE  Tasks' /\ Files' /\ Runs'
<1>1. Files' /\ Runs'
  BY NothingElse DEF Begin
<1>2. job'[m] = j /\ OthersWait(m)
  BY MenuJob DEF Begin
<1>3. Ready(job[m])'
  BY <1>2 DEF Ready
<1>4. Restoring(job[m])'
  BY <1>2 DEF Restoring
<1>5. QED
  BY <1>1, <1>2, <1>3, <1>4, BeginTask, TasksMenu DEF IInv

LEMMA ControlStep ==
  ASSUME IInv, NEW m \in Menus, NEW t \in Tunnels, Control(m, t) PROVE Tasks' /\ Files' /\ Runs'
<1>1. UNCHANGED <<config, unit, legacy, binary, tmp, job>>
  BY DEF Control
<1>2. /\ Files' /\ Runs' /\ \A u \in Tunnels : Quiet(u) => Quiet(u)'
      /\ seen.astray \subseteq seen'.astray
      /\ seen.leaving \subseteq seen'.leaving \cup seen'.astray
  <2>1. CASE Stop(t) /\ UNCHANGED seen
    BY <1>1, <2>1, StopFiles DEF IInv
  <2>2. ASSUME NEW works \in Works(t), Restart(t, works, "menu") \/ StartUnit(t, works)
        PROVE  /\ Files' /\ \A u \in Tunnels : Quiet(u) => Quiet(u)'
               /\ seen.astray \subseteq seen'.astray
               /\ seen.leaving \subseteq seen'.leaving \cup seen'.astray
    BY <1>1, <2>2, StartFiles DEF IInv
  <2>3. ASSUME NEW works \in Works(t), Restart(t, works, "menu") \/ StartUnit(t, works) PROVE Runs'
    <3>1. "menu" = "update" => binary # "old"
      OBVIOUS
    <3>2. QED
      BY <1>1, <2>3, <3>1, StartRuns DEF IInv
  <2>4. QED
    BY <2>1, <2>2, <2>3 DEF Control
<1>3. Calm
  BY <1>1, <1>2 DEF Calm
<1>4. job'[Timer].op \in {"idle", "restart"} /\ Ready(job[Timer])'
  BY <1>1 DEF IInv, Tasks, Ready
<1>5. Tasks'
  BY <1>1, <1>3, <1>4, TasksCalm DEF IInv
<1>6. QED
  BY <1>2, <1>5

LEMMA BeginOpStep ==
  ASSUME Alone, Alone', IInv, NEW m \in Menus, BeginOp(m) PROVE Tasks' /\ Files' /\ Runs'
<1>1. CASE \E t \in Tunnels : Edit(m, t)
  <2>1. PICK t \in Tunnels : Edit(m, t)
    BY <1>1
  <2> DEFINE j == [Job("edit", "truncate") EXCEPT !.t = t, !.data = "changed", !.todo = {t}]
  <2>2. j.op = "edit" /\ j.at = "truncate" /\ j.t = t /\ j.data = "changed" /\ j.copy = None
    BY DEF Job, Idle
  <2>3. Begin(m, j)
    BY <2>1 DEF Edit
  <2> HIDE DEF j
  <2>4. Ready(j)
    BY <2>2 DEF Ready, Steps, Saves
  <2>5. QED
    BY <2>2, <2>3, <2>4, BeginStep
<1>2. CASE \E t \in Tunnels : Wizard(m, t)
  <2>1. PICK t \in Tunnels : Wizard(m, t)
    BY <1>2
  <2> DEFINE j == [Job("wizard", "truncate") EXCEPT !.t = t, !.data = "changed"]
  <2>2. j.op = "wizard" /\ j.at = "truncate" /\ j.t = t /\ j.data = "changed" /\ j.copy = None
    BY DEF Job, Idle
  <2>3. Begin(m, j)
    BY <2>1 DEF Wizard
  <2> HIDE DEF j
  <2>4. Ready(j)
    BY <2>2 DEF Ready, Steps, Saves
  <2>5. QED
    BY <2>2, <2>3, <2>4, BeginStep
<1>3. CASE \E t \in Tunnels : Delete(m, t)
  <2>1. PICK t \in Tunnels : Delete(m, t)
    BY <1>3
  <2> DEFINE j == [Job("delete", "disable") EXCEPT !.t = t]
  <2>2. j.op = "delete" /\ j.at = "disable" /\ j.t = t /\ j.copy = None
    BY DEF Job, Idle
  <2>3. Begin(m, j)
    BY <2>1 DEF Delete
  <2> HIDE DEF j
  <2>4. Ready(j)
    BY <2>2 DEF Ready, Steps, Saves
  <2>5. QED
    BY <2>2, <2>3, <2>4, BeginStep
<1>4. CASE RestartAll(m) \/ Uninstall(m) \/ Update(m)
  <2>1. PICK j \in {[Job("restart", "restart") EXCEPT !.todo = listTunnels],
                    [Job("uninstall", "next") EXCEPT !.todo = listTunnels],
                    Job("update", "download")} : Begin(m, j)
    BY <1>4 DEF RestartAll, Uninstall, Update
  <2>2. j.copy = None /\ <<j.op, j.at>> \in {<<"restart", "restart">>, <<"uninstall", "next">>,
                                             <<"update", "download">>}
    BY DEF Job, Idle
  <2>3. Ready(j)
    BY <2>2 DEF Ready, Steps, Saves
  <2>4. QED
    BY <2>1, <2>2, <2>3, BeginStep
<1>5. CASE Backup(m)
  <2> DEFINE c == [t \in Tunnels |-> None]
             j == [Job("backup", "copy") EXCEPT !.todo = listTunnels, !.copy = c]
  <2>1. c # None
    BY ArchiveAssumption DEF Archives
  <2>2. Begin(m, j)
    BY <1>5 DEF Backup
  <2> HIDE DEF c
  <2>3. j.op = "backup" /\ j.at = "copy" /\ j.copy = c
    BY DEF Job, Idle
  <2> HIDE DEF j
  <2>4. Ready(j)
    BY <2>1, <2>3 DEF Ready, Steps, Saves
  <2>5. QED
    BY <2>2, <2>3, <2>4, BeginStep
<1>6. CASE Restore(m)
  <2> DEFINE todo == {t \in Tunnels : archive[t] # None}
             j == [Job("restore", "extract") EXCEPT !.todo = todo, !.copy = archive]
  <2>1. archive # None /\ Begin(m, j)
    BY <1>6 DEF Restore
  <2>2. j.op = "restore" /\ j.at = "extract" /\ j.todo = todo /\ j.copy = archive
    BY DEF Job, Idle
  <2> HIDE DEF j
  <2>3. Ready(j)
    BY <2>1, <2>2 DEF Ready, Steps, Saves
  <2>4. QED
    BY <2>1, <2>2, <2>3, BeginStep
<1>7. QED
  BY <1>1, <1>2, <1>3, <1>4, <1>5, <1>6, ControlStep DEF BeginOp

LEMMA CutOffStep ==
  ASSUME Alone, Alone', IInv, NEW m \in Menus, CutOff(m) PROVE Tasks' /\ Files' /\ Runs'
<1>1. Files' /\ Runs'
  BY NothingElse DEF CutOff
<1>2. job'[m] = Idle /\ OthersWait(m)
  BY MenuJob DEF CutOff
<1>3. QED
  BY <1>1, <1>2, IdleTask, TasksMenu DEF IInv, CutOff

LEMMA FireStep ==
  ASSUME IInv, Fire PROVE Tasks' /\ Files' /\ Runs'
<1> DEFINE r == [Job("restart", "restart") EXCEPT !.todo = listTunnels]
<1>1. r.op = "restart" /\ r.at = "restart" /\ r.copy = None
  BY DEF Job, Idle
<1>2. job' = [job EXCEPT ![Timer] = r]
  BY DEF Fire
<1> HIDE DEF r
<1>3. job'[Timer] = r /\ \A m \in Menus : job'[m] = job[m]
  BY <1>2, TimerAssumption DEF IInv, TypeOK, Procs
<1>4. Ready(job[Timer])'
  BY <1>1, <1>3 DEF Ready, Steps, Saves
<1>5. Calm
  BY DEF Fire, Calm, Quiet
<1>6. Files' /\ Runs'
  BY NothingElse DEF Fire
<1>7. QED
  BY <1>1, <1>3, <1>4, <1>5, <1>6, TasksCalm DEF IInv

LEMMA ServeStep ==
  ASSUME IInv, NEW t \in Tunnels, Boot(t) \/ Snapshot(t) PROVE Tasks' /\ Files' /\ Runs'
<1>1. Files' /\ Runs' /\ \A u \in Tunnels : Quiet(u) => Quiet(u)'
  BY ServeFiles DEF IInv
<1>2. UNCHANGED <<config, unit, legacy, binary, tmp, job, seen>>
  BY DEF Boot, Snapshot
<1>3. Calm
  BY <1>1, <1>2 DEF Calm
<1>4. job'[Timer].op \in {"idle", "restart"} /\ Ready(job[Timer])'
  BY <1>2 DEF IInv, Tasks, Ready
<1>5. QED
  BY <1>1, <1>2, <1>3, <1>4, TasksCalm DEF IInv

-------------------------------------------------------------------------------
(* The theorems.                                                           *)

LEMMA InitInv == Init => IInv
<1> SUFFICES ASSUME Init PROVE IInv
  OBVIOUS
<1>1. PICK c \in {None, "own", "stale"} :
        /\ config = [t \in Tunnels |-> IF t = 1 THEN c ELSE None]
        /\ unit = [t \in Tunnels |-> IF t = 1 /\ c # None THEN "file" ELSE "none"]
        /\ service = [t \in Tunnels |-> IF t = 1 /\ c # None
                        THEN [st |-> "up", cfg |-> c, build |-> "old"] ELSE Down]
  BY DEF Init
<1>2. seen = [discarded |-> legacy.config = None, applied |-> {}, leaving |-> {}, gone |-> {},
              reported |-> {}, astray |-> {}]
  BY DEF Init
<1>3. TypeOK
  <2>1. config \in Archives /\ unit \in [Tunnels -> {"none", "file", "loaded"}]
    BY <1>1 DEF Archives, Stored, Contents
  <2>2. /\ service \in [Tunnels -> Services]
        /\ \A t \in Tunnels : service[t].st = "up" <=> service[t].cfg # None
    <3>1. c # None => [st |-> "up", cfg |-> c, build |-> "old"] \in Services
      BY DEF Services, Contents
    <3>2. QED
      BY <1>1, <3>1, DownIs
  <2>3. seen \in Seens
    BY <1>2 DEF Seens
  <2>4. job \in [Procs -> Jobs]
    BY IdleJob DEF Init
  <2>5. legacy \in [unit : BOOLEAN, config : {None, "legacy"}, up : BOOLEAN]
    <3>1. legacy \in {[unit |-> FALSE, config |-> None, up |-> FALSE],
                     [unit |-> TRUE, config |-> None, up |-> TRUE],
                     [unit |-> TRUE, config |-> "legacy", up |-> TRUE]}
      BY DEF Init
    <3>2. \A b, e \in BOOLEAN, d \in {None, "legacy"} :
            [unit |-> b, config |-> d, up |-> e]
              \in [unit : BOOLEAN, config : {None, "legacy"}, up : BOOLEAN]
      OBVIOUS
    <3>3. QED
      BY <3>1, <3>2
  <2>6. QED
    BY <2>1, <2>2, <2>3, <2>4, <2>5 DEF TypeOK, Init, Builds
<1>4. Tasks
  <2>1. \A p \in Procs : job[p] = Idle
    BY DEF Init
  <2>2. Idle.op = "idle" /\ Idle.at = "end" /\ Idle.copy = None
    BY DEF Idle
  <2>3. Ready(Idle)
    BY <2>2 DEF Ready, Steps, Saves
  <2>4. Task(Idle)
    BY <2>2, <2>3 DEF Task, Deleting, Migrating, Restoring, Updating, Installs
  <2>5. QED
    BY <2>1, <2>2, <2>3, <2>4 DEF Tasks, Procs
<1>5. \A t \in Tunnels : config[t] # "legacy" /\ (config[t] = None => Quiet(t))
                           /\ service[t].cfg # "legacy"
  BY <1>1, DownIs, NoneAssumption DEF Quiet
<1>6. Files
  <2>1. Free /\ Twin /\ NoTwin
    BY <1>5 DEF Free, Twin, NoTwin
  <2>2. Stopped /\ GoneLeavesNothing /\ Kept
    BY <1>2 DEF Stopped, GoneLeavesNothing, Kept
  <2>3. QED
    BY <2>1, <2>2 DEF Files
<1>7. Runs
  BY <1>2 DEF Runs, Replaced, RestartApplies, Init
<1>8. QED
  BY <1>3, <1>4, <1>6, <1>7 DEF IInv

LEMMA NextInv == ASSUME Alone, Alone', IInv, [Next]_vars PROVE IInv'
<1>1. TypeOK'
  BY TypeNext DEF IInv
<1>2. ASSUME NEW p \in Procs, Step(p) PROVE Tasks' /\ Files' /\ Runs'
  <2>1. job' \in [Procs -> Jobs]
    BY <1>1 DEF TypeOK
  <2>2. CASE Truncate(p) \/ Write(p) \/ WriteUnit(p) \/ Reload(p) \/ Enable(p) \/ Disable(p)
    BY <2>2, TruncateStep, WriteStep, WriteUnitStep, ReloadStep, EnableStep, DisableStep
  <2>3. CASE \/ RemoveUnit(p) \/ RemoveConfig(p) \/ RemoveMetrics(p) \/ RemoveBinary(p)
             \/ UninstallNext(p) \/ RestartNext(p) \/ RestartDone(p) \/ Copy(p)
    BY <2>1, <2>3, RemoveUnitStep, RemoveConfigStep, RemoveMetricsStep, RemoveBinaryStep,
       UninstallNextStep, RestartNextStep, RestartDoneStep, CopyStep
  <2>4. CASE \/ Extract(p) \/ InstallNext(p) \/ Download(p) \/ Rename(p) \/ Migrate(p)
             \/ Retire(p) \/ Forget(p) \/ Retune(p)
    BY <2>4, ExtractStep, InstallNextStep, DownloadStep, MigrateStep, RetireStep, ForgetStep,
       RetuneStep
  <2>5. QED
    BY <1>2, <2>2, <2>3, <2>4 DEF Step
<1>3. ASSUME NEW m \in Menus, BeginOp(m) \/ CutOff(m) PROVE Tasks' /\ Files' /\ Runs'
  BY <1>3, BeginOpStep, CutOffStep
<1>4. CASE Fire
  BY <1>1, <1>4, FireStep DEF IInv
<1>5. ASSUME NEW t \in Tunnels, Boot(t) \/ Snapshot(t) PROVE Tasks' /\ Files' /\ Runs'
  BY <1>5, ServeStep
<1>6. CASE UNCHANGED vars
  <2>1. Files' /\ Runs' /\ Calm
    BY <1>6, NothingElse DEF vars, Calm, Quiet
  <2>2. job' = job
    BY <1>6 DEF vars
  <2>3. job'[Timer].op \in {"idle", "restart"} /\ Ready(job[Timer])'
    BY <2>2 DEF IInv, Tasks, Ready
  <2>4. QED
    BY <1>1, <2>1, <2>2, <2>3, TasksCalm DEF IInv
<1>7. QED
  BY <1>1, <1>2, <1>3, <1>4, <1>5, <1>6 DEF Next, IInv

LEMMA Invariant == Spec /\ []Alone => []IInv
<1>1. Alone /\ Alone' /\ IInv /\ [Next]_vars => IInv'
  BY NextInv
<1>2. QED
  BY InitInv, <1>1, PTL DEF Spec

\* migrateLegacyTunnels: wherever an update is cut off, the configuration of the
\* flat install is on disk, unless another operation wrote or removed that file;
\* and the variables have their types.
THEOREM FlatKept == Spec /\ []Alone => []LegacyKept
<1>1. IInv => LegacyKept
  BY DEF IInv, Files, Kept, LegacyKept
<1>2. QED
  BY <1>1, Invariant, PTL

\* The flat install and the tunnel it became never run at the same time, but for
\* a restored copy and a tunnel restarted while it is deleted.
THEOREM NeverBoth == Spec /\ []Alone => []NoTwin
<1>1. IInv => NoTwin
  BY DEF IInv, Files
<1>2. QED
  BY <1>1, Invariant, PTL

\* menuUpdate: a tunnel reported as restarted runs the new build, one restarted
\* since its configuration was written runs what is on disk, and the installed
\* binary is never half of a build.
THEOREM UpdatesApply == Spec /\ []Alone => []RestartApplies
<1>1. IInv => RestartApplies
  BY DEF IInv, Runs
<1>2. QED
  BY <1>1, Invariant, PTL

\* deleteTunnel: nothing is left of a deleted tunnel, unless it was started or
\* written again after the delete stopped it.
THEOREM DeletesAll == Spec /\ []Alone => []GoneLeavesNothing
<1>1. IInv => GoneLeavesNothing
  BY DEF IInv, Files
<1>2. QED
  BY <1>1, Invariant, PTL

===============================================================================
