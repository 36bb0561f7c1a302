------------------------------ MODULE TunnelFiles ------------------------------
(***************************************************************************)
(* What the menu keeps on disk: the tunnels' configurations, units and     *)
(* metrics files, the binary, the backup, and the flat layout of before    *)
(* v0.3.0 that an update migrates (tunnels.go, service.go, update.go,      *)
(* backup.go, wizard.go's finishWizard, autorefresh.go's restart-all).     *)
(* A menu takes one step of its operation at a time, and may be cut off    *)
(* after any (a lost SSH session); the timer's restart-all and the tunnel  *)
(* processes run beside it.  systemd is external.                          *)
(***************************************************************************)
EXTENDS Naturals, FiniteSetsExt

CONSTANTS N,          \* tunnel 1 is called "main", the next ones "legacy", "legacy2", ...
          Menus,      \* menu processes
          Timer,      \* the process of the auto-refresh timer
          None,
          MaxOps,     \* operations of the menus and of the timer
          MaxCuts     \* menus cut off

ASSUME CountAssumption == N \in Nat \ {0}
ASSUME TimerAssumption == Timer \notin Menus
ASSUME NoneAssumption == None \notin {"own", "stale", "legacy", "changed", "torn", "new"}

VARIABLES
  config,   \* [Tunnels -> None, "torn" (truncated) or its content]
  unit,     \* [Tunnels -> "none", "file", "loaded" (removed, not yet reloaded)]
  metrics,  \* the tunnels with a metrics file
  service,  \* [Tunnels -> the state of the unit's process]
  legacy,   \* the flat install: [unit : file present, config, up : running]
  legacyOk, \* its configuration still validates
  binary,   \* build of the installed binary: "old", "new", "torn", "none"
  tmp,      \* the download beside it, or None
  archive,  \* the backup: [Tunnels -> None or content], or None
  build,    \* [Menus -> build the process runs]
  job,      \* [Menus \cup {Timer} -> operation under way]
  ops, cuts,\* bounds
  seen      \* history, for the properties

vars == <<config, unit, metrics, service, legacy, legacyOk, binary, tmp, archive,
          build, job, ops, cuts, seen>>

Tunnels == 1..N
Procs == Menus \cup {Timer}
Contents == {"own", "stale", "legacy", "changed"}  \* stale: with the bad tuning
Latest == "new"
Down == [st |-> "down", cfg |-> None, build |-> "none"]
In(st) == [Down EXCEPT !.st = st]
Idle == [op |-> "idle", at |-> "end", t |-> 0, data |-> None, todo |-> {}, copy |-> None]
Job(op, at) == [Idle EXCEPT !.op = op, !.at = at]

Readable(c) == c \in {"own", "stale", "changed"} \/ (c = "legacy" /\ legacyOk)  \* LoadConfig
listTunnels == {t \in Tunnels : config[t] # None}
Active(t) == service[t].st \in {"starting", "up"}  \* serviceStatus

\* A box with or without an own tunnel, with or without a flat install.
Init ==
  /\ \E c \in {None, "own", "stale"} :
       /\ config = [t \in Tunnels |-> IF t = 1 THEN c ELSE None]
       /\ unit = [t \in Tunnels |-> IF t = 1 /\ c # None THEN "file" ELSE "none"]
       /\ service = [t \in Tunnels |-> IF t = 1 /\ c # None
                       THEN [st |-> "up", cfg |-> c, build |-> "old"] ELSE Down]
  /\ metrics = {}
  /\ legacy \in {[unit |-> FALSE, config |-> None, up |-> FALSE],
                 [unit |-> TRUE, config |-> None, up |-> TRUE],
                 [unit |-> TRUE, config |-> "legacy", up |-> TRUE]}
  /\ legacyOk \in BOOLEAN
  /\ binary = "old" /\ tmp = None /\ archive = None
  /\ build = [m \in Menus |-> "old"]
  /\ job = [p \in Procs |-> Idle]
  /\ ops = 0 /\ cuts = 0
  /\ seen = [discarded |-> legacy.config = None, applied |-> {}, leaving |-> {}, gone |-> {},
             reported |-> {}, astray |-> {}]

-------------------------------------------------------------------------------
(* systemd and the tunnel processes.                                       *)

\* systemctl start/restart finds a unit file, or perhaps one it still has loaded.
Works(t) == CASE unit[t] = "file" -> {TRUE} [] unit[t] = "loaded" -> BOOLEAN
              [] OTHER -> {FALSE}

\* A process told to stop writes a last snapshot, if main does not return first.
Stop(t) ==
  /\ service' = [service EXCEPT ![t] = Down]
  /\ metrics' \in {metrics} \cup (IF service[t].st = "up" THEN {metrics \cup {t}} ELSE {})

\* history: a start that is not part of a delete
Started(t) == [seen EXCEPT !.leaving = @ \ {t}, !.gone = @ \ {t},
                           !.astray = @ \cup ({t} \cap seen.leaving)]

\* history: a restart that worked, and the operation it belongs to
Restarted(t, op) ==
  [Started(t) EXCEPT !.applied = @ \cup {t},
                     !.reported = IF op = "update" THEN @ \cup {t} ELSE @]

\* Mutant of the next operator: an active unit is left alone.
RestartIfDown(t, works, op) ==
  /\ service' = IF works /\ ~Active(t) THEN [service EXCEPT ![t] = In("starting")] ELSE service
  /\ seen' = IF works THEN Restarted(t, op) ELSE seen
  /\ UNCHANGED metrics

\* systemctl restart; works says whether the unit was found.
Restart(t, works, op) ==
  \/ /\ works /\ seen' = Restarted(t, op)
     /\ service' = [service EXCEPT ![t] = In("starting")]
     /\ metrics' \in {metrics} \cup (IF service[t].st = "up" THEN {metrics \cup {t}} ELSE {})
  \/ ~works /\ UNCHANGED <<service, metrics, seen>>

\* systemctl start, enable --now: an active unit is left alone.
StartUnit(t, works) ==
  /\ service' = IF works /\ ~Active(t) THEN [service EXCEPT ![t] = In("starting")] ELSE service
  /\ seen' = IF works THEN Started(t) ELSE seen
  /\ UNCHANGED metrics

\* main: the configuration is read; an unreadable one is fatal, and systemd
\* starts the process again (Restart=on-failure).
Boot(t) ==
  /\ service[t].st \in {"starting", "failing"}
  /\ service' = [service EXCEPT ![t] =
       IF Readable(config[t]) /\ binary \in {"old", Latest}
         THEN [st |-> "up", cfg |-> config[t], build |-> binary] ELSE In("failing")]
  /\ UNCHANGED <<config, unit, metrics, legacy, legacyOk, binary, tmp, archive, build, job, ops, cuts, seen>>

\* runMetricsSnapshotter
Snapshot(t) ==
  /\ service[t].st = "up" /\ t \notin metrics
  /\ metrics' = metrics \cup {t}
  /\ UNCHANGED <<config, unit, service, legacy, legacyOk, binary, tmp, archive, build, job, ops, cuts, seen>>

-------------------------------------------------------------------------------
(* The menu: an operation begins, and goes from step to step.              *)

Go(p, at) == job' = [job EXCEPT ![p] = IF at = "end" THEN Idle ELSE [@ EXCEPT !.at = at]]
fixed == <<legacyOk, build, ops, cuts>>

Begin(m, j) ==
  /\ job[m].op = "idle" /\ ops < MaxOps
  /\ job' = [job EXCEPT ![m] = j]
  /\ ops' = ops + 1
  /\ UNCHANGED <<config, unit, metrics, service, legacy, legacyOk, binary, tmp, archive,
                 build, cuts, seen>>

\* editTunnelBody: loaded now, saved when the questions are answered.
Edit(m, t) ==
  /\ config[t] # None /\ Readable(config[t])
  /\ Begin(m, [Job("edit", "truncate") EXCEPT !.t = t, !.data = "changed", !.todo = {t}])
\* finishWizard, under a free name or over an existing tunnel.
Wizard(m, t) == Begin(m, [Job("wizard", "truncate") EXCEPT !.t = t, !.data = "changed"])
Delete(m, t) == t \in listTunnels /\ Begin(m, [Job("delete", "disable") EXCEPT !.t = t])
RestartAll(m) == Begin(m, [Job("restart", "restart") EXCEPT !.todo = listTunnels])
Backup(m) ==
  /\ listTunnels # {}
  /\ Begin(m, [Job("backup", "copy") EXCEPT !.todo = listTunnels,
                                            !.copy = [t \in Tunnels |-> None]])
Restore(m) ==
  /\ archive # None
  /\ Begin(m, [Job("restore", "extract") EXCEPT
                 !.todo = {t \in Tunnels : archive[t] # None}, !.copy = archive])
Uninstall(m) == Begin(m, [Job("uninstall", "next") EXCEPT !.todo = listTunnels])
\* menuUpdate: isNewerVersion compares with the build of this process.
Update(m) == build[m] # Latest /\ Begin(m, Job("update", "download"))

\* The timer runs restart-all.
Fire ==
  /\ job[Timer].op = "idle" /\ listTunnels # {}
  /\ ops < MaxOps /\ ops' = ops + 1
  /\ job' = [job EXCEPT ![Timer] = [Job("restart", "restart") EXCEPT !.todo = listTunnels]]
  /\ UNCHANGED <<config, unit, metrics, service, legacy, legacyOk, binary, tmp, archive,
                 build, cuts, seen>>

\* tunnelActionMenu: start, stop, restart.
Control(m, t) ==
  /\ t \in listTunnels /\ job[m].op = "idle" /\ ops < MaxOps /\ ops' = ops + 1
  /\ \/ \E works \in Works(t) : Restart(t, works, "menu") \/ StartUnit(t, works)
     \/ Stop(t) /\ UNCHANGED seen
  /\ UNCHANGED <<config, unit, legacy, legacyOk, binary, tmp, archive, build, job, cuts>>

BeginOp(m) ==
  \/ RestartAll(m) \/ Backup(m) \/ Restore(m) \/ Uninstall(m) \/ Update(m)
  \/ \E t \in Tunnels : Edit(m, t) \/ Wizard(m, t) \/ Delete(m, t) \/ Control(m, t)

-------------------------------------------------------------------------------
(* Writing a configuration: os.WriteFile truncates, then writes.           *)

\* What follows a save, and a save that could not open the file.
AfterSave(op) == CASE op = "edit" -> {"restart", "end"} [] op = "wizard" -> {"unit", "end"}
                   [] op = "migrate" -> {"retire"} [] op = "retune" -> {"scan"}
                   [] op = "restore" -> {"extract"}
NoSave(op) == CASE op \in {"migrate", "retune"} -> "scan" [] OTHER -> "end"

\* history: the tunnel's file is given other content
Saving(p) ==
  LET t == job[p].t
  IN [Started(t) EXCEPT !.applied = @ \ {t},
        !.discarded = @ \/ (config[t] = "legacy" /\ job[p].op # "migrate"),
        !.astray = IF job[p].op = "restore" /\ job[p].data = "legacy" THEN @ \cup {t} ELSE @]

Truncate(p) ==
  /\ job[p].at = "truncate"
  /\ \/ /\ config' = [config EXCEPT ![job[p].t] = "torn"]
        /\ seen' = Saving(p)
        /\ Go(p, "write")
     \/ /\ job' = [job EXCEPT ![p] = IF NoSave(@.op) = "end" THEN Idle
                     ELSE [@ EXCEPT !.op = "retune", !.at = "scan",
                            !.todo = IF job[p].op = "migrate" THEN listTunnels ELSE job[p].todo]]
        /\ UNCHANGED <<config, seen>>
  /\ UNCHANGED <<unit, metrics, service, legacy, binary, tmp, archive, fixed>>

Write(p) ==
  /\ job[p].at = "write"
  /\ config' = [config EXCEPT ![job[p].t] = job[p].data]
  /\ seen' = Saving(p)
  /\ \E at \in AfterSave(job[p].op) : Go(p, at)
  /\ UNCHANGED <<unit, metrics, service, legacy, binary, tmp, archive, fixed>>

-------------------------------------------------------------------------------
(* installService and its undoing.                                         *)

\* writeAndEnableUnit: the unit file, daemon-reload, enable --now.
WriteUnit(p) ==
  /\ job[p].at = "unit"
  /\ unit' = [unit EXCEPT ![job[p].t] = "file"]
  /\ seen' = Started(job[p].t)
  /\ Go(p, "reload")
  /\ UNCHANGED <<config, metrics, service, legacy, binary, tmp, archive, fixed>>

AfterReload(op) == CASE op = "delete" -> "rmconfig" [] op = "uninstall" -> "rmbinary"
                     [] OTHER -> "enable"

Reload(p) ==
  /\ job[p].at = "reload"
  /\ unit' = [t \in Tunnels |-> IF unit[t] = "loaded" THEN "none" ELSE unit[t]]
  /\ Go(p, AfterReload(job[p].op))
  /\ UNCHANGED <<config, metrics, service, legacy, binary, tmp, archive, seen, fixed>>

AfterEnable(op) == CASE op = "wizard" -> "end" [] op = "migrate" -> "forget"
                     [] op = "restore" -> "install"

Enable(p) ==
  LET t == job[p].t
  IN /\ job[p].at = "enable"
     /\ \E works \in Works(t) :
          /\ service' = IF works /\ ~Active(t) THEN [service EXCEPT ![t] = In("starting")] ELSE service
          /\ seen' = IF works THEN Started(t) ELSE seen
     /\ Go(p, AfterEnable(job[p].op))
     /\ UNCHANGED <<config, unit, metrics, legacy, binary, tmp, archive, fixed>>

\* Mutant of the next action: disabled, but not stopped.
DisableOnly(p) ==
  LET t == job[p].t
  IN /\ job[p].at = "disable"
     /\ seen' = IF job[p].op = "delete" THEN [seen EXCEPT !.leaving = @ \cup {t}] ELSE seen
     /\ Go(p, "rmunit")
     /\ UNCHANGED <<config, unit, service, metrics, legacy, binary, tmp, archive, fixed>>

\* systemctl disable --now
Disable(p) ==
  LET t == job[p].t
  IN /\ job[p].at = "disable"
     /\ Stop(t)
     /\ seen' = IF job[p].op = "delete" THEN [seen EXCEPT !.leaving = @ \cup {t}] ELSE seen
     /\ Go(p, "rmunit")
     /\ UNCHANGED <<config, unit, legacy, binary, tmp, archive, fixed>>

RemoveUnit(p) ==
  /\ job[p].at = "rmunit"
  /\ unit' = [unit EXCEPT ![job[p].t] = IF @ = "file" THEN "loaded" ELSE @]
  /\ Go(p, IF job[p].op = "delete" THEN "reload" ELSE "next")
  /\ UNCHANGED <<config, metrics, service, legacy, binary, tmp, archive, seen, fixed>>

\* deleteTunnel
RemoveConfig(p) ==
  LET t == job[p].t
  IN /\ job[p].at = "rmconfig"
     /\ config' = [config EXCEPT ![t] = None]
     /\ seen' = [seen EXCEPT !.discarded = @ \/ config[t] = "legacy", !.applied = @ \ {t}]
     /\ Go(p, "rmmetrics")
     /\ UNCHANGED <<unit, metrics, service, legacy, binary, tmp, archive, fixed>>

RemoveMetrics(p) ==
  LET t == job[p].t
  IN /\ job[p].at = "rmmetrics"
     /\ metrics' = metrics \ {t}
     /\ seen' = [seen EXCEPT !.leaving = @ \ {t}, !.gone = IF t \in seen.leaving THEN @ \cup {t} ELSE @]
     /\ Go(p, "end")
     /\ UNCHANGED <<config, unit, service, legacy, binary, tmp, archive, fixed>>

\* menuUninstall: the tunnels one by one, then the binary, and perhaps /etc/rmtunnel.
UninstallNext(p) ==
  LET todo == job[p].todo
  IN /\ job[p].at = "next"
     /\ job' = [job EXCEPT ![p] =
          IF todo = {} THEN [@ EXCEPT !.at = "reload"]
          ELSE [@ EXCEPT !.at = "disable", !.t = Min(todo), !.todo = todo \ {Min(todo)}]]
     /\ UNCHANGED <<config, unit, metrics, service, legacy, binary, tmp, archive, seen, fixed>>

RemoveBinary(p) ==
  /\ job[p].at = "rmbinary"
  /\ binary' = "none"
  /\ \/ UNCHANGED <<config, metrics, archive, legacy, seen>>
     \/ /\ config' = [t \in Tunnels |-> None] /\ metrics' = {} /\ archive' = None
        /\ legacy' = [legacy EXCEPT !.config = None]
        /\ seen' = [seen EXCEPT !.discarded = TRUE, !.applied = {}]
  /\ Go(p, "end")
  /\ UNCHANGED <<unit, service, tmp, fixed>>

-------------------------------------------------------------------------------
(* restart-all, backup and restore.                                        *)

RestartNext(p) ==
  LET todo == job[p].todo
  IN /\ job[p].at = "restart" /\ todo # {}
     /\ \E works \in Works(Min(todo)) : Restart(Min(todo), works, job[p].op)
     /\ job' = [job EXCEPT ![p].todo = todo \ {Min(todo)}]
     /\ UNCHANGED <<config, unit, legacy, binary, tmp, archive, fixed>>

RestartDone(p) ==
  /\ job[p].at = "restart" /\ job[p].todo = {}
  /\ Go(p, "end")
  /\ UNCHANGED <<config, unit, metrics, service, legacy, binary, tmp, archive, seen, fixed>>

\* writeBackupArchive: file by file; one that is gone by now is skipped.
Copy(p) ==
  LET todo == job[p].todo
  IN /\ job[p].at = "copy"
     /\ IF todo = {}
          THEN archive' = job[p].copy /\ Go(p, "end")
          ELSE /\ job' = [job EXCEPT ![p].todo = todo \ {Min(todo)},
                                     ![p].copy[Min(todo)] = config[Min(todo)]]
               /\ UNCHANGED archive
     /\ UNCHANGED <<config, unit, metrics, service, legacy, binary, tmp, seen, fixed>>

\* extractBackupArchive: entry by entry; then every restored tunnel that is
\* not active may be installed.
Extract(p) ==
  LET todo == job[p].todo
      copy == job[p].copy
  IN /\ job[p].at = "extract"
     /\ job' = [job EXCEPT ![p] =
          IF todo = {}
            THEN [@ EXCEPT !.at = "install", !.todo = {t \in listTunnels : copy[t] # None}]
            ELSE [@ EXCEPT !.at = "truncate", !.t = Min(todo), !.data = copy[Min(todo)],
                           !.todo = todo \ {Min(todo)}]]
     /\ UNCHANGED <<config, unit, metrics, service, legacy, binary, tmp, archive, seen, fixed>>

InstallNext(p) ==
  LET todo == job[p].todo
  IN /\ job[p].at = "install"
     /\ \/ todo = {} /\ Go(p, "end")
        \/ /\ todo # {}
           /\ job' = [job EXCEPT ![p].todo = todo \ {Min(todo)}]
        \/ /\ todo # {} /\ ~Active(Min(todo))
           /\ job' = [job EXCEPT ![p] = [@ EXCEPT !.at = "unit", !.t = Min(todo),
                                                 !.todo = todo \ {Min(todo)}]]
     /\ UNCHANGED <<config, unit, metrics, service, legacy, binary, tmp, archive, seen, fixed>>

-------------------------------------------------------------------------------
(* menuUpdate.                                                             *)

\* downloadAndReplaceSelf: into a file beside the binary.
Download(p) ==
  /\ job[p].at \in {"download", "downloading"}
  /\ \/ job[p].at = "download" /\ tmp' = "torn" /\ Go(p, "downloading")
     \/ job[p].at = "downloading" /\ tmp' = Latest /\ Go(p, "rename")
     \/ job[p].at = "downloading" /\ tmp' = None /\ Go(p, "end")
  /\ UNCHANGED <<config, unit, metrics, service, legacy, binary, archive, seen, fixed>>

\* ... which is then renamed over it, if it is still there.
Rename(p) ==
  /\ job[p].at = "rename"
  /\ IF tmp = None THEN Go(p, "end") /\ UNCHANGED binary ELSE Go(p, "stat") /\ binary' = tmp
  /\ tmp' = None
  /\ UNCHANGED <<config, unit, metrics, service, legacy, archive, seen, fixed>>

Scan(p) == job' = [job EXCEPT ![p] = [@ EXCEPT !.op = "retune", !.at = "scan", !.todo = listTunnels]]

\* Mutant of the next action: the old file is taken away once it is read.
MigrateMoves(p) ==
  LET free == Tunnels \ listTunnels
  IN /\ job[p].at = "stat"
     /\ \/ ~legacy.unit /\ Scan(p) /\ UNCHANGED legacy
        \/ /\ legacy.unit /\ legacy.config # None /\ free # {}
           /\ legacy' = [legacy EXCEPT !.config = None]
           /\ job' = [job EXCEPT ![p] = [@ EXCEPT !.op = "migrate", !.at = "truncate",
                                         !.t = Min(free), !.data = legacy.config]]
     /\ UNCHANGED <<config, unit, metrics, service, binary, tmp, archive, seen, fixed>>

\* migrateLegacyTunnels: what there is to migrate, and under which name.
Migrate(p) ==
  LET free == Tunnels \ listTunnels
  IN /\ job[p].at = "stat"
     /\ \/ ~legacy.unit /\ Scan(p)
        \/ /\ legacy.unit /\ legacy.config = None
           /\ job' = [job EXCEPT ![p] = [@ EXCEPT !.op = "orphan", !.at = "retire"]]
        \/ /\ legacy.unit /\ legacy.config # None /\ free # {}
           /\ job' = [job EXCEPT ![p] = [@ EXCEPT !.op = "migrate", !.at = "truncate",
                                         !.t = Min(free), !.data = legacy.config]]
     /\ UNCHANGED <<config, unit, metrics, service, legacy, binary, tmp, archive, seen, fixed>>

\* Mutant of the next action: the old unit is disabled, but not stopped.
RetireDisables(p) ==
  /\ \/ job[p].at = "retire" /\ Go(p, "rmlegacy") /\ UNCHANGED legacy
     \/ /\ job[p].at = "rmlegacy" /\ legacy' = [legacy EXCEPT !.unit = FALSE]
        /\ \/ job[p].op = "orphan" /\ Scan(p)
           \/ job[p].op = "migrate" /\ Readable(config[job[p].t]) /\ Go(p, "unit")
           \/ job[p].op = "migrate" /\ ~Readable(config[job[p].t]) /\ Scan(p)
  /\ UNCHANGED <<config, unit, metrics, service, binary, tmp, archive, seen, fixed>>

\* The old unit is stopped, then its file removed.
Retire(p) ==
  /\ \/ job[p].at = "retire" /\ legacy' = [legacy EXCEPT !.up = FALSE] /\ Go(p, "rmlegacy")
     \/ /\ job[p].at = "rmlegacy" /\ legacy' = [legacy EXCEPT !.unit = FALSE]
        /\ \/ job[p].op = "orphan" /\ Scan(p)
           \/ job[p].op = "migrate" /\ Readable(config[job[p].t]) /\ Go(p, "unit")
           \/ job[p].op = "migrate" /\ ~Readable(config[job[p].t]) /\ Scan(p)
  /\ UNCHANGED <<config, unit, metrics, service, binary, tmp, archive, seen, fixed>>

\* Its configuration is removed last.
Forget(p) ==
  /\ job[p].at = "forget"
  /\ legacy' = [legacy EXCEPT !.config = None]
  /\ Scan(p)
  /\ UNCHANGED <<config, unit, metrics, service, binary, tmp, archive, seen, fixed>>

\* migrateStaleTuning, tunnel by tunnel; then every tunnel is restarted.
Retune(p) ==
  LET todo == job[p].todo
  IN /\ job[p].at = "scan"
     /\ job' = [job EXCEPT ![p] =
          IF todo = {} THEN [@ EXCEPT !.op = "update", !.at = "restart", !.todo = listTunnels]
          ELSE IF config[Min(todo)] = "stale"
            THEN [@ EXCEPT !.at = "truncate", !.t = Min(todo), !.data = "own",
                           !.todo = todo \ {Min(todo)}]
            ELSE [@ EXCEPT !.todo = todo \ {Min(todo)}]]
     /\ UNCHANGED <<config, unit, metrics, service, legacy, binary, tmp, archive, seen, fixed>>

\* The session of a menu is lost in the middle of an operation; the next menu
\* runs the installed binary.
CutOff(m) ==
  /\ job[m].op # "idle" /\ cuts < MaxCuts /\ cuts' = cuts + 1
  /\ job' = [job EXCEPT ![m] = Idle]
  /\ build' = [build EXCEPT ![m] = binary]
  /\ UNCHANGED <<config, unit, metrics, service, legacy, legacyOk, binary, tmp, archive, ops, seen>>

Step(p) ==
  \/ Truncate(p) \/ Write(p) \/ WriteUnit(p) \/ Reload(p) \/ Enable(p) \/ Disable(p)
  \/ RemoveUnit(p) \/ RemoveConfig(p) \/ RemoveMetrics(p) \/ UninstallNext(p) \/ RemoveBinary(p)
  \/ RestartNext(p) \/ RestartDone(p) \/ Copy(p) \/ Extract(p) \/ InstallNext(p)
  \/ Download(p) \/ Rename(p) \/ Migrate(p) \/ Retire(p) \/ Forget(p) \/ Retune(p)

Next ==
  \/ \E m \in Menus : BeginOp(m) \/ CutOff(m)
  \/ Fire
  \/ \E p \in Procs : Step(p)
  \/ \E t \in Tunnels : Boot(t) \/ Snapshot(t)

Spec == Init /\ [][Next]_vars

-------------------------------------------------------------------------------
(* Properties.                                                             *)

\* The types of the variables; a process runs the readable file it has read.
Stored == Contents \cup {"torn"}
Archives == [Tunnels -> Stored \cup {None}]
ASSUME ArchiveAssumption == None \notin Archives
Builds == {"none", "old", "torn", Latest}
Jobs == [op : {"idle", "edit", "wizard", "delete", "restart", "backup", "restore", "uninstall",
               "update", "migrate", "orphan", "retune"},
         at : {"end", "truncate", "write", "unit", "reload", "enable", "disable", "rmunit",
               "rmconfig", "rmmetrics", "next", "rmbinary", "restart", "copy", "extract", "install",
               "download", "downloading", "rename", "stat", "retire", "rmlegacy", "forget", "scan"},
         t : 0..N, data : Stored \cup {None}, todo : SUBSET Tunnels, copy : {None} \cup Archives]
Services == [st : {"down", "starting", "failing", "up"}, cfg : Contents \cup {None},
             build : {"none", "old", Latest}]
Seens == [discarded : BOOLEAN, applied : SUBSET Tunnels, leaving : SUBSET Tunnels,
          gone : SUBSET Tunnels, reported : SUBSET Tunnels, astray : SUBSET Tunnels]
TypeOK ==
  /\ config \in Archives
  /\ unit \in [Tunnels -> {"none", "file", "loaded"}] /\ metrics \subseteq Tunnels
  /\ service \in [Tunnels -> Services]
  /\ \A t \in Tunnels : service[t].st = "up" <=> service[t].cfg # None
  /\ legacy \in [unit : BOOLEAN, config : {None, "legacy"}, up : BOOLEAN] /\ legacyOk \in BOOLEAN
  /\ binary \in Builds /\ tmp \in {None, "torn", Latest} /\ archive \in {None} \cup Archives
  /\ build \in [Menus -> Builds] /\ job \in [Procs -> Jobs]
  /\ seen \in Seens

\* migrateLegacyTunnels: wherever the update is cut off, the configuration of
\* the flat install is still on disk, in the old place or in a new one, unless
\* an operation other than the migration wrote or removed that very file.
LegacyKept ==
  TypeOK /\ (seen.discarded \/ legacy.config # None \/ \E t \in Tunnels : config[t] = "legacy")

\* The flat install and the tunnel it became never run at the same time, which
\* would have the two fight for the same ports, unless the copy was put there
\* by a restored backup, or the timer restarted a tunnel of that name while it was
\* being deleted.
NoTwin ==
  legacy.up => \A t \in Tunnels \ seen.astray :
    ~(service[t].st = "up" /\ service[t].cfg = "legacy")

\* A tunnel that menuUpdate reported as restarted runs the new build from then
\* on, whatever else is started, stopped or edited meanwhile; one restarted since
\* its configuration was last written runs what is on disk, also when the timer's
\* restart came in the middle of that write; and wherever an update is cut off,
\* what would be restarted is a whole build.
RestartApplies ==
  /\ binary # "torn"
  /\ \A t \in seen.reported : service[t].st = "up" => service[t].build = Latest
  /\ \A t \in seen.applied : service[t].st = "up" => service[t].cfg = config[t]

\* deleteTunnel: nothing is left of a deleted tunnel, its metrics file least of
\* all, unless it was started or written again after the delete stopped it.
GoneLeavesNothing ==
  \A t \in seen.gone :
    /\ config[t] = None /\ unit[t] = "none" /\ t \notin metrics
    /\ service[t].st = "down"

\* Refuted, by the properties' own names, in configurations run by hand:
\* menuUpdate: once the new build is installed and no menu is at work, the flat
\* install is gone.  A menu cut off after the rename leaves it, and the next
\* menu, which is the new build, finds nothing to update.
NothingInvisible ==
  binary = Latest /\ (\A m \in Menus : job[m].op = "idle") => ~legacy.up

\* saveConfig: a menu cut off while it saves leaves a readable configuration.
SavedReadable ==
  (\A m \in Menus : job[m].op = "idle") => \A t \in Tunnels : config[t] # "torn"
===============================================================================
