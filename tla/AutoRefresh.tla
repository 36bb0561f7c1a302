------------------------------ MODULE AutoRefresh ------------------------------
(***************************************************************************)
(* The auto-refresh schedule (autorefresh.go): the files of a timer and    *)
(* its service, what systemd has of them, and what the menu shows.  The    *)
(* menu may be cut off between any two steps and the box restarted; a      *)
(* backup carries the timer's file only (backup.go).  systemd is external. *)
(***************************************************************************)
EXTENDS Naturals

CONSTANT Hours  \* intervals

VARIABLES timer,    \* the hours in the timer's file, 0 if there is none
          service,  \* there is a service file
          enabled,  \* the timer is started when the box is
          active,   \* the hours by which it runs, or 0
          saved,    \* the hours in the backup's copy of the timer
          step, want  \* the menu's step, and the hours asked for

files == <<timer, service>>
unit == <<enabled, active>>
vars == <<files, unit, saved, step, want>>

Init ==
  /\ timer = 0 /\ service = FALSE /\ enabled = FALSE /\ active = 0
  /\ saved = 0 /\ step = "idle" /\ want = 0

\* menuAutoRefresh; the hours it shows are the file's (currentAutoRefreshHours).
Ask ==
  /\ step = "idle"
  /\ \E h \in Hours \cup {0} :
       /\ h > 0 \/ timer > 0
       /\ want' = h /\ step' = IF h = 0 THEN "disable" ELSE "service"
  /\ UNCHANGED <<files, unit, saved>>

WriteService ==
  /\ step = "service" /\ service' = TRUE /\ step' = "timer"
  /\ UNCHANGED <<timer, unit, saved, want>>

WriteTimer ==
  /\ step = "timer" /\ timer' = want /\ step' = "reload"
  /\ UNCHANGED <<service, unit, saved, want>>

\* daemon-reload: a timer that runs goes on by its new file.
Reload ==
  /\ step = "reload"
  /\ active' = IF active > 0 /\ timer > 0 THEN timer ELSE active
  /\ step' = IF want = 0 THEN "idle" ELSE "enable"
  /\ UNCHANGED <<files, enabled, saved, want>>

\* enable --now
Enable ==
  /\ step = "enable" /\ enabled' = TRUE /\ active' = timer /\ step' = "idle"
  /\ UNCHANGED <<files, saved, want>>

\* Mutant of the next action: disabled, but not stopped.
DisableOnlyTimer ==
  /\ step = "disable" /\ enabled' = FALSE /\ step' = "rmtimer"
  /\ UNCHANGED <<files, active, saved, want>>

\* disable --now
Disable ==
  /\ step = "disable" /\ enabled' = FALSE /\ active' = 0 /\ step' = "rmtimer"
  /\ UNCHANGED <<files, saved, want>>

RemoveTimer ==
  /\ step = "rmtimer" /\ timer' = 0 /\ step' = "rmservice"
  /\ UNCHANGED <<service, unit, saved, want>>

RemoveService ==
  /\ step = "rmservice" /\ service' = FALSE /\ step' = "reload"
  /\ UNCHANGED <<timer, unit, saved, want>>

\* The menu's session is lost.
CutOff == step # "idle" /\ step' = "idle" /\ UNCHANGED <<files, unit, saved, want>>

\* The box restarts.
Reboot ==
  /\ step' = "idle" /\ active' = IF enabled THEN timer ELSE 0
  /\ UNCHANGED <<files, enabled, saved, want>>

\* createBackup and restoreBackup: of the schedule, the timer's file.
Backup ==
  /\ step = "idle" /\ timer > 0 /\ saved' = timer
  /\ UNCHANGED <<files, unit, step, want>>

Restore ==
  /\ step = "idle" /\ saved > 0 /\ timer' = saved
  /\ UNCHANGED <<service, unit, saved, step, want>>

Next ==
  \/ Ask \/ WriteService \/ WriteTimer \/ Reload \/ Enable
  \/ Disable \/ RemoveTimer \/ RemoveService \/ CutOff \/ Reboot \/ Backup \/ Restore

Spec == Init /\ [][Next]_vars

-------------------------------------------------------------------------------
(* Properties.                                                             *)

\* menuAutoRefresh: wherever it is cut off, and whatever is restored over it, a
\* timer that runs, now or after a restart of the box, is one the menu shows and
\* can disable, and has a service to start.
NeverHidden == active > 0 \/ enabled => timer > 0 /\ service

\* autorefresh.go:41: what the menu shows is what is installed, without a "state
\* file that could drift".  A restored backup (backup.go:51), or a menu cut off
\* before the last step, has it show hours that no timer runs by (refuted).
ShownIsScheduled == step = "idle" => active = timer
===============================================================================
