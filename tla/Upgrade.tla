------------------------------ MODULE Upgrade -------------------------------
(***************************************************************************)
(* The RPM scriptlets of SPECS/xoa-proxy.spec, and the %postun of the      *)
(* package they replace, run against systemd while the service goes on:    *)
(* one installation, upgrade or removal.                                   *)
(*                                                                         *)
(* Up to 0.1.2 ("legacy") the service is always on and binds port 9001     *)
(* itself; from 0.1.3 ("current") xoa-proxy.socket does.  Every systemctl  *)
(* error is swallowed (`|| :`), so a refused command is a step without     *)
(* effect.  The systemctl and the RPM at work are systemd 219 and rpm 4.11.*)
(***************************************************************************)
EXTENDS Sequences

VARIABLES
  from,       \* the package installed before, fixed
  op,         \* the transaction, "none" until rpm is called
  script,     \* the systemctl commands still to run, in rpm's order
  unit,       \* the units systemd has loaded
  boot,       \* the units enabled at boot
  sock, svc,  \* the two units
  importing,  \* is an import under way in the service's process?
  stopped     \* has an administrator stopped the service, and when?

vars == <<from, op, script, unit, boot, sock, svc, importing, stopped>>

Packages == {"none", "legacy", "current"}

\* stopping, restarting: told to stop, and drains first.
SvcStates == {"inactive", "active", "stopping", "restarting", "auto-restart"}

Commands == {"daemon-reload", "preset", "enable socket", "disable socket", "disable service",
             "test", "start socket", "stop socket", "stop service", "try-restart", "wait"}

Init ==
  /\ op = "none" /\ script = << >> /\ stopped = "no" /\ importing = FALSE
  /\ \/ from = "none" /\ boot = {} /\ sock = "inactive" /\ svc = "inactive"
     \/ from = "legacy" /\ boot \in SUBSET {"service"} /\ sock = "inactive"
          /\ svc \in {"active", "inactive"}
     \/ from = "current" /\ boot = {"socket"} /\ sock \in {"active", "inactive"}
          /\ svc = "inactive"
  /\ unit = from

-----------------------------------------------------------------------------
(* The scriptlets: n is the number of packages left once they have run.    *)

PostUntested(n) ==  \* mutant: the old %postun is trusted to start the socket
  IF n = 1 THEN <<"daemon-reload", "preset">>
           ELSE <<"daemon-reload", "disable service", "enable socket">>

Post(n) ==
  IF n = 1 THEN <<"daemon-reload", "preset", "test">>
           ELSE <<"daemon-reload", "disable service", "enable socket", "test">>

PreUnAlways(n) ==  \* mutant: does not ask whether the removal is real
  <<"disable service", "disable socket", "stop socket", "stop service">>

PreUnServiceOnly(n) ==  \* mutant: stops no socket, as the old package, which had none
  IF n = 0 THEN <<"disable service", "disable socket", "stop service">> ELSE << >>

PreUn(n) ==
  IF n = 0 THEN <<"disable service", "disable socket", "stop socket", "stop service">> ELSE << >>

PostUnRestart(package, n) ==  \* mutant: restarts the service, running or not
  IF n = 0 THEN <<"daemon-reload">> ELSE <<"daemon-reload", "restart">>

PostUnStopFirst(package, n) ==  \* mutant: stop and start instead of try-restart
  IF n = 0 THEN <<"daemon-reload">> ELSE <<"daemon-reload", "stop service", "start socket">>

PostUn(package, n) ==
  IF n = 0 THEN <<"daemon-reload">>
  ELSE IF package = "legacy" THEN <<"daemon-reload", "try-restart">>
  ELSE <<"daemon-reload", "try-restart", "start socket">>

\* rpm runs the new %post first, then the old %preun and %postun.
Begin ==
  /\ op = "none"
  /\ \/ from = "none" /\ op' = "install" /\ script' = Post(1)
     \/ from # "none" /\ op' = "upgrade" /\ script' = Post(2) \o PreUn(1) \o PostUn(from, 1)
     \/ from = "current" /\ op' = "remove" /\ script' = PreUn(0) \o PostUn(from, 0)
  /\ UNCHANGED <<from, unit, boot, sock, svc, importing, stopped>>

Run(command, rest) ==
  /\ script # << >> /\ Head(script) = command
  /\ script' = rest \o Tail(script)
  /\ UNCHANGED <<from, op, importing, stopped>>

Files ==
  /\ \/ /\ Run("daemon-reload", << >>)
        /\ unit' = IF op = "remove" THEN "none" ELSE "current"
        /\ UNCHANGED boot
     \/ /\ \/ Run("preset", << >>) /\ boot' = {"socket"}
           \/ Run("enable socket", << >>) /\ boot' = boot \cup {"socket"}
           \/ Run("disable socket", << >>) /\ boot' = boot \ {"socket"}
           \/ Run("disable service", << >>) /\ boot' = boot \ {"service"}
        /\ UNCHANGED unit
  /\ UNCHANGED <<sock, svc>>

\* `if ! systemctl is-active`: a service on its way down is not active, nor is
\* one that waits for its restart.
Test ==
  /\ \/ svc = "active" /\ Run("test", << >>)
     \/ svc # "active" /\ Run("test", <<"start socket">>)
  /\ UNCHANGED <<unit, boot, sock, svc>>

\* systemd refuses to start a socket whose service runs or is on its way down.
StartSocket ==
  /\ Run("start socket", << >>)
  /\ sock' = IF svc \in {"inactive", "auto-restart"} THEN "active" ELSE sock
  /\ UNCHANGED <<unit, boot, svc>>

Running == svc \in {"active", "auto-restart"}

\* stop and try-restart wait for their job.  Through Requires= the stop of the
\* socket stops the service first.
StartJob ==
  /\ \/ /\ Run("try-restart", IF Running THEN <<"wait">> ELSE << >>)
        /\ svc' = IF Running THEN "restarting" ELSE svc
        /\ UNCHANGED sock
     \/ /\ \/ Run("stop service", <<"wait">>) /\ UNCHANGED sock
           \/ /\ Run("stop socket", <<"wait">>)
              /\ sock' = IF svc = "inactive" THEN "inactive" ELSE "stopping"
        /\ svc' = IF Running THEN "stopping" ELSE svc
  /\ UNCHANGED <<unit, boot>>

Wait ==
  /\ svc \notin {"stopping", "restarting"}
  /\ Run("wait", << >>)
  /\ UNCHANGED <<unit, boot, sock, svc>>

-----------------------------------------------------------------------------
(* The service meanwhile.                                                  *)

Meanwhile == UNCHANGED <<from, op, script, unit, boot>>

\* Starting the service pulls the socket in (Requires=, After=).
SockPulled == IF unit = "current" THEN "active" ELSE sock

\* The process has drained and is gone.
Stopped ==
  /\ svc \in {"stopping", "restarting"}
  /\ ~importing
  /\ svc' = IF svc = "restarting" THEN "active" ELSE "inactive"
  /\ sock' = CASE svc = "restarting" -> SockPulled
               [] sock = "stopping" -> "inactive"
               [] OTHER -> sock
  /\ UNCHANGED <<importing, stopped>> /\ Meanwhile

TimesOutAlways == TRUE  \* mutant: TimeoutStopSec=infinity is missing, 90s stand in

TimesOut == unit = "legacy"

\* After TimeoutStopSec systemd kills what is left of the service.
Kill ==
  /\ svc \in {"stopping", "restarting"}
  /\ importing /\ TimesOut
  /\ importing' = FALSE
  /\ UNCHANGED <<sock, svc, stopped>> /\ Meanwhile

Activate ==
  /\ sock = "active" /\ svc = "inactive"
  /\ svc' = "active"
  /\ UNCHANGED <<sock, importing, stopped>> /\ Meanwhile

\* Only a process that systemd gave its socket to leaves by itself.
IdleExit ==
  /\ sock = "active" /\ svc = "active" /\ ~importing
  /\ svc' = "inactive"
  /\ UNCHANGED <<sock, importing, stopped>> /\ Meanwhile

\* Restart=on-failure, with the same dependencies as any start.
Crash ==
  /\ svc = "active"
  /\ svc' = "auto-restart" /\ importing' = FALSE
  /\ UNCHANGED <<sock, stopped>> /\ Meanwhile

AutoRestart ==
  /\ svc = "auto-restart"
  /\ svc' = "active" /\ sock' = SockPulled
  /\ UNCHANGED <<importing, stopped>> /\ Meanwhile

\* A request that was accepted before the signal may become an import after it.
ImportBegins ==
  /\ svc \in {"active", "stopping", "restarting"} /\ ~importing
  /\ importing' = TRUE
  /\ UNCHANGED <<sock, svc, stopped>> /\ Meanwhile

ImportEnds ==
  /\ importing
  /\ importing' = FALSE
  /\ UNCHANGED <<sock, svc, stopped>> /\ Meanwhile

\* An administrator stops the service, and only the service, once.
AdminStop ==
  /\ stopped = "no" /\ svc = "active"
  /\ stopped' = IF op = "none" THEN "before" ELSE "during"
  /\ svc' = "stopping"
  /\ UNCHANGED <<sock, importing>> /\ Meanwhile

Next ==
  \/ Begin \/ Files \/ Test \/ StartSocket \/ StartJob \/ Wait
  \/ Stopped \/ Kill \/ Activate \/ IdleExit \/ Crash \/ AutoRestart
  \/ ImportBegins \/ ImportEnds \/ AdminStop

Spec == Init /\ [][Next]_vars

-----------------------------------------------------------------------------
TypeOK ==
  /\ from \in Packages
  /\ op \in {"none", "install", "upgrade", "remove"}
  /\ script \in Seq(Commands)
  /\ unit \in Packages
  /\ boot \subseteq {"service", "socket"}
  /\ sock \in {"inactive", "active", "stopping"} /\ svc \in SvcStates
  /\ importing \in BOOLEAN
  /\ stopped \in {"no", "before", "during"}

Done == op # "none" /\ script = << >>

\* "If the old service is running, its package restart drains the current import
\* before the socket takes over" (README.md:63-65): whatever the service did between
\* %post and the old %postun, short of an administrator stopping it, the socket
\* listens at the end of the transaction, and it alone does at the next boot.  (A service
\* that was stopped and still drains makes systemd refuse the start of the socket.)
SocketTakesOver ==
  Done /\ op # "remove" => boot = {"socket"} /\ (stopped = "no" => sock = "active")

\* "Removal stops and disables both units" (README.md:65): nothing is left that
\* listens or runs, or that a connection or a boot could start again.
RemovalIsFinal ==
  Done /\ op = "remove" => boot = {} /\ sock = "inactive" /\ svc = "inactive"

\* "Do not interrupt an import here" (xoa-proxy.spec:53): systemd never kills an
\* import on account of a scriptlet, only on account of an administrator's stop.
ScriptletsSpareImports == [][Kill => stopped # "no"]_vars

\* Somebody listens on the port, or is sure to: a process that drains without a socket
\* unit, or that crashed, has its restart to come.
Served == sock = "active" \/ svc \in {"active", "restarting", "auto-restart"}

\* "The previous RPM's postun try-restart drains it [...], then Requires=xoa-proxy.socket
\* provides the new listener before startup" (xoa-proxy.spec:54-55): no step of an
\* upgrade leaves the port with neither a listener nor one that is due.  A legacy
\* listener is closed while its process drains, but its successor is due by then.
UpgradeKeepsTheEndpoint ==
  [][op' = "upgrade" /\ stopped' = "no" /\ Served => Served']_vars

=============================================================================
