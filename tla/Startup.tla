------------------------------ MODULE Startup -------------------------------
(***************************************************************************)
(* How a process comes up: main.rs until its shutdown future first waits,  *)
(* with Config::load of config.rs and `listener` of lifecycle.rs.          *)
(*                                                                         *)
(* A numeric variable is the number it spells: -1 when it is unset or no   *)
(* number, and past the maximum of its Rust type when it does not fit.     *)
(***************************************************************************)
EXTENDS Integers

CONSTANTS
  PortMax,      \* of u16
  SecondsMax,   \* of u64
  ClockMax,     \* of the i64 seconds in an Instant
  Uptime,       \* the latest a process is started
  DefaultPort, DefaultSeconds

ASSUME Widths ==
  /\ PortMax \in Nat /\ SecondsMax \in Nat /\ ClockMax \in Nat
  /\ Uptime \in 0 .. ClockMax
  /\ DefaultPort \in 1 .. PortMax
  /\ DefaultSeconds \in 1 .. SecondsMax

\* Port stands for XOA_PROXY_PORT, pid for LISTEN_PID, and so on.  A LISTEN_PID
\* of another process is one inherited from a parent, or no number.
Environments == [port : -1 .. PortMax + 1, bind : {"unset", "public"},
                 seconds : -1 .. SecondsMax + 1,
                 pid : {"unset", "own", "other"}, fds : {"unset", "1", "other"}]

VARIABLES
  env,       \* the environment, fixed
  stage,     \* how far main has come
  config,    \* Config, with zeroes until it is loaded
  listener,  \* << >>, <<"fd", 3>> or the address bound
  now,       \* the monotonic clock, in seconds; startup takes less than one
  began,     \* history: when the process was started
  deadline   \* of the idle timer

vars == <<env, stage, config, listener, now, began, deadline>>

\* waiting: for a signal alone.  draining: axum has been told to stop.
Stages == {"logging", "config", "clients", "listen", "serving", "waiting", "idling",
           "draining", "failed"}

Init ==
  /\ env \in Environments
  /\ stage = "logging"
  /\ config = [port |-> 0, bind |-> "127.0.0.1", idle_timeout |-> 0]
  /\ listener = << >>
  /\ now \in 0 .. Uptime
  /\ began = now
  /\ deadline = 0

Go(s) == stage' = s /\ UNCHANGED <<env, now, began>>

-----------------------------------------------------------------------------
\* Each `?` in main ends the process with an error.
OpenLog ==
  /\ stage = "logging"
  /\ Go("config") \/ Go("failed")
  /\ UNCHANGED <<config, listener, deadline>>

BuildClients ==
  /\ stage = "clients"
  /\ Go("listen") \/ Go("failed")
  /\ UNCHANGED <<config, listener, deadline>>

ParsedUnchecked(n, max, default) == IF n >= 0 THEN n ELSE default  \* mutant: no width

Parsed(n, max, default) == IF n \in 0 .. max THEN n ELSE default

SecondsUnfiltered == Parsed(env.seconds, SecondsMax, DefaultSeconds)  \* mutant: no filter

\* A zero is parsed, and then dropped by filter(|s| *s > 0).
Seconds ==
  LET s == Parsed(env.seconds, SecondsMax, DefaultSeconds)
  IN  IF s > 0 THEN s ELSE DefaultSeconds

LoadConfig ==
  /\ stage = "config"
  /\ config' = [port |-> Parsed(env.port, PortMax, DefaultPort),
                bind |-> IF env.bind = "unset" THEN "127.0.0.1" ELSE env.bind,
                idle_timeout |-> Seconds]
  /\ Go("clients")
  /\ UNCHANGED <<listener, deadline>>

StandaloneIfAny == env.pid = "unset" \/ env.fds = "unset"  \* mutant: || for &&

Standalone == env.pid = "unset" /\ env.fds = "unset"

\* Port 0 lets the kernel choose.  Binding, and taking over fd 3, may fail.
Listen ==
  /\ stage = "listen"
  /\ \/ Go("failed") /\ UNCHANGED listener
     \/ /\ Standalone
        /\ \E p \in 1 .. PortMax :
             /\ config.port \in {0, p}
             /\ listener' = <<config.bind, p>>
        /\ Go("serving")
     \/ /\ ~Standalone /\ env.pid = "own" /\ env.fds = "1"
        /\ listener' = <<"fd", 3>>
        /\ Go("serving")
  /\ UNCHANGED <<config, deadline>>

-----------------------------------------------------------------------------
\* The shutdown future is first polled.  When activated it runs idle() with no
\* request alive: Instant::now() + timeout panics when it does not fit, which
\* drops axum's end of the signal with the task.
Arm ==
  /\ stage = "serving"
  /\ \/ Standalone /\ Go("waiting") /\ UNCHANGED deadline
     \/ /\ ~Standalone /\ now + config.idle_timeout <= ClockMax
        /\ Go("idling")
        /\ deadline' = now + config.idle_timeout
     \/ /\ ~Standalone /\ now + config.idle_timeout > ClockMax
        /\ Go("draining")
        /\ UNCHANGED deadline
  /\ UNCHANGED <<config, listener>>

\* sleep_until returns.
Expire ==
  /\ stage = "idling"
  /\ now >= deadline
  /\ Go("draining")
  /\ UNCHANGED <<config, listener, deadline>>

Tick ==
  /\ stage \in {"waiting", "idling"}
  /\ now < ClockMax
  /\ now' = now + 1
  /\ UNCHANGED <<env, stage, config, listener, began, deadline>>

Next == OpenLog \/ LoadConfig \/ BuildClients \/ Listen \/ Arm \/ Expire \/ Tick

Spec == Init /\ [][Next]_vars

-----------------------------------------------------------------------------
TypeOK ==
  /\ env \in Environments
  /\ stage \in Stages
  /\ config \in [port : 0 .. PortMax, bind : {"127.0.0.1", "public"},
                 idle_timeout : 0 .. SecondsMax]
  /\ listener \in {<< >>, <<"fd", 3>>} \cup ({"127.0.0.1", "public"} \X (1 .. PortMax))
  /\ now \in 0 .. ClockMax /\ began \in 0 .. now
  /\ deadline \in 0 .. ClockMax

\* "Invalid activation metadata is an error, never a fallback bind on another
\* port" (lifecycle.rs:21), and valid metadata beats XOA_PROXY_BIND and _PORT.
\* Without any, a process is public only if it was told so.
ListensWhereTold ==
  listener # << >> =>
    IF env.pid = "unset" /\ env.fds = "unset"
    THEN /\ listener[1] = "public" <=> env.bind # "unset"
         /\ env.port \in 1 .. PortMax => listener[2] = env.port
         /\ env.port \notin 0 .. PortMax => listener[2] = DefaultPort
    ELSE listener = <<"fd", 3>> /\ env.pid = "own" /\ env.fds = "1"

\* The window the operator asked for, or the default when he asked for none.
Wanted == IF env.seconds \in 1 .. SecondsMax THEN env.seconds ELSE DefaultSeconds

HonoursWindow == stage = "draining" => listener = <<"fd", 3>> /\ now - began >= Wanted

\* Unless told by a signal, only an activated process stops, and only after the
\* window it was configured with, whatever the variable holds: provided the end
\* of the window is an Instant.
WindowIsHonoured == began + Wanted <= ClockMax => HonoursWindow

-----------------------------------------------------------------------------
\* README.md:68 accepts any positive number of seconds for the window.
PositiveWindowIsHonoured == env.seconds \in 1 .. SecondsMax => HonoursWindow

=============================================================================
