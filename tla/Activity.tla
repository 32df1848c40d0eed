------------------------------ MODULE Activity ------------------------------
(***************************************************************************)
(* The request counter and the idle timer of src/lifecycle.rs: `Activity`, *)
(* its RAII guard `ActiveRequest`, and the future `Activity::idle`.        *)
(*                                                                         *)
(* The counter lives in a tokio watch channel.  The idle future is its     *)
(* only receiver; of the channel's version numbers the future can only     *)
(* tell whether the value was sent to since it last looked (`changed`).    *)
(* One action is one poll of a task: the runtime is single-threaded, so    *)
(* nothing runs between two awaits.                                        *)
(***************************************************************************)
EXTENDS Naturals, FiniteSets

CONSTANTS
  Conn,         \* connections; a connection carries one request at a time
  IdleTimeout   \* the idle window, in ticks

\* config.rs drops a zero XOA_PROXY_IDLE_SECONDS with filter(|s| *s > 0).
ASSUME IdleTimeoutAssumption == IdleTimeout \in Nat \ {0}

VARIABLES
  guards,   \* connections whose request owns a live ActiveRequest
  active,   \* the usize in the watch channel
  changed,  \* has the value been sent to since the idle future last looked?
  idle,     \* where the idle future is suspended
  elapsed,  \* ticks since the idle future armed its timer, up to IdleTimeout
  quiet     \* history: ticks since a guard was last alive, up to IdleTimeout

vars == <<guards, active, changed, idle, elapsed, quiet>>

IdleStates == {"unpolled", "window", "busy", "returned"}

Init ==
  /\ guards = {}
  /\ active = 0
  /\ changed = FALSE
  /\ idle = "unpolled"
  /\ elapsed = 0
  /\ quiet = 0

-----------------------------------------------------------------------------
(* Requests.  send_modify writes the value and notifies in one call.       *)

EnterSilently(c) ==  \* mutant: enter writes the count without a notification
  /\ c \notin guards
  /\ guards' = guards \cup {c}
  /\ active' = active + 1
  /\ quiet' = 0
  /\ UNCHANGED <<changed, idle, elapsed>>

Enter(c) ==
  /\ c \notin guards
  /\ guards' = guards \cup {c}
  /\ active' = active + 1
  /\ changed' = TRUE
  /\ quiet' = 0
  /\ UNCHANGED <<idle, elapsed>>

DropGuardSilently(c) ==  \* mutant: the value is written without a notification
  /\ c \in guards
  /\ guards' = guards \ {c}
  /\ active' = active - 1
  /\ quiet' = 0
  /\ UNCHANGED <<changed, idle, elapsed>>

DropGuardLeak(c) ==  \* mutant: a request that found others active leaks its count
  /\ c \in guards
  /\ guards' = guards \ {c}
  /\ active' = IF active > 1 THEN active ELSE active - 1
  /\ changed' = TRUE
  /\ quiet' = 0
  /\ UNCHANGED <<idle, elapsed>>

DropGuardTwice(c) ==  \* mutant: the body and its guard both give the count back
  /\ c \in guards
  /\ guards' = guards \ {c}
  /\ active' = active - 2
  /\ changed' = TRUE
  /\ quiet' = 0
  /\ UNCHANGED <<idle, elapsed>>

DropGuard(c) ==
  /\ c \in guards
  /\ guards' = guards \ {c}
  /\ active' = active - 1
  /\ changed' = TRUE
  /\ quiet' = 0
  /\ UNCHANGED <<idle, elapsed>>

-----------------------------------------------------------------------------
(* The idle future.                                                        *)

\* The loop body: borrow_and_update, then suspend at one of the two awaits.
\* On the first await the deadline is a full IdleTimeout away.
Look ==
  /\ changed' = FALSE
  /\ idle' = IF active = 0 THEN "window" ELSE "busy"
  /\ elapsed' = 0
  /\ UNCHANGED <<guards, active, quiet>>

\* First poll: subscribe() starts from the current version.
Subscribe == idle = "unpolled" /\ Look

\* changes.changed() is ready: both awaits go round the loop again.
Wake == idle \in {"window", "busy"} /\ changed /\ Look

ExpireUnbiased ==  \* mutant: select! without `biased` may take the timer branch
  /\ idle = "window"
  /\ elapsed = IdleTimeout
  /\ idle' = "returned"
  /\ UNCHANGED <<guards, active, changed, elapsed, quiet>>

\* The timer branch: `biased` takes it only when changed() is still pending.
Expire ==
  /\ idle = "window"
  /\ ~changed
  /\ elapsed = IdleTimeout
  /\ idle' = "returned"
  /\ UNCHANGED <<guards, active, changed, elapsed, quiet>>

-----------------------------------------------------------------------------
(* Time.  Both clocks stop at IdleTimeout: the code only asks whether the  *)
(* deadline has passed.                                                    *)

Advance(t) == IF t < IdleTimeout THEN t + 1 ELSE t

Tick ==
  /\ elapsed' = IF idle = "window" THEN Advance(elapsed) ELSE elapsed
  /\ quiet' = IF guards = {} THEN Advance(quiet) ELSE 0
  /\ UNCHANGED <<guards, active, changed, idle>>

-----------------------------------------------------------------------------
IdlePoll == Subscribe \/ Wake \/ Expire

Next ==
  \/ \E c \in Conn : Enter(c) \/ DropGuard(c)
  \/ Subscribe
  \/ Wake
  \/ Expire
  \/ Tick

\* The runtime polls a woken task and fires a due timer; requests owe nothing.
Fairness == WF_vars(IdlePoll) /\ WF_vars(Tick)

Spec == Init /\ [][Next]_vars /\ Fairness

-----------------------------------------------------------------------------
TypeOK ==
  /\ guards \subseteq Conn
  /\ active \in Nat
  /\ changed \in BOOLEAN
  /\ idle \in IdleStates
  /\ elapsed \in 0 .. IdleTimeout
  /\ quiet \in 0 .. IdleTimeout

\* The counter never leaks and never underflows: it is at all times the number
\* of ActiveRequest values alive, whatever the order of the drops.
ActiveCountsGuards ==
  /\ IsFiniteSet(guards)
  /\ active = Cardinality(guards)

\* What makes the timer sound: while the future sits in the window and has seen
\* every send, no request is alive and none has been since the timer was armed.
WindowIsQuiet ==
  idle = "window" /\ ~changed => guards = {} /\ elapsed <= quiet

\* The doc comment at lifecycle.rs:62 as an action property.  idle() returns
\* only when no request is alive and none has been for a whole IdleTimeout;
\* a request that came and went between two polls counts too.
ReturnsAfterFullWindow ==
  [][idle' = "returned" /\ idle # "returned" => guards = {} /\ quiet = IdleTimeout]_vars

\* If requests stop for good, idle() does return: no wake-up is lost between
\* borrow_and_update and the next await.
IdleReturns == <>[](guards = {}) => <>(idle = "returned")

=============================================================================
