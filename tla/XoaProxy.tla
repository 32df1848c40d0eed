------------------------------ MODULE XoaProxy ------------------------------
(***************************************************************************)
(* The whole service: main.rs puts Activity around the router, hands it to *)
(* axum::serve with graceful shutdown, and ends on a signal or, when       *)
(* systemd activated it, on the idle timer.  Clients reach it through      *)
(* xoa-proxy.socket, which outlives the process.                           *)
(*                                                                         *)
(* Activity and ImageHandler are instantiated on this module's variables.  *)
(* What axum, hyper and systemd do is modelled from how main.rs and the    *)
(* units use them; see the README for each assumption.                     *)
(***************************************************************************)
EXTENDS Naturals, FiniteSets

CONSTANTS Conn, IdleTimeout

ASSUME IdleWindow == IdleTimeout \in Nat \ {0}

VARIABLES
  guards, active, changed, idle, elapsed, quiet,   \* Activity
  pc, lock, status,                                \* ImageHandler
  proc,       \* the process, as systemd and the kernel see it
  activated,  \* did lifecycle::listener get systemd's socket?
  signalled,  \* the with_graceful_shutdown future has returned
  conn,       \* each client's connection
  told        \* connections whose task has run hyper's graceful_shutdown

activityVars == <<guards, active, changed, idle, elapsed, quiet>>
handlerVars == <<pc, lock, status>>
serveVars == <<proc, activated, signalled, conn, told>>
vars == <<activityVars, handlerVars, serveVars>>

Act == INSTANCE Activity
Hnd == INSTANCE ImageHandler

ProcStates == {"down", "serving", "draining", "restarting"}

\* A client writes its request as it connects; it may reach the process in parts.
\* queued: in the socket's backlog.  open: accepted, nothing read yet.  head: a
\* part of the request head read.  kept: keep-alive, between two requests.
\* cut: closed by the process without the request ever being read.
ConnStates == {"away", "queued", "open", "head", "serving", "kept", "cut"}

Up == proc \in {"serving", "draining"}

Accepted == {c \in Conn : conn[c] \in {"open", "head", "serving", "kept"}}

\* Standalone, the process is started by hand and listens at once; activated,
\* it waits for a first connection.
Init ==
  /\ Act!Init
  /\ Hnd!Init
  /\ activated \in BOOLEAN
  /\ proc = IF activated THEN "down" ELSE "serving"
  /\ signalled = FALSE
  /\ conn = [c \in Conn |-> "away"]
  /\ told = {}

Move(c, s) == conn' = [conn EXCEPT ![c] = s]

-----------------------------------------------------------------------------
(* systemd: the socket unit and Restart=on-failure.                        *)

\* A client connects: to systemd's socket at any time, to a standalone
\* process's own socket while it listens.
Connect(c) ==
  /\ conn[c] \in {"away", "cut"}
  /\ activated \/ proc = "serving"
  /\ Move(c, "queued")
  /\ UNCHANGED <<activityVars, handlerVars, proc, activated, signalled, told>>

Launch ==
  /\ activated
  /\ proc = "down"
  /\ \E c \in Conn : conn[c] = "queued"
  /\ proc' = "serving"
  /\ UNCHANGED <<activityVars, handlerVars, activated, signalled, conn, told>>

Restart ==
  /\ proc = "restarting"
  /\ proc' = "serving"
  /\ UNCHANGED <<activityVars, handlerVars, activated, signalled, conn, told>>

-----------------------------------------------------------------------------
(* axum::serve and hyper: one task per connection.                         *)

\* The accept loop picks at random when both a connection and the signal are
\* ready, so it may still accept once signalled.
Accept(c) ==
  /\ proc = "serving"
  /\ conn[c] = "queued"
  /\ Move(c, "open")
  /\ UNCHANGED <<activityVars, handlerVars, proc, activated, signalled, told>>

PartialHead(c) ==
  /\ Up
  /\ conn[c] = "open"
  /\ Move(c, "head")
  /\ UNCHANGED <<activityVars, handlerVars, proc, activated, signalled, told>>

\* The head is complete: track enters, and the handler runs to its first await.
ReadRequest(c) ==
  /\ Up
  /\ conn[c] \in {"open", "head", "kept"}
  /\ Act!Enter(c)
  /\ Hnd!Start(c)
  /\ Move(c, "serving")
  /\ UNCHANGED <<proc, activated, signalled, told>>

ProbeAnswered(c) ==
  /\ conn[c] = "serving"
  /\ Hnd!ProbeAnswered(c)
  /\ UNCHANGED <<activityVars, serveVars>>

FetchAnsweredUncovered(c) ==  \* mutant: track drops its guard when next.run returns
  /\ conn[c] = "serving"
  /\ Hnd!FetchAnswered(c)
  /\ Act!DropGuard(c)
  /\ UNCHANGED serveVars

FetchAnswered(c) ==
  /\ conn[c] = "serving"
  /\ Hnd!FetchAnswered(c)
  /\ UNCHANGED <<activityVars, serveVars>>

\* The request is over: ActiveBody drops the handler's body, then its guard.
Release(c) == Hnd!Drop(c) /\ Act!DropGuard(c)

BodyDoneImagesOnly(c) ==  \* mutant: only an image's body is followed to its end
  /\ conn[c] = "serving"
  /\ pc[c] = "streaming"
  /\ Release(c)
  /\ Move(c, "away")
  /\ told' = told \ {c}
  /\ UNCHANGED <<proc, activated, signalled>>

BodyDoneKept(c) ==  \* mutant: keep-alive stays on for a connection told to shut down
  /\ conn[c] = "serving"
  /\ pc[c] \in {"streaming", "replying"}
  /\ Release(c)
  /\ \/ Move(c, "away") /\ told' = told \ {c}
     \/ status[c] # 200 /\ Move(c, "kept") /\ UNCHANGED told
  /\ UNCHANGED <<proc, activated, signalled>>

\* An image ends with its connection (HTTP/1.0, Connection: close); so does a
\* connection already told to shut down.  An error reply may keep it alive.
BodyDone(c) ==
  /\ conn[c] = "serving"
  /\ pc[c] \in {"streaming", "replying"}
  /\ Release(c)
  /\ \/ Move(c, "away") /\ told' = told \ {c}
     \/ status[c] # 200 /\ c \notin told /\ Move(c, "kept") /\ UNCHANGED told
  /\ UNCHANGED <<proc, activated, signalled>>

\* The client disconnects; hyper drops the handler or the body under way.
ClientGone(c) ==
  /\ conn[c] \in {"queued", "open", "head", "serving", "kept"}
  /\ Move(c, "away")
  /\ told' = told \ {c}
  /\ IF conn[c] = "serving" THEN Release(c) ELSE UNCHANGED <<activityVars, handlerVars>>
  /\ UNCHANGED <<proc, activated, signalled>>

-----------------------------------------------------------------------------
(* Shutdown.                                                               *)

\* SIGTERM or SIGINT; select! drops the idle future.
Signal ==
  /\ proc = "serving"
  /\ ~signalled
  /\ signalled' = TRUE
  /\ UNCHANGED <<activityVars, handlerVars, proc, activated, conn, told>>

IdlePollAlways ==  \* mutant: `if activated` is dropped, so standalone idles out too
  /\ proc = "serving"
  /\ ~signalled
  /\ \/ (Act!Subscribe \/ Act!Wake) /\ UNCHANGED signalled
     \/ Act!Expire /\ signalled' = TRUE
  /\ UNCHANGED <<handlerVars, proc, activated, conn, told>>

\* One poll of the idle branch; its return ends the shutdown future with it.
IdlePoll ==
  /\ activated
  /\ proc = "serving"
  /\ ~signalled
  /\ \/ (Act!Subscribe \/ Act!Wake) /\ UNCHANGED signalled
     \/ Act!Expire /\ signalled' = TRUE
  /\ UNCHANGED <<handlerVars, proc, activated, conn, told>>

StopAtOnce ==  \* mutant: main drops the server when the signal comes, requests and all
  /\ proc = "serving"
  /\ signalled
  /\ proc' = "draining"
  /\ conn' = [c \in Conn |-> IF c \in Accepted THEN "cut" ELSE conn[c]]
  /\ guards' = {} /\ active' = 0 /\ lock' = {}
  /\ pc' = [c \in Conn |-> "none"]
  /\ UNCHANGED <<changed, idle, elapsed, quiet, status, activated, signalled, told>>

\* axum leaves the accept loop and drops its listener.  Systemd's own copy of
\* the socket keeps the backlog; a standalone listener takes it down.
StopAccepting ==
  /\ proc = "serving"
  /\ signalled
  /\ proc' = "draining"
  /\ conn' = [c \in Conn |-> IF conn[c] = "queued" /\ ~activated THEN "away" ELSE conn[c]]
  /\ UNCHANGED <<activityVars, handlerVars, activated, signalled, told>>

\* The connection's task sees the signal.  hyper closes a connection it has
\* read nothing from, and an idle one; any other finishes its one request.
Shut(c) ==
  /\ Up /\ signalled
  /\ c \in Accepted \ told
  /\ \/ conn[c] = "open" /\ Move(c, "cut") /\ UNCHANGED told
     \/ conn[c] = "kept" /\ Move(c, "away") /\ UNCHANGED told
     \/ conn[c] \in {"head", "serving"} /\ told' = told \cup {c} /\ UNCHANGED conn
  /\ UNCHANGED <<activityVars, handlerVars, proc, activated, signalled>>

\* What a process holds in memory, back to its values at startup.
Forget ==
  /\ guards' = {} /\ active' = 0 /\ changed' = FALSE
  /\ idle' = "unpolled" /\ elapsed' = 0 /\ quiet' = 0
  /\ pc' = [c \in Conn |-> "none"]
  /\ lock' = {}
  /\ status' = [c \in Conn |-> 0]
  /\ signalled' = FALSE
  /\ told' = {}

ExitJoinsIdle ==  \* mutant: main also waits for the idle future, which a signal drops
  /\ proc = "draining"
  /\ Accepted = {}
  /\ activated => idle = "returned"
  /\ proc' = "down"
  /\ Forget
  /\ UNCHANGED <<activated, conn>>

ExitAtOnce ==  \* mutant: main returns with the accept loop, its connections' tasks die with it
  /\ proc = "draining"
  /\ proc' = "down"
  /\ Forget
  /\ UNCHANGED <<activated, conn>>

\* axum::serve returns when every connection's task has ended, and main with it.
Exit ==
  /\ proc = "draining"
  /\ Accepted = {}
  /\ proc' = "down"
  /\ Forget
  /\ UNCHANGED <<activated, conn>>

\* The process dies: the kernel closes its connections, and its listener unless
\* systemd holds it too.
Crash ==
  /\ Up
  /\ proc' = IF activated THEN "restarting" ELSE "down"
  /\ conn' = [c \in Conn |->
       IF c \in Accepted \/ (conn[c] = "queued" /\ ~activated) THEN "away" ELSE conn[c]]
  /\ Forget
  /\ UNCHANGED activated

Tick ==
  /\ Up
  /\ Act!Tick
  /\ UNCHANGED <<handlerVars, serveVars>>

-----------------------------------------------------------------------------
Next ==
  \/ \E c \in Conn :
       \/ Connect(c) \/ Accept(c) \/ PartialHead(c) \/ ReadRequest(c)
       \/ ProbeAnswered(c) \/ FetchAnswered(c) \/ BodyDone(c) \/ ClientGone(c)
       \/ Shut(c)
  \/ Launch \/ Restart
  \/ Signal \/ IdlePoll \/ StopAccepting \/ Exit \/ Crash
  \/ Tick

\* systemd, the kernel and the async runtime do their part.  Accept is strong:
\* axum's select! may pick the signal instead, but not every time for ever.
SystemFairness ==
  /\ WF_vars(Launch) /\ WF_vars(Restart)
  /\ WF_vars(IdlePoll) /\ WF_vars(Tick)
  /\ WF_vars(StopAccepting) /\ WF_vars(Exit)
  /\ \A c \in Conn : SF_vars(Accept(c)) /\ WF_vars(Shut(c))

\* Upstreams answer and clients read, finish their request or go.  Nothing in
\* the code enforces this: it sets no timeout anywhere.
EnvironmentFairness ==
  \A c \in Conn :
    /\ WF_vars(ProbeAnswered(c)) /\ WF_vars(FetchAnswered(c)) /\ WF_vars(BodyDone(c))
    /\ WF_vars(conn[c] = "head" /\ (ReadRequest(c) \/ ClientGone(c)))

SafetySpec == Init /\ [][Next]_vars

Spec == SafetySpec /\ SystemFairness

-----------------------------------------------------------------------------
TypeOK ==
  /\ Act!TypeOK
  /\ Hnd!TypeOK
  /\ proc \in ProcStates
  /\ activated \in BOOLEAN
  /\ signalled \in BOOLEAN
  /\ conn \in [Conn -> ConnStates]
  /\ told \subseteq Conn

\* "Cover validation, HEAD probes, upstream headers and the entire response
\* body" (lifecycle.rs:90): the counter covers a request exactly from its head
\* to the drop of its body, and the handler is at work exactly then.
ServingIsTracked ==
  \A c \in Conn :
    /\ conn[c] = "serving" <=> c \in guards
    /\ conn[c] = "serving" <=> pc[c] # "none"

\* The import lock is never held outside a counted request, so whoever sees the
\* counter at zero also sees the lock free.
LockIsTracked == lock \subseteq guards

\* The idle timer ends an activated process only, never a standalone one, and
\* only when no request has been alive for the whole window: never mid-import.
IdleStopIsQuiet ==
  [][idle' = "returned" /\ idle # "returned" =>
       activated /\ guards = {} /\ lock = {} /\ quiet = IdleTimeout]_vars

\* Once no client wants anything and the process does not crash, an activated
\* process exits by itself, leaving the port to the socket (README.md:47).  No
\* behaviour of the environment is assumed.
Unwanted ==
  /\ proc # "restarting"
  /\ \A c \in Conn : conn[c] \notin {"queued", "head", "serving"}

IdleExit == activated /\ <>[]Unwanted => <>[](proc = "down")

\* If upstreams answer and clients read, a process that was told to stop is gone in the
\* end: a client that keeps its connection alive between requests does not hold it.
ShutdownEnds == EnvironmentFairness => (signalled ~> ~Up)

\* If upstreams answer and clients read, a connection that reached the systemd socket
\* is accepted or given up by its client, whether the process is down, draining,
\* restarting or about to exit.
NoStrandedConnection ==
  EnvironmentFairness => \A c \in Conn : activated /\ conn[c] = "queued" ~> conn[c] # "queued"

\* What the clients see of the process, and each of its own request.
ServerSeen == IF Up THEN "up" ELSE proc

Seen(c) ==
  CASE conn[c] \in {"queued", "open", "head"} -> "waiting"
    [] conn[c] \in {"away", "kept"} -> "away"
    [] conn[c] = "cut" -> "cut"
    [] conn[c] = "serving" -> Hnd!Phase(c)

Service == INSTANCE ImportService
  WITH demand <- activated, server <- ServerSeen, client <- [c \in Conn |-> Seen(c)]

\* The service implements ImportService: what the lock, the counter, hyper, the
\* shutdown and systemd do together looks to a client like one server that admits
\* an import or refuses it.  "Graceful shutdown [...] never applies a fixed time limit
\* to an active import" (README.md:50-51): the server stops only when it owes nobody
\* an answer, and hangs up only on clients it has read nothing from.
ImplementsService == Service!SafetySpec

\* If upstreams answer and clients read, every request that was read is finished,
\* through crashes and shutdowns: with ImplementsService, the whole of Service!Spec.
ServiceFinishes == EnvironmentFairness => Service!Fairness

\* The activated service as Upgrade has it, between two transactions: its socket
\* listens, and systemd calls a process that is up active, drained or not.
Unit == INSTANCE Upgrade
  WITH from <- "current", unit <- "current", op <- "none", script <- << >>,
       boot <- {"socket"}, sock <- "active", stopped <- "no", importing <- lock # {},
       svc <- CASE Up -> "active"
                [] proc = "down" -> "inactive"
                [] proc = "restarting" -> "auto-restart"

\* What Upgrade takes for granted of the service while scriptlets run: it starts when
\* a connection or systemd makes it, its imports begin and end one at a time while it
\* is up, and it ends under an import in a crash only.
ImplementsUnit == (activated => Unit!Init) /\ [][activated => Unit!Next]_(Unit!vars)

-----------------------------------------------------------------------------
\* README.md:50 says that graceful shutdown drains accepted connections: none
\* of them should be closed unread.
AcceptedAreDrained == \A c \in Conn : conn[c] # "cut"

=============================================================================
