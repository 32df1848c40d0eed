---------------------------- MODULE ImageHandler ----------------------------
(***************************************************************************)
(* GET /image.xva: src/handler.rs, src/stream.rs and src/error.rs, seen    *)
(* from the import lock of src/state.rs.                                   *)
(*                                                                         *)
(* handle_image_xva awaits twice: the HEAD probe and the upstream GET.     *)
(* One action is the code between two awaits; everything the upstream or   *)
(* the client decides is a choice.  What the image is (format, TLS, bytes) *)
(* does not change the control followed here, so it is left out.           *)
(***************************************************************************)
EXTENDS Naturals

CONSTANT Conn

VARIABLES
  pc,      \* where the request of a connection stands
  lock,    \* requests that own a live OwnedMutexGuard of import_lock
  status   \* status of the response under way, 0 while there is none

vars == <<pc, lock, status>>

Stages == {"none", "probing", "fetching", "streaming", "replying"}

\* stages in which a request is an import: it owns the upstream GET or its body
Importing(c) == pc[c] \in {"fetching", "streaming"}

ProxyError == {"BadRequest", "NotFound", "ImportInProgress", "UpstreamFailed", "ProbeFailed"}

StatusOfDefault == [e \in ProxyError |->  \* mutant: an arm is missing, 500 stands in
  CASE e = "BadRequest" -> 400
    [] e = "NotFound" -> 404
    [] e = "ImportInProgress" -> 409
    [] e = "UpstreamFailed" -> 502
    [] e = "ProbeFailed" -> 500]

StatusOf == [e \in ProxyError |->
  CASE e = "BadRequest" -> 400
    [] e = "NotFound" -> 404
    [] e = "ImportInProgress" -> 409
    [] e \in {"UpstreamFailed", "ProbeFailed"} -> 502]

Init ==
  /\ pc = [c \in Conn |-> "none"]
  /\ lock = {}
  /\ status = [c \in Conn |-> 0]

-----------------------------------------------------------------------------
Respond(c, stage, code) ==
  /\ pc' = [pc EXCEPT ![c] = stage]
  /\ status' = [status EXCEPT ![c] = code]

Fail(c, e) == Respond(c, "replying", StatusOf[e])

Await(c, stage) ==
  /\ pc' = [pc EXCEPT ![c] = stage]
  /\ UNCHANGED status

TryImportUnlocked(c) ==  \* mutant: the result of try_lock_owned is ignored
  /\ Await(c, "fetching")
  /\ lock' = lock \cup {c}

TryImportInverted(c) ==  \* mutant: 409 on the branch where the lock was free
  \/ lock = {} /\ Fail(c, "ImportInProgress") /\ UNCHANGED lock
  \/ lock # {} /\ Await(c, "fetching") /\ lock' = lock \cup {c}

\* try_lock_owned: refused at once when any guard is alive, else the guard is
\* moved into fetch_xva_stream and the upstream GET is sent.
TryImport(c) ==
  \/ lock # {} /\ Fail(c, "ImportInProgress") /\ UNCHANGED lock
  \/ lock = {} /\ Await(c, "fetching") /\ lock' = lock \cup {c}

\* The router has one path, with one method; axum itself answers 405.
Unrouted(c) == Fail(c, "NotFound") \/ Respond(c, "replying", 405)

\* The handler starts: no route, or a missing or bad src, is answered without
\* the lock; a telling extension goes straight to the lock; any other src is
\* probed first.
Start(c) ==
  /\ pc[c] = "none"
  /\ \/ (Unrouted(c) \/ Fail(c, "BadRequest")) /\ UNCHANGED lock
     \/ TryImport(c)
     \/ Await(c, "probing") /\ UNCHANGED lock

\* The HEAD probe is over: it failed, or it told a format.
ProbeAnswered(c) ==
  /\ pc[c] = "probing"
  /\ \/ Fail(c, "ProbeFailed") /\ UNCHANGED lock
     \/ TryImport(c)

FetchAnsweredLeak(c) ==  \* mutant: the guard outlives a failed fetch
  /\ pc[c] = "fetching"
  /\ \/ Respond(c, "streaming", 200) /\ UNCHANGED lock
     \/ Fail(c, "UpstreamFailed") /\ UNCHANGED lock

\* The upstream GET is over.  On success the guard moves into the body; axum
\* strips the body of a HEAD request, and the guard goes with it.  On failure
\* fetch_xva_stream returns early and drops the guard.
FetchAnswered(c) ==
  /\ pc[c] = "fetching"
  /\ \/ Respond(c, "streaming", 200) /\ UNCHANGED lock
     \/ Respond(c, "replying", 200) /\ lock' = lock \ {c}
     \/ Fail(c, "UpstreamFailed") /\ lock' = lock \ {c}

DropStreamOnly(c) ==  \* mutant: a cancelled fetch leaks the guard, only the body frees it
  /\ pc[c] # "none"
  /\ Respond(c, "none", 0)
  /\ lock' = IF pc[c] = "streaming" THEN lock \ {c} ELSE lock

\* The handler future or the response body is dropped: written to the end,
\* broken off by the upstream, or abandoned by the client.
Drop(c) ==
  /\ pc[c] # "none"
  /\ Respond(c, "none", 0)
  /\ lock' = lock \ {c}

Next == \E c \in Conn : Start(c) \/ ProbeAnswered(c) \/ FetchAnswered(c) \/ Drop(c)

Spec == Init /\ [][Next]_vars

-----------------------------------------------------------------------------
TypeOK ==
  /\ pc \in [Conn -> Stages]
  /\ lock \subseteq Conn
  /\ status \in [Conn -> {0, 200, 400, 404, 405, 409, 502}]

\* A guard is alive exactly while its request is an import: taken before the
\* upstream is contacted, and gone on every way out (success, stripped body,
\* upstream failure, cancelled await, dropped body).
LockIsHeldByImports == \A c \in Conn : c \in lock <=> Importing(c)

\* "At most one XVA stream may be active at a time" (state.rs:20), counting
\* from the moment the upstream is asked.
AtMostOneImport == \A c, d \in Conn : Importing(c) /\ Importing(d) => c = d

\* 409 is only ever answered while somebody else's import is under way.
ConflictMeansBusy ==
  [][\A c \in Conn : status'[c] = 409 /\ status[c] # 409 =>
       \E d \in Conn \ {c} : Importing(d)]_vars

\* What the client sees of its request.
Phase(c) ==
  CASE pc[c] = "none" -> "away"
    [] pc[c] = "probing" -> "asking"
    [] Importing(c) -> "importing"
    [] pc[c] = "replying" -> IF status[c] = 409 THEN "refused" ELSE "answered"

Service == INSTANCE ImportService
  WITH demand <- FALSE, server <- "up", client <- [c \in Conn |-> Phase(c)]

\* The handler implements ImportService with a server that is always up: the
\* lock, taken after the probe and carried through the fetch into the body, acts
\* as if each import were admitted or refused in one step.
ImplementsService == Service!SafetySpec

-----------------------------------------------------------------------------
\* state.rs:22 says a second concurrent request receives 409 immediately: no
\* handler that starts while an import is under way should go and wait.
BusyIsAnsweredAtOnce ==
  [][\A c \in Conn : lock # {} /\ pc[c] = "none" => pc'[c] # "probing"]_vars

=============================================================================
