------------------------- MODULE ImageHandlerProofs -------------------------
(***************************************************************************)
(* Theorems of ImageHandler, for every set of connections.                 *)
(***************************************************************************)
EXTENDS ImageHandler, TLAPS

\* Alone, none of the three is inductive enough to speak of the others: the
\* handler decides on the guards, the promise is about the imports.
LockInv == TypeOK /\ LockIsHeldByImports /\ AtMostOneImport

\* A reply, of any status the handler knows, is well typed.
LEMMA RespondTyped ==
  ASSUME TypeOK, NEW c \in Conn, NEW stage \in Stages,
         NEW code \in {0, 200, 400, 404, 405, 409, 502}, Respond(c, stage, code)
  PROVE  /\ pc' \in [Conn -> Stages]
         /\ status' \in [Conn -> {0, 200, 400, 404, 405, 409, 502}]
         /\ pc'[c] = stage /\ \A d \in Conn \ {c} : pc'[d] = pc[d]
BY DEF TypeOK, Respond

\* Every ProxyError maps to a status of its own, 502 standing for both ends of
\* the upstream's failures.
LEMMA StatusTyped == \A e \in ProxyError : StatusOf[e] \in {400, 404, 409, 502}
BY DEF ProxyError, StatusOf

\* A step of one request that does not take the lock keeps the invariant when
\* it gives the guard up exactly as it stops being an import.
LEMMA KeepsLockInv ==
  ASSUME LockInv, NEW c \in Conn,
         pc' \in [Conn -> Stages],
         status' \in [Conn -> {0, 200, 400, 404, 405, 409, 502}],
         \A d \in Conn \ {c} : pc'[d] = pc[d],
         \/ lock' = lock /\ (pc'[c] \in {"fetching", "streaming"} <=> Importing(c))
         \/ lock' = lock \ {c} /\ pc'[c] \notin {"fetching", "streaming"}
  PROVE  LockInv'
<1> USE DEF LockInv, Importing
<1>1. TypeOK'
  BY DEF TypeOK
<1>2. LockIsHeldByImports'
  BY DEF LockIsHeldByImports
<1>3. AtMostOneImport'
  BY DEF AtMostOneImport
<1> QED BY <1>1, <1>2, <1>3

\* try_lock_owned: the loser changes nothing but its reply, the winner finds no
\* import under way.
LEMMA TryImportKeepsLockInv ==
  ASSUME LockInv, NEW c \in Conn, ~Importing(c), TryImport(c)
  PROVE  LockInv'
<1> USE DEF LockInv
<1>1. CASE lock # {} /\ Fail(c, "ImportInProgress") /\ UNCHANGED lock
  <2>1. Respond(c, "replying", 409)
    BY <1>1 DEF Fail, StatusOf, ProxyError
  <2> QED BY <1>1, <2>1, RespondTyped, KeepsLockInv DEF Stages, Importing
<1>2. CASE lock = {} /\ Await(c, "fetching") /\ lock' = lock \cup {c}
  <2>1. TypeOK'
    BY <1>2 DEF Await, TypeOK, Stages
  <2>2. LockIsHeldByImports' /\ AtMostOneImport'
    BY <1>2 DEF Await, TypeOK, LockIsHeldByImports, AtMostOneImport, Importing
  <2> QED BY <2>1, <2>2
<1> QED BY <1>1, <1>2 DEF TryImport

\* Taken at one point and dropped on every way out, the guard follows the import
\* through every step of every request.
LEMMA LockIsInductive ==
  /\ Init => LockInv
  /\ LockInv /\ [Next]_vars => LockInv'
<1>1. Init => LockInv
  BY DEF Init, LockInv, TypeOK, Stages, LockIsHeldByImports, AtMostOneImport, Importing
<1>2. ASSUME LockInv, [Next]_vars
      PROVE  LockInv'
  <2> USE <1>2 DEF LockInv
  <2>1. ASSUME NEW c \in Conn, Start(c)
        PROVE  LockInv'
    <3>1. ~Importing(c)
      BY <2>1 DEF Start, Importing
    <3>2. CASE (Unrouted(c) \/ Fail(c, "BadRequest")) /\ UNCHANGED lock
      <4>1. PICK code \in {400, 404, 405, 409, 502} : Respond(c, "replying", code)
        BY <3>2, StatusTyped DEF Unrouted, Fail, ProxyError
      <4> QED BY <3>1, <3>2, <4>1, RespondTyped, KeepsLockInv DEF Stages
    <3>3. CASE TryImport(c)
      BY <3>1, <3>3, TryImportKeepsLockInv
    <3>4. CASE Await(c, "probing") /\ UNCHANGED lock
      BY <3>1, <3>4, KeepsLockInv DEF Await, TypeOK, Stages
    <3> QED BY <2>1, <3>2, <3>3, <3>4 DEF Start
  <2>2. ASSUME NEW c \in Conn, ProbeAnswered(c)
        PROVE  LockInv'
    <3>1. ~Importing(c)
      BY <2>2 DEF ProbeAnswered, Importing
    <3>2. CASE Fail(c, "ProbeFailed") /\ UNCHANGED lock
      <4>1. PICK code \in {400, 404, 409, 502} : Respond(c, "replying", code)
        BY <3>2, StatusTyped DEF Fail, ProxyError
      <4> QED BY <3>1, <3>2, <4>1, RespondTyped, KeepsLockInv DEF Stages
    <3>3. CASE TryImport(c)
      BY <3>1, <3>3, TryImportKeepsLockInv
    <3> QED BY <2>2, <3>2, <3>3 DEF ProbeAnswered
  <2>3. ASSUME NEW c \in Conn, FetchAnswered(c)
        PROVE  LockInv'
    <3>1. Importing(c)
      BY <2>3 DEF FetchAnswered, Importing
    <3>2. CASE Respond(c, "streaming", 200) /\ UNCHANGED lock
      BY <3>1, <3>2, RespondTyped, KeepsLockInv DEF Stages
    <3>3. CASE Respond(c, "replying", 200) /\ lock' = lock \ {c}
      BY <3>3, RespondTyped, KeepsLockInv DEF Stages
    <3>4. CASE Fail(c, "UpstreamFailed") /\ lock' = lock \ {c}
      <4>1. PICK code \in {400, 404, 409, 502} : Respond(c, "replying", code)
        BY <3>4, StatusTyped DEF Fail, ProxyError
      <4> QED BY <3>4, <4>1, RespondTyped, KeepsLockInv DEF Stages
    <3> QED BY <2>3, <3>2, <3>3, <3>4 DEF FetchAnswered
  <2>4. ASSUME NEW c \in Conn, Drop(c)
        PROVE  LockInv'
    BY <2>4, RespondTyped, KeepsLockInv DEF Drop, Stages
  <2>5. CASE UNCHANGED vars
    BY <2>5 DEF vars, TypeOK, LockIsHeldByImports, AtMostOneImport, Importing
  <2> QED BY <2>1, <2>2, <2>3, <2>4, <2>5 DEF Next
<1> QED BY <1>1, <1>2

\* Every request stands at a known stage and answers with a known status.
THEOREM TypeCorrect == Spec => []TypeOK
BY LockIsInductive, PTL DEF Spec, LockInv

\* The guard is alive exactly while its request is an import.
THEOREM LockFollowsImport == Spec => []LockIsHeldByImports
BY LockIsInductive, PTL DEF Spec, LockInv

\* state.rs:20, for any number of connections: one import at a time.
THEOREM SingleImport == Spec => []AtMostOneImport
BY LockIsInductive, PTL DEF Spec, LockInv

\* A request that is refused finds the import of another request under way, and
\* nothing but a busy lock refuses one.
LEMMA RefusalFindsImport ==
  ASSUME LockInv, NEW c \in Conn, ~Importing(c), TryImport(c), status'[c] = 409
  PROVE  status[c] = 409 \/ \E d \in Conn \ {c} : Importing(d)
<1>1. CASE lock # {}
  <2>1. PICK d \in lock : TRUE
    BY <1>1
  <2>2. d \in Conn /\ Importing(d)
    BY <2>1 DEF LockInv, TypeOK, LockIsHeldByImports
  <2> QED BY <2>2
<1>2. CASE lock = {}
  BY <1>2 DEF TryImport, Await
<1> QED BY <1>1, <1>2

\* Whatever step answers 409 does so to one request, during the import of another.
LEMMA ConflictStep ==
  ASSUME LockInv, [Next]_vars, NEW c \in Conn, status'[c] = 409, status[c] # 409
  PROVE  \E d \in Conn \ {c} : Importing(d)
<1>1. Next
  BY DEF vars
<1>2. PICK r \in Conn : Start(r) \/ ProbeAnswered(r) \/ FetchAnswered(r) \/ Drop(r)
  BY <1>1 DEF Next
<1>3. \A code : \A stage : Respond(r, stage, code) => r = c /\ code = 409
  BY DEF Respond, LockInv, TypeOK
<1>4. \A stage : ~Await(r, stage)
  BY DEF Await
<1>5. \A e \in ProxyError : Fail(r, e) => e = "ImportInProgress"
  BY <1>3 DEF Fail, StatusOf, ProxyError
<1>6. ~FetchAnswered(r) /\ ~Drop(r)
  BY <1>3, <1>5 DEF FetchAnswered, Drop, ProxyError
<1>7. TryImport(r) /\ ~Importing(r)
  BY <1>2, <1>3, <1>4, <1>5, <1>6 DEF Start, Unrouted, ProbeAnswered, Importing, ProxyError
<1>8. r = c
  BY <1>3, <1>4, <1>7 DEF TryImport, Fail
<1> QED BY <1>7, <1>8, RefusalFindsImport

\* 409 is only ever answered while somebody else's import is under way.
THEOREM ConflictIsReal == Spec => ConflictMeansBusy
<1> DEFINE Step == \A c \in Conn : status'[c] = 409 /\ status[c] # 409 =>
                     \E d \in Conn \ {c} : Importing(d)
<1>1. ASSUME LockInv, [Next]_vars
      PROVE  [Step]_vars
  BY <1>1, ConflictStep
<1> QED BY <1>1, LockIsInductive, PTL DEF Spec, ConflictMeansBusy

-----------------------------------------------------------------------------
(* The handler implements ImportService.                                   *)

\* A step of one request is a turn of its client, and of no other.
LEMMA StepIsTurn ==
  ASSUME NEW c \in Conn, NEW from, NEW to,
         \A d \in Conn \ {c} : pc'[d] = pc[d] /\ status'[d] = status[d],
         Phase(c) \in from, Phase(c)' = to
  PROVE  Service!Turn(c, from, to)
<1>1. \A d \in Conn \ {c} : Phase(d)' = Phase(d)
  BY DEF Phase, Importing
<1>2. [d \in Conn |-> Phase(d)]' = [[d \in Conn |-> Phase(d)] EXCEPT ![c] = to]
  BY <1>1
<1> QED BY <1>2 DEF Service!Turn

\* What the client sees of a reply or an await.
LEMMA RespondSeen ==
  ASSUME LockInv, NEW c \in Conn, NEW stage, NEW code, Respond(c, stage, code)
  PROVE  /\ \A d \in Conn \ {c} : pc'[d] = pc[d] /\ status'[d] = status[d]
         /\ stage = "none" => Phase(c)' = "away"
         /\ stage = "streaming" => Phase(c)' = "importing"
         /\ stage = "replying" => Phase(c)' = IF code = 409 THEN "refused" ELSE "answered"
BY DEF Respond, LockInv, TypeOK, Phase, Importing

LEMMA AwaitSeen ==
  ASSUME LockInv, NEW c \in Conn, NEW stage, Await(c, stage)
  PROVE  /\ \A d \in Conn \ {c} : pc'[d] = pc[d] /\ status'[d] = status[d]
         /\ stage = "probing" => Phase(c)' = "asking"
         /\ stage = "fetching" => Phase(c)' = "importing"
BY DEF Await, LockInv, TypeOK, Phase, Importing

\* Any error but ImportInProgress is an answer like another.
LEMMA FailSeen ==
  ASSUME LockInv, NEW c \in Conn, NEW e \in ProxyError, Fail(c, e)
  PROVE  /\ \A d \in Conn \ {c} : pc'[d] = pc[d] /\ status'[d] = status[d]
         /\ Phase(c)' = IF e = "ImportInProgress" THEN "refused" ELSE "answered"
<1>1. Respond(c, "replying", StatusOf[e])
  BY DEF Fail
<1>2. StatusOf[e] = 409 <=> e = "ImportInProgress"
  BY DEF StatusOf, ProxyError
<1> QED BY <1>1, <1>2, RespondSeen

\* The lock is taken exactly when some client sees its import under way.
LEMMA LockIsBusy == ASSUME LockInv PROVE lock # {} <=> Service!Busy
<1>1. \A c \in Conn : Importing(c) <=> Phase(c) = "importing"
  BY DEF Phase, Importing, LockInv, TypeOK, Stages
<1>2. lock # {} <=> \E c \in Conn : Importing(c)
  BY DEF LockInv, TypeOK, LockIsHeldByImports
<1> QED BY <1>1, <1>2 DEF Service!Busy

\* Whoever tries the lock is admitted or refused.
LEMMA TryImportServes ==
  ASSUME LockInv, NEW c \in Conn, Phase(c) \in {"away", "asking"}, TryImport(c)
  PROVE  Service!Admit(c) \/ Service!Refuse(c)
<1>1. Phase(c) \in Service!Unread \cup {"asking"}
  BY DEF Service!Unread
<1>2. CASE lock # {} /\ Fail(c, "ImportInProgress")
  BY <1>1, <1>2, FailSeen, LockIsBusy, StepIsTurn DEF Service!Refuse, ProxyError
<1>3. CASE lock = {} /\ Await(c, "fetching")
  BY <1>1, <1>3, AwaitSeen, LockIsBusy, StepIsTurn DEF Service!Admit
<1> QED BY <1>2, <1>3 DEF TryImport

\* A failure other than a busy lock.
LEMMA FailServes ==
  ASSUME LockInv, NEW c \in Conn, Phase(c) \in {"away", "asking", "importing"},
         NEW e \in ProxyError \ {"ImportInProgress"}, Fail(c, e)
  PROVE  Service!Answer(c)
BY FailSeen, StepIsTurn DEF Service!Answer, Service!Unread

\* Each step of a request maps to the step of the abstract service it stands
\* for: the lock to Admit and Refuse, the upstream's header to nothing at all.
LEMMA StepsServe == LockInv /\ [Next]_vars => [Service!Next]_Service!vars
<1> SUFFICES ASSUME LockInv, [Next]_vars
             PROVE  Service!Next \/ UNCHANGED [d \in Conn |-> Phase(d)]
  BY DEF Service!vars
<1>1. ASSUME NEW c \in Conn, Start(c)
      PROVE  Service!Ask(c) \/ Service!Admit(c) \/ Service!Refuse(c) \/ Service!Answer(c)
  <2>1. Phase(c) = "away"
    BY <1>1 DEF Start, Phase, Importing
  <2>2. CASE Await(c, "probing")
    BY <2>1, <2>2, AwaitSeen, StepIsTurn DEF Service!Ask, Service!Unread
  <2>3. CASE TryImport(c)
    BY <2>1, <2>3, TryImportServes
  <2>4. CASE Fail(c, "NotFound") \/ Fail(c, "BadRequest")
    BY <2>1, <2>4, FailServes DEF ProxyError
  <2>5. CASE Respond(c, "replying", 405)
    BY <2>1, <2>5, RespondSeen, StepIsTurn DEF Service!Answer, Service!Unread
  <2> QED BY <1>1, <2>2, <2>3, <2>4, <2>5 DEF Start, Unrouted
<1>2. ASSUME NEW c \in Conn, ProbeAnswered(c)
      PROVE  Service!Admit(c) \/ Service!Refuse(c) \/ Service!Answer(c)
  <2>1. Phase(c) = "asking"
    BY <1>2 DEF ProbeAnswered, Phase, Importing
  <2> QED BY <1>2, <2>1, TryImportServes, FailServes DEF ProbeAnswered, ProxyError
<1>3. ASSUME NEW c \in Conn, FetchAnswered(c)
      PROVE  Service!Answer(c) \/ UNCHANGED [d \in Conn |-> Phase(d)]
  <2>1. Phase(c) = "importing"
    BY <1>3 DEF FetchAnswered, Phase, Importing
  <2>2. CASE Respond(c, "streaming", 200)
    <3>1. \A d \in Conn \ {c} : pc'[d] = pc[d] /\ status'[d] = status[d]
      BY <2>2, RespondSeen
    <3>2. \A d \in Conn \ {c} : Phase(d)' = Phase(d)
      BY <3>1 DEF Phase, Importing
    <3>3. Phase(c)' = Phase(c)
      BY <2>1, <2>2, RespondSeen
    <3> QED BY <3>2, <3>3
  <2>3. CASE Respond(c, "replying", 200)
    BY <2>1, <2>3, RespondSeen, StepIsTurn DEF Service!Answer
  <2>4. CASE Fail(c, "UpstreamFailed")
    BY <2>1, <2>4, FailServes DEF ProxyError
  <2> QED BY <1>3, <2>2, <2>3, <2>4 DEF FetchAnswered
<1>4. ASSUME NEW c \in Conn, Drop(c)
      PROVE  Service!Finish(c)
  <2>1. Phase(c) \in Service!Answering
    BY <1>4 DEF Drop, Phase, Importing, LockInv, TypeOK, Stages, Service!Answering
  <2> QED BY <1>4, <2>1, RespondSeen, StepIsTurn DEF Drop, Service!Finish
<1>5. CASE UNCHANGED vars
  BY <1>5 DEF vars, Phase, Importing
<1> QED BY <1>1, <1>2, <1>3, <1>4, <1>5 DEF Next, Service!Next

\* Every behaviour of the handler is one of an import service that is always up.
THEOREM HandlerServes == Spec => ImplementsService
<1>1. Init => Service!Init
  BY DEF Init, Service!Init, Phase, Importing
<1> QED BY <1>1, LockIsInductive, StepsServe, PTL DEF Spec, ImplementsService, Service!SafetySpec

=============================================================================
