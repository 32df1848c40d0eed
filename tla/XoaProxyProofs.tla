--------------------------- MODULE XoaProxyProofs ---------------------------
(***************************************************************************)
(* Theorems of XoaProxy, for every set of connections and every positive   *)
(* idle window.  The invariants of Activity and ImageHandler carry over:   *)
(* a step of the service is a step of both, or starts them afresh.         *)
(***************************************************************************)
EXTENDS XoaProxy, FiniteSetTheorems, TLAPS

ActP == INSTANCE ActivityProofs
HndP == INSTANCE ImageHandlerProofs

-----------------------------------------------------------------------------
(* From the components' theorems to the service's variables.               *)

CounterInv == ActP!TypeOK /\ ActP!ActiveCountsGuards /\ ActP!WindowIsQuiet

CounterNext == [ActP!Next]_ActP!vars

HandlerInv == HndP!LockInv

HandlerNext == [HndP!Next]_HndP!vars

\* The theorems of Activity, at the service's idle window.
LEMMA CounterInductive ==
  /\ Act!Init => CounterInv
  /\ CounterInv /\ CounterNext => CounterInv'
<1>1. Act!Init => ActP!Init
  BY DEF Act!Init, ActP!Init
<1>2. IdleTimeout \in Nat \ {0}
  BY IdleWindow DEF IdleWindow
<1> QED BY <1>1, <1>2, ActP!CountIsInductive, ActP!WindowIsInductive
        DEF CounterInv, CounterNext

\* The theorems of ImageHandler.
LEMMA HandlerInductive ==
  /\ Hnd!Init => HandlerInv
  /\ HandlerInv /\ HandlerNext => HandlerInv'
<1>1. Hnd!Init => HndP!Init
  BY DEF Hnd!Init, HndP!Init
<1> QED BY <1>1, HndP!LockIsInductive DEF HandlerInv, HandlerNext

\* A single action of Activity is a step of Activity.
LEMMA CounterActions ==
  ASSUME \/ \E c \in Conn : Act!Enter(c) \/ Act!DropGuard(c)
         \/ Act!Subscribe \/ Act!Wake \/ Act!Expire \/ Act!Tick
  PROVE  CounterNext
<1>1. \A c \in Conn : (Act!Enter(c) => ActP!Enter(c)) /\ (Act!DropGuard(c) => ActP!DropGuard(c))
  BY DEF Act!Enter, ActP!Enter, Act!DropGuard, ActP!DropGuard
<1>2. (Act!Subscribe => ActP!Subscribe) /\ (Act!Wake => ActP!Wake)
  BY DEF Act!Subscribe, ActP!Subscribe, Act!Wake, ActP!Wake, Act!Look, ActP!Look
<1>3. Act!Expire => ActP!Expire
  BY DEF Act!Expire, ActP!Expire
<1>4. Act!Tick => ActP!Tick
  BY DEF Act!Tick, ActP!Tick, Act!Advance, ActP!Advance
<1> QED BY <1>1, <1>2, <1>3, <1>4 DEF CounterNext, ActP!Next

\* A single action of ImageHandler is a step of ImageHandler.
LEMMA HandlerActions ==
  ASSUME \E c \in Conn : Hnd!Start(c) \/ Hnd!ProbeAnswered(c) \/ Hnd!FetchAnswered(c) \/ Hnd!Drop(c)
  PROVE  HandlerNext
<1> USE DEF Hnd!Respond, HndP!Respond, Hnd!Await, HndP!Await, Hnd!Fail, HndP!Fail,
            Hnd!StatusOf, HndP!StatusOf, Hnd!ProxyError, HndP!ProxyError
<1>1. \A c \in Conn : Hnd!TryImport(c) <=> HndP!TryImport(c)
  BY DEF Hnd!TryImport, HndP!TryImport
<1>2. \A c \in Conn : Hnd!Start(c) => HndP!Start(c)
  BY <1>1 DEF Hnd!Start, HndP!Start, Hnd!Unrouted, HndP!Unrouted
<1>3. \A c \in Conn : Hnd!ProbeAnswered(c) => HndP!ProbeAnswered(c)
  BY <1>1 DEF Hnd!ProbeAnswered, HndP!ProbeAnswered
<1>4. \A c \in Conn : Hnd!FetchAnswered(c) => HndP!FetchAnswered(c)
  BY DEF Hnd!FetchAnswered, HndP!FetchAnswered
<1>5. \A c \in Conn : Hnd!Drop(c) => HndP!Drop(c)
  BY DEF Hnd!Drop, HndP!Drop
<1> QED BY <1>2, <1>3, <1>4, <1>5 DEF HandlerNext, HndP!Next

-----------------------------------------------------------------------------
(* What one step of the service does to the components.                    *)

\* Every step of a process is a step of the counter and of the handler, or
\* leaves them alone; the end of a process leaves them as at startup.
LEMMA ComponentSteps ==
  ASSUME [Next]_vars
  PROVE  (CounterNext /\ HandlerNext) \/ Forget
<1> USE DEF activityVars, handlerVars, serveVars
<1>1. ASSUME UNCHANGED activityVars
      PROVE  CounterNext
  BY <1>1 DEF CounterNext, ActP!vars
<1>2. ASSUME UNCHANGED handlerVars
      PROVE  HandlerNext
  BY <1>2 DEF HandlerNext, HndP!vars
<1>3. ASSUME NEW c \in Conn,
             Connect(c) \/ Accept(c) \/ PartialHead(c) \/ Shut(c)
      PROVE  CounterNext /\ HandlerNext
  BY <1>1, <1>2, <1>3 DEF Connect, Accept, PartialHead, Shut
<1>4. ASSUME NEW c \in Conn, ReadRequest(c)
      PROVE  CounterNext /\ HandlerNext
  BY <1>4, CounterActions, HandlerActions DEF ReadRequest
<1>5. ASSUME NEW c \in Conn, ProbeAnswered(c) \/ FetchAnswered(c)
      PROVE  CounterNext /\ HandlerNext
  BY <1>1, <1>5, HandlerActions DEF ProbeAnswered, FetchAnswered
<1>6. ASSUME NEW c \in Conn, BodyDone(c) \/ ClientGone(c)
      PROVE  CounterNext /\ HandlerNext
  <2>1. Release(c) \/ UNCHANGED <<activityVars, handlerVars>>
    BY <1>6 DEF BodyDone, ClientGone
  <2> QED BY <1>1, <1>2, <2>1, CounterActions, HandlerActions DEF Release
<1>7. ASSUME Launch \/ Restart \/ Signal \/ StopAccepting \/ UNCHANGED vars
      PROVE  CounterNext /\ HandlerNext
  BY <1>1, <1>2, <1>7 DEF Launch, Restart, Signal, StopAccepting, vars
<1>8. ASSUME IdlePoll \/ Tick
      PROVE  CounterNext /\ HandlerNext
  BY <1>2, <1>8, CounterActions DEF IdlePoll, Tick
<1>9. ASSUME Exit \/ Crash
      PROVE  Forget
  BY <1>9 DEF Exit, Crash
<1> QED BY <1>3, <1>4, <1>5, <1>6, <1>7, <1>8, <1>9 DEF Next

\* The invariants of both components hold across every process of the service.
LEMMA ComponentsInductive ==
  /\ Init => CounterInv /\ HandlerInv
  /\ CounterInv /\ HandlerInv /\ [Next]_vars => CounterInv' /\ HandlerInv'
<1>1. Init => CounterInv /\ HandlerInv
  BY CounterInductive, HandlerInductive DEF Init
<1>2. ASSUME CounterInv, HandlerInv, [Next]_vars
      PROVE  CounterInv' /\ HandlerInv'
  <2>1. CASE CounterNext /\ HandlerNext
    BY <1>2, <2>1, CounterInductive, HandlerInductive
  <2>2. CASE Forget
    <3>1. Act!Init' /\ Hnd!Init'
      BY <2>2 DEF Forget, Act!Init, Hnd!Init
    <3> QED BY <3>1, CounterInductive, HandlerInductive, PTL
  <2> QED BY <1>2, <2>1, <2>2, ComponentSteps
<1> QED BY <1>1, <1>2

\* In the service's own terms: the two invariants under the names its
\* properties use.
LEMMA InServiceTerms ==
  ASSUME CounterInv, HandlerInv
  PROVE  /\ Act!TypeOK /\ Act!WindowIsQuiet
         /\ Hnd!TypeOK /\ Hnd!LockIsHeldByImports
         /\ guards = {} => active = 0
<1>1. Act!TypeOK /\ Act!WindowIsQuiet
  BY DEF CounterInv, ActP!TypeOK, Act!TypeOK, ActP!IdleStates, Act!IdleStates,
         ActP!WindowIsQuiet, Act!WindowIsQuiet
<1>2. Hnd!TypeOK /\ Hnd!LockIsHeldByImports
  BY DEF HandlerInv, HndP!LockInv, HndP!TypeOK, Hnd!TypeOK, HndP!Stages, Hnd!Stages,
         HndP!LockIsHeldByImports, Hnd!LockIsHeldByImports, HndP!Importing, Hnd!Importing
<1>3. guards = {} => active = 0
  BY IdleWindow, ActP!ZeroMeansNoGuards DEF IdleWindow, CounterInv
<1> QED BY <1>1, <1>2, <1>3

-----------------------------------------------------------------------------
(* Requests, connections and the process.                                  *)

ServeTypeOK ==
  /\ proc \in ProcStates
  /\ activated \in BOOLEAN
  /\ signalled \in BOOLEAN
  /\ conn \in [Conn -> ConnStates]
  /\ told \subseteq Conn

\* Tracking alone is not inductive: that the end of a process leaves no request
\* needs it to leave no connection, and the components their own invariants.
IInv ==
  /\ CounterInv /\ HandlerInv
  /\ ServeTypeOK
  /\ ServingIsTracked
  /\ ~Up => Accepted = {}

\* The handler's part of tracking: each of its steps leaves the others' stages
\* alone, and only Drop ends with the request gone.
LEMMA HandlerStages ==
  ASSUME Hnd!TypeOK, NEW c \in Conn
  PROVE  /\ Hnd!Start(c) \/ Hnd!ProbeAnswered(c) \/ Hnd!FetchAnswered(c) =>
              pc'[c] # "none" /\ \A d \in Conn \ {c} : pc'[d] = pc[d]
         /\ Hnd!Drop(c) =>
              pc'[c] = "none" /\ \A d \in Conn \ {c} : pc'[d] = pc[d]
<1> USE DEF Hnd!TypeOK, Hnd!Respond, Hnd!Await, Hnd!Fail
<1>1. \A stage \in {"probing", "fetching", "streaming", "replying", "none"} :
         pc' = [pc EXCEPT ![c] = stage] =>
           pc'[c] = stage /\ \A d \in Conn \ {c} : pc'[d] = pc[d]
  OBVIOUS
<1>2. Hnd!TryImport(c) => \E stage \in {"fetching", "replying"} : pc' = [pc EXCEPT ![c] = stage]
  BY DEF Hnd!TryImport
<1>3. Hnd!Start(c) =>
         \E stage \in {"probing", "fetching", "replying"} : pc' = [pc EXCEPT ![c] = stage]
  BY <1>2 DEF Hnd!Start, Hnd!Unrouted
<1>4. Hnd!ProbeAnswered(c) => \E stage \in {"fetching", "replying"} : pc' = [pc EXCEPT ![c] = stage]
  BY <1>2 DEF Hnd!ProbeAnswered
<1>5. Hnd!FetchAnswered(c) => \E stage \in {"streaming", "replying"} : pc' = [pc EXCEPT ![c] = stage]
  BY DEF Hnd!FetchAnswered
<1>6. Hnd!Drop(c) => pc' = [pc EXCEPT ![c] = "none"]
  BY DEF Hnd!Drop
<1> QED BY <1>1, <1>3, <1>4, <1>5, <1>6

\* The end of a request frees its guard and its stage together.
LEMMA ReleaseUntracks ==
  ASSUME Hnd!TypeOK, ServingIsTracked, conn \in [Conn -> ConnStates],
         NEW c \in Conn, Release(c), NEW s \in ConnStates \ {"serving"}, Move(c, s)
  PROVE  ServingIsTracked'
<1>1. pc'[c] = "none" /\ \A d \in Conn \ {c} : pc'[d] = pc[d]
  BY HandlerStages DEF Release
<1>2. guards' = guards \ {c}
  BY DEF Release, Act!DropGuard
<1>3. conn'[c] = s /\ \A d \in Conn \ {c} : conn'[d] = conn[d]
  BY DEF Move
<1> QED BY <1>1, <1>2, <1>3 DEF ServingIsTracked

LEMMA TypesInductive ==
  /\ Init => ServeTypeOK
  /\ ServeTypeOK /\ [Next]_vars => ServeTypeOK'
<1> USE DEF ServeTypeOK, ProcStates, ConnStates, serveVars
<1>1. Init => ServeTypeOK
  BY DEF Init
<1>2. ASSUME ServeTypeOK, [Next]_vars
      PROVE  ServeTypeOK'
  <2> USE <1>2
  <2>1. ASSUME NEW c \in Conn,
               Connect(c) \/ Accept(c) \/ PartialHead(c) \/ ReadRequest(c)
                 \/ BodyDone(c) \/ ClientGone(c) \/ Shut(c)
        PROVE  ServeTypeOK'
    <3>1. \A s \in ConnStates : Move(c, s) => conn' \in [Conn -> ConnStates]
      BY DEF Move
    <3>2. conn' \in [Conn -> ConnStates]
      BY <2>1, <3>1 DEF Connect, Accept, PartialHead, ReadRequest, BodyDone, ClientGone, Shut
    <3>3. told' \subseteq Conn /\ proc' = proc /\ activated' = activated /\ signalled' = signalled
      BY <2>1, Zenon DEF Connect, Accept, PartialHead, ReadRequest, BodyDone, ClientGone, Shut
    <3> QED BY <3>2, <3>3
  <2>2. ASSUME NEW c \in Conn, ProbeAnswered(c) \/ FetchAnswered(c)
        PROVE  ServeTypeOK'
    BY <2>2 DEF ProbeAnswered, FetchAnswered
  <2>3. CASE Launch \/ Restart
    BY <2>3 DEF Launch, Restart
  <2>4. CASE Signal \/ IdlePoll
    <3>1. signalled' \in BOOLEAN
      BY <2>4, Zenon DEF Signal, IdlePoll
    <3> QED BY <2>4, <3>1 DEF Signal, IdlePoll
  <2>5. CASE StopAccepting
    BY <2>5 DEF StopAccepting
  <2>6. CASE Exit
    BY <2>6 DEF Exit, Forget
  <2>7. CASE Crash
    BY <2>7 DEF Crash, Forget
  <2>8. CASE Tick \/ UNCHANGED vars
    BY <2>8 DEF Tick, vars
  <2> QED BY <2>1, <2>2, <2>3, <2>4, <2>5, <2>6, <2>7, <2>8 DEF Next
<1> QED BY <1>1, <1>2

\* Each action of the service moves the connection, the counter's guard and the
\* handler's stage of a request together, or none of them.
LEMMA TrackingInductive ==
  /\ Init => ServingIsTracked
  /\ IInv /\ [Next]_vars => ServingIsTracked'
<1>1. Init => ServingIsTracked
  BY DEF Init, Act!Init, Hnd!Init, ServingIsTracked
<1>2. ASSUME IInv, [Next]_vars
      PROVE  ServingIsTracked'
  <2>1. Hnd!TypeOK /\ ServeTypeOK /\ ServingIsTracked
    BY <1>2, InServiceTerms DEF IInv
  <2> USE <2>1 DEF activityVars, handlerVars, serveVars
  <2>2. ASSUME NEW c \in Conn, NEW s \in ConnStates \ {"serving"},
               conn[c] # "serving", Move(c, s), UNCHANGED <<activityVars, handlerVars>>
        PROVE  ServingIsTracked'
    BY <2>2 DEF Move, ServingIsTracked, ServeTypeOK
  <2>3. ASSUME UNCHANGED <<conn, activityVars, handlerVars>>
        PROVE  ServingIsTracked'
    BY <2>3 DEF ServingIsTracked
  <2>4. ASSUME NEW c \in Conn, Connect(c) \/ Accept(c) \/ PartialHead(c)
        PROVE  ServingIsTracked'
    BY <2>2, <2>4 DEF Connect, Accept, PartialHead, ConnStates
  <2>5. ASSUME NEW c \in Conn, ReadRequest(c)
        PROVE  ServingIsTracked'
    <3>1. pc'[c] # "none" /\ \A d \in Conn \ {c} : pc'[d] = pc[d]
      BY <2>5, HandlerStages DEF ReadRequest
    <3>2. guards' = guards \cup {c}
      BY <2>5 DEF ReadRequest, Act!Enter
    <3>3. conn'[c] = "serving" /\ \A d \in Conn \ {c} : conn'[d] = conn[d]
      BY <2>5 DEF ReadRequest, Move, ServeTypeOK
    <3> QED BY <3>1, <3>2, <3>3 DEF ServingIsTracked
  <2>6. ASSUME NEW c \in Conn, ProbeAnswered(c) \/ FetchAnswered(c)
        PROVE  ServingIsTracked'
    <3>1. pc'[c] # "none" /\ \A d \in Conn \ {c} : pc'[d] = pc[d]
      BY <2>6, HandlerStages DEF ProbeAnswered, FetchAnswered
    <3>2. conn[c] = "serving" /\ guards' = guards /\ conn' = conn
      BY <2>6 DEF ProbeAnswered, FetchAnswered
    <3> QED BY <3>1, <3>2 DEF ServingIsTracked
  <2>7. ASSUME NEW c \in Conn, BodyDone(c)
        PROVE  ServingIsTracked'
    <3>1. Release(c) /\ (Move(c, "away") \/ Move(c, "kept"))
      BY <2>7 DEF BodyDone
    <3> QED BY <3>1, ReleaseUntracks DEF ServeTypeOK, ConnStates
  <2>8. ASSUME NEW c \in Conn, ClientGone(c)
        PROVE  ServingIsTracked'
    <3>1. CASE conn[c] = "serving"
      BY <2>8, <3>1, ReleaseUntracks DEF ClientGone, ServeTypeOK, ConnStates
    <3>2. CASE conn[c] # "serving"
      BY <2>2, <2>8, <3>2 DEF ClientGone, ConnStates
    <3> QED BY <3>1, <3>2
  <2>9. ASSUME NEW c \in Conn, Shut(c)
        PROVE  ServingIsTracked'
    <3>1. CASE conn[c] = "open" /\ Move(c, "cut")
      BY <2>2, <2>9, <3>1 DEF Shut, ConnStates
    <3>2. CASE conn[c] = "kept" /\ Move(c, "away")
      BY <2>2, <2>9, <3>2 DEF Shut, ConnStates
    <3>3. CASE UNCHANGED conn
      BY <2>3, <2>9, <3>3 DEF Shut
    <3> QED BY <2>9, <3>1, <3>2, <3>3 DEF Shut
  <2>10. CASE Launch \/ Restart \/ Signal \/ UNCHANGED vars
    BY <2>3, <2>10 DEF Launch, Restart, Signal, vars
  <2>11. CASE IdlePoll \/ Tick
    <3>1. UNCHANGED <<conn, guards, pc>>
      BY <2>11 DEF IdlePoll, Tick, Act!Subscribe, Act!Wake, Act!Look, Act!Expire, Act!Tick
    <3> QED BY <3>1 DEF ServingIsTracked
  <2>12. CASE StopAccepting
    <3>1. \A c \in Conn : conn'[c] = "serving" <=> conn[c] = "serving"
      BY <2>12 DEF StopAccepting
    <3>2. UNCHANGED <<guards, pc>>
      BY <2>12 DEF StopAccepting
    <3> QED BY <3>1, <3>2 DEF ServingIsTracked
  <2>13. CASE Exit \/ Crash
    <3>1. guards' = {} /\ pc' = [c \in Conn |-> "none"]
      BY <2>13 DEF Exit, Crash, Forget
    <3>2. \A c \in Conn : conn'[c] # "serving"
      BY <2>13 DEF Exit, Crash, Accepted
    <3> QED BY <3>1, <3>2 DEF ServingIsTracked
  <2> QED BY <1>2, <2>4, <2>5, <2>6, <2>7, <2>8, <2>9, <2>10, <2>11, <2>12, <2>13 DEF Next
<1> QED BY <1>1, <1>2

\* Only a process that is up has accepted connections: nothing is accepted
\* while it is down, and Exit and Crash leave none.
LEMMA DownIsEmpty ==
  /\ Init => (~Up => Accepted = {})
  /\ IInv /\ [Next]_vars => (~Up => Accepted = {})'
<1>1. Init => (~Up => Accepted = {})
  BY DEF Init, Accepted
<1>2. ASSUME IInv, [Next]_vars
      PROVE  (~Up => Accepted = {})'
  <2> USE DEF serveVars
  <2>1. CASE Up /\ (Exit \/ Crash)
    <3>1. \A c \in Conn : conn'[c] \notin {"open", "head", "serving", "kept"}
      BY <2>1 DEF Exit, Crash, Accepted
    <3> QED BY <3>1 DEF Accepted
  <2>2. CASE Up /\ ~(Exit \/ Crash)
    <3>1. Up'
      BY <1>2, <2>2 DEF Next, Up, Connect, Launch, Restart, Accept, PartialHead, ReadRequest,
         ProbeAnswered, FetchAnswered, BodyDone, ClientGone, Signal, IdlePoll, StopAccepting,
         Shut, Tick, vars
    <3> QED BY <3>1
  <2>3. CASE ~Up
    <3>1. Accepted = {} /\ conn \in [Conn -> ConnStates]
      BY <1>2, <2>3 DEF IInv, ServeTypeOK
    <3>2. \A c \in Conn : conn[c] \notin {"open", "head", "serving", "kept"}
      BY <3>1 DEF Accepted
    <3>3. CASE \E c \in Conn : Connect(c) \/ ClientGone(c)
      <4>1. PICK c \in Conn, s \in {"queued", "away"} : Move(c, s)
        BY <3>3 DEF Connect, ClientGone
      <4>2. \A d \in Conn : conn'[d] \notin {"open", "head", "serving", "kept"}
        BY <3>1, <3>2, <4>1 DEF Move
      <4> QED BY <4>2 DEF Accepted
    <3>4. CASE UNCHANGED vars
      <4>1. \A d \in Conn : conn'[d] \notin {"open", "head", "serving", "kept"}
        BY <3>2, <3>4 DEF vars
      <4> QED BY <4>1 DEF Accepted
    <3>5. CASE Launch \/ Restart
      BY <3>5 DEF Launch, Restart, Up
    <3> QED BY <1>2, <2>3, <3>2, <3>3, <3>4, <3>5 DEF Next, Up, Accept, PartialHead, ReadRequest,
         ProbeAnswered, FetchAnswered, BodyDone, Signal, IdlePoll, StopAccepting, Shut,
         Exit, Crash, Tick
  <2> QED BY <2>1, <2>2, <2>3
<1> QED BY <1>1, <1>2

LEMMA ServiceInductive ==
  /\ Init => IInv
  /\ IInv /\ [Next]_vars => IInv'
<1>1. Init => IInv
  BY ComponentsInductive, TypesInductive, TrackingInductive, DownIsEmpty DEF IInv
<1>2. ASSUME IInv, [Next]_vars
      PROVE  IInv'
  <2>1. CounterInv' /\ HandlerInv'
    BY <1>2, ComponentsInductive DEF IInv
  <2>2. ServeTypeOK'
    BY <1>2, TypesInductive DEF IInv
  <2>3. ServingIsTracked' /\ (~Up => Accepted = {})'
    BY <1>2, TrackingInductive, DownIsEmpty
  <2> QED BY <2>1, <2>2, <2>3 DEF IInv
<1> QED BY <1>1, <1>2

LEMMA Invariance == SafetySpec => []IInv
BY ServiceInductive, PTL DEF SafetySpec

\* What the safety properties are drawn from.
LEMMA Consequences ==
  ASSUME IInv
  PROVE  /\ TypeOK /\ ServingIsTracked /\ LockIsTracked
         /\ Act!WindowIsQuiet
<1>1. TypeOK /\ Act!WindowIsQuiet
  BY InServiceTerms DEF IInv, TypeOK, ServeTypeOK
<1>2. LockIsTracked
  <2>1. SUFFICES ASSUME NEW c \in lock PROVE c \in guards
    BY DEF LockIsTracked
  <2>2. c \in Conn /\ pc[c] \in {"fetching", "streaming"}
    BY <2>1, InServiceTerms DEF IInv, Hnd!TypeOK, Hnd!LockIsHeldByImports, Hnd!Importing
  <2> QED BY <2>2 DEF IInv, ServingIsTracked
<1> QED BY <1>1, <1>2 DEF IInv

-----------------------------------------------------------------------------
\* Every part of the service keeps its type, whatever process follows whatever.
THEOREM ServiceTypeCorrect == SafetySpec => []TypeOK
BY Invariance, Consequences, PTL

\* The counter, the handler and the connection agree on which requests are
\* alive, across crashes, restarts and shutdowns.
THEOREM RequestsAreTracked == SafetySpec => []ServingIsTracked
BY Invariance, Consequences, PTL

\* The import lock is held within counted requests only.
THEOREM ImportsAreTracked == SafetySpec => []LockIsTracked
BY Invariance, Consequences, PTL

\* An activated process, and no other, stops by itself, after a whole window
\* without any request and with the import lock free.
THEOREM IdleStopIsSafe == SafetySpec => IdleStopIsQuiet
<1> DEFINE Quiet == idle' = "returned" /\ idle # "returned" =>
                      activated /\ guards = {} /\ lock = {} /\ quiet = IdleTimeout
<1>1. ASSUME IInv, [Next]_vars
      PROVE  [Quiet]_vars
  <2>1. CASE IdlePoll
    <3>1. SUFFICES ASSUME Act!Expire PROVE Quiet
      BY <2>1 DEF IdlePoll, Act!Subscribe, Act!Wake, Act!Look
    <3>2. guards = {} /\ elapsed <= quiet /\ elapsed = IdleTimeout
      BY <1>1, <3>1, Consequences, Zenon DEF Act!Expire, Act!WindowIsQuiet
    <3>3. quiet = IdleTimeout
      BY <1>1, <3>2, Consequences, IdleWindow DEF TypeOK, Act!TypeOK, IdleWindow
    <3>4. activated /\ lock = {}
      BY <1>1, <2>1, <3>2, Consequences DEF IdlePoll, LockIsTracked
    <3> QED BY <3>2, <3>3, <3>4
  <2>2. CASE Exit \/ Crash
    BY <2>2 DEF Exit, Crash, Forget
  <2>3. CASE ~IdlePoll /\ ~Exit /\ ~Crash /\ Next
    <3>1. UNCHANGED idle
      BY <2>3 DEF Next, activityVars, Connect, Launch, Restart, Accept, PartialHead, ReadRequest,
         ProbeAnswered, FetchAnswered, BodyDone, ClientGone, Release, Signal, StopAccepting,
         Shut, Tick, Act!Enter, Act!DropGuard, Act!Tick
    <3> QED BY <3>1
  <2> QED BY <1>1, <2>1, <2>2, <2>3
<1> QED BY <1>1, Invariance, PTL DEF SafetySpec, IdleStopIsQuiet

-----------------------------------------------------------------------------
\* "At most one XVA stream may be active at a time" (state.rs:20), and not only in the
\* handler: through crashes, restarts and shutdowns, with the old process's imports
\* ended before the next one begins any.
THEOREM OneImportEver == SafetySpec => []Hnd!AtMostOneImport
<1>1. IInv => Hnd!AtMostOneImport
  BY DEF IInv, HandlerInv, HndP!LockInv, HndP!AtMostOneImport, Hnd!AtMostOneImport,
         HndP!Importing, Hnd!Importing
<1> QED BY <1>1, Invariance, PTL

\* No process answers 409 but during an import of its own, and a new one has none to
\* refuse by: a lock never outlives its process.
THEOREM RefusalsAreReal == SafetySpec => Hnd!ConflictMeansBusy
<1> DEFINE Step == \A c \in Conn : status'[c] = 409 /\ status[c] # 409 =>
                     \E d \in Conn \ {c} : Hnd!Importing(d)
<1>1. ASSUME IInv, [Next]_vars
      PROVE  Step
  <2>1. SUFFICES ASSUME NEW c \in Conn, status'[c] = 409, status[c] # 409
                 PROVE  \E d \in Conn \ {c} : Hnd!Importing(d)
    OBVIOUS
  <2>2. ~Forget
    BY <2>1 DEF Forget
  <2>3. [HndP!Next]_HndP!vars /\ HndP!LockInv
    BY <1>1, <2>2, ComponentSteps DEF HandlerNext, IInv, HandlerInv
  <2>4. \E d \in Conn \ {c} : HndP!Importing(d)
    BY <2>1, <2>3, HndP!ConflictStep
  <2> QED BY <2>4 DEF HndP!Importing, Hnd!Importing
<1>2. ASSUME IInv, [Next]_vars
      PROVE  [Step]_(Hnd!vars)
  BY <1>1, <1>2
<1> QED BY <1>2, Invariance, PTL DEF SafetySpec, Hnd!ConflictMeansBusy

-----------------------------------------------------------------------------
(* The service implements ImportService.                                   *)

Clients == [d \in Conn |-> Seen(d)]

\* The connections other than c, and their requests, are as they were.
OthersKept(c) ==
  \A d \in Conn \ {c} : conn'[d] = conn[d] /\ pc'[d] = pc[d] /\ status'[d] = status[d]

\* What the steps of one request do to its stage and its status, and what they
\* say of the lock.
LEMMA HandlerSeen ==
  ASSUME Hnd!TypeOK, NEW c \in Conn
  PROVE  /\ Hnd!Start(c) \/ Hnd!ProbeAnswered(c) \/ Hnd!FetchAnswered(c) \/ Hnd!Drop(c) =>
              \A d \in Conn \ {c} : pc'[d] = pc[d] /\ status'[d] = status[d]
         /\ Hnd!Start(c) \/ Hnd!ProbeAnswered(c) =>
              \/ pc'[c] = "probing"
              \/ pc'[c] = "fetching" /\ lock = {}
              \/ pc'[c] = "replying" /\ status'[c] = 409 /\ lock # {}
              \/ pc'[c] = "replying" /\ status'[c] # 409
         /\ Hnd!FetchAnswered(c) =>
              pc'[c] = "streaming" \/ (pc'[c] = "replying" /\ status'[c] # 409)
<1> USE DEF Hnd!TypeOK, Hnd!Stages
<1>1. \A stage, code : Hnd!Respond(c, stage, code) =>
         /\ pc'[c] = stage /\ status'[c] = code
         /\ \A d \in Conn \ {c} : pc'[d] = pc[d] /\ status'[d] = status[d]
  BY DEF Hnd!Respond
<1>2. \A stage : Hnd!Await(c, stage) =>
         /\ pc'[c] = stage
         /\ \A d \in Conn \ {c} : pc'[d] = pc[d] /\ status'[d] = status[d]
  BY DEF Hnd!Await
<1>3. \A e \in Hnd!ProxyError : Hnd!Fail(c, e) =>
         /\ pc'[c] = "replying" /\ (status'[c] = 409 <=> e = "ImportInProgress")
         /\ \A d \in Conn \ {c} : pc'[d] = pc[d] /\ status'[d] = status[d]
  BY <1>1 DEF Hnd!Fail, Hnd!StatusOf, Hnd!ProxyError
<1>4. {"BadRequest", "NotFound", "ImportInProgress", "UpstreamFailed", "ProbeFailed"} = Hnd!ProxyError
  BY DEF Hnd!ProxyError
<1>5. Hnd!TryImport(c) =>
         /\ \/ pc'[c] = "fetching" /\ lock = {}
            \/ pc'[c] = "replying" /\ status'[c] = 409 /\ lock # {}
         /\ \A d \in Conn \ {c} : pc'[d] = pc[d] /\ status'[d] = status[d]
  BY <1>2, <1>3, <1>4 DEF Hnd!TryImport
<1>6. CASE Hnd!Start(c)
  BY <1>1, <1>2, <1>3, <1>4, <1>5, <1>6 DEF Hnd!Start, Hnd!Unrouted, Hnd!ProbeAnswered, Hnd!FetchAnswered
<1>7. CASE Hnd!ProbeAnswered(c)
  BY <1>2, <1>3, <1>4, <1>5, <1>7 DEF Hnd!Start, Hnd!ProbeAnswered, Hnd!FetchAnswered
<1>8. CASE Hnd!FetchAnswered(c)
  BY <1>1, <1>3, <1>4, <1>8 DEF Hnd!Start, Hnd!ProbeAnswered, Hnd!FetchAnswered
<1>9. CASE Hnd!Drop(c) /\ ~Hnd!Start(c) /\ ~Hnd!ProbeAnswered(c) /\ ~Hnd!FetchAnswered(c)
  BY <1>1, <1>9 DEF Hnd!Drop
<1> QED BY <1>6, <1>7, <1>8, <1>9

\* Seen, case by case.
LEMMA SeenOf ==
  ASSUME IInv, NEW c \in Conn
  PROVE  /\ conn[c] \in {"queued", "open", "head"} <=> Seen(c) = "waiting"
         /\ conn[c] \in {"away", "kept"} <=> Seen(c) = "away"
         /\ conn[c] = "cut" <=> Seen(c) = "cut"
         /\ conn[c] = "serving" <=> Seen(c) \in Service!Answering
         /\ pc[c] \in {"fetching", "streaming"} <=> Seen(c) = "importing"
         /\ pc[c] = "probing" <=> Seen(c) = "asking"
         /\ pc[c] = "replying" /\ status[c] = 409 <=> Seen(c) = "refused"
         /\ pc[c] = "replying" /\ status[c] # 409 <=> Seen(c) = "answered"
<1>1. conn[c] \in ConnStates /\ pc[c] \in Hnd!Stages
  BY Consequences DEF TypeOK, Hnd!TypeOK
<1>2. conn[c] = "serving" <=> pc[c] # "none"
  BY DEF IInv, ServingIsTracked
<1> QED BY <1>1, <1>2 DEF ConnStates, Hnd!Stages, Seen, Hnd!Phase, Hnd!Importing, Service!Answering

LEMMA SeenTyped == ASSUME IInv PROVE Clients \in [Conn -> Service!Phases]
<1>1. ASSUME NEW c \in Conn
      PROVE  Seen(c) \in Service!Phases
  <2>1. conn[c] \in ConnStates
    BY <1>1, Consequences DEF TypeOK
  <2> QED BY <2>1, SeenOf DEF ConnStates, Service!Phases, Service!Unread
<1> QED BY <1>1 DEF Clients

\* The lock is taken exactly when some client sees its import under way.
LEMMA LockIsBusy == ASSUME IInv PROVE lock # {} <=> Service!Busy
<1>1. \A c \in Conn : c \in lock <=> pc[c] \in {"fetching", "streaming"}
  BY InServiceTerms DEF IInv, Hnd!LockIsHeldByImports, Hnd!Importing
<1>2. lock \subseteq Conn
  BY InServiceTerms DEF IInv, Hnd!TypeOK
<1>3. lock # {} <=> \E c \in Conn : Seen(c) = "importing"
  BY <1>1, <1>2, SeenOf
<1> QED BY <1>3 DEF Service!Busy

\* The same after a step.
LEMMA SeenNext ==
  ASSUME NEW c \in Conn
  PROVE  /\ conn'[c] \in {"queued", "open", "head"} => Seen(c)' = "waiting"
         /\ conn'[c] \in {"away", "kept"} => Seen(c)' = "away"
         /\ conn'[c] = "cut" => Seen(c)' = "cut"
         /\ conn'[c] = "serving" /\ pc'[c] \in {"fetching", "streaming"} => Seen(c)' = "importing"
         /\ conn'[c] = "serving" /\ pc'[c] = "probing" => Seen(c)' = "asking"
         /\ conn'[c] = "serving" /\ pc'[c] = "replying" =>
              Seen(c)' = IF status'[c] = 409 THEN "refused" ELSE "answered"
         /\ conn'[c] = conn[c] /\ pc'[c] = pc[c] /\ status'[c] = status[c] => Seen(c)' = Seen(c)
<1>1. /\ conn'[c] \in {"queued", "open", "head"} => Seen(c)' = "waiting"
      /\ conn'[c] \in {"away", "kept"} => Seen(c)' = "away"
      /\ conn'[c] = "cut" => Seen(c)' = "cut"
  BY DEF Seen
<1>2. conn'[c] = "serving" => Seen(c)' = Hnd!Phase(c)'
  BY DEF Seen
<1>3. /\ pc'[c] \in {"fetching", "streaming"} => Hnd!Phase(c)' = "importing"
      /\ pc'[c] = "probing" => Hnd!Phase(c)' = "asking"
      /\ pc'[c] = "replying" => Hnd!Phase(c)' = IF status'[c] = 409 THEN "refused" ELSE "answered"
  BY DEF Hnd!Phase, Hnd!Importing
<1>4. conn'[c] = conn[c] /\ pc'[c] = pc[c] /\ status'[c] = status[c] => Seen(c)' = Seen(c)
  BY DEF Seen, Hnd!Phase, Hnd!Importing
<1> QED BY <1>1, <1>2, <1>3, <1>4

\* A step of one connection that leaves the process alone is a turn of its
\* client; when the client sees nothing of it, it is a stutter.
LEMMA StepIsTurn ==
  ASSUME NEW c \in Conn, NEW from, NEW to, OthersKept(c), UNCHANGED <<proc, activated>>,
         Seen(c) \in from, Seen(c)' = to
  PROVE  Service!Turn(c, from, to)
<1>1. \A d \in Conn \ {c} : Seen(d)' = Seen(d)
  BY SeenNext DEF OthersKept
<1>2. [d \in Conn |-> Seen(d)]' = [[d \in Conn |-> Seen(d)] EXCEPT ![c] = to]
  BY <1>1
<1>3. activated' = activated /\ ServerSeen' = ServerSeen
  BY DEF ServerSeen, Up
<1> QED BY <1>2, <1>3 DEF Service!Turn

LEMMA StepIsHidden ==
  ASSUME UNCHANGED <<proc, activated>>, \A d \in Conn : Seen(d)' = Seen(d)
  PROVE  UNCHANGED Service!vars
<1>1. activated' = activated /\ ServerSeen' = ServerSeen
  BY DEF ServerSeen, Up
<1>2. [d \in Conn |-> Seen(d)]' = [d \in Conn |-> Seen(d)]
  OBVIOUS
<1> QED BY <1>1, <1>2 DEF Service!vars

\* Clients that only wait may leave or be hung up on.
LEMMA StepIsHangUp ==
  ASSUME IInv, UNCHANGED <<proc, activated>>,
         \A d \in Conn : \/ Seen(d)' = Seen(d)
                         \/ Seen(d) = "waiting" /\ Seen(d)' \in {"away", "cut"}
  PROVE  Service!HangUp
<1>1. activated' = activated /\ ServerSeen' = ServerSeen
  BY DEF ServerSeen, Up
<1>2. \A d \in Conn : Seen(d)' \in Service!Phases
  BY SeenTyped DEF Clients, Service!Phases, Service!Unread
<1>3. [d \in Conn |-> Seen(d)]' \in [Conn -> Service!Phases]
  BY <1>2
<1> QED BY <1>1, <1>3 DEF Service!HangUp

\* A request that is read asks, is admitted, refused, or answered at once; the
\* probe's answer decides in the same way.
LEMMA HandlerServes ==
  ASSUME IInv, NEW c \in Conn, ReadRequest(c) \/ ProbeAnswered(c)
  PROVE  Service!Ask(c) \/ Service!Admit(c) \/ Service!Refuse(c) \/ Service!Answer(c)
<1>1. Hnd!TypeOK /\ conn \in [Conn -> ConnStates] /\ Up
  BY Consequences DEF TypeOK, IInv, Accepted, ReadRequest, ProbeAnswered
<1>2. (Hnd!Start(c) \/ Hnd!ProbeAnswered(c)) /\ conn'[c] = "serving"
       /\ \A d \in Conn \ {c} : conn'[d] = conn[d]
  BY <1>1 DEF ReadRequest, ProbeAnswered, Move, serveVars
<1>3. OthersKept(c)
  BY <1>1, <1>2, HandlerSeen DEF OthersKept
<1>4. UNCHANGED <<proc, activated>> /\ ServerSeen = "up"
  BY <1>1 DEF ReadRequest, ProbeAnswered, serveVars, ServerSeen
<1>5. Seen(c) \in Service!Unread \cup {"asking"}
  BY SeenOf DEF ReadRequest, ProbeAnswered, Hnd!ProbeAnswered, Service!Unread
<1>6. CASE pc'[c] = "probing"
  <2>1. Seen(c) \in Service!Unread \/ ProbeAnswered(c)
    BY SeenOf DEF ReadRequest, Service!Unread
  <2>2. ~ProbeAnswered(c)
    BY <1>1, <1>6 DEF ProbeAnswered, Hnd!ProbeAnswered, Hnd!TryImport, Hnd!Fail, Hnd!Respond,
                      Hnd!Await, Hnd!TypeOK
  <2> QED BY <1>2, <1>3, <1>4, <1>6, <2>1, <2>2, SeenNext, StepIsTurn DEF Service!Ask
<1>7. CASE pc'[c] = "fetching" /\ lock = {}
  BY <1>2, <1>3, <1>4, <1>5, <1>7, SeenNext, StepIsTurn, LockIsBusy DEF Service!Admit
<1>8. CASE pc'[c] = "replying" /\ status'[c] = 409 /\ lock # {}
  BY <1>2, <1>3, <1>4, <1>5, <1>8, SeenNext, StepIsTurn, LockIsBusy DEF Service!Refuse
<1>9. CASE pc'[c] = "replying" /\ status'[c] # 409
  BY <1>2, <1>3, <1>4, <1>5, <1>9, SeenNext, StepIsTurn DEF Service!Answer
<1> QED BY <1>1, <1>2, <1>6, <1>7, <1>8, <1>9, HandlerSeen

\* The upstream's headers: the client sees the end of an import that failed or
\* has no body, and nothing of one that goes on.
LEMMA FetchServes ==
  ASSUME IInv, NEW c \in Conn, FetchAnswered(c)
  PROVE  Service!Answer(c) \/ UNCHANGED Service!vars
<1>1. Hnd!TypeOK /\ Up /\ conn[c] = "serving" /\ Hnd!FetchAnswered(c)
  BY Consequences DEF TypeOK, IInv, Accepted, FetchAnswered
<1>2. UNCHANGED <<proc, activated, conn>> /\ ServerSeen = "up"
  BY <1>1 DEF FetchAnswered, serveVars, ServerSeen
<1>3. OthersKept(c)
  BY <1>1, <1>2, HandlerSeen DEF OthersKept
<1>4. Seen(c) = "importing"
  BY <1>1, SeenOf DEF Hnd!FetchAnswered
<1>5. CASE pc'[c] = "streaming"
  <2>1. \A d \in Conn : Seen(d)' = Seen(d)
    BY <1>1, <1>2, <1>3, <1>4, <1>5, SeenNext DEF OthersKept
  <2> QED BY <1>2, <2>1, StepIsHidden
<1>6. CASE pc'[c] = "replying" /\ status'[c] # 409
  BY <1>1, <1>2, <1>3, <1>4, <1>6, SeenNext, StepIsTurn DEF Service!Answer
<1> QED BY <1>1, <1>5, <1>6, HandlerSeen

\* The end of a request, finished or abandoned.
LEMMA ReleaseServes ==
  ASSUME IInv, NEW c \in Conn, conn[c] = "serving", Release(c),
         Move(c, "away") \/ Move(c, "kept"), UNCHANGED <<proc, activated>>
  PROVE  Service!Finish(c)
<1>1. Hnd!TypeOK /\ Up /\ conn \in [Conn -> ConnStates]
  BY Consequences DEF TypeOK, IInv, Accepted
<1>2. conn'[c] \in {"away", "kept"} /\ \A d \in Conn \ {c} : conn'[d] = conn[d]
  BY <1>1 DEF Move
<1>3. OthersKept(c)
  BY <1>1, <1>2, HandlerSeen DEF Release, OthersKept
<1> QED BY <1>1, <1>2, <1>3, SeenOf, SeenNext, StepIsTurn DEF Service!Finish, ServerSeen

\* Connections come and go under the process without a word of any request.
LEMMA ConnectionServes ==
  ASSUME IInv, NEW c \in Conn,
         Connect(c) \/ Accept(c) \/ PartialHead(c) \/ Shut(c)
           \/ (ClientGone(c) /\ conn[c] # "serving")
  PROVE  Service!Connect(c) \/ Service!HangUp
<1>1. conn \in [Conn -> ConnStates]
  BY Consequences DEF TypeOK
<1>2. UNCHANGED <<proc, activated, handlerVars>>
  BY DEF Connect, Accept, PartialHead, Shut, ClientGone
<1>3. \/ conn[c] \in {"away", "cut"} /\ Move(c, "queued")
      \/ conn[c] = "queued" /\ Move(c, "open")
      \/ conn[c] = "open" /\ Move(c, "head")
      \/ conn[c] = "open" /\ Move(c, "cut")
      \/ conn[c] \in {"queued", "open", "head", "kept"} /\ Move(c, "away")
      \/ UNCHANGED conn
  BY DEF Connect, Accept, PartialHead, Shut, ClientGone
<1>4. \A d \in Conn, s \in ConnStates : Move(d, s) => conn'[d] = s
  BY <1>1 DEF Move
<1>5. OthersKept(c)
  BY <1>1, <1>2, <1>3 DEF OthersKept, Move, handlerVars
<1>6. CASE conn[c] \in {"away", "cut"} /\ Move(c, "queued")
  <2>1. Seen(c) \in {"away", "cut"} /\ Seen(c)' = "waiting"
    BY <1>4, <1>6, SeenOf, SeenNext DEF ConnStates
  <2> QED BY <1>2, <1>5, <2>1, StepIsTurn DEF Service!Connect
<1>7. CASE ~(conn[c] \in {"away", "cut"} /\ Move(c, "queued"))
  <2>1. \A d \in Conn \ {c} : Seen(d)' = Seen(d)
    BY <1>5, SeenNext DEF OthersKept
  <2>2. Seen(c)' = Seen(c) \/ (Seen(c) = "waiting" /\ Seen(c)' \in {"away", "cut"})
    BY <1>2, <1>3, <1>4, <1>7, SeenOf, SeenNext DEF ConnStates, handlerVars
  <2> QED BY <1>2, <2>1, <2>2, StepIsHangUp
<1> QED BY <1>6, <1>7

\* The process starts, stops accepting, ends and dies.
LEMMA ProcessServes ==
  ASSUME IInv, Launch \/ Restart \/ StopAccepting \/ Exit \/ Crash
  PROVE  Service!Start \/ Service!HangUp \/ Service!Stop \/ Service!Crash
<1>1. conn \in [Conn -> ConnStates]
  BY Consequences DEF TypeOK
<1>2. CASE Launch \/ Restart
  <2>1. \A c \in Conn : Seen(c)' = Seen(c)
    BY <1>2, SeenNext DEF Launch, Restart, handlerVars
  <2>2. [d \in Conn |-> Seen(d)]' = [d \in Conn |-> Seen(d)]
    BY <2>1
  <2>3. ServerSeen = proc /\ ServerSeen' = "up" /\ activated' = activated
    BY <1>2 DEF Launch, Restart, ServerSeen, Up
  <2>4. proc = "restarting" \/ (proc = "down" /\ activated /\ \E c \in Conn : Seen(c) = "waiting")
    BY <1>2, SeenOf DEF Launch, Restart
  <2> QED BY <2>2, <2>3, <2>4 DEF Service!Start
<1>3. CASE StopAccepting
  <2>1. UNCHANGED <<activated, handlerVars>> /\ ServerSeen' = ServerSeen
    BY <1>3 DEF StopAccepting, ServerSeen, Up
  <2>2. \A d \in Conn :
          Seen(d)' = Seen(d) \/ (Seen(d) = "waiting" /\ Seen(d)' \in {"away", "cut"})
    BY <1>3, <2>1, SeenOf, SeenNext DEF StopAccepting, handlerVars
  <2>3. \A d \in Conn : Seen(d)' \in Service!Phases
    BY <2>2, SeenTyped DEF Clients, Service!Phases, Service!Unread
  <2>4. [d \in Conn |-> Seen(d)]' \in [Conn -> Service!Phases]
    BY <2>3
  <2> QED BY <2>1, <2>2, <2>4 DEF Service!HangUp
<1>4. CASE Exit
  <2>1. UNCHANGED <<activated, conn>> /\ ServerSeen = "up" /\ ServerSeen' = "down"
    BY <1>4 DEF Exit, ServerSeen, Up
  <2>2. \A c \in Conn : conn[c] \in {"away", "queued", "cut"}
    BY <1>1, <1>4 DEF Exit, Accepted, ConnStates
  <2>3. \A c \in Conn : Seen(c)' = Seen(c) /\ Seen(c) \notin Service!Answering
    BY <2>1, <2>2 DEF Seen, Service!Answering
  <2>4. [d \in Conn |-> Seen(d)]' = [d \in Conn |-> Seen(d)]
    BY <2>3
  <2> QED BY <2>1, <2>3, <2>4 DEF Service!Stop
<1>5. CASE Crash
  <2>1. /\ activated' = activated /\ ServerSeen = "up"
        /\ ServerSeen' = IF activated THEN "restarting" ELSE "down"
    BY <1>5 DEF Crash, ServerSeen, Up
  <2>2. \A c \in Conn :
          IF c \in Accepted \/ (conn[c] = "queued" /\ ~activated)
            THEN conn'[c] = "away"
            ELSE conn'[c] = conn[c] /\ conn[c] \in {"away", "queued", "cut"}
    BY <1>1, <1>5 DEF Crash, Accepted, ConnStates
  <2>3. \A c \in Conn :
          IF c \in Accepted \/ (conn[c] = "queued" /\ ~activated)
            THEN Seen(c)' = "away" /\ Seen(c) # "cut"
            ELSE Seen(c)' = Seen(c) /\ Seen(c) \notin Service!Answering
    <3>1. SUFFICES ASSUME NEW c \in Conn
                   PROVE  IF c \in Accepted \/ (conn[c] = "queued" /\ ~activated)
                            THEN Seen(c)' = "away" /\ Seen(c) # "cut"
                            ELSE Seen(c)' = Seen(c) /\ Seen(c) \notin Service!Answering
      OBVIOUS
    <3>2. CASE c \in Accepted \/ (conn[c] = "queued" /\ ~activated)
      BY <2>2, <3>2, SeenOf, SeenNext DEF Accepted
    <3>3. CASE ~(c \in Accepted \/ (conn[c] = "queued" /\ ~activated))
      BY <2>2, <3>3 DEF Seen, Service!Answering
    <3> QED BY <3>2, <3>3
  <2>4. \A c \in Conn : Seen(c)' \in Service!Phases
    BY <2>3, SeenTyped DEF Clients, Service!Phases, Service!Unread
  <2>5. [d \in Conn |-> Seen(d)]' \in [Conn -> Service!Phases]
    BY <2>4
  <2> QED BY <2>1, <2>3, <2>5 DEF Service!Crash
<1> QED BY <1>2, <1>3, <1>4, <1>5

LEMMA StepsServe == IInv /\ [Next]_vars => [Service!Next]_Service!vars
<1> SUFFICES ASSUME IInv, [Next]_vars
             PROVE  Service!Next \/ UNCHANGED Service!vars
  OBVIOUS
<1>1. ASSUME NEW c \in Conn, ReadRequest(c) \/ ProbeAnswered(c) \/ FetchAnswered(c)
      PROVE  Service!Next \/ UNCHANGED Service!vars
  BY <1>1, HandlerServes, FetchServes DEF Service!Next
<1>2. ASSUME NEW c \in Conn, BodyDone(c) \/ (ClientGone(c) /\ conn[c] = "serving")
      PROVE  Service!Next
  BY <1>2, ReleaseServes DEF Service!Next, BodyDone, ClientGone
<1>3. ASSUME NEW c \in Conn,
             Connect(c) \/ Accept(c) \/ PartialHead(c) \/ Shut(c)
               \/ (ClientGone(c) /\ conn[c] # "serving")
      PROVE  Service!Next
  BY <1>3, ConnectionServes DEF Service!Next
<1>4. CASE Launch \/ Restart \/ StopAccepting \/ Exit \/ Crash
  BY <1>4, ProcessServes DEF Service!Next
<1>5. CASE Signal \/ IdlePoll \/ Tick \/ UNCHANGED vars
  <2>1. UNCHANGED <<proc, activated, conn, handlerVars>>
    BY <1>5 DEF Signal, IdlePoll, Tick, vars, serveVars
  <2>2. \A c \in Conn : Seen(c)' = Seen(c)
    BY <2>1, SeenNext DEF handlerVars
  <2> QED BY <2>1, <2>2, StepIsHidden
<1> QED BY <1>1, <1>2, <1>3, <1>4, <1>5 DEF Next

\* The whole service, crashes, restarts and shutdowns included, is an import
\* service.
THEOREM ServiceServes == SafetySpec => ImplementsService
<1>1. Init => Service!Init
  BY DEF Init, Act!Init, Hnd!Init, Service!Init, ServerSeen, Up, Seen
<1> QED BY <1>1, ServiceInductive, StepsServe, PTL
        DEF SafetySpec, ImplementsService, Service!SafetySpec

-----------------------------------------------------------------------------
(* The activated service is the service of Upgrade between transactions.   *)

SvcSeen == CASE Up -> "active"
             [] proc = "down" -> "inactive"
             [] proc = "restarting" -> "auto-restart"

\* The parts of Upgrade's state that never change under the service.
LEMMA UnitStep ==
  ASSUME UNCHANGED SvcSeen, UNCHANGED (lock # {})
  PROVE  UNCHANGED Unit!vars
BY DEF SvcSeen, Unit!vars

\* A process that is up stays active while imports come and go.
LEMMA ImportsAreUnits ==
  ASSUME Up, Up'
  PROVE  Unit!Next \/ UNCHANGED Unit!vars
<1>1. SvcSeen = "active" /\ SvcSeen' = "active"
  BY DEF SvcSeen, Up
<1>2. CASE (lock # {})' = (lock # {})
  BY <1>1, <1>2, UnitStep
<1>3. CASE lock = {} /\ lock' # {}
  <2>1. Unit!ImportBegins
    BY <1>1, <1>3 DEF SvcSeen, Unit!ImportBegins, Unit!Meanwhile
  <2>q. QED BY <2>1 DEF Unit!Next
<1>4. CASE lock # {} /\ lock' = {}
  <2>1. Unit!ImportEnds
    BY <1>1, <1>4 DEF SvcSeen, Unit!ImportEnds, Unit!Meanwhile
  <2>q. QED BY <2>1 DEF Unit!Next
<1>q. QED BY <1>2, <1>3, <1>4

\* The process is started by its socket or again by systemd.
LEMMA StartsAreUnits ==
  ASSUME Launch \/ Restart
  PROVE  Unit!Next
<1>1. ~Up /\ SvcSeen' = "active" /\ UNCHANGED lock
  BY DEF Launch, Restart, Up, SvcSeen, handlerVars
<1>2. CASE Launch
  <2>1. SvcSeen = "inactive"
    BY <1>1, <1>2 DEF Launch, SvcSeen
  <2>2. Unit!Activate
    BY <1>1, <2>1 DEF SvcSeen, Unit!Activate, Unit!Meanwhile
  <2>q. QED BY <2>2 DEF Unit!Next
<1>3. CASE Restart
  <2>1. SvcSeen = "auto-restart"
    BY <1>1, <1>3 DEF Restart, SvcSeen
  <2>2. Unit!AutoRestart
    BY <1>1, <2>1 DEF SvcSeen, Unit!AutoRestart, Unit!SockPulled, Unit!Meanwhile
  <2>q. QED BY <2>2 DEF Unit!Next
<1>q. QED BY <1>2, <1>3

\* It exits with its lock free, or crashes and is restarted.
LEMMA EndsAreUnits ==
  ASSUME IInv, activated, Exit \/ Crash
  PROVE  Unit!Next
<1>1. Up /\ SvcSeen = "active" /\ lock' = {}
  BY DEF Exit, Crash, Up, SvcSeen, Forget
<1>2. CASE Exit
  <2>1. SvcSeen' = "inactive"
    BY <1>2 DEF Exit, Up, SvcSeen
  <2>2. lock = {}
    <3>1. \A c \in Conn : conn[c] # "serving"
      BY <1>2 DEF Exit, Accepted
    <3>2. lock \subseteq guards /\ guards \subseteq Conn
      BY Consequences DEF LockIsTracked, TypeOK, Act!TypeOK
    <3>q. QED BY <3>1, <3>2, Consequences DEF ServingIsTracked
  <2>3. Unit!IdleExit
    BY <1>1, <2>1, <2>2 DEF SvcSeen, Unit!IdleExit, Unit!Meanwhile
  <2>q. QED BY <2>3 DEF Unit!Next
<1>3. CASE Crash
  <2>1. SvcSeen' = "auto-restart"
    BY <1>3 DEF Crash, Up, SvcSeen
  <2>2. Unit!Crash
    BY <1>1, <2>1 DEF SvcSeen, Unit!Crash, Unit!Meanwhile
  <2>q. QED BY <2>2 DEF Unit!Next
<1>q. QED BY <1>2, <1>3

LEMMA StepsAreUnits == IInv /\ [Next]_vars => [activated => Unit!Next]_(Unit!vars)
<1> SUFFICES ASSUME IInv, [Next]_vars, activated
             PROVE  Unit!Next \/ UNCHANGED Unit!vars
  OBVIOUS
<1>1. CASE Exit \/ Crash
  BY <1>1, EndsAreUnits
<1>2. CASE Launch \/ Restart
  BY <1>2, StartsAreUnits
<1>3. CASE Up /\ ~(Exit \/ Crash)
  <2>1. Up'
    BY <1>3 DEF Next, Up, Connect, Launch, Restart, Accept, PartialHead, ReadRequest,
       ProbeAnswered, FetchAnswered, BodyDone, ClientGone, Signal, IdlePoll, StopAccepting,
       Shut, Tick, vars, serveVars
  <2>q. QED BY <1>3, <2>1, ImportsAreUnits
<1>4. CASE ~Up /\ ~(Launch \/ Restart)
  <2>1. Accepted = {}
    BY <1>4 DEF IInv
  <2>2. \A c \in Conn : conn[c] \notin {"open", "head", "serving", "kept"}
    BY <2>1 DEF Accepted
  <2>3. UNCHANGED <<proc, lock>>
    <3>1. CASE \E c \in Conn : Connect(c) \/ ClientGone(c)
      BY <2>2, <3>1 DEF Connect, ClientGone, handlerVars
    <3>2. CASE UNCHANGED vars
      BY <3>2 DEF vars, handlerVars, serveVars
    <3>q. QED BY <1>4, <2>2, <3>1, <3>2 DEF Next, Up, Accept, PartialHead, ReadRequest,
         ProbeAnswered, FetchAnswered, BodyDone, Signal, IdlePoll, StopAccepting, Shut,
         Exit, Crash, Tick
  <2>4. UNCHANGED SvcSeen
    BY <2>3 DEF SvcSeen, Up
  <2>q. QED BY <2>3, <2>4, UnitStep
<1>q. QED BY <1>1, <1>2, <1>3, <1>4

\* The activated service behaves as Upgrade takes it to.
THEOREM ServiceIsUnit == SafetySpec => ImplementsUnit
<1>1. Init => (activated => Unit!Init)
  BY DEF Init, Hnd!Init, Up, Unit!Init
<1>q. QED BY <1>1, ServiceInductive, StepsAreUnits, PTL DEF SafetySpec, ImplementsUnit

=============================================================================
