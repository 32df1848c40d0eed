--------------------------- MODULE StartupProofs ----------------------------
(***************************************************************************)
(* Proofs about Startup, for integer types of any width and every          *)
(* environment.                                                            *)
(***************************************************************************)
EXTENDS Startup, TLAPS

\* The configuration is what the environment says once it has been loaded.
LoadedInv ==
  stage \in {"clients", "listen", "serving", "waiting", "idling", "draining"} =>
    /\ config.port = Parsed(env.port, PortMax, DefaultPort)
    /\ config.bind = IF env.bind = "unset" THEN "127.0.0.1" ELSE env.bind
    /\ config.idle_timeout = Wanted

\* An activated process owns fd 3 from `listener` on; its timer, once armed, is
\* due a whole window after it was started.
WindowInv ==
  /\ stage \notin {"waiting", "idling", "draining"} => now = began
  /\ stage \in {"serving", "idling", "draining"} /\ ~Standalone => listener = <<"fd", 3>>
  /\ stage \in {"idling", "draining"} => ~Standalone
  /\ stage = "idling" => deadline = began + Wanted

IInv == TypeOK /\ LoadedInv /\ ListensWhereTold /\ WindowInv /\ WindowIsHonoured

\* What `Config::load` keeps of XOA_PROXY_IDLE_SECONDS is a positive u64.
LEMMA WantedIsPositive == ASSUME env \in Environments PROVE Seconds = Wanted /\ Wanted \in 1 .. SecondsMax
BY Widths DEF Widths, Environments, Seconds, Wanted, Parsed

LEMMA InitEstablishes == Init => IInv
<1> SUFFICES ASSUME Init PROVE IInv
  OBVIOUS
<1> USE Widths DEF Widths, Init
<1>1. TypeOK
  BY DEF TypeOK, Stages
<1>2. LoadedInv /\ WindowInv
  BY DEF LoadedInv, WindowInv
<1>3. ListensWhereTold /\ WindowIsHonoured
  BY DEF ListensWhereTold, WindowIsHonoured, HonoursWindow
<1> QED BY <1>1, <1>2, <1>3 DEF IInv

LEMMA StepPreserves == IInv /\ [Next]_vars => IInv'
<1> SUFFICES ASSUME IInv, [Next]_vars PROVE IInv'
  OBVIOUS
<1> USE Widths DEF Widths
<1>w. Wanted \in 1 .. SecondsMax /\ Seconds = Wanted
  BY WantedIsPositive DEF IInv, TypeOK
<1>e. env' = env /\ began' = began /\ Wanted' = Wanted /\ (Standalone' <=> Standalone)
  BY DEF Next, OpenLog, LoadConfig, BuildClients, Listen, Arm, Expire, Tick, Go, vars,
         Wanted, Standalone
<1>1. CASE OpenLog \/ BuildClients
  BY <1>1, <1>w, <1>e DEF OpenLog, BuildClients, Go, IInv, TypeOK, Stages, LoadedInv, Parsed,
     ListensWhereTold, WindowInv, WindowIsHonoured, HonoursWindow
<1>2. CASE LoadConfig
  <2>1. config' \in [port : 0 .. PortMax, bind : {"127.0.0.1", "public"}, idle_timeout : 0 .. SecondsMax]
    BY <1>2, <1>w DEF LoadConfig, Parsed, IInv, TypeOK, Environments
  <2>2. TypeOK' /\ LoadedInv'
    BY <1>2, <1>w, <1>e, <2>1 DEF LoadConfig, Go, IInv, TypeOK, Stages, LoadedInv, Parsed
  <2> QED BY <1>2, <1>e, <2>2 DEF LoadConfig, Go, IInv, ListensWhereTold, WindowInv, WindowIsHonoured, HonoursWindow
<1>3. CASE Listen
  <2>1. PICK p \in 1 .. PortMax :
          \/ stage' = "failed" /\ listener' = listener
          \/ /\ stage' = "serving" /\ Standalone
             /\ config.port \in {0, p} /\ listener' = <<config.bind, p>>
          \/ /\ stage' = "serving" /\ ~Standalone
             /\ env.pid = "own" /\ env.fds = "1" /\ listener' = <<"fd", 3>>
    BY <1>3 DEF Listen, Go
  <2>2. UNCHANGED <<env, now, began, config, deadline>> /\ stage = "listen"
    BY <1>3 DEF Listen, Go
  <2>3. TypeOK'
    BY <2>1, <2>2 DEF IInv, TypeOK, Stages
  <2>4. LoadedInv' /\ WindowInv' /\ WindowIsHonoured'
    BY <2>1, <2>2, <1>e DEF IInv, LoadedInv, WindowInv, WindowIsHonoured, HonoursWindow, Parsed
  <2>5. ListensWhereTold'
    BY <2>1, <2>2 DEF IInv, TypeOK, Environments, LoadedInv, ListensWhereTold, Standalone, Parsed
  <2> QED BY <2>3, <2>4, <2>5 DEF IInv
<1>4. CASE Arm
  BY <1>4, <1>w, <1>e DEF Arm, Go, IInv, TypeOK, Stages, LoadedInv, Parsed, ListensWhereTold,
     WindowInv, WindowIsHonoured, HonoursWindow
<1>5. CASE Expire
  BY <1>5, <1>w, <1>e DEF Expire, Go, IInv, TypeOK, Stages, LoadedInv, Parsed, ListensWhereTold,
     WindowInv, WindowIsHonoured, HonoursWindow
<1>6. CASE Tick
  BY <1>6, <1>w, <1>e DEF Tick, IInv, TypeOK, Stages, LoadedInv, Parsed, ListensWhereTold,
     WindowInv, WindowIsHonoured, HonoursWindow
<1>7. CASE UNCHANGED vars
  BY <1>7, <1>e DEF vars, IInv, TypeOK, LoadedInv, Parsed, ListensWhereTold, WindowInv,
     WindowIsHonoured, HonoursWindow
<1> QED BY <1>1, <1>2, <1>3, <1>4, <1>5, <1>6, <1>7 DEF Next

LEMMA InvHolds == Spec => []IInv
BY InitEstablishes, StepPreserves, PTL DEF Spec

\* Every value main computes stays within the Rust type it is stored in.
THEOREM TypeCorrect == Spec => []TypeOK
BY InvHolds, PTL DEF IInv

\* A listener comes from exactly one place: fd 3 when both variables name it, the
\* configured address when neither is set, and nowhere otherwise.
THEOREM ListenerIsTold == Spec => []ListensWhereTold
BY InvHolds, PTL DEF IInv

\* A process stops by itself only when activated and after its whole window, as
\* long as the window ends within the clock.
THEOREM WindowHolds == Spec => []WindowIsHonoured
BY InvHolds, PTL DEF IInv

\* Whatever XOA_PROXY_IDLE_SECONDS says, the window the idle timer is given is a
\* positive number: what Activity and XoaProxy assume of theirs (IdleWindow).
THEOREM WindowIsPositive ==
  Spec => [](stage \in {"serving", "waiting", "idling", "draining"} =>
               config.idle_timeout \in Nat \ {0})
<1>1. ASSUME IInv, stage \in {"serving", "waiting", "idling", "draining"}
      PROVE  config.idle_timeout \in Nat \ {0}
  <2>1. config.idle_timeout = Wanted /\ SecondsMax \in Nat
    BY <1>1, Widths DEF IInv, LoadedInv, Widths
  <2>2. Wanted \in 1 .. SecondsMax
    BY <1>1, WantedIsPositive DEF IInv, TypeOK
  <2> QED BY <2>1, <2>2
<1> QED BY <1>1, InvHolds, PTL

=============================================================================
