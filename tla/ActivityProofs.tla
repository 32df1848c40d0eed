--------------------------- MODULE ActivityProofs ---------------------------
(***************************************************************************)
(* Theorems of Activity, for every set of connections and every positive   *)
(* idle window.                                                            *)
(***************************************************************************)
EXTENDS Activity, FiniteSetTheorems, TLAPS

\* The counter and the guards move together: when the counter is at zero, no
\* ActiveRequest is alive.  This is what lets idle() judge by the counter alone.
LEMMA ZeroMeansNoGuards ==
  ASSUME ActiveCountsGuards
  PROVE  active = 0 <=> guards = {}
BY FS_EmptySet DEF ActiveCountsGuards

\* The counter is a natural number and each step of a request moves it with the
\* set of guards; the idle future and the clock leave both alone.
LEMMA CountIsInductive ==
  /\ Init => TypeOK /\ ActiveCountsGuards
  /\ TypeOK /\ ActiveCountsGuards /\ [Next]_vars => TypeOK' /\ ActiveCountsGuards'
<1>1. ASSUME Init
      PROVE  TypeOK /\ ActiveCountsGuards
  <2>1. 0 \in 0 .. IdleTimeout
    BY IdleTimeoutAssumption DEF IdleTimeoutAssumption
  <2>2. TypeOK
    BY <1>1, <2>1 DEF Init, TypeOK, IdleStates
  <2>3. ActiveCountsGuards
    BY <1>1, FS_EmptySet DEF Init, ActiveCountsGuards
  <2> QED BY <2>2, <2>3
<1>2. ASSUME TypeOK, ActiveCountsGuards, [Next]_vars
      PROVE  TypeOK' /\ ActiveCountsGuards'
  <2> USE IdleTimeoutAssumption DEF IdleTimeoutAssumption
  <2>1. ASSUME NEW c \in Conn, Enter(c)
        PROVE  TypeOK' /\ ActiveCountsGuards'
    <3>1. ActiveCountsGuards'
      BY <1>2, <2>1, FS_AddElement DEF Enter, ActiveCountsGuards
    <3>2. TypeOK'
      BY <1>2, <2>1 DEF Enter, TypeOK
    <3> QED BY <3>1, <3>2
  <2>2. ASSUME NEW c \in Conn, DropGuard(c)
        PROVE  TypeOK' /\ ActiveCountsGuards'
    <3>1. ActiveCountsGuards'
      BY <1>2, <2>2, FS_RemoveElement DEF DropGuard, ActiveCountsGuards
    <3>2. active' \in Nat
      BY <1>2, <3>1, FS_CardinalityType DEF ActiveCountsGuards
    <3>3. TypeOK'
      BY <1>2, <2>2, <3>2 DEF DropGuard, TypeOK
    <3> QED BY <3>1, <3>3
  <2>3. ASSUME Look
        PROVE  TypeOK' /\ ActiveCountsGuards'
    <3>1. 0 \in 0 .. IdleTimeout
      OBVIOUS
    <3>2. TypeOK'
      BY <1>2, <2>3, <3>1, Zenon DEF Look, TypeOK, IdleStates
    <3>3. ActiveCountsGuards'
      BY <1>2, <2>3 DEF Look, ActiveCountsGuards
    <3> QED BY <3>2, <3>3
  <2>4. CASE Subscribe
    BY <2>3, <2>4 DEF Subscribe
  <2>5. CASE Wake
    BY <2>3, <2>5 DEF Wake
  <2>6. CASE Expire
    BY <1>2, <2>6 DEF Expire, TypeOK, ActiveCountsGuards, IdleStates
  <2>7. CASE Tick
    BY <1>2, <2>7 DEF Tick, Advance, TypeOK, ActiveCountsGuards
  <2>8. CASE UNCHANGED vars
    BY <1>2, <2>8 DEF vars, TypeOK, ActiveCountsGuards
  <2> QED BY <1>2, <2>1, <2>2, <2>4, <2>5, <2>6, <2>7, <2>8 DEF Next
<1> QED BY <1>1, <1>2

\* Every variable of the counter and of the idle future keeps its type; in
\* particular the usize counter never underflows.
THEOREM TypeCorrect == Spec => []TypeOK
BY CountIsInductive, PTL DEF Spec

\* The counter is always the number of live ActiveRequest values.
THEOREM CountIsExact == Spec => []ActiveCountsGuards
BY CountIsInductive, PTL DEF Spec

-----------------------------------------------------------------------------
\* The invariant the timer rests on is inductive given an exact counter: only
\* Look enters the window, with the counter at zero, and every request step
\* raises `changed`.
LEMMA WindowIsInductive ==
  /\ Init => WindowIsQuiet
  /\ TypeOK /\ ActiveCountsGuards /\ WindowIsQuiet /\ [Next]_vars => WindowIsQuiet'
<1>1. Init => WindowIsQuiet
  BY DEF Init, WindowIsQuiet
<1>2. ASSUME TypeOK, ActiveCountsGuards, WindowIsQuiet, [Next]_vars
      PROVE  WindowIsQuiet'
  <2>1. ASSUME NEW c \in Conn, Enter(c) \/ DropGuard(c)
        PROVE  WindowIsQuiet'
    BY <2>1, Zenon DEF Enter, DropGuard, WindowIsQuiet
  <2>2. ASSUME Look
        PROVE  WindowIsQuiet'
    <3>1. quiet \in Nat
      BY <1>2, IdleTimeoutAssumption DEF TypeOK, IdleTimeoutAssumption
    <3>2. active = 0 => guards' = {}
      BY <1>2, <2>2, ZeroMeansNoGuards DEF Look
    <3>3. idle' = "window" => guards' = {} /\ elapsed' <= quiet'
      BY <2>2, <3>1, <3>2 DEF Look
    <3> QED BY <3>3, Zenon DEF WindowIsQuiet
  <2>3. CASE Subscribe
    BY <2>2, <2>3 DEF Subscribe
  <2>4. CASE Wake
    BY <2>2, <2>4 DEF Wake
  <2>5. CASE Expire
    BY <2>5 DEF Expire, WindowIsQuiet
  <2>6. CASE Tick
    <3>1. elapsed \in Nat /\ quiet \in Nat /\ IdleTimeout \in Nat
      BY <1>2, IdleTimeoutAssumption DEF TypeOK, IdleTimeoutAssumption
    <3>2. elapsed <= quiet => Advance(elapsed) <= Advance(quiet)
      BY <1>2, <3>1 DEF TypeOK, Advance
    <3>3. idle' = "window" /\ ~changed' => guards' = {} /\ elapsed <= quiet
      BY <1>2, <2>6, Zenon DEF Tick, WindowIsQuiet
    <3>4. idle' = "window" /\ guards = {} => elapsed' = Advance(elapsed) /\ quiet' = Advance(quiet)
      BY <2>6 DEF Tick
    <3>5. guards' = guards
      BY <2>6 DEF Tick
    <3> QED BY <3>2, <3>3, <3>4, <3>5, Zenon DEF WindowIsQuiet
  <2>7. CASE UNCHANGED vars
    BY <1>2, <2>7 DEF vars, WindowIsQuiet
  <2> QED BY <1>2, <2>1, <2>3, <2>4, <2>5, <2>6, <2>7 DEF Next
<1> QED BY <1>1, <1>2

\* A window in which every send has been seen has been quiet since it opened.
THEOREM WindowIsSound == Spec => []WindowIsQuiet
BY CountIsInductive, WindowIsInductive, PTL DEF Spec

\* idle() returns only after a whole IdleTimeout without any request, for every
\* number of requests and every window.
THEOREM IdleMeansIdle == Spec => ReturnsAfterFullWindow
<1>1. ASSUME TypeOK, WindowIsQuiet, [Next]_vars
      PROVE  [idle' = "returned" /\ idle # "returned" => guards = {} /\ quiet = IdleTimeout]_vars
  <2>1. CASE Expire
    <3>1. guards = {} /\ elapsed <= quiet /\ elapsed = IdleTimeout
      BY <1>1, <2>1, Zenon DEF Expire, WindowIsQuiet
    <3>2. quiet = IdleTimeout
      BY <1>1, <3>1, IdleTimeoutAssumption DEF TypeOK, IdleTimeoutAssumption
    <3> QED BY <3>1, <3>2
  <2>2. CASE UNCHANGED vars
    BY <2>2
  <2>3. CASE Next /\ ~Expire
    <3>1. ~(idle' = "returned" /\ idle # "returned")
      BY <2>3 DEF Next, Enter, DropGuard, Subscribe, Wake, Look, Tick
    <3> QED BY <3>1
  <2> QED BY <1>1, <2>1, <2>2, <2>3
<1> QED BY <1>1, CountIsInductive, WindowIsInductive, PTL DEF Spec, ReturnsAfterFullWindow

=============================================================================
