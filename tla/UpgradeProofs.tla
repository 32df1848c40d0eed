---------------------------- MODULE UpgradeProofs ----------------------------
(***************************************************************************)
(* The theorems about the scriptlets: an assertion for each place a        *)
(* transaction can stand at, the commands it has still to run.             *)
(***************************************************************************)
EXTENDS Upgrade, SequenceTheorems, TLAPS

\* The commands as names, which the provers need not expand to follow a script.
Reload == "daemon-reload"
Preset == "preset"
TestSocket == "test"
DisableService == "disable service"
EnableSocket == "enable socket"
TryRestart == "try-restart"
Start == "start socket"
DisableSocket == "disable socket"
StopSocket == "stop socket"
StopService == "stop service"
WaitJob == "wait"

\* What is left of each transaction, by the number of commands.
Install3 == <<Reload, Preset, TestSocket>>
Install2 == <<Preset, TestSocket>>
Install1 == <<TestSocket>>

Legacy6 == <<Reload, DisableService, EnableSocket, TestSocket, Reload, TryRestart>>
Legacy5 == <<DisableService, EnableSocket, TestSocket, Reload, TryRestart>>
Legacy4 == <<EnableSocket, TestSocket, Reload, TryRestart>>
Legacy3 == <<TestSocket, Reload, TryRestart>>
Legacy2 == <<Reload, TryRestart>>
Legacy1 == <<TryRestart>>

Current7 == <<Reload, DisableService, EnableSocket, TestSocket, Reload, TryRestart, Start>>
Current6 == <<DisableService, EnableSocket, TestSocket, Reload, TryRestart, Start>>
Current5 == <<EnableSocket, TestSocket, Reload, TryRestart, Start>>
Current4 == <<TestSocket, Reload, TryRestart, Start>>
Current3 == <<Reload, TryRestart, Start>>
Current2 == <<TryRestart, Start>>
Current1 == <<Start>>

Remove5 == <<DisableService, DisableSocket, StopSocket, StopService, Reload>>
Remove4 == <<DisableSocket, StopSocket, StopService, Reload>>
Remove3 == <<StopSocket, StopService, Reload>>
Remove2 == <<StopService, Reload>>
Remove1 == <<Reload>>

\* The same with the start of the socket that the test asks for, or with the wait
\* for a job, in front.
InstallStart == <<Start>>
LegacyStart == <<Start, Reload, TryRestart>>
CurrentStart == <<Start, Reload, TryRestart, Start>>
LegacyWait == <<WaitJob>>
CurrentWait == <<WaitJob, Start>>
RemoveWaitSocket == <<WaitJob, StopService, Reload>>
RemoveWaitService == <<WaitJob, Reload>>

\* A service on its way down was stopped by an administrator, unless it is a
\* removal that stops it.
UnitInv ==
  /\ unit # "current" => sock = "inactive"
  /\ svc = "stopping" /\ op # "remove" => stopped # "no"
  /\ sock = "stopping" => svc = "stopping" /\ op = "remove"

Waiting ==
  /\ op = "none" /\ script = << >>
  /\ unit = from
  /\ svc # "restarting"
  /\ from = "none" => svc = "inactive"
  /\ from = "legacy" => boot \subseteq {"service"}
  /\ from = "current" => boot = {"socket"} /\ (svc # "inactive" => sock = "active")

Installing ==
  /\ op = "install"
  /\ svc # "restarting"
  /\ \/ /\ svc = "inactive" /\ sock = "inactive"
        /\ \/ script = Install3 /\ unit = "none"
           \/ script = Install2 /\ unit = "current"
           \/ script \in {Install1, InstallStart} /\ unit = "current" /\ boot = {"socket"}
     \/ script = << >> /\ unit = "current" /\ boot = {"socket"} /\ sock = "active"

\* From %post on, either the socket listens or a running service stands for it:
\* its restart will bring the socket up.
UpgradingLegacy ==
  /\ op = "upgrade" /\ from = "legacy"
  /\ svc = "restarting" => script = LegacyWait
  /\ \/ script = Legacy6 /\ unit = "legacy" /\ boot \subseteq {"service"}
     \/ /\ unit = "current"
        /\ \/ script = Legacy5 /\ boot \subseteq {"service"}
           \/ script = Legacy4 /\ boot = {}
           \/ /\ boot = {"socket"}
              /\ \/ script = Legacy3
                 \/ /\ script = LegacyStart
                    /\ stopped = "no" => sock = "active" \/ svc # "active"
                 \/ /\ script \in {Legacy2, Legacy1}
                    /\ stopped = "no" => sock = "active" \/ svc \in {"active", "auto-restart"}
                 \/ /\ script = LegacyWait
                    /\ stopped = "no" => sock = "active" \/ svc = "restarting"
                 \/ /\ script = << >>
                    /\ stopped = "no" => sock = "active"

UpgradingCurrent ==
  /\ op = "upgrade" /\ from = "current"
  /\ unit = "current" /\ boot = {"socket"}
  /\ svc = "restarting" => script = CurrentWait
  /\ \/ /\ script \in {Current7, Current6, Current5, Current4, CurrentStart}
        /\ svc # "inactive" => sock = "active"
     \/ /\ script \in {Current3, Current2, CurrentWait, Current1, << >>}
        /\ sock = "active"

Removing ==
  /\ op = "remove"
  /\ svc # "restarting"
  /\ \/ /\ \/ script \in {Remove5, Remove4} /\ boot = {"socket"}
           \/ script = Remove3 /\ boot = {}
        /\ unit = "current" /\ sock # "stopping"
        /\ svc # "inactive" => sock = "active"
     \/ /\ script = RemoveWaitSocket
        /\ unit = "current" /\ boot = {}
        /\ \/ svc = "stopping" /\ sock = "stopping"
           \/ svc = "inactive" /\ sock = "inactive"
     \/ /\ script \in {Remove2, RemoveWaitService, Remove1, << >>}
        /\ boot = {} /\ svc = "inactive" /\ sock = "inactive"

Inv ==
  /\ TypeOK /\ UnitInv
  /\ Waiting \/ Installing \/ UpgradingLegacy \/ UpgradingCurrent \/ Removing

-----------------------------------------------------------------------------
(* Sequences.                                                              *)

\* A concatenation is known by its length and its elements.
LEMMA Joined ==
  ASSUME NEW S, NEW v \in Seq(S), NEW r \in Seq(S), NEW w \in Seq(S),
         Len(w) = Len(v) + Len(r),
         \A i \in 1..Len(w) : w[i] = IF i <= Len(v) THEN v[i] ELSE r[i - Len(v)]
  PROVE  v \o r = w
<1>1. /\ v \o r \in Seq(S) /\ Len(v \o r) = Len(v) + Len(r)
      /\ \A i \in 1..(Len(v) + Len(r)) :
           (v \o r)[i] = IF i <= Len(v) THEN v[i] ELSE r[i - Len(v)]
  BY ConcatProperties
<1> QED  BY <1>1, SeqEqual

\* A command put before what is left of a script.
LEMMA Prepended ==
  ASSUME NEW a, NEW b, NEW c
  PROVE  /\ <<a>> \o << >> = <<a>>
         /\ <<a>> \o <<b>> = <<a, b>>
         /\ <<a>> \o <<b, c>> = <<a, b, c>>
<1> DEFINE S == {a, b, c}
<1>1. <<a>> \o << >> = <<a>>
  <2> DEFINE v == <<a>>
  <2> DEFINE r == << >>
  <2> DEFINE w == <<a>>
  <2>1. v \in Seq(S) /\ r \in Seq(S) /\ w \in Seq(S)  OBVIOUS
  <2>2. /\ Len(v) = 1 /\ Len(r) = 0 /\ Len(w) = 1
        /\ \A i \in 1..1 : w[i] = IF i <= 1 THEN v[i] ELSE r[i - 1]
    OBVIOUS
  <2> HIDE DEF v, r, w
  <2>3. /\ Len(w) = Len(v) + Len(r)
        /\ \A i \in 1..Len(w) : w[i] = IF i <= Len(v) THEN v[i] ELSE r[i - Len(v)]
    BY <2>2
  <2>4. v \o r = w  BY <2>1, <2>3, Joined, Zenon
  <2> QED  BY <2>4 DEF v, r, w
<1>2. <<a>> \o <<b>> = <<a, b>>
  <2> DEFINE v == <<a>>
  <2> DEFINE r == <<b>>
  <2> DEFINE w == <<a, b>>
  <2>1. v \in Seq(S) /\ r \in Seq(S) /\ w \in Seq(S)  OBVIOUS
  <2>2. /\ Len(v) = 1 /\ Len(r) = 1 /\ Len(w) = 2
        /\ \A i \in 1..2 : w[i] = IF i <= 1 THEN v[i] ELSE r[i - 1]
    OBVIOUS
  <2> HIDE DEF v, r, w
  <2>3. /\ Len(w) = Len(v) + Len(r)
        /\ \A i \in 1..Len(w) : w[i] = IF i <= Len(v) THEN v[i] ELSE r[i - Len(v)]
    BY <2>2
  <2>4. v \o r = w  BY <2>1, <2>3, Joined, Zenon
  <2> QED  BY <2>4 DEF v, r, w
<1>3. <<a>> \o <<b, c>> = <<a, b, c>>
  <2> DEFINE v == <<a>>
  <2> DEFINE r == <<b, c>>
  <2> DEFINE w == <<a, b, c>>
  <2>1. v \in Seq(S) /\ r \in Seq(S) /\ w \in Seq(S)  OBVIOUS
  <2>2. /\ Len(v) = 1 /\ Len(r) = 2 /\ Len(w) = 3
        /\ \A i \in 1..3 : w[i] = IF i <= 1 THEN v[i] ELSE r[i - 1]
    OBVIOUS
  <2> HIDE DEF v, r, w
  <2>3. /\ Len(w) = Len(v) + Len(r)
        /\ \A i \in 1..Len(w) : w[i] = IF i <= Len(v) THEN v[i] ELSE r[i - Len(v)]
    BY <2>2
  <2>4. v \o r = w  BY <2>1, <2>3, Joined, Zenon
  <2> QED  BY <2>4 DEF v, r, w
<1> QED  BY <1>1, <1>2, <1>3

\* The order of the commands, transaction by transaction.
LEMMA InstallCommands ==
  /\ Head(Install3) = "daemon-reload" /\ Tail(Install3) = Install2
  /\ Head(Install2) = "preset" /\ Tail(Install2) = Install1
  /\ Head(Install1) = "test" /\ Tail(Install1) = << >>
  /\ Head(InstallStart) = "start socket" /\ Tail(InstallStart) = << >>
  /\ <<Start>> \o << >> = InstallStart
<1>1. /\ Head(Install3) = Reload /\ Tail(Install3) = Install2
      /\ Head(Install2) = Preset /\ Tail(Install2) = Install1
      /\ Head(Install1) = TestSocket /\ Tail(Install1) = << >>
      /\ Head(InstallStart) = Start /\ Tail(InstallStart) = << >>
  BY DEF Install3, Install2, Install1, InstallStart
<1>2. /\ <<Start>> \o << >> = InstallStart
  BY Prepended, Zenon DEF Install3, Install2, Install1, InstallStart
<1> QED  BY <1>1, <1>2 DEF Reload, Preset, TestSocket, Start

LEMMA LegacyCommands ==
  /\ Head(Legacy6) = "daemon-reload" /\ Tail(Legacy6) = Legacy5
  /\ Head(Legacy5) = "disable service" /\ Tail(Legacy5) = Legacy4
  /\ Head(Legacy4) = "enable socket" /\ Tail(Legacy4) = Legacy3
  /\ Head(Legacy3) = "test" /\ Tail(Legacy3) = Legacy2
  /\ Head(Legacy2) = "daemon-reload" /\ Tail(Legacy2) = Legacy1
  /\ Head(Legacy1) = "try-restart" /\ Tail(Legacy1) = << >>
  /\ Head(LegacyStart) = "start socket" /\ Tail(LegacyStart) = Legacy2
  /\ Head(LegacyWait) = "wait" /\ Tail(LegacyWait) = << >>
  /\ <<Start>> \o Legacy2 = LegacyStart
  /\ <<WaitJob>> \o << >> = LegacyWait
<1>1. /\ Head(Legacy6) = Reload /\ Tail(Legacy6) = Legacy5
      /\ Head(Legacy5) = DisableService /\ Tail(Legacy5) = Legacy4
      /\ Head(Legacy4) = EnableSocket /\ Tail(Legacy4) = Legacy3
      /\ Head(Legacy3) = TestSocket /\ Tail(Legacy3) = Legacy2
      /\ Head(Legacy2) = Reload /\ Tail(Legacy2) = Legacy1
      /\ Head(Legacy1) = TryRestart /\ Tail(Legacy1) = << >>
      /\ Head(LegacyStart) = Start /\ Tail(LegacyStart) = Legacy2
      /\ Head(LegacyWait) = WaitJob /\ Tail(LegacyWait) = << >>
  BY DEF Legacy6, Legacy5, Legacy4, Legacy3, Legacy2, Legacy1, LegacyStart, LegacyWait
<1>2. /\ <<Start>> \o Legacy2 = LegacyStart
      /\ <<WaitJob>> \o << >> = LegacyWait
  BY Prepended, Zenon
  DEF Legacy6, Legacy5, Legacy4, Legacy3, Legacy2, Legacy1, LegacyStart, LegacyWait
<1> QED
  BY <1>1, <1>2 DEF Reload, DisableService, EnableSocket, TestSocket, TryRestart, Start, WaitJob

LEMMA CurrentCommands ==
  /\ Head(Current7) = "daemon-reload" /\ Tail(Current7) = Current6
  /\ Head(Current6) = "disable service" /\ Tail(Current6) = Current5
  /\ Head(Current5) = "enable socket" /\ Tail(Current5) = Current4
  /\ Head(Current4) = "test" /\ Tail(Current4) = Current3
  /\ Head(Current3) = "daemon-reload" /\ Tail(Current3) = Current2
  /\ Head(Current2) = "try-restart" /\ Tail(Current2) = Current1
  /\ Head(Current1) = "start socket" /\ Tail(Current1) = << >>
  /\ Head(CurrentStart) = "start socket" /\ Tail(CurrentStart) = Current3
  /\ Head(CurrentWait) = "wait" /\ Tail(CurrentWait) = Current1
  /\ <<Start>> \o Current3 = CurrentStart
  /\ <<WaitJob>> \o Current1 = CurrentWait
<1>1. /\ Head(Current7) = Reload /\ Tail(Current7) = Current6
      /\ Head(Current6) = DisableService /\ Tail(Current6) = Current5
      /\ Head(Current5) = EnableSocket /\ Tail(Current5) = Current4
      /\ Head(Current4) = TestSocket /\ Tail(Current4) = Current3
      /\ Head(Current3) = Reload /\ Tail(Current3) = Current2
      /\ Head(Current2) = TryRestart /\ Tail(Current2) = Current1
      /\ Head(Current1) = Start /\ Tail(Current1) = << >>
      /\ Head(CurrentStart) = Start /\ Tail(CurrentStart) = Current3
      /\ Head(CurrentWait) = WaitJob /\ Tail(CurrentWait) = Current1
  BY DEF Current7, Current6, Current5, Current4, Current3, Current2, Current1, CurrentStart,
     CurrentWait
<1>2. /\ <<Start>> \o Current3 = CurrentStart
      /\ <<WaitJob>> \o Current1 = CurrentWait
  <2>1. <<Start>> \o Current3 = CurrentStart
    <3> DEFINE v == <<Start>>
    <3>1. /\ v \in Seq(Commands) /\ Current3 \in Seq(Commands) /\ CurrentStart \in Seq(Commands)
      BY DEF Commands, Start, Reload, TryRestart, Current3, CurrentStart
    <3>2. /\ Len(v) = 1 /\ Len(Current3) = 3 /\ Len(CurrentStart) = 4
          /\ \A i \in 1..4 : CurrentStart[i] = IF i <= 1 THEN v[i] ELSE Current3[i - 1]
      BY DEF Current3, CurrentStart
    <3> HIDE DEF v
    <3>3. /\ Len(CurrentStart) = Len(v) + Len(Current3)
          /\ \A i \in 1..Len(CurrentStart) :
               CurrentStart[i] = IF i <= Len(v) THEN v[i] ELSE Current3[i - Len(v)]
      BY <3>2
    <3>4. v \o Current3 = CurrentStart  BY <3>1, <3>3, Joined, Zenon
    <3> QED  BY <3>4 DEF v
  <2>2. <<WaitJob>> \o Current1 = CurrentWait
    BY Prepended, Zenon DEF Current1, CurrentWait
  <2> QED  BY <2>1, <2>2
<1> QED
  BY <1>1, <1>2 DEF Reload, DisableService, EnableSocket, TestSocket, TryRestart, Start, WaitJob

LEMMA RemoveCommands ==
  /\ Head(Remove5) = "disable service" /\ Tail(Remove5) = Remove4
  /\ Head(Remove4) = "disable socket" /\ Tail(Remove4) = Remove3
  /\ Head(Remove3) = "stop socket" /\ Tail(Remove3) = Remove2
  /\ Head(Remove2) = "stop service" /\ Tail(Remove2) = Remove1
  /\ Head(Remove1) = "daemon-reload" /\ Tail(Remove1) = << >>
  /\ Head(RemoveWaitSocket) = "wait" /\ Tail(RemoveWaitSocket) = Remove2
  /\ Head(RemoveWaitService) = "wait" /\ Tail(RemoveWaitService) = Remove1
  /\ <<WaitJob>> \o Remove2 = RemoveWaitSocket
  /\ <<WaitJob>> \o Remove1 = RemoveWaitService
<1>1. /\ Head(Remove5) = DisableService /\ Tail(Remove5) = Remove4
      /\ Head(Remove4) = DisableSocket /\ Tail(Remove4) = Remove3
      /\ Head(Remove3) = StopSocket /\ Tail(Remove3) = Remove2
      /\ Head(Remove2) = StopService /\ Tail(Remove2) = Remove1
      /\ Head(Remove1) = Reload /\ Tail(Remove1) = << >>
      /\ Head(RemoveWaitSocket) = WaitJob /\ Tail(RemoveWaitSocket) = Remove2
      /\ Head(RemoveWaitService) = WaitJob /\ Tail(RemoveWaitService) = Remove1
  BY DEF Remove5, Remove4, Remove3, Remove2, Remove1, RemoveWaitSocket, RemoveWaitService
<1>2. /\ <<WaitJob>> \o Remove2 = RemoveWaitSocket
      /\ <<WaitJob>> \o Remove1 = RemoveWaitService
  BY Prepended, Zenon
  DEF Remove5, Remove4, Remove3, Remove2, Remove1, RemoveWaitSocket, RemoveWaitService
<1> QED  BY <1>1, <1>2 DEF DisableService, DisableSocket, StopSocket, StopService, Reload, WaitJob

\* A transaction with a command left is not done.
LEMMA StillToRun ==
  /\ << >> \notin {Install3, Install2, Install1, InstallStart}
  /\ << >> \notin {Legacy6, Legacy5, Legacy4, Legacy3, LegacyStart, Legacy2, Legacy1, LegacyWait}
  /\ << >> \notin {Current7, Current6, Current5, Current4, CurrentStart, Current3, Current2,
                   CurrentWait, Current1}
  /\ << >> \notin {Remove5, Remove4, Remove3, RemoveWaitSocket, Remove2, RemoveWaitService, Remove1}
<1>1. << >> \notin {Install3, Install2, Install1, InstallStart}
  BY DEF Install3, Install2, Install1, InstallStart
<1>2. << >> \notin {Legacy6, Legacy5, Legacy4, Legacy3, LegacyStart, Legacy2, Legacy1, LegacyWait}
  BY DEF Legacy6, Legacy5, Legacy4, Legacy3, LegacyStart, Legacy2, Legacy1, LegacyWait
<1>3. << >> \notin {Current7, Current6, Current5, Current4, CurrentStart, Current3, Current2,
                   CurrentWait, Current1}
  BY DEF Current7, Current6, Current5, Current4, CurrentStart, Current3, Current2, CurrentWait,
     Current1
<1>4. << >> \notin {Remove5, Remove4, Remove3, RemoveWaitSocket, Remove2, RemoveWaitService,
                   Remove1}
  BY DEF Remove5, Remove4, Remove3, RemoveWaitSocket, Remove2, RemoveWaitService, Remove1
<1> QED  BY <1>1, <1>2, <1>3, <1>4

-----------------------------------------------------------------------------
(* The scriptlets.                                                         *)

\* What Begin puts together of the scriptlets, by name.
LEMMA Transactions ==
  /\ Post(1) = Install3
  /\ Post(2) \o PreUn(1) \o PostUn("legacy", 1) = Legacy6
  /\ Post(2) \o PreUn(1) \o PostUn("current", 1) = Current7
  /\ PreUn(0) \o PostUn("current", 0) = Remove5
<1> DEFINE post == <<Reload, DisableService, EnableSocket, TestSocket>>
<1> DEFINE preun == <<DisableService, DisableSocket, StopSocket, StopService>>
<1>1. /\ Post(1) = Install3 /\ Post(2) = post /\ PreUn(0) = preun /\ PreUn(1) = << >>
      /\ PostUn("legacy", 1) = Legacy2 /\ PostUn("current", 1) = Current3
      /\ PostUn("current", 0) = Remove1
  BY DEF Post, PreUn, PostUn, Install3, Legacy2, Current3, Remove1, Reload, DisableService, EnableSocket, TestSocket, Preset,
         TryRestart, Start, DisableSocket, StopSocket, StopService
<1>2. post \o << >> = post  OBVIOUS
<1>3. post \o Legacy2 = Legacy6
  <2>1. post \in Seq(Commands) /\ Legacy2 \in Seq(Commands) /\ Legacy6 \in Seq(Commands)
    BY DEF Commands, Legacy2, Legacy6, Reload, DisableService, EnableSocket, TestSocket, TryRestart
  <2>2. /\ Len(post) = 4 /\ Len(Legacy2) = 2 /\ Len(Legacy6) = 6
        /\ \A i \in 1..6 : Legacy6[i] = IF i <= 4 THEN post[i] ELSE Legacy2[i - 4]
    BY DEF Legacy2, Legacy6
  <2> HIDE DEF post
  <2>3. /\ Len(Legacy6) = Len(post) + Len(Legacy2)
        /\ \A i \in 1..Len(Legacy6) :
             Legacy6[i] = IF i <= Len(post) THEN post[i] ELSE Legacy2[i - Len(post)]
    BY <2>2
  <2> QED  BY <2>1, <2>3, Joined, Zenon
<1>4. post \o Current3 = Current7
  <2>1. post \in Seq(Commands) /\ Current3 \in Seq(Commands) /\ Current7 \in Seq(Commands)
    BY DEF Commands, Current3, Current7, Reload, DisableService, EnableSocket, TestSocket, TryRestart,
           Start
  <2>2. /\ Len(post) = 4 /\ Len(Current3) = 3 /\ Len(Current7) = 7
        /\ \A i \in 1..7 : Current7[i] = IF i <= 4 THEN post[i] ELSE Current3[i - 4]
    BY DEF Current3, Current7
  <2> HIDE DEF post
  <2>3. /\ Len(Current7) = Len(post) + Len(Current3)
        /\ \A i \in 1..Len(Current7) :
             Current7[i] = IF i <= Len(post) THEN post[i] ELSE Current3[i - Len(post)]
    BY <2>2
  <2> QED  BY <2>1, <2>3, Joined, Zenon
<1>5. preun \o Remove1 = Remove5
  <2>1. preun \in Seq(Commands) /\ Remove1 \in Seq(Commands) /\ Remove5 \in Seq(Commands)
    BY DEF Commands, Remove1, Remove5, DisableService, DisableSocket, StopSocket, StopService, Reload
  <2>2. /\ Len(preun) = 4 /\ Len(Remove1) = 1 /\ Len(Remove5) = 5
        /\ \A i \in 1..5 : Remove5[i] = IF i <= 4 THEN preun[i] ELSE Remove1[i - 4]
    BY DEF Remove1, Remove5
  <2> HIDE DEF preun
  <2>3. /\ Len(Remove5) = Len(preun) + Len(Remove1)
        /\ \A i \in 1..Len(Remove5) :
             Remove5[i] = IF i <= Len(preun) THEN preun[i] ELSE Remove1[i - Len(preun)]
    BY <2>2
  <2> QED  BY <2>1, <2>3, Joined, Zenon
<1> HIDE DEF post, preun
<1> QED  BY <1>1, <1>2, <1>3, <1>4, <1>5

\* Every scriptlet is a sequence of commands.
LEMMA ScriptletTypes ==
  /\ << >> \in Seq(Commands) /\ <<"wait">> \in Seq(Commands)
  /\ <<"start socket">> \in Seq(Commands)
  /\ \A n : /\ Post(n) \in Seq(Commands) /\ PreUn(n) \in Seq(Commands)
           /\ \A package : PostUn(package, n) \in Seq(Commands)
<1>1. << >> \in Seq(Commands)  OBVIOUS
<1>2. <<"wait">> \in Seq(Commands)  BY DEF Commands
<1>3. <<"start socket">> \in Seq(Commands)  BY DEF Commands
<1>4. ASSUME NEW n PROVE Post(n) \in Seq(Commands)
  <2>1. /\ <<"daemon-reload", "preset", "test">> \in Seq(Commands)
        /\ <<"daemon-reload", "disable service", "enable socket", "test">> \in Seq(Commands)
    BY DEF Commands
  <2> QED  BY <2>1, Zenon DEF Post
<1>5. ASSUME NEW n PROVE PreUn(n) \in Seq(Commands)
  <2>1. <<"disable service", "disable socket", "stop socket", "stop service">> \in Seq(Commands)
    BY DEF Commands
  <2> QED  BY <1>1, <2>1, Zenon DEF PreUn
<1>6. ASSUME NEW n, NEW package PROVE PostUn(package, n) \in Seq(Commands)
  <2>1. /\ <<"daemon-reload">> \in Seq(Commands)
        /\ <<"daemon-reload", "try-restart">> \in Seq(Commands)
        /\ <<"daemon-reload", "try-restart", "start socket">> \in Seq(Commands)
    BY DEF Commands
  <2> QED  BY <2>1, Zenon DEF PostUn
<1> QED  BY <1>1, <1>2, <1>3, <1>4, <1>5, <1>6, Zenon

-----------------------------------------------------------------------------
(* The invariant.                                                          *)

\* No step leaves the types.
LEMMA TypeStep == TypeOK /\ [Next]_vars => TypeOK'
<1> SUFFICES ASSUME TypeOK, [Next]_vars PROVE TypeOK'
  OBVIOUS
<1> USE DEF TypeOK
<1>1. ASSUME NEW command, NEW rest \in Seq(Commands), Run(command, rest)
      PROVE  /\ script' \in Seq(Commands)
             /\ UNCHANGED <<from, op, importing, stopped>>
  <2>1. script # << >> /\ script' = rest \o Tail(script)  BY <1>1 DEF Run
  <2>2. Tail(script) \in Seq(Commands)  BY <2>1, HeadTailProperties
  <2> QED  BY <1>1, <2>1, <2>2, ConcatProperties DEF Run
<1>2. /\ << >> \in Seq(Commands) /\ <<"wait">> \in Seq(Commands)
      /\ <<"start socket">> \in Seq(Commands)
  BY ScriptletTypes
<1>3. CASE Begin
  <2>1. /\ Post(2) \o PreUn(1) \o PostUn(from, 1) \in Seq(Commands)
        /\ PreUn(0) \o PostUn(from, 0) \in Seq(Commands)
    BY ScriptletTypes, ConcatProperties
  <2> QED  BY <1>3, <2>1, ScriptletTypes DEF Begin
<1>4. CASE Files  BY <1>1, <1>2, <1>4 DEF Files, Packages
<1>5. CASE Test  BY <1>1, <1>2, <1>5 DEF Test
<1>6. CASE StartSocket  BY <1>1, <1>2, <1>6 DEF StartSocket
<1>7. CASE StartJob  BY <1>1, <1>2, <1>7 DEF StartJob, Running, SvcStates
<1>8. CASE Wait  BY <1>1, <1>2, <1>8 DEF Wait
<1>9. CASE Stopped  BY <1>9 DEF Stopped, Meanwhile, SockPulled, SvcStates
<1>10. CASE Kill  BY <1>10 DEF Kill, Meanwhile
<1>11. CASE Activate \/ IdleExit  BY <1>11 DEF Activate, IdleExit, Meanwhile, SvcStates
<1>12. CASE Crash  BY <1>12 DEF Crash, Meanwhile, SvcStates
<1>13. CASE AutoRestart  BY <1>13 DEF AutoRestart, Meanwhile, SockPulled, SvcStates
<1>14. CASE ImportBegins \/ ImportEnds  BY <1>14 DEF ImportBegins, ImportEnds, Meanwhile
<1>15. CASE AdminStop  BY <1>15 DEF AdminStop, Meanwhile, SvcStates
<1>16. CASE UNCHANGED vars  BY <1>16 DEF vars
<1> QED  BY <1>3, <1>4, <1>5, <1>6, <1>7, <1>8, <1>9, <1>10, <1>11, <1>12, <1>13, <1>14,
            <1>15, <1>16 DEF Next

\* Init establishes the invariant: nobody has called rpm yet.
LEMMA Initially == Init => Inv
<1> SUFFICES ASSUME Init PROVE Inv
  OBVIOUS
<1>1. TypeOK  BY ScriptletTypes DEF Init, TypeOK, Packages, SvcStates
<1>2. UnitInv  BY DEF Init, UnitInv
<1>3. Waiting  BY DEF Init, Waiting
<1> QED  BY <1>1, <1>2, <1>3 DEF Inv

\* rpm is called: each transaction starts where it should.
LEMMA BeginStep ==
  ASSUME Inv, Begin
  PROVE  UnitInv' /\ (Installing \/ UpgradingLegacy \/ UpgradingCurrent \/ Removing)'
<1>1. Waiting
  BY DEF Inv, Begin, Waiting, Installing, UpgradingLegacy, UpgradingCurrent, Removing
<1>2. UnitInv'  BY <1>1 DEF Inv, TypeOK, Begin, UnitInv, Waiting
<1>3. CASE from = "none"
  <2>1. op' = "install" /\ script' = Install3
    BY <1>3, Transactions DEF Begin
  <2> QED  BY <1>1, <1>2, <1>3, <2>1 DEF Inv, Begin, UnitInv, Waiting, Installing
<1>4. CASE from = "legacy"
  <2>1. op' = "upgrade" /\ script' = Legacy6  BY <1>4, Transactions DEF Begin
  <2> QED  BY <1>1, <1>2, <1>4, <2>1 DEF Inv, Begin, UnitInv, Waiting, UpgradingLegacy
<1>5. CASE from = "current" /\ op' = "upgrade"
  <2>1. script' = Current7  BY <1>5, Transactions DEF Begin
  <2> QED  BY <1>1, <1>2, <1>5, <2>1 DEF Inv, Begin, UnitInv, Waiting, UpgradingCurrent
<1>6. CASE from = "current" /\ op' = "remove"
  <2>1. script' = Remove5  BY <1>6, Transactions DEF Begin
  <2> QED  BY <1>1, <1>2, <1>6, <2>1 DEF Inv, Begin, UnitInv, Waiting, Removing
<1> QED  BY <1>1, <1>2, <1>3, <1>4, <1>5, <1>6 DEF Inv, TypeOK, Packages, Begin

\* A command that puts nothing in its place.
LEMMA RunStep ==
  ASSUME TypeOK, NEW command, Run(command, << >>)
  PROVE  /\ script # << >> /\ Head(script) = command /\ script' = Tail(script)
         /\ UNCHANGED <<from, op, importing, stopped>>
<1>1. script # << >> => Tail(script) \in Seq(Commands)  BY HeadTailProperties DEF TypeOK
<1> QED  BY <1>1, ConcatEmptySeq DEF Run

\* A command of the transaction leads from one place to the next.
LEMMA ScriptStep ==
  ASSUME Inv, Files \/ Test \/ StartSocket \/ StartJob \/ Wait
  PROVE  UnitInv' /\ (Installing \/ UpgradingLegacy \/ UpgradingCurrent \/ Removing)'
<1>0. TypeOK /\ UnitInv /\ ~Waiting /\ svc \in SvcStates
  BY DEF Inv, TypeOK, Waiting, Files, Test, StartSocket, StartJob, Wait, Run
<1> USE DEF UnitInv
<1>1. CASE Files /\ Run("daemon-reload", << >>)
  <2>1. /\ script # << >> /\ Head(script) = "daemon-reload" /\ script' = Tail(script)
        /\ UNCHANGED <<from, op, importing, stopped>>
    BY <1>1, <1>0, RunStep, Zenon
  <2>2. unit' = (IF op = "remove" THEN "none" ELSE "current") /\ UNCHANGED <<boot, sock, svc>>
    BY <1>1, <2>1 DEF Files, Run
  <2>3. CASE Installing  BY <2>1, <2>2, <2>3, <1>0, InstallCommands DEF Installing
  <2>4. CASE UpgradingLegacy  BY <2>1, <2>2, <2>4, <1>0, LegacyCommands DEF UpgradingLegacy
  <2>5. CASE UpgradingCurrent  BY <2>1, <2>2, <2>5, <1>0, CurrentCommands DEF UpgradingCurrent
  <2>6. CASE Removing  BY <2>1, <2>2, <2>6, <1>0, RemoveCommands DEF Removing
  <2> QED  BY <1>0, <2>3, <2>4, <2>5, <2>6 DEF Inv
<1>2. CASE Files /\ Run("preset", << >>)
  <2>1. /\ script # << >> /\ Head(script) = "preset" /\ script' = Tail(script)
        /\ UNCHANGED <<from, op, importing, stopped>>
    BY <1>2, <1>0, RunStep, Zenon
  <2>2. boot' = {"socket"} /\ UNCHANGED <<unit, sock, svc>>
    BY <1>2, <2>1 DEF Files, Run
  <2>3. CASE Installing  BY <2>1, <2>2, <2>3, <1>0, InstallCommands DEF Installing
  <2>4. CASE UpgradingLegacy  BY <2>1, <2>2, <2>4, <1>0, LegacyCommands DEF UpgradingLegacy
  <2>5. CASE UpgradingCurrent  BY <2>1, <2>2, <2>5, <1>0, CurrentCommands DEF UpgradingCurrent
  <2>6. CASE Removing  BY <2>1, <2>2, <2>6, <1>0, RemoveCommands DEF Removing
  <2> QED  BY <1>0, <2>3, <2>4, <2>5, <2>6 DEF Inv
<1>3. CASE Files /\ Run("enable socket", << >>)
  <2>1. /\ script # << >> /\ Head(script) = "enable socket" /\ script' = Tail(script)
        /\ UNCHANGED <<from, op, importing, stopped>>
    BY <1>3, <1>0, RunStep, Zenon
  <2>2. boot' = boot \cup {"socket"} /\ UNCHANGED <<unit, sock, svc>>
    BY <1>3, <2>1 DEF Files, Run
  <2>3. CASE Installing  BY <2>1, <2>2, <2>3, <1>0, InstallCommands DEF Installing
  <2>4. CASE UpgradingLegacy  BY <2>1, <2>2, <2>4, <1>0, LegacyCommands DEF UpgradingLegacy
  <2>5. CASE UpgradingCurrent  BY <2>1, <2>2, <2>5, <1>0, CurrentCommands DEF UpgradingCurrent
  <2>6. CASE Removing  BY <2>1, <2>2, <2>6, <1>0, RemoveCommands DEF Removing
  <2> QED  BY <1>0, <2>3, <2>4, <2>5, <2>6 DEF Inv
<1>4. CASE Files /\ Run("disable socket", << >>)
  <2>1. /\ script # << >> /\ Head(script) = "disable socket" /\ script' = Tail(script)
        /\ UNCHANGED <<from, op, importing, stopped>>
    BY <1>4, <1>0, RunStep, Zenon
  <2>2. boot' = boot \ {"socket"} /\ UNCHANGED <<unit, sock, svc>>
    BY <1>4, <2>1 DEF Files, Run
  <2>3. CASE Installing  BY <2>1, <2>2, <2>3, <1>0, InstallCommands DEF Installing
  <2>4. CASE UpgradingLegacy  BY <2>1, <2>2, <2>4, <1>0, LegacyCommands DEF UpgradingLegacy
  <2>5. CASE UpgradingCurrent  BY <2>1, <2>2, <2>5, <1>0, CurrentCommands DEF UpgradingCurrent
  <2>6. CASE Removing  BY <2>1, <2>2, <2>6, <1>0, RemoveCommands DEF Removing
  <2> QED  BY <1>0, <2>3, <2>4, <2>5, <2>6 DEF Inv
<1>5. CASE Files /\ Run("disable service", << >>)
  <2>1. /\ script # << >> /\ Head(script) = "disable service" /\ script' = Tail(script)
        /\ UNCHANGED <<from, op, importing, stopped>>
    BY <1>5, <1>0, RunStep, Zenon
  <2>2. boot' = boot \ {"service"} /\ UNCHANGED <<unit, sock, svc>>
    BY <1>5, <2>1 DEF Files, Run
  <2>3. CASE Installing  BY <2>1, <2>2, <2>3, <1>0, InstallCommands DEF Installing
  <2>4. CASE UpgradingLegacy  BY <2>1, <2>2, <2>4, <1>0, LegacyCommands DEF UpgradingLegacy
  <2>5. CASE UpgradingCurrent  BY <2>1, <2>2, <2>5, <1>0, CurrentCommands DEF UpgradingCurrent
  <2>6. CASE Removing  BY <2>1, <2>2, <2>6, <1>0, RemoveCommands DEF Removing
  <2> QED  BY <1>0, <2>3, <2>4, <2>5, <2>6 DEF Inv
<1>6. CASE StartSocket
  <2>1. /\ script # << >> /\ Head(script) = "start socket" /\ script' = Tail(script)
        /\ UNCHANGED <<from, op, importing, stopped>>
    BY <1>6, <1>0, RunStep, Zenon DEF StartSocket
  <2>2. /\ UNCHANGED <<unit, boot, svc>>
        /\ sock' = IF svc \in {"inactive", "auto-restart"} THEN "active" ELSE sock
    BY <1>6, <2>1 DEF StartSocket
  <2>3. CASE Installing  BY <2>1, <2>2, <2>3, <1>0, InstallCommands DEF Installing
  <2>4. CASE UpgradingLegacy
    BY <2>1, <2>2, <2>4, <1>0, LegacyCommands DEF UpgradingLegacy, SvcStates
  <2>5. CASE UpgradingCurrent  BY <2>1, <2>2, <2>5, <1>0, CurrentCommands DEF UpgradingCurrent
  <2>6. CASE Removing  BY <2>1, <2>2, <2>6, <1>0, RemoveCommands DEF Removing
  <2> QED  BY <1>0, <2>3, <2>4, <2>5, <2>6 DEF Inv
<1>7. CASE Wait
  <2>1. /\ script # << >> /\ Head(script) = "wait" /\ script' = Tail(script)
        /\ UNCHANGED <<from, op, importing, stopped>>
    BY <1>7, <1>0, RunStep, Zenon DEF Wait
  <2>2. svc \notin {"stopping", "restarting"} /\ UNCHANGED <<unit, boot, sock, svc>>
    BY <1>7, <2>1 DEF Wait
  <2>3. CASE Installing  BY <2>1, <2>2, <2>3, <1>0, InstallCommands DEF Installing
  <2>4. CASE UpgradingLegacy  BY <2>1, <2>2, <2>4, <1>0, LegacyCommands DEF UpgradingLegacy
  <2>5. CASE UpgradingCurrent  BY <2>1, <2>2, <2>5, <1>0, CurrentCommands DEF UpgradingCurrent
  <2>6. CASE Removing  BY <2>1, <2>2, <2>6, <1>0, RemoveCommands DEF Removing
  <2> QED  BY <1>0, <2>3, <2>4, <2>5, <2>6 DEF Inv
<1>8. CASE Test /\ svc = "active"
  <2>1. /\ script # << >> /\ Head(script) = "test" /\ script' = Tail(script)
        /\ UNCHANGED <<from, op, importing, stopped>>
    BY <1>8, <1>0, RunStep, Zenon DEF Test
  <2>2. svc = "active" /\ UNCHANGED <<unit, boot, sock, svc>>
    BY <1>8, <2>1 DEF Test, Run
  <2>3. CASE Installing  BY <2>1, <2>2, <2>3, <1>0, InstallCommands DEF Installing
  <2>4. CASE UpgradingLegacy  BY <2>1, <2>2, <2>4, <1>0, LegacyCommands DEF UpgradingLegacy
  <2>5. CASE UpgradingCurrent  BY <2>1, <2>2, <2>5, <1>0, CurrentCommands DEF UpgradingCurrent
  <2>6. CASE Removing  BY <2>1, <2>2, <2>6, <1>0, RemoveCommands DEF Removing
  <2> QED  BY <1>0, <2>3, <2>4, <2>5, <2>6 DEF Inv
<1>9. CASE Test /\ svc # "active"
  <2>1. /\ script # << >> /\ Head(script) = "test" /\ script' = <<Start>> \o Tail(script)
        /\ UNCHANGED <<from, op, importing, stopped>>
    BY <1>9, Zenon DEF Start, Run, Test
  <2>2. svc # "active" /\ UNCHANGED <<unit, boot, sock, svc>>
    BY <1>9, <2>1 DEF Test, Run
  <2>3. CASE Installing  BY <2>1, <2>2, <2>3, <1>0, InstallCommands DEF Installing
  <2>4. CASE UpgradingLegacy  BY <2>1, <2>2, <2>4, <1>0, LegacyCommands DEF UpgradingLegacy
  <2>5. CASE UpgradingCurrent  BY <2>1, <2>2, <2>5, <1>0, CurrentCommands DEF UpgradingCurrent
  <2>6. CASE Removing  BY <2>1, <2>2, <2>6, <1>0, RemoveCommands DEF Removing
  <2> QED  BY <1>0, <2>3, <2>4, <2>5, <2>6 DEF Inv
<1>10. CASE StartJob /\ ~Running /\ Run("try-restart", << >>)
  <2>1. /\ script # << >> /\ Head(script) = "try-restart" /\ script' = Tail(script)
        /\ UNCHANGED <<from, op, importing, stopped>>
    BY <1>10, <1>0, RunStep, Zenon DEF StartJob
  <2>2. svc \notin {"active", "auto-restart"} /\ UNCHANGED <<unit, boot, sock, svc>>
    BY <1>10, <2>1 DEF StartJob, Run, Running
  <2>3. CASE Installing  BY <2>1, <2>2, <2>3, <1>0, InstallCommands DEF Installing
  <2>4. CASE UpgradingLegacy  BY <2>1, <2>2, <2>4, <1>0, LegacyCommands DEF UpgradingLegacy
  <2>5. CASE UpgradingCurrent  BY <2>1, <2>2, <2>5, <1>0, CurrentCommands DEF UpgradingCurrent
  <2>6. CASE Removing  BY <2>1, <2>2, <2>6, <1>0, RemoveCommands DEF Removing
  <2> QED  BY <1>0, <2>3, <2>4, <2>5, <2>6 DEF Inv
<1>11. CASE StartJob /\ Running /\ Run("try-restart", <<"wait">>)
  <2>1. /\ script # << >> /\ Head(script) = "try-restart" /\ script' = <<WaitJob>> \o Tail(script)
        /\ UNCHANGED <<from, op, importing, stopped>>
    BY <1>11, Zenon DEF WaitJob, Run
  <2>2. svc \in {"active", "auto-restart"} /\ svc' = "restarting" /\ UNCHANGED <<unit, boot, sock>>
    BY <1>11, <2>1 DEF StartJob, Run, Running
  <2>3. CASE Installing  BY <2>1, <2>2, <2>3, <1>0, InstallCommands DEF Installing
  <2>4. CASE UpgradingLegacy  BY <2>1, <2>2, <2>4, <1>0, LegacyCommands DEF UpgradingLegacy
  <2>5. CASE UpgradingCurrent  BY <2>1, <2>2, <2>5, <1>0, CurrentCommands DEF UpgradingCurrent
  <2>6. CASE Removing  BY <2>1, <2>2, <2>6, <1>0, RemoveCommands DEF Removing
  <2> QED  BY <1>0, <2>3, <2>4, <2>5, <2>6 DEF Inv
<1>12. CASE StartJob /\ Run("stop service", <<"wait">>)
  <2>1. /\ script # << >> /\ Head(script) = "stop service" /\ script' = <<WaitJob>> \o Tail(script)
        /\ UNCHANGED <<from, op, importing, stopped>>
    BY <1>12, Zenon DEF WaitJob, Run
  <2>2. /\ svc' = (IF svc \in {"active", "auto-restart"} THEN "stopping" ELSE svc)
        /\ UNCHANGED <<unit, boot, sock>>
    BY <1>12, <2>1 DEF StartJob, Run, Running
  <2>3. CASE Installing  BY <2>1, <2>2, <2>3, <1>0, InstallCommands DEF Installing
  <2>4. CASE UpgradingLegacy  BY <2>1, <2>2, <2>4, <1>0, LegacyCommands DEF UpgradingLegacy
  <2>5. CASE UpgradingCurrent  BY <2>1, <2>2, <2>5, <1>0, CurrentCommands DEF UpgradingCurrent
  <2>6. CASE Removing  BY <2>1, <2>2, <2>6, <1>0, RemoveCommands DEF Removing
  <2> QED  BY <1>0, <2>3, <2>4, <2>5, <2>6 DEF Inv
<1>13. CASE StartJob /\ Run("stop socket", <<"wait">>)
  <2>1. /\ script # << >> /\ Head(script) = "stop socket" /\ script' = <<WaitJob>> \o Tail(script)
        /\ UNCHANGED <<from, op, importing, stopped>>
    BY <1>13, Zenon DEF WaitJob, Run
  <2>2. /\ svc' = (IF svc \in {"active", "auto-restart"} THEN "stopping" ELSE svc)
        /\ sock' = (IF svc = "inactive" THEN "inactive" ELSE "stopping")
        /\ UNCHANGED <<unit, boot>>
    BY <1>13, <2>1 DEF StartJob, Run, Running
  <2>3. CASE Installing  BY <2>1, <2>2, <2>3, <1>0, InstallCommands DEF Installing
  <2>4. CASE UpgradingLegacy  BY <2>1, <2>2, <2>4, <1>0, LegacyCommands DEF UpgradingLegacy
  <2>5. CASE UpgradingCurrent  BY <2>1, <2>2, <2>5, <1>0, CurrentCommands DEF UpgradingCurrent
  <2>6. CASE Removing  BY <2>1, <2>2, <2>6, <1>0, RemoveCommands DEF Removing, SvcStates
  <2> QED  BY <1>0, <2>3, <2>4, <2>5, <2>6 DEF Inv
<1> QED  BY <1>1, <1>2, <1>3, <1>4, <1>5, <1>6, <1>7, <1>8, <1>9, <1>10, <1>11, <1>12, <1>13
  DEF Files, Test, StartJob

\* What the service does meanwhile keeps the assertion of every place.
LEMMA ServiceStep ==
  ASSUME Inv, Stopped \/ Kill \/ Activate \/ IdleExit \/ Crash \/ AutoRestart
                \/ ImportBegins \/ ImportEnds \/ AdminStop
  PROVE  UnitInv' /\ (Waiting \/ Installing \/ UpgradingLegacy \/ UpgradingCurrent \/ Removing)'
<1> USE DEF Inv, UnitInv, TypeOK, Meanwhile
<1>1. CASE Stopped
  <2>1. UnitInv'
    BY <1>1 DEF Stopped, SockPulled, SvcStates, Waiting, Installing, UpgradingLegacy,
       UpgradingCurrent, Removing
  <2>2. CASE Waiting  BY <1>1, <2>2 DEF Stopped, SockPulled, SvcStates, Waiting
  <2>3. CASE Installing  BY <1>1, <2>3 DEF Stopped, SockPulled, SvcStates, Installing
  <2>4. CASE UpgradingLegacy  BY <1>1, <2>4 DEF Stopped, SockPulled, SvcStates, UpgradingLegacy
  <2>5. CASE UpgradingCurrent  BY <1>1, <2>5 DEF Stopped, SockPulled, SvcStates, UpgradingCurrent
  <2>6. CASE Removing  BY <1>1, <2>6 DEF Stopped, SockPulled, SvcStates, Removing
  <2> QED  BY <2>1, <2>2, <2>3, <2>4, <2>5, <2>6
<1>2. CASE Kill
  <2>1. UnitInv'  BY <1>2 DEF Kill, Waiting, Installing, UpgradingLegacy, UpgradingCurrent, Removing
  <2>2. CASE Waiting  BY <1>2, <2>2 DEF Kill, Waiting
  <2>3. CASE Installing  BY <1>2, <2>3 DEF Kill, Installing
  <2>4. CASE UpgradingLegacy  BY <1>2, <2>4 DEF Kill, UpgradingLegacy
  <2>5. CASE UpgradingCurrent  BY <1>2, <2>5 DEF Kill, UpgradingCurrent
  <2>6. CASE Removing  BY <1>2, <2>6 DEF Kill, Removing
  <2> QED  BY <2>1, <2>2, <2>3, <2>4, <2>5, <2>6
<1>3. CASE Activate
  <2>1. UnitInv'
    BY <1>3 DEF Activate, Waiting, Installing, UpgradingLegacy, UpgradingCurrent, Removing
  <2>2. CASE Waiting  BY <1>3, <2>2 DEF Activate, Waiting
  <2>3. CASE Installing  BY <1>3, <2>3 DEF Activate, Installing
  <2>4. CASE UpgradingLegacy  BY <1>3, <2>4 DEF Activate, UpgradingLegacy
  <2>5. CASE UpgradingCurrent  BY <1>3, <2>5 DEF Activate, UpgradingCurrent
  <2>6. CASE Removing  BY <1>3, <2>6 DEF Activate, Removing
  <2> QED  BY <2>1, <2>2, <2>3, <2>4, <2>5, <2>6
<1>4. CASE IdleExit
  <2>1. UnitInv'
    BY <1>4 DEF IdleExit, Waiting, Installing, UpgradingLegacy, UpgradingCurrent, Removing
  <2>2. CASE Waiting  BY <1>4, <2>2 DEF IdleExit, Waiting
  <2>3. CASE Installing  BY <1>4, <2>3 DEF IdleExit, Installing
  <2>4. CASE UpgradingLegacy  BY <1>4, <2>4 DEF IdleExit, UpgradingLegacy
  <2>5. CASE UpgradingCurrent  BY <1>4, <2>5 DEF IdleExit, UpgradingCurrent
  <2>6. CASE Removing  BY <1>4, <2>6 DEF IdleExit, Removing
  <2> QED  BY <2>1, <2>2, <2>3, <2>4, <2>5, <2>6
<1>5. CASE Crash
  <2>1. UnitInv'
    BY <1>5 DEF Crash, Waiting, Installing, UpgradingLegacy, UpgradingCurrent, Removing
  <2>2. CASE Waiting  BY <1>5, <2>2 DEF Crash, Waiting
  <2>3. CASE Installing  BY <1>5, <2>3 DEF Crash, Installing
  <2>4. CASE UpgradingLegacy  BY <1>5, <2>4 DEF Crash, UpgradingLegacy
  <2>5. CASE UpgradingCurrent  BY <1>5, <2>5 DEF Crash, UpgradingCurrent
  <2>6. CASE Removing  BY <1>5, <2>6 DEF Crash, Removing
  <2> QED  BY <2>1, <2>2, <2>3, <2>4, <2>5, <2>6
<1>6. CASE AutoRestart
  <2>1. UnitInv'
    BY <1>6 DEF AutoRestart, SockPulled, Waiting, Installing, UpgradingLegacy, UpgradingCurrent,
       Removing
  <2>2. CASE Waiting  BY <1>6, <2>2 DEF AutoRestart, SockPulled, Waiting
  <2>3. CASE Installing  BY <1>6, <2>3 DEF AutoRestart, SockPulled, Installing
  <2>4. CASE UpgradingLegacy  BY <1>6, <2>4 DEF AutoRestart, SockPulled, UpgradingLegacy
  <2>5. CASE UpgradingCurrent  BY <1>6, <2>5 DEF AutoRestart, SockPulled, UpgradingCurrent
  <2>6. CASE Removing  BY <1>6, <2>6 DEF AutoRestart, SockPulled, Removing
  <2> QED  BY <2>1, <2>2, <2>3, <2>4, <2>5, <2>6
<1>7. CASE ImportBegins \/ ImportEnds
  <2>1. UnitInv'
    BY <1>7 DEF ImportBegins, ImportEnds, Waiting, Installing, UpgradingLegacy, UpgradingCurrent,
       Removing
  <2>2. CASE Waiting  BY <1>7, <2>2 DEF ImportBegins, ImportEnds, Waiting
  <2>3. CASE Installing  BY <1>7, <2>3 DEF ImportBegins, ImportEnds, Installing
  <2>4. CASE UpgradingLegacy  BY <1>7, <2>4 DEF ImportBegins, ImportEnds, UpgradingLegacy
  <2>5. CASE UpgradingCurrent  BY <1>7, <2>5 DEF ImportBegins, ImportEnds, UpgradingCurrent
  <2>6. CASE Removing  BY <1>7, <2>6 DEF ImportBegins, ImportEnds, Removing
  <2> QED  BY <2>1, <2>2, <2>3, <2>4, <2>5, <2>6
<1>8. CASE AdminStop
  <2>1. UnitInv'
    BY <1>8 DEF AdminStop, Waiting, Installing, UpgradingLegacy, UpgradingCurrent, Removing
  <2>2. CASE Waiting  BY <1>8, <2>2 DEF AdminStop, Waiting
  <2>3. CASE Installing  BY <1>8, <2>3 DEF AdminStop, Installing
  <2>4. CASE UpgradingLegacy  BY <1>8, <2>4 DEF AdminStop, UpgradingLegacy
  <2>5. CASE UpgradingCurrent  BY <1>8, <2>5 DEF AdminStop, UpgradingCurrent
  <2>6. CASE Removing  BY <1>8, <2>6 DEF AdminStop, Removing
  <2> QED  BY <2>1, <2>2, <2>3, <2>4, <2>5, <2>6
<1> QED  BY <1>1, <1>2, <1>3, <1>4, <1>5, <1>6, <1>7, <1>8

\* Every step keeps the invariant.
LEMMA InvStep == Inv /\ [Next]_vars => Inv'
<1> SUFFICES ASSUME Inv, [Next]_vars PROVE Inv'
  OBVIOUS
<1>1. TypeOK'  BY TypeStep DEF Inv
<1>2. CASE Begin  BY <1>1, <1>2, BeginStep DEF Inv
<1>3. CASE Files \/ Test \/ StartSocket \/ StartJob \/ Wait
  BY <1>1, <1>3, ScriptStep DEF Inv
<1>4. CASE \/ Stopped \/ Kill \/ Activate \/ IdleExit \/ Crash \/ AutoRestart
           \/ ImportBegins \/ ImportEnds \/ AdminStop
  BY <1>1, <1>4, ServiceStep DEF Inv
<1>5. CASE UNCHANGED vars
  BY <1>1, <1>5
  DEF vars, Inv, UnitInv, Waiting, Installing, UpgradingLegacy, UpgradingCurrent, Removing
<1> QED  BY <1>2, <1>3, <1>4, <1>5 DEF Next

-----------------------------------------------------------------------------
(* The theorems.                                                           *)

\* Every place of every transaction keeps its assertion, whatever the service does
\* meanwhile: the invariant behind the theorems below.
THEOREM InvHolds == Spec => []Inv
<1> QED  BY Initially, InvStep, PTL DEF Spec

\* The variables keep their types.
THEOREM TypeCorrect == Spec => []TypeOK
<1>1. Inv => TypeOK  BY DEF Inv
<1> QED  BY <1>1, InvHolds, PTL

\* After an installation or an upgrade (%post, then the old package's %preun and
\* %postun) the socket listens, unless an administrator stopped the service, and it
\* alone is enabled at boot.
THEOREM SocketTakesOverHolds == Spec => []SocketTakesOver
<1>1. Inv => SocketTakesOver
  BY StillToRun DEF Inv, TypeOK, SocketTakesOver, Done, Waiting, Installing, UpgradingLegacy,
                    UpgradingCurrent, Removing
<1> QED  BY <1>1, InvHolds, PTL

\* After a removal (%preun 0, %postun 0) nothing runs, listens or starts at boot.
THEOREM RemovalIsFinalHolds == Spec => []RemovalIsFinal
<1>1. Inv => RemovalIsFinal
  BY StillToRun DEF Inv, RemovalIsFinal, Done, Waiting, Installing, UpgradingLegacy,
                    UpgradingCurrent, Removing
<1> QED  BY <1>1, InvHolds, PTL

\* No command of a scriptlet leads systemd to kill an import: what runs out of its
\* stop timeout was stopped by an administrator.
THEOREM ScriptletsSpareImportsHolds == Spec => ScriptletsSpareImports
<1>1. Inv /\ Kill => stopped # "no"
  BY LegacyCommands
  DEF Inv, UnitInv, Kill, TimesOut, Waiting, Installing, UpgradingLegacy, UpgradingCurrent, Removing
<1> QED  BY <1>1, InvHolds, PTL DEF Spec, ScriptletsSpareImports

\* Through every step of an upgrade and of the service during one, the port keeps a
\* listener or one that is due: try-restart hands over, and nothing else stops.
THEOREM UpgradeKeepsTheEndpointHolds == Spec => UpgradeKeepsTheEndpoint
<1>1. ASSUME Inv, [Next]_vars, op' = "upgrade", stopped' = "no", Served
      PROVE  Served'
  <2> USE DEF Served
  <2>1. CASE Begin \/ Files \/ Test \/ Wait \/ UNCHANGED vars
    BY <1>1, <2>1 DEF Begin, Files, Test, Wait, vars
  <2>2. CASE StartSocket
    BY <1>1, <2>2 DEF StartSocket
  <2>3. CASE StartJob
    <3>1. op = "upgrade" /\ script # << >>
      BY <1>1, <2>3 DEF StartJob, Run
    <3>2. Head(script) # "stop socket" /\ Head(script) # "stop service"
      BY <1>1, <3>1, LegacyCommands, CurrentCommands
         DEF Inv, Waiting, Installing, UpgradingLegacy, UpgradingCurrent, Removing
    <3>3. ~Run("stop socket", <<"wait">>) /\ ~Run("stop service", <<"wait">>)
      BY <3>2, Zenon DEF Run
    <3>4. svc' = (IF Running THEN "restarting" ELSE svc) /\ sock' = sock
      BY <2>3, <3>3 DEF StartJob
    <3> QED BY <1>1, <3>4 DEF Running
  <2>4. CASE Stopped
    <3>1. svc = "restarting"
      BY <1>1, <2>4 DEF Inv, UnitInv, Stopped, Meanwhile
    <3> QED BY <2>4, <3>1 DEF Stopped
  <2>5. CASE AdminStop
    BY <1>1, <2>5 DEF AdminStop
  <2>6. CASE \/ Kill \/ Activate \/ IdleExit \/ Crash \/ AutoRestart \/ ImportBegins \/ ImportEnds
    BY <1>1, <2>6 DEF Kill, Activate, IdleExit, Crash, AutoRestart, ImportBegins, ImportEnds
  <2> QED BY <1>1, <2>1, <2>2, <2>3, <2>4, <2>5, <2>6 DEF Next
<1> QED  BY <1>1, InvHolds, PTL DEF Spec, UpgradeKeepsTheEndpoint

=============================================================================
