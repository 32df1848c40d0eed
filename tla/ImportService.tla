--------------------------- MODULE ImportService ----------------------------
(***************************************************************************)
(* What a client of xoa-proxy may rely on, whatever goes on inside: the    *)
(* abstract specification that ImageHandler and XoaProxy implement.        *)
(*                                                                         *)
(* One import at a time; 409 only while it lasts; a process that exits     *)
(* leaves no request unanswered, only one that crashes does; and on demand *)
(* nothing runs unless somebody called.                                    *)
(***************************************************************************)

CONSTANT Conn

VARIABLES
  demand,   \* is the process started on demand, by systemd?  Fixed.
  server,   \* the process
  client    \* what each client sees of its request

vars == <<demand, server, client>>

\* waiting: connected, its request not read yet.  cut: hung up on unread.
Unread == {"away", "waiting"}
Answering == {"asking", "importing", "refused", "answered"}
Phases == Unread \cup {"cut"} \cup Answering

Busy == \E c \in Conn : client[c] = "importing"

Init ==
  /\ demand \in BOOLEAN
  /\ server = IF demand THEN "down" ELSE "up"
  /\ client = [c \in Conn |-> "away"]

Turn(c, from, to) ==
  /\ client[c] \in from
  /\ client' = [client EXCEPT ![c] = to]
  /\ UNCHANGED <<demand, server>>

-----------------------------------------------------------------------------
Connect(c) == Turn(c, {"away", "cut"}, "waiting")

\* A kept connection sends its next request without connecting again.
Ask(c) == server = "up" /\ Turn(c, Unread, "asking")

Admit(c) == server = "up" /\ ~Busy /\ Turn(c, Unread \cup {"asking"}, "importing")

Refuse(c) == server = "up" /\ Busy /\ Turn(c, Unread \cup {"asking"}, "refused")

\* Any other answer: a bad request, a failed probe or fetch, an image without a body.
Answer(c) == server = "up" /\ Turn(c, Unread \cup {"asking", "importing"}, "answered")

\* The response is complete, or the client went away.
Finish(c) == server = "up" /\ Turn(c, Answering, "away")

\* Clients that nothing was read from leave or are hung up on.
HangUp ==
  /\ client' \in [Conn -> Phases]
  /\ \A c \in Conn :
       client'[c] # client[c] => client[c] = "waiting" /\ client'[c] \in {"away", "cut"}
  /\ UNCHANGED <<demand, server>>

Start ==
  /\ \/ server = "restarting"
     \/ server = "down" /\ demand /\ \E c \in Conn : client[c] = "waiting"
  /\ server' = "up"
  /\ UNCHANGED <<demand, client>>

Stop ==
  /\ server = "up"
  /\ \A c \in Conn : client[c] \notin Answering
  /\ server' = "down"
  /\ UNCHANGED <<demand, client>>

Crash ==
  /\ server = "up"
  /\ server' = IF demand THEN "restarting" ELSE "down"
  /\ client' \in [Conn -> Phases]
  /\ \A c \in Conn :
       /\ client[c] \in Answering => client'[c] = "away"
       /\ client'[c] # client[c] => client[c] # "cut" /\ client'[c] = "away"
  /\ UNCHANGED demand

Next ==
  \/ \E c \in Conn :
       Connect(c) \/ Ask(c) \/ Admit(c) \/ Refuse(c) \/ Answer(c) \/ Finish(c)
  \/ HangUp \/ Start \/ Stop \/ Crash

SafetySpec == Init /\ [][Next]_vars

\* Every request that was read comes to an end.
Fairness == \A c \in Conn : WF_vars(Finish(c))

Spec == SafetySpec /\ Fairness

=============================================================================
