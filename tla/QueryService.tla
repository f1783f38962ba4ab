---------------------------- MODULE QueryService ----------------------------
(***************************************************************************)
(* What a ServerQuery connection promises to the code that awaits          *)
(* command(): a call either fails, and then says nothing about what the    *)
(* TeamSpeak server did, or it returns the verdict the server reached when *)
(* it executed that very command, once.                                    *)
(***************************************************************************)

CONSTANTS
  Cmds,      \* calls of command(), one element per call
  Verdicts   \* what the error line of a response can say

VARIABLES
  status,    \* status[c]: the promise of call c, as its caller sees it
  executed   \* executed[c]: the verdict of each execution of c, "none" before

Outcomes == Verdicts \cup {"none"}

svars == <<status, executed>>

ServiceType ==
  /\ status \in [Cmds -> {"idle", "pending", "failed"} \cup Verdicts]
  /\ executed \in [Cmds -> Outcomes]

Init ==
  /\ status = [c \in Cmds |-> "idle"]
  /\ executed = [c \in Cmds |-> "none"]

\* A caller issues command c.
Submit(c) ==
  /\ status[c] = "idle"
  /\ status' = [status EXCEPT ![c] = "pending"]
  /\ UNCHANGED executed

\* The server executes c. The caller may have given up already.
Execute(c, v) ==
  /\ status[c] \in {"pending", "failed"}
  /\ executed[c] = "none"
  /\ executed' = [executed EXCEPT ![c] = v]
  /\ UNCHANGED status

\* The caller receives the verdict of the execution of its own command.
Answer(c) ==
  /\ status[c] = "pending"
  /\ executed[c] # "none"
  /\ status' = [status EXCEPT ![c] = executed[c]]
  /\ UNCHANGED executed

\* A group of calls fails together: a timeout or a lost connection fails
\* everything queued behind the command that met it.
Fail(S) ==
  /\ \A c \in S : status[c] \in {"idle", "pending"}
  /\ status' = [c \in Cmds |-> IF c \in S THEN "failed" ELSE status[c]]
  /\ UNCHANGED executed

Next ==
  \/ \E c \in Cmds : Submit(c) \/ Answer(c)
  \/ \E c \in Cmds, v \in Verdicts : Execute(c, v)
  \/ \E S \in SUBSET Cmds : Fail(S)

Spec == Init /\ [][Next]_svars
=============================================================================
