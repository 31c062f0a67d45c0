-------------------------- MODULE CommandContract ---------------------------
(***************************************************************************)
(* What the command queue and the agent together promise of each command,  *)
(* with no queue, lease, journal or network: it is executed at most once,  *)
(* its verdict is given once, and it is only declared succeeded when its   *)
(* execution has succeeded.  A command may be declared failed at any time  *)
(* (the result was lost, the window closed), and an execution that a crash *)
(* cuts short stays "running" for ever: it is never started again.         *)
(***************************************************************************)
CONSTANT Commands

VARIABLES
  execution,   \* of each command: not started, running, or how it ended
  verdict      \* of each command: open, or what the control plane declared

contractVars == <<execution, verdict>>

ContractTypeOK ==
  /\ execution \in [Commands -> {"not", "running", "ok", "failed"}]
  /\ verdict \in [Commands -> {"open", "succeeded", "failed"}]

Init ==
  /\ execution = [c \in Commands |-> "not"]
  /\ verdict = [c \in Commands |-> "open"]

Start(c) ==
  /\ execution[c] = "not"
  /\ execution' = [execution EXCEPT ![c] = "running"]
  /\ UNCHANGED verdict

Finish(c, o) ==
  /\ execution[c] = "running"
  /\ execution' = [execution EXCEPT ![c] = o]
  /\ UNCHANGED verdict

DeclareSucceeded(c) ==
  /\ verdict[c] = "open"
  /\ execution[c] = "ok"
  /\ verdict' = [verdict EXCEPT ![c] = "succeeded"]
  /\ UNCHANGED execution

DeclareFailed(S) ==
  /\ \A c \in S : verdict[c] = "open"
  /\ verdict' = [c \in Commands |-> IF c \in S THEN "failed" ELSE verdict[c]]
  /\ UNCHANGED execution

Next ==
  \/ \E c \in Commands :
       \/ Start(c)
       \/ \E o \in {"ok", "failed"} : Finish(c, o)
       \/ DeclareSucceeded(c)
  \/ \E S \in SUBSET Commands : DeclareFailed(S)

Spec == Init /\ [][Next]_contractVars
=============================================================================
