------------------------- MODULE NotificationOutbox -------------------------
(***************************************************************************)
(* The notification outbox (notification_deliveries) and the dispatcher    *)
(* that empties it into Telegram (notification-dispatcher.ts).             *)
(*                                                                         *)
(* A delivery is written with its event.  Every tick claims the eligible   *)
(* row that has been due for longest, checks that notifications are still  *)
(* wanted, sends the message and completes the row, or puts it off after a *)
(* failure.  The dispatcher runs one tick at a time.  Faults are database  *)
(* errors, before or after the statement took effect, and crashes of the   *)
(* server; Telegram may refuse any message, or accept it and time out.     *)
(*                                                                         *)
(* next_attempt_at orders the rows that are due; the times themselves are  *)
(* left out.  A row becomes due when it is inserted or when its delay has  *)
(* passed, and goes behind all rows that are due already.                  *)
(***************************************************************************)
EXTENDS Integers, FiniteSets

CONSTANTS
  Deliveries,   \* the deliveries that can be enqueued
  GiveUp,       \* attempts at which a failure is terminal (6)
  CheckLimit,   \* the largest attempts the table's CHECK allows (10)
  MaxFaults,    \* database errors and crashes
  NoDelivery    \* the dispatcher has none in hand

ASSUME OutboxAssumption ==
  /\ GiveUp \in Nat \ {0}
  /\ CheckLimit \in Nat
  /\ GiveUp <= CheckLimit
  /\ MaxFaults \in Nat
  /\ NoDelivery \notin Deliveries

Ended    == {"succeeded", "failed", "skipped"}
Statuses == {"none", "pending", "dispatching"} \cup Ended

\* Between ticks, and the statements of dispatch still to come.
Places == {"idle", "check", "skip", "send", "complete", "retry"}

VARIABLES
  status,     \* status of each row, "none" before it exists
  attempts,   \* its attempts column
  due,        \* the rows whose next_attempt_at has come
  ahead,      \* for each row that is due, the due rows with an earlier next_attempt_at
  overdue,    \* dispatching rows claimed more than two minutes ago
  muted,      \* settings or scopes switch these notifications off
  received,   \* how many messages Telegram accepted for each delivery
  pc,         \* the dispatcher's place
  cur,        \* the delivery it is dispatching
  faults

rows == <<status, attempts, due, ahead, overdue>>
dispatcher == <<pc, cur>>
vars == <<rows, muted, received, dispatcher, faults>>

TypeOK ==
  /\ status \in [Deliveries -> Statuses]
  /\ attempts \in [Deliveries -> 0..CheckLimit]
  /\ due \subseteq Deliveries
  /\ ahead \in [Deliveries -> SUBSET Deliveries]
  /\ overdue \subseteq Deliveries
  /\ muted \in BOOLEAN
  /\ received \in [Deliveries -> Nat]
  /\ pc \in Places
  /\ cur \in Deliveries \cup {NoDelivery}
  /\ pc = "idle" <=> cur = NoDelivery
  /\ faults \in 0..MaxFaults

Init ==
  /\ status = [d \in Deliveries |-> "none"]
  /\ attempts = [d \in Deliveries |-> 0]
  /\ due = {}
  /\ ahead = [d \in Deliveries |-> {}]
  /\ overdue = {}
  /\ muted = FALSE
  /\ received = [d \in Deliveries |-> 0]
  /\ pc = "idle"
  /\ cur = NoDelivery
  /\ faults = 0

Fault   == faults < MaxFaults /\ faults' = faults + 1
NoFault == UNCHANGED faults

Idle == pc' = "idle" /\ cur' = NoDelivery

\* next_attempt_at becomes the latest, or moves into the future.
BecomesDue(d) ==
  /\ due' = due \cup {d}
  /\ ahead' = [ahead EXCEPT ![d] = due]

NoLongerDue(d) ==
  /\ due' = due \ {d}
  /\ ahead' = [e \in Deliveries |-> IF e = d THEN {} ELSE ahead[e] \ {d}]

-----------------------------------------------------------------------------
(* Events and preferences *)

\* An event is recorded with its delivery, unless notifications are off.
Enqueue(d) ==
  /\ status[d] = "none"
  /\ ~muted
  /\ status' = [status EXCEPT ![d] = "pending"]
  /\ BecomesDue(d)
  /\ UNCHANGED <<attempts, overdue, muted, received, dispatcher, faults>>

\* The scope of the agent or of the service is switched.
Switched == ~muted

\* The requests that change the preferences, or the events that are selected.
SetMuted ==
  /\ muted' = Switched
  /\ UNCHANGED <<rows, received, dispatcher, faults>>

-----------------------------------------------------------------------------
(* A tick *)

\* Mutant of Eligible: an abandoned row is never taken up again.
EligiblePending == {d \in due : status[d] = "pending"}

Eligible == {d \in due : \/ status[d] = "pending"
                         \/ status[d] = "dispatching" /\ d \in overdue}

\* The head of the line is claimed.  If the increment breaks the CHECK, the
\* statement fails and the tick ends: no other row is tried.
Claim(d) ==
  /\ pc = "idle"
  /\ d \in Eligible
  /\ ahead[d] \cap Eligible = {}
  /\ attempts[d] < CheckLimit
  /\ status' = [status EXCEPT ![d] = "dispatching"]
  /\ attempts' = [attempts EXCEPT ![d] = @ + 1]
  /\ overdue' = overdue \ {d}
  /\ pc' = "check"
  /\ cur' = d
  /\ UNCHANGED <<due, ahead, muted, received, faults>>

CheckEnabled ==
  /\ pc = "check"
  /\ \/ pc' = (IF muted THEN "skip" ELSE "send") /\ NoFault
     \/ pc' = "retry" /\ Fault
  /\ UNCHANGED <<rows, muted, received, cur>>

\* UPDATE ... WHERE status = 'dispatching': how the row ends, if it was not
\* ended before.
End(s) ==
  IF status[cur] = "dispatching"
  THEN /\ status' = [status EXCEPT ![cur] = s]
       /\ overdue' = overdue \ {cur}
       /\ NoLongerDue(cur)
       /\ UNCHANGED attempts
  ELSE UNCHANGED rows

\* The statement succeeds, or the tick goes on to the retry after an error,
\* with the statement done or not.
EndOrRetry(s) ==
  \/ End(s) /\ Idle /\ NoFault
  \/ (End(s) \/ UNCHANGED rows) /\ pc' = "retry" /\ UNCHANGED cur /\ Fault

Skip ==
  /\ pc = "skip"
  /\ EndOrRetry("skipped")
  /\ UNCHANGED <<muted, received>>

SendAccepted ==
  /\ pc = "send"
  /\ received' = [received EXCEPT ![cur] = @ + 1]
  /\ pc' = "complete"
  /\ UNCHANGED <<rows, muted, cur, faults>>

\* Accepted, but the reply is lost or the ten seconds are over.
SendUnanswered ==
  /\ pc = "send"
  /\ received' = [received EXCEPT ![cur] = @ + 1]
  /\ pc' = "retry"
  /\ UNCHANGED <<rows, muted, cur, faults>>

\* Mutant of SendRefused: the status of the response is not looked at.
SendRefusedUnchecked ==
  /\ pc = "send"
  /\ pc' = "complete"
  /\ UNCHANGED <<rows, muted, received, cur, faults>>

\* Not delivered: an HTTP error, no connection, or secrets removed meanwhile.
SendRefused ==
  /\ pc = "send"
  /\ pc' = "retry"
  /\ UNCHANGED <<rows, muted, received, cur, faults>>

Complete ==
  /\ pc = "complete"
  /\ EndOrRetry("succeeded")
  /\ UNCHANGED <<muted, received>>

\* Put off until a delay has passed, or given up.
RetryRow(terminal) == End(IF terminal THEN "failed" ELSE "pending")

\* Mutant of Terminal: one attempt too many.
TerminalLate(d) == attempts[d] > GiveUp

Terminal(d) == attempts[d] >= GiveUp

\* If the statement fails, the row stays as it is, for a later claim.
Retry ==
  /\ pc = "retry"
  /\ \/ RetryRow(Terminal(cur)) /\ NoFault
     \/ UNCHANGED rows /\ Fault
  /\ Idle
  /\ UNCHANGED <<muted, received>>

\* The server dies in the middle of a tick and starts again.
Crash ==
  /\ pc # "idle"
  /\ Idle
  /\ Fault
  /\ UNCHANGED <<rows, muted, received>>

-----------------------------------------------------------------------------
(* Time *)

DelayPasses(d) ==
  /\ status[d] = "pending"
  /\ d \notin due
  /\ BecomesDue(d)
  /\ UNCHANGED <<status, attempts, overdue, muted, received, dispatcher, faults>>

BecomesOverdue(d) ==
  /\ status[d] = "dispatching"
  /\ d \notin overdue
  /\ overdue' = overdue \cup {d}
  /\ UNCHANGED <<status, attempts, due, ahead, muted, received, dispatcher, faults>>

-----------------------------------------------------------------------------

Tick ==
  \/ \E d \in Deliveries : Claim(d)
  \/ CheckEnabled \/ Skip \/ SendAccepted \/ SendUnanswered \/ SendRefused \/ Complete \/ Retry

Time(d) == DelayPasses(d) \/ BecomesOverdue(d)

Next ==
  \/ Tick
  \/ Crash
  \/ SetMuted
  \/ \E d \in Deliveries : Enqueue(d) \/ Time(d)

Spec == Init /\ [][Next]_vars

\* The dispatcher's timer fires again and again and time passes.  Nothing is
\* assumed of Telegram, which may refuse every message.
Fairness == WF_vars(Tick) /\ \A d \in Deliveries : WF_vars(Time(d))

FairSpec == Spec /\ Fairness

-----------------------------------------------------------------------------
(* Properties *)

\* A delivery recorded as succeeded was accepted by Telegram, and Telegram was
\* never asked more often than the attempts column counts: no crash, lost reply
\* or late statement makes up a success or hides a message
\* (NotificationDispatcher.dispatch, completeNotificationDelivery).
SuccessWasReceived == \A d \in Deliveries :
  /\ status[d] = "succeeded" => received[d] >= 1
  /\ received[d] <= attempts[d]

\* Retries are bounded: a row waiting for a retry has attempts left, one that
\* was given up has used them, and only faults carry a row past GiveUp, each by
\* one attempt (dispatch, claimNotificationDelivery).
AttemptsAreAccounted == \A d \in Deliveries :
  /\ status[d] = "pending" => attempts[d] < GiveUp
  /\ status[d] = "failed" => attempts[d] >= GiveUp
  /\ attempts[d] <= GiveUp + faults

\* No row stops the line: whatever a tick may claim, the increment does not
\* break CHECK (attempts <= 10), which would fail every later tick too.
LineIsOpen == pc = "idle" => \A d \in Eligible : attempts[d] < CheckLimit

\* A delivery that ended stays as it is and is not sent again, though its
\* dispatcher may still retry it after a lost reply of the database ("WHERE
\* status = 'dispatching'").
EndIsFinal == [][
  \A d \in Deliveries : status[d] \in Ended =>
    status'[d] = status[d] /\ received'[d] = received[d] /\ attempts'[d] = attempts[d]]_vars

\* Every delivery ends, whatever Telegram answers ("a durable outbox with
\* bounded retries", README.md), as long as there are few enough faults.
EveryDeliveryEnds == \A d \in Deliveries :
  status[d] = "pending" ~> status[d] \in Ended

-----------------------------------------------------------------------------
(* The inductive invariant behind the safety properties *)

\* What the dispatcher knows of its delivery at each place.
PlaceOK ==
  /\ pc \in {"check", "skip", "send", "complete"} => status[cur] = "dispatching"
  /\ pc \in {"check", "send"} => received[cur] < attempts[cur]
  /\ pc = "complete" => received[cur] >= 1

\* A dispatching row that nobody works on was abandoned by a fault, which its
\* attempts have not been charged for yet.
RowOK(d) ==
  /\ status[d] = "none" => attempts[d] = 0
  /\ status[d] = "dispatching" /\ cur # d => attempts[d] < GiveUp + faults

IInv ==
  /\ TypeOK
  /\ PlaceOK
  /\ \A d \in Deliveries : RowOK(d)
  /\ SuccessWasReceived
  /\ AttemptsAreAccounted
=============================================================================
