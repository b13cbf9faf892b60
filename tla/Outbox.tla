-------------------------------- MODULE Outbox --------------------------------
(***************************************************************************)
(* What publish() promises of the messages given to it: a message is sent  *)
(* at once or queued, a queued message leaves in the order in which it was *)
(* accepted, and what has become of a message never changes again, unless  *)
(* publish() is given the same message once more.                          *)
(***************************************************************************)
EXTENDS Sequences

CONSTANTS
  Msgs,
  Republish  \* whether a message may be given to publish() more than once

VARIABLES
  pending,  \* the messages accepted and not disposed of, oldest first
  fate      \* what has become of each message

Outcome == {"sent", "failed", "dropped"}

Init ==
  /\ pending = <<>>
  /\ fate = [m \in Msgs |-> "fresh"]

\* publish() queues the message.
Accept(m) ==
  /\ fate[m] = "fresh"
  /\ fate' = [fate EXCEPT ![m] = "queued"]
  /\ pending' = Append(pending, m)

\* publish() sends the message itself, and tells its caller the outcome.
Direct(m) ==
  /\ fate[m] = "fresh"
  /\ \E o \in {"sent", "failed"} : fate' = [fate EXCEPT ![m] = o]
  /\ UNCHANGED pending

\* publish() is given a message that has been disposed of.
GiveAgain(m) ==
  /\ Republish /\ fate[m] \in Outcome
  /\ fate' = [fate EXCEPT ![m] = "fresh"]
  /\ UNCHANGED pending

\* The oldest pending message is disposed of.
Settle ==
  /\ pending # <<>>
  /\ \E o \in Outcome : fate' = [fate EXCEPT ![Head(pending)] = o]
  /\ pending' = Tail(pending)

Next == Settle \/ \E m \in Msgs : Accept(m) \/ Direct(m) \/ GiveAgain(m)

Spec == Init /\ [][Next]_<<pending, fate>>
=============================================================================
