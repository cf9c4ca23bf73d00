------------------------ MODULE AtMostOnceSubmission ------------------------
(***************************************************************************)
(* What a message outbox promises in front of a provider that does not     *)
(* recognise repetitions: a message is handed over only while no earlier   *)
(* hand-over may have been accepted, and it is recorded as delivered or as *)
(* undelivered only when that is the truth and can no longer change.       *)
(*                                                                         *)
(* A request is refused, accepted, or lost on the way; an accepted message *)
(* is delivered or fails at the provider's own time.                       *)
(***************************************************************************)
EXTENDS Naturals

CONSTANT Messages

VARIABLES
  provider,  \* requests under way and accepted, and what became of the message
  outcome    \* what is recorded: "open", "delivered" or "undelivered"

vars == <<provider, outcome>>

ProviderStatuses == {"none", "running", "succeeded", "failed"}

ProviderType == [offered : Nat, accepted : Nat, status : ProviderStatuses]

Untouched == [offered |-> 0, accepted |-> 0, status |-> "none"]

Init ==
  /\ provider = [m \in Messages |-> Untouched]
  /\ outcome = [m \in Messages |-> "open"]

Offer(m) ==
  /\ outcome[m] = "open"
  /\ provider[m].offered = 0 /\ provider[m].accepted = 0
  /\ provider' = [provider EXCEPT ![m].offered = 1]
  /\ UNCHANGED outcome

Refuse(m) ==
  /\ provider[m].offered = 1
  /\ provider' = [provider EXCEPT ![m].offered = 0]
  /\ UNCHANGED outcome

Accept(m) ==
  /\ provider[m].offered = 1
  /\ provider' = [provider EXCEPT ![m] = [offered |-> 0, accepted |-> 1, status |-> "running"]]
  /\ UNCHANGED outcome

Finish(m) ==
  /\ provider[m].status = "running"
  /\ \E s \in {"succeeded", "failed"} : provider' = [provider EXCEPT ![m].status = s]
  /\ UNCHANGED outcome

RecordDelivered(m) ==
  /\ outcome[m] = "open"
  /\ provider[m].status = "succeeded"
  /\ outcome' = [outcome EXCEPT ![m] = "delivered"]
  /\ UNCHANGED provider

RecordUndelivered(m) ==
  /\ outcome[m] = "open"
  /\ provider[m].offered = 0 /\ provider[m].status \in {"none", "failed"}
  /\ outcome' = [outcome EXCEPT ![m] = "undelivered"]
  /\ UNCHANGED provider

Next ==
  \E m \in Messages :
    Offer(m) \/ Refuse(m) \/ Accept(m) \/ Finish(m) \/ RecordDelivered(m) \/ RecordUndelivered(m)

Spec == Init /\ [][Next]_vars
=============================================================================
