--------------------------- MODULE WebhookOutbox ---------------------------
(***************************************************************************)
(* What outgoing webhooks promise a club and its receivers, with the runs, *)
(* their claims and leases, the retries and the clock left out: an event   *)
(* that was committed is posted until the receiver took it or has refused  *)
(* it often enough, unless its endpoint goes off first; a receiver that    *)
(* took it is not sent it again, but where the sender cannot know.         *)
(***************************************************************************)
EXTENDS Integers

CONSTANTS
  Endpoints,
  Deliveries,
  MaxAttempts   \* the refusals an event is given up after

VARIABLES
  switch,       \* by endpoint: on, off, removed
  letter,       \* by event: what became of it, where it goes and its kind
  told,         \* by event: how often the receiver took it and refused it
  doubtful      \* the events of which a sender's end or answer was lost

vars == <<switch, letter, told, doubtful>>

Kinds == {"erasure", "other"}

Init ==
  /\ switch = [e \in Endpoints |-> "on"]
  /\ letter \in [Deliveries -> [state : {"none"}, endpoint : Endpoints, event : Kinds]]
  /\ told = [d \in Deliveries |-> [accepted |-> 0, refused |-> 0]]
  /\ doubtful = {}

Moves(d, from, to) ==
  /\ letter[d].state = from
  /\ letter' = [letter EXCEPT ![d].state = to]

\* A write leaves an event, for an endpoint that is on or, if it is the erasure
\* of a client, for one that may be switched on again; then the write commits.
Write(d) ==
  /\ \/ switch[letter[d].endpoint] = "on"
     \/ letter[d].event = "erasure" /\ switch[letter[d].endpoint] # "removed"
  /\ Moves(d, "none", "open")
  /\ UNCHANGED <<switch, told, doubtful>>
Commit(d) ==
  /\ Moves(d, "open", "pending")
  /\ UNCHANGED <<switch, told, doubtful>>
Rollback(d) ==
  /\ Moves(d, "open", "gone")
  /\ UNCHANGED <<switch, told, doubtful>>

\* The receiver takes the event, once unless the sender may not know it did; or
\* refuses it.  Nothing is posted of a write that has not committed.
Written(d) == letter[d].state \notin {"none", "open"}
Take(d) ==
  /\ Written(d)
  /\ told[d].accepted = 0 \/ d \in doubtful
  /\ told' = [told EXCEPT ![d].accepted = @ + 1]
  /\ UNCHANGED <<switch, letter, doubtful>>
Refuse(d) ==
  /\ Written(d)
  /\ told' = [told EXCEPT ![d].refused = @ + 1]
  /\ UNCHANGED <<switch, letter, doubtful>>

\* It takes it and the answer is lost: to the sender a refusal.
TakeUnheard(d) ==
  /\ Written(d)
  /\ told[d].accepted = 0 \/ d \in doubtful
  /\ told' = [told EXCEPT ![d].accepted = @ + 1, ![d].refused = @ + 1]
  /\ doubtful' = doubtful \cup {d}
  /\ UNCHANGED <<switch, letter>>

\* A sender breaks off, or is too slow, with some events in its hands.
Doubt(lost) ==
  /\ doubtful' = doubtful \cup lost
  /\ UNCHANGED <<switch, letter, told>>

\* An event ends: taken, or given up after as many refusals as it may have.
Deliver(d) ==
  /\ told[d].accepted > 0
  /\ Moves(d, "pending", "delivered")
  /\ UNCHANGED <<switch, told, doubtful>>
GiveUp(d) ==
  /\ told[d].refused >= MaxAttempts
  /\ Moves(d, "pending", "failed")
  /\ UNCHANGED <<switch, told, doubtful>>

\* Endpoints go off, and in the same step all that waits for them is closed, but
\* for erasures.
SwitchOff(es) ==
  /\ \A e \in es : switch[e] = "on"
  /\ switch' = [e \in Endpoints |-> IF e \in es THEN "off" ELSE switch[e]]
  /\ letter' = [d \in Deliveries |->
       IF /\ letter[d].endpoint \in es
          /\ letter[d].state = "pending" /\ letter[d].event # "erasure"
       THEN [letter[d] EXCEPT !.state = "closed"] ELSE letter[d]]
  /\ UNCHANGED <<told, doubtful>>

SwitchOn(e) ==
  /\ switch[e] = "off"
  /\ switch' = [switch EXCEPT ![e] = "on"]
  /\ UNCHANGED <<letter, told, doubtful>>

\* The endpoint goes for good, and its log with it.
Remove(e) ==
  /\ switch[e] # "removed"
  /\ \A d \in Deliveries : letter[d].endpoint = e => letter[d].state # "open"
  /\ switch' = [switch EXCEPT ![e] = "removed"]
  /\ letter' = [d \in Deliveries |->
       IF letter[d].endpoint = e /\ letter[d].state # "none"
       THEN [letter[d] EXCEPT !.state = "gone"] ELSE letter[d]]
  /\ UNCHANGED <<told, doubtful>>

\* After its time in the log.
Prune(d) ==
  /\ \E from \in {"pending", "delivered", "failed", "closed"} : Moves(d, from, "gone")
  /\ UNCHANGED <<switch, told, doubtful>>

Next ==
  \/ \E d \in Deliveries :
       \/ Write(d) \/ Commit(d) \/ Rollback(d)
       \/ Take(d) \/ Refuse(d) \/ TakeUnheard(d)
       \/ Deliver(d) \/ GiveUp(d) \/ Prune(d)
  \/ \E lost \in SUBSET Deliveries : Doubt(lost)
  \/ \E es \in SUBSET Endpoints : SwitchOff(es)
  \/ \E e \in Endpoints : SwitchOn(e) \/ Remove(e)

Spec == Init /\ [][Next]_vars
=============================================================================
