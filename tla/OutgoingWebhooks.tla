-------------------------- MODULE OutgoingWebhooks --------------------------
(***************************************************************************)
(* Outgoing webhooks: the events a club's writes leave for its endpoints,  *)
(* the runs of the worker that claim, post and settle them, and the office *)
(* that turns endpoints off and on.                                        *)
(*                                                                         *)
(* Grain.  A claim, each of the two statements of a settlement and the     *)
(* closing of failing endpoints are one step each: none shares a           *)
(* transaction with another.  A write that queues an event is two steps,   *)
(* for the endpoint it has read may be disabled before it commits.  Time   *)
(* is what comes due: next_attempt_at has passed (due) or not.             *)
(***************************************************************************)
EXTENDS Integers, FiniteSets

CONSTANTS
  Endpoints,    \* club_webhook_endpoints, each of a club of its own
  Deliveries,   \* club_webhook_deliveries; a change told to two endpoints is
                \* two changes here
  Workers,      \* runs of the job that may be under way at once
  MaxAttempts,  \* WEBHOOK_MAX_ATTEMPTS
  Batch,        \* BATCH: the rows of one claim
  PerEndpoint,  \* PER_ENDPOINT: those of one endpoint among them
  MaxUpsets     \* bound: how often anything that calls Upset happens

ASSUME WorkersAssumption == IsFiniteSet(Workers)
ASSUME AttemptsAssumption == MaxAttempts \in Nat \ {0}
ASSUME BatchAssumption == Batch \in Nat \ {0} /\ PerEndpoint \in Nat \ {0}
ASSUME UpsetsAssumption == MaxUpsets \in Nat

VARIABLES
  endpoint,     \* club_webhook_endpoints: disabled_reason, failing_since
  served,       \* endpoints whose club has the tier and operates
  row,          \* club_webhook_deliveries
  due,          \* the pending rows whose next_attempt_at has passed
  hand,         \* by run and row: where the run is with the row it claimed
  phase,        \* by run: idle, sending, closing
  upsets,       \* counts towards MaxUpsets
  posted,       \* history: how often a row's post was accepted and refused
  excused,      \* history: rows whose lease ran out, answer or sender was lost
  overlapped    \* history: rows not yet committed when their endpoint went off

rowVars == <<row, due>>
jobVars == <<hand, phase>>
pastVars == <<posted, excused, overlapped>>
vars == <<endpoint, served, rowVars, jobVars, upsets, pastVars>>

---------------------------------------------------------------------------
(* The tables and the runs.                                                *)

\* "manual" and "failing" are why an endpoint is disabled; failing_since is null,
\* or within WEBHOOK_DISABLE_AFTER_DAYS, or longer ago.
States == {"live", "manual", "failing", "removed"}
EndpointRows == [state : States, since : {"none", "recent", "long"}]

\* member.deleted, and any other event.
Events == {"erasure", "other"}

\* Beside the table's states: a row not yet written, one whose transaction is
\* open, one closed with its endpoint ('failed', endpoint_disabled), one deleted.
DeliveryRows == [state : {"none", "open", "pending", "delivered", "failed", "closed", "gone"},
                 endpoint : Endpoints, event : Events, attempts : Nat]

\* What a run knows of a row it claimed, and where it is with it: to be posted,
\* posted, or written to the row and not yet to the endpoint.
Stages == {"none", "claimed", "accepted", "refused", "good", "bad"}
Claims == [at : Stages, attempts : Nat]
NoClaim == [at |-> "none", attempts |-> 0]
Held(w) == {d \in Deliveries : hand[w][d].at # "none"}

Init ==
  /\ endpoint = [e \in Endpoints |-> [state |-> "live", since |-> "none"]]
  /\ served = Endpoints
  /\ row \in [Deliveries -> [state : {"none"}, endpoint : Endpoints, event : Events,
                             attempts : {0}]]
  /\ due = {}
  /\ hand = [w \in Workers |-> [d \in Deliveries |-> NoClaim]]
  /\ phase = [w \in Workers |-> "idle"]
  /\ upsets = 0
  /\ posted = [d \in Deliveries |-> [accepted |-> 0, refused |-> 0]]
  /\ excused = {}
  /\ overlapped = {}

Upset == upsets < MaxUpsets /\ upsets' = upsets + 1

---------------------------------------------------------------------------
(* A write in the club queues its event (a trigger), to a live endpoint or, *)
(* where a client's record was erased, to a disabled one as well.          *)

\* (Mutant: the event is there before the write commits.)
Enqueue_AtOnce(d) ==
  /\ row[d].state = "none"
  /\ endpoint[row[d].endpoint].state = "live"
  /\ row' = [row EXCEPT ![d].state = "open"]
  /\ due' = due \cup {d}
  /\ UNCHANGED <<endpoint, served, jobVars, upsets, pastVars>>

Enqueue(d) ==
  /\ row[d].state = "none"
  /\ \/ endpoint[row[d].endpoint].state = "live"
     \/ row[d].event = "erasure" /\ endpoint[row[d].endpoint].state # "removed"
  /\ row' = [row EXCEPT ![d].state = "open"]
  /\ UNCHANGED <<endpoint, served, due, jobVars, upsets, pastVars>>

Commit(d) ==
  /\ row[d].state = "open"
  /\ row' = [row EXCEPT ![d].state = "pending"]
  /\ due' = due \cup {d}
  /\ UNCHANGED <<endpoint, served, jobVars, upsets, pastVars>>

Rollback(d) ==
  /\ row[d].state = "open"
  /\ row' = [row EXCEPT ![d].state = "gone"]
  /\ UNCHANGED <<endpoint, served, due, jobVars, upsets, pastVars>>

---------------------------------------------------------------------------
(* A run of the job.                                                       *)

\* (Mutant: a row is not claimed for its last attempt.)
Claimable_NoLastTry == {d \in due : /\ endpoint[row[d].endpoint].state = "live"
                                    /\ row[d].endpoint \in served
                                    /\ row[d].attempts + 1 < MaxAttempts}

Claimable == {d \in due : /\ endpoint[row[d].endpoint].state = "live"
                          /\ row[d].endpoint \in served}

\* As many as the batch takes and no endpoint more than its share.
Share(s) ==
  /\ Cardinality(s) <= Batch
  /\ \A e \in Endpoints : Cardinality({d \in s : row[d].endpoint = e}) <= PerEndpoint
Batches == {s \in SUBSET Claimable :
              Share(s) /\ \A d \in Claimable \ s : ~Share(s \cup {d})}

\* (Mutant: the claimed rows stay due.)
ClaimWebhookDeliveries_NoLease(w) ==
  /\ phase[w] \in {"idle", "sending"} /\ Held(w) = {}
  /\ \E s \in Batches \ {{}} :
       /\ hand' = [hand EXCEPT ![w] = [d \in Deliveries |->
            IF d \in s THEN [at |-> "claimed", attempts |-> row[d].attempts] ELSE NoClaim]]
       /\ phase' = [phase EXCEPT ![w] = IF Cardinality(s) < Batch THEN "closing" ELSE "sending"]
  /\ UNCHANGED <<endpoint, served, rowVars, upsets, pastVars>>

\* A claim moves next_attempt_at ahead by the lease.  After a full one the run
\* claims again (at most BATCHES times), after any other it goes on to close.
ClaimWebhookDeliveries(w) ==
  /\ phase[w] \in {"idle", "sending"} /\ Held(w) = {}
  /\ \E s \in Batches \ {{}} :
       /\ due' = due \ s
       /\ hand' = [hand EXCEPT ![w] = [d \in Deliveries |->
            IF d \in s THEN [at |-> "claimed", attempts |-> row[d].attempts] ELSE NoClaim]]
       /\ phase' = [phase EXCEPT ![w] = IF Cardinality(s) < Batch THEN "closing" ELSE "sending"]
  /\ UNCHANGED <<endpoint, served, row, upsets, pastVars>>

LastBatch(w) ==
  /\ phase[w] = "sending" /\ Held(w) = {}
  /\ phase' = [phase EXCEPT ![w] = "closing"]
  /\ UNCHANGED <<endpoint, served, rowVars, hand, upsets, pastVars>>

Answer(w, d, at) ==
  /\ hand[w][d].at = "claimed"
  /\ hand' = [hand EXCEPT ![w][d].at = at]
  /\ UNCHANGED <<endpoint, served, rowVars, phase, overlapped>>

\* The receiver takes the event, refuses it or cannot be reached; or takes it and
\* its answer is lost.
PostAccepted(w, d) ==
  /\ Answer(w, d, "accepted")
  /\ posted' = [posted EXCEPT ![d].accepted = @ + 1]
  /\ UNCHANGED <<upsets, excused>>
PostRefused(w, d) ==
  /\ Answer(w, d, "refused")
  /\ posted' = [posted EXCEPT ![d].refused = @ + 1]
  /\ UNCHANGED <<upsets, excused>>
AnswerLost(w, d) ==
  /\ Upset
  /\ Answer(w, d, "refused")
  /\ posted' = [posted EXCEPT ![d].accepted = @ + 1, ![d].refused = @ + 1]
  /\ excused' = excused \cup {d}

\* (Mutant: the attempt just made is counted twice.)
GivesUp_CountsTwice(attempts) == attempts + 2 >= MaxAttempts

\* webhookRetryAfterSeconds of the attempts read with the claim: none is left.
GivesUp(attempts) == attempts + 1 >= MaxAttempts

\* (Mutant: whatever the row has become meanwhile.)
SettleDelivery_AnyState(w, d) ==
  /\ hand[w][d].at \in {"accepted", "refused"}
  /\ LET ok == hand[w][d].at = "accepted"
         end == IF ok THEN "delivered" ELSE IF GivesUp(hand[w][d].attempts) THEN "failed" ELSE "pending"
     IN  /\ hand' = [hand EXCEPT ![w][d].at = IF ok THEN "good" ELSE "bad"]
         /\ row' = [row EXCEPT ![d].state = end, ![d].attempts = @ + 1]
         /\ due' = due \ {d}
  /\ UNCHANGED <<endpoint, served, phase, upsets, pastVars>>

\* settleWebhookDelivery, its first statement: only a row still pending changes.
SettleDelivery(w, d) ==
  /\ hand[w][d].at \in {"accepted", "refused"}
  /\ LET ok == hand[w][d].at = "accepted"
         end == IF ok THEN "delivered" ELSE IF GivesUp(hand[w][d].attempts) THEN "failed" ELSE "pending"
     IN  /\ hand' = [hand EXCEPT ![w][d].at = IF ok THEN "good" ELSE "bad"]
         /\ IF row[d].state = "pending"
            THEN /\ row' = [row EXCEPT ![d].state = end, ![d].attempts = @ + 1]
                 /\ due' = due \ {d}
            ELSE UNCHANGED rowVars
  /\ UNCHANGED <<endpoint, served, phase, upsets, pastVars>>

\* Its second, the endpoint's health.
SettleEndpoint(w, d) ==
  /\ hand[w][d].at \in {"good", "bad"}
  /\ hand' = [hand EXCEPT ![w][d] = NoClaim]
  /\ endpoint' = [endpoint EXCEPT ![row[d].endpoint].since =
                    IF hand[w][d].at = "good" THEN "none" ELSE IF @ = "none" THEN "recent" ELSE @]
  /\ UNCHANGED <<served, rowVars, phase, upsets, pastVars>>

\* (Mutant: only what is due is closed, not what is claimed or waits for a retry.)
GoesOff_OnlyDue(es, reason) ==
  LET on(d) == row[d].endpoint \in es
      closes == {d \in due : on(d) /\ row[d].event # "erasure"}
  IN  /\ endpoint' = [e \in Endpoints |->
                        IF e \in es THEN [endpoint[e] EXCEPT !.state = reason] ELSE endpoint[e]]
      /\ row' = [d \in Deliveries |->
                   IF d \in closes THEN [row[d] EXCEPT !.state = "closed"] ELSE row[d]]
      /\ due' = due \ closes
      /\ overlapped' = overlapped \cup {d \in Deliveries : on(d) /\ row[d].state = "open"}

\* Endpoints go off: what waits for them is closed, but for erasures.  What is
\* not committed yet is not seen.
GoesOff(es, reason) ==
  LET on(d) == row[d].endpoint \in es
      closes == {d \in Deliveries : on(d) /\ row[d].state = "pending" /\ row[d].event # "erasure"}
  IN  /\ endpoint' = [e \in Endpoints |->
                        IF e \in es THEN [endpoint[e] EXCEPT !.state = reason] ELSE endpoint[e]]
      /\ row' = [d \in Deliveries |->
                   IF d \in closes THEN [row[d] EXCEPT !.state = "closed"] ELSE row[d]]
      /\ due' = due \ closes
      /\ overlapped' = overlapped \cup {d \in Deliveries : on(d) /\ row[d].state = "open"}

\* Failing for WEBHOOK_DISABLE_AFTER_DAYS, whether or not its club is served.
Failing == {e \in Endpoints : endpoint[e].state = "live" /\ endpoint[e].since = "long"}

\* The last thing a run does, the only one where nothing was due.
DisableFailingEndpoints(w) ==
  /\ Held(w) = {}
  /\ phase[w] = "closing" \/ (phase[w] = "idle" /\ Claimable = {} /\ Failing # {})
  /\ phase' = [phase EXCEPT ![w] = "idle"]
  /\ GoesOff(Failing, "failing")
  /\ UNCHANGED <<served, hand, upsets, posted, excused>>

\* A run dies with all it holds; or one of its statements fails, which ends the
\* run but not the posts that are under way beside it.
RunFails(w) ==
  /\ Upset
  /\ \E lost \in SUBSET Held(w) \ {{}} :
       /\ hand' = [hand EXCEPT ![w] = [d \in Deliveries |->
                                         IF d \in lost THEN NoClaim ELSE hand[w][d]]]
       /\ excused' = excused \cup lost
       /\ phase' = [phase EXCEPT ![w] = "idle"]
  /\ UNCHANGED <<endpoint, served, rowVars, posted, overlapped>>

---------------------------------------------------------------------------
(* Time.                                                                   *)

\* A lease or a wait ends.  Of a row that a run still holds, the lease was too
\* short: a batch takes a third of it, but a run may be held up.
ComesDue(d) ==
  /\ row[d].state = "pending" /\ d \notin due
  /\ due' = due \cup {d}
  /\ IF \E w \in Workers : d \in Held(w)
     THEN Upset /\ excused' = excused \cup {d}
     ELSE UNCHANGED <<upsets, excused>>
  /\ UNCHANGED <<endpoint, served, row, jobVars, posted, overlapped>>

ThreeDays(e) ==
  /\ endpoint[e].since = "recent"
  /\ endpoint' = [endpoint EXCEPT ![e].since = "long"]
  /\ UNCHANGED <<served, rowVars, jobVars, upsets, pastVars>>

\* After 30 days, whatever became of it.
PruneClubIntegrations(d) ==
  /\ row[d].state \in {"pending", "delivered", "failed", "closed"}
  /\ Upset
  /\ row' = [row EXCEPT ![d].state = "gone"]
  /\ due' = due \ {d}
  /\ UNCHANGED <<endpoint, served, jobVars, pastVars>>

---------------------------------------------------------------------------
(* The office.                                                             *)

DisableWebhookEndpoint(e) ==
  /\ endpoint[e].state = "live"
  /\ Upset
  /\ GoesOff({e}, "manual")
  /\ UNCHANGED <<served, jobVars, posted, excused>>

EnableWebhookEndpoint(e) ==
  /\ endpoint[e].state \in {"manual", "failing"}
  /\ e \in served
  /\ Upset
  /\ endpoint' = [endpoint EXCEPT ![e] = [state |-> "live", since |-> "none"]]
  /\ UNCHANGED <<served, rowVars, jobVars, pastVars>>

\* Its log goes with it; a write in flight is waited for.
RemoveWebhookEndpoint(e) ==
  /\ endpoint[e].state # "removed"
  /\ \A d \in Deliveries : row[d].endpoint = e => row[d].state # "open"
  /\ Upset
  /\ LET log == {d \in Deliveries : row[d].endpoint = e /\ row[d].state # "none"}
     IN  /\ row' = [d \in Deliveries |->
                      IF d \in log THEN [row[d] EXCEPT !.state = "gone"] ELSE row[d]]
         /\ due' = due \ log
  /\ endpoint' = [endpoint EXCEPT ![e].state = "removed"]
  /\ UNCHANGED <<served, jobVars, pastVars>>

\* The club's tier or its paid time ends, or is back.
ClubServed(e) ==
  /\ Upset
  /\ served' = IF e \in served THEN served \ {e} ELSE served \cup {e}
  /\ UNCHANGED <<endpoint, rowVars, jobVars, pastVars>>

---------------------------------------------------------------------------

RowStep(w, d) ==
  \/ PostAccepted(w, d) \/ PostRefused(w, d) \/ AnswerLost(w, d)
  \/ SettleDelivery(w, d) \/ SettleEndpoint(w, d)
RunStep(w) ==
  \/ ClaimWebhookDeliveries(w) \/ LastBatch(w) \/ DisableFailingEndpoints(w)
  \/ \E d \in Deliveries : RowStep(w, d)

Next ==
  \/ \E d \in Deliveries : Enqueue(d) \/ Commit(d) \/ Rollback(d) \/ ComesDue(d)
                           \/ PruneClubIntegrations(d)
  \/ \E w \in Workers : RunStep(w) \/ RunFails(w)
  \/ \E e \in Endpoints : ThreeDays(e) \/ DisableWebhookEndpoint(e) \/ EnableWebhookEndpoint(e)
                          \/ RemoveWebhookEndpoint(e) \/ ClubServed(e)

\* The job runs every minute, a run goes on as long as it lives, and time passes.
Fairness ==
  /\ \A w \in Workers : WF_vars(RunStep(w))
  /\ \A d \in Deliveries : WF_vars(ComesDue(d))

Spec == Init /\ [][Next]_vars
FairSpec == Spec /\ Fairness

---------------------------------------------------------------------------
(* Properties.                                                             *)

\* Every column and local has its type; only pending rows come due.
TypeOK ==
  /\ endpoint \in [Endpoints -> EndpointRows]
  /\ served \subseteq Endpoints
  /\ row \in [Deliveries -> DeliveryRows]
  /\ due \subseteq {d \in Deliveries : row[d].state = "pending"}
  /\ hand \in [Workers -> [Deliveries -> Claims]]
  /\ phase \in [Workers -> {"idle", "sending", "closing"}]
  /\ upsets \in 0..MaxUpsets
  /\ posted \in [Deliveries -> [accepted : Nat, refused : Nat]]
  /\ excused \subseteq Deliveries
  /\ overlapped \subseteq Deliveries

\* An event is given up only after WEBHOOK_MAX_ATTEMPTS posts that failed, although
\* the count is read with the claim and two runs may hold the row; an erasure is
\* lost to nothing else.
GivenUpHonestly ==
  \A d \in Deliveries :
    row[d].state = "failed" \/ (row[d].state = "closed" /\ row[d].event = "erasure")
      => posted[d].refused >= MaxAttempts

\* A receiver that took an event and said so is not sent it again, unless a lease
\* ran out under its sender, an answer was lost or a run broke off.
AcceptedOnce == \A d \in Deliveries : posted[d].accepted <= 1 \/ d \in excused

\* What waited for an endpoint when it went off is closed: enabling it replays no
\* stale event, but for those whose write was under way at that moment.
NoStaleBacklog ==
  \A d \in Deliveries :
    row[d].state = "pending" /\ endpoint[row[d].endpoint].state # "live"
      => row[d].event = "erasure" \/ d \in overlapped

\* What a delivery became it stays, whoever settles it later.
SettledStays ==
  [][\A d \in Deliveries :
       row[d].state \in {"delivered", "failed", "closed"} => row[d]' = row[d] \/ row[d].state' = "gone"]_vars

\* Every event queued for an endpoint that stays on is delivered or given up,
\* whatever happens to the runs on the way.
EventSettles ==
  \A d \in Deliveries :
    row[d].state = "pending"
      ~> \/ row[d].state # "pending"
         \/ row[d].endpoint \notin served \/ endpoint[row[d].endpoint].state # "live"

---------------------------------------------------------------------------
(* The promise kept: runs that overlap, die and repeat themselves look to   *)
(* the club and its receivers like one sender (WebhookOutbox).              *)

Switches == [e \in Endpoints |->
               IF endpoint[e].state \in {"live", "removed"}
               THEN IF endpoint[e].state = "live" THEN "on" ELSE "removed" ELSE "off"]
Letters == [d \in Deliveries |->
              [state |-> row[d].state, endpoint |-> row[d].endpoint, event |-> row[d].event]]

Outbox == INSTANCE WebhookOutbox WITH
            switch <- Switches, letter <- Letters,
            told <- posted, doubtful <- excused

\* Whatever the runs do, each event goes the way of the outbox: it is posted once
\* committed, taken once but where it is in doubt, ends as delivered only if it
\* was taken and as failed only after its refusals, and is closed with its
\* endpoint in one step.
KeepsOutbox == Outbox!Spec
=============================================================================
