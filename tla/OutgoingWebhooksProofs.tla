---------------------- MODULE OutgoingWebhooksProofs ----------------------
(***************************************************************************)
(* Proofs about OutgoingWebhooks, for any endpoints, deliveries, number of *)
(* attempts and any finite set of runs.                                    *)
(***************************************************************************)
EXTENDS OutgoingWebhooks, FiniteSetTheorems, TLAPS

USE DEF rowVars, jobVars, pastVars

---------------------------------------------------------------------------
(* The inductive invariant.                                                *)

\* What waits, or is about to, for an endpoint that is off is an erasure or was
\* not yet committed when it went off.
Backlog ==
  \A d \in Deliveries :
    row[d].state \in {"open", "pending"} /\ endpoint[row[d].endpoint].state # "live"
      => row[d].event = "erasure" \/ d \in overlapped

\* A row not yet committed counts no attempt and no run has it.
Unwritten(d) ==
  row[d].state \in {"none", "open"} =>
    row[d].attempts = 0 /\ \A w \in Workers : hand[w][d].at = "none"

\* An unsettled row counts no more attempts than its posts that failed, even when
\* the failures its runs have not written yet are added.
Unsettled(d) == row[d].state \in {"none", "open", "pending"}
Failures(d) == {w \in Workers : hand[w][d].at = "refused"}
Counted(d) ==
  Unsettled(d) => row[d].attempts + Cardinality(Failures(d)) <= posted[d].refused

\* Nor does what a run read with its claim, whatever the row has counted since.
ReadHonestly(d) ==
  \A w \in Workers :
    /\ hand[w][d].at = "claimed" => hand[w][d].attempts <= posted[d].refused
    /\ hand[w][d].at = "refused" => hand[w][d].attempts + 1 <= posted[d].refused

\* What is given up failed often enough, and no erasure is closed with its endpoint.
EndedHonestly(d) ==
  /\ row[d].state = "failed" => posted[d].refused >= MaxAttempts
  /\ row[d].state = "closed" => row[d].event # "erasure"

\* Unless excused, a row is held by one run, is not due while it is, was not
\* accepted before the run posts it, and once accepted it is settled or its run
\* is about to say so.
HeldOnce(d) ==
  /\ \A v, w \in Workers : hand[v][d].at # "none" /\ hand[w][d].at # "none" => v = w
  /\ \A w \in Workers : hand[w][d].at # "none" => d \notin due
NotYet(d) == \A w \in Workers : hand[w][d].at = "claimed" => posted[d].accepted = 0
Taken(d) ==
  posted[d].accepted > 0 =>
    /\ posted[d].accepted = 1
    /\ ~Unsettled(d) \/ \E w \in Workers : hand[w][d].at = "accepted"
Leased(d) == d \notin excused => HeldOnce(d) /\ NotYet(d) /\ Taken(d)

\* The conjunction, which every step keeps.
RowSafe(d) == Unwritten(d) /\ Counted(d) /\ ReadHonestly(d) /\ EndedHonestly(d) /\ Leased(d)
WInv == TypeOK /\ Backlog /\ \A d \in Deliveries : RowSafe(d)

---------------------------------------------------------------------------
(* What a step does to one row and to what a run holds of it.              *)

\* A step that writes one place of a run's hand leaves the others.
LEMMA OneClaim ==
  ASSUME TypeOK, NEW w \in Workers, NEW d \in Deliveries, NEW c \in Claims,
         hand' = [hand EXCEPT ![w][d] = c]
  PROVE  /\ hand' \in [Workers -> [Deliveries -> Claims]]
         /\ \A v \in Workers, b \in Deliveries :
              hand'[v][b] = IF v = w /\ b = d THEN c ELSE hand[v][b]
  BY DEF TypeOK

\* A post moves the claim to its answer and leaves what it read.
LEMMA AnswerEffect ==
  ASSUME TypeOK, NEW w \in Workers, NEW d \in Deliveries, NEW at \in Stages, Answer(w, d, at)
  PROVE  /\ hand' \in [Workers -> [Deliveries -> Claims]]
         /\ \A v \in Workers, b \in Deliveries :
              hand'[v][b] = IF v = w /\ b = d THEN [at |-> at, attempts |-> hand[w][d].attempts]
                                             ELSE hand[v][b]
<1> DEFINE c == [at |-> at, attempts |-> hand[w][d].attempts]
<1>1. hand[w][d] \in Claims
  BY DEF TypeOK
<1>2. c \in Claims /\ [hand[w][d] EXCEPT !.at = at] = c
  BY <1>1 DEF Claims
<1>3. hand' = [hand EXCEPT ![w][d] = c]
  BY <1>2 DEF Answer
<1>4. QED
  BY <1>2, <1>3, OneClaim

\* An attempt counted on a row.
Attempted(r, st) == [r EXCEPT !.state = st, !.attempts = @ + 1]
LEMMA CountedRow ==
  ASSUME NEW r \in DeliveryRows, NEW st \in {"delivered", "failed", "pending"}
  PROVE  /\ Attempted(r, st) \in DeliveryRows
         /\ Attempted(r, st).state = st
         /\ Attempted(r, st).attempts = r.attempts + 1
         /\ Attempted(r, st).endpoint = r.endpoint /\ Attempted(r, st).event = r.event
<1> DEFINE n == r.attempts + 1
<1>1. n \in Nat /\ n = r.attempts + 1
  BY DEF DeliveryRows
<1>2. Attempted(r, st) = [r EXCEPT !.state = st, !.attempts = n]
  BY DEF Attempted
<1> HIDE DEF n
<1>3. /\ [r EXCEPT !.state = st, !.attempts = n] \in DeliveryRows
      /\ [r EXCEPT !.state = st, !.attempts = n].state = st
      /\ [r EXCEPT !.state = st, !.attempts = n].attempts = n
      /\ [r EXCEPT !.state = st, !.attempts = n].endpoint = r.endpoint
      /\ [r EXCEPT !.state = st, !.attempts = n].event = r.event
  BY <1>1 DEF DeliveryRows
<1>4. QED
  BY <1>1, <1>2, <1>3

\* settleWebhookDelivery's first statement, on the claim and on the row.
Outcome(w, d) ==
  IF hand[w][d].at = "accepted" THEN "delivered"
  ELSE IF GivesUp(hand[w][d].attempts) THEN "failed" ELSE "pending"
LEMMA SettleEffect ==
  ASSUME TypeOK, NEW w \in Workers, NEW d \in Deliveries, SettleDelivery(w, d)
  PROVE  /\ hand' \in [Workers -> [Deliveries -> Claims]]
         /\ \A v \in Workers, b \in Deliveries :
              hand'[v][b] = IF v = w /\ b = d
                            THEN [at |-> IF hand[w][d].at = "accepted" THEN "good" ELSE "bad",
                                  attempts |-> hand[w][d].attempts]
                            ELSE hand[v][b]
         /\ row' \in [Deliveries -> DeliveryRows]
         /\ \A b \in Deliveries : row'[b] =
              IF b = d /\ row[d].state = "pending"
              THEN Attempted(row[d], Outcome(w, d)) ELSE row[b]
         /\ due' = IF row[d].state = "pending" THEN due \ {d} ELSE due
<1> DEFINE at == IF hand[w][d].at = "accepted" THEN "good" ELSE "bad"
           c == [at |-> at, attempts |-> hand[w][d].attempts]
<1>1. hand[w][d] \in Claims
  BY DEF TypeOK
<1>2. c \in Claims /\ [hand[w][d] EXCEPT !.at = at] = c
  BY <1>1 DEF Claims, Stages
<1>3. hand' = [hand EXCEPT ![w][d] = c]
  BY <1>2 DEF SettleDelivery
<1>4. /\ hand' \in [Workers -> [Deliveries -> Claims]]
      /\ \A v \in Workers, b \in Deliveries :
           hand'[v][b] = IF v = w /\ b = d THEN c ELSE hand[v][b]
  BY <1>2, <1>3, OneClaim
<1>5. row[d] \in DeliveryRows /\ Outcome(w, d) \in {"delivered", "failed", "pending"}
  BY DEF TypeOK, Outcome
<1>6. Attempted(row[d], Outcome(w, d)) \in DeliveryRows
  BY <1>5, CountedRow
<1>7. row' = IF row[d].state = "pending"
             THEN [row EXCEPT ![d] = Attempted(row[d], Outcome(w, d))] ELSE row
  BY DEF SettleDelivery, Outcome, Attempted, TypeOK
<1>8. due' = IF row[d].state = "pending" THEN due \ {d} ELSE due
  BY DEF SettleDelivery
<1>9. QED
  BY <1>4, <1>6, <1>7, <1>8 DEF TypeOK

\* Its second, on the claim.
LEMMA HealthEffect ==
  ASSUME TypeOK, NEW w \in Workers, NEW d \in Deliveries, SettleEndpoint(w, d)
  PROVE  /\ hand' \in [Workers -> [Deliveries -> Claims]]
         /\ \A v \in Workers, b \in Deliveries :
              hand'[v][b] = IF v = w /\ b = d THEN NoClaim ELSE hand[v][b]
  BY OneClaim DEF SettleEndpoint, NoClaim, Claims, Stages

\* Rows whose state some of them change, and nothing else of them.
LEMMA Restated ==
  ASSUME TypeOK, NEW some \in SUBSET Deliveries, NEW st \in {"closed", "gone"},
         row' = [d \in Deliveries |-> IF d \in some THEN [row[d] EXCEPT !.state = st] ELSE row[d]]
  PROVE  /\ row' \in [Deliveries -> DeliveryRows]
         /\ \A d \in Deliveries :
              /\ row'[d].endpoint = row[d].endpoint /\ row'[d].event = row[d].event
              /\ row'[d].attempts = row[d].attempts
              /\ row'[d].state = IF d \in some THEN st ELSE row[d].state
              /\ d \notin some => row'[d] = row[d]
<1>1. \A d \in Deliveries : row[d] \in DeliveryRows
  BY DEF TypeOK
<1>2. \A d \in Deliveries : [row[d] EXCEPT !.state = st] \in DeliveryRows
  BY <1>1 DEF DeliveryRows
<1>3. QED
  BY <1>1, <1>2 DEF DeliveryRows

---------------------------------------------------------------------------
(* The types.                                                              *)

\* Every step of a run, the office, the clock and the club keeps the types.
LEMMA TypeStep ==
  ASSUME TypeOK, [Next]_vars
  PROVE  TypeOK'
<1> USE UpsetsAssumption
<1>1. ASSUME NEW d \in Deliveries, Enqueue(d) PROVE TypeOK'
  BY <1>1 DEF TypeOK, Enqueue, DeliveryRows
<1>2. ASSUME NEW d \in Deliveries, Commit(d) PROVE TypeOK'
  BY <1>2 DEF TypeOK, Commit, DeliveryRows
<1>3. ASSUME NEW d \in Deliveries, Rollback(d) PROVE TypeOK'
  BY <1>3 DEF TypeOK, Rollback, DeliveryRows
<1>4. ASSUME NEW d \in Deliveries, ComesDue(d) PROVE TypeOK'
  BY <1>4 DEF TypeOK, ComesDue, Upset
<1>5. ASSUME NEW d \in Deliveries, PruneClubIntegrations(d) PROVE TypeOK'
  BY <1>5 DEF TypeOK, PruneClubIntegrations, DeliveryRows, Upset
<1>6. ASSUME NEW w \in Workers, ClaimWebhookDeliveries(w) PROVE TypeOK'
  <2>1. PICK s \in Batches \ {{}} :
          /\ due' = due \ s
          /\ hand' = [hand EXCEPT ![w] = [d \in Deliveries |->
               IF d \in s THEN [at |-> "claimed", attempts |-> row[d].attempts] ELSE NoClaim]]
          /\ phase' = [phase EXCEPT ![w] = IF Cardinality(s) < Batch THEN "closing" ELSE "sending"]
    BY <1>6 DEF ClaimWebhookDeliveries
  <2>2. \A d \in Deliveries : row[d].attempts \in Nat
    BY DEF TypeOK, DeliveryRows
  <2>3. [d \in Deliveries |-> IF d \in s THEN [at |-> "claimed", attempts |-> row[d].attempts]
                                         ELSE NoClaim] \in [Deliveries -> Claims]
    BY <2>2 DEF Claims, NoClaim, Stages
  <2>4. QED
    BY <1>6, <2>1, <2>3 DEF TypeOK, ClaimWebhookDeliveries
<1>7. ASSUME NEW w \in Workers, LastBatch(w) PROVE TypeOK'
  BY <1>7 DEF TypeOK, LastBatch
<1>8. ASSUME NEW es \in SUBSET Endpoints, NEW reason \in {"manual", "failing"}, GoesOff(es, reason),
             UNCHANGED <<served, hand, posted, excused>>,
             phase' \in [Workers -> {"idle", "sending", "closing"}], upsets' \in 0..MaxUpsets
      PROVE  TypeOK'
  <2> DEFINE closes == {d \in Deliveries : /\ row[d].endpoint \in es /\ row[d].state = "pending"
                                           /\ row[d].event # "erasure"}
  <2>1. /\ row' = [d \in Deliveries |->
                     IF d \in closes THEN [row[d] EXCEPT !.state = "closed"] ELSE row[d]]
        /\ due' = due \ closes
    BY <1>8 DEF GoesOff
  <2>2. /\ row' \in [Deliveries -> DeliveryRows]
        /\ \A d \in Deliveries : d \notin closes => row'[d] = row[d]
    BY <2>1, Restated
  <2>3. due' \subseteq {d \in Deliveries : row'[d].state = "pending"}
    BY <2>1, <2>2 DEF TypeOK
  <2>4. \A e \in Endpoints : [endpoint[e] EXCEPT !.state = reason] \in EndpointRows
    BY <1>8 DEF TypeOK, EndpointRows, States
  <2>5. endpoint' \in [Endpoints -> EndpointRows] /\ overlapped' \subseteq Deliveries
    BY <1>8, <2>4 DEF GoesOff, TypeOK
  <2>6. QED
    BY <1>8, <2>2, <2>3, <2>5 DEF TypeOK
<1>9. ASSUME NEW w \in Workers, DisableFailingEndpoints(w) PROVE TypeOK'
  BY <1>9, <1>8 DEF DisableFailingEndpoints, Failing, TypeOK
<1>10. ASSUME NEW w \in Workers, NEW d \in Deliveries, PostAccepted(w, d) PROVE TypeOK'
  <2>1. Answer(w, d, "accepted") /\ "accepted" \in Stages
    BY <1>10 DEF PostAccepted, Stages
  <2>2. hand' \in [Workers -> [Deliveries -> Claims]]
    BY <2>1, AnswerEffect
  <2>3. posted' \in [Deliveries -> [accepted : Nat, refused : Nat]]
    BY <1>10 DEF PostAccepted, TypeOK
  <2>4. QED
    BY <1>10, <2>2, <2>3 DEF TypeOK, PostAccepted, Answer
<1>11. ASSUME NEW w \in Workers, NEW d \in Deliveries, PostRefused(w, d) PROVE TypeOK'
  <2>1. Answer(w, d, "refused") /\ "refused" \in Stages
    BY <1>11 DEF PostRefused, Stages
  <2>2. hand' \in [Workers -> [Deliveries -> Claims]]
    BY <2>1, AnswerEffect
  <2>3. posted' \in [Deliveries -> [accepted : Nat, refused : Nat]]
    BY <1>11 DEF PostRefused, TypeOK
  <2>4. QED
    BY <1>11, <2>2, <2>3 DEF TypeOK, PostRefused, Answer
<1>12. ASSUME NEW w \in Workers, NEW d \in Deliveries, AnswerLost(w, d) PROVE TypeOK'
  <2>1. Answer(w, d, "refused") /\ "refused" \in Stages
    BY <1>12 DEF AnswerLost, Stages
  <2>2. hand' \in [Workers -> [Deliveries -> Claims]]
    BY <2>1, AnswerEffect
  <2>3. posted' \in [Deliveries -> [accepted : Nat, refused : Nat]]
    BY <1>12 DEF AnswerLost, TypeOK
  <2>4. QED
    BY <1>12, <2>2, <2>3 DEF TypeOK, AnswerLost, Answer, Upset
<1>13. ASSUME NEW w \in Workers, NEW d \in Deliveries, SettleDelivery(w, d) PROVE TypeOK'
  <2>1. due' \subseteq {b \in Deliveries : row'[b].state = "pending"}
    <3>1. ASSUME NEW b \in due' PROVE b \in Deliveries /\ row'[b].state = "pending"
      <4>1. b \in due /\ ~(b = d /\ row[d].state = "pending")
        BY <1>13, <3>1, SettleEffect
      <4>2. b \in Deliveries /\ row[b].state = "pending"
        BY <4>1 DEF TypeOK
      <4>3. row'[b] = row[b]
        BY <1>13, <4>1, <4>2, SettleEffect
      <4>4. QED
        BY <4>2, <4>3
    <3>2. QED
      BY <3>1
  <2>2. QED
    BY <1>13, <2>1, SettleEffect DEF TypeOK, SettleDelivery
<1>14. ASSUME NEW w \in Workers, NEW d \in Deliveries, SettleEndpoint(w, d) PROVE TypeOK'
  <2>1. row[d].endpoint \in Endpoints
    BY DEF TypeOK, DeliveryRows
  <2>2. endpoint' \in [Endpoints -> EndpointRows]
    BY <1>14, <2>1 DEF SettleEndpoint, TypeOK, EndpointRows
  <2>3. QED
    BY <1>14, <2>2, HealthEffect DEF TypeOK, SettleEndpoint
<1>15. ASSUME NEW w \in Workers, RunFails(w) PROVE TypeOK'
  <2>1. PICK lost \in SUBSET Held(w) \ {{}} :
          /\ hand' = [hand EXCEPT ![w] = [d \in Deliveries |->
                                            IF d \in lost THEN NoClaim ELSE hand[w][d]]]
          /\ excused' = excused \cup lost
          /\ phase' = [phase EXCEPT ![w] = "idle"]
    BY <1>15 DEF RunFails
  <2>2. [d \in Deliveries |-> IF d \in lost THEN NoClaim ELSE hand[w][d]]
          \in [Deliveries -> Claims]
    BY DEF TypeOK, Claims, NoClaim, Stages
  <2>3. QED
    BY <1>15, <2>1, <2>2 DEF TypeOK, RunFails, Held, Upset
<1>16. ASSUME NEW e \in Endpoints, ThreeDays(e) PROVE TypeOK'
  BY <1>16 DEF TypeOK, ThreeDays, EndpointRows
<1>17. ASSUME NEW e \in Endpoints, DisableWebhookEndpoint(e) PROVE TypeOK'
  BY <1>17, <1>8 DEF DisableWebhookEndpoint, TypeOK, Upset
<1>18. ASSUME NEW e \in Endpoints, EnableWebhookEndpoint(e) PROVE TypeOK'
  BY <1>18 DEF TypeOK, EnableWebhookEndpoint, EndpointRows, States, Upset
<1>19. ASSUME NEW e \in Endpoints, RemoveWebhookEndpoint(e) PROVE TypeOK'
  <2> DEFINE log == {d \in Deliveries : row[d].endpoint = e /\ row[d].state # "none"}
  <2>1. /\ row' = [d \in Deliveries |->
                     IF d \in log THEN [row[d] EXCEPT !.state = "gone"] ELSE row[d]]
        /\ due' = due \ log
    BY <1>19 DEF RemoveWebhookEndpoint
  <2>2. /\ row' \in [Deliveries -> DeliveryRows]
        /\ \A d \in Deliveries : d \notin log => row'[d] = row[d]
    BY <2>1, Restated
  <2>3. due' \subseteq {d \in Deliveries : row'[d].state = "pending"}
    BY <2>1, <2>2 DEF TypeOK
  <2>4. endpoint' \in [Endpoints -> EndpointRows]
    BY <1>19 DEF RemoveWebhookEndpoint, TypeOK, EndpointRows, States
  <2>5. QED
    BY <1>19, <2>2, <2>3, <2>4 DEF TypeOK, RemoveWebhookEndpoint, Upset
<1>20. ASSUME NEW e \in Endpoints, ClubServed(e) PROVE TypeOK'
  BY <1>20 DEF TypeOK, ClubServed, Upset
<1>21. CASE UNCHANGED vars
  BY <1>21 DEF TypeOK, vars
<1>22. QED
  BY <1>1, <1>2, <1>3, <1>4, <1>5, <1>6, <1>7, <1>9, <1>10, <1>11, <1>12, <1>13, <1>14,
     <1>15, <1>16, <1>17, <1>18, <1>19, <1>20, <1>21 DEF Next, RunStep, RowStep

---------------------------------------------------------------------------
(* One row through one step.                                               *)

\* The runs with an unwritten failure are finitely many.
LEMMA FailuresFinite ==
  ASSUME NEW d PROVE IsFiniteSet(Failures(d)) /\ Cardinality(Failures(d)) \in Nat
<1>1. Failures(d) \subseteq Workers
  BY DEF Failures
<1>2. QED
  BY <1>1, WorkersAssumption, FS_Subset, FS_CardinalityType

\* Nothing of the row changes, but that its lease may be renewed or excused.
SameClaim(v, d) ==
  \/ hand'[v][d] = hand[v][d]
  \/ hand'[v][d].at = "none" /\ hand[v][d].at = "none"
Untouched(d) ==
  /\ row'[d] = row[d] /\ posted'[d] = posted[d]
  /\ d \in due' => d \in due
  /\ d \in excused => d \in excused'
  /\ \A v \in Workers : SameClaim(v, d)

\* A step that does not touch a row keeps it safe.
LEMMA UntouchedRow ==
  ASSUME NEW d \in Deliveries, RowSafe(d), Untouched(d)
  PROVE  RowSafe(d)'
<1>1. Failures(d)' = Failures(d)
  BY DEF Untouched, SameClaim, Failures
<1>2. Unwritten(d)' /\ EndedHonestly(d)'
  BY DEF Untouched, SameClaim, RowSafe, Unwritten, EndedHonestly
<1>3. Counted(d)'
  BY <1>1 DEF Untouched, RowSafe, Counted, Unsettled
<1>4. ReadHonestly(d)'
  BY DEF Untouched, SameClaim, RowSafe, ReadHonestly
<1>5. Leased(d)'
  BY DEF Untouched, SameClaim, RowSafe, Leased, HeldOnce, NotYet, Taken, Unsettled
<1>6. QED
  BY <1>2, <1>3, <1>4, <1>5 DEF RowSafe

\* Nor does one that closes, deletes or rolls it back.
Ended(d) ==
  /\ row'[d].state \in {"closed", "gone"}
  /\ row'[d].state = "closed" => row'[d].event # "erasure"
  /\ posted'[d] = posted[d]
  /\ d \in due' => d \in due
  /\ d \in excused => d \in excused'
  /\ \A v \in Workers : SameClaim(v, d)
LEMMA EndedRow ==
  ASSUME NEW d \in Deliveries, RowSafe(d), Ended(d)
  PROVE  RowSafe(d)'
<1>1. Unwritten(d)' /\ EndedHonestly(d)' /\ Counted(d)'
  BY DEF Ended, Unwritten, EndedHonestly, Counted, Unsettled
<1>2. ReadHonestly(d)'
  BY DEF Ended, SameClaim, RowSafe, ReadHonestly
<1>3. Leased(d)'
  BY DEF Ended, SameClaim, RowSafe, Leased, HeldOnce, NotYet, Taken, Unsettled
<1>4. QED
  BY <1>1, <1>2, <1>3 DEF RowSafe

\* A row is queued, and then due: no run has it.
LEMMA QueuedRow ==
  ASSUME TypeOK, NEW d \in Deliveries, RowSafe(d), Enqueue(d) \/ Commit(d)
  PROVE  RowSafe(d)'
<1>1. /\ row'[d].attempts = row[d].attempts /\ row'[d].state \in {"open", "pending"}
      /\ row[d].state \in {"none", "open"}
      /\ UNCHANGED <<hand, posted, excused>>
  BY DEF TypeOK, Enqueue, Commit, DeliveryRows
<1>2. row[d].attempts = 0 /\ \A v \in Workers : hand[v][d].at = "none"
  BY <1>1 DEF RowSafe, Unwritten
<1>3. Failures(d)' = {} /\ posted[d].refused \in Nat
  BY <1>1, <1>2 DEF Failures, TypeOK
<1>4. Counted(d)'
  BY <1>1, <1>2, <1>3, FS_EmptySet DEF Counted
<1>5. Unwritten(d)' /\ EndedHonestly(d)' /\ ReadHonestly(d)'
  BY <1>1, <1>2 DEF Unwritten, EndedHonestly, ReadHonestly
<1>6. Leased(d)'
  BY <1>1, <1>2 DEF RowSafe, Leased, HeldOnce, NotYet, Taken, Unsettled
<1>7. QED
  BY <1>4, <1>5, <1>6 DEF RowSafe

\* A lease ends: of a row some run still holds, that is excused.
LEMMA DueRow ==
  ASSUME TypeOK, NEW d \in Deliveries, RowSafe(d), ComesDue(d)
  PROVE  RowSafe(d)'
<1>1. UNCHANGED <<row, hand, posted>>
  BY DEF ComesDue
<1>2. Unwritten(d)' /\ EndedHonestly(d)' /\ ReadHonestly(d)' /\ Counted(d)'
  BY <1>1 DEF RowSafe, Unwritten, EndedHonestly, ReadHonestly, Counted, Unsettled, Failures
<1>3. d \in excused' \/ (excused' = excused /\ \A w \in Workers : hand[w][d].at = "none")
  BY DEF ComesDue, Held
<1>4. Leased(d)'
  BY <1>1, <1>3 DEF RowSafe, Leased, HeldOnce, NotYet, Taken, Unsettled
<1>5. QED
  BY <1>2, <1>4 DEF RowSafe

\* What a claim does: its rows were due, and its run held nothing.
LEMMA ClaimEffect ==
  ASSUME TypeOK, NEW w \in Workers, ClaimWebhookDeliveries(w)
  PROVE  \E s \in SUBSET due :
           /\ due' = due \ s
           /\ \A b \in Deliveries :
                /\ hand[w][b].at = "none"
                /\ hand'[w][b] = IF b \in s THEN [at |-> "claimed", attempts |-> row[b].attempts]
                                            ELSE NoClaim
                /\ \A v \in Workers \ {w} : hand'[v][b] = hand[v][b]
<1>1. PICK s \in Batches \ {{}} :
        /\ due' = due \ s
        /\ hand' = [hand EXCEPT ![w] = [d \in Deliveries |->
             IF d \in s THEN [at |-> "claimed", attempts |-> row[d].attempts] ELSE NoClaim]]
  BY DEF ClaimWebhookDeliveries
<1>2. s \in SUBSET due
  BY DEF Batches, Claimable
<1>3. \A b \in Deliveries : hand[w][b].at = "none"
  BY DEF ClaimWebhookDeliveries, Held
<1>4. QED
  BY <1>1, <1>2, <1>3 DEF TypeOK

\* A claim: unless excused, no run holds a row that is due.
LEMMA ClaimedRow ==
  ASSUME TypeOK, NEW d \in Deliveries, RowSafe(d), NEW w \in Workers, ClaimWebhookDeliveries(w)
  PROVE  RowSafe(d)'
<1>1. PICK s \in SUBSET due :
        /\ due' = due \ s
        /\ hand[w][d].at = "none"
        /\ hand'[w][d] = IF d \in s THEN [at |-> "claimed", attempts |-> row[d].attempts]
                                    ELSE NoClaim
        /\ \A v \in Workers \ {w} : hand'[v][d] = hand[v][d]
  BY ClaimEffect
<1>2. UNCHANGED <<row, posted, excused>>
  BY DEF ClaimWebhookDeliveries
<1>3. CASE d \notin s
  <2>1. Untouched(d)
    BY <1>1, <1>2, <1>3 DEF Untouched, SameClaim, NoClaim
  <2>2. QED
    BY <2>1, UntouchedRow
<1>4. CASE d \in s
  <2>1. row[d].state = "pending" /\ d \notin due'
    BY <1>1, <1>4 DEF TypeOK
  <2>2. Failures(d)' = Failures(d)
    BY <1>1, <1>4 DEF Failures
  <2>3. Counted(d)' /\ Unwritten(d)' /\ EndedHonestly(d)'
    BY <1>2, <2>1, <2>2 DEF RowSafe, Counted, Unsettled, Unwritten, EndedHonestly
  <2>4. row[d].attempts <= posted[d].refused
    <3>1. row[d].attempts + Cardinality(Failures(d)) <= posted[d].refused
      BY <2>1 DEF RowSafe, Counted, Unsettled
    <3>2. row[d].attempts \in Nat /\ posted[d].refused \in Nat
      BY DEF TypeOK, DeliveryRows
    <3>3. QED
      BY <3>1, <3>2, FailuresFinite
  <2>5. ReadHonestly(d)'
    BY <1>1, <1>2, <1>4, <2>4 DEF RowSafe, ReadHonestly
  <2>6. ASSUME d \notin excused
        PROVE  HeldOnce(d)' /\ NotYet(d)' /\ Taken(d)'
    <3>1. \A v \in Workers : hand[v][d].at = "none"
      BY <1>1, <1>4, <2>6 DEF RowSafe, Leased, HeldOnce
    <3>2. posted[d].accepted = 0
      <4>1. posted[d].accepted \in Nat /\ ~(posted[d].accepted > 0)
        BY <2>1, <2>6, <3>1 DEF RowSafe, Leased, Taken, Unsettled, TypeOK
      <4>2. QED
        BY <4>1
    <3>3. QED
      BY <1>1, <1>2, <2>1, <3>1, <3>2 DEF HeldOnce, NotYet, Taken
  <2>7. QED
    BY <1>2, <2>3, <2>5, <2>6 DEF RowSafe, Leased
<1>5. QED
  BY <1>3, <1>4

\* One run's claim of a row moves on; everyone else's stays.
Moves(w, d, at) ==
  /\ hand'[w][d] = [at |-> at, attempts |-> hand[w][d].attempts]
  /\ \A v \in Workers \ {w} : hand'[v][d] = hand[v][d]

\* A post that the receiver took.
LEMMA AcceptedRow ==
  ASSUME TypeOK, NEW d \in Deliveries, RowSafe(d), NEW w \in Workers, PostAccepted(w, d)
  PROVE  RowSafe(d)'
<1>1. Answer(w, d, "accepted") /\ "accepted" \in Stages
  BY DEF PostAccepted, Stages
<1>2. Moves(w, d, "accepted")
  BY <1>1, AnswerEffect DEF Moves
<1>3. /\ UNCHANGED <<row, due, excused>> /\ hand[w][d].at = "claimed"
      /\ posted'[d].accepted = posted[d].accepted + 1
      /\ posted'[d].refused = posted[d].refused
  BY DEF PostAccepted, Answer, TypeOK
<1>4. Failures(d)' = Failures(d)
  BY <1>2, <1>3 DEF Failures, Moves
<1>5. Counted(d)' /\ Unwritten(d)' /\ EndedHonestly(d)' /\ ReadHonestly(d)'
  BY <1>2, <1>3, <1>4 DEF RowSafe, Counted, Unsettled, Unwritten, EndedHonestly, ReadHonestly, Moves
<1>6. ASSUME d \notin excused
      PROVE  HeldOnce(d)' /\ NotYet(d)' /\ Taken(d)'
  <2>1. /\ \A v \in Workers : hand[v][d].at # "none" => v = w
        /\ d \notin due /\ posted[d].accepted = 0
    BY <1>3, <1>6 DEF RowSafe, Leased, HeldOnce, NotYet
  <2>2. QED
    BY <1>2, <1>3, <2>1 DEF HeldOnce, NotYet, Taken, Moves
<1>7. QED
  BY <1>3, <1>5, <1>6 DEF RowSafe, Leased

\* A post that failed, or whose answer was lost.
LEMMA RefusedRow ==
  ASSUME TypeOK, NEW d \in Deliveries, RowSafe(d), NEW w \in Workers,
         PostRefused(w, d) \/ AnswerLost(w, d)
  PROVE  RowSafe(d)'
<1>1. Answer(w, d, "refused") /\ "refused" \in Stages
  BY DEF PostRefused, AnswerLost, Stages
<1>2. Moves(w, d, "refused")
  BY <1>1, AnswerEffect DEF Moves
<1>3. /\ UNCHANGED <<row, due>> /\ hand[w][d].at = "claimed"
      /\ posted'[d].refused = posted[d].refused + 1
      /\ d \in excused' \/ (excused' = excused /\ posted'[d].accepted = posted[d].accepted)
  BY DEF PostRefused, AnswerLost, Answer, TypeOK
<1>4. /\ row[d].attempts \in Nat /\ posted[d].refused \in Nat
      /\ \A v \in Workers : hand[v][d].attempts \in Nat
  BY DEF TypeOK, DeliveryRows, Claims
<1>5. Counted(d)'
  <2>1. Failures(d)' = Failures(d) \cup {w} /\ w \notin Failures(d)
    BY <1>2, <1>3 DEF Failures, Moves
  <2>2. Cardinality(Failures(d)') = Cardinality(Failures(d)) + 1
    BY <2>1, FailuresFinite, FS_AddElement
  <2>3. Unsettled(d) => row[d].attempts + Cardinality(Failures(d)) <= posted[d].refused
    BY DEF RowSafe, Counted
  <2>4. Unsettled(d)' <=> Unsettled(d)
    BY <1>3 DEF Unsettled
  <2>5. QED
    BY <1>3, <1>4, <2>2, <2>3, <2>4, FailuresFinite DEF Counted
<1>6. Unwritten(d)'
  BY <1>2, <1>3 DEF RowSafe, Unwritten, Moves
<1>7. EndedHonestly(d)'
  BY <1>3, <1>4, AttemptsAssumption DEF RowSafe, EndedHonestly
<1>8. ReadHonestly(d)'
  BY <1>2, <1>3, <1>4 DEF RowSafe, ReadHonestly, Moves
<1>9. Leased(d)'
  BY <1>2, <1>3 DEF RowSafe, Leased, HeldOnce, NotYet, Taken, Unsettled, Moves
<1>10. QED
  BY <1>5, <1>6, <1>7, <1>8, <1>9 DEF RowSafe

\* The outcome is written to the row, if it still waits.
LEMMA SettledRow ==
  ASSUME TypeOK, NEW d \in Deliveries, RowSafe(d), NEW w \in Workers, SettleDelivery(w, d)
  PROVE  RowSafe(d)'
<1>1. /\ hand[w][d].at \in {"accepted", "refused"}
      /\ UNCHANGED <<posted, excused>>
  BY DEF SettleDelivery
<1>2. PICK at \in {"good", "bad"} : Moves(w, d, at)
  <2> DEFINE ended == IF hand[w][d].at = "accepted" THEN "good" ELSE "bad"
  <2>1. /\ hand'[w][d] = [at |-> ended, attempts |-> hand[w][d].attempts]
        /\ \A v \in Workers \ {w} : hand'[v][d] = hand[v][d]
    BY SettleEffect
  <2>2. ended \in {"good", "bad"}
    OBVIOUS
  <2> HIDE DEF ended
  <2>3. QED
    BY <2>1, <2>2 DEF Moves
<1>3. d \notin due => d \notin due'
  BY SettleEffect
<1>4. /\ row[d].attempts \in Nat /\ posted[d].refused \in Nat /\ posted[d].accepted \in Nat
      /\ \A v \in Workers : hand[v][d].attempts \in Nat
  BY DEF TypeOK, DeliveryRows, Claims
<1>5. CASE row[d].state # "pending"
  <2>1. row'[d] = row[d]
    BY <1>5, SettleEffect
  <2>2. row[d].state \notin {"none", "open", "pending"}
    BY <1>1, <1>5 DEF RowSafe, Unwritten
  <2>3. Unwritten(d)' /\ Counted(d)' /\ EndedHonestly(d)' /\ ReadHonestly(d)'
    BY <1>1, <1>2, <2>1, <2>2
    DEF RowSafe, Unwritten, Counted, Unsettled, EndedHonestly, ReadHonestly, Moves
  <2>4. Leased(d)'
    BY <1>1, <1>2, <1>3, <2>1, <2>2
    DEF RowSafe, Leased, HeldOnce, NotYet, Taken, Unsettled, Moves
  <2>5. QED
    BY <2>3, <2>4 DEF RowSafe
<1>6. CASE row[d].state = "pending"
  <2>1. /\ Outcome(w, d) \in {"delivered", "failed", "pending"}
        /\ row[d] \in DeliveryRows
    BY DEF Outcome, TypeOK
  <2>2. row'[d].state = Outcome(w, d) /\ row'[d].attempts = row[d].attempts + 1
    <3>1. row'[d] = Attempted(row[d], Outcome(w, d))
      BY <1>6, SettleEffect
    <3>2. QED
      BY <2>1, <3>1, CountedRow
  <2>3. Unwritten(d)' /\ ReadHonestly(d)'
    BY <1>1, <1>2, <2>1, <2>2 DEF RowSafe, Unwritten, ReadHonestly, Moves
  <2>4. EndedHonestly(d)'
    <3>1. Outcome(w, d) = "failed" => hand[w][d].attempts + 1 >= MaxAttempts
                                      /\ hand[w][d].attempts + 1 <= posted[d].refused
      BY <1>1 DEF Outcome, GivesUp, RowSafe, ReadHonestly
    <3>2. QED
      BY <1>1, <1>4, <2>1, <2>2, <3>1, AttemptsAssumption DEF EndedHonestly
  <2>5. Counted(d)'
    <3>1. CASE hand[w][d].at = "accepted"
      BY <2>2, <3>1 DEF Counted, Unsettled, Outcome
    <3>2. CASE hand[w][d].at = "refused"
      <4>1. Failures(d)' = Failures(d) \ {w} /\ w \in Failures(d)
        BY <1>2, <3>2 DEF Failures, Moves
      <4>2. Cardinality(Failures(d)') = Cardinality(Failures(d)) - 1
        BY <4>1, FailuresFinite, FS_RemoveElement
      <4>3. row[d].attempts + Cardinality(Failures(d)) <= posted[d].refused
        BY <1>6 DEF RowSafe, Counted, Unsettled
      <4>4. row'[d].attempts + Cardinality(Failures(d)') <= posted'[d].refused
        BY <1>1, <1>4, <2>2, <4>2, <4>3, FailuresFinite
      <4>5. QED
        BY <4>4 DEF Counted
    <3>3. QED
      BY <1>1, <3>1, <3>2
  <2>6. ASSUME d \notin excused
        PROVE  HeldOnce(d)' /\ NotYet(d)' /\ Taken(d)'
    <3>1. HeldOnce(d) /\ NotYet(d) /\ Taken(d)
      BY <2>6 DEF RowSafe, Leased
    <3>2. HeldOnce(d)' /\ NotYet(d)'
      BY <1>1, <1>2, <1>3, <3>1 DEF HeldOnce, NotYet, Moves
    <3>3. posted[d].accepted > 0 => hand[w][d].at = "accepted"
      BY <1>1, <1>6, <3>1 DEF HeldOnce, Taken, Unsettled
    <3>4. Taken(d)'
      BY <1>1, <2>2, <3>1, <3>3 DEF Taken, Unsettled, Outcome
    <3>5. QED
      BY <3>2, <3>4
  <2>7. QED
    BY <1>1, <2>3, <2>4, <2>5, <2>6 DEF RowSafe, Leased
<1>7. QED
  BY <1>5, <1>6

\* A run lets go of a row, its outcome written.
LEMMA LetGoRow ==
  ASSUME TypeOK, NEW d \in Deliveries, RowSafe(d), NEW w \in Workers, SettleEndpoint(w, d)
  PROVE  RowSafe(d)'
<1>1. /\ hand[w][d].at \in {"good", "bad"} /\ UNCHANGED <<row, due, posted, excused>>
      /\ hand'[w][d].at = "none" /\ \A v \in Workers \ {w} : hand'[v][d] = hand[v][d]
  BY HealthEffect DEF SettleEndpoint, NoClaim
<1>2. Failures(d)' = Failures(d)
  BY <1>1 DEF Failures
<1>3. Unwritten(d)' /\ Counted(d)' /\ EndedHonestly(d)' /\ ReadHonestly(d)'
  BY <1>1, <1>2 DEF RowSafe, Unwritten, Counted, Unsettled, EndedHonestly, ReadHonestly
<1>4. Leased(d)'
  BY <1>1 DEF RowSafe, Leased, HeldOnce, NotYet, Taken, Unsettled
<1>5. QED
  BY <1>3, <1>4 DEF RowSafe

\* A run breaks off: what it loses is excused.
LEMMA LostRow ==
  ASSUME TypeOK, NEW d \in Deliveries, RowSafe(d), NEW w \in Workers, RunFails(w)
  PROVE  RowSafe(d)'
<1>1. PICK lost \in SUBSET Held(w) \ {{}} :
        /\ hand' = [hand EXCEPT ![w] = [b \in Deliveries |->
                                          IF b \in lost THEN NoClaim ELSE hand[w][b]]]
        /\ excused' = excused \cup lost
  BY DEF RunFails
<1>2. /\ UNCHANGED <<row, due, posted>>
      /\ hand'[w][d] = IF d \in lost THEN NoClaim ELSE hand[w][d]
      /\ \A v \in Workers \ {w} : hand'[v][d] = hand[v][d]
  BY <1>1 DEF RunFails, TypeOK
<1>3. CASE d \notin lost
  <2>1. Untouched(d)
    BY <1>1, <1>2, <1>3 DEF Untouched, SameClaim
  <2>2. QED
    BY <2>1, UntouchedRow
<1>4. CASE d \in lost
  <2>1. hand'[w][d].at = "none" /\ d \in excused' /\ hand[w][d].at # "none"
    BY <1>1, <1>2, <1>4 DEF NoClaim, Held
  <2>2. Unwritten(d)' /\ EndedHonestly(d)' /\ ReadHonestly(d)' /\ Leased(d)'
    BY <1>2, <2>1 DEF RowSafe, Unwritten, EndedHonestly, ReadHonestly, Leased
  <2>3. Failures(d)' \subseteq Failures(d)
    BY <1>2, <2>1 DEF Failures
  <2>4. /\ Cardinality(Failures(d)') <= Cardinality(Failures(d))
        /\ Cardinality(Failures(d)') \in Nat
    BY <2>3, FailuresFinite, FS_Subset, FS_CardinalityType
  <2>5. row[d].attempts \in Nat /\ posted[d].refused \in Nat
    BY DEF TypeOK, DeliveryRows
  <2>6. Counted(d)'
    BY <1>2, <2>4, <2>5, FailuresFinite DEF RowSafe, Counted, Unsettled
  <2>7. QED
    BY <2>2, <2>6 DEF RowSafe
<1>5. QED
  BY <1>3, <1>4

\* An endpoint goes off: a row of it that waited is closed, any other is as before.
LEMMA OffRow ==
  ASSUME TypeOK, NEW d \in Deliveries, RowSafe(d), NEW es \in SUBSET Endpoints, NEW reason,
         GoesOff(es, reason), UNCHANGED <<hand, posted, excused>>
  PROVE  RowSafe(d)'
<1> DEFINE closes == {b \in Deliveries : /\ row[b].endpoint \in es /\ row[b].state = "pending"
                                         /\ row[b].event # "erasure"}
<1>1. /\ row' = [b \in Deliveries |->
                   IF b \in closes THEN [row[b] EXCEPT !.state = "closed"] ELSE row[b]]
      /\ due' = due \ closes
  BY DEF GoesOff
<1>2. /\ row'[d].event = row[d].event
      /\ d \in closes => row'[d].state = "closed"
      /\ d \notin closes => row'[d] = row[d]
  BY <1>1, Restated
<1>3. d \in closes => Ended(d)
  BY <1>1, <1>2 DEF Ended, SameClaim
<1>4. d \notin closes => Untouched(d)
  BY <1>1, <1>2 DEF Untouched, SameClaim
<1>5. QED
  BY <1>3, <1>4, EndedRow, UntouchedRow

\* Every step keeps every row safe.
LEMMA RowStaysSafe ==
  ASSUME TypeOK, NEW d \in Deliveries, RowSafe(d), [Next]_vars
  PROVE  RowSafe(d)'
<1>1. ASSUME NEW b \in Deliveries, Enqueue(b) \/ Commit(b) PROVE RowSafe(d)'
  <2>1. b # d => Untouched(d)
    BY <1>1 DEF Enqueue, Commit, Untouched, SameClaim, TypeOK
  <2>2. QED
    BY <1>1, <2>1, UntouchedRow, QueuedRow
<1>2. ASSUME NEW b \in Deliveries, Rollback(b) PROVE RowSafe(d)'
  <2>1. b # d => Untouched(d)
    BY <1>2 DEF Rollback, Untouched, SameClaim, TypeOK
  <2>2. b = d => Ended(d)
    BY <1>2 DEF Rollback, Ended, SameClaim, TypeOK, DeliveryRows
  <2>3. QED
    BY <2>1, <2>2, UntouchedRow, EndedRow
<1>3. ASSUME NEW b \in Deliveries, ComesDue(b) PROVE RowSafe(d)'
  <2>1. b # d => Untouched(d)
    BY <1>3 DEF ComesDue, Upset, Untouched, SameClaim, TypeOK
  <2>2. QED
    BY <1>3, <2>1, UntouchedRow, DueRow
<1>4. ASSUME NEW b \in Deliveries, PruneClubIntegrations(b) PROVE RowSafe(d)'
  <2>1. b # d => Untouched(d)
    BY <1>4 DEF PruneClubIntegrations, Untouched, SameClaim, TypeOK
  <2>2. b = d => Ended(d)
    BY <1>4 DEF PruneClubIntegrations, Ended, SameClaim, TypeOK, DeliveryRows
  <2>3. QED
    BY <2>1, <2>2, UntouchedRow, EndedRow
<1>5. ASSUME NEW w \in Workers, ClaimWebhookDeliveries(w) PROVE RowSafe(d)'
  BY <1>5, ClaimedRow
<1>6. ASSUME NEW w \in Workers, LastBatch(w) PROVE RowSafe(d)'
  <2>1. Untouched(d)
    BY <1>6 DEF LastBatch, Untouched, SameClaim
  <2>2. QED
    BY <2>1, UntouchedRow
<1>7. ASSUME NEW w \in Workers, DisableFailingEndpoints(w) PROVE RowSafe(d)'
  BY <1>7, OffRow DEF DisableFailingEndpoints, Failing
<1>8. ASSUME NEW w \in Workers, NEW b \in Deliveries,
             PostAccepted(w, b) \/ PostRefused(w, b) \/ AnswerLost(w, b)
      PROVE  RowSafe(d)'
  <2>1. PICK at \in Stages : Answer(w, b, at)
    BY <1>8 DEF PostAccepted, PostRefused, AnswerLost, Stages
  <2>2. ASSUME b # d, NEW v \in Workers PROVE hand'[v][d] = hand[v][d]
    <3>1. \A u \in Workers, c \in Deliveries :
            hand'[u][c] = IF u = w /\ c = b THEN [at |-> at, attempts |-> hand[w][b].attempts]
                                             ELSE hand[u][c]
      BY <2>1, AnswerEffect
    <3>2. QED
      BY <2>2, <3>1
  <2>3. b # d => /\ posted'[d] = posted[d] /\ (d \in excused => d \in excused')
                 /\ UNCHANGED <<row, due>>
    BY <1>8 DEF PostAccepted, PostRefused, AnswerLost, Answer, TypeOK
  <2>4. b # d => Untouched(d)
    BY <2>2, <2>3 DEF Untouched, SameClaim
  <2>5. QED
    BY <1>8, <2>4, UntouchedRow, AcceptedRow, RefusedRow
<1>9. ASSUME NEW w \in Workers, NEW b \in Deliveries, SettleDelivery(w, b) PROVE RowSafe(d)'
  <2>1. ASSUME b # d PROVE Untouched(d)
    <3>1. /\ \A v \in Workers : hand'[v][d] = hand[v][d]
          /\ row'[d] = row[d] /\ (d \in due' => d \in due)
      <4>1. \A u \in Workers, c \in Deliveries :
              hand'[u][c] = IF u = w /\ c = b
                            THEN [at |-> IF hand[w][b].at = "accepted" THEN "good" ELSE "bad",
                                  attempts |-> hand[w][b].attempts]
                            ELSE hand[u][c]
        BY <1>9, SettleEffect
      <4>2. \A c \in Deliveries :
              row'[c] = IF c = b /\ row[b].state = "pending"
                        THEN Attempted(row[b], Outcome(w, b)) ELSE row[c]
        BY <1>9, SettleEffect
      <4>3. due' \subseteq due
        BY <1>9, SettleEffect
      <4>4. QED
        BY <2>1, <4>1, <4>2, <4>3
    <3>2. UNCHANGED <<posted, excused>>
      BY <1>9 DEF SettleDelivery
    <3>3. QED
      BY <3>1, <3>2 DEF Untouched, SameClaim
  <2>2. QED
    BY <1>9, <2>1, UntouchedRow, SettledRow
<1>10. ASSUME NEW w \in Workers, NEW b \in Deliveries, SettleEndpoint(w, b) PROVE RowSafe(d)'
  <2>1. b # d => Untouched(d)
    BY <1>10, HealthEffect DEF SettleEndpoint, Untouched, SameClaim
  <2>2. QED
    BY <1>10, <2>1, UntouchedRow, LetGoRow
<1>11. ASSUME NEW w \in Workers, RunFails(w) PROVE RowSafe(d)'
  BY <1>11, LostRow
<1>12. ASSUME NEW e \in Endpoints, ThreeDays(e) \/ EnableWebhookEndpoint(e) \/ ClubServed(e)
       PROVE  RowSafe(d)'
  <2>1. Untouched(d)
    BY <1>12 DEF ThreeDays, EnableWebhookEndpoint, ClubServed, Untouched, SameClaim
  <2>2. QED
    BY <2>1, UntouchedRow
<1>13. ASSUME NEW e \in Endpoints, DisableWebhookEndpoint(e) PROVE RowSafe(d)'
  BY <1>13, OffRow DEF DisableWebhookEndpoint
<1>14. ASSUME NEW e \in Endpoints, RemoveWebhookEndpoint(e) PROVE RowSafe(d)'
  <2> DEFINE log == {b \in Deliveries : row[b].endpoint = e /\ row[b].state # "none"}
  <2>1. /\ row' = [b \in Deliveries |->
                     IF b \in log THEN [row[b] EXCEPT !.state = "gone"] ELSE row[b]]
        /\ due' = due \ log /\ UNCHANGED <<hand, posted, excused>>
    BY <1>14 DEF RemoveWebhookEndpoint
  <2>2. /\ d \in log => row'[d].state = "gone"
        /\ d \notin log => row'[d] = row[d]
    BY <2>1, Restated
  <2>3. d \in log => Ended(d)
    BY <2>1, <2>2 DEF Ended, SameClaim
  <2>4. d \notin log => Untouched(d)
    BY <2>1, <2>2 DEF Untouched, SameClaim
  <2>5. QED
    BY <2>3, <2>4, EndedRow, UntouchedRow
<1>15. CASE UNCHANGED vars
  <2>1. Untouched(d)
    BY <1>15 DEF vars, Untouched, SameClaim
  <2>2. QED
    BY <2>1, UntouchedRow
<1>16. QED
  BY <1>1, <1>2, <1>3, <1>4, <1>5, <1>6, <1>7, <1>8, <1>9, <1>10, <1>11, <1>12, <1>13, <1>14,
     <1>15 DEF Next, RunStep, RowStep

---------------------------------------------------------------------------
(* What waits for an endpoint that is off.                                 *)

\* Going off closes what waits and marks what is not committed yet.
LEMMA OffBacklog ==
  ASSUME TypeOK, Backlog, NEW es \in SUBSET Endpoints, NEW reason, GoesOff(es, reason)
  PROVE  Backlog'
<1> DEFINE closes == {b \in Deliveries : /\ row[b].endpoint \in es /\ row[b].state = "pending"
                                         /\ row[b].event # "erasure"}
<1>1. /\ row' = [b \in Deliveries |->
                   IF b \in closes THEN [row[b] EXCEPT !.state = "closed"] ELSE row[b]]
      /\ overlapped' = overlapped
           \cup {d \in Deliveries : row[d].endpoint \in es /\ row[d].state = "open"}
      /\ \A e \in Endpoints : e \notin es => endpoint'[e] = endpoint[e]
  BY DEF GoesOff, TypeOK
<1>2. ASSUME NEW d \in Deliveries, row'[d].state \in {"open", "pending"},
             endpoint'[row'[d].endpoint].state # "live"
      PROVE  row'[d].event = "erasure" \/ d \in overlapped'
  <2>1. d \notin closes /\ row'[d] = row[d]
    BY <1>1, <1>2, Restated
  <2>2. row[d].endpoint \in Endpoints
    BY DEF TypeOK, DeliveryRows
  <2>3. CASE row[d].endpoint \in es
    BY <1>1, <1>2, <2>1, <2>3
  <2>4. CASE row[d].endpoint \notin es
    BY <1>1, <1>2, <2>1, <2>2, <2>4 DEF Backlog
  <2>5. QED
    BY <2>3, <2>4
<1>3. QED
  BY <1>2 DEF Backlog

\* Rows that wait after a step waited before it at an endpoint no better off.
Waits(d) == row[d].state \in {"open", "pending"}
LEMMA NoNewBacklog ==
  ASSUME TypeOK, Backlog, overlapped \subseteq overlapped',
         \A d \in Deliveries :
           Waits(d)' => /\ Waits(d) /\ row'[d].endpoint = row[d].endpoint
                        /\ row'[d].event = row[d].event
                        /\ endpoint'[row[d].endpoint].state # "live" =>
                             endpoint[row[d].endpoint].state # "live"
  PROVE  Backlog'
  BY DEF Backlog, Waits

\* Every step leaves a backlog of erasures and of overlapped writes only.
LEMMA BacklogStep ==
  ASSUME TypeOK, Backlog, [Next]_vars
  PROVE  Backlog'
<1>1. \A d \in Deliveries : row[d] \in DeliveryRows /\ row[d].endpoint \in Endpoints
  BY DEF TypeOK, DeliveryRows
<1>2. ASSUME NEW b \in Deliveries, Enqueue(b) PROVE Backlog'
  <2>1. \A d \in Deliveries :
          /\ row'[d].endpoint = row[d].endpoint /\ row'[d].event = row[d].event
          /\ d # b => row'[d] = row[d]
    BY <1>1, <1>2 DEF Enqueue, TypeOK, DeliveryRows
  <2>2. endpoint[row[b].endpoint].state = "live" \/ row[b].event = "erasure"
    BY <1>2 DEF Enqueue
  <2>3. UNCHANGED <<endpoint, overlapped>>
    BY <1>2 DEF Enqueue
  <2>4. QED
    BY <2>1, <2>2, <2>3 DEF Backlog
<1>3. ASSUME NEW b \in Deliveries, Commit(b) \/ Rollback(b) \/ ComesDue(b)
                                   \/ PruneClubIntegrations(b)
      PROVE  Backlog'
  <2>1. UNCHANGED <<endpoint, overlapped>>
    BY <1>3 DEF Commit, Rollback, ComesDue, PruneClubIntegrations
  <2>2. \A d \in Deliveries :
          /\ row'[d].endpoint = row[d].endpoint /\ row'[d].event = row[d].event
          /\ Waits(d)' => Waits(d)
    BY <1>1, <1>3
    DEF Commit, Rollback, ComesDue, PruneClubIntegrations, TypeOK, DeliveryRows, Waits
  <2>3. QED
    BY <2>1, <2>2, NoNewBacklog
<1>4. ASSUME NEW w \in Workers, ClaimWebhookDeliveries(w) \/ LastBatch(w) \/ RunFails(w)
      PROVE  Backlog'
  BY <1>4 DEF ClaimWebhookDeliveries, LastBatch, RunFails, Backlog
<1>5. ASSUME NEW w \in Workers, DisableFailingEndpoints(w) PROVE Backlog'
  BY <1>5, OffBacklog DEF DisableFailingEndpoints, Failing
<1>6. ASSUME NEW w \in Workers, NEW b \in Deliveries,
             PostAccepted(w, b) \/ PostRefused(w, b) \/ AnswerLost(w, b)
      PROVE  Backlog'
  BY <1>6 DEF PostAccepted, PostRefused, AnswerLost, Answer, Backlog
<1>7. ASSUME NEW w \in Workers, NEW b \in Deliveries, SettleDelivery(w, b) PROVE Backlog'
  <2>1. UNCHANGED <<endpoint, overlapped>>
    BY <1>7 DEF SettleDelivery
  <2>2. \A d \in Deliveries :
          /\ row'[d].endpoint = row[d].endpoint /\ row'[d].event = row[d].event
          /\ Waits(d)' => Waits(d)
    <3>1. ASSUME NEW d \in Deliveries, row'[d] # row[d]
          PROVE  row'[d] = Attempted(row[d], Outcome(w, d)) /\ row[d].state = "pending"
      BY <1>7, <3>1, SettleEffect
    <3>2. \A d \in Deliveries : Outcome(w, d) \in {"delivered", "failed", "pending"}
      BY DEF Outcome
    <3>3. \A d \in Deliveries :
            row'[d] # row[d] => row'[d].endpoint = row[d].endpoint /\ row'[d].event = row[d].event
      BY <1>1, <3>1, <3>2, CountedRow
    <3>4. QED
      BY <3>1, <3>3 DEF Waits
  <2>3. QED
    BY <2>1, <2>2, NoNewBacklog
<1>8. ASSUME NEW w \in Workers, NEW b \in Deliveries, SettleEndpoint(w, b) PROVE Backlog'
  <2>1. UNCHANGED <<row, overlapped>>
    BY <1>8 DEF SettleEndpoint
  <2>2. \A e \in Endpoints : endpoint'[e].state = endpoint[e].state
    BY <1>1, <1>8 DEF SettleEndpoint, TypeOK, EndpointRows
  <2>3. QED
    BY <1>1, <2>1, <2>2 DEF Backlog
<1>9. ASSUME NEW e \in Endpoints, ThreeDays(e) \/ ClubServed(e) \/ EnableWebhookEndpoint(e)
      PROVE  Backlog'
  <2>1. UNCHANGED <<row, overlapped>>
    BY <1>9 DEF ThreeDays, ClubServed, EnableWebhookEndpoint
  <2>2. \A f \in Endpoints : endpoint'[f].state # "live" => endpoint[f].state # "live"
    <3>1. CASE ThreeDays(e) \/ ClubServed(e)
      BY <3>1 DEF ThreeDays, ClubServed, TypeOK, EndpointRows
    <3>2. CASE EnableWebhookEndpoint(e)
      <4>1. /\ endpoint'[e].state = "live"
            /\ \A f \in Endpoints \ {e} : endpoint'[f] = endpoint[f]
        BY <3>2 DEF EnableWebhookEndpoint, TypeOK
      <4>2. QED
        BY <4>1
    <3>3. QED
      BY <1>9, <3>1, <3>2
  <2>3. QED
    BY <1>1, <2>1, <2>2 DEF Backlog
<1>10. ASSUME NEW e \in Endpoints, DisableWebhookEndpoint(e) PROVE Backlog'
  BY <1>10, OffBacklog DEF DisableWebhookEndpoint
<1>11. ASSUME NEW e \in Endpoints, RemoveWebhookEndpoint(e) PROVE Backlog'
  <2> DEFINE log == {b \in Deliveries : row[b].endpoint = e /\ row[b].state # "none"}
  <2>1. row' = [b \in Deliveries |->
                 IF b \in log THEN [row[b] EXCEPT !.state = "gone"] ELSE row[b]]
    BY <1>11 DEF RemoveWebhookEndpoint
  <2>2. \A d \in Deliveries :
          /\ row'[d].endpoint = row[d].endpoint /\ row'[d].event = row[d].event
          /\ Waits(d)' => Waits(d) /\ row[d].endpoint # e
    BY <2>1, Restated DEF Waits
  <2>3. /\ overlapped' = overlapped
        /\ \A f \in Endpoints : f # e => endpoint'[f] = endpoint[f]
    BY <1>11 DEF RemoveWebhookEndpoint, TypeOK
  <2>4. QED
    BY <1>1, <2>2, <2>3, NoNewBacklog
<1>12. CASE UNCHANGED vars
  BY <1>12 DEF vars, Backlog
<1>13. QED
  BY <1>2, <1>3, <1>4, <1>5, <1>6, <1>7, <1>8, <1>9, <1>10, <1>11, <1>12
  DEF Next, RunStep, RowStep

---------------------------------------------------------------------------
(* The theorems.                                                           *)

\* The invariant holds at first.
LEMMA InitInv == Init => WInv
<1> SUFFICES ASSUME Init PROVE WInv
  OBVIOUS
<1>1. PICK r \in [Deliveries -> [state : {"none"}, endpoint : Endpoints, event : Events,
                                attempts : {0}]] : row = r
  BY DEF Init
<1>2. \A d \in Deliveries : /\ row[d].state = "none" /\ row[d].attempts = 0
                            /\ row[d] \in DeliveryRows
  BY <1>1 DEF DeliveryRows
<1>3. TypeOK
  BY <1>1, <1>2, UpsetsAssumption
  DEF Init, TypeOK, EndpointRows, States, Claims, Stages, NoClaim
<1>4. \A v \in Workers, d \in Deliveries : hand[v][d].at = "none"
  BY DEF Init, NoClaim
<1>5. ASSUME NEW d \in Deliveries PROVE RowSafe(d)
  <2>1. Failures(d) = {} /\ posted[d].refused = 0 /\ posted[d].accepted = 0
    BY <1>4 DEF Failures, Init
  <2>2. Counted(d)
    BY <1>2, <2>1, FS_EmptySet DEF Counted
  <2>3. QED
    BY <1>2, <1>4, <2>1, <2>2
    DEF RowSafe, Unwritten, ReadHonestly, EndedHonestly, Leased, HeldOnce, NotYet, Taken
<1>6. Backlog
  BY <1>2 DEF Backlog
<1>7. QED
  BY <1>3, <1>5, <1>6 DEF WInv

\* Every step keeps the invariant.
LEMMA StepInv == WInv /\ [Next]_vars => WInv'
<1> SUFFICES ASSUME WInv, [Next]_vars PROVE WInv'
  OBVIOUS
<1>1. TypeOK' /\ Backlog'
  BY TypeStep, BacklogStep DEF WInv
<1>2. \A d \in Deliveries : RowSafe(d)'
  BY RowStaysSafe DEF WInv
<1>3. QED
  BY <1>1, <1>2 DEF WInv

\* The inductive invariant holds of every behaviour, however runs, writes, the office
\* and the clock interleave.
THEOREM OutboxInvariant == Spec => []WInv
<1>1. QED
  BY InitInv, StepInv, PTL DEF Spec

\* Columns and locals keep their types, and only pending rows are due.
THEOREM OutboxTypeCorrect == Spec => []TypeOK
<1>1. WInv => TypeOK
  BY DEF WInv
<1>2. QED
  BY <1>1, OutboxInvariant, PTL

\* No event is given up before WEBHOOK_MAX_ATTEMPTS posts failed, and no erasure is
\* given up otherwise.
THEOREM NothingGivenUpEarly == Spec => []GivenUpHonestly
<1>1. WInv => GivenUpHonestly
  BY DEF WInv, RowSafe, EndedHonestly, GivenUpHonestly
<1>2. QED
  BY <1>1, OutboxInvariant, PTL

\* Where no lease ran out, no answer was lost and no run broke off, an event is
\* accepted at most once, whatever runs overlap.
THEOREM AcceptedAtMostOnce == Spec => []AcceptedOnce
<1>1. WInv => AcceptedOnce
  <2> SUFFICES ASSUME WInv, NEW d \in Deliveries, d \notin excused
               PROVE  posted[d].accepted <= 1
    BY DEF AcceptedOnce
  <2>1. posted[d].accepted \in Nat /\ (posted[d].accepted > 0 => posted[d].accepted = 1)
    BY DEF WInv, RowSafe, Leased, Taken, TypeOK
  <2>2. QED
    BY <2>1
<1>2. QED
  BY <1>1, OutboxInvariant, PTL

\* Enabling an endpoint replays no stale event, but one whose write was under way.
THEOREM NoBacklogReplayed == Spec => []NoStaleBacklog
<1>1. WInv => NoStaleBacklog
  BY DEF WInv, Backlog, NoStaleBacklog
<1>2. QED
  BY <1>1, OutboxInvariant, PTL

\* A step leaves a settled row as it is, or deletes it.
LEMMA SettledRowStays ==
  ASSUME TypeOK, NEW d \in Deliveries, row[d].state \in {"delivered", "failed", "closed"},
         [Next]_vars
  PROVE  row'[d] = row[d] \/ row'[d].state = "gone"
<1>1. ASSUME NEW b \in Deliveries, Enqueue(b) \/ Commit(b) \/ Rollback(b) \/ ComesDue(b)
                                   \/ PruneClubIntegrations(b)
      PROVE  row'[d] = row[d] \/ row'[d].state = "gone"
  BY <1>1 DEF Enqueue, Commit, Rollback, ComesDue, PruneClubIntegrations, TypeOK, DeliveryRows
<1>2. ASSUME NEW es, NEW reason, GoesOff(es, reason) PROVE row'[d] = row[d]
  BY <1>2 DEF GoesOff
<1>3. ASSUME NEW w \in Workers, NEW b \in Deliveries, SettleDelivery(w, b) PROVE row'[d] = row[d]
  BY <1>3, SettleEffect
<1>4. ASSUME NEW w \in Workers, NEW b \in Deliveries, RowStep(w, b), ~SettleDelivery(w, b)
      PROVE  row' = row
  BY <1>4 DEF RowStep, PostAccepted, PostRefused, AnswerLost, Answer, SettleEndpoint
<1>5. ASSUME NEW w \in Workers, ClaimWebhookDeliveries(w) \/ LastBatch(w) \/ RunFails(w)
      PROVE  row' = row
  BY <1>5 DEF ClaimWebhookDeliveries, LastBatch, RunFails
<1>6. ASSUME NEW w \in Workers, DisableFailingEndpoints(w) PROVE row'[d] = row[d]
  BY <1>2, <1>6 DEF DisableFailingEndpoints
<1>7. ASSUME NEW e \in Endpoints, ThreeDays(e) \/ EnableWebhookEndpoint(e) \/ ClubServed(e)
      PROVE  row' = row
  BY <1>7 DEF ThreeDays, EnableWebhookEndpoint, ClubServed
<1>8. ASSUME NEW e \in Endpoints, DisableWebhookEndpoint(e) PROVE row'[d] = row[d]
  BY <1>2, <1>8 DEF DisableWebhookEndpoint
<1>9. ASSUME NEW e \in Endpoints, RemoveWebhookEndpoint(e)
      PROVE  row'[d] = row[d] \/ row'[d].state = "gone"
  <2> DEFINE log == {b \in Deliveries : row[b].endpoint = e /\ row[b].state # "none"}
  <2>1. row' = [b \in Deliveries |->
                 IF b \in log THEN [row[b] EXCEPT !.state = "gone"] ELSE row[b]]
    BY <1>9 DEF RemoveWebhookEndpoint
  <2>2. QED
    BY <2>1, Restated
<1>10. CASE UNCHANGED vars
  BY <1>10 DEF vars
<1>11. QED
  BY <1>1, <1>3, <1>4, <1>5, <1>6, <1>7, <1>8, <1>9, <1>10 DEF Next, RunStep

\* What a delivery became it stays until it is deleted, whoever settles it later.
THEOREM SettledDeliveryIsFinal == Spec => SettledStays
<1>1. ASSUME WInv, [Next]_vars
      PROVE  [\A d \in Deliveries : row[d].state \in {"delivered", "failed", "closed"}
                => row[d]' = row[d] \/ row[d].state' = "gone"]_vars
  BY <1>1, SettledRowStays DEF WInv
<1>2. QED
  BY <1>1, OutboxInvariant, PTL DEF Spec, SettledStays

---------------------------------------------------------------------------
(* The outbox (WebhookOutbox).  Each step of a run, a write, the office or *)
(* time is a step of the outbox or changes nothing it shows.               *)

Shown == <<Switches, Letters, posted, excused>>

\* Beside the invariant: a run that was told its event was taken was told so by
\* the receiver.
AnswersTrue == \A w \in Workers, d \in Deliveries :
                 hand[w][d].at = "accepted" => posted[d].accepted > 0
OInv == WInv /\ AnswersTrue

\* What a step leaves of endpoints and rows, the outbox shows unchanged.
LEMMA SameSwitches ==
  ASSUME \A e \in Endpoints : endpoint'[e].state = endpoint[e].state
  PROVE  Switches' = Switches
  BY DEF Switches
LEMMA SameLetters ==
  ASSUME \A d \in Deliveries : /\ row'[d].state = row[d].state
                               /\ row'[d].endpoint = row[d].endpoint
                               /\ row'[d].event = row[d].event
  PROVE  Letters' = Letters
  BY DEF Letters

\* A row that changes its state, and nothing else the outbox shows of any.
LEMMA MovedLetter ==
  ASSUME NEW d \in Deliveries, NEW st,
         \A b \in Deliveries : /\ row'[b].state = IF b = d THEN st ELSE row[b].state
                               /\ row'[b].endpoint = row[b].endpoint
                               /\ row'[b].event = row[b].event
  PROVE  Letters' = [Letters EXCEPT ![d].state = st]
<1>1. \A b \in Deliveries :
        /\ Letters[b] = [state |-> row[b].state, endpoint |-> row[b].endpoint,
                         event |-> row[b].event]
        /\ Letters'[b] = IF b = d THEN [Letters[b] EXCEPT !.state = st] ELSE Letters[b]
  BY DEF Letters
<1>2. /\ Letters \in [Deliveries -> {Letters[b] : b \in Deliveries}]
      /\ DOMAIN Letters' = Deliveries /\ Letters' = [b \in Deliveries |-> Letters'[b]]
  BY DEF Letters
<1>3. QED
  BY <1>1, <1>2

\* Rows of which some change their state.
LEMMA MovedLetters ==
  ASSUME NEW some \in SUBSET Deliveries, NEW st,
         \A b \in Deliveries : /\ row'[b].state = IF b \in some THEN st ELSE row[b].state
                               /\ row'[b].endpoint = row[b].endpoint
                               /\ row'[b].event = row[b].event
  PROVE  Letters' = [b \in Deliveries |->
                       IF b \in some THEN [Letters[b] EXCEPT !.state = st] ELSE Letters[b]]
<1>1. \A b \in Deliveries :
        Letters'[b] = IF b \in some THEN [Letters[b] EXCEPT !.state = st] ELSE Letters[b]
  BY DEF Letters
<1>2. Letters' = [b \in Deliveries |-> Letters'[b]]
  BY DEF Letters
<1>3. QED
  BY <1>1, <1>2

\* The fields of a letter are those of its row.
LEMMA LetterFields ==
  ASSUME NEW d \in Deliveries
  PROVE  /\ Letters[d].state = row[d].state /\ Letters[d].endpoint = row[d].endpoint
         /\ Letters[d].event = row[d].event
  BY DEF Letters

\* The same of an endpoint's switch.
LEMMA SwitchFields ==
  ASSUME NEW e \in Endpoints
  PROVE  /\ Switches[e] = "on" <=> endpoint[e].state = "live"
         /\ Switches[e] = "removed" <=> endpoint[e].state = "removed"
  BY DEF Switches

---------------------------------------------------------------------------

\* A write, its commit or its rollback; the prune.
LEMMA WriteShown ==
  ASSUME TypeOK, NEW d \in Deliveries,
         Enqueue(d) \/ Commit(d) \/ Rollback(d) \/ PruneClubIntegrations(d)
  PROVE  Outbox!Next
<1>1. \A b \in Deliveries : row[b] \in DeliveryRows /\ row[b].endpoint \in Endpoints
  BY DEF TypeOK, DeliveryRows
<1>2. ASSUME NEW st \in {"open", "pending", "gone"}, row' = [row EXCEPT ![d].state = st],
             endpoint' = endpoint
      PROVE  Letters' = [Letters EXCEPT ![d].state = st] /\ Switches' = Switches
  <2>1. \A b \in Deliveries : /\ row'[b].state = IF b = d THEN st ELSE row[b].state
                              /\ row'[b].endpoint = row[b].endpoint
                              /\ row'[b].event = row[b].event
    BY <1>1, <1>2 DEF DeliveryRows, TypeOK
  <2>2. QED
    BY <1>2, <2>1, MovedLetter, SameSwitches
<1>3. CASE Enqueue(d)
  <2>1. Outbox!Write(d)
    BY <1>1, <1>2, <1>3, LetterFields, SwitchFields DEF Enqueue, Outbox!Write, Outbox!Moves
  <2>2. QED
    BY <2>1 DEF Outbox!Next
<1>4. CASE Commit(d)
  <2>1. Outbox!Commit(d)
    BY <1>2, <1>4, LetterFields DEF Commit, Outbox!Commit, Outbox!Moves
  <2>2. QED
    BY <2>1 DEF Outbox!Next
<1>5. CASE Rollback(d)
  <2>1. Outbox!Rollback(d)
    BY <1>2, <1>5, LetterFields DEF Rollback, Outbox!Rollback, Outbox!Moves
  <2>2. QED
    BY <2>1 DEF Outbox!Next
<1>6. CASE PruneClubIntegrations(d)
  <2>1. Outbox!Prune(d)
    BY <1>2, <1>6, LetterFields DEF PruneClubIntegrations, Outbox!Prune, Outbox!Moves
  <2>2. QED
    BY <2>1 DEF Outbox!Next
<1>7. QED
  BY <1>3, <1>4, <1>5, <1>6

\* A post.  Who holds a row that is not in doubt is the first to be told that it
\* was taken.
LEMMA PostShown ==
  ASSUME OInv, NEW w \in Workers, NEW d \in Deliveries,
         PostAccepted(w, d) \/ PostRefused(w, d) \/ AnswerLost(w, d)
  PROVE  Outbox!Next
<1>1. hand[w][d].at = "claimed" /\ UNCHANGED <<row, endpoint>>
  BY DEF PostAccepted, PostRefused, AnswerLost, Answer
<1>2. Letters' = Letters /\ Switches' = Switches
  BY <1>1 DEF Letters, Switches
<1>3. Outbox!Written(d)
  BY <1>1, LetterFields DEF OInv, WInv, RowSafe, Unwritten, Outbox!Written
<1>4. posted[d].accepted = 0 \/ d \in excused
  BY <1>1 DEF OInv, WInv, RowSafe, Leased, NotYet
<1>5. PostAccepted(w, d) => Outbox!Take(d)
  BY <1>2, <1>3, <1>4 DEF PostAccepted, Outbox!Take
<1>6. PostRefused(w, d) => Outbox!Refuse(d)
  BY <1>2, <1>3 DEF PostRefused, Outbox!Refuse
<1>7. AnswerLost(w, d) => Outbox!TakeUnheard(d)
  BY <1>2, <1>3, <1>4 DEF AnswerLost, Outbox!TakeUnheard
<1>8. QED
  BY <1>5, <1>6, <1>7 DEF Outbox!Next

\* A settlement ends the event as it was answered, or leaves it to be tried again.
LEMMA SettleShown ==
  ASSUME OInv, NEW w \in Workers, NEW d \in Deliveries, SettleDelivery(w, d)
  PROVE  [Outbox!Next]_Shown
<1>1. TypeOK /\ UNCHANGED <<endpoint, posted, excused>>
  BY DEF OInv, WInv, SettleDelivery
<1>2. Switches' = Switches
  BY <1>1 DEF Switches
<1>3. CASE row[d].state # "pending" \/ Outcome(w, d) = "pending"
  <2>1. \A b \in Deliveries : /\ row'[b].state = row[b].state
                              /\ row'[b].endpoint = row[b].endpoint
                              /\ row'[b].event = row[b].event
    <3>1. row[d] \in DeliveryRows /\ Outcome(w, d) \in {"delivered", "failed", "pending"}
      BY <1>1 DEF TypeOK, Outcome
    <3>2. \A b \in Deliveries : row'[b] =
            IF b = d /\ row[d].state = "pending"
            THEN Attempted(row[d], Outcome(w, d)) ELSE row[b]
      BY <1>1, SettleEffect
    <3>3. /\ Attempted(row[d], Outcome(w, d)).state = Outcome(w, d)
          /\ Attempted(row[d], Outcome(w, d)).endpoint = row[d].endpoint
          /\ Attempted(row[d], Outcome(w, d)).event = row[d].event
      BY <3>1, CountedRow
    <3>4. QED
      BY <1>3, <3>2, <3>3
  <2>2. QED
    BY <1>1, <1>2, <2>1, SameLetters DEF Shown
<1>4. CASE row[d].state = "pending" /\ Outcome(w, d) \in {"delivered", "failed"}
  <2> DEFINE st == Outcome(w, d)
  <2>1. \A b \in Deliveries : /\ row'[b].state = IF b = d THEN st ELSE row[b].state
                              /\ row'[b].endpoint = row[b].endpoint
                              /\ row'[b].event = row[b].event
    <3>1. row[d] \in DeliveryRows
      BY <1>1 DEF TypeOK
    <3>2. \A b \in Deliveries : row'[b] =
            IF b = d /\ row[d].state = "pending"
            THEN Attempted(row[d], Outcome(w, d)) ELSE row[b]
      BY <1>1, SettleEffect
    <3>3. /\ Attempted(row[d], st).state = st /\ Attempted(row[d], st).endpoint = row[d].endpoint
          /\ Attempted(row[d], st).event = row[d].event
      BY <1>4, <3>1, CountedRow
    <3>4. QED
      BY <1>4, <3>2, <3>3
  <2>2. Letters' = [Letters EXCEPT ![d].state = st]
    <3> HIDE DEF st
    <3>1. QED
      BY <2>1, MovedLetter
  <2>3. CASE st = "delivered"
    <3>1. hand[w][d].at = "accepted"
      BY <2>3 DEF Outcome
    <3>2. posted[d].accepted > 0
      BY <3>1 DEF OInv, AnswersTrue
    <3>3. Outbox!Deliver(d)
      BY <1>1, <1>2, <1>4, <2>2, <2>3, <3>2, LetterFields DEF Outbox!Deliver, Outbox!Moves
    <3>4. QED
      BY <3>3 DEF Outbox!Next
  <2>4. CASE st = "failed"
    <3>1. hand[w][d].at = "refused" /\ hand[w][d].attempts + 1 >= MaxAttempts
      BY <2>4 DEF Outcome, GivesUp, SettleDelivery
    <3>2. hand[w][d].attempts + 1 <= posted[d].refused
      BY <3>1 DEF OInv, WInv, RowSafe, ReadHonestly
    <3>3. hand[w][d].attempts \in Nat /\ posted[d].refused \in Nat
      BY <1>1 DEF TypeOK, Claims
    <3>4. posted[d].refused >= MaxAttempts
      BY <3>1, <3>2, <3>3, AttemptsAssumption
    <3>5. Outbox!GiveUp(d)
      BY <1>1, <1>2, <1>4, <2>2, <2>4, <3>4, LetterFields DEF Outbox!GiveUp, Outbox!Moves
    <3>6. QED
      BY <3>5 DEF Outbox!Next
  <2>5. QED
    BY <1>4, <2>3, <2>4
<1>5. Outcome(w, d) \in {"delivered", "failed", "pending"}
  BY DEF Outcome
<1>6. QED
  BY <1>3, <1>4, <1>5

\* Endpoints that are on go off.
LEMMA OffShown ==
  ASSUME TypeOK, NEW es \in SUBSET Endpoints, NEW reason \in {"manual", "failing"},
         GoesOff(es, reason), \A e \in es : endpoint[e].state = "live",
         UNCHANGED <<posted, excused>>
  PROVE  Outbox!Next
<1> DEFINE closes == {b \in Deliveries : /\ row[b].endpoint \in es /\ row[b].state = "pending"
                                         /\ row[b].event # "erasure"}
<1>1. row' = [b \in Deliveries |->
                IF b \in closes THEN [row[b] EXCEPT !.state = "closed"] ELSE row[b]]
  BY DEF GoesOff
<1>2. \A b \in Deliveries : /\ row'[b].state = IF b \in closes THEN "closed" ELSE row[b].state
                            /\ row'[b].endpoint = row[b].endpoint
                            /\ row'[b].event = row[b].event
  BY <1>1, Restated
<1>3. closes \in SUBSET Deliveries
  OBVIOUS
<1>9. \A b \in closes : /\ row[b].endpoint \in es /\ row[b].state = "pending"
                         /\ row[b].event # "erasure"
  OBVIOUS
<1> HIDE DEF closes
<1>10. Letters' = [b \in Deliveries |->
                    IF b \in closes THEN [Letters[b] EXCEPT !.state = "closed"] ELSE Letters[b]]
  BY <1>2, <1>3, MovedLetters, SMTT(60)
<1>4. \A e \in Endpoints : endpoint'[e].state = IF e \in es THEN reason ELSE endpoint[e].state
  BY DEF GoesOff, TypeOK, EndpointRows
<1>5. Switches' = [e \in Endpoints |-> IF e \in es THEN "off" ELSE Switches[e]]
  BY <1>4 DEF Switches
<1>6. \A e \in es : Switches[e] = "on"
  BY SwitchFields
<1>7. Outbox!SwitchOff(es)
  BY <1>5, <1>6, <1>10, LetterFields DEF Outbox!SwitchOff, closes
<1>8. QED
  BY <1>7 DEF Outbox!Next

\* The office: an endpoint on, off or away.
LEMMA OfficeShown ==
  ASSUME TypeOK, NEW e \in Endpoints,
         ThreeDays(e) \/ DisableWebhookEndpoint(e) \/ EnableWebhookEndpoint(e)
           \/ RemoveWebhookEndpoint(e) \/ ClubServed(e)
  PROVE  [Outbox!Next]_Shown
<1>1. CASE ThreeDays(e) \/ ClubServed(e)
  <2>1. \A f \in Endpoints : endpoint'[f].state = endpoint[f].state
    BY <1>1 DEF ThreeDays, ClubServed, TypeOK, EndpointRows
  <2>2. Letters' = Letters /\ UNCHANGED <<posted, excused>>
    BY <1>1 DEF ThreeDays, ClubServed, Letters
  <2>3. QED
    BY <2>1, <2>2, SameSwitches DEF Shown
<1>2. CASE DisableWebhookEndpoint(e)
  BY <1>2, OffShown DEF DisableWebhookEndpoint
<1>3. CASE EnableWebhookEndpoint(e)
  <2>1. \A f \in Endpoints : endpoint'[f].state = IF f = e THEN "live" ELSE endpoint[f].state
    BY <1>3 DEF EnableWebhookEndpoint, TypeOK
  <2>2. Switches' = [Switches EXCEPT ![e] = "on"] /\ Switches[e] = "off"
    BY <1>3, <2>1 DEF Switches, EnableWebhookEndpoint
  <2>3. Letters' = Letters /\ UNCHANGED <<posted, excused>>
    BY <1>3 DEF EnableWebhookEndpoint, Letters
  <2>4. Outbox!SwitchOn(e)
    BY <2>2, <2>3 DEF Outbox!SwitchOn
  <2>5. QED
    BY <2>4 DEF Outbox!Next
<1>4. CASE RemoveWebhookEndpoint(e)
  <2> DEFINE log == {b \in Deliveries : row[b].endpoint = e /\ row[b].state # "none"}
  <2>1. row' = [b \in Deliveries |->
                 IF b \in log THEN [row[b] EXCEPT !.state = "gone"] ELSE row[b]]
    BY <1>4 DEF RemoveWebhookEndpoint
  <2>2. \A b \in Deliveries : /\ row'[b].state = IF b \in log THEN "gone" ELSE row[b].state
                              /\ row'[b].endpoint = row[b].endpoint
                              /\ row'[b].event = row[b].event
    BY <2>1, Restated
  <2>3. Letters' = [b \in Deliveries |->
                      IF b \in log THEN [Letters[b] EXCEPT !.state = "gone"] ELSE Letters[b]]
    <3> HIDE DEF log
    <3>1. log \in SUBSET Deliveries
      BY DEF log
    <3>2. QED
      BY <2>2, <3>1, MovedLetters
  <2>4. \A f \in Endpoints : endpoint'[f].state = IF f = e THEN "removed" ELSE endpoint[f].state
    BY <1>4 DEF RemoveWebhookEndpoint, TypeOK, EndpointRows
  <2>5. Switches' = [Switches EXCEPT ![e] = "removed"]
    BY <2>4 DEF Switches
  <2>6. /\ Switches[e] # "removed"
        /\ \A b \in Deliveries : Letters[b].endpoint = e => Letters[b].state # "open"
    BY <1>4, LetterFields, SwitchFields DEF RemoveWebhookEndpoint
  <2>7. UNCHANGED <<posted, excused>>
    BY <1>4 DEF RemoveWebhookEndpoint
  <2>8. Outbox!Remove(e)
    BY <2>3, <2>5, <2>6, <2>7, LetterFields DEF Outbox!Remove
  <2>9. QED
    BY <2>8 DEF Outbox!Next
<1>5. QED
  BY <1>1, <1>2, <1>3, <1>4

\* A claim, the end of a batch, a run that breaks off.
LEMMA RunShown ==
  ASSUME NEW w \in Workers, ClaimWebhookDeliveries(w) \/ LastBatch(w) \/ RunFails(w)
  PROVE  [Outbox!Next]_Shown
<1>1. UNCHANGED <<row, endpoint, posted>>
  BY DEF ClaimWebhookDeliveries, LastBatch, RunFails
<1>2. Letters' = Letters /\ Switches' = Switches
  BY <1>1 DEF Letters, Switches
<1>3. CASE RunFails(w)
  <2>1. PICK lost \in SUBSET Deliveries : excused' = excused \cup lost
    BY <1>3 DEF RunFails, Held
  <2>2. Outbox!Doubt(lost)
    BY <1>1, <1>2, <2>1 DEF Outbox!Doubt
  <2>3. QED
    BY <2>2 DEF Outbox!Next
<1>4. CASE ClaimWebhookDeliveries(w) \/ LastBatch(w)
  BY <1>1, <1>2, <1>4 DEF Shown, ClaimWebhookDeliveries, LastBatch
<1>5. QED
  BY <1>3, <1>4

\* The endpoint's health is not shown.
LEMMA HealthShown ==
  ASSUME TypeOK, NEW w \in Workers, NEW d \in Deliveries, SettleEndpoint(w, d)
  PROVE  UNCHANGED Shown
<1>1. row[d].endpoint \in Endpoints
  BY DEF TypeOK, DeliveryRows
<1>2. \A e \in Endpoints : endpoint'[e].state = endpoint[e].state
  BY <1>1 DEF SettleEndpoint, TypeOK, EndpointRows
<1>3. Letters' = Letters /\ UNCHANGED <<posted, excused>>
  BY DEF SettleEndpoint, Letters
<1>4. QED
  BY <1>2, <1>3, SameSwitches DEF Shown

\* What a run knows of its answer stays true.
LEMMA AnswersStep ==
  ASSUME OInv, [Next]_vars
  PROVE  AnswersTrue'
<1>1. TypeOK /\ AnswersTrue
  BY DEF OInv, WInv
<1>2. \A v \in Workers, b \in Deliveries : hand[v][b] \in Claims
  BY <1>1 DEF TypeOK
<1>3. \A b \in Deliveries : posted[b].accepted \in Nat /\ posted[b].refused \in Nat
  BY <1>1 DEF TypeOK
<1>4. ASSUME NEW w \in Workers, NEW d \in Deliveries, NEW at \in {"accepted", "refused"},
             Answer(w, d, at), at = "accepted" => posted'[d].accepted > 0,
             \A b \in Deliveries : posted'[b].accepted >= posted[b].accepted
      PROVE  AnswersTrue'
  <2>1. at \in Stages
    BY DEF Stages
  <2>2. ASSUME NEW v \in Workers, NEW b \in Deliveries
        PROVE  hand'[v][b].at = IF v = w /\ b = d THEN at ELSE hand[v][b].at
    <3>1. hand'[v][b] = IF v = w /\ b = d THEN [at |-> at, attempts |-> hand[w][d].attempts]
                                           ELSE hand[v][b]
      BY <1>1, <1>4, <2>1, AnswerEffect
    <3>2. QED
      BY <3>1
  <2>3. ASSUME NEW v \in Workers, NEW b \in Deliveries, hand'[v][b].at = "accepted"
        PROVE  posted'[b].accepted > 0
    <3>1. CASE v = w /\ b = d
      BY <1>4, <2>2, <2>3, <3>1
    <3>2. CASE ~(v = w /\ b = d)
      <4>1. posted[b].accepted > 0
        BY <1>1, <2>2, <2>3, <3>2 DEF AnswersTrue
      <4>2. posted'[b].accepted \in Nat /\ posted[b].accepted \in Nat
        BY <1>1, TypeStep DEF TypeOK
      <4>3. QED
        BY <1>4, <4>1, <4>2
    <3>3. QED
      BY <3>1, <3>2
  <2>4. QED
    BY <2>3 DEF AnswersTrue
<1>5. ASSUME NEW w \in Workers, NEW d \in Deliveries, RowStep(w, d) PROVE AnswersTrue'
  <2>1. CASE PostAccepted(w, d)
    <3>1. Answer(w, d, "accepted") /\ posted'[d].accepted > 0
          /\ \A b \in Deliveries : posted'[b].accepted >= posted[b].accepted
      BY <1>1, <1>3, <2>1 DEF PostAccepted, TypeOK
    <3>2. QED
      BY <1>4, <3>1
  <2>2. CASE PostRefused(w, d)
    <3>1. \A b \in Deliveries : posted'[b].accepted = posted[b].accepted
      BY <1>1, <2>2 DEF PostRefused, TypeOK
    <3>2. Answer(w, d, "refused")
          /\ \A b \in Deliveries : posted'[b].accepted >= posted[b].accepted
      BY <1>3, <2>2, <3>1 DEF PostRefused
    <3>3. QED
      BY <1>4, <3>2
  <2>3. CASE AnswerLost(w, d)
    <3>1. \A b \in Deliveries :
            /\ b = d => posted'[b].accepted = posted[b].accepted + 1
            /\ b # d => posted'[b].accepted = posted[b].accepted
      BY <1>1, <1>3, <2>3 DEF AnswerLost, TypeOK
    <3>2. Answer(w, d, "refused")
      BY <2>3 DEF AnswerLost
    <3>3. \A b \in Deliveries : posted'[b].accepted >= posted[b].accepted
      BY <1>3, <3>1
    <3>4. QED
      BY <1>4, <3>2, <3>3
  <2>4. CASE SettleDelivery(w, d)
    <3>1. \A v \in Workers, b \in Deliveries :
            hand'[v][b].at = "accepted" => hand[v][b].at = "accepted"
      <4>1. ASSUME NEW v \in Workers, NEW b \in Deliveries, hand'[v][b].at = "accepted"
            PROVE  hand[v][b].at = "accepted"
        <5>1. hand'[v][b] = IF v = w /\ b = d
                            THEN [at |-> IF hand[w][d].at = "accepted" THEN "good" ELSE "bad",
                                  attempts |-> hand[w][d].attempts]
                            ELSE hand[v][b]
          BY <1>1, <2>4, SettleEffect
        <5>2. QED
          BY <4>1, <5>1
      <4>2. QED
        BY <4>1
    <3>2. QED
      BY <1>1, <2>4, <3>1 DEF AnswersTrue, SettleDelivery
  <2>5. CASE SettleEndpoint(w, d)
    <3>1. \A v \in Workers, b \in Deliveries :
            hand'[v][b].at = "accepted" => hand[v][b].at = "accepted"
      BY <1>1, <2>5, HealthEffect DEF NoClaim
    <3>2. QED
      BY <1>1, <2>5, <3>1 DEF AnswersTrue, SettleEndpoint
  <2>6. QED
    BY <1>5, <2>1, <2>2, <2>3, <2>4, <2>5 DEF RowStep
<1>6. ASSUME NEW w \in Workers, ClaimWebhookDeliveries(w) \/ RunFails(w) PROVE AnswersTrue'
  <2>1. \A v \in Workers, b \in Deliveries :
          hand'[v][b].at = "accepted" => hand[v][b].at = "accepted"
    <3>1. CASE ClaimWebhookDeliveries(w)
      <4>1. PICK s \in SUBSET due :
              \A b \in Deliveries :
                /\ hand'[w][b] = IF b \in s THEN [at |-> "claimed", attempts |-> row[b].attempts]
                                            ELSE NoClaim
                /\ \A v \in Workers \ {w} : hand'[v][b] = hand[v][b]
        BY <1>1, <3>1, ClaimEffect
      <4>2. ASSUME NEW b \in Deliveries PROVE hand'[w][b].at # "accepted"
        <5>1. hand'[w][b] = IF b \in s THEN [at |-> "claimed", attempts |-> row[b].attempts]
                                       ELSE NoClaim
          BY <4>1
        <5>2. CASE b \in s
          BY <5>1, <5>2
        <5>3. CASE b \notin s
          BY <5>1, <5>3 DEF NoClaim
        <5>4. QED
          BY <5>2, <5>3
      <4>3. QED
        BY <4>1, <4>2
    <3>2. CASE RunFails(w)
      BY <1>1, <3>2 DEF RunFails, TypeOK, NoClaim
    <3>3. QED
      BY <1>6, <3>1, <3>2
  <2>2. posted' = posted
    BY <1>6 DEF ClaimWebhookDeliveries, RunFails
  <2>3. QED
    BY <1>1, <2>1, <2>2 DEF AnswersTrue
<1>7. CASE UNCHANGED <<hand, posted>>
  BY <1>1, <1>7 DEF AnswersTrue
<1>8. QED
  BY <1>5, <1>6, <1>7
  DEF Next, vars, RunStep, Enqueue, Commit, Rollback, ComesDue, PruneClubIntegrations, LastBatch,
      DisableFailingEndpoints, ThreeDays, DisableWebhookEndpoint, EnableWebhookEndpoint,
      RemoveWebhookEndpoint, ClubServed

\* Every step of the runs, the writes, the office and time is one of the outbox.
LEMMA StepShown ==
  ASSUME OInv, [Next]_vars
  PROVE  [Outbox!Next]_Shown
<1>1. TypeOK
  BY DEF OInv, WInv
<1>2. ASSUME NEW d \in Deliveries, Enqueue(d) \/ Commit(d) \/ Rollback(d)
                                   \/ PruneClubIntegrations(d)
      PROVE  [Outbox!Next]_Shown
  BY <1>1, <1>2, WriteShown
<1>3. ASSUME NEW d \in Deliveries, ComesDue(d) PROVE [Outbox!Next]_Shown
  <2>1. UNCHANGED <<endpoint, row, posted>> /\ (excused' = excused \/ excused' = excused \cup {d})
    BY <1>3 DEF ComesDue
  <2>2. Letters' = Letters /\ Switches' = Switches
    BY <2>1 DEF Letters, Switches
  <2>3. excused' = excused \cup {d} => Outbox!Doubt({d})
    BY <2>1, <2>2 DEF Outbox!Doubt
  <2>4. QED
    BY <2>1, <2>2, <2>3 DEF Shown, Outbox!Next
<1>4. ASSUME NEW w \in Workers, NEW d \in Deliveries, RowStep(w, d) PROVE [Outbox!Next]_Shown
  BY <1>1, <1>4, PostShown, SettleShown, HealthShown DEF RowStep
<1>5. ASSUME NEW w \in Workers, ClaimWebhookDeliveries(w) \/ LastBatch(w) \/ RunFails(w)
      PROVE  [Outbox!Next]_Shown
  BY <1>5, RunShown
<1>6. ASSUME NEW w \in Workers, DisableFailingEndpoints(w) PROVE [Outbox!Next]_Shown
  <2>1. Failing \in SUBSET Endpoints /\ \A e \in Failing : endpoint[e].state = "live"
    BY DEF Failing
  <2>2. QED
    BY <1>1, <1>6, <2>1, OffShown DEF DisableFailingEndpoints
<1>7. ASSUME NEW e \in Endpoints,
             ThreeDays(e) \/ DisableWebhookEndpoint(e) \/ EnableWebhookEndpoint(e)
               \/ RemoveWebhookEndpoint(e) \/ ClubServed(e)
      PROVE  [Outbox!Next]_Shown
  BY <1>1, <1>7, OfficeShown
<1>8. CASE UNCHANGED vars
  BY <1>8 DEF vars, Shown, Letters, Switches
<1>9. QED
  BY <1>2, <1>3, <1>4, <1>5, <1>6, <1>7, <1>8 DEF Next, RunStep

\* However the runs overlap, die and repeat themselves, they implement the outbox:
\* each event is posted once it is committed, taken once but where it is in doubt,
\* ends as delivered only if it was taken and as failed only after its refusals,
\* and is closed in the step in which its endpoint goes off.
THEOREM ImplementsOutbox == Spec => KeepsOutbox
<1>1. Init => OInv /\ Outbox!Init
  <2>1. Init => AnswersTrue
    BY DEF Init, AnswersTrue, NoClaim
  <2>2. ASSUME Init PROVE Outbox!Init
    <3>1. Switches = [e \in Endpoints |-> "on"]
      BY <2>2 DEF Init, Switches
    <3>2. Letters \in [Deliveries -> [state : {"none"}, endpoint : Endpoints, event : Outbox!Kinds]]
      BY <2>2 DEF Init, Letters, Events, Outbox!Kinds
    <3>3. QED
      BY <2>2, <3>1, <3>2 DEF Init, Outbox!Init
  <2>3. QED
    BY <2>1, <2>2, InitInv DEF OInv
<1>2. OInv /\ [Next]_vars => OInv'
  BY StepInv, AnswersStep DEF OInv
<1>3. OInv /\ [Next]_vars => [Outbox!Next]_Shown
  BY StepShown
<1>4. Spec => []OInv
  BY <1>1, <1>2, PTL DEF Spec
<1>5. QED
  BY <1>1, <1>3, <1>4, PTL DEF Spec, KeepsOutbox, Outbox!Spec, Outbox!vars, Shown
=============================================================================
