# Verification of the sport platform and its club office

TLA+ models of the repository's code, model-checked with TLC on small instances
and proved with TLAPS for every instance: the payments, the subscriptions, the
session roster and its notices, the event places and the outgoing webhooks. What
rests on fairness is only model-checked. Paths below are relative to the
repository.

## The system

A Next.js web app (`apps/web`), a worker on a pg-boss queue (`apps/worker`) and
one PostgreSQL database that both use (`db/src` shared operations,
`db/migrations` tables, triggers and guards); `lib/src` holds pure libraries.
There is no other shared state: processes interact through rows, row locks,
unique indexes, triggers and queue messages, and with Stripe, the mail relay and
clubs' own webhook receivers through calls that can fail after they took effect.

| Component | State it keeps | Operations | Why it is hard | What makes it correct |
|---|---|---|---|---|
| Online payment of a charge (`apps/web/lib/clubs/payments.ts`, `db/src/clubs/payments.ts`) | `club_checkouts`, `club_charges`, `club_payments`, Stripe's sessions | open, resume, replace, close a checkout; settle; expire | four parties (tabs, Stripe, worker, desk), calls between the reads and the writes, tabs that die | money is never lost or invented, a charge never takes more than its amount |
| Payment webhook (`apps/web/app/api/clubs/stripe/webhook/route.ts`, `apps/worker/src/club-payments-job.ts`) | `club_payment_events` | record, apply, retry, mark, sweep | late, repeated, reordered delivery; a crash between effect and mark | each event has its effect once, and does have it |
| Court and trainer bookings (`apps/web/lib/clubs/reservations.ts`, migration 0048) | `club_reservations`, `club_calendar_claims` | book, hold, confirm, cancel, release | the hold's end races the payment | a paid slot is kept, an unpaid one ends |
| Desk money (`apps/web/lib/clubs/sales.ts`, migration 0041) | charges, payments | charge, pay, give back, void | two desks, the desk and a page | paid stays within `[0, amount]` |
| Subscriptions and renewals | `club_memberships`, checkouts of purpose `membership` | start, renew, fail, stop, unapplied renewal | renewals of a plan that ended; a cancel owed to Stripe after a crash | each paid cycle is a period or a refund owed, and billing stops |
| Refunds | payments of kind `refund` | at Stripe, at the desk | a refund before its payment; repeated events | refunded once, never more than paid |
| Payment accounts | `club_payment_accounts` | connect, disconnect, revoked at Stripe | pages open at the moment it goes | nothing opens on a dead account |
| Event places (`db/src/clubs/events.ts`, migration 0053) | `club_event_registrations` | register, offer, promote, give up, release | a freed seat and the line behind it | capacity holds, the line moves in order |
| Class bookings, check-in | bookings, passes, check-ins | book, cancel, check in | capacity, a pass's last visit | one visit paid once |
| Wallet, shop, invoices (migration 0050) | entries, stock, invoices, number sequences | top up, pay, sell, issue, credit | two sales on one balance | never negative, numbers without gaps |
| Promotions (`promotions.ts`) | uses, reserved by open checkouts | resolve, reserve, use | the last use | no more uses than granted |
| Play sessions (`apps/web/lib/sessions`, `db/src/sessions`) | RSVPs with arrival numbers, notices | join, leave, remind, promote | who moved up is derived, not stored | one notice per move, nobody forgotten |
| Calendars (`materialize.ts`, twice) | occurrences | create from a rule, edit, cancel | a rule edited while it is materialised | no duplicate, no resurrection |
| Mail budget (`db/src/mail-budget.ts`) | sends per day and kind | take, give back | parallel jobs, midnight | never above the share |
| Club mail, messages, broadcasts | recipients, claims | send, resume, finish | a job killed halfway | each recipient once, the cap kept |
| Outgoing webhooks (`db/src/clubs/webhooks.ts`) | deliveries with leases | claim, settle, disable | a sender slower than its lease | every event delivered or given up |
| Club API | idempotency keys, rate limits | request, replay | the same request twice at once | one effect |
| Check-in, points, passports | awards | check in, award | repeated scans | one award a day and place |
| Campaigns, divisions | scores, seasons | score, close, roll over | the job run twice | closed once |
| Crowd edits, reports, moderation | proposals, reports | propose, apply, decide | the facility changed meanwhile | a decision applies to what was seen |
| Accounts and erasure | users, sessions | sign in, erase | erasure while money is under way | books stay, the person goes |
| Imports, maps, open data, pages | facilities | read, render | no protocol | not modelled |

`PROJECT.json` lists every component with its status, and under `hazards` the
places where the code is hard to test.

## What is modelled now

### OnlinePayment

One module for the components that meet in a charge paid online, because their
correctness is in how they meet: the web request, Stripe, the webhook ledger,
the worker, the desk, the cancellation and the hold release all touch the same
three rows.

| Variable | Code |
|---|---|
| `status`, `chargeOf`, `amount`, `sessionRef` | the columns of `club_checkouts` |
| `paid`, `voided` | `club_charge_balances.paid_cents`, `club_charges.voided_at` |
| `ledger` | the online rows of `club_payments`, by checkout |
| `hold`, `clock` | `club_reservations.state`; where `now()` is against `hold_expires_at` |
| `candidates` | the ids `releaseLapsedHolds` has read and not yet locked |
| `session`, `cardOnly` | the Checkout Session at Stripe; whether it was made for a held slot |
| `page` | whose URL a member was given |
| `event` | what Stripe raised and what `club_payment_events` records of it |
| `tab`, `job` | where each web request and each handler is, and the locals it carries across a call or a lock |

| Actions | Code |
|---|---|
| `StartChargeCheckout`, `ResumePrevious`, `AskProvider`, `ClosePrevious`, `InsertCheckout`, `CreateSession`, `StoreSession`, `AbandonTab` | `startChargeCheckout`, `resumableSessionUrl`, `closePrevious`, `openSession` |
| `CancelReservation`, `CloseChargeCheckout` | `cancelReservation` and the page it closes |
| `RecordPayment`, `VoidCharge` | the desk |
| `HoldClock`, `ReadLapsed`, `ReleaseLapsed` | a hold's time; `releaseLapsedHolds` with the locks of `lockHoldCharges` and the voids of `voidHeldCharges` |
| `PayByCard`, `PayDelayed`, `SettleDelayed`, `SessionExpires` | Stripe and the member (outside the repository) |
| `RecordEvent` | the webhook route |
| `TakeEvent`, `FetchSession`, `LockCheckout`, `Settle`, `ExpireCheckout`, `MarkEvent`, `FailJob` | `runClubPaymentEvent`, `apply`, `applyCheckoutPaid`, `expireCheckout`, `markPaymentEvent` |

**Grain.** One action is one statement other processes can see, or one call to
Stripe. A transaction is one action at its commit, with two exceptions, the two
that read before a lock they wait for. `applyCheckoutPaid` locks the checkout
and reads what is due in one statement that then waits for the charge:
`LockCheckout`, then `Settle`. PostgreSQL judges such a statement again only if
the locked row itself was changed meanwhile; so a void is seen in `Settle`, a
payment (another table) only by the trigger `club_payments_within_charge`, and a
cancellation that left the charge as it was is not seen at all.
`releaseLapsedHolds` reads its candidates and judges them again under its locks:
`ReadLapsed`, then `ReleaseLapsed`. What a web request reads before its first
call to Stripe is one action.

**Data.** Row ids are used up and never reused, so a session, its payment and
its events are named by their row, as the row's id is Stripe's idempotency key.
`hold_expires_at` is three zones: `early` (over the 31 minutes a new session
needs), `late`, and `lapsed` (past the five minutes of grace). Amounts are
integers from 1 to `Price`. `Mismatched` is the set of sessions Stripe reports
with another amount or currency; `Invoiced` the set of charges with a live
invoice, whose issuing is another component.

**Assumed of the outside.** Stripe refuses to expire a completed session, raises
each event and delivers it at least once, in any order; a session for a held
slot ends at the hold's end and takes cards only. `CreateSession` is not later
than the hold's grace: the client's timeout (15 seconds,
`lib/src/payments/stripe.ts:186`) is far below the five minutes.

### PaymentIntake

What the club is promised, with everything else left out: money taken for a
checkout is booked once, in the same step as the charge's total and within the
charge's amount, or put on the list of money owed back. `KeepsIntake` says that
`OnlinePayment` implements it under the mapping `Money`, which reads a
checkout's fate from its row and Stripe's session.

### SessionRoster

One occurrence of a play session. Who is going is not stored: a sign-up draws a
number from a sequence, a view counts, and the first `capacity` are going.

| Variable | Code |
|---|---|
| `series`, `occurrence`, `capacity` | `play_sessions.status` and `.capacity`, `play_session_occurrences.status` |
| `clock` | where `now()` is against the start: over a day, in the last 24 hours, in the last 2, started |
| `row`, `nextTicket` | `play_session_rsvps` (state, `seq`, `created_at`), `play_session_rsvp_seq` |
| `request` | the transaction a member has open: its row, what it has read |
| `jobs` | `session.notify` jobs waiting |
| `named`, `excuse`, `upsets` | history and bound; no action's outcome depends on the first two |

| Actions | Code |
|---|---|
| `DrawTicket`, `ReadPlace`, `CommitJoin` | `rsvp` and `rsvpAction`: the upsert, `positionOf`, the commit and what is queued after it; `SecondClick` is a first join submitted twice |
| `StartWithdraw`, `ReadAfter`, `CommitWithdraw` | `withdraw` and `withdrawAction`: the read before with the update, the read after, the commit and its notice |
| `Abort` | either, rolled back |
| `CancelOccurrence`, `CancelSeries`, `UpdateSession` | `cancelOccurrence`, `cancelSeries` with its cascade, `updateSession` (the capacity) |

A transaction is several steps here, unlike in OnlinePayment, because what is
read between the write and the commit is the point: under READ COMMITTED it
holds the reader's own row and nobody else's open one. `Enqueue` may lose a
notice, as `notify` swallows a queue that is down.

### SessionNotices

`SessionRoster` with the worker. A job is taken from `jobs` (the oldest, or a
retried or deferred one whose time has come) and its recipients are read
(`TakeJob`); each is then skipped, sent, failed or held (`Skip`, `Send`, `Fail`,
`Hold`) in the order of the queue; `Finish` is what the handler does with the
report: done, deferred to tomorrow (`deferHeld`), or failed and retried until
`RetryLimit`. `StartReminders` is the ten-minute sweep, which has no job.
`ledger` is `play_session_notifications`; claim, hand-off and commit are one
transaction and so one action, whose failure (`Fail`) either happened before the
relay took the mail or after: then the mail is in `lost` as well as in `mail`.

### Subscriptions

One plan sold online: the checkout that opens a Stripe subscription, the
memberships that follow one another as its invoices are paid, and those who end
it: Stripe, the office, the member.

| Variable | Code |
|---|---|
| `checkout` | `club_checkouts.status` of the plan's row |
| `chain` | the `club_memberships` of the subscription, each the next one's `renewal_of`: the cycle whose money it was sold for, its start, `renews`, `cancelled_at`, `renewal_ends_on` |
| `booked`, `listed`, `recorded` | by cycle: its payment; its rows among the refused renewals; its failure in the audit log |
| `erased`, `gone` | the client's record; `club_payment_accounts.disconnected_at` |
| `session`, `sub`, `ends`, `invoice`, `revoked` | what Stripe knows |
| `time` | the cycle under way |
| `event`, `hand` | `club_payment_events`; where each handler is and what it has read |
| `office` | what was done at Stripe and is not yet in the books |
| `overlapped` | history: cycles whose money was handled while other money was |

| Actions | Code |
|---|---|
| `TakeEvent`, `MarkEvent`, `FailJob` | `runClubPaymentEvent`, by the queue's handler and by the sweep |
| `ApplyCheckoutPaid`, `ExpireCheckout` | the plan's first payment, or its refusal |
| `SeePayment`, `ReadTail`, `AppendPeriod` | `applySubscriptionInvoice`: is the payment booked, the end of the chain, and, once its lock is held, the next period or the refusal |
| `AskOwed`, `ReadListed`, `ListRenewal`, `EndSubscription` | `subscriptionCancelOwed`, `recordUnappliedRenewal`, `endSubscription` |
| `RecordRenewalPaymentFailed`, `StopSubscription`, `MarkPaymentAccountGone` | the other events |
| `StartOperation`, `AbandonOperation`, then `SetMembershipRenewal`, `CancelMembership`, `SetMemberArchived` or `EraseMember` | an operation on a client's card: `stopProviderSubscriptions` (and `closeOpenCheckouts`) first, the books after |
| `MemberStopRenewal` | the member's notice, with its call to Stripe inside the transaction |
| `PaySession`, `SessionExpires`, `Bill`, `Tick`, `PayLater`, `EndsAtStripe`, `RevokeAccess` | Stripe, the member and the club's dashboard (outside the repository) |

**Grain.** A transaction that reads and then waits for a lock is two steps; so
is the `INSERT ... WHERE NOT EXISTS` of a refused renewal, which no unique index
backs. An event is taken and its object fetched in one step. Time is a count of
cycles: a period of the chain takes one, and `StartAfter` is the day after the
last one's end or today. **Assumed of Stripe:** one invoice a cycle while the
subscription is active, an event for each of its changes, delivered in any
order and again until it is processed; nothing after a revocation.

**What is excused.** `MoneyKept`, `MoneyUsedOnce` and `RefusedEnds` name what
they leave out: handlings of one subscription's money that met (`overlapped`), a
cancelled period, an erased record, access revoked. Each exception stands for a
behaviour of the code that breaks the property without it; see What was found.
An exception of `MoneyKept` that the model leaves out: of an amount under 50 or
over 10 000 000 cents `recordUnappliedRenewal` lists nothing
(`db/src/clubs/payments.ts:467`), while the handler still ends the subscription
and marks its event `failed`. Every invoice here is between the two, as plans'
prices in EUR are; a foreign invoice or one the provider has changed need not be.

### SubscriptionBooks

The promise behind `Subscriptions`: one bookkeeper, who uses a cycle's money in
one step. A period is sold (`SellFirst`, `Renew`) when the chain as it is in that
very step can be renewed; money is listed for the office (`ListFirst`, `List`)
when nothing will be sold any more or it is not in EUR; and it is done with
(`Close`) when it is used. Only money Stripe took is used, and a renewal's only
once, unless handlings met (`met`) or, for `Close`, the subscription was broken
off. Handlers and what they have read, the event ledger, the session and the
subscription at Stripe and the office's first step are hidden. `KeepsBooks` (run
`subscriptions`) says that `Subscriptions` implements it, with the money taken
read from Stripe's invoices (`Taken`) and what is done with from the ledger
(`Processed`). It contains `AppendsOnlyWhileRenewing`, which is therefore proved
but not run.

### EventPlaces

One event, the tickets it sells, the places taken on them and the line. Whoever
gives or frees a seat locks the event's row (`lockEvent`), so those transactions
come one at a time: `tx` is the open one. Payments, the desk's voids and a
client's archiving do not take the lock and may come in between.

| Variable | Code |
|---|---|
| `event`, `ticket` | `club_events` (status, capacity, payment), `club_event_tickets` |
| `clock` | where `now()` is against the start (over or under the two hours an offer needs) and the end |
| `place`, `nextSeq` | `club_event_registrations` by arrival, `club_event_registration_seq` |
| `archived`, `online` | clients out of the club; whether payments are taken online |
| `tx` | the transaction that holds the event's lock, with the lapsed holds it has read |
| `restored` | history: clients back from the archive since the line last moved |

| Actions | Code |
|---|---|
| `StartRegister`, `CommitRegister`, `AlreadyRegistered` | `registerForEvent`, at the desk and online: release what lapsed, move the line, seat or queue the newcomer; or meet the unique index when their own hold was paid in between |
| `StartSave`, `CommitSave`, `SaveTicket`, `ArchiveTicket`, `PublishEvent` | the office edits |
| `CancelEvent`, `CancelEventPlace` | a place, or all of them, given up |
| `StartSweep`, `CommitSweep`, `Abort` | `expireEventHolds`; any of the transactions rolled back |
| `Pay` | a payment on the place's charge (the trigger of migration 0053) |
| `VoidCharge`, `SetMemberArchived`, `SwitchOnline`, `HoldClock`, `Tick` | the rest of the world |

`promoteEventWaitlist` is in the model twice: `Served` says what it promises of
the people it seats, and is what the actions use; `Loop` is the code's loop, and
`LoopServes` says that for every capacity it seats exactly that set, and no
other set is as `Served` asks. So the theorems are about the promise, and
`LoopSeatsOneSet` ties the promise to the loop.

### OutgoingWebhooks

What a club's writes leave for its endpoints, and the runs of the worker that
bring it there.

| Variable | Code |
|---|---|
| `endpoint`, `served` | `club_webhook_endpoints` (`disabled_reason`, `failing_since`); endpoints whose club has the tier and operates |
| `row`, `due` | `club_webhook_deliveries`; the pending ones whose `next_attempt_at` has passed |
| `hand`, `phase` | where each run is: with each row it claimed, and in its loop |
| `posted`, `excused`, `overlapped` | history: answers of the receiver; rows whose lease ran out, answer or sender was lost; rows being written when their endpoint went off |

| Actions | Code |
|---|---|
| `Enqueue`, `Commit`, `Rollback` | the triggers of migration 0057 and the write they belong to |
| `ClaimWebhookDeliveries`, `LastBatch`, `DisableFailingEndpoints`, `RunFails` | `runClubWebhooks` |
| `PostAccepted`, `PostRefused`, `AnswerLost`, `SettleDelivery`, `SettleEndpoint` | `deliver` and the two statements of `settleWebhookDelivery` |
| `ComesDue`, `ThreeDays`, `PruneClubIntegrations` | time; the prune |
| `DisableWebhookEndpoint`, `EnableWebhookEndpoint`, `RemoveWebhookEndpoint`, `ClubServed` | the office, and the club's tier |

The claim, the post and both statements of a settlement are apart, because each
commits alone: a run may die between any two, and the lease may run out under a
slow one (`ComesDue` of a row that is held).

### WebhookOutbox

The promise behind `OutgoingWebhooks`: a switch per endpoint, what became of each
event, and what its receiver answered. Runs, claims, leases, attempts and the
clock are hidden. An event is written for an endpoint that is on, posted once
committed, taken once unless the sender may not know that it was (`doubtful`),
and ends as delivered only when it was taken, as failed only when it was refused
often enough, as closed in the step its endpoint goes off. `KeepsOutbox` (run
`webhooks`) says that `OutgoingWebhooks` implements it. It contains
`SettledStays`, which is therefore proved but not run.

## Runs

`MCOnlinePayment`, `MCSessionRoster`, `MCSessionNotices` and `MCEventPlaces` add
the symmetry of ids, the last two and `MCOutgoingWebhooks` a narrower start. `CHECK_DEADLOCK FALSE` everywhere: ids and tickets are used up, a session
is over when it has started, and a member who does nothing more is a legitimate
end.

| Run | Instance | Asks |
|---|---|---|
| `safety` | 1 charge, 2 checkouts (one mismatched), 1 request, 1 worker, amount 1, no invoice | `MoneyAccounted`, `BooksTrue`, `WithinCharge`, `PaidSlotKept`, `ReleasedTakesNoMoney`, `GoneSlotNotBooked`, `TypeOK` |
| `concurrent` | 1 invoiced charge, 1 checkout, 2 requests, 2 workers, amount 2 | the inductive invariant `IInv`, `FinalStays` and `KeepsIntake` |
| `liveness` | 1 charge, 1 checkout, 1 request, 1 worker, amount 1 | `MoneySettles`, `LapsedHoldEnds` |
| `pages` | 2 requests, 2 checkouts | `OnePayablePage`: violated |
| `invoiced_book` | 1 invoiced charge | `GoneSlotNotBooked`: violated |
| `roster_races` | 2 members, capacity 1, 2 transactions at once | `PlaceSurvivesRaces`: violated |
| `notices_once` | 3 members, capacity 1 or 2, 3 tickets, 2 transactions at once, 2 workers, no upsets | `TicketsUnique`, `GoingAreNamed`, `PlaceIsKept`, `QueueKeepsOrder`, `MailMatchesLedger`, `TypeOK` |
| `notices_arrives` | 2 members, capacity 1 or 2, 2 tickets, 1 worker, 2 upsets; starts a day ahead with one member in and told, then within the day, and started | `NoticeArrives`, `CancellationArrives`, `MailMatchesLedger`, `NoticeTypeOK` |
| `places_line` | 3 clients, 2 of one account, a priced and a free ticket, capacities 1 and 2, 3 places, 1 edit | `SeatsFit`, `NoIdleSeat`, `LoopServes`, `PaidPlaceKept`, `NobodyOvertakes`, `TypeOK` |
| `webhooks` | 1 endpoint, 2 deliveries (an erasure, another), 2 runs, 2 attempts, 2 upsets | `GivenUpHonestly`, `AcceptedOnce`, `NoStaleBacklog`, `KeepsOutbox`, `EventSettles`, `TypeOK` |
| `subscriptions` | 2 cycles, 2 handlers, 2 upsets | `MoneyKept`, `MoneyUsedOnce`, `KeepsBooks`, `RefusedEnds`, `TypeOK` |
| `subscriptions_dismissed` | 2 cycles, 1 handler, 1 upset | `RenewalMoneyKept`: violated |

Why the bounds are enough: the properties relate a checkout to its charge and
its session, and charges do not touch one another (only the release reads them
together, and it judges each alone), so one charge suffices. Two checkouts are
needed for one to replace the other; two workers and two requests for the same
row to be raced for; amount 2 for a charge to be part-paid at the desk. Each run
makes one or two of these large and the others small. The theorems then cover
every size.

For the roster: a place is lost or gained by one member against another, and
who is overlooked is a third, so three members, capacity 1 or 2 and two open
transactions; three tickets are three members or two and a return. An upset (`MaxUpsets`) is a request
that dies, a notice that is not queued, a second click, a cancellation, a change
of capacity, a failed or held send. `notices_arrives` has two, so that the run of a
cancellation may itself be held or fail half way; another notice may be held or
fail twice. The reminder of the last two
hours follows the other's rule with another number and is not reached.

For the events: one seat passes from one person to another while a third comes,
so three clients; two tickets, for one to be full while the other has room, and
the two capacities 1 and 2 for the event or the ticket to be what is full. One
account acts for two of the clients. For the webhooks: two rows, because an
erasure is kept where another event is closed; two runs for one row, because a
lease may run out; two attempts, the first and the last, and batches of one row,
so that a run claims again. For the subscription: the first payment and one
renewal meet in every order; a third cycle adds another renewal (checked by hand
with one handler and an invoice that is not in EUR). An upset there is an
operation, a failing card, a revocation, an ending in the dashboard or a crash,
and two of them are what most findings take.

**Fairness** (`Fairness`). Weak for `RecordEvent`: Stripe retries a delivery for
days. Strong for each step of a handler: pg-boss retries a failed job, the sweep
comes back every ten minutes for as long as the event is pending, and locks are
held only for the length of a transaction, so outages that end let each step
through again and again. Strong also for the settlement that is not overtaken:
one that loses the race against the desk rolls back and is tried again, and the
desk is not faster every time for ever. Weak for the release's read and strong
for its write, as row locks come and go. Nothing is assumed of members, of tabs
or, beyond the above, of the desk. In `SessionNotices` (`NoticeFairness`) weak
fairness of each worker: the queue hands out its jobs, and the ones that wait
for a time of their own when it comes. Nothing is assumed of the relay: a notice
need not arrive once a job has used up its retries (`gaveUp`). In
`OutgoingWebhooks` weak fairness of each run, for the job comes every minute
(`apps/worker/src/index.ts:1037-1053`) and goes on as long as it lives, and of
time for each pending row; nothing of the receiver. In `Subscriptions` weak
fairness of each handler: the queue and the sweep bring a pending event back.

## What was found

- `pages`: two tabs can leave two pages of one charge open to payment.
  `closePrevious` trusts the session reference read with the open row; if the
  first tab stored it a moment later, the provider is never asked. The second
  payment is not booked (`WithinCharge`) and not lost (`MoneyAccounted`): it is
  `unapplied`, to be refunded.
- `invoiced_book`: a cancellation of an invoiced booking between the read and
  the write of a settlement is not seen, and the money is booked.
- `roster_races`: a ticket is drawn before it can be seen. A member who read
  place 1 and was told so is moved to the waitlist when an earlier ticket
  commits. Without overlap, and whatever withdrawals do, places are kept
  (`PlaceIsKept`).
- `subscriptions_dismissed`: a renewal's money waits, the office cancels the
  membership, and the handler takes the money for the club's own business: it is
  neither a period nor on the refund list.

Met on the way and kept without a run of their own:

- A new page can be opened for the invoiced charge of a cancelled court booking;
  the guard exists for event places only (`apps/web/lib/clubs/payments.ts:580`).
- Two withdrawals at once can let a waiting member in whom neither of them
  names: each reads the other's row as it was (`sessions/rsvp.ts:125`). The
  comments expect both to name the same member, which the ledger repairs.
  `GoingAreNamed` holds only of requests that do not overlap and excuses this.
- Leaving a cancelled occurrence promotes the next in line, who has been told
  that it is off and is now told that a place is free (`sessions/rsvp.ts:120`).
- Two handlings of one invoice at once: one looks for the payment before the
  other commits and for the end of the chain after, and appends a second period
  with a charge nothing pays. Of two invoices at once, the one that waited finds
  the end taken (`club_memberships_one_successor`) and its money is dismissed as
  a duplicate. A renewal handled before the first payment finds no chain and is
  dismissed. Two handlers may list one refused renewal twice
  (`recordUnappliedRenewal`). `MoneyUsedOnce` and `MoneyKept` hold only of cycles
  outside `overlapped`, so no run catches these.
- An event handled twice at once may be marked `ignored` by the handler that
  read no chain while the other lists the money and dies before it has ended the
  subscription: nobody tries again.
- An erasure between a member's payment and its event finds nothing to stop at
  Stripe; if the event is applied before the record goes, its chain is deleted
  and the subscription is billed on. `chlenove/actions.ts` says "A record still
  billed at Stripe is not erased until the billing stops".
- Archiving a client while the page is open leaves a chain that does not renew
  and a subscription that does; a renewal refused for it, whose one call to
  Stripe failed, is not ended once the period is cancelled, although
  `subscriptionCancelOwed` promises a call "on EVERY visit".
- Two tabs can open two plan checkouts: that one is already renewing is judged
  only at the start (`apps/web/lib/clubs/payments.ts:831`).
- An event queued while its endpoint is switched off stays pending and is sent
  when it is switched on, against `apps/web/lib/clubs/webhooks.ts:198-200`. A run
  that dies between the two statements of a settlement leaves `failing_since`
  set after a success. An endpoint whose club is not served is disabled for
  failing all the same.
- One account may hold two unpaid places: offers from the line are not counted
  (`apps/web/lib/clubs/events.ts:776` says "at most one"). A promotion's notice
  is lost if the worker dies after the commit. A client restored from the archive
  waits beside a free seat until the line moves next (`restored`).

## What is proved

`OnlinePaymentProofs`, for any charges, checkouts, requests and workers, any
amount and any set of invoiced charges and mismatched sessions, from the
module's named assumptions on its constants only:

| Theorem | Property |
|---|---|
| `Invariant` | `Spec => []IInv` |
| `TypeCorrect`, `MoneyIsAccounted`, `BooksAreTrue`, `ChargeNotOverpaid`, `PaidSlotIsKept`, `ReleasedSlotTakesNoMoney` | the safety invariants of the run `safety` |
| `SettledIsFinal` | `FinalStays` |
| `GoneSlotIsNotBooked` | `GoneSlotNotBooked`, where no charge is invoiced (with one it is false: run `invoiced_book`) |
| `ImplementsIntake` | `KeepsIntake` |

The argument. None of the safety invariants is inductive as it stands.
`MoneyAccounted` needs to know why a handler may mark its event (`MarksJust`):
it settled the row, or the money's own event is still to come. That needs what a
handler knows from its fetch on (`JobsKnown`), that Stripe's news are true
(`NewsTrue`), and that money is taken only on a page whose reference is stored
(`PagesStored`), which rests on what requests know of their rows (`TabsKnown`,
`OneCreator`, `RowsKnown`). `BooksTrue` needs the row a settlement locked to
stay open and be its alone (`LocksHold`, `OneSettler`). The properties of holds
need `HoldsKnown` (a released hold leaves a void charge and no open session) and
`GoneVoid`. `IInv` is the conjunction. Its preservation is one lemma per action,
each with a step per conjunct the action can disturb; the action properties and
the refinement step follow from `IInv` and the same case split.

Model-checked only: liveness (`MoneySettles`, `LapsedHoldEnds`), which rests
on fairness and so on `ENABLED`, outside the prover's reach; and the properties
that are violated, which are counterexamples.

`SessionRosterProofs`, for any finite set of members, any capacities, clocks and
bounds, so for more members, tickets and returns than the run `notices_once`
takes:

| Theorem | Property |
|---|---|
| `RosterInvariant` | `Spec => []RInv` |
| `RosterTypeCorrect`, `TicketsAreUnique` | `TypeOK`, `TicketsUnique` |
| `OrderIsKept` | `QueueKeepsOrder` |
| `PlacesAreKept` | `PlaceIsKept` |
| `WhoGoesWasTold` | `GoingAreNamed` |

The argument. `TicketsUnique` is about rows, and a join's ticket is drawn long
before its row is written: `TicketsApart` says that the tickets of rows and of
open requests are all drawn and all different from member to member, and
`RequestsKnown` what an open request may write (an active member's row as it is;
a withdrawal with its ticket left on it). For the order and the places,
`JoinAlone` and `JoinLast` say that as long as no join has overlapped another
request, an open join is the only request and its ticket the last. Then
a commit changes one row (`OneRowChanges`), anyone who was in the queue keeps
the ticket (`CommittedRow`), and the members in front of someone after the step
were in front before it, so the position, the size of a subset of a finite set,
has not grown (`StillGoing`). That is why `Members` is assumed finite.

`GoingAreNamed` is about runs without excuse, and there one invariant carries it
(`Calm`): what a request has read is still so when it commits (`ReadsTrue`), and
of those in the queue the notices name exactly those who are going
(`NamedWhoGo`). A join has the last ticket and so moves nobody's place
(`LastMovesNobody`); a withdrawal names the difference between two reads, which
is exactly those its commit lets in. That a join's sign-up has not been
promoted already (`JoinsUnnamed`) keeps the notices to one each.

`SessionNoticesProofs`, for any workers, retry limit and roster as above:

| Theorem | Property |
|---|---|
| `NoticesInvariant` | `NoticeSpec => []LInv` |
| `NoticesTypeCorrect`, `LedgerIsTrue` | `NoticeTypeOK`, `MailMatchesLedger` |
| `TicketsAreUniqueToo`, `WhoGoesWasToldToo`, `OrderIsKeptToo`, `PlacesAreKeptToo` | the roster's properties, of `NoticeSpec` |

The argument. `LInv` is the roster's `RInv` beside two parts of the worker's
own: a run has one job or none (`OneJob`, why what it queues again is a
sequence), and for every key the mail is what was lost and one more if the key
is in the ledger (`Balanced`). `Send` adds to the mail and the ledger at once,
under a claim that was not there; a failed claim adds to both bags or to
neither. A worker's step leaves rows, requests and capacity alone
(`WorkerMovesNobody`), so each property of the roster carries over to
`NoticeSpec`, the specification the runs check. `NoticeArrives` and
`CancellationArrives` rest on fairness and are model-checked only.

`EventPlacesProofs`, for any clients, accounts, tickets, prices, capacities and
bounds:

| Theorem | Property |
|---|---|
| `Invariant` | `Spec => []PInv` |
| `TypeCorrect`, `NeverOverbooked`, `FreedSeatGoesToTheLine`, `PaidPlaceStays` | `TypeOK`, `SeatsFit`, `NoIdleSeat`, `PaidPlaceKept` |
| `TurnsAreKept` | `NobodyOvertakes` |
| `LoopSeatsOneSet` | `LoopServes` |
| `LineMovesOneWay` | of the lemmas: where the seats taken fit, `Promoted` is one set of rows, those the loop makes |

The argument. `Served` is analysed once: who it seats fits (`FreeSeats`), nobody
it leaves waits beside a seat (`FullFor`), and those it passes over are behind a
full ticket (`InTurn`). Each transaction that moves the line cites these facts
for the rows it starts from. `PInv` adds to the four invariants that a draft has
no places, that rows not yet used are blank, that what the open transaction
found under the event's lock is still so (`LockKeeps`), and that a held place's
charge is owed (`HeldOwes`), which is why a lapsed hold that is not paid can be
released with nothing left to collect.

`LoopServes` is about a recursion. Induction over data is closed to the provers
as a theorem about operators, so it is done by a least counterexample: a set of
naturals that is not empty has a least element (`Least`, from the library's
`WFMin`). A set of the line is `Greedy` when its members are those who found room
after its earlier members. The least n without such a set among the first n
places would have a predecessor with one (`GreedyExists`); the recursion of
`Loop` yields it (`LoopIsGreedy`: the least n at which they differ would differ
from its predecessor's); two such sets cannot differ in a first person
(`GreedyOnce`); and `Greedy` is `Served`: the last one seated had room after all
the others, so all of them fit (`LastFits`).

`OutgoingWebhooksProofs`, for any endpoints, deliveries, batches and attempts and
any finite set of runs:

| Theorem | Property |
|---|---|
| `OutboxInvariant` | `Spec => []WInv` |
| `OutboxTypeCorrect`, `NothingGivenUpEarly`, `AcceptedAtMostOnce`, `NoBacklogReplayed` | `TypeOK`, `GivenUpHonestly`, `AcceptedOnce`, `NoStaleBacklog` |
| `SettledDeliveryIsFinal` | `SettledStays` |
| `ImplementsOutbox` | `KeepsOutbox` |

The argument. The invariant is per row (`RowSafe`), so each step has to be
examined for the one row it touches. `Counted` bounds a row's attempts, together
with the runs that hold a refusal they have not written, by the posts that were
refused: so a count read with the claim is never too high when the row is given
up (`ReadHonestly`, `EndedHonestly`). `Leased` says that a row without an excuse
is held by at most one run, and is not due while it is, so it is posted again
only after it was refused. The refinement needs one fact more (`AnswersTrue`): a
run that is about to write down an acceptance had one. Then a settlement is
`Deliver`, `GiveUp` or a stutter, a run that breaks off is `Doubt` of what it
held, both ways an endpoint goes off are `SwitchOff`, and claims, leases, health
and retries are stutters. `EventSettles` rests on fairness and is model-checked
only.

`SubscriptionsProofs`, for any handlers, any number of cycles, any foreign
invoices and any bound on upsets:

| Theorem | Property |
|---|---|
| `SubscriptionsInvariant` | `Spec => []SInv` |
| `SubscriptionTypeCorrect`, `MoneyUsedAtMostOnce`, `MoneyIsKept` | `TypeOK`, `MoneyUsedOnce`, `MoneyKept` |
| `RenewsWhatRenews` | `AppendsOnlyWhileRenewing` |
| `ImplementsBooks` | `KeepsBooks` |

The argument. `Over` says that nothing can be appended: there is no chain and
the checkout is closed, or its end is cancelled, does not renew, or would be
passed by the member's notice. Every step keeps `Over` (time only makes the next
period start later), so a renewal refused once, unless it was not in EUR, is
refused for good: what is listed is never booked (`UsedOnce`). Of two handlers
of money that are at it together both are excused (`Apart`), so one that is not
excused may trust what it has read until it acts on it (`HandSafe`: its cycle is
not booked, the tail it read is still the last, the list it read is still
empty). For `MoneyKept`, `Told` says that Stripe bills a renewal only after it
told of the first payment, and that the checkout of a processed first payment is
settled; with the chain whole, a handler that finds no chain finds a checkout
`unapplied` and never dismisses the money (`HandKeeps`). All but three steps are
`Quiet`: they add no period, book nothing and list nothing.

The refinement needs, beside that invariant, that the ledger is true
(`MoneyTrue`): an event of money is there only when Stripe took the money, a
handler of money has such an event, and nothing is billed before its time. Then
an append is `Renew` (the tail it locked is the end of the chain, and judged
again), a refusal written down is `List` (`HandSafe` says it is still right), a
mark is `Close` of money `MoneyKept` says is kept, and every other step of a
handler, a first step of the office and a failed card is a stutter.
`RefusedEnds` rests on fairness and is model-checked only; `RenewalMoneyKept` is
false (run `subscriptions_dismissed`).

## Not modelled in SessionRoster and SessionNotices

Making the occurrences of a series and moving them (`updateSession` keeps the
times here), check-ins, the roster page, the erasure of an account or its
organiser (which cancels the series), who may cancel, rate limits. A recipient
list is not cut at 500, a claim's order among equal positions cannot arise, and
the mail budget is a choice to refuse (`Hold`); the counter behind it is planned.
A repeat's `INSERT` also uses up a number of the sequence: a gap, without
effect. The reads of one statement are taken at once.

## Not modelled in Subscriptions, EventPlaces and OutgoingWebhooks

Subscriptions: opening the plan's page, plans renewed at the desk by the nightly
job, pauses, offers, refunds, disconnecting an account from the office; a client
with several subscriptions; `start_renewal`, which the code refuses for a chain
paid by card. The office has one operation under way at a time. Erasing a client
whose wallet holds money is refused before anything moves, and left out.

EventPlaces: the resource an event claims, its registration window, prices for
members, the payment page of a place (OnlinePayment's steps are one step here),
the mail. Late and ordinary cancellations are one state told apart by the charge.

OutgoingWebhooks: signing and the rotation of secrets, adding endpoints (at most
five), the API's keys, idempotency and rate limits. A change told to several
endpoints is several changes; rows locked by another claim are passed over
(`SKIP LOCKED`), which only delays them.

Only the part of the repository that has a protocol between actors is a subject
for these models: rendering, parsing, importing and the pages are most of its
lines, so the share of the code that the models map is small and will stay so.

## Not modelled in OnlinePayment

The development stand-in for Stripe (`fakeSettle`); checkouts of plans and
wallets; online refunds; revoked accounts (403) and vanished objects (404);
holds of event places; who may act for whom (`memberSelfScope`, feature and
club-state guards); the start-time guard of a cancellation; the audit log; the
queue's own retry counts. Two releases at once are one at a time: both take the
same locks in the same order and judge again under them.

## Plan

In this order; each component's module gets its theorems in a `...Proofs`
module, recursion as functions or folds.

1. **OnlinePayment**, **PaymentIntake** (done).
2. **Subscriptions**, **SubscriptionBooks** (done; safety and the refinement
   proved). To come: refunds before payments, offers reserved by a checkout, plan
   pages in two tabs.
3. **EventPlaces** (done; its safety proved, the promotion loop included).
   **ResourceClaims** (bookings, classes and events over one pool) is to come:
   no two live claims overlap beyond the pool.
4. **SessionRoster**, **SessionNotices** (done; taken early because the module
   stands alone; every safety property proved).
5. **MailBudget** and **Broadcasts** (jobs that take a slot, send, give back;
   resumption; the SMS cap). **OutgoingWebhooks**, **WebhookOutbox**
   (done; safety and the refinement proved).
6. **WalletInvoices** (balance, gapless numbers, credit before void), replacing
   the constant `Invoiced`; **ClassBookings**; **Materialize**.
7. Campaigns, divisions, crowd edits, erasure, as far as they have protocols.
