---------------------------- MODULE Subscriptions ----------------------------
(***************************************************************************)
(* A plan bought online as a subscription: its checkout, the chain of      *)
(* memberships that Stripe's invoices append to, the money the books       *)
(* refuse, and the office and the member who end the subscription first    *)
(* at Stripe and then in the books.                                        *)
(*                                                                         *)
(* Grain.  One step is one statement or transaction others can see, or one *)
(* call to Stripe.  A transaction that reads before a lock it waits for is *)
(* two steps (ReadTail, AppendPeriod), so is the INSERT of a refused       *)
(* renewal, whose NOT EXISTS no index backs (ReadListed, ListRenewal).  An *)
(* event is taken and its object fetched in one step.                      *)
(*                                                                         *)
(* Time is the number of the billing cycle under way.  Opening a checkout  *)
(* and recording an event are OnlinePayment's: here the page is open, and  *)
(* what Stripe raises is in the ledger.                                    *)
(***************************************************************************)
EXTENDS Integers, Sequences

CONSTANTS
  Workers,      \* runs of the club.payment_event handler at the same time
  MaxCycles,    \* bound: the cycles Stripe bills
  Foreign,      \* the cycles whose invoice is not in EUR
  MaxUpsets     \* bound: how often anything that calls Upset happens

ASSUME CyclesAssumption == MaxCycles \in Nat \ {0}
ASSUME ForeignAssumption == Foreign \subseteq 1..MaxCycles
ASSUME UpsetsAssumption == MaxUpsets \in Nat

VARIABLES
  checkout,     \* club_checkouts.status of the plan's checkout
  chain,        \* club_memberships of the subscription, each the next's renewal_of
  booked,       \* the cycles whose payment is in club_payments
  listed,       \* by cycle: rows of refused renewals (checkouts 'unapplied')
  recorded,     \* the cycles whose failed payment is in the audit log
  erased,       \* the client's record is gone
  gone,         \* club_payment_accounts.disconnected_at is set
  session,      \* at Stripe: the checkout's session,
  sub,          \*   the subscription and
  ends,         \*   the last cycle it bills, Never while it goes on,
  invoice,      \*   its invoices,
  revoked,      \*   whether the club revoked the platform's access
  time,         \* the cycle under way
  event,        \* club_payment_events, by kind and cycle
  hand,         \* by run: where its handler is and what it has read
  office,       \* what the office has done at Stripe and not yet in the books
  upsets,       \* counts towards MaxUpsets
  overlapped    \* history: cycles whose handling met that of other money

bookVars == <<checkout, chain, booked, listed, recorded, erased, gone>>
stripeVars == <<session, sub, ends, invoice, revoked, time>>
vars == <<bookVars, stripeVars, event, hand, office, upsets, overlapped>>

---------------------------------------------------------------------------
(* The tables, Stripe and the handlers.                                    *)

Cycles == 1..MaxCycles
Never == MaxCycles + 1

\* A period: the cycle whose money it was sold for, the one it starts in,
\* renews, cancelled_at, and renewal_ends_on (Never: none).
Periods == [cycle : Cycles, start : Nat, renews : BOOLEAN, cancelled : BOOLEAN,
            notice : 1..Never]

Kinds == {"completed", "expired", "paid", "failed", "deleted", "deauthorized"}
Outcomes == {"applied", "ignored", "failed"}

\* Where a handler is: an outcome is one that waits to be marked.
Stages == {"idle", "pay", "expire", "see", "tail", "append", "owed", "read", "list", "end",
           "record", "stop", "gone"}
Hands == [at : Stages \cup Outcomes, kind : Kinds, cycle : Cycles, tail : Nat]
Idle == [at |-> "idle", kind |-> "completed", cycle |-> 1, tail |-> 0]

\* `at` is the period an operation on one membership is about.
Operations == [op : {"none", "stop", "cancel", "archive", "erase"}, at : Nat]
NoOperation == [op |-> "none", at |-> 0]

Init ==
  /\ checkout = "open"
  /\ chain = <<>>
  /\ booked = {}
  /\ listed = [n \in Cycles |-> 0]
  /\ recorded = {}
  /\ erased = FALSE
  /\ gone = FALSE
  /\ session = "open"
  /\ sub = "none"
  /\ ends = Never
  /\ invoice = [n \in Cycles |-> "none"]
  /\ revoked = FALSE
  /\ time = 1
  /\ event = [k \in Kinds |-> [n \in Cycles |-> "none"]]
  /\ hand = [w \in Workers |-> Idle]
  /\ office = NoOperation
  /\ upsets = 0
  /\ overlapped = {}

Upset == upsets < MaxUpsets /\ upsets' = upsets + 1

Raise(kind, n) == event' = [event EXCEPT ![kind][n] = "pending"]

---------------------------------------------------------------------------
(* Stripe, the member on its page and the club in its dashboard.  Nothing  *)
(* of it is modelled past a revocation: an account that took the platform's*)
(* access back sends it no events and answers none of its calls.           *)

PaySession ==
  /\ session = "open" /\ ~revoked
  /\ session' = "complete"
  /\ sub' = "active"
  /\ invoice' = [invoice EXCEPT ![1] = "paid"]
  /\ Raise("completed", 1)
  /\ UNCHANGED <<bookVars, ends, revoked, time, hand, office, upsets, overlapped>>

SessionExpires ==
  /\ session = "open" /\ ~revoked
  /\ session' = "expired"
  /\ Raise("expired", 1)
  /\ UNCHANGED <<bookVars, sub, ends, invoice, revoked, time, hand, office, upsets, overlapped>>

\* A cycle begins, and is billed: the card pays, or Stripe will try again.
Bills == sub = "active" /\ ~revoked /\ ends > time /\ time < MaxCycles

Bill(result) ==
  /\ Bills
  /\ IF result = "failed" THEN Upset ELSE UNCHANGED upsets
  /\ time' = time + 1
  /\ invoice' = [invoice EXCEPT ![time + 1] = result]
  /\ Raise(result, time + 1)
  /\ UNCHANGED <<bookVars, session, sub, ends, revoked, hand, office, overlapped>>

\* A cycle begins with nothing to bill, and the subscription whose last one is
\* over ends.
Tick ==
  /\ session # "open" /\ ~revoked /\ time <= MaxCycles /\ ~Bills
  /\ time' = time + 1
  /\ IF sub = "active" /\ ends <= time
     THEN sub' = "canceled" /\ Raise("deleted", 1)
     ELSE UNCHANGED <<sub, event>>
  /\ UNCHANGED <<bookVars, session, ends, invoice, revoked, hand, office, upsets, overlapped>>

\* A retry of the card succeeds.
PayLater(n) ==
  /\ sub = "active" /\ ~revoked /\ invoice[n] = "failed"
  /\ invoice' = [invoice EXCEPT ![n] = "paid"]
  /\ Raise("paid", n)
  /\ UNCHANGED <<bookVars, session, sub, ends, revoked, time, hand, office, upsets, overlapped>>

\* Ended in the dashboard, or by Stripe after the last retry.
EndsAtStripe ==
  /\ sub = "active" /\ ~revoked
  /\ Upset
  /\ sub' = "canceled"
  /\ Raise("deleted", 1)
  /\ UNCHANGED <<bookVars, session, ends, invoice, revoked, time, hand, office, overlapped>>

RevokeAccess ==
  /\ ~revoked
  /\ Upset
  /\ revoked' = TRUE
  /\ Raise("deauthorized", 1)
  /\ UNCHANGED <<bookVars, session, sub, ends, invoice, time, hand, office, overlapped>>

---------------------------------------------------------------------------
(* The worker takes an event.                                              *)

\* The handlers of money, and whether the first payment is still to be applied.
Money == {"completed", "paid"}
Handles(v) == hand[v].at # "idle" /\ hand[v].kind \in Money
Busy(w) == \E v \in Workers \ {w} : Handles(v)

\* What an event is about to Stripe, when the handler asks: a session paid, an
\* invoice paid or not.  (An invoice paid meanwhile has an event of its own.)
FirstStage(kind, n) ==
  CASE kind = "completed"    -> "pay"
    [] kind = "expired"      -> "expire"
    [] kind = "paid"         -> "see"
    [] kind = "failed"       -> IF invoice[n] = "paid" THEN "ignored" ELSE "record"
    [] kind = "deleted"      -> "stop"
    [] kind = "deauthorized" -> "gone"

\* (Mutant: the event is marked before it is handled.)
TakeEvent_MarksFirst(w, kind, n) ==
  /\ hand[w].at = "idle"
  /\ event[kind][n] = "pending"
  /\ event' = [event EXCEPT ![kind][n] = "applied"]
  /\ hand' = [hand EXCEPT ![w] = [at |-> FirstStage(kind, n), kind |-> kind, cycle |-> n, tail |-> 0]]
  /\ UNCHANGED <<bookVars, stripeVars, office, upsets, overlapped>>

\* Where the club revoked access every call is refused (403) and the event is
\* 'failed', but for those handled without asking Stripe.
TakeEvent(w, kind, n) ==
  /\ hand[w].at = "idle"
  /\ event[kind][n] = "pending"
  /\ LET refused == revoked /\ kind \notin {"expired", "deauthorized"}
         at == IF refused THEN "failed" ELSE FirstStage(kind, n)
     IN  hand' = [hand EXCEPT ![w] = [at |-> at, kind |-> kind, cycle |-> n, tail |-> 0]]
  /\ overlapped' =
       IF kind \notin Money THEN overlapped
       ELSE IF Busy(w) THEN overlapped \cup {n} \cup {hand[v].cycle : v \in {u \in Workers \ {w} : Handles(u)}}
       ELSE IF kind = "paid" /\ event["completed"][1] = "pending" THEN overlapped \cup {n}
       ELSE overlapped
  /\ UNCHANGED <<bookVars, stripeVars, event, office, upsets>>

Goes(w, at) == hand' = [hand EXCEPT ![w].at = at, ![w].tail = 0]

---------------------------------------------------------------------------
(* checkout.session.completed and .expired.                                *)

\* (Mutant: the checkout's own row is not looked for.)
CancelIsOwed_RenewalsOnly == (\E n \in Cycles : listed[n] > 0) /\ chain = <<>>

\* subscriptionCancelOwed: a row of ours is unapplied and no period exists.
CancelIsOwed == (checkout = "unapplied" \/ \E n \in Cycles : listed[n] > 0) /\ chain = <<>>

\* The first period, its charge and the payment; or the money is unapplied: not
\* in EUR, the client erased, the row closed.  Settled before: end what is owed.
ApplyCheckoutPaid(w) ==
  /\ hand[w].at = "pay"
  /\ \/ /\ checkout = "open" /\ 1 \notin Foreign /\ ~erased
        /\ checkout' = "paid"
        /\ chain' = Append(chain, [cycle |-> 1, start |-> time, renews |-> TRUE,
                                   cancelled |-> FALSE, notice |-> Never])
        /\ booked' = booked \cup {1}
        /\ Goes(w, "applied")
     \/ /\ checkout = "expired" \/ (checkout = "open" /\ (1 \in Foreign \/ erased))
        /\ checkout' = "unapplied"
        /\ UNCHANGED <<chain, booked>>
        /\ Goes(w, "end")
     \/ /\ checkout \in {"paid", "unapplied"}
        /\ UNCHANGED <<checkout, chain, booked>>
        /\ Goes(w, IF CancelIsOwed THEN "end" ELSE "ignored")
  /\ UNCHANGED <<listed, recorded, erased, gone, stripeVars, event, office, upsets, overlapped>>

ExpireCheckout(w) ==
  /\ hand[w].at = "expire"
  /\ checkout' = IF checkout = "open" THEN "expired" ELSE checkout
  /\ Goes(w, IF checkout = "open" THEN "applied" ELSE "ignored")
  /\ UNCHANGED <<chain, booked, listed, recorded, erased, gone, stripeVars, event, office,
                 upsets, overlapped>>

---------------------------------------------------------------------------
(* invoice.paid.                                                           *)

\* (Mutant: it is not asked whether the payment is in the books.)
SeePayment_NeverLooks(w) ==
  /\ hand[w].at = "see"
  /\ Goes(w, "tail")
  /\ UNCHANGED <<bookVars, stripeVars, event, office, upsets, overlapped>>

SeePayment(w) ==
  /\ hand[w].at = "see"
  /\ Goes(w, IF hand[w].cycle \in booked THEN "ignored" ELSE "tail")
  /\ UNCHANGED <<bookVars, stripeVars, event, office, upsets, overlapped>>

\* The chain's last period, unless it is cancelled.
HasTail == chain # <<>> /\ ~chain[Len(chain)].cancelled

ReadTail(w) ==
  /\ hand[w].at = "tail"
  /\ hand' = [hand EXCEPT ![w].at = IF HasTail THEN "append" ELSE "owed",
                          ![w].tail = IF HasTail THEN Len(chain) ELSE 0]
  /\ UNCHANGED <<bookVars, stripeVars, event, office, upsets, overlapped>>

\* The period that would follow one, and whether the books refuse it.
StartAfter(period) == IF period.start >= time THEN period.start + 1 ELSE time

\* (Mutant: the notice is not looked at.)
Refuses_NoNotice(period, n) == n \in Foreign \/ ~period.renews

Refuses(period, n) ==
  \/ n \in Foreign
  \/ ~period.renews
  \/ period.notice # Never /\ StartAfter(period) > period.notice

\* The period is there still, and not cancelled.
Stands(i) == IF i \in 1..Len(chain) THEN ~chain[i].cancelled ELSE FALSE

\* Under the tail's lock the row is judged again as it is now; that another
\* period follows it meanwhile only the INSERT finds out.
AppendPeriod(w) ==
  LET t == hand[w].tail
      n == hand[w].cycle
  IN
  /\ hand[w].at = "append"
  /\ \/ /\ ~Stands(t)
        /\ Goes(w, "owed")
        /\ UNCHANGED <<chain, booked>>
     \/ /\ Stands(t) /\ Refuses(chain[t], n)
        /\ Goes(w, "read")
        /\ UNCHANGED <<chain, booked>>
     \/ /\ Stands(t) /\ ~Refuses(chain[t], n) /\ t < Len(chain)
        /\ Goes(w, "ignored")
        /\ UNCHANGED <<chain, booked>>
     \/ /\ Stands(t) /\ ~Refuses(chain[t], n) /\ t = Len(chain)
        /\ chain' = Append(chain, [cycle |-> n, start |-> StartAfter(chain[t]), renews |-> TRUE,
                                   cancelled |-> FALSE, notice |-> chain[t].notice])
        /\ booked' = booked \cup {n}
        /\ Goes(w, "applied")
  /\ UNCHANGED <<checkout, listed, recorded, erased, gone, stripeVars, event, office, upsets,
                 overlapped>>

\* recordUnappliedRenewal, first what it finds ...
ReadListed(w) ==
  /\ hand[w].at = "read"
  /\ Goes(w, IF listed[hand[w].cycle] > 0 THEN "end" ELSE "list")
  /\ UNCHANGED <<bookVars, stripeVars, event, office, upsets, overlapped>>

\* ... and then what it writes.  An invoice is within the amounts a checkout
\* may have (50 to 10 000 000 cents); of any other it would list nothing.
ListRenewal(w) ==
  /\ hand[w].at = "list"
  /\ listed' = [listed EXCEPT ![hand[w].cycle] = @ + 1]
  /\ Goes(w, "end")
  /\ UNCHANGED <<checkout, chain, booked, recorded, erased, gone, stripeVars, event, office,
                 upsets, overlapped>>

---------------------------------------------------------------------------
(* invoice.payment_failed, customer.subscription.deleted,                  *)
(* account.application.deauthorized.                                       *)

\* Once per invoice; the tail is locked first.
RecordRenewalPaymentFailed(w) ==
  /\ hand[w].at = "record"
  /\ \/ /\ HasTail
        /\ recorded' = recorded \cup {hand[w].cycle}
        /\ Goes(w, IF hand[w].cycle \in recorded THEN "ignored" ELSE "applied")
     \/ /\ ~HasTail
        /\ UNCHANGED recorded
        /\ Goes(w, "owed")
  /\ UNCHANGED <<checkout, chain, booked, listed, erased, gone, stripeVars, event, office,
                 upsets, overlapped>>

Stopped == [i \in 1..Len(chain) |-> [chain[i] EXCEPT !.renews = FALSE]]

StopSubscription(w) ==
  /\ hand[w].at = "stop"
  /\ chain' = Stopped
  /\ Goes(w, IF \E i \in 1..Len(chain) : chain[i].renews THEN "applied" ELSE "ignored")
  /\ UNCHANGED <<checkout, booked, listed, recorded, erased, gone, stripeVars, event, office,
                 upsets, overlapped>>

\* The connection, the open checkout and the chain end in one transaction.
MarkPaymentAccountGone(w) ==
  /\ hand[w].at = "gone"
  /\ IF gone
     THEN UNCHANGED <<checkout, chain, gone>>
     ELSE /\ gone' = TRUE
          /\ checkout' = IF checkout = "open" THEN "expired" ELSE checkout
          /\ chain' = Stopped
  /\ Goes(w, IF gone THEN "ignored" ELSE "applied")
  /\ UNCHANGED <<booked, listed, recorded, erased, stripeVars, event, office, upsets, overlapped>>

---------------------------------------------------------------------------
(* No chain carries the subscription, money refused, and the event's mark. *)

AskOwed(w) ==
  /\ hand[w].at = "owed"
  /\ Goes(w, IF ~CancelIsOwed THEN "ignored" ELSE IF hand[w].kind = "paid" THEN "read" ELSE "end")
  /\ UNCHANGED <<bookVars, stripeVars, event, office, upsets, overlapped>>

\* One already ended, and an account that revoked access, are no error.
EndSubscription(w) ==
  /\ hand[w].at = "end"
  /\ IF sub = "active" /\ ~revoked
     THEN sub' = "canceled" /\ Raise("deleted", 1)
     ELSE UNCHANGED <<sub, event>>
  /\ Goes(w, IF hand[w].kind = "failed" /\ ~revoked THEN "applied" ELSE "failed")
  /\ UNCHANGED <<bookVars, session, ends, invoice, revoked, time, office, upsets, overlapped>>

\* (Mutant: it is marked while its handler is still at it.)
MarkEvent_Early(w) ==
  /\ hand[w].at # "idle"
  /\ event' = [event EXCEPT ![hand[w].kind][hand[w].cycle] = hand[w].at]
  /\ hand' = [hand EXCEPT ![w] = Idle]
  /\ UNCHANGED <<bookVars, stripeVars, office, upsets, overlapped>>

MarkEvent(w) ==
  /\ hand[w].at \in Outcomes
  /\ LET kind == hand[w].kind
         n == hand[w].cycle
     IN  event' = IF event[kind][n] = "pending"
                  THEN [event EXCEPT ![kind][n] = hand[w].at] ELSE event
  /\ hand' = [hand EXCEPT ![w] = Idle]
  /\ UNCHANGED <<bookVars, stripeVars, office, upsets, overlapped>>

\* A statement or a call fails, or the worker dies: the event stays pending.
FailJob(w) ==
  /\ hand[w].at # "idle"
  /\ Upset
  /\ hand' = [hand EXCEPT ![w] = Idle]
  /\ UNCHANGED <<bookVars, stripeVars, event, office, overlapped>>

---------------------------------------------------------------------------
(* The office and the member: first at Stripe, then in the books.          *)

\* subscriptionRefsFor: a period that renews, of those the operation is about.
Billed(op, i) ==
  IF op \in {"stop", "cancel"} THEN chain[i].renews
  ELSE \E j \in 1..Len(chain) : chain[j].renews

SetToEnd(n) == ends' = IF n < ends THEN n ELSE ends

\* closeOpenCheckouts, for an erasure: the open row of a page that is not paid.
ClosesPage(op) == op = "erase" /\ checkout = "open" /\ session # "complete" /\ ~revoked

\* What an operation asks of Stripe: to end now, or with the cycle under way.
\* Where nothing renews, or the account is gone, it asks nothing; a subscription
\* already ended there is refused like an account that cannot be reached.
Asks(op, i) == Billed(op, i) /\ ~gone
Granted(op, i) == Asks(op, i) => sub = "active" /\ ~revoked
StopProviderSubscriptions(op, i) ==
  LET now == Asks(op, i) /\ op = "erase"
  IN
  /\ sub' = IF now THEN "canceled" ELSE sub
  /\ IF Asks(op, i) /\ ~now THEN SetToEnd(time) ELSE UNCHANGED ends
  /\ IF now THEN Raise("deleted", 1)
     ELSE IF ClosesPage(op) /\ session = "open" THEN Raise("expired", 1) ELSE UNCHANGED event

StartOperation(op, i) ==
  /\ office = NoOperation /\ ~erased /\ time <= MaxCycles
  /\ op \in {"stop", "cancel"} <=> i \in 1..Len(chain)
  /\ Upset
  /\ Granted(op, i)
  /\ StopProviderSubscriptions(op, i)
  /\ session' = IF ClosesPage(op) THEN "expired" ELSE session
  /\ checkout' = IF ClosesPage(op) THEN "expired" ELSE checkout
  /\ office' = [op |-> op, at |-> i]
  /\ UNCHANGED <<chain, booked, listed, recorded, erased, gone, invoice, revoked, time, hand,
                 overlapped>>

\* It goes no further: Stripe's answer was lost, or the write failed.
AbandonOperation ==
  /\ office # NoOperation
  /\ office' = NoOperation
  /\ UNCHANGED <<bookVars, stripeVars, event, hand, upsets, overlapped>>

Writes(op) == office.op = op /\ office' = NoOperation

SetMembershipRenewal ==
  /\ Writes("stop")
  /\ LET i == office.at
     IN  chain' = IF i = Len(chain) /\ ~chain[i].cancelled
                  THEN [chain EXCEPT ![i].renews = FALSE] ELSE chain
  /\ UNCHANGED <<checkout, booked, listed, recorded, erased, gone, stripeVars, event, hand,
                 upsets, overlapped>>

CancelMembership ==
  /\ Writes("cancel")
  /\ chain' = [chain EXCEPT ![office.at].cancelled = TRUE]
  /\ UNCHANGED <<checkout, booked, listed, recorded, erased, gone, stripeVars, event, hand,
                 upsets, overlapped>>

\* (The restore that comes before a second one changes nothing here.)
SetMemberArchived ==
  /\ Writes("archive")
  /\ chain' = Stopped
  /\ UNCHANGED <<checkout, booked, listed, recorded, erased, gone, stripeVars, event, hand,
                 upsets, overlapped>>

\* The client's memberships go with the record; checkouts and payments stay.
EraseMember ==
  /\ Writes("erase")
  /\ erased' = TRUE
  /\ chain' = <<>>
  /\ UNCHANGED <<checkout, booked, listed, recorded, gone, stripeVars, event, hand, upsets,
                 overlapped>>

\* The member's notice: the tail stays locked from its read to the write, the
\* call to Stripe within; the write may still fail after it.
MemberStopRenewal(last, written) ==
  /\ HasTail
  /\ LET tail == chain[Len(chain)]
     IN  tail.renews /\ tail.notice = Never
  /\ time <= last /\ last < Never
  /\ Upset
  /\ gone \/ (sub = "active" /\ ~revoked)
  /\ IF gone THEN UNCHANGED ends ELSE SetToEnd(last)
  /\ chain' = IF written THEN [chain EXCEPT ![Len(chain)].notice = last] ELSE chain
  /\ UNCHANGED <<checkout, booked, listed, recorded, erased, gone, session, sub, invoice, revoked,
                 time, event, hand, office, overlapped>>

---------------------------------------------------------------------------

HandlerStep(w) ==
  \/ ApplyCheckoutPaid(w) \/ ExpireCheckout(w)
  \/ SeePayment(w) \/ ReadTail(w) \/ AppendPeriod(w) \/ ReadListed(w) \/ ListRenewal(w)
  \/ RecordRenewalPaymentFailed(w) \/ StopSubscription(w) \/ MarkPaymentAccountGone(w)
  \/ AskOwed(w) \/ EndSubscription(w) \/ MarkEvent(w)
WorkerStep(w) ==
  \/ \E kind \in Kinds, n \in Cycles : TakeEvent(w, kind, n)
  \/ HandlerStep(w)

StripeStep ==
  \/ PaySession \/ SessionExpires \/ Tick \/ EndsAtStripe \/ RevokeAccess
  \/ \E result \in {"paid", "failed"} : Bill(result)
  \/ \E n \in Cycles : PayLater(n)

OfficeStep ==
  \/ \E op \in {"stop", "cancel"}, i \in 1..Len(chain) : StartOperation(op, i)
  \/ \E op \in {"archive", "erase"} : StartOperation(op, 0)
  \/ AbandonOperation
  \/ SetMembershipRenewal \/ CancelMembership \/ SetMemberArchived \/ EraseMember
  \/ \E last \in Cycles, written \in BOOLEAN : MemberStopRenewal(last, written)

Next ==
  \/ StripeStep \/ OfficeStep
  \/ \E w \in Workers : WorkerStep(w) \/ FailJob(w)

\* The queue and the sweep bring a pending event back, and a handler goes on as
\* long as it lives.
Fairness == \A w \in Workers : WF_vars(WorkerStep(w))

Spec == Init /\ [][Next]_vars
FairSpec == Spec /\ Fairness

---------------------------------------------------------------------------
(* Properties.                                                             *)

\* Every column and local has its type.
TypeOK ==
  /\ checkout \in {"open", "paid", "unapplied", "expired"}
  /\ chain \in Seq(Periods)
  /\ booked \subseteq Cycles
  /\ listed \in [Cycles -> Nat]
  /\ recorded \subseteq Cycles
  /\ erased \in BOOLEAN /\ gone \in BOOLEAN /\ revoked \in BOOLEAN
  /\ session \in {"open", "complete", "expired"}
  /\ sub \in {"none", "active", "canceled"}
  /\ ends \in 1..Never
  /\ invoice \in [Cycles -> {"none", "failed", "paid"}]
  /\ time \in 1..Never
  /\ event \in [Kinds -> [Cycles -> {"none", "pending"} \cup Outcomes]]
  /\ hand \in [Workers -> Hands]
  /\ office \in Operations
  /\ upsets \in 0..MaxUpsets
  /\ overlapped \subseteq Cycles

\* What the books hold of a cycle's money: periods sold for it, rows listed.
PeriodsFor(n) == {i \in 1..Len(chain) : chain[i].cycle = n}
Listed(n) == listed[n] > 0 \/ (n = 1 /\ checkout = "unapplied")

\* Where money may be dismissed: a period was cancelled, the record erased or
\* the access revoked, and nothing is left to tell the books it is theirs.
Cancelled == \E i \in 1..Len(chain) : chain[i].cancelled
ChainBroken == erased \/ revoked \/ Cancelled

\* Money whose event was processed is in the books or on the office's list,
\* however often handlers died on the way -- as long as the chain is whole, its
\* handling met no other and its amount is one the office's list takes.
MoneyKept ==
  \A n \in Cycles :
    event[IF n = 1 THEN "completed" ELSE "paid"][n] \in Outcomes /\ n \notin overlapped /\ ~ChainBroken
      => n \in booked \/ Listed(n)

\* A cycle's money is used once: one period, or one row on the list, but not
\* both and not two; only handlings that meet can do otherwise.
MoneyUsedOnce ==
  \A n \in Cycles \ overlapped :
    /\ \A i, j \in PeriodsFor(n) : i = j
    /\ listed[n] <= 1
    /\ n \in booked => ~Listed(n)

\* A period is appended only to one that renews at that moment, and that is not
\* cancelled, and not past the member's notice: whatever was read before.
AppendsOnlyWhileRenewing ==
  [][Len(chain') > Len(chain) /\ chain # <<>> =>
       LET tail == chain[Len(chain)]
           new == chain'[Len(chain')]
       IN  /\ tail.renews /\ ~tail.cancelled
           /\ tail.notice # Never => new.start <= tail.notice]_vars

\* Where the books refused the first payment or a renewal, the card is not billed
\* for ever: however often the call to Stripe failed, the subscription ends --
\* unless a period was cancelled, the access revoked or handlers met.  (What is
\* listed stays listed: to hold again and again is to be led to.)
RefusedEnds ==
  []<>((\E n \in Cycles : Listed(n)) => sub # "active" \/ revoked \/ Cancelled \/ overlapped # {})

\* (Violated.)  The money of a renewal is never dismissed: it is in the books or
\* listed for the office -- where the record exists, the access is not revoked
\* and nothing overlapped.
RenewalMoneyKept ==
  \A n \in Cycles :
    event["paid"][n] = "ignored" /\ n \notin overlapped /\ ~erased /\ ~revoked
      => n \in booked \/ Listed(n)

---------------------------------------------------------------------------
(* The promise kept: handlers that die, repeat themselves and wait for one  *)
(* another, and the two steps of the office, look to the club and the       *)
(* client like one bookkeeper (SubscriptionBooks).                          *)

\* The event that tells of a cycle's money; the money Stripe took, and the money
\* done with.
Tells(n) == IF n = 1 THEN "completed" ELSE "paid"
Taken == {n \in Cycles : invoice[n] = "paid"}
Processed == {n \in Cycles : event[Tells(n)][n] \in Outcomes}

Books == INSTANCE SubscriptionBooks WITH
           taken <- Taken, closed <- Processed, met <- overlapped

\* Whatever the handlers, the office and Stripe do, a cycle's money is used in one
\* step that the chain of that moment allows: only what Stripe took, only once,
\* listed only where nothing will be sold any more, and not dismissed before.
KeepsBooks == Books!Spec
=============================================================================
