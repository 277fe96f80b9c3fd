--------------------------- MODULE OnlinePayment ---------------------------
(***************************************************************************)
(* A club's charge paid online: the web request that opens a checkout, the *)
(* member on Stripe's page, the webhook ledger, the worker that applies    *)
(* the payment, the desk, the cancellation of the booking the charge pays  *)
(* for, and the sweep that releases a held slot nobody paid.               *)
(*                                                                         *)
(* Grain.  One action is one statement whose effect other processes see,   *)
(* or one call to Stripe.  A database transaction is one action at its     *)
(* commit, except where it reads before a lock it later waits for: the     *)
(* worker's settlement (LockCheckout, then Settle) and the hold release    *)
(* (ReadLapsed, then ReleaseLapsed).                                       *)
(*                                                                         *)
(* Row ids are used up, not reused: Checkouts bounds how many checkouts    *)
(* one behaviour opens.  The provider's session of a row is named by the   *)
(* row (the row's id is the Idempotency-Key), so is its payment.           *)
(***************************************************************************)
EXTENDS Integers, FiniteSets

CONSTANTS
  Charges,      \* club_charges rows, each with at most one booking behind it
  Checkouts,    \* the ids club_checkouts rows can take
  Tabs,         \* web requests that may run at the same time
  Workers,      \* runs of the club.payment_event handler at the same time
  Price,        \* amount_cents of every charge
  MinOnline,    \* MIN_ONLINE_CENTS: the least amount Stripe takes
  Invoiced,     \* charges with a live invoice: neither desk nor cancellation voids them
  Mismatched    \* sessions Stripe reports with another amount or currency

None == "none"

ASSUME PriceAssumption == Price \in Nat /\ MinOnline \in 1..Price
ASSUME InvoicedAssumption == Invoiced \subseteq Charges
ASSUME MismatchedAssumption == Mismatched \subseteq Checkouts
ASSUME NoneAssumption == None \notin Checkouts /\ None \notin Charges

VARIABLES
  status,       \* club_checkouts.status; "none" before the row is inserted
  chargeOf,     \* club_checkouts.charge_id
  amount,       \* club_checkouts.amount_cents
  sessionRef,   \* club_checkouts.session_ref is stored
  paid,         \* club_charge_balances.paid_cents
  voided,       \* club_charges.voided_at is set
  ledger,       \* the checkouts whose payment is a club_payments row
  hold,         \* club_reservations.state of the charge's booking
  clock,        \* where the hold's time is: see Clocks
  session,      \* the session at Stripe
  cardOnly,     \* sessions opened for a held slot: cards only, die with it
  page,         \* sessions whose URL a member was given
  event,        \* Stripe's events about a session, and the webhook ledger
  tab,          \* the web requests
  job,          \* the worker's handlers
  candidates    \* lapsed holds the release in progress has read

checkoutVars == <<status, chargeOf, amount, sessionRef>>
bookVars     == <<paid, voided, ledger>>
holdVars     == <<hold, clock, candidates>>
stripeVars   == <<session, cardOnly, page>>
vars == <<checkoutVars, bookVars, holdVars, stripeVars, event, tab, job>>

Statuses == {"none", "open", "paid", "expired", "unapplied"}
Settled  == {"paid", "unapplied"}
\* The booking behind a charge; "none": the charge pays for no booking.
Holds    == {"none", "held", "confirmed", "cancelled", "late_cancelled", "expired"}
Gone     == {"cancelled", "expired"}
\* early: over 31 minutes of the hold left; lapsed: past its grace.
Clocks   == {"early", "late", "lapsed"}
\* processing: a delayed method was submitted; failed: it was refused.
Sessions == {"none", "open", "processing", "complete", "failed", "expired"}
PaidKinds  == {"completed", "async_succeeded"}
DeadKinds  == {"async_failed", "expired"}
Kinds      == PaidKinds \cup DeadKinds
\* raised: Stripe will deliver it; pending and done: processed_at in the ledger.
Deliveries == {"none", "raised", "pending", "done"}

TabPcs == {"idle", "resume", "resume_only", "ask", "close", "insert", "create", "store",
           "read_open"}
JobPcs == {"idle", "fetch", "lock", "settle", "expire", "mark"}

\* row: the open checkout a request found, then the one it inserted.
IdleTab == [pc |-> "idle", goal |-> "pay", charge |-> None, row |-> None]
IdleJob == [pc |-> "idle", checkout |-> None, kind |-> "expired",
            due |-> 0, slotGone |-> FALSE]

TabRecord == [pc : TabPcs, goal : {"pay", "cancel"},
              charge : Charges \cup {None}, row : Checkouts \cup {None}]
JobRecord == [pc : JobPcs, checkout : Checkouts \cup {None}, kind : Kinds,
              due : Int, slotGone : BOOLEAN]

TypeOK ==
  /\ status \in [Checkouts -> Statuses]
  /\ chargeOf \in [Checkouts -> Charges \cup {None}]
  /\ amount \in [Checkouts -> Nat]
  /\ sessionRef \in [Checkouts -> BOOLEAN]
  /\ paid \in [Charges -> Nat]
  /\ voided \in [Charges -> BOOLEAN]
  /\ ledger \subseteq Checkouts
  /\ hold \in [Charges -> Holds]
  /\ clock \in [Charges -> Clocks]
  /\ session \in [Checkouts -> Sessions]
  /\ cardOnly \subseteq Checkouts
  /\ page \subseteq Checkouts
  /\ event \in [Checkouts -> [Kinds -> Deliveries]]
  /\ tab \in [Tabs -> TabRecord]
  /\ job \in [Workers -> JobRecord]
  /\ candidates \subseteq Charges

Init ==
  /\ status = [k \in Checkouts |-> "none"]
  /\ chargeOf = [k \in Checkouts |-> None]
  /\ amount = [k \in Checkouts |-> 0]
  /\ sessionRef = [k \in Checkouts |-> FALSE]
  /\ paid = [c \in Charges |-> 0]
  /\ voided = [c \in Charges |-> FALSE]
  /\ ledger = {}
  /\ hold \in [Charges -> {"none", "held", "confirmed"}]
  /\ clock = [c \in Charges |-> "early"]
  /\ session = [k \in Checkouts |-> "none"]
  /\ cardOnly = {}
  /\ page = {}
  /\ event = [k \in Checkouts |-> [e \in Kinds |-> "none"]]
  /\ tab = [t \in Tabs |-> IdleTab]
  /\ job = [w \in Workers |-> IdleJob]
  /\ candidates = {}

\* club_charge_balances.due_cents: a void charge is owed by nobody.
Due(c) == IF voided[c] THEN 0 ELSE Price - paid[c]

OpenRows(c) == {k \in Checkouts : status[k] = "open" /\ chargeOf[k] = c}

\* Bug: the row is read without FOR UPDATE.
Locked_NoRowLock(k) == FALSE

\* The row lock applyCheckoutPaid holds from its SELECT ... FOR UPDATE on.
Locked(k) == \E w \in Workers : job[w].pc = "settle" /\ job[w].checkout = k

\* hold_expires_at > now() + 31 minutes, or nothing is held.
LongEnough(c) == hold[c] = "held" => clock[c] = "early"

Raise(k, e) == event' = [event EXCEPT ![k][e] = "raised"]

-----------------------------------------------------------------------------
(* startChargeCheckout: a member's tab opens the payment page of a charge. *)

GoTo(t, pc) == tab' = [tab EXCEPT ![t].pc = pc]
EndTab(t)   == tab' = [tab EXCEPT ![t] = IdleTab]

\* The charge's open checkout as a request reads it: its id, and whether its
\* session_ref was stored THEN.
SeenPrevious(c) ==
  IF OpenRows(c) = {} THEN {[id |-> None, ref |-> FALSE]}
  ELSE {[id |-> k, ref |-> sessionRef[k]] : k \in OpenRows(c)}

StartChargeCheckout(t, c) ==
  /\ tab[t].pc = "idle"
  /\ Due(c) > 0
  /\ \E previous \in SeenPrevious(c) :
       LET resumable == hold[c] = "held" /\ previous.ref
       IN  /\ resumable \/ LongEnough(c)
           /\ tab' = [tab EXCEPT ![t] =
                [pc |-> CASE resumable -> IF LongEnough(c) THEN "resume" ELSE "resume_only"
                          [] ~resumable /\ previous.ref -> "ask"
                          [] ~resumable /\ ~previous.ref ->
                               IF previous.id = None THEN "insert" ELSE "close",
                 goal |-> "pay", charge |-> c, row |-> previous.id]]
  /\ UNCHANGED <<checkoutVars, bookVars, holdVars, stripeVars, event, job>>

\* resumableSessionUrl: a held slot's open session is handed back.  When there
\* is none, or Stripe does not answer, the request goes on only if the hold
\* was long enough when it was read.
ResumePrevious(t) ==
  /\ tab[t].pc \in {"resume", "resume_only"}
  /\ \/ /\ session[tab[t].row] = "open"
        /\ page' = page \cup {tab[t].row}
        /\ EndTab(t)
     \/ /\ IF tab[t].pc = "resume" THEN GoTo(t, "ask") ELSE EndTab(t)
        /\ UNCHANGED page
  /\ UNCHANGED <<checkoutVars, bookVars, holdVars, session, cardOnly, event, job>>

\* closePrevious at the provider: an open session is expired there; one the
\* member has completed refuses the request.
AskProvider(t) ==
  /\ tab[t].pc = "ask"
  /\ LET k == tab[t].row IN
     \/ /\ session[k] = "open"
        /\ session' = [session EXCEPT ![k] = "expired"]
        /\ Raise(k, "expired")
        /\ GoTo(t, "close")
     \/ /\ session[k] = "expired"
        /\ GoTo(t, "close")
        /\ UNCHANGED <<session, event>>
     \/ /\ session[k] \in {"processing", "complete", "failed"}
        /\ EndTab(t)
        /\ UNCHANGED <<session, event>>
  /\ UNCHANGED <<checkoutVars, bookVars, holdVars, cardOnly, page, job>>

\* Bug: the UPDATE forgets WHERE status = 'open'.
ClosePrevious_AnyStatus(t) ==
  /\ tab[t].pc = "close"
  /\ ~Locked(tab[t].row)
  /\ status' = [status EXCEPT ![tab[t].row] = "expired"]
  /\ IF tab[t].goal = "pay" THEN GoTo(t, "insert") ELSE EndTab(t)
  /\ UNCHANGED <<chargeOf, amount, sessionRef, bookVars, holdVars, stripeVars, event, job>>

\* closePrevious in the books: UPDATE ... WHERE status = 'open', waiting for
\* the row's lock.  A row whose session_ref was read as NULL comes here
\* without the provider being asked.
ClosePrevious(t) ==
  /\ tab[t].pc = "close"
  /\ ~Locked(tab[t].row)
  /\ status' = [status EXCEPT ![tab[t].row] = IF @ = "open" THEN "expired" ELSE @]
  /\ IF tab[t].goal = "pay" THEN GoTo(t, "insert") ELSE EndTab(t)
  /\ UNCHANGED <<chargeOf, amount, sessionRef, bookVars, holdVars, stripeVars, event, job>>

\* Bug: a held slot's session takes delayed methods and outlives the hold.
InsertCheckout_NotCardOnly(t) ==
  /\ tab[t].pc = "insert"
  /\ LET c == tab[t].charge IN
     IF Due(c) >= MinOnline /\ LongEnough(c) /\ OpenRows(c) = {}
     THEN \E k \in Checkouts :
            /\ status[k] = "none"
            /\ status' = [status EXCEPT ![k] = "open"]
            /\ chargeOf' = [chargeOf EXCEPT ![k] = c]
            /\ amount' = [amount EXCEPT ![k] = Due(c)]
            /\ tab' = [tab EXCEPT ![t].pc = "create", ![t].row = k]
     ELSE EndTab(t) /\ UNCHANGED <<status, chargeOf, amount>>
  /\ UNCHANGED <<cardOnly, sessionRef, bookVars, holdVars, session, page, event, job>>

\* The transaction that inserts the row: what is due, the hold and (by its
\* unique index) the one open checkout per charge are judged again.
InsertCheckout(t) ==
  /\ tab[t].pc = "insert"
  /\ LET c == tab[t].charge IN
     IF Due(c) >= MinOnline /\ LongEnough(c) /\ OpenRows(c) = {}
     THEN \E k \in Checkouts :
            /\ status[k] = "none"
            /\ status' = [status EXCEPT ![k] = "open"]
            /\ chargeOf' = [chargeOf EXCEPT ![k] = c]
            /\ amount' = [amount EXCEPT ![k] = Due(c)]
            /\ cardOnly' = IF hold[c] = "held" THEN cardOnly \cup {k} ELSE cardOnly
            /\ tab' = [tab EXCEPT ![t].pc = "create", ![t].row = k]
     ELSE EndTab(t) /\ UNCHANGED <<status, chargeOf, amount, cardOnly>>
  /\ UNCHANGED <<sessionRef, bookVars, holdVars, session, page, event, job>>

\* openSession, the call: Stripe creates the session.  The call and what leads
\* to it are bounded by timeouts far below the hold's grace, so a session that
\* dies with its hold is never created on a hold already past its grace.
CreateSession(t) ==
  /\ tab[t].pc = "create"
  /\ LET k == tab[t].row IN
     /\ k \in cardOnly => clock[tab[t].charge] # "lapsed"
     /\ session' = [session EXCEPT ![k] = "open"]
  /\ GoTo(t, "store")
  /\ UNCHANGED <<checkoutVars, bookVars, holdVars, cardOnly, page, event, job>>

\* Bug: the URL is handed over whether or not the reference could be stored.
StoreSession_PageAnyway(t) ==
  /\ tab[t].pc = "store"
  /\ LET k == tab[t].row IN
     /\ sessionRef' = [sessionRef EXCEPT ![k] = @ \/ status[k] = "open"]
     /\ page' = page \cup {k}
  /\ EndTab(t)
  /\ UNCHANGED <<status, chargeOf, amount, bookVars, holdVars, session, cardOnly, event, job>>

\* openSession, the answer: the reference is stored, and only then is the URL
\* handed over.  club_checkouts_guard refuses the reference of a row that is
\* no longer open, and the request fails.
StoreSession(t) ==
  /\ tab[t].pc = "store"
  /\ LET k == tab[t].row IN
     IF status[k] = "open"
     THEN /\ sessionRef' = [sessionRef EXCEPT ![k] = TRUE]
          /\ page' = page \cup {k}
     ELSE UNCHANGED <<sessionRef, page>>
  /\ EndTab(t)
  /\ UNCHANGED <<status, chargeOf, amount, bookVars, holdVars, session, cardOnly, event, job>>

\* A request dies or Stripe fails it (provider_error): what it wrote stays.
AbandonTab(t) ==
  /\ tab[t].pc # "idle"
  /\ EndTab(t)
  /\ UNCHANGED <<checkoutVars, bookVars, holdVars, stripeVars, event, job>>

-----------------------------------------------------------------------------
(* cancelReservation: the booking is ended, then its page is closed.       *)

\* Bug: the booking goes, its charge stays owed.
CancelReservation_KeepsCharge(t, c) ==
  /\ tab[t].pc = "idle"
  /\ hold[c] \in {"held", "confirmed"}
  /\ hold' = [hold EXCEPT ![c] = "cancelled"]
  /\ tab' = [tab EXCEPT ![t] =
       [pc |-> "read_open", goal |-> "cancel", charge |-> c, row |-> None]]
  /\ UNCHANGED <<checkoutVars, bookVars, clock, candidates, stripeVars, event, job>>

\* cancelOnce.  Late (a member, past the deadline, a confirmed booking): the
\* charge stays.  Otherwise it is voided, unless an invoice keeps it alive.
CancelReservation(t, c) ==
  /\ tab[t].pc = "idle"
  /\ \/ /\ hold[c] \in {"held", "confirmed"}
        /\ hold' = [hold EXCEPT ![c] = "cancelled"]
        /\ voided' = [voided EXCEPT ![c] = @ \/ c \notin Invoiced]
        /\ tab' = [tab EXCEPT ![t] =
             [pc |-> "read_open", goal |-> "cancel", charge |-> c, row |-> None]]
     \/ /\ hold[c] = "confirmed"
        /\ hold' = [hold EXCEPT ![c] = "late_cancelled"]
        /\ UNCHANGED <<voided, tab>>
  /\ UNCHANGED <<checkoutVars, paid, ledger, clock, candidates, stripeVars, event, job>>

\* closeChargeCheckout: the open row, read after the cancellation committed.
CloseChargeCheckout(t) ==
  /\ tab[t].pc = "read_open"
  /\ \E previous \in SeenPrevious(tab[t].charge) :
       IF previous.id = None THEN EndTab(t)
       ELSE tab' = [tab EXCEPT ![t].pc = IF previous.ref THEN "ask" ELSE "close",
                               ![t].row = previous.id]
  /\ UNCHANGED <<checkoutVars, bookVars, holdVars, stripeVars, event, job>>

-----------------------------------------------------------------------------
(* The desk, and the time of a hold.                                       *)

\* Bug: the trigger looks at the payment alone, not at the charge's sum.
FitsCharge_NoSum(c, a) == ~voided[c] /\ a <= Price

\* club_payments_within_charge lets a payment in only on a live charge and
\* within its amount; club_payments_confirm_hold confirms the held slot.
FitsCharge(c, a) == ~voided[c] /\ paid[c] + a <= Price

BookPayment(c, a) ==
  /\ paid' = [paid EXCEPT ![c] = @ + a]
  /\ hold' = [hold EXCEPT ![c] = IF @ = "held" THEN "confirmed" ELSE @]

\* Bug: the trigger keeps the sum within the amount, but not above zero.
RecordPayment_NoFloor(c) ==
  /\ \/ \E a \in 1..Price : FitsCharge(c, a) /\ BookPayment(c, a)
     \/ /\ c \notin Invoiced
        /\ \E a \in 1..Price : paid' = [paid EXCEPT ![c] = @ - a]
        /\ UNCHANGED hold
  /\ UNCHANGED <<checkoutVars, voided, ledger, clock, candidates, stripeVars, event, tab, job>>

\* recordPayment: the desk takes money, or gives some back -- on an invoiced
\* charge only after its credit note.
RecordPayment(c) ==
  /\ \/ \E a \in 1..Price : FitsCharge(c, a) /\ BookPayment(c, a)
     \/ /\ c \notin Invoiced
        /\ \E a \in 1..paid[c] : paid' = [paid EXCEPT ![c] = @ - a]
        /\ UNCHANGED hold
  /\ UNCHANGED <<checkoutVars, voided, ledger, clock, candidates, stripeVars, event, tab, job>>

\* voidCharge: whatever was paid, but never while an invoice is live.
VoidCharge(c) ==
  /\ ~voided[c] /\ c \notin Invoiced
  /\ voided' = [voided EXCEPT ![c] = TRUE]
  /\ UNCHANGED <<checkoutVars, paid, ledger, holdVars, stripeVars, event, tab, job>>

\* Time passes on a hold.  Its sessions die at its end, which is before the
\* end of its grace.
HoldClock(c) ==
  /\ hold[c] = "held"
  /\ \/ clock[c] = "early" /\ clock' = [clock EXCEPT ![c] = "late"]
     \/ /\ clock[c] = "late"
        /\ \A k \in cardOnly : chargeOf[k] = c => session[k] # "open"
        /\ clock' = [clock EXCEPT ![c] = "lapsed"]
  /\ UNCHANGED <<checkoutVars, bookVars, hold, candidates, stripeVars, event, tab, job>>

-----------------------------------------------------------------------------
(* releaseLapsedHolds, from the worker's sweep or a booking of the slot.   *)

Lapsed(c) == hold[c] = "held" /\ clock[c] = "lapsed"

ReadLapsed ==
  /\ candidates = {}
  /\ \E c \in Charges : Lapsed(c)
  /\ candidates' = {c \in Charges : Lapsed(c)}
  /\ UNCHANGED <<checkoutVars, bookVars, hold, clock, stripeVars, event, tab, job>>

\* Bug: the holds are released as they were read, before the locks.
Releasable_AsRead == candidates

\* Bug: a hold with an open checkout is spared, as if its page always closed it.
Releasable_SparesOpen == {c \in candidates : Lapsed(c) /\ paid[c] = 0 /\ OpenRows(c) = {}}

\* Under the locks (checkout, charge, reservation) the holds are judged again:
\* one with a payment on its charge is not released.  (A payment confirms the
\* hold, so a slot still held never had one unless money is on its charge.)
Releasable == {c \in candidates : Lapsed(c) /\ paid[c] = 0}

ReleaseLapsed ==
  /\ candidates # {}
  /\ \A c \in candidates : \A k \in OpenRows(c) : ~Locked(k)
  /\ hold' = [c \in Charges |-> IF c \in Releasable THEN "expired" ELSE hold[c]]
  /\ voided' = [c \in Charges |-> voided[c] \/ c \in Releasable]
  /\ status' = [k \in Checkouts |->
                  IF status[k] = "open" /\ chargeOf[k] \in Releasable THEN "expired"
                  ELSE status[k]]
  /\ candidates' = {}
  /\ UNCHANGED <<chargeOf, amount, sessionRef, paid, ledger, clock, stripeVars, event, tab, job>>

-----------------------------------------------------------------------------
(* Stripe: the member pays, the session ends, the webhook is delivered.    *)

PayByCard(k) ==
  /\ k \in page /\ session[k] = "open"
  /\ session' = [session EXCEPT ![k] = "complete"]
  /\ Raise(k, "completed")
  /\ UNCHANGED <<checkoutVars, bookVars, holdVars, cardOnly, page, tab, job>>

\* A delayed method: completed now, settled or refused days later.
PayDelayed(k) ==
  /\ k \in page \ cardOnly /\ session[k] = "open"
  /\ session' = [session EXCEPT ![k] = "processing"]
  /\ Raise(k, "completed")
  /\ UNCHANGED <<checkoutVars, bookVars, holdVars, cardOnly, page, tab, job>>

SettleDelayed(k) ==
  /\ session[k] = "processing"
  /\ \/ session' = [session EXCEPT ![k] = "complete"] /\ Raise(k, "async_succeeded")
     \/ session' = [session EXCEPT ![k] = "failed"] /\ Raise(k, "async_failed")
  /\ UNCHANGED <<checkoutVars, bookVars, holdVars, cardOnly, page, tab, job>>

SessionExpires(k) ==
  /\ session[k] = "open"
  /\ session' = [session EXCEPT ![k] = "expired"]
  /\ Raise(k, "expired")
  /\ UNCHANGED <<checkoutVars, bookVars, holdVars, cardOnly, page, tab, job>>

\* The webhook route: recordPaymentEvent, ON CONFLICT (event_id) DO NOTHING.
\* Events arrive in any order; Stripe's second delivery of one changes nothing.
RecordEvent(k, e) ==
  /\ event[k][e] = "raised"
  /\ event' = [event EXCEPT ![k][e] = "pending"]
  /\ UNCHANGED <<checkoutVars, bookVars, holdVars, stripeVars, tab, job>>

-----------------------------------------------------------------------------
(* The worker: runClubPaymentEvent.                                        *)

JobTo(w, pc) == job' = [job EXCEPT ![w].pc = pc]
EndJob(w)    == job' = [job EXCEPT ![w] = IdleJob]

\* Bug: the success of a delayed method is handled as its failure is.
TakeEvent_OnlyCompleted(w, k, e) ==
  /\ job[w].pc = "idle"
  /\ event[k][e] = "pending"
  /\ job' = [job EXCEPT ![w] =
       [pc |-> IF e = "completed" THEN "fetch" ELSE "expire",
        checkout |-> k, kind |-> e, due |-> 0, slotGone |-> FALSE]]
  /\ UNCHANGED <<checkoutVars, bookVars, holdVars, stripeVars, event, tab>>

\* paymentEventById, for a job of the queue or an event of the sweep's backlog.
TakeEvent(w, k, e) ==
  /\ job[w].pc = "idle"
  /\ event[k][e] = "pending"
  /\ job' = [job EXCEPT ![w] =
       [pc |-> IF e \in DeadKinds THEN "expire" ELSE "fetch",
        checkout |-> k, kind |-> e, due |-> 0, slotGone |-> FALSE]]
  /\ UNCHANGED <<checkoutVars, bookVars, holdVars, stripeVars, event, tab>>

\* Bug: a complete session counts as a paid one.
FetchSession_NotPaid(w) ==
  /\ job[w].pc = "fetch"
  /\ JobTo(w, IF session[job[w].checkout] \in {"complete", "processing"} THEN "lock" ELSE "mark")
  /\ UNCHANGED <<checkoutVars, bookVars, holdVars, stripeVars, event, tab>>

\* The session is fetched again: only one complete AND paid is applied.
FetchSession(w) ==
  /\ job[w].pc = "fetch"
  /\ JobTo(w, IF session[job[w].checkout] = "complete" THEN "lock" ELSE "mark")
  /\ UNCHANGED <<checkoutVars, bookVars, holdVars, stripeVars, event, tab>>

\* applyCheckoutPaid up to its wait for the charge: the open row is locked and
\* what is due is read; a row already expired becomes unapplied; any other is
\* unknown or done.
LockCheckout(w) ==
  /\ job[w].pc = "lock"
  /\ ~Locked(job[w].checkout)
  /\ LET k == job[w].checkout
         c == chargeOf[k]
     IN \/ /\ sessionRef[k] /\ status[k] = "open"
           /\ job' = [job EXCEPT ![w].pc = "settle", ![w].due = Due(c),
                                 ![w].slotGone = hold[c] \in Gone]
           /\ UNCHANGED status
        \/ /\ sessionRef[k] /\ status[k] = "expired"
           /\ status' = [status EXCEPT ![k] = "unapplied"]
           /\ JobTo(w, "mark")
        \/ /\ ~sessionRef[k] \/ status[k] \notin {"open", "expired"}
           /\ JobTo(w, "mark")
           /\ UNCHANGED status
  /\ UNCHANGED <<chargeOf, amount, sessionRef, bookVars, holdVars, stripeVars, event, tab>>

\* The money does not fit what was read: a wrong amount or currency, too
\* little due, the slot gone.  A void is seen even if it came after the read:
\* it changed the row the statement waits for, which is then judged again.
Refused(w) ==
  LET k == job[w].checkout IN
  \/ k \in Mismatched
  \/ job[w].due < amount[k]
  \/ job[w].slotGone
  \/ voided[chargeOf[k]]

\* applyCheckoutPaid from the charge's lock to its commit.  A desk payment
\* that came between the read and the lock is seen by the trigger alone: it
\* refuses the row, the transaction rolls back and the event stays pending.
Settle(w) ==
  /\ job[w].pc = "settle"
  /\ LET k == job[w].checkout
         c == chargeOf[k]
     IN \/ /\ Refused(w)
           /\ status' = [status EXCEPT ![k] = "unapplied"]
           /\ JobTo(w, "mark")
           /\ UNCHANGED <<ledger, paid, hold>>
        \/ /\ ~Refused(w) /\ FitsCharge(c, amount[k])
           /\ BookPayment(c, amount[k])
           /\ ledger' = ledger \cup {k}
           /\ status' = [status EXCEPT ![k] = "paid"]
           /\ JobTo(w, "mark")
        \/ /\ ~Refused(w) /\ ~FitsCharge(c, amount[k])
           /\ EndJob(w)
           /\ UNCHANGED <<status, ledger, paid, hold>>
  /\ UNCHANGED <<chargeOf, amount, sessionRef, voided, clock, candidates, stripeVars, event, tab>>

\* expireCheckout: the session ended unpaid.  It is not fetched again.
ExpireCheckout(w) ==
  /\ job[w].pc = "expire"
  /\ ~Locked(job[w].checkout)
  /\ LET k == job[w].checkout IN
     status' = [status EXCEPT ![k] = IF @ = "open" /\ sessionRef[k] THEN "expired" ELSE @]
  /\ JobTo(w, "mark")
  /\ UNCHANGED <<chargeOf, amount, sessionRef, bookVars, holdVars, stripeVars, event, tab>>

MarkEvent(w) ==
  /\ job[w].pc = "mark"
  /\ event' = [event EXCEPT ![job[w].checkout][job[w].kind] = "done"]
  /\ EndJob(w)
  /\ UNCHANGED <<checkoutVars, bookVars, holdVars, stripeVars, tab>>

\* Bug: the event was marked processed before it was applied.
FailJob_MarkedFirst(w) ==
  /\ job[w].pc # "idle"
  /\ event' = [event EXCEPT ![job[w].checkout][job[w].kind] = "done"]
  /\ EndJob(w)
  /\ UNCHANGED <<checkoutVars, bookVars, holdVars, stripeVars, tab>>

\* Stripe or the database fails the handler, or the worker restarts: an open
\* transaction rolls back, its locks go, and the event stays pending.
FailJob(w) ==
  /\ job[w].pc # "idle"
  /\ EndJob(w)
  /\ UNCHANGED <<checkoutVars, bookVars, holdVars, stripeVars, event, tab>>

-----------------------------------------------------------------------------
TabStep(t) ==
  \/ \E c \in Charges : StartChargeCheckout(t, c) \/ CancelReservation(t, c)
  \/ ResumePrevious(t) \/ AskProvider(t) \/ ClosePrevious(t) \/ InsertCheckout(t)
  \/ CreateSession(t) \/ StoreSession(t) \/ CloseChargeCheckout(t) \/ AbandonTab(t)

ClubStep ==
  \/ \E c \in Charges : RecordPayment(c) \/ VoidCharge(c) \/ HoldClock(c)
  \/ ReadLapsed \/ ReleaseLapsed

StripeStep(k) ==
  \/ PayByCard(k) \/ PayDelayed(k) \/ SettleDelayed(k) \/ SessionExpires(k)
  \/ \E e \in Kinds : RecordEvent(k, e)

WorkerStep(w) ==
  \/ \E k \in Checkouts, e \in Kinds : TakeEvent(w, k, e)
  \/ FetchSession(w) \/ LockCheckout(w) \/ Settle(w) \/ ExpireCheckout(w)
  \/ MarkEvent(w) \/ FailJob(w)

Next ==
  \/ \E t \in Tabs : TabStep(t)
  \/ ClubStep
  \/ \E k \in Checkouts : StripeStep(k)
  \/ \E w \in Workers : WorkerStep(w)

Spec == Init /\ [][Next]_vars

\* Stripe retries a delivery for days; the queue retries a failed event and
\* the sweep comes back every ten minutes for ever, so an outage that ends
\* lets each step of a handler through; the sweep also releases holds, and a
\* hold's time passes.  A settlement the desk was quicker than rolls back, but
\* the desk is not quicker every time for ever.  Nothing else is assumed of the
\* desk, and nothing of the members and the tabs.
Fairness ==
  /\ \A k \in Checkouts, e \in Kinds : WF_vars(RecordEvent(k, e))
  /\ \A w \in Workers :
       /\ SF_vars(\E k \in Checkouts, e \in Kinds : TakeEvent(w, k, e))
       /\ SF_vars(FetchSession(w)) /\ SF_vars(LockCheckout(w))
       /\ SF_vars(Settle(w)) /\ SF_vars(Settle(w) /\ job'[w].pc = "mark")
       /\ SF_vars(ExpireCheckout(w)) /\ SF_vars(MarkEvent(w))
  /\ WF_vars(ReadLapsed) /\ SF_vars(ReleaseLapsed)

FairSpec == Spec /\ Fairness
-----------------------------------------------------------------------------
(* What must hold.                                                         *)

\* Money is never lost: once every event that reports it is processed, money
\* Stripe took is booked on its charge or listed for the office to refund.
MoneyAccounted ==
  \A k \in Checkouts :
    session[k] = "complete" /\ (\A e \in PaidKinds : event[k][e] \notin {"raised", "pending"})
      => status[k] \in Settled

\* The books never claim money that did not come: a checkout is settled only
\* if its session was paid, and only a paid one has a payment on its charge.
BooksTrue ==
  \A k \in Checkouts : /\ status[k] \in Settled => session[k] = "complete"
                       /\ k \in ledger <=> status[k] = "paid"

\* Money never takes a charge past its amount, though the settlement judges
\* what is due before it waits for the charge, and the desk takes money too.
WithinCharge == \A c \in Charges : paid[c] <= Price

\* A hold the club was paid for is never released, whichever of the payment
\* and the sweep comes first.
PaidSlotKept == \A c \in Charges : paid[c] > 0 => hold[c] \notin {"held", "expired"}

\* Once a hold was released no page takes money for its slot: the session
\* dies with the hold, and a late answer of Stripe's hands no page over.
ReleasedTakesNoMoney ==
  \A k \in page : session[k] = "open" => hold[chargeOf[k]] # "expired"

\* A settled checkout is final, and one that was closed changes once more
\* only to record money that came late.
FinalStays ==
  [][\A k \in Checkouts :
       /\ status[k] \in Settled => status'[k] = status[k]
       /\ status[k] = "expired" => status'[k] \in {"expired", "unapplied"}]_vars

\* Money is booked only while the booking it pays for still stands.
GoneSlotNotBooked ==
  [][\A k \in Checkouts : k \in ledger' \ ledger => hold[chargeOf[k]] \notin Gone]_vars

\* A second click replaces the first: a charge never has two pages that can
\* still be paid.
OnePayablePage ==
  \A k1, k2 \in page : session[k1] = "open" /\ session[k2] = "open"
                         /\ chargeOf[k1] = chargeOf[k2] => k1 = k2

\* Money Stripe took reaches the books or the office's refund list.
MoneySettles ==
  \A k \in Checkouts : session[k] = "complete" ~> status[k] \in Settled

\* A hold nobody paid does not keep its slot for ever.
LapsedHoldEnds == \A c \in Charges : Lapsed(c) ~> hold[c] # "held"

-----------------------------------------------------------------------------
(* What the detail implements.                                             *)

MoneyOf(k) ==
  CASE status[k] = "paid"      -> "booked"
    [] status[k] = "unapplied" -> "owed"
    [] status[k] \notin Settled /\ session[k] = "complete" -> "taken"
    [] status[k] \notin Settled /\ session[k] # "complete" -> "none"

Money == [k \in Checkouts |-> MoneyOf(k)]

Intake == INSTANCE PaymentIntake WITH money <- Money, total <- paid

\* Every behaviour of tabs, deliveries, desk and worker is one of the intake's:
\* money is booked once, in the same step as the charge's total, or owed.
KeepsIntake == Intake!Spec

-----------------------------------------------------------------------------
(* Why it holds: the inductive invariant.                                  *)

\* An id not used yet has left no trace; a row has a charge and an amount.
RowsKnown ==
  \A k \in Checkouts :
    IF status[k] = "none"
    THEN /\ chargeOf[k] = None /\ ~sessionRef[k] /\ session[k] = "none"
         /\ k \notin cardOnly
    ELSE /\ chargeOf[k] \in Charges
         /\ amount[k] \in 1..Price

\* A page is handed over after its reference is stored, and paid on.
PagesStored ==
  \A k \in Checkouts :
    /\ k \in page => sessionRef[k]
    /\ session[k] \in {"processing", "complete", "failed"} => k \in page

\* A request works on a row that exists, and its row has no session yet when
\* it is about to create one.
TabKnown(t) ==
  /\ tab[t].pc # "idle" => tab[t].charge \in Charges
  /\ tab[t].pc \in {"resume", "resume_only", "ask", "close", "create", "store"}
       => /\ tab[t].row \in Checkouts
          /\ status[tab[t].row] # "none"
  /\ tab[t].pc \in {"resume", "resume_only"} => sessionRef[tab[t].row]
  /\ tab[t].pc = "create" => /\ session[tab[t].row] = "none"
                             /\ chargeOf[tab[t].row] = tab[t].charge

TabsKnown == \A t \in Tabs : TabKnown(t)

\* Only the request that inserted a row creates its session.
OneCreator ==
  \A t, u \in Tabs :
    tab[t].pc = "create" /\ tab[u].pc = "create" /\ tab[t].row = tab[u].row => t = u

\* Stripe says a session is paid only when it is; "completed" alone does not.
NewsTrue ==
  \A k \in Checkouts :
    /\ event[k]["completed"] # "none" => session[k] \notin {"none", "open"}
    /\ event[k]["async_succeeded"] # "none" => session[k] = "complete"

\* What a handler knows of its event and, from the fetch on, of the session.
JobKnown(w) ==
  /\ job[w].pc # "idle" => /\ job[w].checkout \in Checkouts
                           /\ event[job[w].checkout][job[w].kind] # "none"
  /\ job[w].pc \in {"fetch", "lock", "settle"} => job[w].kind \in PaidKinds
  /\ job[w].pc = "expire" => job[w].kind \in DeadKinds
  /\ job[w].pc \in {"lock", "settle"} => session[job[w].checkout] = "complete"

JobsKnown == \A w \in Workers : JobKnown(w)

\* The row a settlement locked stays open under it ...
LocksHold == \A w \in Workers : job[w].pc = "settle" => status[job[w].checkout] = "open"

\* ... and is its alone.
OneSettler ==
  \A w, v \in Workers :
    job[w].pc = "settle" /\ job[v].pc = "settle" /\ job[w].checkout = job[v].checkout => w = v

\* A handler about to mark its event either settled the row or may leave the
\* money to the event of its delayed method.
MarkJust(w) ==
  job[w].pc = "mark" /\ job[w].kind \in PaidKinds =>
    LET k == job[w].checkout IN
    \/ status[k] \in Settled
    \/ /\ job[w].kind = "completed"
       /\ session[k] = "complete" => event[k]["async_succeeded"] \in {"raised", "pending"}

MarksJust == \A w \in Workers : MarkJust(w)

\* A released hold leaves a void charge; a held slot's sessions are cards
\* only, and none is open past the hold's grace.
HoldsKnown ==
  \A c \in Charges :
    /\ hold[c] = "expired" => voided[c] /\ clock[c] = "lapsed"
    /\ hold[c] \in {"held", "expired"} => \A k \in Checkouts : chargeOf[k] = c => k \in cardOnly
    /\ clock[c] = "lapsed" => \A k \in cardOnly : chargeOf[k] = c => session[k] # "open"

\* A booking that went away took its charge with it, unless invoiced.
GoneVoid == \A c \in Charges \ Invoiced : hold[c] \in Gone => voided[c]

\* The inductive invariant: the safety invariants above, and what the code
\* keeps true of rows, pages, locks, handlers and holds for them to hold.
IInv ==
  /\ TypeOK
  /\ MoneyAccounted /\ BooksTrue /\ WithinCharge /\ PaidSlotKept
  /\ RowsKnown /\ PagesStored /\ TabsKnown /\ OneCreator /\ NewsTrue /\ JobsKnown
  /\ LocksHold /\ OneSettler /\ MarksJust /\ HoldsKnown /\ GoneVoid
=============================================================================
