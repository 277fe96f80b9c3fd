------------------------- MODULE SubscriptionsProofs -------------------------
(***************************************************************************)
(* Proofs about Subscriptions, for any handlers, number of cycles, foreign *)
(* invoices and upsets.                                                    *)
(*                                                                         *)
(* A refused renewal stays refused: once nothing can be appended (Over),   *)
(* nothing ever can.  So what is on the office's list is never booked, and *)
(* a handler that is alone with its money may trust what it has read.      *)
(***************************************************************************)
EXTENDS Subscriptions, SequenceTheorems, TLAPS

---------------------------------------------------------------------------
(* The inductive invariant.                                                *)

\* The first payment is told by `completed`, every other by `paid`.
Cycled ==
  /\ invoice[1] # "failed" /\ event["paid"][1] = "none"
  /\ \A n \in Cycles : event["completed"][n] # "none" => n = 1
  /\ \A w \in Workers : /\ hand[w].kind = "paid" => hand[w].cycle # 1
                        /\ hand[w].kind = "completed" => hand[w].cycle = 1

\* The stages of a handler belong to its kind of event.
Staged ==
  \A w \in Workers :
    /\ hand[w].at \in {"see", "tail", "append", "read", "list"} => hand[w].kind = "paid"
    /\ hand[w].at = "pay" => hand[w].kind = "completed"
    /\ hand[w].at = "owed" => hand[w].kind # "completed"
    /\ hand[w].at \in {"expire", "record", "stop", "gone"} => hand[w].kind \notin Money

\* Handlers of money that are at it together are excused.
Apart ==
  \A v, w \in Workers : v # w /\ Handles(v) /\ Handles(w) => hand[w].cycle \in overlapped

\* The chain begins with the checkout's payment, and every period was paid.
Sold ==
  /\ chain # <<>> => checkout = "paid"
  /\ checkout = "paid" <=> 1 \in booked
  /\ checkout = "paid" => chain # <<>> \/ erased
  /\ \A i \in 1..Len(chain) : chain[i].cycle \in booked

\* A renewal is refused only once the checkout is closed.
Closed ==
  /\ listed[1] = 0
  /\ \A n \in Cycles : listed[n] > 0 => checkout # "open"
  /\ \A w \in Workers : hand[w].at \in {"append", "read", "list"} => checkout # "open"

\* Nothing will be appended any more.
Over ==
  IF chain = <<>> THEN checkout # "open"
  ELSE \/ chain[Len(chain)].cancelled
       \/ ~chain[Len(chain)].renews
       \/ chain[Len(chain)].notice # Never /\ StartAfter(chain[Len(chain)]) > chain[Len(chain)].notice

\* What is on the list is there once, is not booked and never will be.
UsedOnce(n) ==
  /\ \A i, j \in PeriodsFor(n) : i = j
  /\ listed[n] <= 1
  /\ listed[n] > 0 => n \notin booked /\ (n \in Foreign \/ Over)

\* What the handler of a renewal knows of it while it is alone.
HandSafe(w) ==
  hand[w].kind = "paid" /\ hand[w].cycle \notin overlapped =>
    /\ hand[w].at \in {"tail", "append", "owed", "read", "list"} => hand[w].cycle \notin booked
    /\ hand[w].at = "append" => chain = <<>> \/ hand[w].tail = Len(chain)
    /\ hand[w].at \in {"read", "list"} => hand[w].cycle \in Foreign \/ Over
    /\ hand[w].at = "list" => listed[hand[w].cycle] = 0

\* Stripe bills only what it has told of, and the checkout of an event processed
\* with the access given is settled.
Settled == checkout \in {"paid", "unapplied"}
Told ==
  /\ sub # "none" => event["completed"][1] # "none"
  /\ \A n \in Cycles : event["paid"][n] # "none" => sub # "none"
  /\ event["completed"][1] \in Outcomes /\ ~revoked => Settled

\* A handler is done with money only when the money is kept.
Kept(n) == n \in booked \/ Listed(n)
Done(w) == hand[w].at \in Outcomes \cup {"end"}
HandKeeps(w) ==
  /\ hand[w].kind = "completed" /\ Done(w) /\ ~revoked => Settled
  /\ hand[w].kind = "paid" /\ hand[w].at # "idle" /\ hand[w].cycle \notin overlapped /\ ~ChainBroken =>
       /\ Settled
       /\ hand[w].at = "owed" => chain = <<>>
       /\ Done(w) => Kept(hand[w].cycle)

SInv ==
  /\ TypeOK /\ Cycled /\ Staged /\ Apart /\ Sold /\ Closed /\ Told /\ MoneyKept
  /\ \A n \in Cycles \ overlapped : UsedOnce(n)
  /\ \A w \in Workers : HandSafe(w) /\ HandKeeps(w)

---------------------------------------------------------------------------
(* What a step does to the ledger, to the hands and to the chain.          *)

LEMMA FirstCycle == 1 \in Cycles
BY CyclesAssumption DEF Cycles

\* Where an event is raised.
LEMMA RaiseEffect ==
  ASSUME TypeOK, NEW kind \in Kinds, NEW n \in Cycles, Raise(kind, n)
  PROVE  /\ event' \in [Kinds -> [Cycles -> {"none", "pending"} \cup Outcomes]]
         /\ \A k \in Kinds, m \in Cycles :
              event'[k][m] = IF k = kind /\ m = n THEN "pending" ELSE event[k][m]
BY DEF TypeOK, Raise

\* A handler goes on to its next stage, with nothing else it has read.
LEMMA GoesEffect ==
  ASSUME TypeOK, NEW w \in Workers, NEW at \in Stages \cup Outcomes, Goes(w, at)
  PROVE  /\ hand' \in [Workers -> Hands]
         /\ hand'[w].at = at /\ hand'[w].kind = hand[w].kind /\ hand'[w].cycle = hand[w].cycle
         /\ \A v \in Workers \ {w} : hand'[v] = hand[v]
BY DEF TypeOK, Goes, Hands

\* ... with the end of the chain.
LEMMA TailEffect ==
  ASSUME TypeOK, NEW w \in Workers, ReadTail(w)
  PROVE  /\ hand' \in [Workers -> Hands]
         /\ hand'[w].at = IF HasTail THEN "append" ELSE "owed"
         /\ hand'[w].tail = IF HasTail THEN Len(chain) ELSE 0
         /\ hand'[w].kind = hand[w].kind /\ hand'[w].cycle = hand[w].cycle
         /\ \A v \in Workers \ {w} : hand'[v] = hand[v]
<1>1. Len(chain) \in Nat
  BY LenProperties DEF TypeOK
<1> DEFINE at == IF HasTail THEN "append" ELSE "owed"
           tail == IF HasTail THEN Len(chain) ELSE 0
<1>2. at \in Stages /\ tail \in Nat
  BY <1>1 DEF Stages
<1>3. hand' = [hand EXCEPT ![w].at = at, ![w].tail = tail]
  BY DEF ReadTail
<1>4. at = IF HasTail THEN "append" ELSE "owed"
  OBVIOUS
<1>5. tail = IF HasTail THEN Len(chain) ELSE 0
  OBVIOUS
<1> HIDE DEF at, tail
<1>6. /\ hand' \in [Workers -> Hands]
      /\ hand'[w].at = at /\ hand'[w].tail = tail
      /\ hand'[w].kind = hand[w].kind /\ hand'[w].cycle = hand[w].cycle
      /\ \A v \in Workers \ {w} : hand'[v] = hand[v]
  BY <1>2, <1>3 DEF TypeOK, Hands
<1>7. QED
  BY <1>4, <1>5, <1>6

\* ... or is done, or begins.
LEMMA SetEffect ==
  ASSUME TypeOK, NEW w \in Workers, NEW h \in Hands, hand' = [hand EXCEPT ![w] = h]
  PROVE  /\ hand' \in [Workers -> Hands]
         /\ hand'[w] = h
         /\ \A v \in Workers \ {w} : hand'[v] = hand[v]
BY DEF TypeOK

LEMMA IdleTyped == Idle \in Hands
BY FirstCycle DEF Idle, Hands, Stages, Kinds

\* A taken event's handler.
Begun(at, kind, n) == [at |-> at, kind |-> kind, cycle |-> n, tail |-> 0]
TakenAt(kind, n) ==
  IF revoked /\ kind \notin {"expired", "deauthorized"} THEN "failed" ELSE FirstStage(kind, n)
LEMMA TakeEffect ==
  ASSUME TypeOK, NEW w \in Workers, NEW kind \in Kinds, NEW n \in Cycles, TakeEvent(w, kind, n)
  PROVE  /\ hand' \in [Workers -> Hands]
         /\ hand'[w].at = TakenAt(kind, n) /\ hand'[w].kind = kind /\ hand'[w].cycle = n
         /\ \A v \in Workers \ {w} : hand'[v] = hand[v]
<1> DEFINE at == TakenAt(kind, n)
<1>1. hand' = [hand EXCEPT ![w] = Begun(at, kind, n)]
  BY DEF TakeEvent, Begun, TakenAt
<1>2. at \in Stages \cup Outcomes
  BY DEF TakenAt, FirstStage, Kinds, Stages, Outcomes
<1> HIDE DEF at
<1>3. Begun(at, kind, n) \in Hands
  BY <1>2 DEF Begun, Hands
<1>4. hand'[w] = Begun(at, kind, n) /\ hand' \in [Workers -> Hands]
      /\ \A v \in Workers \ {w} : hand'[v] = hand[v]
  BY <1>1, <1>3, SetEffect
<1>5. hand'[w].at = at /\ hand'[w].kind = kind /\ hand'[w].cycle = n
  BY <1>4 DEF Begun
<1>6. QED
  BY <1>4, <1>5 DEF at

\* Periods are added, and otherwise only ended: what is cancelled, stopped or
\* given notice stays so.
Alike(p, q) ==
  /\ q.cycle = p.cycle /\ q.start = p.start
  /\ p.cancelled => q.cancelled
  /\ ~p.renews => ~q.renews
  /\ p.notice # Never => q.notice = p.notice
Altered ==
  /\ chain' \in Seq(Periods) /\ Len(chain') = Len(chain)
  /\ \A i \in 1..Len(chain) : Alike(chain[i], chain'[i])

LEMMA AlteredAs ==
  ASSUME TypeOK, chain' \in [1..Len(chain) -> Periods],
         \A i \in 1..Len(chain) : Alike(chain[i], chain'[i])
  PROVE  Altered
<1>1. Len(chain) \in Nat
  BY LenProperties DEF TypeOK
<1>2. chain' \in Seq(Periods)
  BY <1>1, SeqDef
<1>3. DOMAIN chain' = 1..Len(chain) /\ DOMAIN chain' = 1..Len(chain') /\ Len(chain') \in Nat
  BY <1>2, LenProperties
<1>4. QED
  BY <1>1, <1>2, <1>3 DEF Altered

\* The whole chain stopped, one period's column written, or nothing.
LEMMA AlteredStopped ==
  ASSUME TypeOK, chain' = Stopped PROVE Altered
<1>1. \A i \in 1..Len(chain) : chain[i] \in Periods
  BY ElementOfSeq DEF TypeOK
<1>2. \A i \in 1..Len(chain) : [chain[i] EXCEPT !.renews = FALSE] \in Periods
  BY <1>1 DEF Periods
<1>3. chain' \in [1..Len(chain) -> Periods]
  BY <1>2 DEF Stopped
<1>4. \A i \in 1..Len(chain) : chain'[i] = [chain[i] EXCEPT !.renews = FALSE]
  BY DEF Stopped
<1>5. \A i \in 1..Len(chain) : Alike(chain[i], chain'[i])
  BY <1>1, <1>4 DEF Periods, Alike
<1>6. QED
  BY <1>3, <1>5, AlteredAs

LEMMA AlteredAt ==
  ASSUME TypeOK, NEW i \in 1..Len(chain), NEW p \in Periods, Alike(chain[i], p),
         chain' = [chain EXCEPT ![i] = p]
  PROVE  Altered
<1>1. /\ chain' \in Seq(Periods) /\ Len(chain') = Len(chain)
      /\ chain'[i] = p
      /\ \A j \in 1..Len(chain) : j # i => chain'[j] = chain[j]
  BY ExceptSeq DEF TypeOK
<1>2. QED
  BY <1>1 DEF Altered, Alike

LEMMA Unaltered ==
  ASSUME TypeOK, chain' = chain PROVE Altered
BY DEF Altered, Alike, TypeOK

LEMMA LastPeriod ==
  ASSUME TypeOK
  PROVE  /\ Len(chain) \in Nat
         /\ chain = <<>> <=> Len(chain) = 0
         /\ chain # <<>> => Len(chain) \in 1..Len(chain) /\ chain[Len(chain)] \in Periods
<1>1. Len(chain) \in Nat /\ chain \in Seq(Periods)
  BY LenProperties DEF TypeOK
<1>2. chain # <<>> => Len(chain) \in Nat \ {0}
  BY <1>1, EmptySeq
<1>3. chain = <<>> => Len(chain) = 0
  BY EmptySeq
<1>4. chain # <<>> => Len(chain) \in 1..Len(chain)
  BY <1>1, <1>2
<1>5. QED
  BY <1>1, <1>2, <1>3, <1>4, ElementOfSeq

\* Whatever stage a handler is at, it goes on to another with its event.
LEMMA HandlerMoves ==
  ASSUME TypeOK, NEW w \in Workers, HandlerStep(w)
  PROVE  \/ ReadTail(w) \/ MarkEvent(w)
         \/ \E at \in Stages \cup Outcomes : Goes(w, at)
<1>1. CASE ApplyCheckoutPaid(w)
  <2>1. Goes(w, "applied") \/ Goes(w, "end") \/ Goes(w, "ignored")
    BY <1>1 DEF ApplyCheckoutPaid
  <2>2. QED
    BY <2>1 DEF Stages, Outcomes
<1>2. CASE ExpireCheckout(w)
  BY <1>2 DEF ExpireCheckout, Stages, Outcomes
<1>3. CASE SeePayment(w)
  BY <1>3 DEF SeePayment, Stages, Outcomes
<1>4. CASE AppendPeriod(w)
  <2>1. Goes(w, "owed") \/ Goes(w, "read") \/ Goes(w, "ignored") \/ Goes(w, "applied")
    BY <1>4 DEF AppendPeriod
  <2>2. QED
    BY <2>1 DEF Stages, Outcomes
<1>5. CASE ReadListed(w)
  BY <1>5 DEF ReadListed, Stages, Outcomes
<1>6. CASE ListRenewal(w)
  BY <1>6 DEF ListRenewal, Stages, Outcomes
<1>7. CASE RecordRenewalPaymentFailed(w)
  BY <1>7 DEF RecordRenewalPaymentFailed, Stages, Outcomes
<1>8. CASE StopSubscription(w)
  BY <1>8 DEF StopSubscription, Stages, Outcomes
<1>9. CASE MarkPaymentAccountGone(w)
  BY <1>9 DEF MarkPaymentAccountGone, Stages, Outcomes
<1>10. CASE AskOwed(w)
  BY <1>10 DEF AskOwed, Stages, Outcomes
<1>11. CASE EndSubscription(w)
  BY <1>11 DEF EndSubscription, Stages, Outcomes
<1>12. QED
  BY <1>1, <1>2, <1>3, <1>4, <1>5, <1>6, <1>7, <1>8, <1>9, <1>10, <1>11 DEF HandlerStep

\* A run's step leaves the other hands, and its own one typed; what it handles
\* stays the same from the taking to the mark.
LEMMA HandStep ==
  ASSUME TypeOK, NEW w \in Workers, WorkerStep(w) \/ FailJob(w)
  PROVE  /\ hand' \in [Workers -> Hands]
         /\ \A v \in Workers \ {w} : hand'[v] = hand[v]
         /\ \/ hand'[w] = Idle
            \/ hand'[w].kind = hand[w].kind /\ hand'[w].cycle = hand[w].cycle
            \/ \E kind \in Kinds, n \in Cycles : TakeEvent(w, kind, n)
<1>1. CASE \E kind \in Kinds, n \in Cycles : TakeEvent(w, kind, n)
  BY <1>1, TakeEffect
<1>2. CASE FailJob(w) \/ MarkEvent(w)
  BY <1>2, SetEffect, IdleTyped DEF FailJob, MarkEvent
<1>3. CASE ReadTail(w)
  BY <1>3, TailEffect
<1>4. CASE \E at \in Stages \cup Outcomes : Goes(w, at)
  BY <1>4, GoesEffect
<1>5. QED
  BY <1>1, <1>2, <1>3, <1>4, HandlerMoves DEF WorkerStep

---------------------------------------------------------------------------
(* Types.                                                                  *)

\* The day after a period's last, or today.
LEMMA StartTyped ==
  ASSUME TypeOK, NEW p \in Periods PROVE StartAfter(p) \in Nat
BY UpsetsAssumption, CyclesAssumption DEF TypeOK, Periods, StartAfter, Never

\* A new period, behind another one or the first.
FirstPeriod == [cycle |-> 1, start |-> time, renews |-> TRUE, cancelled |-> FALSE, notice |-> Never]
Successor(p, n) ==
  [cycle |-> n, start |-> StartAfter(p), renews |-> TRUE, cancelled |-> FALSE, notice |-> p.notice]
LEMMA SuccessorTyped ==
  ASSUME TypeOK
  PROVE  /\ FirstPeriod \in Periods /\ FirstPeriod.cycle = 1
         /\ \A p \in Periods, n \in Cycles :
              /\ Successor(p, n) \in Periods /\ Successor(p, n).cycle = n
              /\ Successor(p, n).start = StartAfter(p)
<1>1. time \in Nat /\ Never \in 1..Never
  BY CyclesAssumption DEF TypeOK, Never
<1>2. FirstPeriod \in Periods /\ FirstPeriod.cycle = 1
  BY <1>1, FirstCycle DEF FirstPeriod, Periods
<1>3. ASSUME NEW p \in Periods, NEW n \in Cycles
      PROVE  /\ Successor(p, n) \in Periods /\ Successor(p, n).cycle = n
             /\ Successor(p, n).start = StartAfter(p)
  <2>1. StartAfter(p) \in Nat
    BY StartTyped
  <2>2. p.notice \in 1..Never
    BY DEF Periods
  <2>3. QED
    BY <2>1, <2>2 DEF Successor, Periods
<1>4. QED
  BY <1>2, <1>3

\* The chain with one more.
LEMMA Appended ==
  ASSUME TypeOK, NEW p \in Periods, chain' = Append(chain, p)
  PROVE  /\ chain' \in Seq(Periods) /\ Len(chain') = Len(chain) + 1 /\ chain' # <<>>
         /\ chain'[Len(chain) + 1] = p
         /\ \A i \in 1..Len(chain) : chain'[i] = chain[i]
<1>1. chain \in Seq(Periods) /\ Len(chain) \in Nat
  BY LenProperties DEF TypeOK
<1>2. /\ chain' \in Seq(Periods) /\ Len(chain') = Len(chain) + 1
      /\ chain'[Len(chain) + 1] = p
      /\ \A i \in 1..Len(chain) : chain'[i] = chain[i]
  BY <1>1
<1>3. chain' # <<>>
  BY <1>1, <1>2, EmptySeq
<1>4. QED
  BY <1>2, <1>3

\* The two steps that append a period: the first payment and a renewal.
First(w) ==
  /\ hand[w].at = "pay" /\ checkout = "open" /\ 1 \notin Foreign /\ ~erased
  /\ checkout' = "paid" /\ booked' = booked \cup {1} /\ chain' = Append(chain, FirstPeriod)
  /\ Goes(w, "applied")
  /\ UNCHANGED <<listed, erased, revoked, time, overlapped>>
Appends(w) ==
  LET t == hand[w].tail
      n == hand[w].cycle
  IN
  /\ hand[w].at = "append" /\ Stands(t) /\ ~Refuses(chain[t], n) /\ t = Len(chain)
  /\ chain' = Append(chain, Successor(chain[t], n)) /\ booked' = booked \cup {n}
  /\ Goes(w, "applied")
  /\ UNCHANGED <<checkout, listed, erased, revoked, time, overlapped>>

LEMMA FirstOrQuiet ==
  ASSUME NEW w \in Workers, ApplyCheckoutPaid(w), ~First(w)
  PROVE  /\ UNCHANGED <<chain, booked>>
         /\ checkout' = checkout \/ (checkout \in {"open", "expired"} /\ checkout' = "unapplied")
BY DEF ApplyCheckoutPaid, First, FirstPeriod, stripeVars

LEMMA AppendsOrQuiet ==
  ASSUME NEW w \in Workers, AppendPeriod(w), ~Appends(w)
  PROVE  UNCHANGED <<chain, booked>>
BY DEF AppendPeriod, Appends, Successor, stripeVars

\* A write to the period of an operation: there may be none.
LEMMA WriteAltered ==
  ASSUME TypeOK, NEW i \in Nat,
         \/ chain' = [chain EXCEPT ![i].cancelled = TRUE]
         \/ chain' = [chain EXCEPT ![i].renews = FALSE]
  PROVE  Altered
<1>1. chain \in Seq(Periods) /\ DOMAIN chain = 1..Len(chain) /\ chain \in [1..Len(chain) -> Periods]
  BY LenProperties DEF TypeOK
<1>2. CASE i \notin 1..Len(chain)
  <2>1. chain' = chain
    BY <1>1, <1>2
  <2>2. QED
    BY <2>1, Unaltered
<1>3. CASE i \in 1..Len(chain)
  <2> DEFINE p == [chain[i] EXCEPT !.cancelled = TRUE]
             q == [chain[i] EXCEPT !.renews = FALSE]
  <2>1. chain[i] \in Periods
    BY <1>1, <1>3
  <2>2. p \in Periods /\ Alike(chain[i], p) /\ q \in Periods /\ Alike(chain[i], q)
    BY <2>1 DEF Periods, Alike
  <2>3. chain' = [chain EXCEPT ![i] = p] \/ chain' = [chain EXCEPT ![i] = q]
    OBVIOUS
  <2> HIDE DEF p, q
  <2>4. QED
    BY <1>3, <2>2, <2>3, AlteredAt
<1>4. QED
  BY <1>2, <1>3

LEMMA NoticeAltered ==
  ASSUME TypeOK, NEW last \in Cycles, NEW written \in BOOLEAN, MemberStopRenewal(last, written)
  PROVE  Altered
<1>1. chain # <<>> /\ chain[Len(chain)].notice = Never
  BY DEF MemberStopRenewal, HasTail
<1>2. Len(chain) \in 1..Len(chain) /\ chain[Len(chain)] \in Periods
  BY <1>1, LastPeriod
<1> DEFINE p == [chain[Len(chain)] EXCEPT !.notice = last]
<1>3. last \in 1..Never
  BY CyclesAssumption DEF Cycles, Never
<1>4. p \in Periods /\ Alike(chain[Len(chain)], p)
  BY <1>1, <1>2, <1>3 DEF Periods, Alike
<1>5. chain' = chain \/ chain' = [chain EXCEPT ![Len(chain)] = p]
  BY DEF MemberStopRenewal
<1> HIDE DEF p
<1>6. QED
  BY <1>2, <1>4, <1>5, AlteredAt, Unaltered

\* What a step does to the chain.
LEMMA ChainMoves ==
  ASSUME TypeOK, [Next]_vars
  PROVE  Altered \/ EraseMember \/ \E w \in Workers : First(w) \/ Appends(w)
<1>1. CASE StripeStep
  <2>1. chain' = chain
    BY <1>1 DEF StripeStep, PaySession, SessionExpires, Tick, EndsAtStripe, RevokeAccess, Bill, PayLater,
       bookVars
  <2>2. QED
    BY <2>1, Unaltered
<1>2. CASE OfficeStep
  <2>1. ASSUME NEW op, NEW i, StartOperation(op, i) PROVE Altered
    BY <2>1, Unaltered DEF StartOperation
  <2>2. CASE AbandonOperation
    BY <2>2, Unaltered DEF AbandonOperation, bookVars
  <2>3. office.at \in Nat
    BY DEF TypeOK, Operations
  <2>4. CASE SetMembershipRenewal
    BY <2>3, <2>4, Unaltered, WriteAltered DEF SetMembershipRenewal
  <2>5. CASE CancelMembership
    BY <2>3, <2>5, WriteAltered DEF CancelMembership
  <2>6. CASE SetMemberArchived
    BY <2>6, AlteredStopped DEF SetMemberArchived
  <2>7. QED
    BY <1>2, <2>1, <2>2, <2>4, <2>5, <2>6, NoticeAltered DEF OfficeStep
<1>3. ASSUME NEW w \in Workers, HandlerStep(w), ~First(w), ~Appends(w) PROVE Altered
  <2>1. CASE ApplyCheckoutPaid(w)
    BY <1>3, <2>1, FirstOrQuiet, Unaltered
  <2>2. CASE AppendPeriod(w)
    BY <1>3, <2>2, AppendsOrQuiet, Unaltered
  <2>3. CASE StopSubscription(w)
    BY <2>3, AlteredStopped DEF StopSubscription
  <2>4. CASE MarkPaymentAccountGone(w)
    BY <2>4, AlteredStopped, Unaltered DEF MarkPaymentAccountGone
  <2>5. CASE ~ApplyCheckoutPaid(w) /\ ~AppendPeriod(w) /\ ~StopSubscription(w) /\ ~MarkPaymentAccountGone(w)
    <3>1. chain' = chain
      BY <1>3, <2>5 DEF HandlerStep, ExpireCheckout, SeePayment, ReadTail, ReadListed, ListRenewal,
         RecordRenewalPaymentFailed, AskOwed, EndSubscription, MarkEvent, bookVars
    <3>2. QED
      BY <3>1, Unaltered
  <2>6. QED
    BY <2>1, <2>2, <2>3, <2>4, <2>5
<1>4. ASSUME NEW w \in Workers, \/ FailJob(w)
                                \/ \E kind \in Kinds, n \in Cycles : TakeEvent(w, kind, n)
      PROVE  Altered
  BY <1>4, Unaltered DEF FailJob, TakeEvent, bookVars
<1>5. CASE UNCHANGED vars
  BY <1>5, Unaltered DEF vars, bookVars
<1>6. QED
  BY <1>1, <1>2, <1>3, <1>4, <1>5 DEF Next, WorkerStep

\* What ending a subscription at its period's end leaves of `ends`.
LEMMA EndsTyped ==
  ASSUME TypeOK, NEW n \in Nat \ {0}, SetToEnd(n) PROVE ends' \in 1..Never
<1>1. Never \in Nat /\ ends \in 1..Never
  BY CyclesAssumption DEF TypeOK, Never
<1>2. ends' = IF n < ends THEN n ELSE ends
  BY DEF SetToEnd
<1>3. QED
  BY <1>1, <1>2

\* What an operation does at Stripe.
LEMMA OperationEffect ==
  ASSUME TypeOK, NEW op \in {"stop", "cancel", "archive", "erase"}, NEW i, StartOperation(op, i)
  PROVE  /\ sub' \in {sub, "canceled"} /\ (sub = "none" => sub' = "none")
         /\ ends' \in 1..Never
         /\ UNCHANGED event \/ \E kind \in {"deleted", "expired"} : Raise(kind, 1)
         /\ checkout' \in {checkout, "expired"} /\ (checkout # "open" => checkout' = checkout)
         /\ session' \in {session, "expired"}
<1>1. Granted(op, i) /\ StopProviderSubscriptions(op, i)
  BY DEF StartOperation
<1>2. sub' \in {sub, "canceled"}
  BY <1>1 DEF StopProviderSubscriptions
<1>3. sub = "none" => sub' = "none"
  BY <1>1 DEF StopProviderSubscriptions, Granted
<1>4. ends' \in 1..Never
  <2>1. time \in Nat \ {0}
    BY DEF TypeOK
  <2>2. SetToEnd(time) \/ UNCHANGED ends
    BY <1>1 DEF StopProviderSubscriptions
  <2>3. QED
    BY <2>1, <2>2, EndsTyped DEF TypeOK
<1>5. UNCHANGED event \/ Raise("deleted", 1) \/ Raise("expired", 1)
  BY <1>1 DEF StopProviderSubscriptions
<1>6. /\ checkout' = IF ClosesPage(op) THEN "expired" ELSE checkout
      /\ session' = IF ClosesPage(op) THEN "expired" ELSE session
  BY DEF StartOperation
<1>7. QED
  BY <1>2, <1>3, <1>4, <1>5, <1>6 DEF ClosesPage

\* Every step keeps the types.
LEMMA TypeStep ==
  ASSUME TypeOK, [Next]_vars PROVE TypeOK'
<1> USE UpsetsAssumption, FirstCycle DEF bookVars, stripeVars
<1>0. chain' \in Seq(Periods)
  <2>1. ASSUME NEW w \in Workers, First(w) PROVE chain' \in Seq(Periods)
    BY <2>1, SuccessorTyped, Appended DEF First
  <2>2. ASSUME NEW w \in Workers, Appends(w) PROVE chain' \in Seq(Periods)
    <3> DEFINE t == hand[w].tail
               n == hand[w].cycle
    <3>1. Stands(t) /\ chain' = Append(chain, Successor(chain[t], n))
      BY <2>2 DEF Appends
    <3>2. chain[t] \in Periods
      BY <3>1, ElementOfSeq DEF Stands, TypeOK
    <3>3. n \in Cycles
      BY DEF TypeOK, Hands
    <3>4. QED
      BY <3>1, <3>2, <3>3, SuccessorTyped, Appended
  <2>3. CASE EraseMember
    BY <2>3, EmptySeq DEF EraseMember
  <2>4. QED
    BY <2>1, <2>2, <2>3, ChainMoves DEF Altered
<1>1. CASE PaySession
  <2>1. Raise("completed", 1) /\ "completed" \in Kinds
    BY <1>1 DEF PaySession, Kinds
  <2>2. invoice' \in [Cycles -> {"none", "failed", "paid"}]
    BY <1>1 DEF PaySession, TypeOK
  <2>3. QED
    BY <1>1, <2>1, <2>2, RaiseEffect DEF PaySession, TypeOK
<1>2. CASE SessionExpires
  <2>1. Raise("expired", 1) /\ "expired" \in Kinds
    BY <1>2 DEF SessionExpires, Kinds
  <2>2. QED
    BY <1>2, <2>1, RaiseEffect DEF SessionExpires, TypeOK
<1>3. ASSUME NEW result \in {"paid", "failed"}, Bill(result) PROVE TypeOK'
  <2>1. time + 1 \in Cycles /\ time' = time + 1
    BY <1>3, CyclesAssumption DEF Bill, Bills, Cycles, Never, TypeOK
  <2>2. Raise(result, time + 1) /\ result \in Kinds
    BY <1>3 DEF Bill, Kinds
  <2>3. invoice' \in [Cycles -> {"none", "failed", "paid"}]
    BY <1>3, <2>1 DEF Bill, TypeOK
  <2>4. upsets' \in 0..MaxUpsets
    BY <1>3 DEF Bill, Upset, TypeOK
  <2>5. time' \in 1..Never
    BY <2>1, CyclesAssumption DEF Cycles, Never
  <2>6. event' \in [Kinds -> [Cycles -> {"none", "pending"} \cup Outcomes]]
    BY <2>1, <2>2, RaiseEffect
  <2>7. QED
    BY <1>3, <2>3, <2>4, <2>5, <2>6 DEF Bill, TypeOK
<1>4. CASE Tick
  <2>1. time' \in 1..Never
    BY <1>4, CyclesAssumption DEF Tick, Never, TypeOK
  <2>2. event' \in [Kinds -> [Cycles -> {"none", "pending"} \cup Outcomes]]
    <3>1. Raise("deleted", 1) \/ UNCHANGED event
      BY <1>4 DEF Tick
    <3>2. QED
      BY <3>1, RaiseEffect DEF Kinds, TypeOK
  <2>3. QED
    BY <1>4, <2>1, <2>2 DEF Tick, TypeOK
<1>5. ASSUME NEW n \in Cycles, PayLater(n) PROVE TypeOK'
  <2>1. Raise("paid", n) /\ "paid" \in Kinds
    BY <1>5 DEF PayLater, Kinds
  <2>2. invoice' \in [Cycles -> {"none", "failed", "paid"}]
    BY <1>5 DEF PayLater, TypeOK
  <2>3. QED
    BY <1>5, <2>1, <2>2, RaiseEffect DEF PayLater, TypeOK
<1>6. CASE EndsAtStripe
  <2>1. Raise("deleted", 1) /\ "deleted" \in Kinds
    BY <1>6 DEF EndsAtStripe, Kinds
  <2>2. QED
    BY <1>6, <2>1, RaiseEffect DEF EndsAtStripe, Upset, TypeOK
<1>7. CASE RevokeAccess
  <2>1. Raise("deauthorized", 1) /\ "deauthorized" \in Kinds
    BY <1>7 DEF RevokeAccess, Kinds
  <2>2. QED
    BY <1>7, <2>1, RaiseEffect DEF RevokeAccess, Upset, TypeOK
<1>8. ASSUME NEW op \in {"stop", "cancel", "archive", "erase"}, NEW i \in Nat, StartOperation(op, i)
      PROVE  TypeOK'
  <2>1. office' \in Operations
    BY <1>8 DEF StartOperation, Operations
  <2>2. event' \in [Kinds -> [Cycles -> {"none", "pending"} \cup Outcomes]]
    BY <1>8, OperationEffect, RaiseEffect DEF Kinds, TypeOK
  <2>3. QED
    BY <1>8, <2>1, <2>2, OperationEffect DEF StartOperation, Upset, TypeOK
<1>9. CASE AbandonOperation \/ CancelMembership \/ SetMembershipRenewal \/ SetMemberArchived \/ EraseMember
  <2>1. office' \in Operations
    BY <1>9 DEF AbandonOperation, CancelMembership, SetMembershipRenewal, SetMemberArchived,
       EraseMember, Writes, Operations, NoOperation
  <2>2. QED
    BY <1>0, <1>9, <2>1 DEF AbandonOperation, CancelMembership, SetMembershipRenewal,
       SetMemberArchived, EraseMember, TypeOK
<1>10. ASSUME NEW last \in Cycles, NEW written \in BOOLEAN, MemberStopRenewal(last, written)
       PROVE  TypeOK'
  <2>1. last \in Nat \ {0}
    BY DEF Cycles
  <2>2. ends' \in 1..Never
    BY <1>10, <2>1, EndsTyped DEF MemberStopRenewal, TypeOK
  <2>3. QED
    BY <1>0, <1>10, <2>2 DEF MemberStopRenewal, Upset, TypeOK
<1>11. ASSUME NEW w \in Workers, NEW kind \in Kinds, NEW n \in Cycles, TakeEvent(w, kind, n)
       PROVE  TypeOK'
  <2>1. overlapped' \subseteq Cycles
    <3>1. {hand[v].cycle : v \in {u \in Workers \ {w} : Handles(u)}} \subseteq Cycles
      BY DEF TypeOK, Hands
    <3>2. QED
      BY <1>11, <3>1 DEF TakeEvent, TypeOK
  <2>2. QED
    BY <1>11, <2>1, TakeEffect DEF TakeEvent, TypeOK
<1>12. ASSUME NEW w \in Workers, HandlerStep(w) PROVE TypeOK'
  <2>1. hand' \in [Workers -> Hands]
    BY <1>12, HandStep DEF WorkerStep
  <2>2. hand[w] \in Hands
    BY DEF TypeOK
  <2>3. CASE ApplyCheckoutPaid(w)
    <3>1. checkout' \in {"paid", "unapplied", checkout} /\ booked' \subseteq Cycles
      BY <2>3 DEF ApplyCheckoutPaid, TypeOK
    <3>2. QED
      BY <1>0, <2>1, <2>3, <3>1 DEF ApplyCheckoutPaid, TypeOK
  <2>4. CASE ExpireCheckout(w)
    BY <2>1, <2>4 DEF ExpireCheckout, TypeOK
  <2>5. CASE SeePayment(w) \/ ReadTail(w) \/ ReadListed(w) \/ AskOwed(w)
    BY <2>1, <2>5 DEF SeePayment, ReadTail, ReadListed, AskOwed, TypeOK
  <2>6. CASE AppendPeriod(w)
    <3>1. booked' \subseteq Cycles
      BY <2>2, <2>6 DEF AppendPeriod, TypeOK, Hands
    <3>2. QED
      BY <1>0, <2>1, <2>6, <3>1 DEF AppendPeriod, TypeOK
  <2>7. CASE ListRenewal(w)
    <3>1. hand[w].cycle \in Cycles
      BY <2>2 DEF Hands
    <3>2. listed' \in [Cycles -> Nat]
      BY <2>7, <3>1 DEF ListRenewal, TypeOK
    <3>3. QED
      BY <2>1, <2>7, <3>2 DEF ListRenewal, TypeOK
  <2>8. CASE RecordRenewalPaymentFailed(w)
    <3>1. recorded' \subseteq Cycles
      BY <2>2, <2>8 DEF RecordRenewalPaymentFailed, TypeOK, Hands
    <3>2. QED
      BY <2>1, <2>8, <3>1 DEF RecordRenewalPaymentFailed, TypeOK
  <2>9. CASE StopSubscription(w)
    BY <1>0, <2>1, <2>9 DEF StopSubscription, TypeOK
  <2>10. CASE MarkPaymentAccountGone(w)
    BY <1>0, <2>1, <2>10 DEF MarkPaymentAccountGone, TypeOK
  <2>11. CASE EndSubscription(w)
    <3>1. Raise("deleted", 1) \/ UNCHANGED event
      BY <2>11 DEF EndSubscription
    <3>2. event' \in [Kinds -> [Cycles -> {"none", "pending"} \cup Outcomes]]
      BY <3>1, RaiseEffect DEF Kinds, TypeOK
    <3>3. QED
      BY <2>1, <2>11, <3>2 DEF EndSubscription, TypeOK
  <2>12. CASE MarkEvent(w)
    <3>1. event' \in [Kinds -> [Cycles -> {"none", "pending"} \cup Outcomes]]
      BY <2>2, <2>12 DEF MarkEvent, TypeOK, Hands
    <3>2. QED
      BY <2>1, <2>12, <3>1 DEF MarkEvent, TypeOK
  <2>13. QED
    BY <1>12, <2>3, <2>4, <2>5, <2>6, <2>7, <2>8, <2>9, <2>10, <2>11, <2>12 DEF HandlerStep
<1>13. ASSUME NEW w \in Workers, FailJob(w) PROVE TypeOK'
  <2>1. hand' \in [Workers -> Hands]
    BY <1>13, HandStep
  <2>2. upsets' \in 0..MaxUpsets
    BY <1>13 DEF FailJob, Upset, TypeOK
  <2>3. QED
    BY <1>13, <2>1, <2>2 DEF FailJob, TypeOK
<1>14. CASE UNCHANGED vars
  BY <1>14 DEF TypeOK, vars
<1>15. CASE OfficeStep
  <2>1. \A i \in 1..Len(chain) : i \in Nat
    BY LastPeriod
  <2>2. QED
    BY <1>15, <1>8, <1>9, <1>10, <2>1 DEF OfficeStep
<1>16. QED
  BY <1>1, <1>2, <1>3, <1>4, <1>5, <1>6, <1>7, <1>11, <1>12, <1>13, <1>14, <1>15
     DEF Next, StripeStep, WorkerStep

---------------------------------------------------------------------------
(* What a step leaves alone.                                               *)

\* Time and the subscription go on, an erasure and a revocation stand, and who
\* is excused stays excused.
LEMMA Onward ==
  ASSUME TypeOK, [Next]_vars
  PROVE  /\ time' \in {time, time + 1}
         /\ sub # "none" => sub' # "none"
         /\ sub = "none" /\ sub' # "none" => PaySession
         /\ revoked => revoked'
         /\ erased => erased'
         /\ overlapped \subseteq overlapped'
<1> USE DEF bookVars, stripeVars
<1>1. CASE StripeStep
  BY <1>1 DEF StripeStep, PaySession, SessionExpires, Tick, EndsAtStripe, RevokeAccess, Bill, PayLater,
     Bills, TypeOK
<1>2. CASE OfficeStep
  <2>1. ASSUME NEW op \in {"stop", "cancel", "archive", "erase"}, NEW i, StartOperation(op, i)
        PROVE  /\ sub # "none" => sub' # "none"
               /\ sub = "none" => sub' = "none"
               /\ UNCHANGED <<time, revoked, erased, overlapped>>
    BY <2>1, OperationEffect DEF StartOperation
  <2>2. QED
    BY <1>2, <2>1 DEF OfficeStep, AbandonOperation, SetMembershipRenewal, CancelMembership,
       SetMemberArchived, EraseMember, MemberStopRenewal, TypeOK
<1>3. ASSUME NEW w \in Workers, HandlerStep(w)
      PROVE  /\ sub # "none" => sub' # "none"
             /\ sub = "none" => sub' = "none"
             /\ UNCHANGED <<time, revoked, erased, overlapped>>
  BY <1>3 DEF HandlerStep, ApplyCheckoutPaid, ExpireCheckout, SeePayment, ReadTail, AppendPeriod,
     ReadListed, ListRenewal, RecordRenewalPaymentFailed, StopSubscription, MarkPaymentAccountGone,
     AskOwed, EndSubscription, MarkEvent
<1>4. ASSUME NEW w \in Workers, FailJob(w) \/ \E kind \in Kinds, n \in Cycles : TakeEvent(w, kind, n)
      PROVE  /\ UNCHANGED <<time, sub, revoked, erased>>
             /\ overlapped \subseteq overlapped'
  <2>1. CASE FailJob(w)
    BY <2>1 DEF FailJob
  <2>2. ASSUME NEW kind \in Kinds, NEW n \in Cycles, TakeEvent(w, kind, n)
        PROVE  /\ UNCHANGED <<time, sub, revoked, erased>>
               /\ overlapped \subseteq overlapped'
    <3>1. UNCHANGED <<time, sub, revoked, erased>>
      BY <2>2 DEF TakeEvent
    <3>2. \/ overlapped' = overlapped
          \/ overlapped' = overlapped \cup {n}
          \/ overlapped' = overlapped \cup {n} \cup {hand[v].cycle : v \in {u \in Workers \ {w} : Handles(u)}}
      BY <2>2 DEF TakeEvent
    <3>3. QED
      BY <3>1, <3>2
  <2>3. QED
    BY <1>4, <2>1, <2>2
<1>5. CASE UNCHANGED vars
  BY <1>5 DEF vars
<1>6. QED
  BY <1>1, <1>2, <1>3, <1>4, <1>5 DEF Next, WorkerStep, TypeOK

\* Which events are raised when, and which are marked.
LEMMA EventMoves ==
  ASSUME TypeOK, [Next]_vars, NEW k \in Kinds, NEW n \in Cycles
  PROVE  \/ event'[k][n] = event[k][n]
         \/ /\ event'[k][n] = "pending"
            /\ k = "completed" => n = 1 /\ PaySession
            /\ k = "paid" => sub = "active" /\ (n = time + 1 \/ invoice[n] = "failed")
         \/ \E w \in Workers :
              /\ MarkEvent(w) /\ event[k][n] = "pending"
              /\ hand[w].kind = k /\ hand[w].cycle = n /\ hand[w].at \in Outcomes
              /\ event'[k][n] = hand[w].at
<1> USE DEF bookVars, stripeVars
<1> DEFINE Same == event'[k][n] = event[k][n]
           Raised == /\ event'[k][n] = "pending"
                     /\ k = "completed" => n = 1 /\ PaySession
                     /\ k = "paid" => sub = "active" /\ (n = time + 1 \/ invoice[n] = "failed")
<1>1. ASSUME NEW kind \in {"expired", "failed", "deleted", "deauthorized"}, NEW m \in Cycles, Raise(kind, m)
      PROVE  Same \/ Raised
  <2>1. event'[k][n] = IF k = kind /\ n = m THEN "pending" ELSE event[k][n]
    BY <1>1, RaiseEffect DEF Kinds
  <2>2. QED
    BY <2>1
<1>2. CASE PaySession
  <2>1. event'[k][n] = IF k = "completed" /\ n = 1 THEN "pending" ELSE event[k][n]
    BY <1>2, FirstCycle, RaiseEffect DEF PaySession, Kinds
  <2>2. QED
    BY <1>2, <2>1
<1>3. ASSUME NEW result \in {"paid", "failed"}, Bill(result) PROVE Same \/ Raised
  <2>1. time + 1 \in Cycles /\ Raise(result, time + 1) /\ sub = "active"
    BY <1>3, CyclesAssumption DEF Bill, Bills, Cycles, Never, TypeOK
  <2>2. event'[k][n] = IF k = result /\ n = time + 1 THEN "pending" ELSE event[k][n]
    BY <2>1, RaiseEffect DEF Kinds
  <2>3. QED
    BY <2>1, <2>2
<1>4. ASSUME NEW m \in Cycles, PayLater(m) PROVE Same \/ Raised
  <2>1. event'[k][n] = IF k = "paid" /\ n = m THEN "pending" ELSE event[k][n]
    BY <1>4, RaiseEffect DEF PayLater, Kinds
  <2>2. QED
    BY <1>4, <2>1 DEF PayLater
<1>5. CASE StripeStep
  <2>1. CASE SessionExpires \/ EndsAtStripe \/ RevokeAccess
    BY <1>1, <2>1, FirstCycle DEF SessionExpires, EndsAtStripe, RevokeAccess
  <2>2. CASE Tick
    <3>1. Raise("deleted", 1) \/ UNCHANGED event
      BY <2>2 DEF Tick
    <3>2. QED
      BY <1>1, <3>1, FirstCycle
  <2>3. QED
    BY <1>2, <1>3, <1>4, <1>5, <2>1, <2>2 DEF StripeStep
<1>6. CASE OfficeStep
  <2>1. ASSUME NEW op \in {"stop", "cancel", "archive", "erase"}, NEW i, StartOperation(op, i)
        PROVE  Same \/ Raised
    BY <1>1, <2>1, OperationEffect, FirstCycle
  <2>2. QED
    BY <1>6, <2>1 DEF OfficeStep, AbandonOperation, SetMembershipRenewal, CancelMembership,
       SetMemberArchived, EraseMember, MemberStopRenewal
<1>7. ASSUME NEW w \in Workers, HandlerStep(w), ~MarkEvent(w) PROVE Same \/ Raised
  <2>1. CASE EndSubscription(w)
    <3>1. Raise("deleted", 1) \/ UNCHANGED event
      BY <2>1 DEF EndSubscription
    <3>2. QED
      BY <1>1, <3>1, FirstCycle
  <2>2. CASE ~EndSubscription(w)
    BY <1>7, <2>2 DEF HandlerStep, ApplyCheckoutPaid, ExpireCheckout, SeePayment, ReadTail, AppendPeriod,
       ReadListed, ListRenewal, RecordRenewalPaymentFailed, StopSubscription, MarkPaymentAccountGone,
       AskOwed
  <2>3. QED
    BY <2>1, <2>2
<1>8. ASSUME NEW w \in Workers, MarkEvent(w), ~Same
      PROVE  /\ event[k][n] = "pending"
             /\ hand[w].kind = k /\ hand[w].cycle = n /\ hand[w].at \in Outcomes
             /\ event'[k][n] = hand[w].at
  <2>1. hand[w] \in Hands
    BY DEF TypeOK
  <2>2. hand[w].kind \in Kinds /\ hand[w].cycle \in Cycles
    BY <2>1 DEF Hands
  <2>3. /\ hand[w].at \in Outcomes
        /\ event' = IF event[hand[w].kind][hand[w].cycle] = "pending"
                    THEN [event EXCEPT ![hand[w].kind][hand[w].cycle] = hand[w].at] ELSE event
    BY <1>8 DEF MarkEvent
  <2>4. event[hand[w].kind][hand[w].cycle] = "pending"
        /\ event' = [event EXCEPT ![hand[w].kind][hand[w].cycle] = hand[w].at]
    BY <1>8, <2>3
  <2>5. event'[k][n] = IF k = hand[w].kind /\ n = hand[w].cycle THEN hand[w].at ELSE event[k][n]
    BY <2>2, <2>4 DEF TypeOK
  <2>6. QED
    BY <1>8, <2>3, <2>4, <2>5
<1>9. ASSUME NEW w \in Workers, FailJob(w) \/ \E kind \in Kinds, m \in Cycles : TakeEvent(w, kind, m)
      PROVE  Same
  BY <1>9 DEF FailJob, TakeEvent
<1>10. CASE UNCHANGED vars
  BY <1>10 DEF vars
<1>11. QED
  BY <1>5, <1>6, <1>7, <1>8, <1>9, <1>10 DEF Next, WorkerStep

\* A step after which no more is booked and listed than before.
Quiet ==
  /\ UNCHANGED <<booked, listed>>
  /\ checkout' = checkout \/ (checkout \in {"open", "expired"} /\ checkout' \in {"expired", "unapplied"})
  /\ Altered \/ (chain' = <<>> /\ erased' /\ checkout' = checkout)

LEMMA BookMoves ==
  ASSUME TypeOK, [Next]_vars
  PROVE  Quiet \/ \E w \in Workers : First(w) \/ Appends(w) \/ ListRenewal(w)
<1> USE DEF bookVars, stripeVars
<1>1. CASE StripeStep
  BY <1>1, Unaltered DEF StripeStep, PaySession, SessionExpires, Tick, EndsAtStripe, RevokeAccess, Bill, PayLater,
     Quiet
<1>2. CASE OfficeStep
  <2>1. ASSUME NEW op \in {"stop", "cancel", "archive", "erase"}, NEW i, StartOperation(op, i) PROVE Quiet
    <3>1. /\ checkout' = IF ClosesPage(op) THEN "expired" ELSE checkout
          /\ UNCHANGED <<chain, booked, listed>>
      BY <2>1 DEF StartOperation
    <3>2. QED
      BY <3>1, Unaltered DEF Quiet, ClosesPage
  <2>2. ASSUME ~EraseMember, UNCHANGED <<booked, listed, checkout>> PROVE Quiet
    <3>1. ~\E w \in Workers : First(w) \/ Appends(w)
      <4>1. ASSUME NEW w \in Workers, First(w) \/ Appends(w) PROVE FALSE
        <5>1. Goes(w, "applied") /\ hand[w].at # "applied"
          BY <4>1 DEF First, Appends
        <5>2. hand'[w].at = "applied"
          BY <5>1, GoesEffect DEF Outcomes
        <5>3. hand' = hand
          BY <1>2, <4>1, <5>1, <5>2 DEF OfficeStep, StartOperation, AbandonOperation, SetMembershipRenewal,
             CancelMembership, SetMemberArchived, EraseMember, MemberStopRenewal
        <5>4. QED
          BY <5>1, <5>2, <5>3
      <4>2. QED
        BY <4>1
    <3>2. QED
      BY <2>2, <3>1, ChainMoves DEF Quiet
  <2>3. CASE EraseMember
    BY <2>3 DEF EraseMember, Quiet
  <2>4. CASE AbandonOperation \/ SetMembershipRenewal \/ CancelMembership \/ SetMemberArchived
             \/ \E last \in Cycles, written \in BOOLEAN : MemberStopRenewal(last, written)
    <3>1. UNCHANGED <<booked, listed, checkout>>
      BY <2>4 DEF AbandonOperation, SetMembershipRenewal, CancelMembership, SetMemberArchived,
         MemberStopRenewal
    <3>2. QED
      BY <2>2, <2>3, <3>1
  <2>5. QED
    BY <1>2, <2>1, <2>3, <2>4 DEF OfficeStep
<1>3. ASSUME NEW w \in Workers, HandlerStep(w),
             ~\E v \in Workers : First(v) \/ Appends(v) \/ ListRenewal(v)
      PROVE  Quiet
  <2>1. CASE ApplyCheckoutPaid(w)
    BY <1>3, <2>1, FirstOrQuiet, Unaltered DEF Quiet, ApplyCheckoutPaid
  <2>2. CASE AppendPeriod(w)
    BY <1>3, <2>2, AppendsOrQuiet, Unaltered DEF Quiet, AppendPeriod
  <2>3. CASE StopSubscription(w)
    BY <2>3, AlteredStopped DEF Quiet, StopSubscription
  <2>4. CASE MarkPaymentAccountGone(w)
    BY <2>4, AlteredStopped, Unaltered DEF Quiet, MarkPaymentAccountGone
  <2>5. CASE ExpireCheckout(w)
    BY <2>5, Unaltered DEF Quiet, ExpireCheckout
  <2>6. CASE SeePayment(w) \/ ReadTail(w) \/ ReadListed(w) \/ RecordRenewalPaymentFailed(w)
             \/ AskOwed(w) \/ EndSubscription(w) \/ MarkEvent(w)
    <3>1. UNCHANGED <<chain, booked, listed, checkout>>
      BY <2>6 DEF SeePayment, ReadTail, ReadListed, RecordRenewalPaymentFailed, AskOwed,
         EndSubscription, MarkEvent
    <3>2. QED
      BY <3>1, Unaltered DEF Quiet
  <2>7. QED
    BY <1>3, <2>1, <2>2, <2>3, <2>4, <2>5, <2>6 DEF HandlerStep
<1>4. ASSUME NEW w \in Workers, FailJob(w) \/ \E kind \in Kinds, n \in Cycles : TakeEvent(w, kind, n)
      PROVE  Quiet
  BY <1>4, Unaltered DEF FailJob, TakeEvent, Quiet
<1>5. CASE UNCHANGED vars
  BY <1>5, Unaltered DEF vars, Quiet
<1>6. QED
  BY <1>1, <1>2, <1>3, <1>4, <1>5 DEF Next, WorkerStep

\* ListRenewal and the handler of a first payment or a renewal leave all else.
LEMMA LoudEffect ==
  ASSUME TypeOK, NEW w \in Workers, First(w) \/ Appends(w) \/ ListRenewal(w)
  PROVE  /\ hand'[w].at \in {"applied", "end"}
         /\ hand'[w].kind = hand[w].kind /\ hand'[w].cycle = hand[w].cycle
         /\ \A v \in Workers \ {w} : hand'[v] = hand[v]
         /\ UNCHANGED <<erased, revoked, time, overlapped>>
<1>1. Goes(w, "applied") \/ Goes(w, "end")
  BY DEF First, Appends, ListRenewal
<1>2. "applied" \in Stages \cup Outcomes /\ "end" \in Stages \cup Outcomes
  BY DEF Stages, Outcomes
<1>3. QED
  BY <1>1, <1>2, GoesEffect DEF First, Appends, ListRenewal, stripeVars

\* The way of a handler from stage to stage.
Moved(w) ==
  LET at == hand[w].at
      to == hand'[w].at
  IN  \/ at = "pay" /\ to \in {"applied", "end", "ignored"}
      \/ at \in {"expire", "stop", "gone"} /\ to \in {"applied", "ignored"}
      \/ at = "see" /\ to \in {"ignored", "tail"}
      \/ at = "tail" /\ to \in {"append", "owed"}
      \/ at = "append" /\ to \in {"owed", "read", "ignored", "applied"}
      \/ at = "record" /\ to \in {"ignored", "applied", "owed"}
      \/ at = "owed" /\ to = "ignored"
      \/ at = "owed" /\ to = IF hand[w].kind = "paid" THEN "read" ELSE "end"
      \/ at = "read" /\ to \in {"end", "list"}
      \/ at = "list" /\ to = "end"
      \/ at = "end" /\ to \in {"applied", "failed"}

LEMMA HandMoves ==
  ASSUME TypeOK, [Next]_vars, NEW w \in Workers
  PROVE  \/ hand'[w] = hand[w]
         \/ hand'[w] = Idle
         \/ \E kind \in Kinds, n \in Cycles : TakeEvent(w, kind, n)
         \/ /\ HandlerStep(w) /\ Moved(w)
            /\ hand'[w].kind = hand[w].kind /\ hand'[w].cycle = hand[w].cycle
<1> USE DEF bookVars, stripeVars
<1>1. CASE StripeStep \/ OfficeStep \/ UNCHANGED vars
  BY <1>1 DEF StripeStep, PaySession, SessionExpires, Tick, EndsAtStripe, RevokeAccess, Bill, PayLater,
     OfficeStep, StartOperation, AbandonOperation, SetMembershipRenewal, CancelMembership,
     SetMemberArchived, EraseMember, MemberStopRenewal, vars
<1>2. ASSUME NEW v \in Workers, v # w, WorkerStep(v) \/ FailJob(v) PROVE hand'[w] = hand[w]
  BY <1>2, HandStep
<1>3. CASE FailJob(w) \/ MarkEvent(w)
  BY <1>3, SetEffect, IdleTyped DEF FailJob, MarkEvent
<1>4. CASE ReadTail(w)
  BY <1>4, TailEffect DEF ReadTail, Moved, HandlerStep
<1>5. ASSUME NEW at \in Stages \cup Outcomes, Goes(w, at), HandlerStep(w), ~MarkEvent(w), ~ReadTail(w)
      PROVE  Moved(w)
  <2>1. hand'[w].at = at /\ \A s : Goes(w, s) => s = at
    <3>1. hand'[w].at = at
      BY <1>5, GoesEffect
    <3>2. ASSUME NEW s, Goes(w, s) PROVE s = at
      <4>1. hand'[w].at = s
        <5>1. hand \in [Workers -> Hands] /\ hand[w] \in Hands
          BY DEF TypeOK
        <5>2. QED
          BY <3>2, <5>1 DEF Goes, Hands
      <4>2. QED
        BY <3>1, <4>1
    <3>3. QED
      BY <3>1, <3>2
  <2>2. CASE ApplyCheckoutPaid(w)
    <3>1. hand[w].at = "pay" /\ (Goes(w, "applied") \/ Goes(w, "end") \/ Goes(w, "ignored"))
      BY <2>2 DEF ApplyCheckoutPaid
    <3>2. QED
      BY <2>1, <3>1 DEF Moved
  <2>3. CASE AppendPeriod(w)
    <3>1. hand[w].at = "append"
          /\ (Goes(w, "owed") \/ Goes(w, "read") \/ Goes(w, "ignored") \/ Goes(w, "applied"))
      BY <2>3 DEF AppendPeriod
    <3>2. QED
      BY <2>1, <3>1 DEF Moved
  <2>4. CASE RecordRenewalPaymentFailed(w)
    <3>1. hand[w].at = "record" /\ (Goes(w, "ignored") \/ Goes(w, "applied") \/ Goes(w, "owed"))
      BY <2>4 DEF RecordRenewalPaymentFailed
    <3>2. QED
      BY <2>1, <3>1 DEF Moved
  <2>5. CASE AskOwed(w)
    <3>1. hand[w].at = "owed"
          /\ (Goes(w, "ignored") \/ Goes(w, IF hand[w].kind = "paid" THEN "read" ELSE "end"))
      BY <2>5 DEF AskOwed
    <3>2. QED
      BY <2>1, <3>1 DEF Moved
  <2>6. CASE ExpireCheckout(w) \/ StopSubscription(w) \/ MarkPaymentAccountGone(w)
    <3>1. hand[w].at \in {"expire", "stop", "gone"} /\ (Goes(w, "ignored") \/ Goes(w, "applied"))
      BY <2>6 DEF ExpireCheckout, StopSubscription, MarkPaymentAccountGone
    <3>2. QED
      BY <2>1, <3>1 DEF Moved
  <2>7. CASE SeePayment(w)
    <3>1. hand[w].at = "see" /\ (Goes(w, "ignored") \/ Goes(w, "tail"))
      BY <2>7 DEF SeePayment
    <3>2. QED
      BY <2>1, <3>1 DEF Moved
  <2>8. CASE ReadListed(w) \/ ListRenewal(w)
    <3>1. hand[w].at \in {"read", "list"} /\ (Goes(w, "end") \/ (hand[w].at = "read" /\ Goes(w, "list")))
      BY <2>8 DEF ReadListed, ListRenewal
    <3>2. QED
      BY <2>1, <3>1 DEF Moved
  <2>9. CASE EndSubscription(w)
    <3>1. hand[w].at = "end" /\ (Goes(w, "applied") \/ Goes(w, "failed"))
      BY <2>9 DEF EndSubscription
    <3>2. QED
      BY <2>1, <3>1 DEF Moved
  <2>10. QED
    BY <1>5, <2>2, <2>3, <2>4, <2>5, <2>6, <2>7, <2>8, <2>9 DEF HandlerStep
<1>6. CASE HandlerStep(w) /\ ~MarkEvent(w) /\ ~ReadTail(w)
  BY <1>5, <1>6, HandlerMoves, GoesEffect
<1>7. QED
  BY <1>1, <1>2, <1>3, <1>4, <1>6 DEF Next, WorkerStep

\* Each stage of a handler of money has its one step.
LEMMA StageActs ==
  ASSUME NEW w \in Workers, HandlerStep(w)
  PROVE  /\ hand[w].at = "see" => SeePayment(w)
         /\ hand[w].at = "tail" => ReadTail(w)
         /\ hand[w].at = "append" => AppendPeriod(w)
         /\ hand[w].at = "owed" => AskOwed(w)
         /\ hand[w].at = "read" => ReadListed(w)
         /\ hand[w].at = "list" => ListRenewal(w)
         /\ hand[w].at = "pay" => ApplyCheckoutPaid(w)
BY DEF HandlerStep, ApplyCheckoutPaid, ExpireCheckout, SeePayment, ReadTail, AppendPeriod, ReadListed,
   ListRenewal, RecordRenewalPaymentFailed, StopSubscription, MarkPaymentAccountGone, AskOwed,
   EndSubscription, MarkEvent, Outcomes

---------------------------------------------------------------------------
(* What stays true once it is.                                             *)

StartAt(start, now) == IF start >= now THEN start + 1 ELSE now
LEMMA StartLater ==
  ASSUME NEW start \in Nat, NEW now \in Nat, NEW then \in {now, now + 1}
  PROVE  /\ StartAt(start, now) \in Nat /\ StartAt(start, then) \in Nat
         /\ StartAt(start, now) <= StartAt(start, then)
BY DEF StartAt

LEMMA OverStays ==
  ASSUME TypeOK, TypeOK', Sold, [Next]_vars, Over PROVE Over'
<1>1. time' \in {time, time + 1}
  BY Onward
<1>2. CASE Quiet /\ Altered
  <2>1. CASE chain = <<>>
    <3>1. chain' = <<>>
      BY <1>2, <2>1, LastPeriod, EmptySeq DEF Altered
    <3>2. QED
      BY <1>2, <2>1, <3>1 DEF Over, Quiet
  <2>2. CASE chain # <<>>
    <3> DEFINE p == chain[Len(chain)]
               q == chain'[Len(chain)]
    <3>1. Len(chain) \in 1..Len(chain) /\ p \in Periods
      BY <2>2, LastPeriod
    <3>2. Alike(p, q) /\ Len(chain') = Len(chain) /\ q \in Periods
      BY <1>2, <3>1, ElementOfSeq DEF Altered
    <3>3. chain' # <<>>
      BY <3>1, <3>2, EmptySeq
    <3>4. p.start \in Nat /\ q.start = p.start /\ q.notice \in Nat /\ time \in Nat /\ time' \in Nat
      <4>1. q.notice \in 1..Never /\ p.start \in Nat
        BY <3>1, <3>2 DEF Periods
      <4>2. Never \in Nat
        BY CyclesAssumption DEF Never
      <4>3. time \in Nat /\ time' \in Nat
        BY <4>2 DEF TypeOK
      <4>4. q.start = p.start
        BY <3>2 DEF Alike
      <4> HIDE DEF p, q
      <4>5. QED
        BY <4>1, <4>2, <4>3, <4>4
    <3>5. StartAt(p.start, time) <= StartAt(q.start, time')
          /\ StartAt(p.start, time) \in Nat /\ StartAt(q.start, time') \in Nat
      BY <1>1, <3>4, StartLater
    <3>6. p.cancelled \/ ~p.renews \/ (p.notice # Never /\ StartAt(p.start, time) > p.notice)
      BY <2>2 DEF Over, StartAfter, StartAt
    <3> HIDE DEF p, q
    <3>7. q.cancelled \/ ~q.renews \/ (q.notice # Never /\ StartAt(q.start, time') > q.notice)
      <4>1. CASE p.notice # Never /\ StartAt(p.start, time) > p.notice
        <5>1. q.notice = p.notice
          BY <3>2, <4>1 DEF Alike
        <5>2. StartAt(q.start, time') > q.notice
          BY <3>4, <3>5, <4>1, <5>1
        <5>3. QED
          BY <4>1, <5>1, <5>2
      <4>2. QED
        BY <3>2, <3>6, <4>1 DEF Alike
    <3>8. QED
      BY <3>2, <3>3, <3>7 DEF Over, StartAfter, StartAt, q
  <2>3. QED
    BY <2>1, <2>2
<1>3. CASE Quiet /\ chain' = <<>> /\ checkout' = checkout
  BY <1>3 DEF Over, Sold
<1>4. ASSUME NEW w \in Workers, First(w) PROVE FALSE
  BY <1>4 DEF First, Over, Sold
<1>5. ASSUME NEW w \in Workers, Appends(w) PROVE FALSE
  <2>1. chain # <<>> /\ hand[w].tail = Len(chain) /\ ~chain[Len(chain)].cancelled
    BY <1>5, LastPeriod DEF Appends, Stands
  <2>2. chain[Len(chain)].renews
        /\ ~(chain[Len(chain)].notice # Never /\ StartAfter(chain[Len(chain)]) > chain[Len(chain)].notice)
    BY <1>5, <2>1 DEF Appends, Refuses
  <2>3. QED
    BY <2>1, <2>2 DEF Over
<1>6. ASSUME NEW w \in Workers, ListRenewal(w) PROVE Over'
  BY <1>6 DEF ListRenewal, stripeVars, Over, StartAfter
<1>7. QED
  BY <1>2, <1>3, <1>4, <1>5, <1>6, BookMoves DEF Quiet

LEMMA BrokenStays ==
  ASSUME TypeOK, [Next]_vars, ChainBroken PROVE ChainBroken'
<1>1. (revoked => revoked') /\ (erased => erased')
  BY Onward
<1>2. ASSUME Cancelled PROVE Cancelled' \/ erased'
  <2>1. PICK i \in 1..Len(chain) : chain[i].cancelled
    BY <1>2 DEF Cancelled
  <2>2. CASE Altered
    BY <2>1, <2>2 DEF Altered, Alike, Cancelled
  <2>3. ASSUME NEW p \in Periods, chain' = Append(chain, p) PROVE Cancelled'
    <3>1. chain'[i] = chain[i] /\ i \in 1..Len(chain')
      BY <2>3, LastPeriod, Appended
    <3>2. QED
      BY <2>1, <3>1 DEF Cancelled
  <2>4. CASE EraseMember
    BY <2>4 DEF EraseMember
  <2>5. ASSUME NEW w \in Workers, First(w) \/ Appends(w) PROVE Cancelled'
    <3>1. CASE First(w)
      BY <2>3, <3>1, SuccessorTyped DEF First
    <3>2. CASE Appends(w)
      <4> DEFINE t == hand[w].tail
                 n == hand[w].cycle
      <4>1. Stands(t) /\ chain' = Append(chain, Successor(chain[t], n))
        BY <3>2 DEF Appends
      <4>2. chain[t] \in Periods
        BY <4>1, ElementOfSeq DEF Stands, TypeOK
      <4>3. n \in Cycles
        BY DEF TypeOK, Hands
      <4>4. QED
        BY <2>3, <4>1, <4>2, <4>3, SuccessorTyped
    <3>3. QED
      BY <2>5, <3>1, <3>2
  <2>6. QED
    BY <2>2, <2>4, <2>5, ChainMoves
<1>3. QED
  BY <1>1, <1>2 DEF ChainBroken

LEMMA CheckoutStays ==
  ASSUME TypeOK, [Next]_vars
  PROVE  /\ checkout # "open" => checkout' # "open"
         /\ Settled => checkout' = checkout
<1>1. ASSUME NEW w \in Workers, First(w) \/ Appends(w) \/ ListRenewal(w)
      PROVE  checkout' = checkout \/ (checkout = "open" /\ checkout' = "paid")
  BY <1>1 DEF First, Appends, ListRenewal
<1>2. QED
  BY <1>1, BookMoves DEF Quiet, Settled

\* Kept(n) of the next state.
KeptNext(n) == n \in booked' \/ listed'[n] > 0 \/ (n = 1 /\ checkout' = "unapplied")

LEMMA KeptStays ==
  ASSUME TypeOK, [Next]_vars, NEW n \in Cycles, Kept(n) PROVE KeptNext(n)
<1>1. CASE n \in booked
  <2>1. n \in booked'
    BY <1>1, BookMoves DEF Quiet, First, Appends, ListRenewal
  <2>2. QED
    BY <2>1 DEF KeptNext
<1>2. CASE listed[n] > 0
  <2>1. ASSUME NEW w \in Workers, ListRenewal(w) PROVE listed'[n] > 0
    BY <1>2, <2>1 DEF ListRenewal, TypeOK
  <2>2. listed'[n] > 0
    BY <1>2, <2>1, BookMoves DEF Quiet, First, Appends
  <2>3. QED
    BY <2>2 DEF KeptNext
<1>3. CASE n = 1 /\ checkout = "unapplied"
  BY <1>3, CheckoutStays DEF KeptNext, Settled
<1>4. QED
  BY <1>1, <1>2, <1>3 DEF Kept, Listed

---------------------------------------------------------------------------
(* The invariant, one part after the other.                                *)

LEMMA CycledStep ==
  ASSUME TypeOK, Cycled, [Next]_vars PROVE Cycled'
<1>1. time \in Nat \ {0} /\ "paid" \in Kinds /\ "completed" \in Kinds
  BY DEF TypeOK, Kinds
<1>2. invoice'[1] # "failed"
  <2>1. CASE PaySession
    BY <2>1, FirstCycle DEF PaySession, TypeOK
  <2>2. ASSUME NEW result \in {"paid", "failed"}, Bill(result) PROVE invoice'[1] # "failed"
    BY <1>1, <2>2, FirstCycle DEF Bill, TypeOK, Cycled
  <2>3. ASSUME NEW n \in Cycles, PayLater(n) PROVE invoice'[1] # "failed"
    BY <2>3, FirstCycle DEF PayLater, TypeOK, Cycled
  <2>4. CASE UNCHANGED invoice
    BY <2>4 DEF Cycled
  <2>5. ASSUME NEW w \in Workers, WorkerStep(w) \/ FailJob(w) PROVE UNCHANGED invoice
    BY <2>5 DEF WorkerStep, TakeEvent, FailJob, HandlerStep, ApplyCheckoutPaid, ExpireCheckout, SeePayment,
       ReadTail, AppendPeriod, ReadListed, ListRenewal, RecordRenewalPaymentFailed, StopSubscription,
       MarkPaymentAccountGone, AskOwed, EndSubscription, MarkEvent, stripeVars
  <2>6. CASE OfficeStep \/ UNCHANGED vars
    BY <2>4, <2>6 DEF OfficeStep, StartOperation, AbandonOperation, SetMembershipRenewal, CancelMembership,
       SetMemberArchived, EraseMember, MemberStopRenewal, vars, stripeVars
  <2>7. QED
    BY <2>1, <2>2, <2>3, <2>4, <2>5, <2>6 DEF Next, StripeStep, SessionExpires, Tick, EndsAtStripe, RevokeAccess
<1>3. event'["paid"][1] = "none"
  <2>1. event["paid"][1] = "none" /\ invoice[1] # "failed" /\ time + 1 # 1
    BY <1>1 DEF Cycled
  <2>2. QED
    BY <1>1, <2>1, FirstCycle, EventMoves
<1>4. ASSUME NEW n \in Cycles, event'["completed"][n] # "none" PROVE n = 1
  <2>1. event["completed"][n] # "none" => n = 1
    BY DEF Cycled
  <2>2. QED
    BY <1>1, <1>4, <2>1, EventMoves
<1>5. ASSUME NEW w \in Workers
      PROVE  /\ hand'[w].kind = "paid" => hand'[w].cycle # 1
             /\ hand'[w].kind = "completed" => hand'[w].cycle = 1
  <2>1. /\ hand[w].kind = "paid" => hand[w].cycle # 1
        /\ hand[w].kind = "completed" => hand[w].cycle = 1
    BY DEF Cycled
  <2>2. ASSUME NEW kind \in Kinds, NEW n \in Cycles, TakeEvent(w, kind, n)
        PROVE  /\ hand'[w].kind = "paid" => hand'[w].cycle # 1
               /\ hand'[w].kind = "completed" => hand'[w].cycle = 1
    <3>1. hand'[w].kind = kind /\ hand'[w].cycle = n /\ event[kind][n] = "pending"
      BY <2>2, TakeEffect DEF TakeEvent
    <3>2. QED
      BY <3>1 DEF Cycled
  <2>3. QED
    BY <2>1, <2>2, HandMoves DEF Idle
<1>6. QED
  BY <1>2, <1>3, <1>4, <1>5 DEF Cycled

LEMMA StagedStep ==
  ASSUME TypeOK, Staged, [Next]_vars PROVE Staged'
<1> DEFINE Fits(h) ==
      /\ h.at \in {"see", "tail", "append", "read", "list"} => h.kind = "paid"
      /\ h.at = "pay" => h.kind = "completed"
      /\ h.at = "owed" => h.kind # "completed"
      /\ h.at \in {"expire", "record", "stop", "gone"} => h.kind \notin Money
<1>1. ASSUME NEW w \in Workers PROVE Fits(hand'[w])
  <2>1. Fits(hand[w])
    BY DEF Staged
  <2>2. CASE hand'[w] = Idle
    BY <2>2 DEF Idle
  <2>3. ASSUME NEW kind \in Kinds, NEW n \in Cycles, TakeEvent(w, kind, n) PROVE Fits(hand'[w])
    <3>1. hand'[w].at = TakenAt(kind, n) /\ hand'[w].kind = kind
      BY <2>3, TakeEffect
    <3>2. QED
      BY <3>1 DEF TakenAt, FirstStage, Kinds, Money
  <2>4. CASE Moved(w) /\ hand'[w].kind = hand[w].kind
    BY <2>1, <2>4 DEF Moved, Money
  <2>5. QED
    BY <2>1, <2>2, <2>3, <2>4, HandMoves
<1>2. QED
  BY <1>1 DEF Staged

LEMMA ApartStep ==
  ASSUME TypeOK, Apart, [Next]_vars PROVE Apart'
<1> DEFINE Busies(h) == h.at # "idle" /\ h.kind \in Money
<1>1. overlapped \subseteq overlapped'
  BY Onward
<1>2. ASSUME NEW w \in Workers, NEW kind \in Kinds, NEW n \in Cycles, TakeEvent(w, kind, n),
             NEW v \in Workers, v # w, Busies(hand'[v]), Busies(hand'[w])
      PROVE  hand'[v].cycle \in overlapped' /\ hand'[w].cycle \in overlapped'
  <2>1. hand'[v] = hand[v] /\ hand'[w].kind = kind /\ hand'[w].cycle = n
    BY <1>2, TakeEffect
  <2>2. Handles(v) /\ Busy(w) /\ kind \in Money
    BY <1>2, <2>1 DEF Handles, Busy
  <2>3. overlapped' = overlapped \cup {n} \cup {hand[x].cycle : x \in {u \in Workers \ {w} : Handles(u)}}
    BY <1>2, <2>2 DEF TakeEvent
  <2>4. QED
    BY <1>2, <2>1, <2>2, <2>3
<1>3. ASSUME NEW w \in Workers, ~\E kind \in Kinds, n \in Cycles : TakeEvent(w, kind, n), Busies(hand'[w])
      PROVE  Handles(w) /\ hand'[w].cycle = hand[w].cycle
  <2>1. CASE hand'[w] = hand[w]
    BY <1>3, <2>1 DEF Handles
  <2>2. CASE hand'[w] = Idle
    BY <1>3, <2>2 DEF Idle
  <2>3. CASE Moved(w) /\ hand'[w].kind = hand[w].kind /\ hand'[w].cycle = hand[w].cycle
    BY <1>3, <2>3 DEF Moved, Handles
  <2>4. QED
    BY <1>3, <2>1, <2>2, <2>3, HandMoves
<1>4. ASSUME NEW v \in Workers, NEW w \in Workers, v # w, Busies(hand'[v]), Busies(hand'[w])
      PROVE  hand'[w].cycle \in overlapped'
  <2>1. CASE \E kind \in Kinds, n \in Cycles : TakeEvent(w, kind, n)
    BY <1>2, <1>4, <2>1
  <2>2. CASE \E kind \in Kinds, n \in Cycles : TakeEvent(v, kind, n)
    BY <1>2, <1>4, <2>2
  <2>3. CASE ~(\E kind \in Kinds, n \in Cycles : TakeEvent(w, kind, n))
             /\ ~(\E kind \in Kinds, n \in Cycles : TakeEvent(v, kind, n))
    BY <1>1, <1>3, <1>4, <2>3 DEF Apart
  <2>4. QED
    BY <2>1, <2>2, <2>3
<1>5. QED
  BY <1>4 DEF Apart, Handles

\* The facts about a renewal that is appended now.
LEMMA AppendsEffect ==
  ASSUME TypeOK, Staged, Cycled, NEW w \in Workers, Appends(w)
  PROVE  /\ hand[w].kind = "paid" /\ hand[w].cycle \in Cycles \ {1}
         /\ hand[w].cycle \notin Foreign /\ ~Over /\ chain # <<>>
         /\ chain' \in Seq(Periods) /\ Len(chain') = Len(chain) + 1 /\ chain' # <<>>
         /\ chain'[Len(chain) + 1].cycle = hand[w].cycle
         /\ chain'[Len(chain) + 1].start = StartAfter(chain[Len(chain)])
         /\ \A i \in 1..Len(chain) : chain'[i] = chain[i]
<1> DEFINE t == hand[w].tail
           n == hand[w].cycle
<1>1. hand[w].kind = "paid" /\ n \in Cycles /\ n # 1
  BY DEF Appends, Staged, Cycled, TypeOK, Hands
<1>2. /\ Stands(t) /\ ~Refuses(chain[t], n) /\ t = Len(chain)
      /\ chain' = Append(chain, Successor(chain[t], n))
  BY DEF Appends
<1>3. t \in 1..Len(chain) /\ ~chain[t].cancelled
  BY <1>2 DEF Stands
<1>4. chain # <<>> /\ chain[t] \in Periods
  BY <1>2, <1>3, LastPeriod
<1>5. n \notin Foreign /\ ~Over
  BY <1>2, <1>3, <1>4 DEF Refuses, Over
<1>6. /\ Successor(chain[t], n) \in Periods /\ Successor(chain[t], n).cycle = n
      /\ Successor(chain[t], n).start = StartAfter(chain[t])
  BY <1>1, <1>4, SuccessorTyped
<1> DEFINE p == Successor(chain[t], n)
<1> HIDE DEF p
<1>7. p \in Periods /\ chain' = Append(chain, p) /\ p.cycle = n /\ p.start = StartAfter(chain[Len(chain)])
  BY <1>2, <1>6 DEF p
<1>8. QED
  BY <1>1, <1>4, <1>5, <1>7, Appended

LEMMA FirstEffect ==
  ASSUME TypeOK, Sold, NEW w \in Workers, First(w)
  PROVE  /\ chain = <<>> /\ Len(chain) = 0
         /\ chain' \in Seq(Periods) /\ Len(chain') = 1 /\ chain' # <<>> /\ chain'[1].cycle = 1
<1>1. chain = <<>> /\ Len(chain) = 0
  BY LastPeriod DEF First, Sold
<1> DEFINE p == FirstPeriod
<1>2. p \in Periods /\ p.cycle = 1 /\ chain' = Append(chain, p)
  BY SuccessorTyped DEF First
<1> HIDE DEF p
<1>3. QED
  BY <1>1, <1>2, Appended

LEMMA SoldStep ==
  ASSUME TypeOK, Staged, Cycled, Sold, [Next]_vars PROVE Sold'
<1>1. CASE Quiet
  <2>1. /\ checkout' = "paid" <=> checkout = "paid"
        /\ booked' = booked
    BY <1>1 DEF Quiet
  <2>2. chain' # <<>> => chain # <<>>
    BY <1>1, LastPeriod, EmptySeq DEF Quiet, Altered
  <2>3. chain # <<>> => chain' # <<>> \/ erased'
    <3>1. CASE Altered /\ chain # <<>>
      BY <3>1, LastPeriod, EmptySeq DEF Altered
    <3>2. QED
      BY <1>1, <3>1 DEF Quiet
  <2>4. \A i \in 1..Len(chain') : chain'[i].cycle \in booked
    <3>1. CASE Altered
      BY <3>1 DEF Altered, Alike, Sold
    <3>2. CASE chain' = <<>>
      BY <3>2, EmptySeq
    <3>3. QED
      BY <1>1, <3>1, <3>2 DEF Quiet
  <2>5. erased => erased'
    BY Onward
  <2>6. QED
    BY <2>1, <2>2, <2>3, <2>4, <2>5 DEF Sold
<1>2. ASSUME NEW w \in Workers, First(w) PROVE Sold'
  <2>1. checkout' = "paid" /\ booked' = booked \cup {1}
    BY <1>2 DEF First
  <2>2. chain' # <<>> /\ Len(chain') = 1 /\ chain'[1].cycle = 1
    BY <1>2, FirstEffect
  <2>3. QED
    BY <2>1, <2>2 DEF Sold
<1>3. ASSUME NEW w \in Workers, Appends(w) PROVE Sold'
  <2>1. checkout' = checkout /\ booked' = booked \cup {hand[w].cycle}
    BY <1>3 DEF Appends
  <2>2. /\ hand[w].cycle # 1 /\ chain # <<>> /\ chain' # <<>> /\ Len(chain') = Len(chain) + 1
        /\ chain'[Len(chain) + 1].cycle = hand[w].cycle
        /\ \A i \in 1..Len(chain) : chain'[i] = chain[i]
    BY <1>3, AppendsEffect
  <2>3. \A i \in 1..Len(chain') : chain'[i].cycle \in booked'
    <3>1. \A i \in 1..Len(chain') : i \in 1..Len(chain) \/ i = Len(chain) + 1
      BY <2>2, LastPeriod
    <3>2. QED
      BY <2>1, <2>2, <3>1 DEF Sold
  <2>4. QED
    BY <2>1, <2>2, <2>3 DEF Sold
<1>4. ASSUME NEW w \in Workers, ListRenewal(w) PROVE Sold'
  BY <1>4 DEF ListRenewal, Sold
<1>5. QED
  BY <1>1, <1>2, <1>3, <1>4, BookMoves

LEMMA ClosedStep ==
  ASSUME TypeOK, Staged, Cycled, Sold, Closed, [Next]_vars PROVE Closed'
<1>1. checkout # "open" => checkout' # "open"
  BY CheckoutStays
<1>2. listed' = listed \/ \E w \in Workers : ListRenewal(w)
  BY BookMoves DEF Quiet, First, Appends
<1>3. ASSUME NEW w \in Workers, ListRenewal(w)
      PROVE  /\ listed'[1] = 0
             /\ \A n \in Cycles : listed'[n] > 0 => checkout' # "open"
  <2>1. hand[w].at = "list" /\ hand[w].cycle # 1 /\ hand[w].cycle \in Cycles
    BY <1>3 DEF ListRenewal, Staged, Cycled, TypeOK, Hands
  <2>2. listed' = [listed EXCEPT ![hand[w].cycle] = @ + 1]
    BY <1>3 DEF ListRenewal
  <2>3. listed'[1] = 0
    BY <2>1, <2>2, FirstCycle DEF TypeOK, Closed
  <2>4. QED
    BY <1>1, <2>1, <2>3 DEF Closed
<1>4. ASSUME NEW w \in Workers, hand'[w].at \in {"append", "read", "list"} PROVE checkout' # "open"
  <2>1. CASE hand'[w] = hand[w]
    BY <1>1, <1>4, <2>1 DEF Closed
  <2>2. CASE hand'[w] = Idle
    BY <1>4, <2>2 DEF Idle
  <2>3. ASSUME NEW kind \in Kinds, NEW n \in Cycles, TakeEvent(w, kind, n) PROVE FALSE
    <3>1. hand'[w].at = TakenAt(kind, n)
      BY <2>3, TakeEffect
    <3>2. QED
      BY <1>4, <3>1 DEF TakenAt, FirstStage, Kinds
  <2>4. CASE HandlerStep(w) /\ Moved(w)
    <3>1. \/ hand[w].at \in {"append", "read"}
          \/ hand[w].at = "tail" /\ hand'[w].at = "append"
          \/ hand[w].at = "owed" /\ hand'[w].at = "read"
      BY <1>4, <2>4 DEF Moved
    <3>2. CASE hand[w].at \in {"append", "read"}
      BY <1>1, <3>2 DEF Closed
    <3>3. CASE hand[w].at = "tail" /\ hand'[w].at = "append"
      <4>1. ReadTail(w)
        BY <2>4, <3>3, StageActs
      <4>2. chain # <<>>
        BY <3>3, <4>1, TailEffect DEF HasTail
      <4>3. QED
        BY <1>1, <4>2 DEF Sold
    <3>4. CASE hand[w].at = "owed" /\ hand'[w].at = "read"
      <4>1. AskOwed(w)
        BY <2>4, <3>4, StageActs
      <4>2. CancelIsOwed
        <5>1. CASE ~CancelIsOwed
          <6>1. Goes(w, "ignored")
            BY <4>1, <5>1 DEF AskOwed
          <6>2. hand'[w].at = "ignored"
            BY <6>1, GoesEffect DEF Outcomes
          <6>3. QED
            BY <3>4, <6>2
        <5>2. QED
          BY <5>1
      <4>3. QED
        BY <1>1, <4>2 DEF CancelIsOwed, Closed
    <3>5. QED
      BY <3>1, <3>2, <3>3, <3>4
  <2>5. QED
    BY <2>1, <2>2, <2>3, <2>4, HandMoves
<1>5. QED
  BY <1>1, <1>2, <1>3, <1>4 DEF Closed

LEMMA UsedOnceStep ==
  ASSUME TypeOK, TypeOK', Staged, Cycled, Sold, Closed, [Next]_vars, NEW n \in Cycles,
         n \notin overlapped', UsedOnce(n), \A w \in Workers : HandSafe(w)
  PROVE  UsedOnce(n)'
<1>1. n \notin overlapped
  BY Onward
<1>2. Over => Over'
  BY OverStays
<1>3. CASE Quiet
  <2>1. booked' = booked /\ listed' = listed
    BY <1>3 DEF Quiet
  <2>2. PeriodsFor(n)' \subseteq PeriodsFor(n)
    <3>1. CASE Altered
      BY <3>1 DEF Altered, Alike, PeriodsFor
    <3>2. CASE chain' = <<>>
      BY <3>2, EmptySeq DEF PeriodsFor
    <3>3. QED
      BY <1>3, <3>1, <3>2 DEF Quiet
  <2>3. QED
    BY <1>2, <2>1, <2>2 DEF UsedOnce
<1>4. ASSUME NEW w \in Workers, First(w) PROVE UsedOnce(n)'
  <2>1. listed'[n] = 0
    <3>1. listed' = listed /\ checkout = "open" /\ listed[n] \in Nat
      BY <1>4 DEF First, TypeOK
    <3>2. ~(listed[n] > 0)
      BY <3>1 DEF Closed
    <3>3. QED
      BY <3>1, <3>2
  <2>2. Len(chain') = 1
    BY <1>4, FirstEffect
  <2>3. \A i, j \in PeriodsFor(n)' : i = j
    BY <2>2 DEF PeriodsFor
  <2>4. QED
    BY <2>1, <2>3 DEF UsedOnce
<1>5. ASSUME NEW w \in Workers, Appends(w) PROVE UsedOnce(n)'
  <2>1. /\ hand[w].kind = "paid" /\ hand[w].cycle \in Cycles /\ hand[w].cycle \notin Foreign /\ ~Over
        /\ Len(chain') = Len(chain) + 1
        /\ chain'[Len(chain) + 1].cycle = hand[w].cycle
        /\ \A i \in 1..Len(chain) : chain'[i] = chain[i]
    BY <1>5, AppendsEffect
  <2>2. /\ booked' = booked \cup {hand[w].cycle} /\ listed' = listed /\ listed[n] \in Nat
        /\ hand[w].at = "append"
    BY <1>5 DEF Appends, TypeOK
  <2>3. Len(chain) \in Nat
    BY LastPeriod
  <2>4. \A i \in 1..Len(chain') : i \in 1..Len(chain) \/ i = Len(chain) + 1
    BY <2>1, <2>3
  <2>5. CASE n # hand[w].cycle
    <3>1. PeriodsFor(n)' \subseteq PeriodsFor(n)
      BY <2>1, <2>4, <2>5 DEF PeriodsFor
    <3>2. listed[n] > 0 => n \in Foreign
      BY <2>1 DEF UsedOnce
    <3>3. QED
      BY <2>2, <2>5, <3>1, <3>2 DEF UsedOnce
  <2>6. CASE n = hand[w].cycle
    <3>1. n \notin booked
      BY <1>1, <2>1, <2>2, <2>6 DEF HandSafe
    <3>2. PeriodsFor(n)' \subseteq {Len(chain) + 1}
      BY <2>1, <2>4, <3>1 DEF PeriodsFor, Sold
    <3>3. ~(listed[n] > 0)
      BY <2>1, <2>6 DEF UsedOnce
    <3>4. listed'[n] = 0
      BY <2>2, <3>3
    <3>5. QED
      BY <3>2, <3>4 DEF UsedOnce
  <2>7. QED
    BY <2>5, <2>6
<1>6. ASSUME NEW w \in Workers, ListRenewal(w) PROVE UsedOnce(n)'
  <2>1. /\ hand[w].at = "list" /\ UNCHANGED <<chain, booked>>
        /\ listed' = [listed EXCEPT ![hand[w].cycle] = @ + 1]
    BY <1>6 DEF ListRenewal
  <2>2. hand[w].kind = "paid" /\ hand[w].cycle \in Cycles
    BY <2>1 DEF Staged, TypeOK, Hands
  <2>3. \A i, j \in PeriodsFor(n)' : i = j
    BY <2>1 DEF PeriodsFor, UsedOnce
  <2>4. CASE n # hand[w].cycle
    <3>1. listed'[n] = listed[n]
      BY <2>1, <2>2, <2>4 DEF TypeOK
    <3>2. QED
      BY <1>2, <2>1, <2>3, <3>1 DEF UsedOnce
  <2>5. CASE n = hand[w].cycle
    <3>1. listed[n] = 0 /\ n \notin booked /\ (n \in Foreign \/ Over)
      BY <1>1, <2>1, <2>2, <2>5 DEF HandSafe
    <3>2. listed'[n] = 1
      BY <2>1, <2>2, <2>5, <3>1 DEF TypeOK
    <3>3. QED
      BY <1>2, <2>1, <2>3, <3>1, <3>2 DEF UsedOnce
  <2>6. QED
    BY <2>4, <2>5
<1>7. QED
  BY <1>3, <1>4, <1>5, <1>6, BookMoves

LEMMA ToldStep ==
  ASSUME TypeOK, Told, Cycled, [Next]_vars, \A w \in Workers : HandKeeps(w)
  PROVE  Told'
<1>1. "completed" \in Kinds /\ "paid" \in Kinds
  BY DEF Kinds
<1>2. /\ sub # "none" => sub' # "none"
      /\ sub = "none" /\ sub' # "none" => PaySession
      /\ revoked => revoked'
  BY Onward
<1>3. \A k \in Kinds, n \in Cycles : event[k][n] # "none" => event'[k][n] # "none"
  BY EventMoves DEF Outcomes
<1>4. sub' # "none" => event'["completed"][1] # "none"
  <2>1. CASE PaySession
    <3>1. event'["completed"][1] = "pending"
      BY <1>1, <2>1, FirstCycle, RaiseEffect DEF PaySession
    <3>2. QED
      BY <3>1
  <2>2. QED
    BY <1>1, <1>2, <1>3, <2>1, FirstCycle DEF Told
<1>5. ASSUME NEW n \in Cycles, event'["paid"][n] # "none" PROVE sub' # "none"
  <2>1. event["paid"][n] # "none" => sub # "none"
    BY DEF Told
  <2>2. sub # "none"
    BY <1>1, <1>5, <2>1, EventMoves
  <2>3. QED
    BY <1>2, <2>2
<1>6. ASSUME event'["completed"][1] \in Outcomes, ~revoked' PROVE Settled'
  <2>1. Settled
    <3>1. CASE event'["completed"][1] = event["completed"][1]
      BY <1>2, <1>6, <3>1 DEF Told
    <3>2. CASE \E w \in Workers : hand[w].kind = "completed" /\ hand[w].at \in Outcomes
      BY <1>2, <1>6, <3>2 DEF HandKeeps, Done
    <3>3. event'["completed"][1] # "pending"
      BY <1>6 DEF Outcomes
    <3>4. QED
      BY <1>1, <3>1, <3>2, <3>3, FirstCycle, EventMoves
  <2>2. QED
    BY <2>1, CheckoutStays DEF Settled
<1>7. QED
  BY <1>4, <1>5, <1>6 DEF Told

LEMMA MoneyKeptStep ==
  ASSUME TypeOK, Cycled, MoneyKept, [Next]_vars, \A w \in Workers : HandKeeps(w), Sold
  PROVE  MoneyKept'
<1> DEFINE K(n) == IF n = 1 THEN "completed" ELSE "paid"
<1>1. ASSUME NEW n \in Cycles, event'[K(n)][n] \in Outcomes, n \notin overlapped', ~ChainBroken'
      PROVE  KeptNext(n)
  <2>1. K(n) \in Kinds /\ event'[K(n)][n] # "pending"
    BY <1>1 DEF Kinds, Outcomes
  <2>2. n \notin overlapped /\ ~ChainBroken
    BY <1>1, Onward, BrokenStays
  <2>3. CASE event'[K(n)][n] = event[K(n)][n]
    <3>1. Kept(n)
      BY <1>1, <2>2, <2>3 DEF MoneyKept, Kept
    <3>2. QED
      BY <3>1, KeptStays
  <2>4. ASSUME NEW w \in Workers, hand[w].kind = K(n), hand[w].cycle = n, hand[w].at \in Outcomes
        PROVE  Kept(n)
    <3>1. Done(w) /\ hand[w].at # "idle" /\ ~revoked
      BY <2>2, <2>4 DEF Done, Outcomes, ChainBroken
    <3>2. CASE n = 1
      <4>1. Settled
        BY <2>4, <3>1, <3>2 DEF HandKeeps
      <4>2. QED
        BY <3>2, <4>1 DEF Settled, Kept, Listed, Sold
    <3>3. CASE n # 1
      BY <2>2, <2>4, <3>1, <3>3 DEF HandKeeps
    <3>4. QED
      BY <3>2, <3>3
  <2>5. Kept(n) \/ event'[K(n)][n] = event[K(n)][n]
    BY <2>1, <2>4, EventMoves
  <2>6. QED
    BY <2>3, <2>5, KeptStays
<1>2. QED
  BY <1>1 DEF MoneyKept, KeptNext, Listed

\* Why a renewal's handler goes where it goes.
LEMMA RenewalMoves ==
  ASSUME TypeOK, Staged, NEW w \in Workers, HandlerStep(w), Moved(w), hand[w].kind = "paid"
  PROVE  LET at == hand[w].at
             to == hand'[w].at
             n == hand[w].cycle
             t == hand[w].tail
         IN
         /\ at \in {"see", "tail", "append", "owed", "read", "list", "end"}
         /\ to \in {"tail", "append", "owed", "read", "list"} => UNCHANGED <<chain, booked, listed, checkout>>
         /\ to = "tail" => at = "see" /\ n \notin booked
         /\ to = "append" => at = "tail" /\ hand'[w].tail = Len(chain)
         /\ to = "owed" => (at = "tail" /\ ~HasTail) \/ (at = "append" /\ ~Stands(t))
         /\ to = "read" => \/ at = "append" /\ Stands(t) /\ Refuses(chain[t], n)
                           \/ at = "owed" /\ CancelIsOwed
         /\ to = "list" => at = "read" /\ ~(listed[n] > 0)
         /\ to = "end" => KeptNext(n)
         /\ to = "ignored" => \/ at = "see" /\ n \in booked
                              \/ at = "append" /\ Stands(t) /\ t < Len(chain)
                              \/ at = "owed" /\ ~CancelIsOwed
         /\ to = "applied" => at = "end" \/ n \in booked'
         /\ to = "failed" => at = "end"
<1> USE DEF bookVars
<1> DEFINE at == hand[w].at
           to == hand'[w].at
           n == hand[w].cycle
           t == hand[w].tail
<1>0. n \in Cycles
  BY DEF TypeOK, Hands
<1>1. at \in {"see", "tail", "append", "owed", "read", "list", "end"}
  BY DEF Moved, Staged, Money
<1>2. \A s \in Stages \cup Outcomes : Goes(w, s) => to = s
  BY GoesEffect
<1>3. \A s \in {"see", "tail", "append", "owed", "read", "list", "end", "ignored", "applied", "failed"} :
        s \in Stages \cup Outcomes
  BY DEF Stages, Outcomes
<1>4. CASE at = "see"
  <2>1. SeePayment(w)
    BY <1>4, StageActs
  <2>2. /\ UNCHANGED <<chain, booked, listed, checkout>>
        /\ (n \in booked /\ Goes(w, "ignored")) \/ (n \notin booked /\ Goes(w, "tail"))
    BY <2>1 DEF SeePayment
  <2>3. (n \in booked /\ to = "ignored") \/ (n \notin booked /\ to = "tail")
    BY <1>2, <1>3, <2>2
  <2>4. QED
    BY <1>4, <2>2, <2>3
<1>5. CASE at = "tail"
  <2>1. ReadTail(w)
    BY <1>5, StageActs
  <2>2. UNCHANGED <<chain, booked, listed, checkout>>
    BY <2>1 DEF ReadTail
  <2>3. (HasTail /\ to = "append" /\ hand'[w].tail = Len(chain)) \/ (~HasTail /\ to = "owed")
    BY <2>1, TailEffect
  <2>4. QED
    BY <1>5, <2>2, <2>3
<1>6. CASE at = "append"
  <2>1. AppendPeriod(w)
    BY <1>6, StageActs
  <2>2. /\ UNCHANGED <<listed, checkout>>
        /\ \/ ~Stands(t) /\ Goes(w, "owed") /\ UNCHANGED <<chain, booked>>
           \/ Stands(t) /\ Refuses(chain[t], n) /\ Goes(w, "read") /\ UNCHANGED <<chain, booked>>
           \/ Stands(t) /\ t < Len(chain) /\ Goes(w, "ignored") /\ UNCHANGED <<chain, booked>>
           \/ booked' = booked \cup {n} /\ Goes(w, "applied")
    BY <2>1 DEF AppendPeriod
  <2>3. \/ ~Stands(t) /\ to = "owed" /\ UNCHANGED <<chain, booked>>
        \/ Stands(t) /\ Refuses(chain[t], n) /\ to = "read" /\ UNCHANGED <<chain, booked>>
        \/ Stands(t) /\ t < Len(chain) /\ to = "ignored" /\ UNCHANGED <<chain, booked>>
        \/ booked' = booked \cup {n} /\ to = "applied"
    BY <1>2, <1>3, <2>2
  <2>4. QED
    BY <1>6, <2>2, <2>3
<1>7. CASE at = "owed"
  <2>1. AskOwed(w)
    BY <1>7, StageActs
  <2>2. /\ UNCHANGED <<chain, booked, listed, checkout>>
        /\ (~CancelIsOwed /\ Goes(w, "ignored")) \/ (CancelIsOwed /\ Goes(w, "read"))
    BY <2>1 DEF AskOwed
  <2>3. (~CancelIsOwed /\ to = "ignored") \/ (CancelIsOwed /\ to = "read")
    BY <1>2, <1>3, <2>2
  <2>4. QED
    BY <1>7, <2>2, <2>3
<1>8. CASE at = "read"
  <2>1. ReadListed(w)
    BY <1>8, StageActs
  <2>2. /\ UNCHANGED <<chain, booked, listed, checkout>>
        /\ (listed[n] > 0 /\ Goes(w, "end")) \/ (~(listed[n] > 0) /\ Goes(w, "list"))
    BY <2>1 DEF ReadListed
  <2>3. (listed'[n] > 0 /\ to = "end") \/ (~(listed[n] > 0) /\ to = "list")
    BY <1>2, <1>3, <2>2
  <2>4. QED
    BY <1>8, <2>2, <2>3 DEF KeptNext
<1>9. CASE at = "list"
  <2>1. ListRenewal(w)
    BY <1>9, StageActs
  <2>2. listed' = [listed EXCEPT ![n] = @ + 1] /\ Goes(w, "end")
    BY <2>1 DEF ListRenewal
  <2>3. listed'[n] > 0 /\ to = "end"
    BY <1>0, <1>2, <1>3, <2>2 DEF TypeOK
  <2>4. QED
    BY <1>9, <2>3 DEF KeptNext
<1>10. CASE at = "end"
  BY <1>10 DEF Moved
<1>11. QED
  BY <1>1, <1>4, <1>5, <1>6, <1>7, <1>8, <1>9, <1>10

\* Another handler of money is at it: this one is idle, or excused.
LEMMA LoudExcused ==
  ASSUME TypeOK, Staged, Apart, NEW v \in Workers, Handles(v), hand[v].cycle \notin overlapped,
         NEW w \in Workers, First(w) \/ Appends(w) \/ ListRenewal(w)
  PROVE  v = w
<1>1. Handles(w)
  BY DEF First, Appends, ListRenewal, Staged, Handles, Money
<1>2. QED
  BY <1>1 DEF Apart

LEMMA HandSafeStep ==
  ASSUME TypeOK, TypeOK', Staged, Apart, Sold, Closed, [Next]_vars, NEW w \in Workers, HandSafe(w)
  PROVE  HandSafe(w)'
<1> DEFINE n == hand[w].cycle
<1> SUFFICES ASSUME hand'[w].kind = "paid", hand'[w].cycle \notin overlapped'
             PROVE  /\ hand'[w].at \in {"tail", "append", "owed", "read", "list"} => hand'[w].cycle \notin booked'
                    /\ hand'[w].at = "append" => chain' = <<>> \/ hand'[w].tail = Len(chain')
                    /\ hand'[w].at \in {"read", "list"} => hand'[w].cycle \in Foreign \/ Over'
                    /\ hand'[w].at = "list" => listed'[hand'[w].cycle] = 0
  BY DEF HandSafe
<1>1. overlapped \subseteq overlapped' /\ (Over => Over')
  BY Onward, OverStays
<1>2. CASE hand'[w] = hand[w]
  <2>1. CASE Quiet
    <3>1. chain = <<>> \/ hand[w].tail = Len(chain) => chain' = <<>> \/ hand[w].tail = Len(chain')
      BY <2>1, LastPeriod, EmptySeq DEF Quiet, Altered
    <3>2. QED
      BY <1>1, <1>2, <2>1, <3>1 DEF Quiet, HandSafe
  <2>2. ASSUME NEW v \in Workers, First(v) \/ Appends(v) \/ ListRenewal(v) PROVE hand[w].at = "idle"
    <3>1. hand'[v].at \in {"applied", "end"} /\ hand[v].at \notin {"applied", "end"}
      BY <2>2, LoudEffect DEF First, Appends, ListRenewal
    <3>2. v # w
      BY <1>2, <3>1
    <3>3. ~Handles(w)
      BY <1>1, <1>2, <2>2, <3>2, LoudExcused
    <3>4. QED
      BY <1>2, <3>3 DEF Handles, Money
  <2>3. QED
    BY <1>2, <2>1, <2>2, BookMoves
<1>3. CASE hand'[w] = Idle
  BY <1>3 DEF Idle
<1>4. ASSUME NEW kind \in Kinds, NEW m \in Cycles, TakeEvent(w, kind, m)
      PROVE  hand'[w].at \in {"see", "failed"}
  <2>1. hand'[w].at = TakenAt(kind, m) /\ kind = "paid"
    BY <1>4, TakeEffect
  <2>2. QED
    BY <2>1 DEF TakenAt, FirstStage
<1>5. CASE HandlerStep(w) /\ Moved(w) /\ hand'[w].kind = hand[w].kind /\ hand'[w].cycle = n
  <2> DEFINE at == hand[w].at
             to == hand'[w].at
             t == hand[w].tail
  <2>1. /\ to \in {"tail", "append", "owed", "read", "list"} => UNCHANGED <<chain, booked, listed, checkout>>
        /\ to = "tail" => at = "see" /\ n \notin booked
        /\ to = "append" => at = "tail" /\ hand'[w].tail = Len(chain)
        /\ to = "owed" => at = "tail" \/ at = "append"
        /\ to = "read" => \/ at = "append" /\ Stands(t) /\ Refuses(chain[t], n)
                          \/ at = "owed" /\ CancelIsOwed
        /\ to = "list" => at = "read" /\ ~(listed[n] > 0)
    BY <1>5, RenewalMoves
  <2>2. /\ at \in {"tail", "append", "owed", "read", "list"} => n \notin booked
        /\ at = "append" => chain = <<>> \/ t = Len(chain)
        /\ at \in {"read", "list"} => n \in Foreign \/ Over
    BY <1>1, <1>5 DEF HandSafe
  <2>3. to = "read" => n \in Foreign \/ Over
    <3>1. CASE at = "append" /\ Stands(t) /\ Refuses(chain[t], n)
      <4>1. t \in 1..Len(chain)
        BY <3>1 DEF Stands
      <4>2. chain # <<>>
        BY <4>1, LastPeriod
      <4>3. QED
        BY <2>2, <3>1, <4>2 DEF Refuses, Over
    <3>2. CASE CancelIsOwed
      BY <3>2 DEF CancelIsOwed, Closed, Over
    <3>3. QED
      BY <2>1, <3>1, <3>2
  <2>4. listed[n] \in Nat
    BY DEF TypeOK, Hands
  <2>5. QED
    BY <1>1, <1>5, <2>1, <2>2, <2>3, <2>4
<1>6. QED
  BY <1>2, <1>3, <1>4, <1>5, HandMoves

LEMMA HandKeepsStep ==
  ASSUME TypeOK, Staged, Apart, Sold, Told, [Next]_vars, NEW w \in Workers, HandSafe(w), HandKeeps(w)
  PROVE  HandKeeps(w)'
<1> DEFINE n == hand[w].cycle
<1>1. /\ revoked => revoked'
      /\ overlapped \subseteq overlapped'
      /\ Settled => Settled'
      /\ \A m \in Cycles : Kept(m) => KeptNext(m)
      /\ ChainBroken => ChainBroken'
  BY Onward, CheckoutStays, KeptStays, BrokenStays DEF Settled
<1>2. ASSUME hand'[w].kind = "completed", Done(w)', ~revoked' PROVE Settled'
  <2>1. CASE hand'[w] = hand[w]
    BY <1>1, <1>2, <2>1 DEF HandKeeps, Done
  <2>2. CASE hand'[w] = Idle
    BY <1>2, <2>2 DEF Idle, Done, Outcomes
  <2>3. ASSUME NEW kind \in Kinds, NEW m \in Cycles, TakeEvent(w, kind, m) PROVE FALSE
    <3>1. hand'[w].at = TakenAt("completed", m) /\ ~revoked
      BY <1>1, <1>2, <2>3, TakeEffect
    <3>2. QED
      BY <1>2, <3>1 DEF TakenAt, FirstStage, Done, Outcomes
  <2>4. CASE HandlerStep(w) /\ Moved(w) /\ hand'[w].kind = hand[w].kind
    <3>1. hand[w].at \in {"pay", "end"}
      BY <1>2, <2>4 DEF Moved, Staged, Money
    <3>2. CASE hand[w].at = "pay"
      <4>1. ApplyCheckoutPaid(w)
        BY <2>4, <3>2, StageActs
      <4>2. QED
        BY <4>1 DEF ApplyCheckoutPaid, Settled
    <3>3. CASE hand[w].at = "end"
      BY <1>1, <1>2, <2>4, <3>3 DEF HandKeeps, Done
    <3>4. QED
      BY <3>1, <3>2, <3>3
  <2>5. QED
    BY <2>1, <2>2, <2>3, <2>4, HandMoves
<1>3. ASSUME hand'[w].kind = "paid", hand'[w].at # "idle", hand'[w].cycle \notin overlapped', ~ChainBroken'
      PROVE  /\ Settled'
             /\ hand'[w].at = "owed" => chain' = <<>>
             /\ Done(w)' => KeptNext(hand'[w].cycle)
  <2>1. CASE hand'[w] = hand[w]
    <3>1. /\ Settled
          /\ hand[w].at = "owed" => chain = <<>>
          /\ Done(w) => Kept(n)
      BY <1>1, <1>3, <2>1 DEF HandKeeps
    <3>2. Quiet
      <4>1. ASSUME NEW v \in Workers, First(v) \/ Appends(v) \/ ListRenewal(v) PROVE FALSE
        <5>1. hand'[v].at \in {"applied", "end"} /\ hand[v].at \notin {"applied", "end"}
          BY <4>1, LoudEffect DEF First, Appends, ListRenewal
        <5>2. v # w
          BY <2>1, <5>1
        <5>3. Handles(w) /\ n \notin overlapped
          BY <1>1, <1>3, <2>1 DEF Handles, Money
        <5>4. QED
          BY <4>1, <5>2, <5>3, LoudExcused
      <4>2. QED
        BY <4>1, BookMoves
    <3>3. chain = <<>> => chain' = <<>>
      BY <3>2, LastPeriod, EmptySeq DEF Quiet, Altered
    <3>4. n \in Cycles
      BY DEF TypeOK, Hands
    <3>5. Kept(n) => KeptNext(hand'[w].cycle)
      BY <1>1, <2>1, <3>4
    <3>6. QED
      BY <1>1, <2>1, <3>1, <3>3, <3>5 DEF Done
  <2>2. CASE hand'[w] = Idle
    BY <1>3, <2>2 DEF Idle
  <2>3. ASSUME NEW kind \in Kinds, NEW m \in Cycles, TakeEvent(w, kind, m)
        PROVE  Settled' /\ hand'[w].at = "see"
    <3>1. hand'[w].at = TakenAt("paid", m) /\ hand'[w].cycle = m /\ kind = "paid" /\ ~revoked
      BY <1>1, <1>3, <2>3, TakeEffect DEF ChainBroken
    <3>2. event["paid"][m] = "pending" /\ event["completed"][1] # "pending"
      BY <1>3, <2>3, <3>1 DEF TakeEvent, Money
    <3>3. event["completed"][1] # "none"
      BY <3>2 DEF Told
    <3>4. event["completed"][1] \in Outcomes
      BY <3>2, <3>3, FirstCycle DEF TypeOK, Kinds
    <3>5. Settled
      BY <1>1, <1>3, <3>1, <3>4 DEF Told
    <3>6. QED
      BY <1>1, <3>1, <3>5 DEF TakenAt, FirstStage
  <2>4. CASE HandlerStep(w) /\ Moved(w) /\ hand'[w].kind = hand[w].kind /\ hand'[w].cycle = n
    <3> DEFINE at == hand[w].at
               to == hand'[w].at
               t == hand[w].tail
    <3>1. /\ at \in {"see", "tail", "append", "owed", "read", "list", "end"}
          /\ to = "owed" => UNCHANGED <<chain, booked, listed, checkout>>
          /\ to = "owed" => (at = "tail" /\ ~HasTail) \/ (at = "append" /\ ~Stands(t))
          /\ to = "end" => KeptNext(n)
          /\ to = "ignored" => \/ at = "see" /\ n \in booked
                               \/ at = "append" /\ Stands(t) /\ t < Len(chain)
                               \/ at = "owed" /\ ~CancelIsOwed
          /\ to = "applied" => at = "end" \/ n \in booked'
          /\ to = "failed" => at = "end"
      BY <1>3, <2>4, RenewalMoves
    <3>2. /\ Settled
          /\ at = "owed" => chain = <<>>
          /\ Done(w) => Kept(n)
      BY <1>1, <1>3, <2>4, <3>1 DEF HandKeeps
    <3>3. at = "append" => chain = <<>> \/ t = Len(chain)
      BY <1>1, <1>3, <2>4 DEF HandSafe
    <3>4. ~Cancelled /\ ~erased /\ n \in Cycles
      BY <1>1, <1>3 DEF ChainBroken, TypeOK, Hands
    <3>5. to = "owed" => chain = <<>>
      <4>1. CASE chain # <<>>
        <5>1. Len(chain) \in 1..Len(chain) /\ ~chain[Len(chain)].cancelled
          BY <3>4, <4>1, LastPeriod DEF Cancelled
        <5>2. HasTail /\ (at = "append" => Stands(t))
          BY <3>3, <4>1, <5>1 DEF HasTail, Stands
        <5>3. QED
          BY <3>1, <5>2
      <4>2. QED
        BY <4>1
    <3>6. at = "append" /\ Stands(t) => ~(t < Len(chain))
      <4>1. CASE at = "append" /\ Stands(t)
        <5>1. chain # <<>> /\ Len(chain) \in Nat
          BY <4>1, LastPeriod DEF Stands
        <5>2. QED
          BY <3>3, <4>1, <5>1
      <4>2. QED
        BY <4>1
    <3>7. at = "owed" => CancelIsOwed
      BY <3>2, <3>4 DEF CancelIsOwed, Settled, Sold
    <3>8. Done(w)' => KeptNext(n)
      <4>1. CASE to = "end"
        BY <3>1, <4>1
      <4>2. CASE to = "ignored"
        <5>1. Kept(n)
          BY <3>1, <3>6, <3>7, <4>2 DEF Kept
        <5>2. QED
          BY <1>1, <3>4, <5>1
      <4>3. CASE to \in {"applied", "failed"}
        <5>1. CASE at = "end"
          BY <1>1, <3>2, <3>4, <5>1 DEF Done
        <5>2. CASE n \in booked'
          BY <5>2 DEF KeptNext
        <5>3. QED
          BY <3>1, <4>3, <5>1, <5>2
      <4>4. QED
        BY <4>1, <4>2, <4>3 DEF Done, Outcomes
    <3>9. KeptNext(n) => KeptNext(hand'[w].cycle)
      BY <2>4 DEF KeptNext
    <3>10. QED
      BY <1>1, <3>1, <3>2, <3>5, <3>8, <3>9
  <2>5. QED
    <3>1. ASSUME hand'[w].at = "see" PROVE ~Done(w)'
      BY <3>1 DEF Done, Outcomes
    <3>2. QED
      BY <1>3, <2>1, <2>2, <2>3, <2>4, <3>1, HandMoves
<1>4. QED
  BY <1>2, <1>3 DEF HandKeeps, Kept, KeptNext, Listed

---------------------------------------------------------------------------
(* The theorems.                                                           *)

LEMMA TypeInit == Init => TypeOK
<1> SUFFICES ASSUME Init PROVE TypeOK
  OBVIOUS
<1>1. chain \in Seq(Periods)
  BY EmptySeq DEF Init
<1>2. Never \in 1..Never /\ time \in 1..Never /\ upsets \in 0..MaxUpsets
  BY CyclesAssumption, UpsetsAssumption DEF Init, Never
<1>3. listed \in [Cycles -> Nat]
  BY DEF Init
<1>4. invoice \in [Cycles -> {"none", "failed", "paid"}]
  BY DEF Init
<1>5. event \in [Kinds -> [Cycles -> {"none", "pending"} \cup Outcomes]]
  BY DEF Init
<1>6. hand \in [Workers -> Hands]
  BY IdleTyped DEF Init
<1>7. office \in Operations
  BY DEF Init, NoOperation, Operations
<1>8. QED
  BY <1>1, <1>2, <1>3, <1>4, <1>5, <1>6, <1>7 DEF Init, TypeOK

LEMMA InvInit == Init => SInv
<1> SUFFICES ASSUME Init PROVE SInv
  OBVIOUS
<1>1. TypeOK
  BY TypeInit
<1>2. \A w \in Workers : hand[w].at = "idle" /\ hand[w].kind = "completed" /\ hand[w].cycle = 1
  BY DEF Init, Idle
<1>3. \A k \in Kinds, n \in Cycles : event[k][n] = "none"
  BY DEF Init
<1>4. Cycled
  BY <1>2, <1>3, FirstCycle DEF Init, Cycled, Kinds
<1>5. Staged /\ Apart
  BY <1>2 DEF Staged, Apart, Handles
<1>6. Len(chain) = 0 /\ chain = <<>>
  BY <1>1, LastPeriod DEF Init
<1>7. Sold
  BY <1>6 DEF Init, Sold
<1>8. \A n \in Cycles : listed[n] = 0
  BY DEF Init
<1>9. Closed
  BY <1>2, <1>8, FirstCycle DEF Closed
<1>10. Told
  BY <1>3, FirstCycle DEF Init, Told, Kinds, Outcomes
<1>11. MoneyKept
  BY <1>3 DEF MoneyKept, Kinds, Outcomes
<1>12. \A n \in Cycles : UsedOnce(n)
  BY <1>6, <1>8 DEF UsedOnce, PeriodsFor
<1>13. \A w \in Workers : HandSafe(w) /\ HandKeeps(w)
  BY <1>2 DEF HandSafe, HandKeeps, Done, Outcomes
<1>14. QED
  BY <1>1, <1>4, <1>5, <1>7, <1>9, <1>10, <1>11, <1>12, <1>13 DEF SInv

LEMMA InvStep == SInv /\ [Next]_vars => SInv'
<1> SUFFICES ASSUME SInv, [Next]_vars PROVE SInv'
  OBVIOUS
<1> USE DEF SInv
<1>1. TypeOK'
  BY TypeStep
<1>2. Cycled' /\ Staged' /\ Apart' /\ Sold' /\ Closed' /\ Told' /\ MoneyKept'
  BY CycledStep, StagedStep, ApartStep, SoldStep, ClosedStep, ToldStep, MoneyKeptStep
<1>3. ASSUME NEW n \in Cycles, n \notin overlapped' PROVE UsedOnce(n)'
  <2>1. n \notin overlapped
    BY <1>3, Onward
  <2>2. UsedOnce(n)
    BY <2>1
  <2>3. QED
    BY <1>1, <1>3, <2>2, UsedOnceStep
<1>4. ASSUME NEW w \in Workers PROVE HandSafe(w)' /\ HandKeeps(w)'
  BY <1>1, HandSafeStep, HandKeepsStep
<1>5. QED
  BY <1>1, <1>2, <1>3, <1>4

\* Every column, and what every handler and operation carries between its
\* statements, has its type in every state the code reaches.
THEOREM SubscriptionTypeCorrect == Spec => []TypeOK
<1>1. TypeOK /\ [Next]_vars => TypeOK'
  BY TypeStep
<1>2. QED
  BY TypeInit, <1>1, PTL DEF Spec

\* The invariant that the two theorems of money rest on.
THEOREM SubscriptionsInvariant == Spec => []SInv
BY InvInit, InvStep, PTL DEF Spec

\* invoice.paid and checkout.session.completed use a cycle's money once: one
\* period or one row on the office's list, whatever handlers died and came back,
\* unless handlings met.
THEOREM MoneyUsedAtMostOnce == Spec => []MoneyUsedOnce
<1>1. SInv => MoneyUsedOnce
  <2> SUFFICES ASSUME SInv, NEW n \in Cycles \ overlapped
               PROVE  /\ \A i, j \in PeriodsFor(n) : i = j
                      /\ listed[n] <= 1
                      /\ n \in booked => ~Listed(n)
    BY DEF MoneyUsedOnce
  <2>1. UsedOnce(n) /\ Sold
    BY DEF SInv
  <2>2. QED
    BY <2>1 DEF UsedOnce, Sold, Listed
<1>2. QED
  BY <1>1, SubscriptionsInvariant, PTL

\* Money whose event is processed is booked or listed, while the chain is whole,
\* the access given and its handling met no other: recordUnappliedRenewal,
\* subscriptionCancelOwed and the marks after them dismiss none.
THEOREM MoneyIsKept == Spec => []MoneyKept
<1>1. SInv => MoneyKept
  BY DEF SInv
<1>2. QED
  BY <1>1, SubscriptionsInvariant, PTL

\* appendRenewal judges the tail as it is when it appends: it renews, is not
\* cancelled, and the new period does not pass the member's notice.
THEOREM RenewsWhatRenews == Spec => AppendsOnlyWhileRenewing
<1> DEFINE A == Len(chain') > Len(chain) /\ chain # <<>> =>
                  LET tail == chain[Len(chain)]
                      new == chain'[Len(chain')]
                  IN  /\ tail.renews /\ ~tail.cancelled
                      /\ tail.notice # Never => new.start <= tail.notice
<1>1. SInv /\ [Next]_vars => [A]_vars
  <2> SUFFICES ASSUME SInv, [Next]_vars, Len(chain') > Len(chain), chain # <<>>
               PROVE  LET tail == chain[Len(chain)]
                          new == chain'[Len(chain')]
                      IN  /\ tail.renews /\ ~tail.cancelled
                          /\ tail.notice # Never => new.start <= tail.notice
    OBVIOUS
  <2>1. TypeOK /\ Staged /\ Cycled /\ Sold
    BY DEF SInv
  <2>2. Len(chain) \in Nat
    BY <2>1, LastPeriod
  <2>3. ~Altered
    BY <2>2 DEF Altered
  <2>4. ~EraseMember
    BY <2>2, EmptySeq DEF EraseMember
  <2>5. PICK w \in Workers : First(w) \/ Appends(w)
    BY <2>1, <2>3, <2>4, ChainMoves
  <2>6. Appends(w)
    BY <2>1, <2>5, FirstEffect
  <2> DEFINE tail == chain[Len(chain)]
             new == chain'[Len(chain')]
  <2>7. /\ ~Over /\ Len(chain') = Len(chain) + 1
        /\ chain'[Len(chain) + 1].start = StartAfter(tail)
    BY <2>1, <2>6, AppendsEffect
  <2>8. new.start = StartAfter(tail)
    BY <2>7
  <2>9. /\ ~tail.cancelled /\ tail.renews
        /\ tail.notice # Never => ~(StartAfter(tail) > tail.notice)
    BY <2>7 DEF Over
  <2>10. tail \in Periods
    BY <2>1, LastPeriod
  <2>11. StartAfter(tail) \in Nat /\ tail.notice \in 1..Never
    BY <2>1, <2>10, StartTyped DEF Periods
  <2>12. Never \in Nat
    BY CyclesAssumption DEF Never
  <2> HIDE DEF tail, new
  <2>13. tail.notice # Never => new.start <= tail.notice
    BY <2>8, <2>9, <2>11, <2>12
  <2>14. QED
    BY <2>9, <2>13 DEF tail, new
<1>2. QED
  BY <1>1, SubscriptionsInvariant, PTL DEF Spec, AppendsOnlyWhileRenewing

---------------------------------------------------------------------------
(* The books (SubscriptionBooks).  Each step of Stripe, a handler or the   *)
(* office is a step of the books or changes nothing they show.             *)

Shown == <<checkout, chain, booked, listed, erased, revoked, time, Taken, Processed, overlapped>>

\* Beside the invariant: what the ledger tells of money is true, a handler of
\* money has its event, and nothing is billed before its time.
MoneyTrue ==
  /\ \A n \in Cycles : n > time => invoice[n] = "none"
  /\ session = "open" => invoice[1] = "none"
  /\ \A n \in Cycles : event[Tells(n)][n] # "none" => invoice[n] = "paid"
  /\ \A w \in Workers : Handles(w) => event[hand[w].kind][hand[w].cycle] # "none"

BInv == SInv /\ MoneyTrue

\* Which events tell of money, and of what a handler of money is told.
LEMMA TellsKind ==
  ASSUME TypeOK, Cycled
  PROVE  /\ \A n \in Cycles : Tells(n) \in Kinds /\ Tells(n) \in Money
         /\ \A w \in Workers : /\ hand[w].cycle \in Cycles /\ hand[w].kind \in Kinds
                               /\ hand[w].kind \in Money => hand[w].kind = Tells(hand[w].cycle)
         /\ \A n \in Cycles, k \in Kinds : k \in Money /\ event[k][n] # "none" => k = Tells(n)
<1>1. \A n \in Cycles : Tells(n) \in Kinds /\ Tells(n) \in Money
  BY DEF Tells, Kinds, Money
<1>2. ASSUME NEW w \in Workers
      PROVE  /\ hand[w].cycle \in Cycles /\ hand[w].kind \in Kinds
             /\ hand[w].kind \in Money => hand[w].kind = Tells(hand[w].cycle)
  BY DEF TypeOK, Hands, Cycled, Money, Tells
<1>3. ASSUME NEW n \in Cycles, NEW k \in Kinds, k \in Money, event[k][n] # "none" PROVE k = Tells(n)
  BY <1>3 DEF Cycled, Money, Tells
<1>4. QED
  BY <1>1, <1>2, <1>3

\* A handler that is at money has been told of it, so Stripe took it.
LEMMA HandledTaken ==
  ASSUME TypeOK, Cycled, MoneyTrue, NEW w \in Workers, Handles(w)
  PROVE  hand[w].cycle \in Taken
<1>1. hand[w].cycle \in Cycles /\ hand[w].kind = Tells(hand[w].cycle)
  BY TellsKind DEF Handles
<1>2. event[Tells(hand[w].cycle)][hand[w].cycle] # "none"
  BY <1>1 DEF MoneyTrue
<1>3. QED
  BY <1>1, <1>2 DEF MoneyTrue, Taken

\* An event is raised only where none was, so what is done with stays so.
LEMMA RaiseShown ==
  ASSUME TypeOK, NEW kind \in Kinds, NEW n \in Cycles, Raise(kind, n),
         kind \in Money => kind = Tells(n) /\ event[kind][n] = "none"
  PROVE  Processed' = Processed
<1>1. \A k \in Kinds, m \in Cycles :
        event'[k][m] = IF k = kind /\ m = n THEN "pending" ELSE event[k][m]
  BY RaiseEffect
<1>2. ASSUME NEW m \in Cycles
      PROVE  event'[Tells(m)][m] \in Outcomes <=> event[Tells(m)][m] \in Outcomes
  <2>1. Tells(m) \in Kinds /\ Tells(m) \in Money
    BY DEF Tells, Kinds, Money
  <2>2. CASE Tells(m) = kind /\ m = n
    <3>1. event'[Tells(m)][m] = "pending" /\ event[Tells(m)][m] = "none"
      BY <1>1, <2>1, <2>2
    <3>2. QED
      BY <3>1 DEF Outcomes
  <2>3. CASE ~(Tells(m) = kind /\ m = n)
    BY <1>1, <2>1, <2>3
  <2>4. QED
    BY <2>2, <2>3
<1>3. QED
  BY <1>2 DEF Processed

\* What Stripe does to its invoices.
LEMMA InvoiceMoves ==
  ASSUME TypeOK, [Next]_vars
  PROVE  \/ UNCHANGED invoice
         \/ PaySession
         \/ \E result \in {"paid", "failed"} : Bill(result)
         \/ \E n \in Cycles : PayLater(n)
<1>1. ASSUME NEW w \in Workers, WorkerStep(w) \/ FailJob(w) PROVE UNCHANGED invoice
  BY <1>1 DEF WorkerStep, TakeEvent, FailJob, HandlerStep, ApplyCheckoutPaid, ExpireCheckout, SeePayment,
     ReadTail, AppendPeriod, ReadListed, ListRenewal, RecordRenewalPaymentFailed, StopSubscription,
     MarkPaymentAccountGone, AskOwed, EndSubscription, MarkEvent, stripeVars
<1>2. CASE OfficeStep \/ UNCHANGED vars
  BY <1>2 DEF OfficeStep, StartOperation, AbandonOperation, SetMembershipRenewal, CancelMembership,
     SetMemberArchived, EraseMember, MemberStopRenewal, vars, stripeVars
<1>3. QED
  BY <1>1, <1>2 DEF Next, StripeStep, SessionExpires, Tick, EndsAtStripe, RevokeAccess

\* What a step does to the ledger: it tells of money only with Stripe's invoices.
LEMMA LedgerMoves ==
  ASSUME TypeOK, [Next]_vars
  PROVE  \/ UNCHANGED event
         \/ \E kind \in Kinds \ Money : Raise(kind, 1)
         \/ PaySession
         \/ \E result \in {"paid", "failed"} : Bill(result)
         \/ \E n \in Cycles : PayLater(n)
         \/ \E w \in Workers : MarkEvent(w)
<1> USE DEF bookVars, stripeVars
<1> DEFINE Other == \E kind \in Kinds \ Money : Raise(kind, 1)
<1>1. ASSUME Raise("expired", 1) \/ Raise("deleted", 1) \/ Raise("deauthorized", 1) PROVE Other
  BY <1>1 DEF Kinds, Money
<1> HIDE DEF Other
<1>2. CASE SessionExpires \/ EndsAtStripe \/ RevokeAccess
  BY <1>1, <1>2 DEF SessionExpires, EndsAtStripe, RevokeAccess, Other
<1>3. CASE Tick
  <2>1. Raise("deleted", 1) \/ UNCHANGED event
    BY <1>3 DEF Tick
  <2>2. QED
    BY <1>1, <2>1 DEF Other
<1>4. CASE OfficeStep
  <2>1. ASSUME NEW op \in {"stop", "cancel", "archive", "erase"}, NEW i, StartOperation(op, i)
        PROVE  UNCHANGED event \/ Other
    <3>1. StopProviderSubscriptions(op, i)
      BY <2>1 DEF StartOperation
    <3>2. UNCHANGED event \/ Raise("deleted", 1) \/ Raise("expired", 1)
      BY <3>1 DEF StopProviderSubscriptions
    <3>3. QED
      BY <1>1, <3>2
  <2>2. QED
    BY <1>4, <2>1 DEF OfficeStep, AbandonOperation, SetMembershipRenewal, CancelMembership,
       SetMemberArchived, EraseMember, MemberStopRenewal, Other
<1>5. ASSUME NEW w \in Workers, HandlerStep(w), ~MarkEvent(w) PROVE UNCHANGED event \/ Other
  <2>1. CASE EndSubscription(w)
    <3>1. Raise("deleted", 1) \/ UNCHANGED event
      BY <2>1 DEF EndSubscription
    <3>2. QED
      BY <1>1, <3>1
  <2>2. CASE ~EndSubscription(w)
    BY <1>5, <2>2 DEF HandlerStep, ApplyCheckoutPaid, ExpireCheckout, SeePayment, ReadTail, AppendPeriod,
       ReadListed, ListRenewal, RecordRenewalPaymentFailed, StopSubscription, MarkPaymentAccountGone,
       AskOwed
  <2>3. QED
    BY <2>1, <2>2
<1>6. ASSUME NEW w \in Workers, FailJob(w) \/ \E kind \in Kinds, m \in Cycles : TakeEvent(w, kind, m)
      PROVE  UNCHANGED event
  BY <1>6 DEF FailJob, TakeEvent
<1>7. CASE UNCHANGED vars
  BY <1>7 DEF vars
<1>8. QED
  BY <1>2, <1>3, <1>4, <1>5, <1>6, <1>7 DEF Next, StripeStep, WorkerStep, Other

\* Money Stripe takes is money of a cycle that has begun or begins, and new.
LEMMA TakeShown ==
  ASSUME TypeOK, Cycled, MoneyTrue
  PROVE  /\ PaySession => 1 \notin Taken /\ Taken' = Taken \cup {1} /\ event["completed"][1] = "none"
         /\ \A n \in Cycles : PayLater(n) => /\ n \in 1..time /\ n \notin Taken
                                             /\ Taken' = Taken \cup {n} /\ event["paid"][n] = "none"
         /\ \A result \in {"paid", "failed"} : Bill(result) =>
              /\ time + 1 \in Cycles \ {1} /\ time + 1 \notin Taken
              /\ event["paid"][time + 1] = "none" /\ invoice'[time + 1] = result
              /\ Taken' = IF result = "paid" THEN Taken \cup {time + 1} ELSE Taken
<1>1. time \in Nat \ {0} /\ time \in 1..Never
  BY CyclesAssumption DEF TypeOK, Never
<1>2. \A n \in Cycles : n \in Nat \ {0} /\ (n \in Taken <=> invoice[n] = "paid")
  BY DEF Cycles, Taken
<1>3. ASSUME PaySession
      PROVE  1 \notin Taken /\ Taken' = Taken \cup {1} /\ event["completed"][1] = "none"
  <2>1. invoice[1] = "none" /\ invoice' = [invoice EXCEPT ![1] = "paid"]
    BY <1>3 DEF PaySession, MoneyTrue
  <2>2. \A n \in Cycles : invoice'[n] = IF n = 1 THEN "paid" ELSE invoice[n]
    BY <2>1 DEF TypeOK
  <2>3. Taken' = Taken \cup {1}
    BY <2>2, FirstCycle DEF Taken
  <2>4. event["completed"][1] = "none"
    BY <2>1, FirstCycle DEF MoneyTrue, Tells
  <2>5. QED
    BY <1>2, <2>1, <2>3, <2>4, FirstCycle
<1>4. ASSUME NEW n \in Cycles, PayLater(n)
      PROVE  n \in 1..time /\ n \notin Taken /\ Taken' = Taken \cup {n} /\ event["paid"][n] = "none"
  <2>1. invoice[n] = "failed" /\ invoice' = [invoice EXCEPT ![n] = "paid"]
    BY <1>4 DEF PayLater
  <2>2. ~(n > time) /\ n # 1
    BY <2>1 DEF MoneyTrue, Cycled
  <2>3. n \in 1..time
    BY <1>1, <1>2, <2>2
  <2>4. \A m \in Cycles : invoice'[m] = IF m = n THEN "paid" ELSE invoice[m]
    BY <2>1 DEF TypeOK
  <2>5. Taken' = Taken \cup {n}
    BY <2>4 DEF Taken
  <2>6. event["paid"][n] = "none"
    BY <2>1, <2>2 DEF MoneyTrue, Tells
  <2>7. QED
    BY <1>2, <2>1, <2>3, <2>5, <2>6
<1>5. ASSUME NEW result \in {"paid", "failed"}, Bill(result)
      PROVE  /\ time + 1 \in Cycles \ {1} /\ time + 1 \notin Taken
             /\ event["paid"][time + 1] = "none" /\ invoice'[time + 1] = result
             /\ Taken' = IF result = "paid" THEN Taken \cup {time + 1} ELSE Taken
  <2> DEFINE n == time + 1
  <2>1. n \in Cycles /\ n # 1 /\ n > time
    BY <1>1, <1>5, CyclesAssumption DEF Bill, Bills, Cycles
  <2>2. invoice' = [invoice EXCEPT ![n] = result]
    BY <1>5 DEF Bill
  <2> HIDE DEF n
  <2>3. invoice[n] = "none"
    BY <2>1 DEF MoneyTrue
  <2>4. event["paid"][n] = "none"
    BY <2>1, <2>3 DEF MoneyTrue, Tells
  <2>5. \A m \in Cycles : invoice'[m] = IF m = n THEN result ELSE invoice[m]
    BY <2>1, <2>2 DEF TypeOK
  <2>6. n \notin Taken /\ invoice'[n] = result
    BY <1>2, <2>1, <2>3, <2>5
  <2>7. Taken' = IF result = "paid" THEN Taken \cup {n} ELSE Taken
    <3>1. CASE result = "paid"
      BY <2>1, <2>5, <3>1 DEF Taken
    <3>2. CASE result = "failed"
      BY <2>1, <2>3, <2>5, <3>2 DEF Taken
    <3>3. QED
      BY <3>1, <3>2
  <2>8. QED
    BY <2>1, <2>4, <2>6, <2>7 DEF n
<1>6. QED
  BY <1>3, <1>4, <1>5

\* What is done with is undone by no step, and more is only by a mark.
LEMMA ProcessedMoves ==
  ASSUME TypeOK, Cycled, MoneyTrue, [Next]_vars
  PROVE  Processed' = Processed \/ \E w \in Workers : MarkEvent(w)
<1>1. "completed" \in Kinds /\ "paid" \in Kinds /\ "failed" \in Kinds
  BY DEF Kinds
<1>2. CASE UNCHANGED event
  BY <1>2 DEF Processed
<1>3. ASSUME NEW kind \in Kinds \ Money, Raise(kind, 1) PROVE Processed' = Processed
  BY <1>3, FirstCycle, RaiseShown
<1>4. CASE PaySession
  <2>1. event["completed"][1] = "none" /\ Raise("completed", 1) /\ Tells(1) = "completed"
    BY <1>4, TakeShown DEF PaySession, Tells
  <2>2. QED
    BY <1>1, <2>1, FirstCycle, RaiseShown
<1>5. ASSUME NEW n \in Cycles, PayLater(n) PROVE Processed' = Processed
  <2>1. event["paid"][n] = "none" /\ Raise("paid", n) /\ n # 1
    BY <1>5, TakeShown DEF PayLater, Cycled
  <2>2. QED
    BY <1>1, <2>1, RaiseShown DEF Tells
<1>6. ASSUME NEW result \in {"paid", "failed"}, Bill(result) PROVE Processed' = Processed
  <2> DEFINE n == time + 1
  <2>1. n \in Cycles /\ n # 1 /\ event["paid"][n] = "none" /\ Raise(result, n)
    BY <1>6, TakeShown DEF Bill
  <2> HIDE DEF n
  <2>2. result \in Money => result = Tells(n) /\ event[result][n] = "none"
    BY <2>1 DEF Money, Tells
  <2>3. result \in Kinds
    BY <1>1
  <2>4. QED
    BY <2>1, <2>2, <2>3, RaiseShown
<1>7. QED
  BY <1>2, <1>3, <1>4, <1>5, <1>6, LedgerMoves

\* What is taken stays taken.
LEMMA TakenStays ==
  ASSUME TypeOK, Cycled, MoneyTrue, [Next]_vars PROVE Taken \subseteq Taken'
<1>1. CASE UNCHANGED invoice
  BY <1>1 DEF Taken
<1>2. QED
  BY <1>1, InvoiceMoves, TakeShown

\* The handler of an event has it as it takes it, and while it is at it.
LEMMA HandledTold ==
  ASSUME TypeOK, MoneyTrue, [Next]_vars, NEW w \in Workers, hand'[w].at # "idle", hand'[w].kind \in Money
  PROVE  event'[hand'[w].kind][hand'[w].cycle] # "none"
<1>1. \A k \in Kinds, n \in Cycles : event[k][n] # "none" => event'[k][n] # "none"
  BY EventMoves DEF Outcomes
<1>2. hand[w] \in Hands
  BY DEF TypeOK
<1>3. hand[w].kind \in Kinds /\ hand[w].cycle \in Cycles
  BY <1>2 DEF Hands
<1>4. CASE hand'[w] = hand[w]
  BY <1>1, <1>3, <1>4 DEF MoneyTrue, Handles
<1>5. CASE hand'[w] = Idle
  BY <1>5 DEF Idle
<1>6. ASSUME NEW kind \in Kinds, NEW n \in Cycles, TakeEvent(w, kind, n)
      PROVE  event'[hand'[w].kind][hand'[w].cycle] # "none"
  <2>1. hand'[w].kind = kind /\ hand'[w].cycle = n /\ event[kind][n] = "pending"
    BY <1>6, TakeEffect DEF TakeEvent
  <2>2. QED
    BY <1>1, <2>1
<1>7. CASE Moved(w) /\ hand'[w].kind = hand[w].kind /\ hand'[w].cycle = hand[w].cycle
  <2>1. hand[w].at # "idle"
    BY <1>7 DEF Moved
  <2>2. QED
    BY <1>1, <1>3, <1>7, <2>1 DEF MoneyTrue, Handles
<1>8. QED
  BY <1>4, <1>5, <1>6, <1>7, HandMoves

LEMMA MoneyTrueStep ==
  ASSUME TypeOK, Cycled, MoneyTrue, [Next]_vars PROVE MoneyTrue'
<1>1. time \in Nat \ {0} /\ time' \in {time, time + 1}
  BY Onward, CyclesAssumption DEF TypeOK, Never
<1>2. "completed" \in Kinds /\ "paid" \in Kinds /\ "failed" \in Kinds
  BY DEF Kinds
<1>3. \A n \in Cycles : n \in Nat \ {0}
  BY DEF Cycles
<1>4. ASSUME NEW n \in Cycles, n > time' PROVE invoice'[n] = "none"
  <2>1. n > time /\ n # 1
    BY <1>1, <1>3, <1>4
  <2>2. invoice[n] = "none"
    BY <2>1 DEF MoneyTrue
  <2>3. CASE PaySession
    BY <2>1, <2>2, <2>3 DEF PaySession, TypeOK
  <2>4. ASSUME NEW m \in Cycles, PayLater(m) PROVE invoice'[n] = "none"
    BY <2>2, <2>4 DEF PayLater, TypeOK
  <2>5. ASSUME NEW result \in {"paid", "failed"}, Bill(result) PROVE invoice'[n] = "none"
    <3>1. time' = time + 1 /\ invoice' = [invoice EXCEPT ![time + 1] = result]
      BY <2>5 DEF Bill
    <3>2. n # time + 1
      BY <1>1, <1>3, <1>4, <3>1
    <3>3. QED
      BY <2>2, <3>1, <3>2 DEF TypeOK
  <2>6. QED
    BY <2>2, <2>3, <2>4, <2>5, InvoiceMoves
<1>5. ASSUME session' = "open" PROVE invoice'[1] = "none"
  <2>1. session = "open"
    <3>1. ASSUME NEW op \in {"stop", "cancel", "archive", "erase"}, NEW i, StartOperation(op, i)
          PROVE  session' \in {session, "expired"}
      BY <3>1, OperationEffect
    <3>2. CASE OfficeStep
      BY <1>5, <3>1, <3>2 DEF OfficeStep, AbandonOperation, SetMembershipRenewal, CancelMembership,
         SetMemberArchived, EraseMember, MemberStopRenewal, stripeVars
    <3>3. CASE StripeStep
      BY <1>5, <3>3 DEF StripeStep, PaySession, SessionExpires, Tick, EndsAtStripe, RevokeAccess, Bill, PayLater
    <3>4. ASSUME NEW w \in Workers, WorkerStep(w) \/ FailJob(w) PROVE session' = session
      BY <3>4 DEF WorkerStep, TakeEvent, FailJob, HandlerStep, ApplyCheckoutPaid, ExpireCheckout, SeePayment,
         ReadTail, AppendPeriod, ReadListed, ListRenewal, RecordRenewalPaymentFailed, StopSubscription,
         MarkPaymentAccountGone, AskOwed, EndSubscription, MarkEvent, stripeVars
    <3>5. CASE UNCHANGED vars
      BY <1>5, <3>5 DEF vars, stripeVars
    <3>6. QED
      BY <1>5, <3>2, <3>3, <3>4, <3>5 DEF Next
  <2>2. invoice[1] = "none"
    BY <2>1 DEF MoneyTrue
  <2>3. ~PaySession
    BY <1>5 DEF PaySession
  <2>4. ASSUME NEW m \in Cycles, PayLater(m) PROVE invoice'[1] = "none"
    BY <2>2, <2>4, FirstCycle DEF PayLater, TypeOK
  <2>5. ASSUME NEW result \in {"paid", "failed"}, Bill(result) PROVE invoice'[1] = "none"
    <3>1. invoice' = [invoice EXCEPT ![time + 1] = result] /\ time + 1 # 1
      BY <1>1, <2>5 DEF Bill
    <3>2. QED
      BY <2>2, <3>1, FirstCycle DEF TypeOK
  <2>6. QED
    BY <2>2, <2>3, <2>4, <2>5, InvoiceMoves
<1>6. ASSUME NEW n \in Cycles, event'[Tells(n)][n] # "none" PROVE invoice'[n] = "paid"
  <2>1. Tells(n) \in Kinds /\ Tells(n) \in Money
    BY TellsKind
  <2>2. ASSUME n \in Taken PROVE invoice'[n] = "paid"
    BY <2>2, TakenStays DEF Taken
  <2>3. ASSUME event[Tells(n)][n] # "none" PROVE invoice'[n] = "paid"
    BY <2>2, <2>3 DEF MoneyTrue, Taken
  <2>4. ASSUME NEW kind \in Kinds, NEW m \in Cycles, Raise(kind, m), kind # Tells(n) \/ m # n
        PROVE  invoice'[n] = "paid"
    <3>1. event'[Tells(n)][n] = event[Tells(n)][n]
      BY <2>1, <2>4, RaiseEffect
    <3>2. QED
      BY <1>6, <2>3, <3>1
  <2>5. CASE PaySession
    <3>1. Raise("completed", 1) /\ Taken' = Taken \cup {1}
      BY <2>5, TakeShown DEF PaySession
    <3>2. CASE n = 1
      BY <3>1, <3>2 DEF Taken
    <3>3. QED
      BY <1>2, <2>4, <3>1, <3>2, FirstCycle
  <2>6. ASSUME NEW m \in Cycles, PayLater(m) PROVE invoice'[n] = "paid"
    <3>1. Raise("paid", m) /\ Taken' = Taken \cup {m}
      BY <2>6, TakeShown DEF PayLater
    <3>2. CASE n = m
      BY <3>1, <3>2 DEF Taken
    <3>3. QED
      BY <1>2, <2>4, <3>1, <3>2
  <2>7. ASSUME NEW result \in {"paid", "failed"}, Bill(result) PROVE invoice'[n] = "paid"
    <3> DEFINE m == time + 1
    <3>1. m \in Cycles /\ Raise(result, m) /\ invoice'[m] = result
      BY <2>7, TakeShown DEF Bill
    <3> HIDE DEF m
    <3>2. CASE n = m /\ result = "paid"
      BY <3>1, <3>2
    <3>3. CASE n # m \/ result = "failed"
      BY <1>2, <2>1, <2>4, <3>1, <3>3 DEF Money
    <3>4. QED
      BY <3>2, <3>3
  <2>8. ASSUME NEW w \in Workers, MarkEvent(w) PROVE invoice'[n] = "paid"
    <3>1. hand[w] \in Hands
      BY DEF TypeOK
    <3>2. hand[w].kind \in Kinds /\ hand[w].cycle \in Cycles
      BY <3>1 DEF Hands
    <3>3. event' = event \/ (event[hand[w].kind][hand[w].cycle] = "pending"
                             /\ event' = [event EXCEPT ![hand[w].kind][hand[w].cycle] = hand[w].at])
      BY <2>8 DEF MarkEvent
    <3>4. event[Tells(n)][n] # "none"
      <4> DEFINE k == hand[w].kind
                 m == hand[w].cycle
      <4>1. CASE event' = event
        BY <1>6, <4>1
      <4>2. CASE event[k][m] = "pending" /\ event' = [event EXCEPT ![k][m] = hand[w].at]
        <5> HIDE DEF k, m
        <5>1. CASE Tells(n) = k /\ n = m
          BY <4>2, <5>1
        <5>2. CASE Tells(n) # k \/ n # m
          <6>1. event'[Tells(n)][n] = event[Tells(n)][n]
            BY <2>1, <4>2, <5>2 DEF TypeOK
          <6>2. QED
            BY <1>6, <6>1
        <5>3. QED
          BY <5>1, <5>2
      <4>3. QED
        BY <3>3, <4>1, <4>2
    <3>5. QED
      BY <2>3, <3>4
  <2>9. CASE UNCHANGED event
    BY <1>6, <2>3, <2>9
  <2>10. ASSUME NEW kind \in Kinds \ Money, Raise(kind, 1) PROVE invoice'[n] = "paid"
    BY <2>1, <2>4, <2>10, FirstCycle
  <2>11. QED
    BY <2>5, <2>6, <2>7, <2>8, <2>9, <2>10, LedgerMoves
<1>7. ASSUME NEW w \in Workers, hand'[w].at # "idle", hand'[w].kind \in Money
      PROVE  event'[hand'[w].kind][hand'[w].cycle] # "none"
  BY <1>7, HandledTold
<1>8. QED
  BY <1>4, <1>5, <1>6, <1>7 DEF MoneyTrue, Handles, Tells

\* A step none of whose columns the books show.
LEMMA Unshown ==
  ASSUME TypeOK, Cycled, MoneyTrue, [Next]_vars, \A w \in Workers : ~MarkEvent(w),
         UNCHANGED <<checkout, chain, booked, listed, erased, revoked, time, invoice, overlapped>>
  PROVE  UNCHANGED Shown
<1>1. Taken' = Taken
  BY DEF Taken
<1>2. Processed' = Processed
  BY ProcessedMoves
<1>3. QED
  BY <1>1, <1>2 DEF Shown

\* Only a mark marks.
LEMMA MarksAlone ==
  ASSUME TypeOK, NEW w \in Workers, MarkEvent(w)
  PROVE  /\ UNCHANGED <<bookVars, stripeVars, office, upsets, overlapped>>
         /\ hand'[w] = Idle /\ hand[w].at \in Outcomes /\ hand'[w] # hand[w]
         /\ \A v \in Workers \ {w} : hand'[v] = hand[v]
<1>1. /\ UNCHANGED <<bookVars, stripeVars, office, upsets, overlapped>>
      /\ hand' = [hand EXCEPT ![w] = Idle] /\ hand[w].at \in Outcomes
  BY DEF MarkEvent
<1>2. hand'[w] = Idle /\ \A v \in Workers \ {w} : hand'[v] = hand[v]
  BY <1>1, IdleTyped, SetEffect
<1>3. Idle # hand[w]
  BY <1>1 DEF Idle, Outcomes
<1>4. QED
  BY <1>1, <1>2, <1>3

\* Stripe: money taken, a cycle that begins, access revoked.
LEMMA StripeShown ==
  ASSUME TypeOK, Cycled, MoneyTrue, [Next]_vars, StripeStep PROVE Books!Next \/ UNCHANGED Shown
<1> USE DEF bookVars, stripeVars
<1>1. hand' = hand
  BY DEF StripeStep, PaySession, SessionExpires, Tick, EndsAtStripe, RevokeAccess, Bill, PayLater
<1>2. \A w \in Workers : ~MarkEvent(w)
  BY <1>1, MarksAlone
<1>3. Processed' = Processed
  BY <1>2, ProcessedMoves
<1>4. time \in Nat \ {0} /\ 1 \in 1..time
  BY CyclesAssumption DEF TypeOK, Never
<1>5. \A n \in Cycles : n \in Books!Cycles
  BY DEF Cycles, Books!Cycles
<1>6. CASE PaySession
  <2>1. 1 \notin Taken /\ Taken' = Taken \cup {1}
    BY <1>6, TakeShown
  <2>2. Books!Take(1)
    BY <1>3, <1>4, <1>6, <2>1 DEF PaySession, Books!Take, Books!bookVars
  <2>3. QED
    BY <1>5, <2>2, FirstCycle DEF Books!Next
<1>7. ASSUME NEW n \in Cycles, PayLater(n) PROVE Books!Next
  <2>1. n \in 1..time /\ n \notin Taken /\ Taken' = Taken \cup {n}
    BY <1>7, TakeShown
  <2>2. Books!Take(n)
    BY <1>3, <1>7, <2>1 DEF PayLater, Books!Take, Books!bookVars
  <2>3. QED
    BY <1>5, <2>2 DEF Books!Next
<1>8. ASSUME NEW result \in {"paid", "failed"}, Bill(result) PROVE Books!Next
  <2>1. time + 1 \notin Taken /\ Taken' = IF result = "paid" THEN Taken \cup {time + 1} ELSE Taken
    BY <1>8, TakeShown
  <2>2. time' = time + 1 /\ UNCHANGED <<checkout, chain, booked, listed, erased, revoked, overlapped>>
    BY <1>8 DEF Bill
  <2>3. UNCHANGED Taken \/ (time' \notin Taken /\ Taken' = Taken \cup {time'})
    BY <2>1, <2>2
  <2>4. Books!CycleBegins
    BY <1>3, <2>2, <2>3 DEF Books!CycleBegins, Books!bookVars
  <2>5. QED
    BY <2>4 DEF Books!Next
<1>9. CASE Tick
  <2>1. Taken' = Taken
    BY <1>9 DEF Tick, Taken
  <2>2. Books!CycleBegins
    BY <1>3, <1>9, <2>1 DEF Tick, Books!CycleBegins, Books!bookVars
  <2>3. QED
    BY <2>2 DEF Books!Next
<1>10. CASE RevokeAccess
  <2>1. Taken' = Taken
    BY <1>10 DEF RevokeAccess, Taken
  <2>2. Books!Revoke
    BY <1>3, <1>10, <2>1 DEF RevokeAccess, Books!Revoke, Books!bookVars
  <2>3. QED
    BY <2>2 DEF Books!Next
<1>11. CASE SessionExpires \/ EndsAtStripe
  BY <1>2, <1>11, Unshown DEF SessionExpires, EndsAtStripe
<1>12. QED
  BY <1>6, <1>7, <1>8, <1>9, <1>10, <1>11 DEF StripeStep

\* The office and the member: what they do to Stripe is not shown, what they
\* write is.
LEMMA OfficeShown ==
  ASSUME TypeOK, Cycled, MoneyTrue, [Next]_vars, OfficeStep PROVE Books!Next \/ UNCHANGED Shown
<1> USE DEF bookVars, stripeVars
<1>1. hand' = hand
  BY DEF OfficeStep, StartOperation, AbandonOperation, SetMembershipRenewal, CancelMembership,
     SetMemberArchived, EraseMember, MemberStopRenewal
<1>2. \A w \in Workers : ~MarkEvent(w)
  BY <1>1, MarksAlone
<1>3. Processed' = Processed
  BY <1>2, ProcessedMoves
<1>4. invoice' = invoice
  BY DEF OfficeStep, StartOperation, AbandonOperation, SetMembershipRenewal, CancelMembership,
     SetMemberArchived, EraseMember, MemberStopRenewal
<1>5. Taken' = Taken
  BY <1>4 DEF Taken
<1>6. UNCHANGED <<booked, listed, revoked, time, overlapped>>
  BY DEF OfficeStep, StartOperation, AbandonOperation, SetMembershipRenewal, CancelMembership,
     SetMemberArchived, EraseMember, MemberStopRenewal
<1>7. chain \in Seq(Periods) /\ DOMAIN chain = 1..Len(chain) /\ Len(chain) \in Nat
      /\ (chain # <<>> => Len(chain) \in 1..Len(chain))
  BY LastPeriod, LenProperties DEF TypeOK
<1>8. ASSUME NEW op, NEW i, StartOperation(op, i) PROVE Books!Next \/ UNCHANGED Shown
  <2>1. /\ checkout' = IF ClosesPage(op) THEN "expired" ELSE checkout
        /\ UNCHANGED <<chain, erased>>
    BY <1>8 DEF StartOperation
  <2>2. CASE ClosesPage(op)
    <3>1. Books!Expire
      BY <1>3, <1>5, <1>6, <2>1, <2>2 DEF ClosesPage, Books!Expire, Books!worldVars
    <3>2. QED
      BY <3>1 DEF Books!Next
  <2>3. CASE ~ClosesPage(op)
    BY <1>3, <1>5, <1>6, <2>1, <2>3 DEF Shown
  <2>4. QED
    BY <2>2, <2>3
<1>9. ASSUME UNCHANGED <<checkout, chain, erased>> PROVE UNCHANGED Shown
  BY <1>3, <1>5, <1>6, <1>9 DEF Shown
<1>10. CASE SetMembershipRenewal
  <2>1. UNCHANGED <<checkout, erased>>
    BY <1>10 DEF SetMembershipRenewal
  <2>2. CASE office.at = Len(chain) /\ ~chain[office.at].cancelled /\ chain # <<>>
    <3>1. chain' = [chain EXCEPT ![Len(chain)].renews = FALSE]
      BY <1>10, <2>2 DEF SetMembershipRenewal
    <3>2. chain' = [chain EXCEPT ![Len(chain)] = [chain[Len(chain)] EXCEPT !.renews = FALSE]]
      BY <3>1
    <3>3. Books!StopLast
      BY <1>3, <1>5, <1>6, <2>1, <2>2, <3>2 DEF Books!StopLast, Books!Change, Books!worldVars
    <3>4. QED
      BY <3>3 DEF Books!Next
  <2>3. CASE ~(office.at = Len(chain) /\ ~chain[office.at].cancelled)
    <3>1. chain' = chain
      BY <1>10, <2>3 DEF SetMembershipRenewal
    <3>2. QED
      BY <1>9, <2>1, <3>1
  <2>4. CASE office.at = Len(chain) /\ ~chain[office.at].cancelled /\ chain = <<>>
    <3>1. office.at \notin 1..Len(chain) /\ chain' = [chain EXCEPT ![office.at].renews = FALSE]
      BY <1>7, <1>10, <2>4, LastPeriod DEF SetMembershipRenewal
    <3>2. chain' = chain
      BY <1>7, <3>1
    <3>3. QED
      BY <1>9, <2>1, <3>2
  <2>5. QED
    BY <2>2, <2>3, <2>4
<1>11. CASE CancelMembership
  <2>1. UNCHANGED <<checkout, erased>> /\ chain' = [chain EXCEPT ![office.at].cancelled = TRUE]
    BY <1>11 DEF CancelMembership
  <2>2. CASE office.at \in 1..Len(chain)
    <3>1. chain' = [chain EXCEPT ![office.at] = [chain[office.at] EXCEPT !.cancelled = TRUE]]
      BY <2>1
    <3>2. Books!Cancel(office.at)
      BY <1>3, <1>5, <1>6, <2>1, <3>1 DEF Books!Cancel, Books!Change, Books!worldVars
    <3>3. QED
      BY <2>2, <3>2 DEF Books!Next
  <2>3. CASE office.at \notin 1..Len(chain)
    <3>1. chain' = chain
      BY <1>7, <2>1, <2>3
    <3>2. QED
      BY <1>9, <2>1, <3>1
  <2>4. QED
    BY <2>2, <2>3
<1>12. CASE SetMemberArchived
  <2>1. Books!Stop
    BY <1>3, <1>5, <1>6, <1>12 DEF SetMemberArchived, Stopped, Books!Stop, Books!Stopped, Books!worldVars
  <2>2. QED
    BY <2>1 DEF Books!Next
<1>13. CASE EraseMember
  <2>1. Books!Erase
    BY <1>3, <1>5, <1>6, <1>13 DEF EraseMember, Books!Erase
  <2>2. QED
    BY <2>1 DEF Books!Next
<1>14. ASSUME NEW last \in Cycles, NEW written \in BOOLEAN, MemberStopRenewal(last, written)
       PROVE  Books!Next \/ UNCHANGED Shown
  <2>1. /\ UNCHANGED <<checkout, erased>>
        /\ chain' = IF written THEN [chain EXCEPT ![Len(chain)].notice = last] ELSE chain
        /\ chain # <<>> /\ ~chain[Len(chain)].cancelled
        /\ chain[Len(chain)].renews /\ chain[Len(chain)].notice = Never /\ time <= last
    BY <1>14 DEF MemberStopRenewal, HasTail
  <2>2. CASE written
    <3>1. chain' = [chain EXCEPT ![Len(chain)] = [chain[Len(chain)] EXCEPT !.notice = last]]
      BY <2>1, <2>2
    <3>2. last \in time..MaxCycles /\ last \in Books!Cycles /\ Never = Books!Never
      BY <2>1, CyclesAssumption DEF Cycles, TypeOK, Never, Books!Cycles, Books!Never
    <3>3. Books!Notice(last)
      BY <1>3, <1>5, <1>6, <2>1, <3>1, <3>2 DEF Books!Notice, Books!Change, Books!worldVars
    <3>4. QED
      BY <3>2, <3>3 DEF Books!Next
  <2>3. CASE ~written
    BY <1>9, <2>1, <2>3
  <2>4. QED
    BY <2>2, <2>3
<1>15. CASE AbandonOperation
  BY <1>9, <1>15 DEF AbandonOperation
<1>16. QED
  BY <1>8, <1>10, <1>11, <1>12, <1>13, <1>14, <1>15 DEF OfficeStep

\* What the books may still sell is what the invariant says they may.
LEMMA OverShown ==
  ASSUME TypeOK, Sold
  PROVE  /\ Over <=> Books!Over
         /\ chain # <<>> /\ ~Over => Books!CanRenew
         /\ chain # <<>> => Books!NextStart(chain[Len(chain)]) = StartAfter(chain[Len(chain)])
<1> DEFINE p == chain[Len(chain)]
<1>1. Never = Books!Never
  BY DEF Never, Books!Never
<1>2. ASSUME chain # <<>>
      PROVE  /\ Books!NextStart(p) = StartAfter(p)
             /\ Books!NextStart(p) \in Nat /\ p.notice \in Nat
  <2>1. p \in Periods
    BY <1>2, LastPeriod
  <2>2. Books!NextStart(p) = StartAfter(p)
    BY DEF Books!NextStart, StartAfter
  <2>3. Never \in Nat /\ p.notice \in 1..Never
    BY <2>1, CyclesAssumption DEF Never, Periods
  <2>4. QED
    BY <2>1, <2>2, <2>3, StartTyped
<1>3. ASSUME chain # <<>>
      PROVE  Books!Renewable(p) <=> ~(p.cancelled \/ ~p.renews \/ (p.notice # Never /\ StartAfter(p) > p.notice))
  <2>1. Books!NextStart(p) <= p.notice <=> ~(StartAfter(p) > p.notice)
    BY <1>2, <1>3
  <2>2. QED
    BY <1>1, <2>1 DEF Books!Renewable
<1>4. CASE chain = <<>>
  BY <1>4 DEF Over, Books!Over, Books!CanRenew
<1>5. CASE chain # <<>>
  <2>1. checkout = "paid"
    BY <1>5 DEF Sold
  <2>2. Over <=> ~Books!Renewable(p)
    BY <1>3, <1>5 DEF Over
  <2>3. Books!CanRenew <=> Books!Renewable(p)
    BY <1>5 DEF Books!CanRenew
  <2>4. QED
    BY <1>2, <1>5, <2>1, <2>2, <2>3 DEF Books!Over
<1>6. QED
  BY <1>4, <1>5

\* checkout.session.completed: sold, listed, or settled before.
LEMMA FirstShown ==
  ASSUME TypeOK, Cycled, Staged, Sold, MoneyTrue, [Next]_vars, NEW w \in Workers, ApplyCheckoutPaid(w)
  PROVE  Books!Next \/ UNCHANGED Shown
<1>1. /\ hand[w].at = "pay"
      /\ UNCHANGED <<listed, erased, revoked, time, invoice, event, overlapped>>
  BY DEF ApplyCheckoutPaid, stripeVars
<1>2. Taken' = Taken /\ Processed' = Processed
  BY <1>1 DEF Taken, Processed
<1>3. 1 \in Taken
  <2>1. hand[w].kind = "completed" /\ hand[w].cycle = 1
    BY <1>1 DEF Staged, Cycled
  <2>2. Handles(w)
    BY <1>1, <2>1 DEF Handles, Money
  <2>3. QED
    BY <2>1, <2>2, HandledTaken
<1>4. CASE First(w)
  <2>1. chain = <<>>
    BY <1>4, FirstEffect
  <2>2. chain' = <<[cycle |-> 1, start |-> time, renews |-> TRUE, cancelled |-> FALSE, notice |-> Books!Never]>>
    BY <1>4, <2>1 DEF First, FirstPeriod, Never, Books!Never
  <2>3. Books!SellFirst
    BY <1>1, <1>2, <1>3, <1>4, <2>2 DEF First, Books!SellFirst, Books!worldVars
  <2>4. QED
    BY <2>3 DEF Books!Next
<1>5. CASE ~First(w) /\ checkout' # checkout
  <2>1. /\ checkout = "expired" \/ (checkout = "open" /\ (1 \in Foreign \/ erased))
        /\ checkout' = "unapplied"
        /\ UNCHANGED <<chain, booked>>
    BY <1>5 DEF ApplyCheckoutPaid, First, FirstPeriod, stripeVars
  <2>2. Books!ListFirst
    BY <1>1, <1>2, <1>3, <2>1 DEF Books!ListFirst, Books!worldVars
  <2>3. QED
    BY <2>2 DEF Books!Next
<1>6. CASE ~First(w) /\ checkout' = checkout
  <2>1. UNCHANGED <<chain, booked>>
    BY <1>6, FirstOrQuiet
  <2>2. QED
    BY <1>1, <1>2, <1>6, <2>1 DEF Shown
<1>7. QED
  BY <1>4, <1>5, <1>6

\* invoice.paid: appended to what can be renewed now, or listed where nothing
\* will be sold any more.
LEMMA RenewShown ==
  ASSUME SInv, MoneyTrue, [Next]_vars, NEW w \in Workers, AppendPeriod(w)
  PROVE  Books!Next \/ UNCHANGED Shown
<1>1. TypeOK /\ Cycled /\ Staged /\ Sold /\ HandSafe(w)
  BY DEF SInv
<1>2. UNCHANGED <<checkout, listed, erased, revoked, time, invoice, event, overlapped>>
  BY DEF AppendPeriod, stripeVars
<1>3. Taken' = Taken /\ Processed' = Processed
  BY <1>2 DEF Taken, Processed
<1>4. CASE ~Appends(w)
  <2>1. UNCHANGED <<chain, booked>>
    BY <1>4, AppendsOrQuiet
  <2>2. QED
    BY <1>2, <1>3, <2>1 DEF Shown
<1>5. CASE Appends(w)
  <2> DEFINE n == hand[w].cycle
  <2>1. /\ hand[w].kind = "paid" /\ n \in Cycles \ {1} /\ n \notin Foreign
        /\ ~Over /\ chain # <<>>
    BY <1>1, <1>5, AppendsEffect
  <2>2. hand[w].at = "append" /\ booked' = booked \cup {n}
        /\ chain' = Append(chain, Successor(chain[Len(chain)], n))
    BY <1>5 DEF Appends
  <2>3. n \in Taken
    <3>1. Handles(w)
      BY <2>1, <2>2 DEF Handles, Money
    <3>2. QED
      BY <1>1, <3>1, HandledTaken
  <2>4. Books!CanRenew /\ Books!NextStart(chain[Len(chain)]) = StartAfter(chain[Len(chain)])
    BY <1>1, <2>1, OverShown
  <2>5. n \in overlapped \/ ~Books!Used(n)
    <3>1. ASSUME n \notin overlapped PROVE ~Books!Used(n)
      <4>1. n \notin booked
        BY <1>1, <2>1, <2>2, <3>1 DEF HandSafe
      <4>2. UsedOnce(n)
        BY <2>1, <3>1 DEF SInv
      <4>3. ~(listed[n] > 0)
        BY <2>1, <4>2 DEF UsedOnce
      <4>4. QED
        BY <2>1, <4>1, <4>3 DEF Books!Used
    <3>2. QED
      BY <3>1
  <2>6. chain' = Append(chain, [cycle |-> n, start |-> Books!NextStart(chain[Len(chain)]),
                                renews |-> TRUE, cancelled |-> FALSE,
                                notice |-> chain[Len(chain)].notice])
    BY <2>2, <2>4 DEF Successor
  <2>7. n \in Books!Cycles
    BY <2>1 DEF Cycles, Books!Cycles
  <2> HIDE DEF n
  <2>8. Books!Renew(n)
    BY <1>2, <1>3, <2>1, <2>2, <2>3, <2>4, <2>5, <2>6 DEF Books!Renew, Books!worldVars
  <2>9. QED
    BY <2>7, <2>8 DEF Books!Next
<1>6. QED
  BY <1>4, <1>5

LEMMA ListShown ==
  ASSUME SInv, MoneyTrue, [Next]_vars, NEW w \in Workers, ListRenewal(w) PROVE Books!Next
<1> DEFINE n == hand[w].cycle
<1>1. TypeOK /\ Cycled /\ Staged /\ Sold /\ Closed /\ HandSafe(w)
  BY DEF SInv
<1>2. /\ hand[w].at = "list" /\ listed' = [listed EXCEPT ![n] = @ + 1]
      /\ UNCHANGED <<checkout, chain, booked, erased, revoked, time, invoice, event, overlapped>>
  BY DEF ListRenewal, stripeVars
<1>3. Taken' = Taken /\ Processed' = Processed
  BY <1>2 DEF Taken, Processed
<1>4. hand[w].kind = "paid" /\ n # 1 /\ n \in Cycles
  BY <1>1, <1>2, TellsKind DEF Staged, Cycled
<1>5. n \in Taken
  <2>1. Handles(w)
    BY <1>2, <1>4 DEF Handles, Money
  <2>2. QED
    BY <1>1, <2>1, HandledTaken
<1>6. checkout # "open"
  BY <1>1, <1>2 DEF Closed
<1>7. ASSUME n \notin overlapped PROVE ~Books!Used(n) /\ (n \in Foreign \/ Books!Over)
  <2>1. n \notin booked /\ (n \in Foreign \/ Over) /\ listed[n] = 0
    BY <1>1, <1>2, <1>4, <1>7 DEF HandSafe
  <2>2. QED
    BY <1>1, <1>4, <2>1, OverShown DEF Books!Used
<1>8. n \in Books!Cycles
  BY <1>4 DEF Cycles, Books!Cycles
<1> HIDE DEF n
<1>9. Books!List(n)
  BY <1>2, <1>3, <1>4, <1>5, <1>6, <1>7 DEF Books!List, Books!worldVars
<1>10. QED
  BY <1>8, <1>9 DEF Books!Next

\* A mark is the end of money that is used, or of other news.
LEMMA MarkShown ==
  ASSUME SInv, MoneyTrue, [Next]_vars, NEW w \in Workers, MarkEvent(w)
  PROVE  Books!Next \/ UNCHANGED Shown
<1> DEFINE k == hand[w].kind
           n == hand[w].cycle
<1>1. TypeOK /\ Cycled
  BY DEF SInv
<1>2. UNCHANGED <<checkout, chain, booked, listed, erased, revoked, time, invoice, overlapped>>
  BY DEF MarkEvent, bookVars, stripeVars
<1>3. Taken' = Taken
  BY <1>2 DEF Taken
<1>4. /\ hand[w].at \in Outcomes
      /\ event' = IF event[k][n] = "pending" THEN [event EXCEPT ![k][n] = hand[w].at] ELSE event
  BY DEF MarkEvent
<1>5. k \in Kinds /\ n \in Cycles /\ (k \in Money => k = Tells(n))
  BY <1>1, TellsKind
<1> HIDE DEF k, n
<1>6. ASSUME event[k][n] = "pending", k = Tells(n) PROVE Books!Next
  <2>1. \A q \in Kinds, m \in Cycles : event'[q][m] = IF q = k /\ m = n THEN hand[w].at ELSE event[q][m]
    BY <1>1, <1>4, <1>5, <1>6 DEF TypeOK
  <2>2. \A m \in Cycles : Tells(m) \in Kinds
    BY DEF Tells, Kinds
  <2>3. Processed' = Processed \cup {n}
    <3>1. ASSUME NEW m \in Cycles
          PROVE  event'[Tells(m)][m] \in Outcomes <=> (event[Tells(m)][m] \in Outcomes \/ m = n)
      <4>1. CASE m = n
        BY <1>4, <1>5, <1>6, <2>1, <4>1
      <4>2. CASE m # n
        BY <2>1, <2>2, <4>2
      <4>3. QED
        BY <4>1, <4>2
    <3>2. QED
      BY <1>5, <3>1 DEF Processed
  <2>4. n \in Taken
    BY <1>5, <1>6 DEF MoneyTrue, Taken
  <2>5. n \notin Processed
    BY <1>6 DEF Processed, Outcomes
  <2>6. Books!Used(n) \/ Books!Broken \/ n \in overlapped
    <3>1. event'[Tells(n)][n] \in Outcomes
      BY <1>5, <2>3 DEF Processed
    <3>2. MoneyKept'
      BY InvStep DEF SInv
    <3>3. ASSUME n \notin overlapped', ~ChainBroken' PROVE KeptNext(n)
      BY <1>5, <3>1, <3>2, <3>3 DEF MoneyKept, Tells, KeptNext, Listed
    <3>4. ChainBroken' => Books!Broken
      BY <1>2 DEF ChainBroken, Cancelled, Books!Broken
    <3>5. KeptNext(n) => Books!Used(n)
      BY <1>2 DEF KeptNext, Books!Used
    <3>6. QED
      BY <1>2, <3>3, <3>4, <3>5
  <2>7. Books!Close(n)
    BY <1>2, <1>3, <2>3, <2>4, <2>5, <2>6 DEF Books!Close, Books!bookVars
  <2>8. QED
    BY <1>5, <2>7 DEF Books!Next, Cycles, Books!Cycles
<1>7. ASSUME event[k][n] # "pending" \/ k # Tells(n) PROVE UNCHANGED Shown
  <2>1. k \notin Money \/ event' = event
    BY <1>4, <1>5, <1>7
  <2>2. ASSUME NEW m \in Cycles PROVE event'[Tells(m)][m] = event[Tells(m)][m]
    <3>1. Tells(m) \in Kinds /\ Tells(m) \in Money
      BY <1>1, TellsKind
    <3>2. QED
      BY <1>1, <1>4, <1>5, <2>1, <3>1 DEF TypeOK
  <2>3. Processed' = Processed
    BY <2>2 DEF Processed
  <2>4. QED
    BY <1>2, <1>3, <2>3 DEF Shown
<1>8. QED
  BY <1>6, <1>7

\* The other steps of a run: what ends a chain or a page is shown, where a handler
\* is and what it has read is not.
LEMMA RunShown ==
  ASSUME SInv, MoneyTrue, [Next]_vars, NEW w \in Workers, WorkerStep(w) \/ FailJob(w)
  PROVE  Books!Next \/ UNCHANGED Shown
<1>1. TypeOK /\ Cycled /\ Staged /\ Sold
  BY DEF SInv
<1>2. CASE ApplyCheckoutPaid(w)
  BY <1>1, <1>2, FirstShown
<1>3. CASE AppendPeriod(w)
  BY <1>3, RenewShown
<1>4. CASE ListRenewal(w)
  BY <1>4, ListShown
<1>5. CASE MarkEvent(w)
  BY <1>5, MarkShown
<1>6. CASE ExpireCheckout(w)
  <2>1. /\ checkout' = IF checkout = "open" THEN "expired" ELSE checkout
        /\ UNCHANGED <<chain, booked, listed, erased, revoked, time, invoice, event, overlapped>>
    BY <1>6 DEF ExpireCheckout, stripeVars
  <2>2. Taken' = Taken /\ Processed' = Processed
    BY <2>1 DEF Taken, Processed
  <2>3. CASE checkout = "open"
    <3>1. Books!Expire
      BY <2>1, <2>2, <2>3 DEF Books!Expire, Books!worldVars
    <3>2. QED
      BY <3>1 DEF Books!Next
  <2>4. CASE checkout # "open"
    BY <2>1, <2>2, <2>4 DEF Shown
  <2>5. QED
    BY <2>3, <2>4
<1>7. CASE StopSubscription(w)
  <2>1. /\ chain' = Stopped
        /\ UNCHANGED <<checkout, booked, listed, erased, revoked, time, invoice, event, overlapped>>
    BY <1>7 DEF StopSubscription, stripeVars
  <2>2. Taken' = Taken /\ Processed' = Processed
    BY <2>1 DEF Taken, Processed
  <2>3. Books!Stop
    BY <2>1, <2>2 DEF Stopped, Books!Stop, Books!Stopped, Books!worldVars
  <2>4. QED
    BY <2>3 DEF Books!Next
<1>8. CASE MarkPaymentAccountGone(w)
  <2>1. UNCHANGED <<booked, listed, erased, revoked, time, invoice, event, overlapped>>
    BY <1>8 DEF MarkPaymentAccountGone, stripeVars
  <2>2. Taken' = Taken /\ Processed' = Processed
    BY <2>1 DEF Taken, Processed
  <2>3. CASE gone
    BY <1>8, <2>1, <2>2, <2>3 DEF MarkPaymentAccountGone, Shown
  <2>4. CASE ~gone
    <3>1. Books!Disconnect
      BY <1>8, <2>1, <2>2, <2>4 DEF MarkPaymentAccountGone, Stopped, Books!Disconnect, Books!Stopped,
         Books!worldVars
    <3>2. QED
      BY <3>1 DEF Books!Next
  <2>5. QED
    BY <2>3, <2>4
<1>9. CASE EndSubscription(w)
  <2>1. hand[w].at = "end" /\ UNCHANGED <<checkout, chain, booked, listed, erased, revoked, time, invoice, overlapped>>
    BY <1>9 DEF EndSubscription, bookVars
  <2>2. Raise("deleted", 1) \/ UNCHANGED event
    BY <1>9 DEF EndSubscription
  <2>3. Processed' = Processed
    <3>1. CASE UNCHANGED event
      BY <3>1 DEF Processed
    <3>2. CASE Raise("deleted", 1)
      BY <1>1, <3>2, FirstCycle, RaiseShown DEF Kinds, Money
    <3>3. QED
      BY <2>2, <3>1, <3>2
  <2>4. QED
    BY <2>1, <2>3 DEF Shown, Taken
<1>10. CASE \/ SeePayment(w) \/ ReadTail(w) \/ ReadListed(w) \/ RecordRenewalPaymentFailed(w)
            \/ AskOwed(w) \/ FailJob(w)
  <2>1. UNCHANGED <<checkout, chain, booked, listed, erased, revoked, time, invoice, event, overlapped>>
    BY <1>10 DEF SeePayment, ReadTail, ReadListed, RecordRenewalPaymentFailed, AskOwed, FailJob,
       bookVars, stripeVars
  <2>2. QED
    BY <2>1 DEF Shown, Taken, Processed
<1>11. ASSUME NEW kind \in Kinds, NEW n \in Cycles, TakeEvent(w, kind, n) PROVE Books!Next
  <2>1. UNCHANGED <<checkout, chain, booked, listed, erased, revoked, time, invoice, event>>
    BY <1>11 DEF TakeEvent, bookVars, stripeVars
  <2>2. Taken' = Taken /\ Processed' = Processed
    BY <2>1 DEF Taken, Processed
  <2>3. overlapped \subseteq overlapped' /\ overlapped' \subseteq Cycles
    BY <1>1, Onward, TypeStep DEF TypeOK
  <2>4. PICK cycles \in SUBSET Books!Cycles : overlapped' = overlapped \cup cycles
    <3>1. overlapped' = overlapped \cup overlapped' /\ overlapped' \in SUBSET Books!Cycles
      BY <2>3 DEF Cycles, Books!Cycles
    <3>2. QED
      BY <3>1
  <2>5. Books!Meet(cycles)
    BY <2>1, <2>2, <2>4 DEF Books!Meet, Books!bookVars
  <2>6. QED
    BY <2>5 DEF Books!Next
<1>12. QED
  BY <1>2, <1>3, <1>4, <1>5, <1>6, <1>7, <1>8, <1>9, <1>10, <1>11 DEF WorkerStep, HandlerStep

\* Every step.
LEMMA StepShown == BInv /\ [Next]_vars => [Books!Next]_Shown /\ BInv'
<1> SUFFICES ASSUME BInv, [Next]_vars PROVE [Books!Next]_Shown /\ BInv'
  OBVIOUS
<1>1. SInv /\ MoneyTrue /\ TypeOK /\ Cycled
  BY DEF BInv, SInv
<1>2. BInv'
  BY <1>1, InvStep, MoneyTrueStep DEF BInv
<1>3. CASE StripeStep
  BY <1>1, <1>2, <1>3, StripeShown
<1>4. CASE OfficeStep
  BY <1>1, <1>2, <1>4, OfficeShown
<1>5. ASSUME NEW w \in Workers, WorkerStep(w) \/ FailJob(w) PROVE [Books!Next]_Shown
  BY <1>1, <1>5, RunShown
<1>6. CASE UNCHANGED vars
  BY <1>2, <1>6 DEF vars, bookVars, stripeVars, Shown, Taken, Processed
<1>7. QED
  BY <1>2, <1>3, <1>4, <1>5, <1>6 DEF Next

LEMMA InitShown == Init => Books!Init /\ BInv
<1> SUFFICES ASSUME Init PROVE Books!Init /\ BInv
  OBVIOUS
<1>1. \A n \in Cycles : /\ invoice[n] = "none"
                        /\ \A k \in Kinds : event[k][n] = "none"
                        /\ Tells(n) \in Kinds
  BY DEF Init, Tells, Kinds
<1>2. Taken = {} /\ Processed = {}
  BY <1>1 DEF Taken, Processed, Outcomes
<1>3. Books!Init
  BY <1>2 DEF Init, Books!Init, Cycles, Books!Cycles
<1>4. MoneyTrue
  BY <1>1, FirstCycle DEF Init, Idle, MoneyTrue, Handles
<1>5. QED
  BY <1>3, <1>4, InvInit DEF BInv

\* The handlers of events, the office and Stripe keep the promise of
\* SubscriptionBooks: a cycle's money is used in one step which the chain of that
\* moment allows, once, or its event stays open.
THEOREM ImplementsBooks == Spec => KeepsBooks
<1>1. [Books!Next]_Shown => [Books!Next]_(Books!vars)
  BY DEF Shown, Books!vars, Books!bookVars, Books!worldVars
<1>2. QED
  BY InitShown, StepShown, <1>1, PTL DEF Spec, KeepsBooks, Books!Spec
=============================================================================
