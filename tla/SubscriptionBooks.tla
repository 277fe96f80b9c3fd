-------------------------- MODULE SubscriptionBooks --------------------------
(***************************************************************************)
(* What a plan's subscription promises the club and the client, with the   *)
(* handlers of events, the ledger, the calls to Stripe and the office's    *)
(* two steps left out: each cycle's money is used in one step, judged by   *)
(* the chain of periods as it is at that moment, once -- sold as a period, *)
(* or listed for the office because nothing will be sold any more -- and   *)
(* it is not laid aside before that.                                       *)
(***************************************************************************)
EXTENDS Integers, Sequences

CONSTANTS
  MaxCycles,    \* bound: the cycles Stripe bills
  Foreign       \* the cycles whose invoice is not in EUR

VARIABLES
  checkout,     \* the row of the plan's checkout
  chain,        \* the periods sold
  booked,       \* the cycles whose money is in the books
  listed,       \* by cycle: rows of money listed for the office
  erased,       \* the client's record is gone
  revoked,      \* the club took back the platform's access
  time,         \* the cycle under way
  taken,        \* the cycles Stripe took money for
  closed,       \* the cycles whose money is done with
  met           \* the cycles whose handling met that of other money

bookVars == <<checkout, chain, booked, listed>>
worldVars == <<erased, revoked, time, taken, closed, met>>
vars == <<bookVars, worldVars>>

Cycles == 1..MaxCycles
Never == MaxCycles + 1

Init ==
  /\ checkout = "open" /\ chain = <<>>
  /\ booked = {} /\ listed = [n \in Cycles |-> 0]
  /\ erased = FALSE /\ revoked = FALSE
  /\ time = 1
  /\ taken = {} /\ closed = {} /\ met = {}

---------------------------------------------------------------------------
(* Money.                                                                  *)

\* The next period would start after the last, or today, and not after the end
\* the client gave notice of.
NextStart(last) == IF last.start >= time THEN last.start + 1 ELSE time
Renewable(last) ==
  /\ last.renews /\ ~last.cancelled
  /\ last.notice # Never => NextStart(last) <= last.notice
CanRenew == chain # <<>> /\ Renewable(chain[Len(chain)])
Over == checkout # "open" /\ ~CanRenew

Used(n) == n \in booked \/ listed[n] > 0 \/ (n = 1 /\ checkout = "unapplied")

\* Stripe takes the money of a cycle that has begun, or of the one that begins.
Take(n) ==
  /\ n \in 1..time /\ n \notin taken
  /\ taken' = taken \cup {n}
  /\ UNCHANGED <<bookVars, erased, revoked, time, closed, met>>
CycleBegins ==
  /\ time' = time + 1
  /\ \/ UNCHANGED taken
     \/ time' \notin taken /\ taken' = taken \cup {time'}
  /\ UNCHANGED <<bookVars, erased, revoked, closed, met>>

\* The first payment sells the first period, or is listed: the page was closed,
\* the money is not EUR, the record is gone.
SellFirst ==
  /\ 1 \in taken
  /\ checkout = "open" /\ 1 \notin Foreign /\ ~erased
  /\ checkout' = "paid"
  /\ chain' = <<[cycle |-> 1, start |-> time, renews |-> TRUE, cancelled |-> FALSE, notice |-> Never]>>
  /\ booked' = booked \cup {1}
  /\ UNCHANGED <<listed, worldVars>>
ListFirst ==
  /\ 1 \in taken
  /\ checkout = "expired" \/ (checkout = "open" /\ (1 \in Foreign \/ erased))
  /\ checkout' = "unapplied"
  /\ UNCHANGED <<chain, booked, listed, worldVars>>

\* So does every other: it follows a period that renews, or is listed where
\* nothing will be sold any more.  Once, unless handlings met.
Renew(n) ==
  /\ n \in taken \ {1} /\ n \notin Foreign
  /\ CanRenew
  /\ n \in met \/ ~Used(n)
  /\ chain' = Append(chain,
       [cycle |-> n, start |-> NextStart(chain[Len(chain)]), renews |-> TRUE,
        cancelled |-> FALSE, notice |-> chain[Len(chain)].notice])
  /\ booked' = booked \cup {n}
  /\ UNCHANGED <<checkout, listed, worldVars>>
List(n) ==
  /\ n \in taken \ {1}
  /\ checkout # "open"
  /\ n \in met \/ (~Used(n) /\ (n \in Foreign \/ Over))
  /\ listed' = [listed EXCEPT ![n] = @ + 1]
  /\ UNCHANGED <<checkout, chain, booked, worldVars>>

\* Its event is done with: the money is used, unless the subscription was broken
\* off or handlings met.
Broken == erased \/ revoked \/ \E i \in 1..Len(chain) : chain[i].cancelled
Close(n) ==
  /\ n \in taken \ closed
  /\ Used(n) \/ Broken \/ n \in met
  /\ closed' = closed \cup {n}
  /\ UNCHANGED <<bookVars, erased, revoked, time, taken, met>>

Meet(cycles) ==
  /\ met' = met \cup cycles
  /\ UNCHANGED <<bookVars, erased, revoked, time, taken, closed>>

---------------------------------------------------------------------------
(* What ends the subscription in the books.                                *)

Expire ==
  /\ checkout = "open" /\ checkout' = "expired"
  /\ UNCHANGED <<chain, booked, listed, worldVars>>

Stopped == [i \in 1..Len(chain) |-> [chain[i] EXCEPT !.renews = FALSE]]
Stop ==
  /\ chain' = Stopped
  /\ UNCHANGED <<checkout, booked, listed, worldVars>>
Disconnect ==
  /\ chain' = Stopped
  /\ checkout' = IF checkout = "open" THEN "expired" ELSE checkout
  /\ UNCHANGED <<booked, listed, worldVars>>

\* One period: the last renews no more or gets its end; any is cancelled.
Change(i, period) ==
  /\ chain' = [chain EXCEPT ![i] = period]
  /\ UNCHANGED <<checkout, booked, listed, worldVars>>
StopLast ==
  /\ chain # <<>> /\ ~chain[Len(chain)].cancelled
  /\ Change(Len(chain), [chain[Len(chain)] EXCEPT !.renews = FALSE])
Notice(last) ==
  /\ chain # <<>> /\ chain[Len(chain)].renews /\ ~chain[Len(chain)].cancelled
  /\ chain[Len(chain)].notice = Never
  /\ last \in time..MaxCycles
  /\ Change(Len(chain), [chain[Len(chain)] EXCEPT !.notice = last])
Cancel(i) == Change(i, [chain[i] EXCEPT !.cancelled = TRUE])

Erase ==
  /\ erased' = TRUE /\ chain' = <<>>
  /\ UNCHANGED <<checkout, booked, listed, revoked, time, taken, closed, met>>
Revoke ==
  /\ revoked' = TRUE
  /\ UNCHANGED <<bookVars, erased, time, taken, closed, met>>

Next ==
  \/ CycleBegins \/ SellFirst \/ ListFirst
  \/ \E n \in Cycles : Take(n) \/ Renew(n) \/ List(n) \/ Close(n) \/ Notice(n)
  \/ \E cycles \in SUBSET Cycles : Meet(cycles)
  \/ Expire \/ Stop \/ Disconnect \/ StopLast \/ Erase \/ Revoke
  \/ \E i \in 1..Len(chain) : Cancel(i)

Spec == Init /\ [][Next]_vars
=============================================================================
