--------------------------- MODULE PaymentIntake ---------------------------
(***************************************************************************)
(* What taking money online promises a club, with everything the members,  *)
(* the tabs, Stripe's deliveries and the worker do left out: money taken   *)
(* for a checkout is settled once, either into the books of a charge it    *)
(* fits, or onto the list of money the office owes back.                   *)
(***************************************************************************)
EXTENDS Integers

CONSTANTS
  Charges,
  Checkouts,
  Price         \* amount_cents of every charge

VARIABLES
  money,        \* what became of the money of each checkout
  total         \* what the books say was paid on each charge

vars == <<money, total>>

Init ==
  /\ money = [k \in Checkouts |-> "none"]
  /\ total = [c \in Charges |-> 0]

\* Stripe takes a member's money.
Take(k) ==
  /\ money[k] = "none"
  /\ money' = [money EXCEPT ![k] = "taken"]
  /\ UNCHANGED total

\* The money becomes a payment, in the same step as the charge's total.
Book(k) ==
  /\ money[k] = "taken"
  /\ \E c \in Charges, a \in 1..Price :
       /\ total[c] + a <= Price
       /\ total' = [total EXCEPT ![c] = @ + a]
  /\ money' = [money EXCEPT ![k] = "booked"]

\* The money fits no charge: the office is told it owes it back.
Owe(k) ==
  /\ money[k] = "taken"
  /\ money' = [money EXCEPT ![k] = "owed"]
  /\ UNCHANGED total

\* The desk takes money by other means, or gives some back.
Desk(c) ==
  /\ \/ \E a \in 1..Price : /\ total[c] + a <= Price
                            /\ total' = [total EXCEPT ![c] = @ + a]
     \/ \E a \in 1..total[c] : total' = [total EXCEPT ![c] = @ - a]
  /\ UNCHANGED money

Next ==
  \/ \E k \in Checkouts : Take(k) \/ Book(k) \/ Owe(k)
  \/ \E c \in Charges : Desk(c)

Spec == Init /\ [][Next]_vars
=============================================================================
