---------------------------- MODULE EventPlaces ----------------------------
(***************************************************************************)
(* One event of a club: its tickets, the places people take on them, and   *)
(* the line of those who wait for one.                                     *)
(*                                                                         *)
(* Grain.  Whoever gives or frees a seat locks the event's row first, so   *)
(* these transactions are one at a time (tx).  Payments, the desk's voids  *)
(* and the client's record never take that lock: they may come between a   *)
(* transaction's first read of the lapsed holds and the release that       *)
(* judges them again under the charges' locks.  A transaction that         *)
(* releases holds is therefore two steps, any other is one.  The settling  *)
(* of a payment, many steps in OnlinePayment, is one step here.            *)
(***************************************************************************)
EXTENDS Integers, FiniteSets

CONSTANTS
  Members,      \* the club's clients
  Family,       \* those of them one account acts for; every other has its own
  Reachable,    \* those who, or whose guardian, can open the portal
  Tickets,      \* the kinds of ticket the event may sell
  Priced,       \* those that cost at least MIN_ONLINE_CENTS; the others are free
  Capacities,   \* club_events.capacity and club_event_tickets.capacity; NULL is
                \* a number no less than MaxPlaces
  Payments,     \* club_events.payment
  MaxPlaces,    \* bound: how many places are ever registered
  MaxEdits      \* bound: how often anything that calls Edit happens

ASSUME CapacitiesAssumption == Capacities \subseteq Nat \ {0}
ASSUME PlacesAssumption == MaxPlaces \in Nat
ASSUME EditsAssumption == MaxEdits \in Nat
ASSUME PaymentsAssumption == Payments \subseteq {"desk", "online_optional", "online_required"}

VARIABLES
  event,        \* club_events: status, capacity, payment
  ticket,       \* club_event_tickets: whether on sale, capacity
  clock,        \* where now() is against the event's start and end
  place,        \* club_event_registrations, by arrival ticket
  nextSeq,      \* club_event_registration_seq
  archived,     \* clients archived or erased
  online,       \* whether the club takes payments online now
  tx,           \* the open transaction that holds the event's lock
  edits,        \* counts towards MaxEdits
  restored      \* history: clients back from the archive since the line last moved

saleVars == <<event, ticket>>
worldVars == <<clock, archived, online, edits, restored>>
vars == <<saleVars, place, nextSeq, tx, worldVars>>

---------------------------------------------------------------------------
(* The tables.                                                             *)

\* More than EVENT_OFFER_MIN_MINUTES to the start, less, started, ended.
Early == 1
Short == 2
Started == 3
Ended == 4

Places == 1..MaxPlaces

SeatStates == {"held", "confirmed"}
LiveStates == SeatStates \cup {"waitlisted"}
Charges == {"none", "due", "paid", "void"}

\* `hold` is where now() is against hold_expires_at: before, in the minutes of
\* grace, or past them.  A late cancellation is one whose charge stays.
Columns == [member : Members \cup {"nobody"}, ticket : Tickets \cup {"none"},
            state : {"none", "cancelled", "expired"} \cup LiveStates,
            hold : {"none", "live", "past", "lapsed"},
            charge : Charges]
PlaceRows ==
  {r \in Columns : /\ (r.state = "held") <=> (r.hold # "none")
                   /\ r.state = "waitlisted" => r.charge = "none"
                   /\ r.state # "none" => r.ticket \in Tickets}
Blank == [member |-> "nobody", ticket |-> "none", state |-> "none", hold |-> "none",
          charge |-> "none"]

Free == [op |-> "none"]
Transactions ==
  {Free}
  \cup [op : {"register"}, read : SUBSET Places, member : Members, ticket : Tickets, pays : BOOLEAN]
  \cup [op : {"save"}, read : SUBSET Places, capacity : Capacities, payment : Payments,
        clock : Early..Ended]
  \cup [op : {"sweep"}, read : SUBSET Places]

Init ==
  /\ event \in [status : {"draft"}, capacity : Capacities, payment : Payments]
  /\ ticket \in [Tickets -> [sale : {"none", "live"}, capacity : Capacities]]
  /\ clock = Early
  /\ place = [p \in Places |-> Blank]
  /\ nextSeq = 1
  /\ archived = {}
  /\ online \in BOOLEAN
  /\ tx = Free
  /\ edits = 0
  /\ restored = {}

---------------------------------------------------------------------------
(* Seats and the line.                                                     *)

Seats(rows) == {p \in Places : rows[p].state \in SeatStates}
SeatsOf(rows, t) == {p \in Seats(rows) : rows[p].ticket = t}
Waiting(rows) == {p \in Places : rows[p].state = "waitlisted" /\ rows[p].member \notin archived}
WaitingFor(rows, t) == {p \in Waiting(rows) : rows[p].ticket = t}

\* Seats left under the terms of an event e and its tickets k.
EventLeft(e, rows) == e.capacity - Cardinality(Seats(rows))
TicketLeft(k, rows, t) == k[t].capacity - Cardinality(SeatsOf(rows, t))

\* The line moves while the event is on sale and has not started.
LineMoves(e, c) == e.status = "published" /\ c < Started

\* Who of the line gets a seat: no more than there is room for, and nobody is
\* passed over while there was a seat for them when their turn came.
Served(e, k, rows, s) ==
  /\ Cardinality(s) <= EventLeft(e, rows)
  /\ \A t \in Tickets : Cardinality({p \in s : rows[p].ticket = t}) <= TicketLeft(k, rows, t)
  /\ \A w \in Waiting(rows) \ s :
       LET before == {p \in s : p < w}
           same == {p \in before : rows[p].ticket = rows[w].ticket}
       IN  \/ Cardinality(before) >= EventLeft(e, rows)
           \/ Cardinality(same) >= TicketLeft(k, rows, rows[w].ticket)

\* Whether the loop seats w, when got are those it has seated so far.
\* (Mutant: a full ticket ends the loop instead of passing to the next in line.)
Takes_EndsAtFull(e, k, rows, w, got) ==
  /\ w \in Waiting(rows)
  /\ Cardinality(got) < EventLeft(e, rows)
  /\ Cardinality({p \in got : rows[p].ticket = rows[w].ticket})
       < TicketLeft(k, rows, rows[w].ticket)
  /\ {v \in Waiting(rows) : v < w} \subseteq got
Takes(e, k, rows, w, got) ==
  /\ w \in Waiting(rows)
  /\ Cardinality(got) < EventLeft(e, rows)
  /\ Cardinality({p \in got : rows[p].ticket = rows[w].ticket})
       < TicketLeft(k, rows, rows[w].ticket)

\* The code's own loop over the line, in arrival order (LoopServes compares).
Loop(e, k, rows) ==
  LET seated[n \in 0..MaxPlaces] ==
        IF n = 0 THEN {}
        ELSE IF Takes(e, k, rows, n, seated[n - 1]) THEN seated[n - 1] \cup {n}
        ELSE seated[n - 1]
  IN  seated[MaxPlaces]

\* A place that can be paid online is offered, any other is given.
Offered(e, c, row) ==
  /\ e.payment = "online_required" /\ online /\ c = Early
  /\ row.ticket \in Priced
  /\ row.member \in Reachable

Seated(row, held) ==
  [row EXCEPT !.state = IF held THEN "held" ELSE "confirmed",
              !.hold = IF held THEN "live" ELSE "none",
              !.charge = IF row.ticket \in Priced THEN "due" ELSE "none"]

Seat(e, c, rows, s) ==
  [p \in Places |-> IF p \in s THEN Seated(rows[p], Offered(e, c, rows[p])) ELSE rows[p]]

\* The rows after the line has moved (promoteEventWaitlist).
Promoted(e, k, c, rows) ==
  IF LineMoves(e, c) /\ EventLeft(e, rows) > 0
  THEN {Seat(e, c, rows, s) : s \in {x \in SUBSET Waiting(rows) : Served(e, k, rows, x)}}
  ELSE {rows}
LineMoved(e, c) == restored' = IF LineMoves(e, c) THEN {} ELSE restored

\* Mutant: a newcomer is seated whatever the ticket has left.
Room_EventOnly(rows, t) ==
  /\ EventLeft(event, rows) > 0
  /\ clock >= Started \/ WaitingFor(rows, t) = {}

\* Room for a newcomer: the event's, the ticket's, and until the start nobody
\* who can be seated waits for this ticket (once more by the seat trigger).
Room(rows, t) ==
  /\ EventLeft(event, rows) > 0
  /\ TicketLeft(ticket, rows, t) > 0
  /\ clock >= Started \/ WaitingFor(rows, t) = {}

\* Holds past their grace, and those of them still so under the locks.
Lapsed == {p \in Places : place[p].state = "held" /\ place[p].hold = "lapsed"}
\* (Mutant: released as read, without a second look.)
Releasable_AsRead == tx.read
Releasable == {p \in tx.read : p \in Lapsed /\ place[p].charge # "paid"}
Released ==
  [p \in Places |->
     IF p \in Releasable
     THEN [place[p] EXCEPT !.state = "expired", !.hold = "none",
                           !.charge = IF @ = "due" THEN "void" ELSE @]
     ELSE place[p]]

Live(p) == place[p].state \in LiveStates
SameAccount(m, n) == m = n \/ {m, n} \subseteq Family

Edit == edits < MaxEdits /\ edits' = edits + 1

---------------------------------------------------------------------------
(* A person registers, at the desk or for themselves.                      *)

PaysOnline(t, desk) == ~desk /\ event.payment = "online_required" /\ t \in Priced

\* The place of a client under the terms of some rows.
PlacedIn(rows, m) == \E p \in Places : rows[p].state \in LiveStates /\ rows[p].member = m

\* The account's holds are counted before anything moves.  Who has a place
\* already is refused by the INSERT alone: only a hold past its grace may be
\* gone by then.
StartRegister(m, t, desk) ==
  /\ tx = Free /\ nextSeq \in Places
  /\ m \notin archived
  /\ event.status = "published" /\ clock < Ended
  /\ ticket[t].sale = "live"
  /\ \A p \in Places \ Lapsed : Live(p) => place[p].member # m
  /\ PaysOnline(t, desk) =>
       /\ online
       /\ \A p \in Places : place[p].hold = "live" => ~SameAccount(place[p].member, m)
  /\ tx' = [op |-> "register", read |-> Lapsed, member |-> m, ticket |-> t,
            pays |-> PaysOnline(t, desk)]
  /\ UNCHANGED <<saleVars, place, nextSeq, worldVars>>

\* The row that registers: seated where there is room, else last in line.
Newcomer(m, t, pays, room) ==
  LET row == [Blank EXCEPT !.member = m, !.ticket = t, !.state = "waitlisted"]
  IN  IF room THEN Seated(row, pays) ELSE row

\* Mutant: the line is not moved before the newcomer is seated.
CommitRegister_NoPromotion ==
  /\ tx.op = "register" /\ ~PlacedIn(Released, tx.member)
  /\ UNCHANGED <<saleVars, worldVars>>
  /\ place' = [Released EXCEPT ![nextSeq] =
                  Newcomer(tx.member, tx.ticket, tx.pays, Room(Released, tx.ticket))]
  /\ nextSeq' = nextSeq + 1
  /\ tx' = Free

\* Lapsed holds are released and the line moves before the newcomer is seated.
CommitRegister ==
  /\ tx.op = "register" /\ ~PlacedIn(Released, tx.member)
  /\ UNCHANGED <<saleVars, clock, archived, online, edits>>
  /\ LineMoved(event, clock)
  /\ \E rows \in Promoted(event, ticket, clock, Released) :
       place' = [rows EXCEPT ![nextSeq] =
                   Newcomer(tx.member, tx.ticket, tx.pays, Room(rows, tx.ticket))]
  /\ nextSeq' = nextSeq + 1
  /\ tx' = Free

\* Their own hold was paid while the transaction ran: it rolls back
\* (club_event_registrations_one_live).
AlreadyRegistered ==
  /\ tx.op = "register" /\ PlacedIn(Released, tx.member)
  /\ tx' = Free
  /\ UNCHANGED <<saleVars, place, nextSeq, worldVars>>

---------------------------------------------------------------------------
(* The office edits the event and its tickets.                             *)

\* A capacity is not set below the seats already taken.
StartSave(c, pay, ck) ==
  /\ tx = Free
  /\ event.status # "cancelled"
  /\ c = event.capacity \/ Cardinality(Seats(place)) <= c
  /\ Edit
  /\ tx' = [op |-> "save", read |-> Lapsed, capacity |-> c, payment |-> pay, clock |-> ck]
  /\ UNCHANGED <<saleVars, place, nextSeq, clock, archived, online, restored>>

\* The event may move to another day: the clock stands elsewhere against it.
CommitSave ==
  /\ tx.op = "save"
  /\ event' = [event EXCEPT !.capacity = tx.capacity, !.payment = tx.payment]
  /\ clock' = tx.clock
  /\ UNCHANGED <<ticket, archived, online, edits, nextSeq>>
  /\ LineMoved(event', clock')
  /\ place' \in Promoted(event', ticket, clock', Released)
  /\ tx' = Free

SaveTicket(t, c) ==
  /\ tx = Free
  /\ event.status # "cancelled"
  /\ ticket[t].sale # "archived"
  /\ c = ticket[t].capacity \/ Cardinality(SeatsOf(place, t)) <= c
  /\ Edit
  /\ ticket' = [ticket EXCEPT ![t] = [sale |-> "live", capacity |-> c]]
  /\ UNCHANGED <<event, clock, archived, online, nextSeq, tx>>
  /\ LineMoved(event, clock)
  /\ place' \in Promoted(event, ticket', clock, place)

\* The places on it stay, and so does its line.
ArchiveTicket(t) ==
  /\ tx = Free
  /\ ticket[t].sale = "live"
  /\ Edit
  /\ ticket' = [ticket EXCEPT ![t].sale = "archived"]
  /\ UNCHANGED <<event, place, nextSeq, tx, clock, archived, online, restored>>

PublishEvent ==
  /\ tx = Free
  /\ event.status = "draft" /\ clock < Ended
  /\ \E t \in Tickets : ticket[t].sale = "live"
  /\ event' = [event EXCEPT !.status = "published"]
  /\ UNCHANGED <<ticket, place, nextSeq, tx, worldVars>>

---------------------------------------------------------------------------
(* Places end.                                                             *)

\* The charge of a place that ends is voided (what was paid is then owed back),
\* but for one that a live invoice keeps.
Closed(charge) == IF charge \in {"due", "paid"} THEN {"void", charge} ELSE {charge}

CancelEvent ==
  /\ tx = Free
  /\ event.status # "cancelled" /\ clock < Ended
  /\ event' = [event EXCEPT !.status = "cancelled"]
  /\ \E end \in [Places -> Charges] :
       /\ \A p \in Places : end[p] \in IF Live(p) THEN Closed(place[p].charge) ELSE {place[p].charge}
       /\ place' = [p \in Places |->
            IF Live(p)
            THEN [place[p] EXCEPT !.state = "cancelled", !.hold = "none", !.charge = end[p]]
            ELSE place[p]]
  /\ UNCHANGED <<ticket, nextSeq, tx, worldVars>>

\* Mutant: a place given up while held keeps its deadline, which the table refuses.
CancelEventPlace_KeepsDeadline(p) ==
  /\ tx = Free
  /\ Live(p) /\ clock < Ended
  /\ UNCHANGED <<saleVars, clock, archived, online, edits, nextSeq, tx>>
  /\ LineMoved(event, clock)
  /\ \E end \in Closed(place[p].charge) :
       place' \in Promoted(event, ticket, clock,
         [place EXCEPT ![p].state = "cancelled", ![p].charge = end])

\* By the desk before the end or by the member before the start; the charge of
\* a seat that its member gives up late stays as well.  The line moves in.
CancelEventPlace(p) ==
  /\ tx = Free
  /\ Live(p) /\ clock < Ended
  /\ UNCHANGED <<saleVars, clock, archived, online, edits, nextSeq, tx>>
  /\ LineMoved(event, clock)
  /\ \E end \in Closed(place[p].charge) :
       place' \in Promoted(event, ticket, clock,
         [place EXCEPT ![p].state = "cancelled", ![p].hold = "none", ![p].charge = end])

---------------------------------------------------------------------------
(* The worker's sweep.                                                     *)

StartSweep ==
  /\ tx = Free
  /\ Lapsed # {}
  /\ tx' = [op |-> "sweep", read |-> Lapsed]
  /\ UNCHANGED <<saleVars, place, nextSeq, worldVars>>

\* Mutant: the seat is freed and nobody is moved into it.
CommitSweep_OnlyReleases ==
  /\ tx.op = "sweep"
  /\ UNCHANGED <<saleVars, nextSeq, worldVars>>
  /\ place' = Released
  /\ tx' = Free

CommitSweep ==
  /\ tx.op = "sweep"
  /\ UNCHANGED <<saleVars, nextSeq, clock, archived, online, edits>>
  /\ IF Releasable = {} THEN UNCHANGED <<place, restored>>
     ELSE LineMoved(event, clock) /\ place' \in Promoted(event, ticket, clock, Released)
  /\ tx' = Free

\* Any of them fails before its commit: an event that fails waits for the next run.
Abort ==
  /\ tx # Free
  /\ Edit
  /\ tx' = Free
  /\ UNCHANGED <<saleVars, place, nextSeq, clock, archived, online, restored>>

---------------------------------------------------------------------------
(* What never takes the event's lock.                                      *)

\* Money for the charge, wherever taken, confirms a held place (a trigger).
Pay(p) ==
  /\ place[p].charge = "due"
  /\ place' = [place EXCEPT ![p].charge = "paid",
                            ![p].state = IF @ = "held" THEN "confirmed" ELSE @,
                            ![p].hold = "none"]
  /\ UNCHANGED <<saleVars, nextSeq, tx, worldVars>>

\* The desk waives the charge; the place stays as it is.
VoidCharge(p) ==
  /\ place[p].charge \in {"due", "paid"}
  /\ Edit
  /\ place' = [place EXCEPT ![p].charge = "void"]
  /\ UNCHANGED <<saleVars, nextSeq, tx, clock, archived, online, restored>>

\* Erasing a client ends their turn in line as archiving does, for good.
SetMemberArchived(m) ==
  /\ Edit
  /\ archived' = IF m \in archived THEN archived \ {m} ELSE archived \cup {m}
  /\ restored' = IF m \in archived THEN restored \cup {m} ELSE restored
  /\ UNCHANGED <<saleVars, place, nextSeq, tx, clock, online>>

SwitchOnline ==
  /\ Edit
  /\ online' = ~online
  /\ UNCHANGED <<saleVars, place, nextSeq, tx, clock, archived, restored>>

HoldClock(p) ==
  /\ place[p].hold \in {"live", "past"}
  /\ place' = [place EXCEPT ![p].hold = IF @ = "live" THEN "past" ELSE "lapsed"]
  /\ UNCHANGED <<saleVars, nextSeq, tx, worldVars>>

Tick ==
  /\ clock < Ended
  /\ clock' = clock + 1
  /\ UNCHANGED <<saleVars, place, nextSeq, tx, archived, online, edits, restored>>

---------------------------------------------------------------------------

Next ==
  \/ \E m \in Members, t \in Tickets, desk \in BOOLEAN : StartRegister(m, t, desk)
  \/ \E c \in Capacities, pay \in Payments, ck \in Early..Ended : StartSave(c, pay, ck)
  \/ StartSweep
  \/ CommitRegister \/ AlreadyRegistered \/ CommitSave \/ CommitSweep \/ Abort
  \/ \E t \in Tickets : ArchiveTicket(t) \/ \E c \in Capacities : SaveTicket(t, c)
  \/ PublishEvent \/ CancelEvent
  \/ \E p \in Places : CancelEventPlace(p) \/ Pay(p) \/ VoidCharge(p) \/ HoldClock(p)
  \/ \E m \in Members : SetMemberArchived(m)
  \/ SwitchOnline \/ Tick

Spec == Init /\ [][Next]_vars

---------------------------------------------------------------------------
(* Properties.                                                             *)

\* Every column has a value its table allows, the CHECKs between the columns of
\* a place included: none of its statements is refused.
TypeOK ==
  /\ event \in [status : {"draft", "published", "cancelled"}, capacity : Capacities,
                payment : Payments]
  /\ ticket \in [Tickets -> [sale : {"none", "live", "archived"}, capacity : Capacities]]
  /\ clock \in Early..Ended
  /\ place \in [Places -> PlaceRows]
  /\ nextSeq \in 1..MaxPlaces + 1
  /\ archived \subseteq Members /\ restored \subseteq Members
  /\ online \in BOOLEAN
  /\ tx \in Transactions
  /\ edits \in 0..MaxEdits

\* Over-booking is impossible: whatever is registered, promoted, released, paid
\* or edited, no more seats are taken than the event and each ticket have.
SeatsFit ==
  /\ Cardinality(Seats(place)) <= event.capacity
  /\ \A t \in Tickets : Cardinality(SeatsOf(place, t)) <= ticket[t].capacity

\* A freed seat goes to the line in the transaction that freed it: before the
\* start nobody waits beside a seat they could have -- but for a client who was
\* archived while the line last moved.
NoIdleSeat ==
  event.status = "published" /\ clock < Started =>
    \A w \in Waiting(place) :
      \/ place[w].member \in restored
      \/ Cardinality(Seats(place)) >= event.capacity
      \/ Cardinality(SeatsOf(place, place[w].ticket)) >= ticket[place[w].ticket].capacity

\* Whatever the capacities are set to, the loop of promoteEventWaitlist seats
\* one set of people: those whom Served describes.
LoopServes ==
  \A c \in Capacities, caps \in [Tickets -> Capacities] :
    LET e == [event EXCEPT !.capacity = c]
        k == [t \in Tickets |-> [ticket[t] EXCEPT !.capacity = caps[t]]]
    IN  (/\ EventLeft(e, place) > 0
         /\ \A t \in Tickets : TicketLeft(k, place, t) >= 0) =>
        {s \in SUBSET Waiting(place) : Served(e, k, place, s)} = {Loop(e, k, place)}

\* A place with money on its charge is never released, however the payment
\* races the sweep; and a released place leaves no debt.
PaidPlaceKept == \A p \in Places : place[p].state = "expired" => place[p].charge = "void"

\* Nobody overtakes: whoever is seated before the start, a newcomer or one of
\* the line, comes after everybody who still waits but for those whose own
\* ticket, another than theirs, is full.
NobodyOvertakes ==
  [][\A p \in Seats(place)' \ Seats(place), w \in Waiting(place)' :
       (clock' < Started /\ w < p) =>
         /\ place'[w].ticket # place'[p].ticket
         /\ Cardinality(SeatsOf(place', place'[w].ticket)) >= ticket'[place'[w].ticket].capacity]_vars
=============================================================================
