------------------------- MODULE EventPlacesProofs -------------------------
(***************************************************************************)
(* Proofs about EventPlaces, for any clients, accounts, tickets,           *)
(* capacities and any bounds.                                              *)
(***************************************************************************)
EXTENDS EventPlaces, FiniteSetTheorems, WellFoundedInduction, TLAPS

USE DEF saleVars, worldVars

---------------------------------------------------------------------------
(* The inductive invariant.                                                *)

\* A draft has nobody on it, and a place not yet registered is blank.
DraftIsEmpty == event.status = "draft" => \A p \in Places : place[p] = Blank
RestIsBlank == \A p \in Places : p >= nextSeq => place[p] = Blank

\* What the open transaction found under the event's lock is still so: the event
\* is on sale, and the seats fit the capacity that is being saved.
LockKeeps ==
  /\ tx.op = "register" => /\ event.status = "published" /\ nextSeq \in Places
                           /\ tx.pays = TRUE => tx.ticket \in Priced
  /\ tx.op = "save" => Cardinality(Seats(place)) <= tx.capacity

\* A held place owes its price, unless the desk waived it.
HeldOwes == \A p \in Places : place[p].state = "held" => place[p].charge \in {"due", "void"}

\* The conjunction, which every step keeps.
PInv == /\ TypeOK /\ SeatsFit /\ NoIdleSeat /\ PaidPlaceKept
        /\ DraftIsEmpty /\ RestIsBlank /\ LockKeeps /\ HeldOwes

---------------------------------------------------------------------------
(* Counting places.                                                        *)

\* A part of a set of places has a size, no greater, and smaller if a place is
\* left out.
LEMMA PartOf ==
  ASSUME NEW A \in SUBSET Places, NEW B \in SUBSET A
  PROVE  /\ Cardinality(A) \in Nat /\ Cardinality(B) \in Nat
         /\ Cardinality(B) <= Cardinality(A)
         /\ B # A => Cardinality(B) < Cardinality(A)
<1>1. IsFiniteSet(Places)
  BY PlacesAssumption, FS_Interval DEF Places
<1>2. IsFiniteSet(A)
  BY <1>1, FS_Subset
<1>3. /\ IsFiniteSet(B) /\ Cardinality(B) <= Cardinality(A)
      /\ Cardinality(A) = Cardinality(B) => A = B
  BY <1>2, FS_Subset
<1>4. Cardinality(A) \in Nat /\ Cardinality(B) \in Nat
  BY <1>2, <1>3, FS_CardinalityType
<1>5. QED
  BY <1>3, <1>4

\* Two sets of places with nothing in common add up.
LEMMA TwoParts ==
  ASSUME NEW A \in SUBSET Places, NEW B \in SUBSET Places, A \cap B = {}
  PROVE  Cardinality(A \cup B) = Cardinality(A) + Cardinality(B)
<1>1. IsFiniteSet(Places)
  BY PlacesAssumption, FS_Interval DEF Places
<1>2. IsFiniteSet(A) /\ IsFiniteSet(B)
  BY <1>1, FS_Subset
<1>3. Cardinality(A \cup B) = Cardinality(A) + Cardinality(B) - Cardinality(A \cap B)
  BY <1>2, FS_Union
<1>4. Cardinality(A) \in Nat /\ Cardinality(B) \in Nat /\ Cardinality(A \cap B) = 0
  BY <1>2, FS_CardinalityType, FS_EmptySet
<1>5. QED
  BY <1>3, <1>4

\* What filling or freeing seats does to a single row.
Filled(rows, new) ==
  \A p \in Places :
    /\ new[p].state = "held" =>
         new[p].charge = "due" \/ (rows[p].state = "held" /\ new[p] = rows[p])
    /\ new[p].state = "expired" => new[p] = rows[p]
    /\ rows[p] = Blank => new[p] = Blank
Freed(old, rows) ==
  \A p \in Places :
    /\ rows[p].state = "held" => rows[p] = old[p]
    /\ rows[p].state = "expired" => rows[p].charge = "void" \/ rows[p] = old[p]
    /\ old[p] = Blank => rows[p] = Blank
SameTickets(rows, new) == \A p \in Places : new[p].ticket = rows[p].ticket

\* Fewer seats taken leave all that fitted fitting.
LEMMA FewerSeats ==
  ASSUME NEW rows, NEW less, SameTickets(rows, less),
         Seats(less) \subseteq Seats(rows)
  PROVE  /\ Cardinality(Seats(less)) <= Cardinality(Seats(rows))
         /\ \A t : Cardinality(SeatsOf(less, t)) <= Cardinality(SeatsOf(rows, t))
<1>1. Seats(rows) \in SUBSET Places
  BY DEF Seats
<1>2. Cardinality(Seats(less)) <= Cardinality(Seats(rows))
  BY <1>1, PartOf
<1>3. ASSUME NEW t PROVE Cardinality(SeatsOf(less, t)) <= Cardinality(SeatsOf(rows, t))
  <2>1. SeatsOf(less, t) \subseteq SeatsOf(rows, t) /\ SeatsOf(rows, t) \in SUBSET Places
    BY <1>1 DEF SeatsOf, SameTickets
  <2>2. QED
    BY <2>1, PartOf
<1>4. QED
  BY <1>2, <1>3

---------------------------------------------------------------------------
(* What the line's move does (promoteEventWaitlist), under the terms of an *)
(* event e and tickets k whose capacities hold the seats already taken.    *)

Fit(e, k, rows) ==
  /\ Cardinality(Seats(rows)) <= e.capacity
  /\ \A t \in Tickets : Cardinality(SeatsOf(rows, t)) <= k[t].capacity

Terms(e, k) == e.capacity \in Nat /\ \A t \in Tickets : k[t].capacity \in Nat

\* Rows with fewer seats taken fit where the others did.
LEMMA FreedFits ==
  ASSUME NEW e, NEW k, Terms(e, k), NEW old, NEW rows, Fit(e, k, old),
         SameTickets(old, rows), Seats(rows) \subseteq Seats(old)
  PROVE  Fit(e, k, rows)
<1>1. /\ Seats(old) \in SUBSET Places /\ \A t : SeatsOf(old, t) \in SUBSET Places
      /\ Seats(rows) \in SUBSET Places /\ \A t : SeatsOf(rows, t) \in SUBSET Places
  BY DEF Seats, SeatsOf
<1>2. /\ Cardinality(Seats(old)) \in Nat /\ \A t : Cardinality(SeatsOf(old, t)) \in Nat
      /\ Cardinality(Seats(rows)) \in Nat /\ \A t : Cardinality(SeatsOf(rows, t)) \in Nat
  BY <1>1, PartOf
<1>3. /\ Cardinality(Seats(rows)) <= Cardinality(Seats(old))
      /\ \A t : Cardinality(SeatsOf(rows, t)) <= Cardinality(SeatsOf(old, t))
  BY FewerSeats
<1>4. /\ e.capacity \in Nat /\ \A t \in Tickets : k[t].capacity \in Nat
      /\ Cardinality(Seats(old)) <= e.capacity
      /\ \A t \in Tickets : Cardinality(SeatsOf(old, t)) <= k[t].capacity
  BY DEF Terms, Fit
<1>5. Cardinality(Seats(rows)) <= e.capacity
  BY <1>2, <1>3, <1>4
<1>6. ASSUME NEW t \in Tickets PROVE Cardinality(SeatsOf(rows, t)) <= k[t].capacity
  BY <1>2, <1>3, <1>4
<1>7. QED
  BY <1>5, <1>6 DEF Fit

\* A seat taken: the row keeps its person and ticket, and its table's CHECKs.
LEMMA SeatedRow ==
  ASSUME NEW row \in PlaceRows, NEW held \in BOOLEAN, row.ticket \in Tickets,
         held = TRUE => row.ticket \in Priced
  PROVE  /\ Seated(row, held) \in PlaceRows
         /\ Seated(row, held).state \in SeatStates
         /\ Seated(row, held).member = row.member /\ Seated(row, held).ticket = row.ticket
         /\ Seated(row, held).state = "held" => Seated(row, held).charge = "due"
         /\ Seated(row, held).state # "expired"
<1> DEFINE new == Seated(row, held)
<1>1. row \in Columns
  BY DEF PlaceRows
<1>2. new = [row EXCEPT !.state = IF held THEN "held" ELSE "confirmed",
                        !.hold = IF held THEN "live" ELSE "none",
                        !.charge = IF row.ticket \in Priced THEN "due" ELSE "none"]
  BY DEF Seated
<1>3. /\ new.state = (IF held THEN "held" ELSE "confirmed")
      /\ new.hold = (IF held THEN "live" ELSE "none")
      /\ new.charge = (IF row.ticket \in Priced THEN "due" ELSE "none")
      /\ new.member = row.member /\ new.ticket = row.ticket
  BY <1>1, <1>2 DEF Columns
<1>4. new \in Columns
  BY <1>1, <1>2 DEF Columns, LiveStates, SeatStates, Charges
<1>5. QED
  BY <1>3, <1>4 DEF PlaceRows, SeatStates

\* A set of people the line serves: seats taken by s of the waiting.
LEMMA SeatServed ==
  ASSUME NEW e, NEW k, NEW c, NEW rows \in [Places -> PlaceRows],
         NEW s \in SUBSET Waiting(rows)
  PROVE  LET new == Seat(e, c, rows, s) IN
         /\ new \in [Places -> PlaceRows]
         /\ Seats(new) = Seats(rows) \cup s /\ Seats(rows) \cap s = {}
         /\ Waiting(new) = Waiting(rows) \ s
         /\ SameTickets(rows, new) /\ Filled(rows, new)
<1> DEFINE new == Seat(e, c, rows, s)
<1>1. \A p \in s : p \in Places /\ rows[p].state = "waitlisted" /\ rows[p].ticket \in Tickets
  BY DEF Waiting, PlaceRows
<1>2. \A p \in Places : new[p] = IF p \in s THEN Seated(rows[p], Offered(e, c, rows[p])) ELSE rows[p]
  BY DEF Seat
<1>3. \A p \in s : /\ Offered(e, c, rows[p]) \in BOOLEAN
                   /\ Offered(e, c, rows[p]) = TRUE => rows[p].ticket \in Priced
  BY DEF Offered
<1>4. ASSUME NEW p \in s
      PROVE  /\ new[p] \in PlaceRows /\ new[p].state \in SeatStates
             /\ new[p].member = rows[p].member /\ new[p].ticket = rows[p].ticket
             /\ new[p].state = "held" => new[p].charge = "due"
             /\ new[p].state # "expired"
  <2>1. rows[p] \in PlaceRows /\ rows[p].ticket \in Tickets /\ p \in Places
    BY <1>1
  <2>2. PICK held \in BOOLEAN : /\ new[p] = Seated(rows[p], held)
                                /\ held = TRUE => rows[p].ticket \in Priced
    BY <1>2, <1>3, <2>1
  <2>3. /\ Seated(rows[p], held) \in PlaceRows
        /\ Seated(rows[p], held).state \in SeatStates
        /\ Seated(rows[p], held).member = rows[p].member
        /\ Seated(rows[p], held).ticket = rows[p].ticket
        /\ Seated(rows[p], held).state = "held" => Seated(rows[p], held).charge = "due"
        /\ Seated(rows[p], held).state # "expired"
    BY <2>1, <2>2, SeatedRow
  <2>4. QED
    BY <2>2, <2>3
<1>5. \A p \in Places \ s : new[p] = rows[p]
  BY <1>2
<1>6. new \in [Places -> PlaceRows]
  BY <1>2, <1>4, <1>5 DEF Seat
<1>7. Seats(new) = Seats(rows) \cup s /\ Seats(rows) \cap s = {}
  BY <1>1, <1>4, <1>5 DEF Seats, SeatStates
<1>8. Waiting(new) = Waiting(rows) \ s
  BY <1>1, <1>4, <1>5 DEF Waiting, SeatStates
<1>9. \A p \in s : rows[p] # Blank
  BY <1>1 DEF Blank
<1>10. QED
  BY <1>4, <1>5, <1>6, <1>7, <1>8, <1>9 DEF SameTickets, Filled

\* Nobody waits for a seat they could have; whoever got one since passed nobody
\* but those whose ticket is full.
FullFor(e, k, rows, w) ==
  \/ Cardinality(Seats(rows)) >= e.capacity
  \/ Cardinality(SeatsOf(rows, rows[w].ticket)) >= k[rows[w].ticket].capacity
InTurn(k, rows, new) ==
  \A p \in Seats(new) \ Seats(rows), w \in Waiting(new) :
    w < p => /\ new[w].ticket # new[p].ticket
             /\ Cardinality(SeatsOf(new, new[w].ticket)) >= k[new[w].ticket].capacity

\* Whom Served names fits, and leaves the line in order.
LEMMA ServedInTurn ==
  ASSUME NEW e, NEW k, NEW c, NEW rows \in [Places -> PlaceRows],
         NEW s \in SUBSET Waiting(rows), Served(e, k, rows, s),
         Terms(e, k), Fit(e, k, rows)
  PROVE  LET new == Seat(e, c, rows, s) IN
         /\ Fit(e, k, new)
         /\ \A w \in Waiting(new) : FullFor(e, k, new, w)
         /\ InTurn(k, rows, new)
<1> DEFINE new == Seat(e, c, rows, s)
           on(t) == {p \in s : rows[p].ticket = t}
<1>1. /\ Seats(new) = Seats(rows) \cup s /\ Seats(rows) \cap s = {}
      /\ Waiting(new) = Waiting(rows) \ s
      /\ \A p \in Places : new[p].ticket = rows[p].ticket
  <2>1. /\ Seats(new) = Seats(rows) \cup s /\ Seats(rows) \cap s = {}
        /\ Waiting(new) = Waiting(rows) \ s
        /\ SameTickets(rows, new)
    BY SeatServed
  <2> HIDE DEF new
  <2>2. QED
    BY <2>1 DEF SameTickets
<1>2. s \in SUBSET Places /\ Seats(rows) \in SUBSET Places
  BY DEF Waiting, Seats
<1>3. /\ Cardinality(Seats(new)) = Cardinality(Seats(rows)) + Cardinality(s)
      /\ Cardinality(Seats(rows)) \in Nat /\ Cardinality(s) \in Nat
  BY <1>1, <1>2, TwoParts, PartOf
<1>4. ASSUME NEW t
      PROVE  /\ Cardinality(SeatsOf(new, t)) = Cardinality(SeatsOf(rows, t)) + Cardinality(on(t))
             /\ Cardinality(SeatsOf(rows, t)) \in Nat /\ Cardinality(on(t)) \in Nat
  <2>1. SeatsOf(new, t) = SeatsOf(rows, t) \cup on(t)
    BY <1>1, <1>2 DEF SeatsOf
  <2>2. SeatsOf(rows, t) \in SUBSET Places /\ on(t) \in SUBSET Places /\ SeatsOf(rows, t) \cap on(t) = {}
    BY <1>1, <1>2 DEF SeatsOf
  <2> HIDE DEF on, new
  <2>3. QED
    BY <2>1, <2>2, TwoParts, PartOf
<1>5. /\ Cardinality(s) <= e.capacity - Cardinality(Seats(rows))
      /\ \A t \in Tickets : Cardinality(on(t)) <= k[t].capacity - Cardinality(SeatsOf(rows, t))
  BY DEF Served, EventLeft, TicketLeft
<1>6. \A w \in Waiting(new) : w \in Waiting(rows) \ s /\ w \in Places /\ rows[w].ticket \in Tickets
                              /\ new[w].ticket = rows[w].ticket
  BY <1>1 DEF Waiting, PlaceRows
<1>7. ASSUME NEW w \in Waiting(new)
      PROVE  LET before == {p \in s : p < w}
                 same == {p \in before : rows[p].ticket = rows[w].ticket}
             IN  /\ before \in SUBSET s /\ same \in SUBSET on(rows[w].ticket)
                 /\ Cardinality(before) \in Nat /\ Cardinality(same) \in Nat
                 /\ Cardinality(before) <= Cardinality(s)
                 /\ Cardinality(same) <= Cardinality(on(rows[w].ticket))
                 /\ \/ Cardinality(before) >= e.capacity - Cardinality(Seats(rows))
                    \/ Cardinality(same) >= k[rows[w].ticket].capacity
                                              - Cardinality(SeatsOf(rows, rows[w].ticket))
  <2> DEFINE before == {p \in s : p < w}
             same == {p \in before : rows[p].ticket = rows[w].ticket}
  <2>1. before \in SUBSET s /\ same \in SUBSET on(rows[w].ticket)
    OBVIOUS
  <2>2. on(rows[w].ticket) \in SUBSET Places
    BY <1>2
  <2>3. \/ Cardinality(before) >= e.capacity - Cardinality(Seats(rows))
        \/ Cardinality(same) >= k[rows[w].ticket].capacity
                                 - Cardinality(SeatsOf(rows, rows[w].ticket))
    BY <1>6 DEF Served, EventLeft, TicketLeft
  <2> HIDE DEF before, same, on, new
  <2>4. /\ Cardinality(before) \in Nat /\ Cardinality(same) \in Nat
        /\ Cardinality(before) <= Cardinality(s)
        /\ Cardinality(same) <= Cardinality(on(rows[w].ticket))
    BY <1>2, <2>1, <2>2, PartOf
  <2>5. QED
    BY <2>1, <2>3, <2>4 DEF before, same
<1>8. e.capacity \in Nat /\ \A t \in Tickets : k[t].capacity \in Nat
  BY DEF Terms
<1>9. Fit(e, k, new)
  <2> HIDE DEF on, new
  <2>1. QED
    BY <1>3, <1>4, <1>5, <1>8 DEF Fit
<1>10. ASSUME NEW w \in Waiting(new) PROVE FullFor(e, k, new, w)
  <2> DEFINE t == rows[w].ticket
  <2>1. /\ \/ Cardinality(s) >= e.capacity - Cardinality(Seats(rows))
           \/ Cardinality(on(t)) >= k[t].capacity - Cardinality(SeatsOf(rows, t))
        /\ t \in Tickets /\ new[w].ticket = t
    <3> DEFINE before == {q \in s : q < w}
               same == {q \in before : rows[q].ticket = t}
    <3>1. k[t].capacity \in Nat /\ t \in Tickets /\ new[w].ticket = t
      BY <1>6, <1>8
    <3>2. Cardinality(SeatsOf(rows, t)) \in Nat /\ Cardinality(on(t)) \in Nat
      BY <1>4
    <3>3. /\ Cardinality(before) \in Nat /\ Cardinality(same) \in Nat
          /\ Cardinality(before) <= Cardinality(s)
          /\ Cardinality(same) <= Cardinality(on(t))
          /\ \/ Cardinality(before) >= e.capacity - Cardinality(Seats(rows))
             \/ Cardinality(same) >= k[t].capacity - Cardinality(SeatsOf(rows, t))
      BY <1>7
    <3> HIDE DEF on, new, before, same, t
    <3>4. QED
      BY <1>3, <1>8, <3>1, <3>2, <3>3
  <2>2. k[t].capacity \in Nat
    BY <1>8, <2>1
  <2>3. /\ Cardinality(SeatsOf(new, t)) = Cardinality(SeatsOf(rows, t)) + Cardinality(on(t))
        /\ Cardinality(SeatsOf(rows, t)) \in Nat /\ Cardinality(on(t)) \in Nat
    BY <1>4
  <2> HIDE DEF on, new, t
  <2>4. QED
    BY <1>3, <1>8, <2>1, <2>2, <2>3 DEF FullFor
<1>11. InTurn(k, rows, new)
  <2> SUFFICES ASSUME NEW p \in Seats(new) \ Seats(rows), NEW w \in Waiting(new), w < p
               PROVE  /\ new[w].ticket # new[p].ticket
                      /\ Cardinality(SeatsOf(new, new[w].ticket)) >= k[new[w].ticket].capacity
    BY DEF InTurn
  <2> DEFINE before == {q \in s : q < w}
             t == rows[w].ticket
             same == {q \in before : rows[q].ticket = t}
  <2>1. p \in s /\ p \in Places /\ w \in Places /\ new[p].ticket = rows[p].ticket
    BY <1>1, <1>2, <1>6
  <2>2. t \in Tickets /\ new[w].ticket = t /\ k[t].capacity \in Nat
    BY <1>6, <1>8
  <2>3. p \notin before /\ p \notin same
    BY <2>1 DEF Places
  <2>4. /\ before \in SUBSET s /\ same \in SUBSET on(t)
        /\ Cardinality(before) \in Nat /\ Cardinality(same) \in Nat
        /\ Cardinality(same) <= Cardinality(on(t))
        /\ \/ Cardinality(before) >= e.capacity - Cardinality(Seats(rows))
           \/ Cardinality(same) >= k[t].capacity - Cardinality(SeatsOf(rows, t))
    BY <1>7
  <2>5. /\ Cardinality(SeatsOf(new, t)) = Cardinality(SeatsOf(rows, t)) + Cardinality(on(t))
        /\ Cardinality(SeatsOf(rows, t)) \in Nat /\ Cardinality(on(t)) \in Nat
    BY <1>4
  <2>6. before # s
    BY <2>1, <2>3
  <2>7. on(t) \in SUBSET Places
    BY <1>2
  <2>8. rows[p].ticket = t => same # on(t)
    BY <2>1, <2>3
  <2>9. Cardinality(on(t)) <= k[t].capacity - Cardinality(SeatsOf(rows, t))
    BY <1>5, <2>2
  <2> HIDE DEF on, new, before, same, t
  <2>10. Cardinality(before) < Cardinality(s)
    BY <1>2, <2>4, <2>6, PartOf
  <2>11. Cardinality(same) >= k[t].capacity - Cardinality(SeatsOf(rows, t))
    BY <1>3, <1>5, <1>8, <2>4, <2>10
  <2>12. Cardinality(SeatsOf(new, t)) >= k[t].capacity
    BY <2>2, <2>4, <2>5, <2>11
  <2>13. rows[p].ticket # t
    <3> SUFFICES ASSUME rows[p].ticket = t PROVE FALSE
      OBVIOUS
    <3>1. Cardinality(same) < Cardinality(on(t))
      BY <2>4, <2>7, <2>8, PartOf
    <3>2. QED
      BY <2>2, <2>4, <2>5, <2>9, <2>11, <3>1
  <2>14. QED
    BY <2>1, <2>2, <2>12, <2>13
<1>12. QED
  BY <1>9, <1>10, <1>11

\* The rows after the line moved, or stayed where it may not move.
LEMMA Promotion ==
  ASSUME NEW e, NEW k, NEW c \in Early..Ended, NEW rows \in [Places -> PlaceRows],
         Terms(e, k), Fit(e, k, rows), NEW new \in Promoted(e, k, c, rows)
  PROVE  /\ new \in [Places -> PlaceRows]
         /\ Fit(e, k, new)
         /\ Seats(rows) \subseteq Seats(new) /\ Waiting(new) \subseteq Waiting(rows)
         /\ InTurn(k, rows, new)
         /\ LineMoves(e, c) => \A w \in Waiting(new) : FullFor(e, k, new, w)
         /\ ~LineMoves(e, c) => new = rows
         /\ SameTickets(rows, new) /\ Filled(rows, new)
<1>1. CASE LineMoves(e, c) /\ EventLeft(e, rows) > 0
  <2>1. PICK s \in SUBSET Waiting(rows) : Served(e, k, rows, s) /\ new = Seat(e, c, rows, s)
    BY <1>1 DEF Promoted
  <2>2. /\ Fit(e, k, new)
        /\ \A w \in Waiting(new) : FullFor(e, k, new, w)
        /\ InTurn(k, rows, new)
    BY <2>1, ServedInTurn
  <2>3. /\ new \in [Places -> PlaceRows]
        /\ Seats(new) = Seats(rows) \cup s /\ Waiting(new) = Waiting(rows) \ s
        /\ SameTickets(rows, new) /\ Filled(rows, new)
    <3> DEFINE seated == Seat(e, c, rows, s)
    <3>1. /\ seated \in [Places -> PlaceRows]
          /\ Seats(seated) = Seats(rows) \cup s /\ Waiting(seated) = Waiting(rows) \ s
          /\ SameTickets(rows, seated) /\ Filled(rows, seated)
      BY SeatServed
    <3>2. new = seated
      BY <2>1
    <3> HIDE DEF seated
    <3>3. QED
      BY <3>1, <3>2
  <2>4. QED
    BY <1>1, <2>2, <2>3
<1>2. CASE ~(LineMoves(e, c) /\ EventLeft(e, rows) > 0)
  <2>1. new = rows
    BY <1>2 DEF Promoted
  <2>2. InTurn(k, rows, new)
    BY <2>1 DEF InTurn
  <2>3. ASSUME LineMoves(e, c) PROVE \A w \in Waiting(new) : FullFor(e, k, new, w)
    <3>1. Seats(rows) \in SUBSET Places
      BY DEF Seats
    <3>2. Cardinality(Seats(rows)) \in Nat /\ e.capacity \in Nat
      BY <3>1, PartOf DEF Terms
    <3>3. Cardinality(Seats(rows)) >= e.capacity
      BY <1>2, <2>3, <3>2 DEF EventLeft
    <3>4. QED
      BY <2>1, <3>3 DEF FullFor
  <2>4. QED
    BY <2>1, <2>2, <2>3 DEF SameTickets, Filled
<1>3. QED
  BY <1>1, <1>2

\* Holds released: seats are freed, nobody joins or leaves the line, and what is
\* released owes nothing.
LEMMA ReleasedRows ==
  ASSUME place \in [Places -> PlaceRows], HeldOwes
  PROVE  /\ Released \in [Places -> PlaceRows]
         /\ Seats(Released) \subseteq Seats(place) /\ Waiting(Released) = Waiting(place)
         /\ SameTickets(place, Released) /\ Freed(place, Released)
<1>1. ASSUME NEW p \in Places, p \in Releasable
      PROVE  /\ Released[p] \in PlaceRows /\ Released[p].ticket = place[p].ticket
             /\ Released[p].state = "expired" /\ Released[p].charge = "void"
             /\ place[p].state = "held" /\ place[p] # Blank
  <2>1. place[p].state = "held" /\ place[p].charge \in {"due", "void"}
    BY <1>1 DEF Releasable, Lapsed, HeldOwes
  <2>2. place[p] \in Columns /\ place[p].ticket \in Tickets
    BY <2>1 DEF PlaceRows
  <2>3. Released[p] = [place[p] EXCEPT !.state = "expired", !.hold = "none",
                                       !.charge = IF @ = "due" THEN "void" ELSE @]
    BY <1>1 DEF Released
  <2>4. /\ Released[p].state = "expired" /\ Released[p].hold = "none"
        /\ Released[p].charge = "void" /\ Released[p].ticket = place[p].ticket
    BY <2>1, <2>2, <2>3 DEF Columns
  <2>5. Released[p] \in Columns
    BY <2>2, <2>3 DEF Columns, Charges
  <2>6. QED
    BY <2>1, <2>2, <2>4, <2>5 DEF PlaceRows, Blank
<1>2. \A p \in Places : p \notin Releasable => Released[p] = place[p]
  BY DEF Released
<1>3. Released \in [Places -> PlaceRows]
  <2>1. \A p \in Places : Released[p] \in PlaceRows
    BY <1>1, <1>2
  <2>2. QED
    BY <2>1 DEF Released
<1>4. Seats(Released) \subseteq Seats(place) /\ Waiting(Released) = Waiting(place)
  BY <1>1, <1>2 DEF Seats, SeatStates, Waiting
<1>5. QED
  BY <1>1, <1>2, <1>3, <1>4 DEF SameTickets, Freed

\* What the columns' types say of the capacities and the clock.
LEMMA TermsTyped ==
  ASSUME TypeOK
  PROVE  /\ Terms(event, ticket) /\ clock \in Early..Ended
         /\ place \in [Places -> PlaceRows]
         /\ (SeatsFit => Fit(event, ticket, place))
<1>1. event.capacity \in Nat /\ \A t \in Tickets : ticket[t].capacity \in Nat
  BY CapacitiesAssumption DEF TypeOK
<1>2. QED
  BY <1>1 DEF TypeOK, Terms, Fit, SeatsFit

---------------------------------------------------------------------------
(* Types.  The rows of the places, then everything else.                   *)

RestTypeOK ==
  /\ event \in [status : {"draft", "published", "cancelled"}, capacity : Capacities,
                payment : Payments]
  /\ ticket \in [Tickets -> [sale : {"none", "live", "archived"}, capacity : Capacities]]
  /\ clock \in Early..Ended
  /\ nextSeq \in 1..MaxPlaces + 1
  /\ archived \subseteq Members /\ restored \subseteq Members
  /\ online \in BOOLEAN
  /\ tx \in Transactions
  /\ edits \in 0..MaxEdits
RowsTypeOK == place \in [Places -> PlaceRows]

\* The columns' types are the rows' and the rest.
LEMMA TypeSplit == TypeOK <=> RestTypeOK /\ RowsTypeOK
BY DEF TypeOK, RestTypeOK, RowsTypeOK

\* The row of a place just registered.
Arrives(row, t, room) ==
  /\ row \in PlaceRows /\ row.ticket = t
  /\ row.state = "held" => row.charge = "due"
  /\ row.state \in SeatStates \cup {"waitlisted"}
  /\ (row.state \in SeatStates) <=> (room = TRUE)

\* What Newcomer makes of the one who registers is such a row.
LEMMA NewRow ==
  ASSUME NEW m \in Members, NEW t \in Tickets, NEW pays \in BOOLEAN, NEW room \in BOOLEAN,
         pays = TRUE => t \in Priced
  PROVE  Arrives(Newcomer(m, t, pays, room), t, room)
<1> DEFINE row == [Blank EXCEPT !.member = m, !.ticket = t, !.state = "waitlisted"]
<1>1. row \in Columns /\ row.ticket = t /\ row.state = "waitlisted" /\ row.hold = "none"
      /\ row.charge = "none"
  BY DEF Blank, Columns, Charges, LiveStates
<1>2. Newcomer(m, t, pays, room) = IF room THEN Seated(row, pays) ELSE row
  BY DEF Newcomer
<1> HIDE DEF row
<1>3. row \in PlaceRows
  BY <1>1 DEF PlaceRows
<1>4. /\ Seated(row, pays) \in PlaceRows /\ Seated(row, pays).state \in SeatStates
      /\ Seated(row, pays).ticket = t
      /\ Seated(row, pays).state = "held" => Seated(row, pays).charge = "due"
  BY <1>1, <1>3, SeatedRow
<1>5. QED
  BY <1>1, <1>2, <1>3, <1>4 DEF Arrives, SeatStates

\* What the open transaction is.
LEMMA TxTyped ==
  ASSUME RestTypeOK
  PROVE  /\ tx.op = "register" => tx.member \in Members /\ tx.ticket \in Tickets /\ tx.pays \in BOOLEAN
         /\ tx.op = "save" => /\ tx.capacity \in Capacities /\ tx.payment \in Payments
                              /\ tx.clock \in Early..Ended
BY DEF RestTypeOK, Transactions, Free

\* Every step but those on the places' rows.
LEMMA RestTypeStep ==
  ASSUME RestTypeOK, LockKeeps, Next
  PROVE  RestTypeOK'
<1> USE DEF RestTypeOK
<1>1. ASSUME NEW m \in Members, NEW t \in Tickets, NEW desk \in BOOLEAN, StartRegister(m, t, desk)
      PROVE  RestTypeOK'
  <2>1. PaysOnline(t, desk) \in BOOLEAN /\ Lapsed \subseteq Places
    BY DEF PaysOnline, Lapsed
  <2>2. tx' \in Transactions
    BY <1>1, <2>1 DEF StartRegister, Transactions
  <2>3. QED
    BY <1>1, <2>2 DEF StartRegister
<1>2. ASSUME NEW c \in Capacities, NEW pay \in Payments, NEW ck \in Early..Ended, StartSave(c, pay, ck)
      PROVE  RestTypeOK'
  <2>1. Lapsed \subseteq Places
    BY DEF Lapsed
  <2>2. tx' \in Transactions
    BY <1>2, <2>1 DEF StartSave, Transactions
  <2>3. QED
    BY <1>2, <2>2, EditsAssumption DEF StartSave, Edit
<1>3. CASE StartSweep
  <2>1. Lapsed \subseteq Places
    BY DEF Lapsed
  <2>2. tx' \in Transactions
    BY <1>3, <2>1 DEF StartSweep, Transactions
  <2>3. QED
    BY <1>3, <2>2 DEF StartSweep
<1>4. tx' = Free => tx' \in Transactions
  BY DEF Transactions
<1>5. CASE CommitRegister
  <2>1. nextSeq' \in 1..MaxPlaces + 1
    BY <1>5, PlacesAssumption DEF CommitRegister, LockKeeps, Places
  <2>2. QED
    BY <1>4, <1>5, <2>1 DEF CommitRegister, LineMoved
<1>6. CASE CommitSave
  <2>1. event' \in [status : {"draft", "published", "cancelled"}, capacity : Capacities,
                    payment : Payments] /\ clock' \in Early..Ended
    BY <1>6, TxTyped DEF CommitSave
  <2>2. QED
    BY <1>4, <1>6, <2>1 DEF CommitSave, LineMoved
<1>7. CASE CommitSweep
  BY <1>4, <1>7 DEF CommitSweep, LineMoved
<1>8. CASE Abort \/ AlreadyRegistered
  BY <1>4, <1>8, EditsAssumption DEF Abort, Edit, AlreadyRegistered
<1>9. ASSUME NEW t \in Tickets, ArchiveTicket(t) PROVE RestTypeOK'
  BY <1>9, EditsAssumption DEF ArchiveTicket, Edit
<1>10. ASSUME NEW t \in Tickets, NEW c \in Capacities, SaveTicket(t, c) PROVE RestTypeOK'
  BY <1>10, EditsAssumption DEF SaveTicket, Edit, LineMoved
<1>11. CASE PublishEvent
  BY <1>11 DEF PublishEvent
<1>12. CASE CancelEvent
  BY <1>12 DEF CancelEvent
<1>13. ASSUME NEW p \in Places, CancelEventPlace(p) \/ Pay(p) \/ VoidCharge(p) \/ HoldClock(p)
       PROVE  RestTypeOK'
  BY <1>13, EditsAssumption DEF CancelEventPlace, Pay, VoidCharge, HoldClock, Edit, LineMoved
<1>14. ASSUME NEW m \in Members, SetMemberArchived(m) PROVE RestTypeOK'
  BY <1>14, EditsAssumption DEF SetMemberArchived, Edit
<1>15. CASE SwitchOnline
  BY <1>15, EditsAssumption DEF SwitchOnline, Edit
<1>16. CASE Tick
  BY <1>16 DEF Tick, Early, Ended
<1>17. QED
  BY <1>1, <1>2, <1>3, <1>5, <1>6, <1>7, <1>8, <1>9, <1>10, <1>11, <1>12, <1>13, <1>14, <1>15, <1>16
     DEF Next

---------------------------------------------------------------------------
(* Steps in which the line moves: what follows from the rows it starts     *)
(* from (released, given up, or as they were).                             *)

\* The rows the line leaves fit, leave no seat idle and keep everybody's turn.
LEMMA MovedStep ==
  ASSUME RestTypeOK', archived' = archived, NEW rows \in [Places -> PlaceRows],
         Fit(event', ticket', rows), place' \in Promoted(event', ticket', clock', rows)
  PROVE  /\ RowsTypeOK' /\ SeatsFit' /\ NoIdleSeat' /\ InTurn(ticket', rows, place')
         /\ SameTickets(rows, place') /\ Filled(rows, place')
         /\ ~LineMoves(event', clock') => place' = rows
<1>1. Terms(event', ticket') /\ clock' \in Early..Ended
  BY CapacitiesAssumption DEF RestTypeOK, Terms
<1> DEFINE e == event'
           k == ticket'
           c == clock'
           new == place'
<1>2. /\ new \in [Places -> PlaceRows]
      /\ Fit(e, k, new)
      /\ InTurn(k, rows, new)
      /\ LineMoves(e, c) => \A w \in Waiting(new) : FullFor(e, k, new, w)
      /\ ~LineMoves(e, c) => new = rows
      /\ SameTickets(rows, new) /\ Filled(rows, new)
  <2> HIDE DEF e, k, c, new
  <2>1. Terms(e, k) /\ c \in Early..Ended /\ Fit(e, k, rows) /\ new \in Promoted(e, k, c, rows)
    BY <1>1 DEF e, k, c, new
  <2>2. QED
    BY <2>1, Promotion
<1>3. RowsTypeOK'
  BY <1>2 DEF RowsTypeOK
<1>4. SeatsFit'
  BY <1>2 DEF SeatsFit, Fit, Seats, SeatsOf
<1>5. NoIdleSeat'
  BY <1>2 DEF NoIdleSeat, LineMoves, FullFor, Seats, SeatsOf, Waiting
<1>6. QED
  BY <1>2, <1>3, <1>4, <1>5

\* The same for the rest of the invariant, when the rows are the places with some
\* given up or released, and none of it open to a draft.
LEMMA MovedRest ==
  ASSUME PInv, NEW rows, Freed(place, rows), Filled(rows, place'),
         event'.status = event.status, nextSeq' = nextSeq, tx' = Free
  PROVE  PaidPlaceKept' /\ DraftIsEmpty' /\ RestIsBlank' /\ LockKeeps' /\ HeldOwes'
<1>1. PaidPlaceKept'
  BY DEF PInv, PaidPlaceKept, Freed, Filled
<1>2. DraftIsEmpty' /\ RestIsBlank'
  BY DEF PInv, DraftIsEmpty, RestIsBlank, Freed, Filled
<1>3. HeldOwes'
  BY DEF PInv, HeldOwes, Freed, Filled
<1>4. LockKeeps'
  BY DEF LockKeeps, Free
<1>5. QED
  BY <1>1, <1>2, <1>3, <1>4

\* The office's save keeps the invariant: the capacity it sets was compared with
\* the seats under the lock that still holds.
LEMMA SaveStep ==
  ASSUME PInv, RestTypeOK', CommitSave
  PROVE  PInv'
<1>1. /\ tx.op = "save" /\ tx' = Free /\ nextSeq' = nextSeq /\ archived' = archived
      /\ event' = [event EXCEPT !.capacity = tx.capacity, !.payment = tx.payment]
      /\ ticket' = ticket /\ place' \in Promoted(event', ticket', clock', Released)
  BY DEF CommitSave
<1>2. event'.capacity = tx.capacity /\ event'.status = event.status
  BY <1>1, TypeSplit DEF PInv, RestTypeOK
<1>3. /\ Released \in [Places -> PlaceRows] /\ Seats(Released) \subseteq Seats(place)
      /\ SameTickets(place, Released) /\ Freed(place, Released)
  BY ReleasedRows, TermsTyped DEF PInv
<1>4. Fit(event', ticket', Released)
  <2>1. Fit(event', ticket', place)
    BY <1>1, <1>2, TermsTyped DEF PInv, LockKeeps, Fit
  <2>2. Terms(event', ticket')
    BY CapacitiesAssumption DEF RestTypeOK, Terms
  <2>3. QED
    BY <1>3, <2>1, <2>2, FreedFits
<1>5. /\ RowsTypeOK' /\ SeatsFit' /\ NoIdleSeat'
      /\ Filled(Released, place')
  BY <1>1, <1>3, <1>4, MovedStep
<1>6. PaidPlaceKept' /\ DraftIsEmpty' /\ RestIsBlank' /\ LockKeeps' /\ HeldOwes'
  BY <1>1, <1>2, <1>3, <1>5, MovedRest
<1>7. TypeOK'
  BY <1>5 DEF TypeOK, RestTypeOK, RowsTypeOK
<1>8. QED
  BY <1>5, <1>6, <1>7 DEF PInv

\* A sweep that released nothing changes nothing.
LEMMA SweepStep ==
  ASSUME PInv, RestTypeOK', CommitSweep
  PROVE  PInv'
<1>1. /\ tx' = Free /\ nextSeq' = nextSeq /\ archived' = archived
      /\ event' = event /\ ticket' = ticket /\ clock' = clock
  BY DEF CommitSweep
<1>2. /\ Released \in [Places -> PlaceRows] /\ Seats(Released) \subseteq Seats(place)
      /\ SameTickets(place, Released) /\ Freed(place, Released)
  BY ReleasedRows, TermsTyped DEF PInv
<1>3. CASE Releasable = {}
  <2>1. UNCHANGED <<place, restored>>
    BY <1>3 DEF CommitSweep
  <2>2. SeatsFit' /\ NoIdleSeat' /\ PaidPlaceKept' /\ DraftIsEmpty' /\ RestIsBlank' /\ HeldOwes'
    BY <1>1, <2>1 DEF PInv, SeatsFit, NoIdleSeat, PaidPlaceKept, DraftIsEmpty, RestIsBlank, HeldOwes,
                      Seats, SeatsOf, Waiting
  <2>3. LockKeeps'
    BY <1>1 DEF LockKeeps, Free
  <2>4. TypeOK'
    BY <2>1, TypeSplit DEF PInv, TypeOK, RestTypeOK
  <2>5. QED
    BY <2>2, <2>3, <2>4 DEF PInv
<1>4. CASE Releasable # {}
  <2>1. place' \in Promoted(event', ticket', clock', Released)
    BY <1>1, <1>4 DEF CommitSweep
  <2>2. Fit(event', ticket', Released)
    BY <1>1, <1>2, TermsTyped, FreedFits DEF PInv
  <2>3. RowsTypeOK' /\ SeatsFit' /\ NoIdleSeat' /\ Filled(Released, place')
    BY <1>1, <1>2, <2>1, <2>2, MovedStep
  <2>4. PaidPlaceKept' /\ DraftIsEmpty' /\ RestIsBlank' /\ LockKeeps' /\ HeldOwes'
    BY <1>1, <1>2, <2>3, MovedRest
  <2>5. TypeOK'
    BY <2>3 DEF TypeOK, RestTypeOK, RowsTypeOK
  <2>6. QED
    BY <2>3, <2>4, <2>5 DEF PInv
<1>5. QED
  BY <1>3, <1>4

\* A ticket's save keeps the invariant.
LEMMA SaveTicketStep ==
  ASSUME PInv, RestTypeOK', NEW t \in Tickets, NEW c \in Capacities, SaveTicket(t, c)
  PROVE  PInv'
<1>1. /\ tx = Free /\ tx' = Free /\ nextSeq' = nextSeq /\ archived' = archived
      /\ event' = event /\ ticket' = [ticket EXCEPT ![t] = [sale |-> "live", capacity |-> c]]
      /\ c = ticket[t].capacity \/ Cardinality(SeatsOf(place, t)) <= c
      /\ place' \in Promoted(event', ticket', clock', place)
  BY DEF SaveTicket
<1>2. Fit(event', ticket', place)
  <2>1. Fit(event, ticket, place)
    BY TermsTyped DEF PInv
  <2>2. \A u \in Tickets : ticket'[u].capacity = IF u = t THEN c ELSE ticket[u].capacity
    BY <1>1, TypeSplit DEF PInv, RestTypeOK
  <2>3. QED
    BY <1>1, <2>1, <2>2 DEF Fit
<1>3. place \in [Places -> PlaceRows] /\ Freed(place, place)
  BY TermsTyped DEF PInv, Freed
<1>4. RowsTypeOK' /\ SeatsFit' /\ NoIdleSeat' /\ Filled(place, place')
  BY <1>1, <1>2, <1>3, MovedStep
<1>5. PaidPlaceKept' /\ DraftIsEmpty' /\ RestIsBlank' /\ LockKeeps' /\ HeldOwes'
  BY <1>1, <1>3, <1>4, MovedRest
<1>6. TypeOK'
  BY <1>4 DEF TypeOK, RestTypeOK, RowsTypeOK
<1>7. QED
  BY <1>4, <1>5, <1>6 DEF PInv

\* The rows a place that is given up leaves behind.
LEMMA GivenUp ==
  ASSUME PInv, NEW p \in Places, Live(p), NEW end \in Closed(place[p].charge)
  PROVE  LET rows == [place EXCEPT ![p].state = "cancelled", ![p].hold = "none", ![p].charge = end] IN
         /\ rows \in [Places -> PlaceRows]
         /\ Seats(rows) \subseteq Seats(place)
         /\ SameTickets(place, rows) /\ Freed(place, rows)
<1> DEFINE rows == [place EXCEPT ![p].state = "cancelled", ![p].hold = "none", ![p].charge = end]
<1>1. place \in [Places -> PlaceRows] /\ place[p] \in Columns /\ place[p].ticket \in Tickets
  BY TermsTyped DEF PInv, PlaceRows, Live, LiveStates, SeatStates
<1>2. end \in Charges
  BY <1>1 DEF Closed, Charges, Columns
<1>3. /\ rows[p].state = "cancelled" /\ rows[p].hold = "none" /\ rows[p].ticket = place[p].ticket
      /\ rows[p] \in Columns
  BY <1>1, <1>2 DEF Columns
<1>4. \A q \in Places : q # p => rows[q] = place[q]
  BY <1>1
<1>5. rows \in [Places -> PlaceRows]
  <2>1. rows[p] \in PlaceRows
    BY <1>1, <1>3 DEF PlaceRows
  <2>2. \A q \in Places : rows[q] \in PlaceRows
    BY <1>1, <1>4, <2>1
  <2>3. QED
    BY <1>1, <2>2
<1>6. place[p] # Blank
  BY DEF Live, LiveStates, SeatStates, Blank
<1> HIDE DEF rows
<1>7. Seats(rows) \subseteq Seats(place)
  BY <1>3, <1>4 DEF Seats, SeatStates
<1>8. SameTickets(place, rows) /\ Freed(place, rows)
  BY <1>3, <1>4, <1>6 DEF SameTickets, Freed
<1>9. QED
  BY <1>5, <1>7, <1>8 DEF rows

\* A place given up keeps the invariant.
LEMMA CancelPlaceStep ==
  ASSUME PInv, RestTypeOK', NEW p \in Places, CancelEventPlace(p)
  PROVE  PInv'
<1>1. /\ tx' = Free /\ nextSeq' = nextSeq /\ archived' = archived
      /\ event' = event /\ ticket' = ticket /\ clock' = clock /\ Live(p)
  BY DEF CancelEventPlace
<1>2. PICK end \in Closed(place[p].charge) :
        place' \in Promoted(event, ticket, clock,
          [place EXCEPT ![p].state = "cancelled", ![p].hold = "none", ![p].charge = end])
  BY DEF CancelEventPlace
<1> DEFINE rows == [place EXCEPT ![p].state = "cancelled", ![p].hold = "none", ![p].charge = end]
<1>3. /\ rows \in [Places -> PlaceRows] /\ Seats(rows) \subseteq Seats(place)
      /\ SameTickets(place, rows) /\ Freed(place, rows)
  BY <1>1, GivenUp
<1>4. place' \in Promoted(event', ticket', clock', rows)
  BY <1>1, <1>2
<1> HIDE DEF rows
<1>5. Fit(event', ticket', rows)
  BY <1>1, <1>3, TermsTyped, FreedFits DEF PInv
<1>6. RowsTypeOK' /\ SeatsFit' /\ NoIdleSeat' /\ Filled(rows, place')
  BY <1>1, <1>3, <1>4, <1>5, MovedStep
<1>7. PaidPlaceKept' /\ DraftIsEmpty' /\ RestIsBlank' /\ LockKeeps' /\ HeldOwes'
  BY <1>1, <1>3, <1>6, MovedRest
<1>8. TypeOK'
  BY <1>6 DEF TypeOK, RestTypeOK, RowsTypeOK
<1>9. QED
  BY <1>6, <1>7, <1>8 DEF PInv

\* A registration: the rows after the line moved, and the newcomer's own.
LEMMA RegisterRows ==
  ASSUME PInv, CommitRegister
  PROVE  /\ nextSeq \in Places /\ event.status = "published" /\ tx.ticket \in Tickets
         /\ \E rows \in Promoted(event, ticket, clock, Released), new \in PlaceRows :
              /\ place' = [rows EXCEPT ![nextSeq] = new]
              /\ new.ticket = tx.ticket
              /\ new.state = "held" => new.charge = "due"
              /\ \/ new.state \in SeatStates /\ Room(rows, tx.ticket)
                 \/ new.state = "waitlisted" /\ ~Room(rows, tx.ticket)
<1>1. /\ tx.op = "register" /\ nextSeq \in Places /\ event.status = "published"
      /\ tx.pays = TRUE => tx.ticket \in Priced
  BY DEF CommitRegister, PInv, LockKeeps
<1>2. tx.member \in Members /\ tx.ticket \in Tickets /\ tx.pays \in BOOLEAN
  BY <1>1, TypeSplit, TxTyped DEF PInv
<1>3. PICK rows \in Promoted(event, ticket, clock, Released) :
        place' = [rows EXCEPT ![nextSeq] =
                    Newcomer(tx.member, tx.ticket, tx.pays, Room(rows, tx.ticket))]
  BY DEF CommitRegister
<1>4. PICK room \in BOOLEAN : room <=> Room(rows, tx.ticket)
  OBVIOUS
<1> DEFINE new == Newcomer(tx.member, tx.ticket, tx.pays, room)
<1>5. place' = [rows EXCEPT ![nextSeq] = new]
  <2>1. Room(rows, tx.ticket) = room
    BY <1>4 DEF Room
  <2>2. QED
    BY <1>3, <2>1
<1>6. Arrives(new, tx.ticket, room)
  <2>1. PICK m \in Members, t \in Tickets, pays \in BOOLEAN :
          m = tx.member /\ t = tx.ticket /\ pays = tx.pays /\ (pays = TRUE => t \in Priced)
    BY <1>1, <1>2
  <2>2. Arrives(Newcomer(m, t, pays, room), t, room)
    BY <2>1, NewRow
  <2>3. QED
    BY <2>1, <2>2
<1> HIDE DEF new
<1>7. QED
  BY <1>1, <1>2, <1>4, <1>5, <1>6 DEF Arrives, SeatStates

\* A newcomer is seated where the event and the ticket have a seat left, and the
\* line behind them is as it was.
LEMMA NewcomerSeated ==
  ASSUME NEW e, NEW k, NEW rows \in [Places -> PlaceRows], NEW n \in Places, rows[n] = Blank,
         NEW new \in PlaceRows, new.state \in SeatStates, new.ticket \in Tickets,
         Terms(e, k), Fit(e, k, rows),
         EventLeft(e, rows) > 0, TicketLeft(k, rows, new.ticket) > 0,
         NEW after, after = [rows EXCEPT ![n] = new]
  PROVE  /\ Fit(e, k, after)
         /\ Seats(after) = Seats(rows) \cup {n} /\ Waiting(after) = Waiting(rows)
         /\ \A w \in Waiting(rows) : after[w] = rows[w]
         /\ \A w \in Waiting(rows) : FullFor(e, k, rows, w) => FullFor(e, k, after, w)
<1> DEFINE t == new.ticket
<1>1. after[n] = new /\ \A p \in Places : p # n => after[p] = rows[p]
  OBVIOUS
<1>2. n \notin Seats(rows) /\ n \notin Waiting(rows)
  BY DEF Seats, SeatStates, Waiting, Blank
<1>3. Seats(after) = Seats(rows) \cup {n}
  BY <1>1 DEF Seats
<1>4. Waiting(after) = Waiting(rows)
  BY <1>1, <1>2 DEF Waiting, SeatStates
<1>5. \A w \in Waiting(rows) : after[w] = rows[w] /\ rows[w].ticket \in Tickets
  BY <1>1, <1>2 DEF Waiting, PlaceRows
<1>6. ASSUME NEW u
      PROVE  SeatsOf(after, u) = IF u = t THEN SeatsOf(rows, u) \cup {n} ELSE SeatsOf(rows, u)
  <2>1. \A p \in Seats(rows) : after[p].ticket = rows[p].ticket
    BY <1>1, <1>2 DEF Seats
  <2>2. after[n].ticket = t
    BY <1>1
  <2>3. SeatsOf(after, u) = {p \in Seats(rows) : after[p].ticket = u}
                            \cup {p \in {n} : after[p].ticket = u}
    BY <1>3 DEF SeatsOf
  <2>4. {p \in Seats(rows) : after[p].ticket = u} = SeatsOf(rows, u)
    BY <2>1 DEF SeatsOf
  <2>5. {p \in {n} : after[p].ticket = u} = IF u = t THEN {n} ELSE {}
    BY <2>2
  <2>6. QED
    BY <2>3, <2>4, <2>5
<1>7. SeatsOf(after, t) = SeatsOf(rows, t) \cup {n} /\ \A u : u # t => SeatsOf(after, u) = SeatsOf(rows, u)
  BY <1>6
<1>8. /\ Seats(rows) \in SUBSET Places /\ \A u : SeatsOf(rows, u) \in SUBSET Places
      /\ {n} \in SUBSET Places /\ n \notin SeatsOf(rows, t)
  BY <1>2 DEF Seats, SeatsOf
<1>9. Cardinality({n}) = 1
  BY FS_Singleton
<1> HIDE DEF t
<1>10. /\ Cardinality(Seats(after)) = Cardinality(Seats(rows)) + 1
       /\ Cardinality(SeatsOf(after, t)) = Cardinality(SeatsOf(rows, t)) + 1
       /\ Cardinality(Seats(rows)) \in Nat /\ \A u : Cardinality(SeatsOf(rows, u)) \in Nat
  <2>1. Seats(rows) \cap {n} = {} /\ SeatsOf(rows, t) \cap {n} = {}
    BY <1>2, <1>8
  <2>2. QED
    BY <1>3, <1>7, <1>8, <1>9, <2>1, TwoParts, PartOf
<1>11. /\ e.capacity \in Nat /\ \A u \in Tickets : k[u].capacity \in Nat
       /\ e.capacity - Cardinality(Seats(rows)) > 0
       /\ k[t].capacity - Cardinality(SeatsOf(rows, t)) > 0 /\ t \in Tickets
       /\ \A u \in Tickets : Cardinality(SeatsOf(rows, u)) <= k[u].capacity
  BY DEF Terms, EventLeft, TicketLeft, Fit, t
<1>12. Fit(e, k, after)
  <2>1. Cardinality(Seats(after)) <= e.capacity
    BY <1>10, <1>11
  <2>2. ASSUME NEW u \in Tickets PROVE Cardinality(SeatsOf(after, u)) <= k[u].capacity
    <3>1. CASE u = t
      BY <1>10, <1>11, <3>1
    <3>2. CASE u # t
      BY <1>7, <1>11, <3>2
    <3>3. QED
      BY <3>1, <3>2
  <2>3. QED
    BY <2>1, <2>2 DEF Fit
<1>13. ASSUME NEW w \in Waiting(rows), FullFor(e, k, rows, w) PROVE FullFor(e, k, after, w)
  <2> DEFINE u == rows[w].ticket
  <2>1. u \in Tickets /\ after[w].ticket = u
    BY <1>5
  <2>2. Cardinality(Seats(rows)) >= e.capacity \/ Cardinality(SeatsOf(rows, u)) >= k[u].capacity
    BY <1>13 DEF FullFor
  <2> HIDE DEF u
  <2>3. Cardinality(Seats(after)) >= e.capacity \/ Cardinality(SeatsOf(after, u)) >= k[u].capacity
    <3>1. CASE Cardinality(Seats(rows)) >= e.capacity
      BY <1>10, <1>11, <3>1
    <3>2. CASE Cardinality(SeatsOf(rows, u)) >= k[u].capacity /\ u = t
      BY <1>10, <1>11, <3>2
    <3>3. CASE Cardinality(SeatsOf(rows, u)) >= k[u].capacity /\ u # t
      BY <1>7, <3>3
    <3>4. QED
      BY <2>2, <3>1, <3>2, <3>3
  <2>4. QED
    BY <2>1, <2>3 DEF FullFor
<1>14. QED
  BY <1>3, <1>4, <1>5, <1>12, <1>13

\* A newcomer for whom there is no room comes last in line.
LEMMA NewcomerWaits ==
  ASSUME NEW e, NEW k, NEW rows \in [Places -> PlaceRows], NEW n \in Places, rows[n] = Blank,
         NEW new \in PlaceRows, new.state = "waitlisted",
         Fit(e, k, rows), NEW after, after = [rows EXCEPT ![n] = new]
  PROVE  /\ Fit(e, k, after)
         /\ Seats(after) = Seats(rows) /\ Waiting(after) \subseteq Waiting(rows) \cup {n}
         /\ \A w \in Waiting(rows) : FullFor(e, k, rows, w) => FullFor(e, k, after, w)
         /\ \/ Cardinality(Seats(rows)) >= e.capacity
            \/ Cardinality(SeatsOf(rows, new.ticket)) >= k[new.ticket].capacity
            => FullFor(e, k, after, n)
<1>1. after[n] = new /\ \A p \in Places : p # n => after[p] = rows[p]
  OBVIOUS
<1>2. n \notin Seats(rows) /\ n \notin Waiting(rows)
  BY DEF Seats, SeatStates, Waiting, Blank
<1>3. Seats(after) = Seats(rows)
  BY <1>1, <1>2 DEF Seats, SeatStates
<1>4. Waiting(after) \subseteq Waiting(rows) \cup {n}
  BY <1>1 DEF Waiting
<1>5. \A w \in Waiting(rows) : after[w] = rows[w]
  BY <1>1, <1>2 DEF Waiting
<1>6. \A u : SeatsOf(after, u) = SeatsOf(rows, u)
  <2>1. \A p \in Seats(rows) : after[p] = rows[p]
    BY <1>1, <1>2 DEF Seats
  <2>2. QED
    BY <1>3, <2>1 DEF SeatsOf
<1>7. Fit(e, k, after)
  BY <1>3, <1>6 DEF Fit
<1>8. \A w \in Waiting(rows) : FullFor(e, k, rows, w) => FullFor(e, k, after, w)
  BY <1>3, <1>5, <1>6 DEF FullFor
<1>9. \/ Cardinality(Seats(rows)) >= e.capacity
      \/ Cardinality(SeatsOf(rows, new.ticket)) >= k[new.ticket].capacity
      => FullFor(e, k, after, n)
  BY <1>1, <1>3, <1>6 DEF FullFor
<1>10. QED
  BY <1>3, <1>4, <1>7, <1>8, <1>9

\* A registration keeps the invariant.
LEMMA RegisterStep ==
  ASSUME PInv, RestTypeOK', CommitRegister
  PROVE  PInv'
<1>1. /\ nextSeq \in Places /\ event.status = "published" /\ tx.ticket \in Tickets
      /\ event' = event /\ ticket' = ticket /\ clock' = clock /\ archived' = archived
      /\ nextSeq' = nextSeq + 1 /\ tx' = Free
  BY RegisterRows DEF CommitRegister
<1>2. PICK rows \in Promoted(event, ticket, clock, Released), new \in PlaceRows :
        /\ place' = [rows EXCEPT ![nextSeq] = new]
        /\ new.ticket = tx.ticket
        /\ new.state = "held" => new.charge = "due"
        /\ \/ new.state \in SeatStates /\ Room(rows, tx.ticket)
           \/ new.state = "waitlisted" /\ ~Room(rows, tx.ticket)
  BY RegisterRows
<1>3. /\ Terms(event, ticket) /\ clock \in Early..Ended /\ Fit(event, ticket, place)
      /\ Released \in [Places -> PlaceRows] /\ Seats(Released) \subseteq Seats(place)
      /\ SameTickets(place, Released) /\ Freed(place, Released)
  BY TermsTyped, ReleasedRows DEF PInv
<1>4. Fit(event, ticket, Released)
  BY <1>3, FreedFits
<1>5. /\ rows \in [Places -> PlaceRows] /\ Fit(event, ticket, rows)
      /\ LineMoves(event, clock) => \A w \in Waiting(rows) : FullFor(event, ticket, rows, w)
      /\ Filled(Released, rows)
  BY <1>3, <1>4, Promotion
<1>6. rows[nextSeq] = Blank
  <2>1. place[nextSeq] = Blank
    BY <1>1 DEF PInv, RestIsBlank, Places
  <2>2. QED
    BY <1>1, <1>3, <1>5, <2>1 DEF Freed, Filled
<1> DEFINE n == nextSeq
           after == place'
<1>7. /\ after[n] = new /\ \A p \in Places : p # n => after[p] = rows[p]
      /\ after \in [Places -> PlaceRows]
  BY <1>1, <1>2, <1>5
<1>8. /\ Fit(event, ticket, after)
      /\ LineMoves(event, clock) => \A w \in Waiting(after) : FullFor(event, ticket, after, w)
  <2>1. CASE new.state \in SeatStates /\ Room(rows, tx.ticket)
    <3>1. EventLeft(event, rows) > 0 /\ TicketLeft(ticket, rows, new.ticket) > 0
      BY <1>2, <2>1 DEF Room
    <3>2. new.ticket \in Tickets /\ n \in Places /\ after = [rows EXCEPT ![n] = new] /\ rows[n] = Blank
      BY <1>1, <1>2, <1>6
    <3> HIDE DEF n, after
    <3>3. QED
      BY <1>3, <1>5, <2>1, <3>1, <3>2, NewcomerSeated
  <2>2. CASE new.state = "waitlisted" /\ ~Room(rows, tx.ticket)
    <3> DEFINE full == \/ Cardinality(Seats(rows)) >= event.capacity
                       \/ Cardinality(SeatsOf(rows, new.ticket)) >= ticket[new.ticket].capacity
    <3>1. n \in Places /\ after = [rows EXCEPT ![n] = new] /\ rows[n] = Blank
      BY <1>1, <1>2, <1>6
    <3>2. LineMoves(event, clock) => full
      <4> SUFFICES ASSUME LineMoves(event, clock) PROVE full
        OBVIOUS
      <4>1. /\ Seats(rows) \in SUBSET Places /\ SeatsOf(rows, new.ticket) \in SUBSET Places
            /\ new.ticket = tx.ticket /\ new.ticket \in Tickets
        BY <1>1, <1>2 DEF Seats, SeatsOf
      <4>2. /\ Cardinality(Seats(rows)) \in Nat /\ Cardinality(SeatsOf(rows, new.ticket)) \in Nat
            /\ event.capacity \in Nat /\ ticket[new.ticket].capacity \in Nat
        BY <1>3, <4>1, PartOf DEF Terms
      <4>3. CASE EventLeft(event, rows) > 0 /\ TicketLeft(ticket, rows, new.ticket) > 0
        <5>1. ~(clock >= Started) /\ WaitingFor(rows, new.ticket) # {}
          BY <1>3, <2>2, <4>1, <4>3 DEF Room, LineMoves, Started
        <5>2. PICK w \in Waiting(rows) : rows[w].ticket = new.ticket
          BY <5>1 DEF WaitingFor
        <5>3. FullFor(event, ticket, rows, w)
          BY <1>5
        <5>4. QED
          BY <5>2, <5>3 DEF FullFor
      <4>4. CASE ~(EventLeft(event, rows) > 0 /\ TicketLeft(ticket, rows, new.ticket) > 0)
        BY <4>2, <4>4 DEF EventLeft, TicketLeft
      <4>5. QED
        BY <4>3, <4>4
    <3> HIDE DEF n, after, full
    <3>3. /\ Fit(event, ticket, after) /\ Waiting(after) \subseteq Waiting(rows) \cup {n}
          /\ \A w \in Waiting(rows) :
               FullFor(event, ticket, rows, w) => FullFor(event, ticket, after, w)
          /\ full => FullFor(event, ticket, after, n)
      BY <1>5, <2>2, <3>1, NewcomerWaits DEF full
    <3>4. QED
      BY <1>5, <3>2, <3>3
  <2>3. QED
    BY <1>2, <2>1, <2>2
<1>9. TypeOK'
  BY <1>7 DEF TypeOK, RestTypeOK
<1>10. SeatsFit'
  BY <1>1, <1>8 DEF SeatsFit, Fit, Seats, SeatsOf
<1>11. NoIdleSeat'
  BY <1>1, <1>8 DEF NoIdleSeat, LineMoves, FullFor, Seats, SeatsOf, Waiting
<1>12. PaidPlaceKept' /\ HeldOwes'
  <2>1. ASSUME NEW p \in Places
        PROVE  /\ after[p].state = "expired" => after[p].charge = "void"
               /\ after[p].state = "held" => after[p].charge \in {"due", "void"}
    <3>1. CASE p = n
      BY <1>2, <1>7, <3>1 DEF SeatStates
    <3>2. CASE p # n
      <4>1. after[p] = rows[p]
        BY <1>7, <3>2
      <4>2. rows[p].state = "expired" => rows[p].charge = "void"
        BY <1>3, <1>5 DEF PInv, PaidPlaceKept, Freed, Filled
      <4>3. rows[p].state = "held" => rows[p].charge \in {"due", "void"}
        BY <1>3, <1>5 DEF PInv, HeldOwes, Freed, Filled
      <4>4. QED
        BY <4>1, <4>2, <4>3
    <3>3. QED
      BY <3>1, <3>2
  <2>2. QED
    BY <2>1 DEF PaidPlaceKept, HeldOwes
<1>13. DraftIsEmpty'
  BY <1>1 DEF DraftIsEmpty
<1>14. RestIsBlank'
  <2> SUFFICES ASSUME NEW p \in Places, p >= nextSeq + 1 PROVE after[p] = Blank
    BY <1>1 DEF RestIsBlank
  <2>1. p # n /\ p >= nextSeq
    BY <1>1 DEF Places
  <2>2. place[p] = Blank
    BY <2>1 DEF PInv, RestIsBlank
  <2>3. QED
    BY <1>3, <1>5, <1>7, <2>1, <2>2 DEF Freed, Filled
<1>15. LockKeeps'
  BY <1>1 DEF LockKeeps, Free
<1>16. QED
  BY <1>9, <1>10, <1>11, <1>12, <1>13, <1>14, <1>15 DEF PInv

---------------------------------------------------------------------------
(* Steps that leave everybody where they are: on a row's money or its      *)
(* clock, or on no row at all.                                             *)

\* A row that stays seated, or stays where it is, keeps the invariant.
LEMMA RowStep ==
  ASSUME PInv, RestTypeOK', UNCHANGED <<event, ticket, clock, archived, restored, nextSeq, tx>>,
         NEW p \in Places, NEW row \in PlaceRows, place' = [place EXCEPT ![p] = row],
         row.ticket = place[p].ticket, row.member = place[p].member,
         row.state \in SeatStates <=> place[p].state \in SeatStates,
         row.state \notin SeatStates => row.state = place[p].state,
         row.state = "expired" => row.charge = "void",
         row.state = "held" => row.charge \in {"due", "void"},
         place[p] # Blank
  PROVE  PInv'
<1>1. place \in [Places -> PlaceRows]
  BY TermsTyped DEF PInv
<1>2. place'[p] = row /\ \A q \in Places : q # p => place'[q] = place[q]
  BY <1>1
<1>3. TypeOK'
  BY <1>1 DEF TypeOK, RestTypeOK
<1>4. Seats(place') = Seats(place) /\ Waiting(place') = Waiting(place)
  BY <1>2 DEF Seats, SeatStates, Waiting
<1>5. \A q \in Places : place'[q].ticket = place[q].ticket /\ place'[q].member = place[q].member
  BY <1>2
<1>6. \A t : SeatsOf(place', t) = SeatsOf(place, t)
  <2>1. \A q \in Seats(place) : place'[q].ticket = place[q].ticket
    BY <1>5 DEF Seats
  <2>2. QED
    BY <1>4, <2>1 DEF SeatsOf
<1>7. /\ \A t : Seats(place)' = Seats(place') /\ SeatsOf(place, t)' = SeatsOf(place', t)
      /\ Waiting(place)' = Waiting(place')
  BY DEF Seats, SeatsOf, Waiting
<1>8. SeatsFit'
  BY <1>4, <1>6, <1>7 DEF PInv, SeatsFit
<1>9. NoIdleSeat'
  <2>1. \A w \in Waiting(place) : w \in Places
    BY DEF Waiting
  <2>2. ASSUME event.status = "published", clock < Started, NEW w \in Waiting(place')
        PROVE  \/ place'[w].member \in restored
               \/ Cardinality(Seats(place')) >= event.capacity
               \/ Cardinality(SeatsOf(place', place'[w].ticket)) >= ticket[place'[w].ticket].capacity
    <3>1. /\ w \in Waiting(place)
          /\ place'[w].ticket = place[w].ticket /\ place'[w].member = place[w].member
      BY <1>4, <1>5, <2>1
    <3>2. \/ place[w].member \in restored
          \/ Cardinality(Seats(place)) >= event.capacity
          \/ Cardinality(SeatsOf(place, place[w].ticket)) >= ticket[place[w].ticket].capacity
      BY <2>2, <3>1 DEF PInv, NoIdleSeat
    <3>3. QED
      BY <1>4, <1>6, <3>1, <3>2
  <2>3. QED
    BY <2>2 DEF NoIdleSeat, Seats, SeatsOf, Waiting
<1>10. PaidPlaceKept' /\ HeldOwes'
  BY <1>2 DEF PInv, PaidPlaceKept, HeldOwes
<1>11. DraftIsEmpty' /\ RestIsBlank'
  BY <1>2 DEF PInv, DraftIsEmpty, RestIsBlank
<1>12. LockKeeps'
  BY <1>4, <1>7 DEF PInv, LockKeeps
<1>13. QED
  BY <1>3, <1>8, <1>9, <1>10, <1>11, <1>12 DEF PInv

\* Payments, waived charges and a hold's clock keep the invariant.
LEMMA MoneyStep ==
  ASSUME PInv, RestTypeOK', NEW p \in Places, Pay(p) \/ VoidCharge(p) \/ HoldClock(p)
  PROVE  PInv'
<1>1. place \in [Places -> PlaceRows] /\ place[p] \in Columns
  BY TermsTyped DEF PInv, PlaceRows
<1>2. /\ (place[p].state = "held") <=> (place[p].hold # "none")
      /\ place[p].state = "waitlisted" => place[p].charge = "none"
      /\ place[p].state # "none" => place[p].ticket \in Tickets
      /\ place[p].state = "expired" => place[p].charge = "void"
      /\ place[p].state = "held" => place[p].charge \in {"due", "void"}
  BY <1>1 DEF PInv, PlaceRows, PaidPlaceKept, HeldOwes
<1>3. UNCHANGED <<event, ticket, clock, archived, restored, nextSeq, tx>>
  BY DEF Pay, VoidCharge, HoldClock
<1>4. ASSUME Pay(p) PROVE PInv'
  <2> DEFINE row == [place[p] EXCEPT !.charge = "paid",
                                     !.state = IF @ = "held" THEN "confirmed" ELSE @, !.hold = "none"]
  <2>1. place' = [place EXCEPT ![p] = row] /\ place[p].charge = "due"
    BY <1>1, <1>4 DEF Pay
  <2>2. /\ row.charge = "paid" /\ row.hold = "none"
        /\ row.state = (IF place[p].state = "held" THEN "confirmed" ELSE place[p].state)
        /\ row.ticket = place[p].ticket /\ row.member = place[p].member /\ row \in Columns
    BY <1>1 DEF Columns, Charges, LiveStates, SeatStates
  <2> HIDE DEF row
  <2>3. row \in PlaceRows /\ place[p] # Blank /\ row.state # "expired" /\ row.state # "held"
    BY <1>2, <2>1, <2>2 DEF PlaceRows, Blank
  <2>4. QED
    BY <1>3, <2>1, <2>2, <2>3, RowStep DEF SeatStates
<1>5. ASSUME VoidCharge(p) PROVE PInv'
  <2> DEFINE row == [place[p] EXCEPT !.charge = "void"]
  <2>1. place' = [place EXCEPT ![p] = row] /\ place[p].charge \in {"due", "paid"}
    BY <1>1, <1>5 DEF VoidCharge
  <2>2. /\ row.charge = "void" /\ row.hold = place[p].hold /\ row.state = place[p].state
        /\ row.ticket = place[p].ticket /\ row.member = place[p].member /\ row \in Columns
    BY <1>1 DEF Columns, Charges
  <2> HIDE DEF row
  <2>3. row \in PlaceRows /\ place[p] # Blank
    BY <1>2, <2>1, <2>2 DEF PlaceRows, Blank
  <2>4. QED
    BY <1>3, <2>1, <2>2, <2>3, RowStep DEF SeatStates
<1>6. ASSUME HoldClock(p) PROVE PInv'
  <2> DEFINE row == [place[p] EXCEPT !.hold = IF @ = "live" THEN "past" ELSE "lapsed"]
  <2>1. place' = [place EXCEPT ![p] = row] /\ place[p].hold \in {"live", "past"}
    BY <1>1, <1>6 DEF HoldClock
  <2>2. /\ row.hold = (IF place[p].hold = "live" THEN "past" ELSE "lapsed")
        /\ row.charge = place[p].charge /\ row.state = place[p].state
        /\ row.ticket = place[p].ticket /\ row.member = place[p].member /\ row \in Columns
    BY <1>1 DEF Columns
  <2> HIDE DEF row
  <2>3. row \in PlaceRows /\ place[p] # Blank
    BY <1>2, <2>1, <2>2 DEF PlaceRows, Blank
  <2>4. QED
    BY <1>2, <1>3, <2>1, <2>2, <2>3, RowStep DEF SeatStates
<1>7. QED
  BY <1>4, <1>5, <1>6

\* A cancelled event keeps the invariant: nobody is left on it.
LEMMA CancelEventStep ==
  ASSUME PInv, RestTypeOK', CancelEvent
  PROVE  PInv'
<1>1. PICK end \in [Places -> Charges] :
        /\ \A p \in Places : end[p] \in IF Live(p) THEN Closed(place[p].charge) ELSE {place[p].charge}
        /\ place' = [p \in Places |->
             IF Live(p)
             THEN [place[p] EXCEPT !.state = "cancelled", !.hold = "none", !.charge = end[p]]
             ELSE place[p]]
  BY DEF CancelEvent
<1>2. event'.status = "cancelled" /\ event'.capacity = event.capacity
  BY TypeSplit DEF CancelEvent, PInv, RestTypeOK
<1>3. UNCHANGED <<ticket, nextSeq, tx>> /\ tx = Free
  BY DEF CancelEvent
<1>4. place \in [Places -> PlaceRows] /\ Fit(event, ticket, place) /\ Terms(event, ticket)
  BY TermsTyped DEF PInv
<1>5. ASSUME NEW p \in Places, Live(p)
      PROVE  /\ place'[p] \in PlaceRows /\ place'[p].state = "cancelled"
             /\ place'[p].ticket = place[p].ticket /\ place[p] # Blank
  <2>1. place[p] \in Columns /\ place[p].ticket \in Tickets /\ end[p] \in Charges
    BY <1>4, <1>5 DEF PlaceRows, Live, LiveStates, SeatStates
  <2>2. place'[p] = [place[p] EXCEPT !.state = "cancelled", !.hold = "none", !.charge = end[p]]
    BY <1>1, <1>5
  <2>3. /\ place'[p] \in Columns /\ place'[p].state = "cancelled" /\ place'[p].hold = "none"
        /\ place'[p].ticket = place[p].ticket
    BY <2>1, <2>2 DEF Columns
  <2>4. QED
    BY <1>5, <2>1, <2>3 DEF PlaceRows, Live, LiveStates, SeatStates, Blank
<1>6. \A p \in Places : ~Live(p) => place'[p] = place[p]
  BY <1>1
<1>7. place' \in [Places -> PlaceRows]
  <2>1. \A p \in Places : place'[p] \in PlaceRows
    BY <1>4, <1>5, <1>6
  <2>2. QED
    BY <1>1, <2>1
<1>8. TypeOK'
  BY <1>7 DEF TypeOK, RestTypeOK
<1>9. SeatsFit'
  <2>1. Seats(place') = {} /\ SameTickets(place, place')
    BY <1>5, <1>6 DEF Seats, SeatStates, Live, LiveStates, SameTickets
  <2>2. Fit(event, ticket, place')
    BY <1>4, <2>1, FreedFits
  <2>3. QED
    BY <1>2, <1>3, <2>2 DEF SeatsFit, Fit, Seats, SeatsOf
<1>10. NoIdleSeat'
  BY <1>2 DEF NoIdleSeat
<1>11. PaidPlaceKept' /\ HeldOwes' /\ RestIsBlank'
  BY <1>3, <1>5, <1>6 DEF PInv, PaidPlaceKept, HeldOwes, RestIsBlank
<1>12. DraftIsEmpty' /\ LockKeeps'
  BY <1>2, <1>3 DEF DraftIsEmpty, LockKeeps, Free
<1>13. QED
  BY <1>8, <1>9, <1>10, <1>11, <1>12 DEF PInv

\* Nobody's place changes, nor what the event and its tickets hold.
LEMMA StillStep ==
  ASSUME PInv, RestTypeOK', place' = place, nextSeq' = nextSeq,
         event'.capacity = event.capacity, \A t \in Tickets : ticket'[t].capacity = ticket[t].capacity,
         event'.status = "draft" => event.status = "draft",
         NoIdleSeat', LockKeeps'
  PROVE  PInv'
<1>1. TypeOK'
  BY TypeSplit DEF PInv, TypeOK, RestTypeOK, RowsTypeOK
<1>2. SeatsFit'
  BY DEF PInv, SeatsFit, Seats, SeatsOf
<1>3. PaidPlaceKept' /\ HeldOwes' /\ DraftIsEmpty' /\ RestIsBlank'
  BY DEF PInv, PaidPlaceKept, HeldOwes, DraftIsEmpty, RestIsBlank
<1>4. QED
  BY <1>1, <1>2, <1>3 DEF PInv

\* A transaction starts, or ends without a trace.
LEMMA LockStep ==
  ASSUME PInv, RestTypeOK',
         \/ StartSweep \/ Abort \/ AlreadyRegistered
         \/ \E m \in Members, t \in Tickets, desk \in BOOLEAN : StartRegister(m, t, desk)
         \/ \E c \in Capacities, pay \in Payments, ck \in Early..Ended : StartSave(c, pay, ck)
  PROVE  PInv'
<1>1. UNCHANGED <<event, ticket, clock, place, nextSeq, archived, restored>>
  BY DEF StartSweep, Abort, AlreadyRegistered, StartRegister, StartSave
<1>2. NoIdleSeat'
  BY <1>1 DEF PInv, NoIdleSeat, Seats, SeatsOf, Waiting
<1>3. LockKeeps'
  <2>1. CASE StartSweep
    BY <2>1 DEF StartSweep, LockKeeps
  <2>2. CASE Abort \/ AlreadyRegistered
    BY <2>2 DEF Abort, AlreadyRegistered, LockKeeps, Free
  <2>3. ASSUME NEW m \in Members, NEW t \in Tickets, NEW desk \in BOOLEAN, StartRegister(m, t, desk)
        PROVE  LockKeeps'
    BY <2>3 DEF StartRegister, PaysOnline, LockKeeps
  <2>4. ASSUME NEW c \in Capacities, NEW pay \in Payments, NEW ck \in Early..Ended, StartSave(c, pay, ck)
        PROVE  LockKeeps'
    <3>1. Cardinality(Seats(place)) <= c
      BY <2>4 DEF StartSave, PInv, SeatsFit
    <3>2. tx'.op = "save" /\ tx'.capacity = c
      BY <2>4 DEF StartSave
    <3>3. QED
      BY <1>1, <3>1, <3>2 DEF LockKeeps, Seats
  <2>5. QED
    BY <2>1, <2>2, <2>3, <2>4
<1>4. QED
  BY <1>1, <1>2, <1>3, StillStep

\* The office, a client's record and time.
LEMMA WorldStep ==
  ASSUME PInv, RestTypeOK',
         \/ PublishEvent \/ SwitchOnline \/ Tick
         \/ \E t \in Tickets : ArchiveTicket(t)
         \/ \E m \in Members : SetMemberArchived(m)
  PROVE  PInv'
<1>1. place' = place /\ nextSeq' = nextSeq /\ tx' = tx
  BY DEF PublishEvent, SwitchOnline, Tick, ArchiveTicket, SetMemberArchived
<1>2. CASE PublishEvent
  <2>1. /\ event'.status = "published" /\ event'.capacity = event.capacity /\ ticket' = ticket
        /\ event.status = "draft" /\ tx = Free
    BY <1>2, TypeSplit DEF PublishEvent, PInv, RestTypeOK
  <2>2. Waiting(place)' = {}
    BY <1>1, <2>1 DEF Waiting, PInv, DraftIsEmpty, Blank
  <2>3. NoIdleSeat' /\ LockKeeps'
    BY <1>1, <2>1, <2>2 DEF NoIdleSeat, LockKeeps, Free
  <2>4. QED
    BY <1>1, <2>1, <2>3, StillStep
<1>3. CASE SwitchOnline
  <2>1. UNCHANGED <<event, ticket, clock, archived, restored>>
    BY <1>3 DEF SwitchOnline
  <2>2. NoIdleSeat' /\ LockKeeps'
    BY <1>1, <2>1 DEF PInv, NoIdleSeat, LockKeeps, Seats, SeatsOf, Waiting
  <2>3. QED
    BY <1>1, <2>1, <2>2, StillStep
<1>4. CASE Tick
  <2>1. UNCHANGED <<event, ticket, archived, restored>> /\ clock' = clock + 1 /\ clock \in Int
    BY <1>4, TypeSplit DEF Tick, PInv, RestTypeOK
  <2>2. clock' < Started => clock < Started
    BY <2>1 DEF Started
  <2>3. NoIdleSeat' /\ LockKeeps'
    BY <1>1, <2>1, <2>2 DEF PInv, NoIdleSeat, LockKeeps, Seats, SeatsOf, Waiting
  <2>4. QED
    BY <1>1, <2>1, <2>3, StillStep
<1>5. ASSUME NEW t \in Tickets, ArchiveTicket(t) PROVE PInv'
  <2>1. /\ UNCHANGED <<event, clock, archived, restored>>
        /\ \A u \in Tickets : ticket'[u].capacity = ticket[u].capacity
    BY <1>5, TypeSplit DEF ArchiveTicket, PInv, RestTypeOK
  <2>2. \A w \in Waiting(place) : place[w].ticket \in Tickets
    BY TermsTyped DEF PInv, Waiting, PlaceRows
  <2>3. NoIdleSeat' /\ LockKeeps'
    BY <1>1, <2>1, <2>2 DEF PInv, NoIdleSeat, LockKeeps, Seats, SeatsOf, Waiting
  <2>4. QED
    BY <1>1, <2>1, <2>3, StillStep
<1>6. ASSUME NEW m \in Members, SetMemberArchived(m) PROVE PInv'
  <2>1. /\ UNCHANGED <<event, ticket, clock>>
        /\ archived' = (IF m \in archived THEN archived \ {m} ELSE archived \cup {m})
        /\ restored' = (IF m \in archived THEN restored \cup {m} ELSE restored)
    BY <1>6 DEF SetMemberArchived
  <2>2. \A w \in Waiting(place)' : w \in Waiting(place) \/ place[w].member \in restored'
    BY <1>1, <2>1 DEF Waiting
  <2>3. NoIdleSeat' /\ LockKeeps'
    BY <1>1, <2>1, <2>2 DEF PInv, NoIdleSeat, LockKeeps, Seats, SeatsOf
  <2>4. QED
    BY <1>1, <2>1, <2>3, StillStep
<1>7. QED
  BY <1>2, <1>3, <1>4, <1>5, <1>6

---------------------------------------------------------------------------
(* The invariant.                                                          *)

\* Nobody is on an event that is being drafted.
LEMMA PInvInit == Init => PInv
<1> SUFFICES ASSUME Init PROVE PInv
  OBVIOUS
<1>1. \A p \in Places : place[p] = Blank
  BY DEF Init
<1>2. Blank \in PlaceRows
  BY DEF Blank, PlaceRows, Columns, Charges, LiveStates
<1>3. place \in [Places -> PlaceRows]
  BY <1>1, <1>2 DEF Init
<1>4. TypeOK
  <2>1. event \in [status : {"draft", "published", "cancelled"}, capacity : Capacities,
                   payment : Payments]
    BY DEF Init
  <2>2. ticket \in [Tickets -> [sale : {"none", "live", "archived"}, capacity : Capacities]]
    BY DEF Init
  <2>3. /\ clock \in Early..Ended /\ nextSeq \in 1..MaxPlaces + 1 /\ edits \in 0..MaxEdits
        /\ archived \subseteq Members /\ restored \subseteq Members /\ online \in BOOLEAN
        /\ tx \in Transactions
    BY PlacesAssumption, EditsAssumption DEF Init, Early, Ended, Transactions
  <2>4. QED
    BY <1>3, <2>1, <2>2, <2>3 DEF TypeOK
<1>5. Seats(place) = {} /\ Waiting(place) = {} /\ \A t : SeatsOf(place, t) = {}
  BY <1>1 DEF Seats, SeatStates, SeatsOf, Waiting, Blank
<1>6. SeatsFit
  <2>1. Cardinality({}) = 0
    BY FS_EmptySet
  <2>2. event.capacity \in Nat /\ \A t \in Tickets : ticket[t].capacity \in Nat
    BY <1>4, TermsTyped DEF Terms
  <2>3. QED
    BY <1>5, <2>1, <2>2 DEF SeatsFit
<1>7. NoIdleSeat
  BY <1>5 DEF NoIdleSeat
<1>8. PaidPlaceKept /\ HeldOwes
  BY <1>1 DEF PaidPlaceKept, HeldOwes, Blank
<1>9. DraftIsEmpty /\ RestIsBlank
  BY <1>1 DEF DraftIsEmpty, RestIsBlank
<1>10. LockKeeps
  BY DEF Init, LockKeeps, Free
<1>11. QED
  BY <1>4, <1>6, <1>7, <1>8, <1>9, <1>10 DEF PInv

\* Every step keeps the invariant.
LEMMA PInvStep == PInv /\ [Next]_vars => PInv'
<1> SUFFICES ASSUME PInv, [Next]_vars PROVE PInv'
  OBVIOUS
<1>1. CASE UNCHANGED vars
  <2>1. /\ UNCHANGED <<event, ticket, clock, place, nextSeq, archived>>
        /\ UNCHANGED <<online, tx, edits, restored>>
    BY <1>1 DEF vars
  <2>2. TypeOK' /\ SeatsFit' /\ NoIdleSeat'
    BY <2>1 DEF PInv, TypeOK, SeatsFit, NoIdleSeat, Seats, SeatsOf, Waiting
  <2>3. PaidPlaceKept' /\ DraftIsEmpty' /\ RestIsBlank' /\ LockKeeps' /\ HeldOwes'
    BY <2>1 DEF PInv, PaidPlaceKept, DraftIsEmpty, RestIsBlank, LockKeeps, HeldOwes, Seats
  <2>4. QED
    BY <2>2, <2>3 DEF PInv
<1>2. CASE Next
  <2>1. RestTypeOK'
    BY <1>2, TypeSplit, RestTypeStep DEF PInv
  <2>2. CASE \/ StartSweep \/ Abort \/ AlreadyRegistered
             \/ \E m \in Members, t \in Tickets, desk \in BOOLEAN : StartRegister(m, t, desk)
             \/ \E c \in Capacities, pay \in Payments, ck \in Early..Ended : StartSave(c, pay, ck)
    BY <2>1, <2>2, LockStep
  <2>3. CASE CommitRegister
    BY <2>1, <2>3, RegisterStep
  <2>4. CASE CommitSave
    BY <2>1, <2>4, SaveStep
  <2>5. CASE CommitSweep
    BY <2>1, <2>5, SweepStep
  <2>6. ASSUME NEW t \in Tickets, NEW c \in Capacities, SaveTicket(t, c) PROVE PInv'
    BY <2>1, <2>6, SaveTicketStep
  <2>7. ASSUME NEW p \in Places, CancelEventPlace(p) PROVE PInv'
    BY <2>1, <2>7, CancelPlaceStep
  <2>8. ASSUME NEW p \in Places, Pay(p) \/ VoidCharge(p) \/ HoldClock(p) PROVE PInv'
    BY <2>1, <2>8, MoneyStep
  <2>9. CASE CancelEvent
    BY <2>1, <2>9, CancelEventStep
  <2>10. CASE \/ PublishEvent \/ SwitchOnline \/ Tick
              \/ \E t \in Tickets : ArchiveTicket(t)
              \/ \E m \in Members : SetMemberArchived(m)
    BY <2>1, <2>10, WorldStep
  <2>11. QED
    BY <1>2, <2>2, <2>3, <2>4, <2>5, <2>6, <2>7, <2>8, <2>9, <2>10 DEF Next
<1>3. QED
  BY <1>1, <1>2

\* In every reachable state the invariant holds.
THEOREM Invariant == Spec => []PInv
BY PInvInit, PInvStep, PTL DEF Spec

\* Every statement of these transactions passes the CHECKs of its tables.
THEOREM TypeCorrect == Spec => []TypeOK
<1>1. PInv => TypeOK
  BY DEF PInv
<1>2. QED
  BY <1>1, Invariant, PTL

\* Over-booking is impossible: no more seats are ever taken than the event, or
\* any ticket of it, has.
THEOREM NeverOverbooked == Spec => []SeatsFit
<1>1. PInv => SeatsFit
  BY DEF PInv
<1>2. QED
  BY <1>1, Invariant, PTL

\* A freed seat has gone to the line by the end of the transaction that freed it.
THEOREM FreedSeatGoesToTheLine == Spec => []NoIdleSeat
<1>1. PInv => NoIdleSeat
  BY DEF PInv
<1>2. QED
  BY <1>1, Invariant, PTL

\* A place with money on it is never released.
THEOREM PaidPlaceStays == Spec => []PaidPlaceKept
<1>1. PInv => PaidPlaceKept
  BY DEF PInv
<1>2. QED
  BY <1>1, Invariant, PTL

---------------------------------------------------------------------------
(* The loop and the sets it seats (LoopServes).  What the recursion of Loop *)
(* yields is found by a least counterexample: a set of naturals that is not *)
(* empty has a least element.                                               *)

\* Every set of naturals but the empty one has a least element.
LEMMA Least ==
  ASSUME NEW T \in SUBSET Nat, T # {}
  PROVE  \E x \in T : \A y \in T : x <= y
<1>1. PICK x \in T : \A y \in T : ~ (<<y, x>> \in OpToRel(<, Nat))
  BY NatLessThanWellFounded, WFMin
<1>2. ASSUME NEW y \in T PROVE x <= y
  <2>1. ~ (y < x)
    BY <1>1 DEF OpToRel
  <2>2. QED
    BY <2>1
<1>3. QED
  BY <1>2

\* Those of s whose turn came before w's.
Before(s, w) == {p \in s : p < w}
Until(s, w) == {p \in s : p <= w}

\* The people s of the line among the first n places are those the loop takes.
Greedy(e, k, rows, s, n) ==
  /\ s \subseteq Until(Waiting(rows), n)
  /\ \A w \in 1..n : w \in s <=> Takes(e, k, rows, w, Before(s, w))

\* There is such a set for each n: the least n without one has a predecessor with one.
LEMMA GreedyExists ==
  ASSUME NEW e, NEW k, NEW rows
  PROVE  \A n \in 0..MaxPlaces : \E s : Greedy(e, k, rows, s, n)
<1> DEFINE T == {n \in 0..MaxPlaces : ~ \E s : Greedy(e, k, rows, s, n)}
<1>1. SUFFICES ASSUME T # {} PROVE FALSE
  OBVIOUS
<1>2. PICK n \in T : \A y \in T : n <= y
  <2>1. T \in SUBSET Nat
    BY PlacesAssumption
  <2> HIDE DEF T
  <2>2. QED
    BY <1>1, <2>1, Least
<1>3. n \in 0..MaxPlaces /\ ~ \E s : Greedy(e, k, rows, s, n)
  OBVIOUS
<1>4. Greedy(e, k, rows, {}, 0)
  BY DEF Greedy
<1>5. n # 0
  BY <1>3, <1>4
<1>6. n - 1 \in 0..MaxPlaces /\ n \in Nat /\ n \in Places
  BY <1>3, <1>5, PlacesAssumption DEF Places
<1>7. PICK s : Greedy(e, k, rows, s, n - 1)
  BY <1>2, <1>6
<1>8. s \subseteq Places /\ \A p \in s : p <= n - 1
  BY <1>7 DEF Greedy, Until, Waiting
<1> DEFINE new == IF Takes(e, k, rows, n, s) THEN s \cup {n} ELSE s
<1>9. /\ \A w \in 1..(n - 1) : Before(new, w) = Before(s, w) /\ (w \in new <=> w \in s)
      /\ Before(new, n) = s
      /\ (n \in new) <=> Takes(e, k, rows, n, s)
  <2>1. s \subseteq Nat /\ n \notin s
    BY <1>6, <1>8 DEF Places
  <2>2. new \subseteq s \cup {n} /\ s \subseteq new
    OBVIOUS
  <2>3. ASSUME NEW w \in 1..(n - 1)
        PROVE  Before(new, w) = Before(s, w) /\ (w \in new <=> w \in s)
    <3>1. ~ (n < w) /\ w # n
      BY <1>6
    <3>2. QED
      BY <2>2, <3>1 DEF Before
  <2>4. Before(new, n) = s
    <3>1. \A p \in s : p < n
      BY <1>6, <1>8, <2>1
    <3>2. ~ (n < n)
      BY <1>6
    <3>3. QED
      BY <2>2, <3>1, <3>2 DEF Before
  <2>5. QED
    BY <2>1, <2>3, <2>4
<1>10. new \subseteq Until(Waiting(rows), n)
  BY <1>6, <1>7, <1>8 DEF Greedy, Until, Takes, Places
<1> HIDE DEF new
<1>11. ASSUME NEW w \in 1..n PROVE w \in new <=> Takes(e, k, rows, w, Before(new, w))
  <2>1. CASE w = n
    BY <1>9, <2>1
  <2>2. CASE w \in 1..(n - 1)
    BY <1>7, <1>9, <2>2 DEF Greedy
  <2>3. QED
    BY <1>6, <2>1, <2>2
<1>12. Greedy(e, k, rows, new, n)
  BY <1>10, <1>11 DEF Greedy
<1>13. QED
  BY <1>3, <1>12

\* The loop computes it: any function that obeys the recursion has, at n, those
\* of the set who are among the first n places.
LEMMA LoopIsGreedy ==
  ASSUME NEW e, NEW k, NEW rows
  PROVE  Greedy(e, k, rows, Loop(e, k, rows), MaxPlaces)
<1> DEFINE body(g, n) ==
             IF n = 0 THEN {}
             ELSE IF Takes(e, k, rows, n, g[n - 1]) THEN g[n - 1] \cup {n}
             ELSE g[n - 1]
           f == CHOOSE g : g = [n \in 0..MaxPlaces |-> body(g, n)]
<1>1. Loop(e, k, rows) = f[MaxPlaces]
  BY DEF Loop
<1>2. PICK s : Greedy(e, k, rows, s, MaxPlaces)
  BY GreedyExists, PlacesAssumption
<1>3. s \subseteq Places /\ MaxPlaces \in Nat
  BY <1>2, PlacesAssumption DEF Greedy, Until, Waiting
<1> DEFINE h == [n \in 0..MaxPlaces |-> Until(s, n)]
<1>4. Until(s, 0) = {} /\ Until(s, MaxPlaces) = s
  <2>1. \A p \in s : ~ (p <= 0) /\ p <= MaxPlaces
    BY <1>3 DEF Places
  <2>2. QED
    BY <2>1 DEF Until
<1>5. ASSUME NEW n \in 1..MaxPlaces
      PROVE  /\ Until(s, n - 1) = Before(s, n)
             /\ Until(s, n) = IF n \in s THEN Before(s, n) \cup {n} ELSE Before(s, n)
  <2>1. \A p \in s : p \in Int /\ (p <= n - 1 <=> p < n) /\ (p <= n <=> (p < n \/ p = n))
    BY <1>3 DEF Places
  <2>2. QED
    BY <2>1 DEF Until, Before
<1>6. ASSUME NEW g, NEW n \in 0..MaxPlaces, n # 0 => g[n - 1] = Until(s, n - 1)
      PROVE  body(g, n) = Until(s, n)
  <2>1. CASE n = 0
    BY <1>4, <2>1
  <2>2. CASE n # 0
    <3>1. n \in 1..MaxPlaces
      BY <1>3, <2>2
    <3>2. g[n - 1] = Before(s, n)
      BY <1>5, <1>6, <2>2, <3>1
    <3>3. n \in s <=> Takes(e, k, rows, n, Before(s, n))
      BY <1>2, <3>1 DEF Greedy
    <3>4. QED
      BY <1>5, <2>2, <3>1, <3>2, <3>3
  <2>3. QED
    BY <2>1, <2>2
<1>7. h = [n \in 0..MaxPlaces |-> body(h, n)]
  <2>1. ASSUME NEW n \in 0..MaxPlaces, n # 0 PROVE h[n - 1] = Until(s, n - 1)
    BY <1>3, <2>1
  <2>2. \A n \in 0..MaxPlaces : body(h, n) = Until(s, n)
    <3> HIDE DEF h, body
    <3>1. QED
      BY <1>6, <2>1
  <2>3. QED
    BY <2>2
<1>8. f = [n \in 0..MaxPlaces |-> body(f, n)]
  <2> HIDE DEF h, body
  <2>1. QED
    BY <1>7
<1> HIDE DEF body, f
<1>9. f[MaxPlaces] = Until(s, MaxPlaces)
  <2> DEFINE T == {n \in 0..MaxPlaces : f[n] # Until(s, n)}
  <2>1. SUFFICES ASSUME T # {} PROVE FALSE
    <3>1. MaxPlaces \in 0..MaxPlaces
      BY <1>3
    <3>2. QED
      BY <3>1
  <2>2. PICK n \in T : \A y \in T : n <= y
    <3>1. T \in SUBSET Nat
      OBVIOUS
    <3> HIDE DEF T
    <3>2. QED
      BY <2>1, <3>1, Least
  <2>3. n \in 0..MaxPlaces /\ f[n] # Until(s, n)
    OBVIOUS
  <2>4. n # 0 => f[n - 1] = Until(s, n - 1)
    <3>1. n # 0 => n - 1 \in 0..MaxPlaces /\ ~ (n <= n - 1)
      BY <1>3, <2>3
    <3>2. QED
      BY <2>2, <3>1
  <2>5. f[n] = body(f, n)
    BY <1>8, <2>3
  <2>6. QED
    BY <1>6, <2>3, <2>4, <2>5
<1>10. QED
  BY <1>1, <1>2, <1>4, <1>9

\* No other set is seated so: the first on whom two such sets differ would have
\* found the same seats taken in both.
LEMMA GreedyOnce ==
  ASSUME NEW e, NEW k, NEW rows, NEW s, NEW z,
         Greedy(e, k, rows, s, MaxPlaces), Greedy(e, k, rows, z, MaxPlaces)
  PROVE  s = z
<1> DEFINE T == (s \ z) \cup (z \ s)
<1>1. SUFFICES ASSUME T # {} PROVE FALSE
  OBVIOUS
<1>2. s \subseteq Places /\ z \subseteq Places /\ T \in SUBSET Nat
  BY PlacesAssumption DEF Greedy, Until, Waiting, Places
<1>3. PICK w \in T : \A y \in T : w <= y
  <2> HIDE DEF T
  <2>1. QED
    BY <1>1, <1>2, Least
<1>4. w \in 1..MaxPlaces /\ (w \in s <=> w \notin z)
  BY <1>2 DEF Places
<1>5. \A p \in Places : p < w => (p \in s <=> p \in z)
  <2>1. \A p \in Places : p < w => ~ (w <= p)
    BY <1>4 DEF Places
  <2>2. QED
    BY <1>3, <2>1
<1>6. Before(s, w) = Before(z, w)
  BY <1>2, <1>5 DEF Before
<1>7. QED
  BY <1>4, <1>6 DEF Greedy

---------------------------------------------------------------------------
(* The loop's set is the one that Served describes.                        *)

TicketsTyped(rows) == \A p \in Waiting(rows) : rows[p].ticket \in Tickets
OfTicket(rows, s, t) == {p \in s : rows[p].ticket = t}

\* What is left is a number.
LEMMA LeftTyped ==
  ASSUME NEW e, NEW k, Terms(e, k), NEW rows
  PROVE  /\ EventLeft(e, rows) \in Int
         /\ \A t \in Tickets : TicketLeft(k, rows, t) \in Int
<1>1. /\ Seats(rows) \in SUBSET Places
      /\ \A t : SeatsOf(rows, t) \in SUBSET Places
  BY DEF Seats, SeatsOf
<1>2. /\ Cardinality(Seats(rows)) \in Nat
      /\ \A t : Cardinality(SeatsOf(rows, t)) \in Nat
  BY <1>1, PartOf
<1>3. QED
  BY <1>2 DEF Terms, EventLeft, TicketLeft

\* Whom Served describes, the loop takes: each of them leaves out of the set at
\* least themselves, so there was room when their turn came.
LEMMA ServedIsGreedy ==
  ASSUME NEW e, NEW k, Terms(e, k), NEW rows, TicketsTyped(rows),
         NEW s \in SUBSET Waiting(rows), Served(e, k, rows, s)
  PROVE  Greedy(e, k, rows, s, MaxPlaces)
<1>1. Waiting(rows) \in SUBSET Places /\ s \in SUBSET Places
  BY DEF Waiting
<1>2. Until(Waiting(rows), MaxPlaces) = Waiting(rows)
  <2>1. \A p \in Waiting(rows) : p <= MaxPlaces
    BY <1>1, PlacesAssumption DEF Places
  <2>2. QED
    BY <2>1 DEF Until
<1>3. ASSUME NEW w \in 1..MaxPlaces
      PROVE  w \in s <=> Takes(e, k, rows, w, Before(s, w))
  <2> DEFINE t == rows[w].ticket
             b == Before(s, w)
             same == OfTicket(rows, b, t)
             mine == OfTicket(rows, s, t)
  <2>1. b \in SUBSET s /\ same \in SUBSET mine /\ mine \in SUBSET Places
    BY <1>1 DEF Before, OfTicket
  <2>2. w \notin b
    BY DEF Before
  <2>3. /\ Cardinality(b) \in Nat /\ Cardinality(s) \in Nat
        /\ Cardinality(same) \in Nat /\ Cardinality(mine) \in Nat
        /\ b # s => Cardinality(b) < Cardinality(s)
        /\ same # mine => Cardinality(same) < Cardinality(mine)
    <3> HIDE DEF b, same, mine
    <3>1. QED
      BY <1>1, <2>1, PartOf
  <2>4. Takes(e, k, rows, w, b) <=>
          /\ w \in Waiting(rows)
          /\ Cardinality(b) < EventLeft(e, rows)
          /\ Cardinality(same) < TicketLeft(k, rows, t)
    BY DEF Takes, OfTicket
  <2>5. CASE w \in s
    <3>1. w \in Waiting(rows) /\ t \in Tickets
      BY <2>5 DEF TicketsTyped
    <3>2. b # s /\ same # mine
      BY <2>2, <2>5 DEF OfTicket
    <3>3. Cardinality(s) <= EventLeft(e, rows) /\ Cardinality(mine) <= TicketLeft(k, rows, t)
      BY <3>1 DEF Served, OfTicket
    <3>4. EventLeft(e, rows) \in Int /\ TicketLeft(k, rows, t) \in Int
      BY <3>1, LeftTyped
    <3> HIDE DEF b, same, mine, t
    <3>5. Cardinality(b) < EventLeft(e, rows) /\ Cardinality(same) < TicketLeft(k, rows, t)
      BY <2>3, <3>2, <3>3, <3>4
    <3>6. QED
      BY <2>4, <2>5, <3>1, <3>5 DEF b
  <2>6. CASE w \in Waiting(rows) \ s
    <3>1. t \in Tickets
      BY <2>6 DEF TicketsTyped
    <3>2. \/ Cardinality(b) >= EventLeft(e, rows)
          \/ Cardinality(same) >= TicketLeft(k, rows, t)
      BY <2>6 DEF Served, Before, OfTicket
    <3>3. EventLeft(e, rows) \in Int /\ TicketLeft(k, rows, t) \in Int
      BY <3>1, LeftTyped
    <3> HIDE DEF b, same, mine, t
    <3>4. ~ (Cardinality(b) < EventLeft(e, rows) /\ Cardinality(same) < TicketLeft(k, rows, t))
      BY <2>3, <3>2, <3>3
    <3>5. QED
      BY <2>4, <2>6, <3>4 DEF b
  <2>7. CASE w \notin Waiting(rows)
    BY <2>4, <2>7
  <2>8. QED
    BY <2>5, <2>6, <2>7
<1>4. QED
  BY <1>2, <1>3 DEF Greedy

\* A set of places that is not empty has a last one.
LEMMA Last ==
  ASSUME NEW A \in SUBSET Places, A # {}
  PROVE  \E x \in A : \A y \in A : y <= x
<1> DEFINE T == {n \in Nat : \A y \in A : y <= n}
<1>1. MaxPlaces \in T /\ T \in SUBSET Nat
  BY PlacesAssumption DEF Places
<1>2. PICK n \in T : \A m \in T : n <= m
  <2> HIDE DEF T
  <2>1. QED
    BY <1>1, Least
<1>3. n \in Nat /\ \A y \in A : y <= n
  OBVIOUS
<1>4. SUFFICES ASSUME n \notin A PROVE FALSE
  BY <1>3
<1>5. \A y \in A : y <= n - 1 /\ n # 0
  BY <1>3, <1>4, PlacesAssumption DEF Places
<1>6. n - 1 \in T
  BY <1>3, <1>5
<1>7. QED
  BY <1>2, <1>3, <1>6

\* Each of a set found room after those of it before them: so did the last one,
\* and the set has no more than there was room for.
LEMMA LastFits ==
  ASSUME NEW A \in SUBSET Places, NEW n \in Int, n >= 0,
         \A w \in A : Cardinality(Before(A, w)) < n
  PROVE  Cardinality(A) <= n
<1>1. CASE A = {}
  BY <1>1, FS_EmptySet
<1>2. CASE A # {}
  <2>1. PICK x \in A : \A y \in A : y <= x
    BY <1>2, Last
  <2>2. IsFiniteSet(Before(A, x)) /\ x \notin Before(A, x)
    <3>1. IsFiniteSet(Places)
      BY PlacesAssumption, FS_Interval DEF Places
    <3>2. Before(A, x) \subseteq Places
      BY DEF Before
    <3> ~ (x < x)
      BY DEF Places
    <3>3. QED
      BY <3>1, <3>2, FS_Subset DEF Before
  <2>3. A = Before(A, x) \cup {x}
    <3>1. \A y \in A : y < x \/ y = x
      BY <2>1 DEF Places
    <3>2. QED
      BY <3>1 DEF Before
  <2>4. Cardinality(A) = Cardinality(Before(A, x)) + 1 /\ Cardinality(Before(A, x)) \in Nat
    BY <2>2, <2>3, FS_AddElement, FS_CardinalityType
  <2>5. QED
    BY <2>4
<1>3. QED
  BY <1>1, <1>2

\* Whom the loop takes, Served describes, as long as no capacity is below the
\* seats that are taken.
LEMMA GreedyIsServed ==
  ASSUME NEW e, NEW k, Terms(e, k), NEW rows, TicketsTyped(rows),
         EventLeft(e, rows) >= 0, \A t \in Tickets : TicketLeft(k, rows, t) >= 0,
         NEW s, Greedy(e, k, rows, s, MaxPlaces)
  PROVE  s \in SUBSET Waiting(rows) /\ Served(e, k, rows, s)
<1>1. s \subseteq Waiting(rows) /\ Waiting(rows) \subseteq Places
  BY DEF Greedy, Until, Waiting
<1>2. \A w \in Waiting(rows) : w \in s <=> Takes(e, k, rows, w, Before(s, w))
  BY <1>1 DEF Greedy, Places
<1>3. Cardinality(s) <= EventLeft(e, rows)
  <2>1. \A w \in s : Cardinality(Before(s, w)) < EventLeft(e, rows)
    BY <1>1, <1>2 DEF Takes
  <2>2. QED
    BY <1>1, <2>1, LeftTyped, LastFits
<1>4. ASSUME NEW t \in Tickets
      PROVE  Cardinality(OfTicket(rows, s, t)) <= TicketLeft(k, rows, t)
  <2>1. \A w \in OfTicket(rows, s, t) :
          Before(OfTicket(rows, s, t), w) = OfTicket(rows, Before(s, w), rows[w].ticket)
    BY DEF Before, OfTicket
  <2>2. \A w \in OfTicket(rows, s, t) :
          Cardinality(OfTicket(rows, Before(s, w), rows[w].ticket)) < TicketLeft(k, rows, t)
    BY <1>1, <1>2 DEF Takes, OfTicket
  <2>3. OfTicket(rows, s, t) \in SUBSET Places /\ TicketLeft(k, rows, t) \in Int
    BY <1>1, LeftTyped DEF OfTicket
  <2>4. QED
    BY <2>1, <2>2, <2>3, LastFits
<1>5. ASSUME NEW w \in Waiting(rows) \ s
      PROVE  \/ Cardinality(Before(s, w)) >= EventLeft(e, rows)
             \/ Cardinality(OfTicket(rows, Before(s, w), rows[w].ticket))
                  >= TicketLeft(k, rows, rows[w].ticket)
  <2>1. ~ (/\ Cardinality(Before(s, w)) < EventLeft(e, rows)
           /\ Cardinality(OfTicket(rows, Before(s, w), rows[w].ticket))
                < TicketLeft(k, rows, rows[w].ticket))
    BY <1>2 DEF Takes, OfTicket
  <2>2. /\ Before(s, w) \in SUBSET Places
        /\ OfTicket(rows, Before(s, w), rows[w].ticket) \in SUBSET Places
        /\ rows[w].ticket \in Tickets
    BY <1>1 DEF Before, OfTicket, TicketsTyped
  <2>3. /\ Cardinality(Before(s, w)) \in Nat
        /\ Cardinality(OfTicket(rows, Before(s, w), rows[w].ticket)) \in Nat
    BY <2>2, PartOf
  <2>4. EventLeft(e, rows) \in Int /\ TicketLeft(k, rows, rows[w].ticket) \in Int
    BY <2>2, LeftTyped
  <2>5. QED
    BY <2>1, <2>3, <2>4
<1>6. Served(e, k, rows, s)
  BY <1>3, <1>4, <1>5 DEF Served, OfTicket, Before
<1>7. QED
  BY <1>1, <1>6

\* Where no capacity is below the seats taken, the loop seats the one set of
\* people that Served describes.
LEMMA LoopIsServed ==
  ASSUME NEW e, NEW k, Terms(e, k), NEW rows, TicketsTyped(rows),
         EventLeft(e, rows) >= 0, \A t \in Tickets : TicketLeft(k, rows, t) >= 0
  PROVE  {s \in SUBSET Waiting(rows) : Served(e, k, rows, s)} = {Loop(e, k, rows)}
<1>1. Greedy(e, k, rows, Loop(e, k, rows), MaxPlaces)
  BY LoopIsGreedy
<1>2. /\ Loop(e, k, rows) \in SUBSET Waiting(rows)
      /\ Served(e, k, rows, Loop(e, k, rows))
  BY <1>1, GreedyIsServed
<1>3. ASSUME NEW s \in SUBSET Waiting(rows), Served(e, k, rows, s)
      PROVE  s = Loop(e, k, rows)
  BY <1>1, <1>3, ServedIsGreedy, GreedyOnce
<1>4. QED
  BY <1>2, <1>3

\* Where the seats taken fit, the line has one way to move: the rows after it are
\* those in which whom the loop takes are seated.
THEOREM LineMovesOneWay ==
  ASSUME NEW e, NEW k, Terms(e, k), NEW c, NEW rows, TicketsTyped(rows), Fit(e, k, rows)
  PROVE  Promoted(e, k, c, rows) =
           {IF LineMoves(e, c) /\ EventLeft(e, rows) > 0
            THEN Seat(e, c, rows, Loop(e, k, rows)) ELSE rows}
<1>1. CASE ~ (LineMoves(e, c) /\ EventLeft(e, rows) > 0)
  BY <1>1 DEF Promoted
<1>2. CASE LineMoves(e, c) /\ EventLeft(e, rows) > 0
  <2>1. EventLeft(e, rows) \in Int
    BY LeftTyped
  <2>2. ASSUME NEW t \in Tickets PROVE TicketLeft(k, rows, t) >= 0
    <3>1. SeatsOf(rows, t) \in SUBSET Places
      BY DEF SeatsOf, Seats
    <3>2. /\ Cardinality(SeatsOf(rows, t)) \in Nat /\ k[t].capacity \in Nat
          /\ Cardinality(SeatsOf(rows, t)) <= k[t].capacity
      BY <3>1, PartOf DEF Terms, Fit
    <3>3. QED
      BY <3>2 DEF TicketLeft
  <2>3. EventLeft(e, rows) >= 0
    BY <1>2, <2>1
  <2>4. {s \in SUBSET Waiting(rows) : Served(e, k, rows, s)} = {Loop(e, k, rows)}
    BY <2>2, <2>3, LoopIsServed
  <2>5. Promoted(e, k, c, rows) =
          {Seat(e, c, rows, s) : s \in {x \in SUBSET Waiting(rows) : Served(e, k, rows, x)}}
    BY <1>2 DEF Promoted
  <2>6. QED
    BY <1>2, <2>4, <2>5
<1>3. QED
  BY <1>1, <1>2

\* Whatever the capacities are set to, the loop of promoteEventWaitlist seats
\* the one set of people that Served describes: the actions, which ask for such a
\* set, do what the loop does.
THEOREM LoopSeatsOneSet == Spec => []LoopServes
<1>1. TypeOK => LoopServes
  <2> SUFFICES ASSUME TypeOK, NEW c \in Capacities, NEW caps \in [Tickets -> Capacities]
               PROVE  LET e == [event EXCEPT !.capacity = c]
                          k == [t \in Tickets |-> [ticket[t] EXCEPT !.capacity = caps[t]]]
                      IN  (/\ EventLeft(e, place) > 0
                           /\ \A t \in Tickets : TicketLeft(k, place, t) >= 0) =>
                          {s \in SUBSET Waiting(place) : Served(e, k, place, s)}
                            = {Loop(e, k, place)}
    BY DEF LoopServes
  <2> DEFINE e == [event EXCEPT !.capacity = c]
             k == [t \in Tickets |-> [ticket[t] EXCEPT !.capacity = caps[t]]]
  <2>1. e.capacity = c /\ \A t \in Tickets : k[t].capacity = caps[t]
    BY DEF TypeOK
  <2>2. TicketsTyped(place)
    BY DEF TypeOK, TicketsTyped, Waiting, PlaceRows
  <2> HIDE DEF e, k
  <2>3. Terms(e, k)
    BY <2>1, CapacitiesAssumption DEF Terms
  <2>4. ASSUME EventLeft(e, place) > 0, \A t \in Tickets : TicketLeft(k, place, t) >= 0
        PROVE  {s \in SUBSET Waiting(place) : Served(e, k, place, s)} = {Loop(e, k, place)}
    <3>1. EventLeft(e, place) >= 0
      BY <2>3, <2>4, LeftTyped
    <3>2. QED
      BY <2>2, <2>3, <2>4, <3>1, LoopIsServed
  <2>5. QED
    BY <2>4 DEF e, k
<1>2. QED
  BY <1>1, TypeCorrect, PTL

---------------------------------------------------------------------------
(* Turns.                                                                  *)

\* What NobodyOvertakes asks of one step.
TurnKept ==
  \A p \in Seats(place)' \ Seats(place), w \in Waiting(place)' :
    (clock' < Started /\ w < p) =>
      /\ place'[w].ticket # place'[p].ticket
      /\ Cardinality(SeatsOf(place', place'[w].ticket)) >= ticket'[place'[w].ticket].capacity

\* A step in which the line moves from rows with no new seat.
LEMMA LineTurn ==
  ASSUME archived' = archived, NEW rows, Seats(rows) \subseteq Seats(place),
         InTurn(ticket', rows, place')
  PROVE  TurnKept
<1>1. Seats(place)' = Seats(place') /\ Waiting(place)' = Waiting(place')
  BY DEF Seats, Waiting
<1>2. QED
  BY <1>1 DEF TurnKept, InTurn

\* A registration: those the line seated, then the newcomer.
LEMMA RegisterTurn ==
  ASSUME PInv, CommitRegister
  PROVE  TurnKept
<1>1. /\ nextSeq \in Places /\ event.status = "published" /\ tx.ticket \in Tickets
      /\ event' = event /\ ticket' = ticket /\ clock' = clock /\ archived' = archived
  BY RegisterRows DEF CommitRegister
<1>2. PICK rows \in Promoted(event, ticket, clock, Released), new \in PlaceRows :
        /\ place' = [rows EXCEPT ![nextSeq] = new]
        /\ new.ticket = tx.ticket
        /\ new.state = "held" => new.charge = "due"
        /\ \/ new.state \in SeatStates /\ Room(rows, tx.ticket)
           \/ new.state = "waitlisted" /\ ~Room(rows, tx.ticket)
  BY RegisterRows
<1>3. /\ Terms(event, ticket) /\ clock \in Early..Ended /\ Fit(event, ticket, place)
      /\ Released \in [Places -> PlaceRows] /\ Seats(Released) \subseteq Seats(place)
      /\ SameTickets(place, Released) /\ Freed(place, Released)
  BY TermsTyped, ReleasedRows DEF PInv
<1>4. Fit(event, ticket, Released)
  BY <1>3, FreedFits
<1>5. /\ rows \in [Places -> PlaceRows] /\ Fit(event, ticket, rows)
      /\ LineMoves(event, clock) => \A w \in Waiting(rows) : FullFor(event, ticket, rows, w)
      /\ Filled(Released, rows) /\ InTurn(ticket, Released, rows)
  BY <1>3, <1>4, Promotion
<1> DEFINE n == nextSeq
           after == place'
<1>6. \A p \in Places : p >= n => rows[p] = Blank
  <2>1. \A p \in Places : p >= n => place[p] = Blank
    BY DEF PInv, RestIsBlank
  <2>2. QED
    BY <1>3, <1>5, <2>1 DEF Freed, Filled
<1>7. \A p \in Places : p >= n => p \notin Seats(rows) /\ p \notin Waiting(rows)
  BY <1>6 DEF Seats, SeatStates, Waiting, Blank
<1>8. after[n] = new /\ \A p \in Places : p # n => after[p] = rows[p]
  BY <1>1, <1>2, <1>5
<1>9. \A u : SeatsOf(rows, u) \subseteq SeatsOf(after, u)
  BY <1>1, <1>7, <1>8 DEF SeatsOf, Seats, Places
<1>10. ASSUME NEW u \in Tickets, Cardinality(SeatsOf(rows, u)) >= ticket[u].capacity
       PROVE  Cardinality(SeatsOf(after, u)) >= ticket[u].capacity
  <2>1. SeatsOf(after, u) \in SUBSET Places /\ SeatsOf(rows, u) \in SUBSET SeatsOf(after, u)
    BY <1>9 DEF SeatsOf, Seats
  <2>2. /\ Cardinality(SeatsOf(after, u)) \in Nat /\ Cardinality(SeatsOf(rows, u)) \in Nat
        /\ Cardinality(SeatsOf(rows, u)) <= Cardinality(SeatsOf(after, u))
    BY <2>1, PartOf
  <2>3. ticket[u].capacity \in Nat
    BY <1>3 DEF Terms
  <2>4. QED
    BY <1>10, <2>2, <2>3
<1>11. Seats(place)' = Seats(after) /\ Waiting(place)' = Waiting(after)
  BY <1>1 DEF Seats, Waiting
<1>12. SUFFICES ASSUME NEW p \in Seats(after), p \notin Seats(place), NEW w \in Waiting(after),
                       clock < Started, w < p
                PROVE  /\ after[w].ticket # after[p].ticket
                       /\ Cardinality(SeatsOf(after, after[w].ticket)) >= ticket[after[w].ticket].capacity
  BY <1>1, <1>11 DEF TurnKept
<1>13. p \in Places /\ w \in Places /\ n \in Int /\ p \in Int /\ w \in Int
  BY <1>1 DEF Seats, Waiting, Places
<1>14. p <= n /\ w # n /\ w \in Waiting(rows) /\ after[w] = rows[w]
  <2>1. p > n => after[p] = Blank
    BY <1>6, <1>8, <1>13
  <2>2. p <= n
    BY <1>13, <2>1 DEF Seats, SeatStates, Blank
  <2>3. w # n
    BY <1>12, <1>13, <2>2
  <2>4. QED
    BY <1>8, <1>13, <2>2, <2>3 DEF Waiting
<1>15. rows[w].ticket \in Tickets
  BY <1>5, <1>13, <1>14 DEF Waiting, PlaceRows
<1>16. CASE p = n
  <2>1. Room(rows, tx.ticket) /\ after[p].ticket = tx.ticket
    BY <1>2, <1>8, <1>12, <1>16 DEF Seats, SeatStates
  <2>2. EventLeft(event, rows) > 0 /\ WaitingFor(rows, tx.ticket) = {}
    BY <1>3, <1>12, <2>1 DEF Room, Started, Early, Ended
  <2>3. rows[w].ticket # tx.ticket
    BY <1>14, <2>2 DEF WaitingFor
  <2>4. FullFor(event, ticket, rows, w)
    BY <1>1, <1>5, <1>12, <1>14 DEF LineMoves
  <2>5. Cardinality(SeatsOf(rows, rows[w].ticket)) >= ticket[rows[w].ticket].capacity
    <3>1. Seats(rows) \in SUBSET Places
      BY DEF Seats
    <3>2. Cardinality(Seats(rows)) \in Nat /\ event.capacity \in Nat
      BY <1>3, <3>1, PartOf DEF Terms
    <3>3. ~(Cardinality(Seats(rows)) >= event.capacity)
      BY <2>2, <3>2 DEF EventLeft
    <3>4. QED
      BY <2>4, <3>3 DEF FullFor
  <2>6. QED
    BY <1>10, <1>14, <1>15, <2>1, <2>3, <2>5
<1>17. CASE p # n
  <2>1. p \in Seats(rows) /\ after[p] = rows[p]
    BY <1>8, <1>13, <1>17 DEF Seats
  <2>2. p \in Seats(rows) \ Seats(Released)
    BY <1>3, <1>12, <2>1
  <2>3. /\ rows[w].ticket # rows[p].ticket
        /\ Cardinality(SeatsOf(rows, rows[w].ticket)) >= ticket[rows[w].ticket].capacity
    BY <1>5, <1>12, <1>14, <2>2 DEF InTurn
  <2>4. QED
    BY <1>10, <1>14, <1>15, <2>1, <2>3
<1>18. QED
  BY <1>16, <1>17

\* Every step keeps the turns.
LEMMA TurnStep == PInv /\ [Next]_vars => TurnKept
<1> SUFFICES ASSUME PInv, [Next]_vars PROVE TurnKept
  OBVIOUS
<1>1. Seats(place)' = Seats(place')
  BY DEF Seats
<1>2. /\ Terms(event, ticket) /\ clock \in Early..Ended /\ Fit(event, ticket, place)
      /\ place \in [Places -> PlaceRows]
      /\ Released \in [Places -> PlaceRows] /\ Seats(Released) \subseteq Seats(place)
      /\ SameTickets(place, Released) /\ Freed(place, Released)
  BY TermsTyped, ReleasedRows DEF PInv
<1>3. ASSUME Seats(place') \subseteq Seats(place) PROVE TurnKept
  BY <1>1, <1>3 DEF TurnKept
<1>4. CASE UNCHANGED vars
  BY <1>3, <1>4 DEF vars
<1>5. CASE Next
  <2>1. RestTypeOK'
    BY <1>5, TypeSplit, RestTypeStep DEF PInv
  <2>2. CASE place' = place
    BY <1>3, <2>2
  <2>3. CASE CommitRegister
    BY <2>3, RegisterTurn
  <2>4. CASE CommitSave
    <3>1. Fit(event', ticket', Released)
      <4>1. event'.capacity = tx.capacity /\ ticket' = ticket
        BY <2>4, TypeSplit DEF CommitSave, PInv, RestTypeOK
      <4>2. Fit(event', ticket', place) /\ Terms(event', ticket')
        BY <1>2, <2>1, <2>4, <4>1, CapacitiesAssumption
           DEF CommitSave, PInv, LockKeeps, Fit, Terms, RestTypeOK
      <4>3. QED
        BY <1>2, <4>2, FreedFits
    <3>2. archived' = archived /\ place' \in Promoted(event', ticket', clock', Released)
      BY <2>4 DEF CommitSave
    <3>3. InTurn(ticket', Released, place')
      BY <1>2, <2>1, <3>1, <3>2, MovedStep
    <3>4. QED
      BY <1>2, <3>2, <3>3, LineTurn
  <2>5. CASE CommitSweep
    <3>1. CASE Releasable = {}
      BY <1>3, <2>5, <3>1 DEF CommitSweep
    <3>2. CASE Releasable # {}
      <4>1. /\ archived' = archived /\ Fit(event', ticket', Released)
            /\ place' \in Promoted(event', ticket', clock', Released)
        <5>1. /\ event' = event /\ ticket' = ticket /\ clock' = clock /\ archived' = archived
              /\ place' \in Promoted(event, ticket, clock, Released)
          BY <2>5, <3>2 DEF CommitSweep
        <5>2. QED
          BY <1>2, <5>1, FreedFits
      <4>2. InTurn(ticket', Released, place')
        BY <1>2, <2>1, <4>1, MovedStep
      <4>3. QED
        BY <1>2, <4>1, <4>2, LineTurn
    <3>3. QED
      BY <3>1, <3>2
  <2>6. ASSUME NEW t \in Tickets, NEW c \in Capacities, SaveTicket(t, c) PROVE TurnKept
    <3>1. /\ event' = event /\ archived' = archived
          /\ ticket' = [ticket EXCEPT ![t] = [sale |-> "live", capacity |-> c]]
          /\ c = ticket[t].capacity \/ Cardinality(SeatsOf(place, t)) <= c
          /\ place' \in Promoted(event', ticket', clock', place)
      BY <2>6 DEF SaveTicket
    <3>2. \A u \in Tickets : ticket'[u].capacity = IF u = t THEN c ELSE ticket[u].capacity
      BY <3>1, TypeSplit DEF PInv, RestTypeOK
    <3>3. Fit(event', ticket', place)
      BY <1>2, <3>1, <3>2 DEF Fit
    <3>4. InTurn(ticket', place, place')
      BY <1>2, <2>1, <3>1, <3>3, MovedStep
    <3>5. QED
      BY <3>1, <3>4, LineTurn
  <2>7. ASSUME NEW p \in Places, CancelEventPlace(p) PROVE TurnKept
    <3>1. /\ event' = event /\ ticket' = ticket /\ clock' = clock /\ archived' = archived /\ Live(p)
      BY <2>7 DEF CancelEventPlace
    <3>2. PICK end \in Closed(place[p].charge) :
            place' \in Promoted(event, ticket, clock,
              [place EXCEPT ![p].state = "cancelled", ![p].hold = "none", ![p].charge = end])
      BY <2>7 DEF CancelEventPlace
    <3> DEFINE rows == [place EXCEPT ![p].state = "cancelled", ![p].hold = "none", ![p].charge = end]
    <3>3. /\ rows \in [Places -> PlaceRows] /\ Seats(rows) \subseteq Seats(place)
          /\ SameTickets(place, rows) /\ place' \in Promoted(event', ticket', clock', rows)
      BY <3>1, <3>2, GivenUp
    <3> HIDE DEF rows
    <3>4. Fit(event', ticket', rows)
      BY <1>2, <3>1, <3>3, FreedFits
    <3>5. InTurn(ticket', rows, place')
      BY <2>1, <3>1, <3>3, <3>4, MovedStep
    <3>6. QED
      BY <3>1, <3>3, <3>5, LineTurn
  <2>8. ASSUME NEW p \in Places, Pay(p) \/ VoidCharge(p) \/ HoldClock(p) PROVE TurnKept
    <3>1. /\ \A q \in Places : q # p => place'[q] = place[q]
          /\ place'[p].state \in SeatStates => place[p].state \in SeatStates
      <4>1. place[p] \in Columns
        BY <1>2 DEF PlaceRows
      <4>2. CASE Pay(p)
        <5>1. place'[p].state = IF place[p].state = "held" THEN "confirmed" ELSE place[p].state
          BY <1>2, <4>1, <4>2 DEF Pay, Columns
        <5>2. QED
          BY <1>2, <4>2, <5>1 DEF Pay, SeatStates
      <4>3. CASE VoidCharge(p) \/ HoldClock(p)
        BY <1>2, <4>1, <4>3 DEF VoidCharge, HoldClock, Columns
      <4>4. QED
        BY <2>8, <4>2, <4>3
    <3>2. Seats(place') \subseteq Seats(place)
      BY <3>1 DEF Seats
    <3>3. QED
      BY <1>3, <3>2
  <2>9. CASE CancelEvent
    <3>1. ASSUME NEW p \in Places, Live(p) PROVE place'[p].state = "cancelled"
      <4>1. PICK end \in [Places -> Charges] :
              place' = [q \in Places |->
                IF Live(q)
                THEN [place[q] EXCEPT !.state = "cancelled", !.hold = "none", !.charge = end[q]]
                ELSE place[q]]
        BY <2>9 DEF CancelEvent
      <4>2. place'[p] = [place[p] EXCEPT !.state = "cancelled", !.hold = "none", !.charge = end[p]]
        BY <3>1, <4>1
      <4>3. place[p] \in Columns
        BY <1>2 DEF PlaceRows
      <4>4. QED
        BY <4>2, <4>3 DEF Columns
    <3>2. \A p \in Places : ~Live(p) => place'[p] = place[p]
      BY <2>9 DEF CancelEvent
    <3>3. Seats(place') \subseteq Seats(place)
      BY <3>1, <3>2 DEF Seats, SeatStates, Live
    <3>4. QED
      BY <1>3, <3>3
  <2>10. CASE \/ StartSweep \/ Abort \/ AlreadyRegistered
              \/ \E m \in Members, t \in Tickets, desk \in BOOLEAN : StartRegister(m, t, desk)
              \/ \E c \in Capacities, pay \in Payments, ck \in Early..Ended : StartSave(c, pay, ck)
              \/ PublishEvent \/ SwitchOnline \/ Tick
              \/ \E t \in Tickets : ArchiveTicket(t)
              \/ \E m \in Members : SetMemberArchived(m)
    <3>1. place' = place
      BY <2>10 DEF StartSweep, Abort, AlreadyRegistered, StartRegister, StartSave, PublishEvent, SwitchOnline, Tick,
                   ArchiveTicket, SetMemberArchived
    <3>2. QED
      BY <2>2, <3>1
  <2>11. QED
    BY <1>5, <2>3, <2>4, <2>5, <2>6, <2>7, <2>8, <2>9, <2>10 DEF Next
<1>6. QED
  BY <1>4, <1>5

\* Nobody overtakes: a newcomer or one of the line is seated past those who wait
\* only where the other's own ticket, another than theirs, is full.
THEOREM TurnsAreKept == Spec => NobodyOvertakes
<1>1. PInv /\ PInv' /\ [Next]_vars
        => [\A p \in Seats(place)' \ Seats(place), w \in Waiting(place)' :
              (clock' < Started /\ w < p) =>
                /\ place'[w].ticket # place'[p].ticket
                /\ Cardinality(SeatsOf(place', place'[w].ticket))
                     >= ticket'[place'[w].ticket].capacity]_vars
  BY TurnStep DEF TurnKept
<1>2. QED
  BY <1>1, Invariant, PTL DEF Spec, NobodyOvertakes
=============================================================================
