------------------------ MODULE SessionRosterProofs ------------------------
(***************************************************************************)
(* Proofs about SessionRoster, for any finite set of members, any          *)
(* capacities and any bounds.                                              *)
(***************************************************************************)
EXTENDS SessionRoster, FiniteSetTheorems, TLAPS

USE DEF eventVars, rosterVars, jobVars, historyVars

---------------------------------------------------------------------------
(* The inductive invariant: what an open request knows of its row and of   *)
(* the others' tickets.                                                    *)

Joining(m) == request[m].at \in {"joining", "placed"}
Leaving(m) == request[m].at \in {"leaving", "counted"}
Tickets(m) == {row[m].ticket, request[m].row.ticket}

\* Tickets are drawn before they are used, and nobody else's is used again, not
\* even by a request that is not committed.
TicketsApart ==
  \A m, n \in Members :
    /\ \A s \in Tickets(m) : s < nextTicket
    /\ m # n => \A s \in Tickets(m), t \in Tickets(n) : s # 0 => s # t

\* Whoever has a row has a ticket.
RowsDrawn == \A m \in Members : row[m].state # "none" => row[m].ticket # 0

\* A request writes an active row with a ticket, the member's own if they were
\* in the queue, or withdraws the row as it is.
RequestsKnown ==
  \A m \in Members :
    /\ Joining(m) => /\ request[m].row.state = "active" /\ request[m].row.ticket # 0
                     /\ row[m].state = "active" => request[m].row = row[m]
                     /\ row[m].state # "active" => request[m].joined = TRUE
    /\ Leaving(m) => /\ row[m].state = "active" /\ request[m].row.state = "withdrawn"
                     /\ request[m].row.ticket = row[m].ticket
    /\ \A n \in request[m].promoted : row[n].state # "none"

\* A join that overlapped nothing is the only request open, and its ticket is
\* the last.
JoinAlone ==
  "join overlaps" \notin excuse => \A m \in Members : Joining(m) => Busy = {m}

JoinLast ==
  "join overlaps" \notin excuse =>
    \A m, n \in Members :
      Joining(m) /\ row[m].state # "active" /\ row[n].state = "active" =>
        row[n].ticket < request[m].row.ticket

\* The conjunction, which every step keeps.
RInv == TypeOK /\ TicketsApart /\ RowsDrawn /\ RequestsKnown /\ JoinAlone /\ JoinLast

\* The part of TypeOK that is about what is owed to whom.
QueueTypeOK ==
  /\ jobs \in Seq(Jobs)
  /\ named \subseteq Members \X SignUpKinds \X (1..MaxTickets)
  /\ upsets \in 0..MaxUpsets
  /\ excuse \subseteq {"join overlaps", "withdrawals overlap", "enqueue", "capacity"}

---------------------------------------------------------------------------
(* What the parts of an action do.                                         *)

\* The records the module starts from have their types.
LEMMA IdleType == NoRow \in Rows /\ Idle \in Requests
<1>1. NoRow \in Rows
  BY BoundAssumption DEF NoRow, Rows, Started
<1>2. QED
  BY <1>1 DEF Idle, Requests

\* The rows and the tickets on them have their types.
LEMMA RowTypes ==
  ASSUME TypeOK
  PROVE  /\ nextTicket \in Nat \ {0} /\ clock \in 0..Started
         /\ \A n \in Members :
              /\ row[n] \in Rows /\ request[n] \in Requests /\ request[n].row \in Rows
              /\ row[n].since \in 0..Started
              /\ row[n].ticket \in Nat /\ request[n].row.ticket \in Nat
<1>1. \A n \in Members : row[n] \in Rows /\ request[n] \in Requests
  BY DEF TypeOK
<1>2. \A r \in Rows : r.ticket \in Nat /\ r.since \in 0..Started
  BY BoundAssumption DEF Rows
<1>3. \A q \in Requests : q.row \in Rows
  BY DEF Requests
<1>4. nextTicket \in Nat \ {0}
  <2>1. nextTicket \in 1..MaxTickets + 1
    BY DEF TypeOK
  <2>2. QED
    BY <2>1, BoundAssumption
<1>5. clock \in 0..Started
  <2>1. clock \in Clocks
    BY DEF TypeOK
  <2>2. QED
    BY <2>1, ClockAssumption DEF Started
<1>6. QED
  BY <1>1, <1>2, <1>3, <1>4, <1>5

\* One member's request changes and nobody else's.
LEMMA RequestChanges ==
  ASSUME request \in [Members -> Requests], NEW m \in Members, NEW r \in Requests,
         request' = [request EXCEPT ![m] = r]
  PROVE  /\ request' \in [Members -> Requests]
         /\ request'[m] = r
         /\ \A n \in Members \ {m} : request'[n] = request[n]
OBVIOUS

\* A request that begins was idle; if it or another is a join, and the run is
\* still without overlapping joins, it is alone.
LEMMA BeginFacts ==
  ASSUME TypeOK, NEW m \in Members, NEW what \in Requests, what.at # "idle", Begin(m, what)
  PROVE  /\ request' \in [Members -> Requests]
         /\ request'[m] = what
         /\ \A n \in Members \ {m} : request'[n] = request[n]
         /\ request[m].at = "idle"
         /\ excuse \subseteq excuse'
         /\ excuse' \subseteq {"join overlaps", "withdrawals overlap", "enqueue", "capacity"}
         /\ excuse' = {} => Busy = {}
         /\ "join overlaps" \notin excuse' /\ (\E n \in Members : Joining(n)') => Busy = {}
<1>1. request \in [Members -> Requests] /\ request' = [request EXCEPT ![m] = what]
  BY DEF TypeOK, Begin
<1>2. /\ request' \in [Members -> Requests]
      /\ request'[m] = what
      /\ \A n \in Members \ {m} : request'[n] = request[n]
  BY <1>1, RequestChanges
<1> DEFINE Over == \E n \in Members : request'[n].at \in {"joining", "placed"}
           New == {e \in {"join overlaps", "withdrawals overlap"} :
                     Busy # {} /\ ((e = "join overlaps") <=> Over)}
<1>3. excuse' = excuse \cup New
  BY DEF Begin
<1>4. excuse' \subseteq {"join overlaps", "withdrawals overlap", "enqueue", "capacity"}
  BY <1>3 DEF TypeOK
<1>5. Busy # {} /\ Over => "join overlaps" \in New
  OBVIOUS
<1>6. Busy # {} /\ ~Over => "withdrawals overlap" \in New
  OBVIOUS
<1>7. (\E n \in Members : Joining(n)') => Over
  BY DEF Joining
<1>8. request[m].at = "idle"
  BY DEF Begin
<1> HIDE DEF Over, New
<1>9. QED
  BY <1>2, <1>3, <1>4, <1>5, <1>6, <1>7, <1>8

\* A notice is queued about those it names, or it is lost and that is recorded.
LEMMA EnqueueFacts ==
  ASSUME TypeOK, NEW reason \in Reasons, NEW users \in SUBSET Members, NEW n \in Nat,
         row' \in [Members -> Rows],
         \A m \in users : reason \in SignUpKinds /\ row'[m].ticket # 0,
         Enqueue(reason, users, n)
  PROVE  /\ QueueTypeOK'
         /\ excuse \subseteq excuse'
         /\ excuse' = {} => named' = named \cup {<<m, reason, row'[m].ticket>> : m \in users}
<1>1. upsets' \in 0..MaxUpsets
  <2>1. upsets \in 0..MaxUpsets
    BY DEF TypeOK
  <2>2. Upsets(n) \/ Upsets(n + 1)
    BY DEF Enqueue
  <2>3. QED
    BY <2>1, <2>2, BoundAssumption DEF Upsets
<1>2. CASE /\ jobs' = Append(jobs, [reason |-> reason, users |-> users, tries |-> 0, later |-> FALSE])
           /\ named' = named \cup {<<m, reason, row'[m].ticket>> : m \in users}
           /\ UNCHANGED excuse
  <2>1. [reason |-> reason, users |-> users, tries |-> 0, later |-> FALSE] \in Jobs
    BY BoundAssumption DEF Jobs
  <2>2. jobs' \in Seq(Jobs)
    <3>1. jobs \in Seq(Jobs)
      BY DEF TypeOK
    <3>2. QED
      BY <2>1, <3>1, <1>2
  <2>3. \A m \in users : <<m, reason, row'[m].ticket>> \in Members \X SignUpKinds \X (1..MaxTickets)
    <3>1. \A m \in users : row'[m].ticket \in 0..MaxTickets
      BY DEF Rows
    <3>2. \A m \in users : row'[m].ticket \in 1..MaxTickets
      BY <3>1, BoundAssumption
    <3>3. QED
      BY <3>2
  <2>4. QED
    BY <1>1, <1>2, <2>2, <2>3 DEF TypeOK, QueueTypeOK
<1>3. CASE excuse' = excuse \cup {"enqueue"} /\ UNCHANGED jobVars
  BY <1>1, <1>3 DEF TypeOK, QueueTypeOK
<1>4. QED
  BY <1>2, <1>3 DEF Enqueue

---------------------------------------------------------------------------
(* Every action keeps the invariant.                                       *)

\* The roster starts empty, with no request open.
LEMMA InitRInv == Init => RInv
<1> SUFFICES ASSUME Init PROVE RInv
  OBVIOUS
<1>1. \A m \in Members : row[m] = NoRow /\ request[m] = Idle
  BY DEF Init
<1>2. TypeOK
  <2>1. jobs \in Seq(Jobs)
    BY DEF Init
  <2>2. QED
    BY <2>1, IdleType, BoundAssumption, CapacityAssumption, ClockAssumption
       DEF Init, TypeOK, Statuses
<1>3. TicketsApart
  BY <1>1 DEF TicketsApart, Tickets, Idle, NoRow, Init
<1>4. \A m \in Members : /\ ~Joining(m) /\ ~Leaving(m) /\ request[m].promoted = {}
                          /\ row[m].state = "none"
  BY <1>1 DEF Joining, Leaving, Idle, NoRow
<1>5. RowsDrawn /\ RequestsKnown /\ JoinAlone /\ JoinLast
  BY <1>4 DEF RowsDrawn, RequestsKnown, JoinAlone, JoinLast
<1>6. QED
  BY <1>2, <1>3, <1>5 DEF RInv

\* A join draws the next number of the sequence, which nobody has, or takes the
\* row's own ticket along.
LEMMA DrawTicketKeeps ==
  ASSUME RInv, NEW m \in Members, DrawTicket(m)
  PROVE  RInv'
<1> DEFINE new == [state |-> "active", ticket |-> Ticket(m),
                   since |-> IF row[m].state = "none" THEN clock ELSE row[m].since]
           what == [Idle EXCEPT !.at = "joining", !.joined = row[m].state # "active", !.row = new]
<1>0. TypeOK /\ row[m] \in Rows /\ nextTicket \in 1..MaxTickets + 1
  BY DEF RInv, TypeOK
<1>1. Ticket(m) \in 1..MaxTickets /\ Ticket(m) < nextTicket'
  <2>1. row[m].state = "active" => row[m].ticket # 0 /\ row[m].ticket < nextTicket
    BY DEF RInv, RowsDrawn, TicketsApart, Tickets
  <2>2. row[m].ticket \in 0..MaxTickets
    BY <1>0 DEF Rows
  <2>3. QED
    BY <1>0, <2>1, <2>2, BoundAssumption DEF DrawTicket, Ticket
<1>2. nextTicket' \in 1..MaxTickets + 1 /\ nextTicket <= nextTicket'
  BY <1>0, <1>1, BoundAssumption DEF DrawTicket
<1>3. new \in Rows
  <2>1. clock \in 0..Started /\ row[m].since \in 0..Started
    BY <1>0, RowTypes
  <2>2. QED
    BY <1>1, <2>1, BoundAssumption DEF Rows
<1>4. what \in Requests /\ what.at = "joining" /\ what.row = new /\ what.promoted = {}
      /\ (row[m].state # "active" => what.joined = TRUE)
  BY <1>3, IdleType DEF Requests, Idle
<1>5. Begin(m, what) /\ UNCHANGED <<eventVars, row, jobVars, upsets>>
  BY DEF DrawTicket, Begin
<1> HIDE DEF new, what
<1>6. /\ request' \in [Members -> Requests]
      /\ request'[m] = what
      /\ \A n \in Members \ {m} : request'[n] = request[n]
      /\ request[m].at = "idle"
      /\ excuse \subseteq excuse'
      /\ excuse' \subseteq {"join overlaps", "withdrawals overlap", "enqueue", "capacity"}
      /\ "join overlaps" \notin excuse' /\ (\E n \in Members : Joining(n)') => Busy = {}
  BY <1>0, <1>4, <1>5, BeginFacts
<1>7. TypeOK'
  BY <1>0, <1>2, <1>5, <1>6 DEF TypeOK
<1>8. new.state = "active" /\ new.ticket = Ticket(m) /\ (row[m].state = "active" => new = row[m])
  BY <1>0 DEF new, Ticket, Rows
<1>9. TicketsApart'
  <2>1. \A n \in Members : \A s \in Tickets(n) : s < nextTicket /\ s \in Nat
    BY <1>0, RowTypes DEF RInv, TicketsApart, Tickets
  <2>2. \A n \in Members \ {m} : Tickets(n)' = Tickets(n)
    BY <1>5, <1>6 DEF Tickets
  <2>3. Tickets(m)' = {row[m].ticket, Ticket(m)}
    BY <1>4, <1>5, <1>6, <1>8 DEF Tickets
  <2>4. \A n \in Members \ {m} : \A t \in Tickets(n) : Ticket(m) # t
    BY <2>1, <1>1 DEF RInv, TicketsApart, RowsDrawn, Tickets, Ticket
  <2>5. \A n \in Members : \A s \in Tickets(n)' : s < nextTicket'
    BY <2>1, <2>2, <2>3, <1>0, <1>1, <1>2 DEF Tickets
  <2>6. \A n \in Members \ {m} : \A t \in Tickets(n) : row[m].ticket # 0 => row[m].ticket # t
    BY DEF RInv, TicketsApart, Tickets
  <2>7. \A n \in Members \ {m} : \A s \in Tickets(n) : s # 0 => s # row[m].ticket
    BY <2>6
  <2>8. ASSUME NEW n \in Members, NEW k \in Members, n # k,
               NEW s \in Tickets(n)', NEW t \in Tickets(k)', s # 0
        PROVE  s # t
    <3>1. CASE n = m
      BY <3>1, <2>8, <2>2, <2>3, <2>4, <2>6
    <3>2. CASE k = m
      BY <3>2, <2>8, <2>2, <2>3, <2>4, <2>7
    <3>3. CASE n # m /\ k # m
      BY <3>3, <2>8, <2>2 DEF RInv, TicketsApart
    <3>4. QED
      BY <3>1, <3>2, <3>3
  <2>9. QED
    BY <2>5, <2>8 DEF TicketsApart
<1>10. RowsDrawn' /\ RequestsKnown'
  <2>1. RowsDrawn' /\ row' = row
    BY <1>5 DEF RInv, RowsDrawn
  <2>2. Joining(m)' /\ ~Leaving(m)'
    BY <1>4, <1>6 DEF Joining, Leaving
  <2>22. new.ticket # 0
    <3>1. Ticket(m) # 0
      BY <1>1
    <3>2. QED
      BY <3>1, <1>8
  <2>23. request'[m].row = new /\ request'[m].promoted = {}
        /\ (row[m].state # "active" => request'[m].joined = TRUE)
    BY <1>4, <1>6
  <2>3. \A n \in Members \ {m} :
          request'[n] = request[n] /\ Joining(n)' = Joining(n) /\ Leaving(n)' = Leaving(n)
    BY <1>6 DEF Joining, Leaving
  <2>4. QED
    BY <2>1, <2>2, <2>22, <2>23, <2>3, <1>8 DEF RInv, RequestsKnown
<1>11. JoinAlone'
  <2>1. ASSUME Busy = {} PROVE Busy' = {m} /\ \A n \in Members : Joining(n)' => n = m
    <3>1. \A n \in Members : n # m => request'[n].at = "idle"
      BY <2>1, <1>6 DEF Busy
    <3>2. request'[m].at = "joining"
      BY <1>4, <1>6
    <3>3. QED
      BY <3>1, <3>2 DEF Busy, Joining
  <2>2. QED
    BY <2>1, <1>6 DEF JoinAlone
<1>12. JoinLast'
  <2> SUFFICES ASSUME "join overlaps" \notin excuse', NEW k \in Members, NEW n \in Members,
                      Joining(k)', row'[k].state # "active", row'[n].state = "active"
               PROVE  row'[n].ticket < request'[k].row.ticket
    BY DEF JoinLast
  <2>1. k = m
    BY <1>6 DEF Joining, Busy
  <2>2. row[n].ticket < nextTicket
    BY DEF RInv, TicketsApart, Tickets
  <2>3. QED
    BY <2>1, <2>2, <1>4, <1>5, <1>6, <1>8 DEF Ticket
<1>13. QED
  BY <1>7, <1>9, <1>10, <1>11, <1>12 DEF RInv

\* The reads: the member's own request learns something, all else stays.
LEMMA ReadKeeps ==
  ASSUME RInv, NEW m \in Members, NEW r \in Requests,
         request' = [request EXCEPT ![m] = r],
         UNCHANGED <<eventVars, rosterVars, jobVars, historyVars>>,
         r.row = request[m].row, r.joined = request[m].joined,
         \/ request[m].at = "joining" /\ r.at = "placed"
         \/ request[m].at = "leaving" /\ r.at = "counted",
         \A n \in r.promoted : row[n].state # "none"
  PROVE  RInv'
<1>1. /\ request' \in [Members -> Requests]
      /\ request'[m] = r
      /\ \A n \in Members \ {m} : request'[n] = request[n]
  BY RequestChanges DEF RInv, TypeOK
<1>2. TypeOK'
  BY <1>1 DEF RInv, TypeOK
<1>3. \A n \in Members : request'[n].row = request[n].row /\ request'[n].joined = request[n].joined
                        /\ Joining(n)' = Joining(n) /\ Leaving(n)' = Leaving(n)
  BY <1>1 DEF Joining, Leaving
<1>4. TicketsApart' /\ RowsDrawn'
  BY <1>3 DEF RInv, TicketsApart, Tickets, RowsDrawn
<1>5. RequestsKnown'
  BY <1>1, <1>3 DEF RInv, RequestsKnown
<1>6. Busy' = Busy
  BY <1>1 DEF Busy
<1>7. JoinAlone' /\ JoinLast'
  BY <1>3, <1>6 DEF RInv, JoinAlone, JoinLast
<1>8. QED
  BY <1>2, <1>4, <1>5, <1>7 DEF RInv

\* A member who has joined reads their place.
LEMMA ReadPlaceKeeps ==
  ASSUME RInv, NEW m \in Members, ReadPlace(m)
  PROVE  RInv'
<1> DEFINE flag == m \in Going(Seen(m))
           r == [request[m] EXCEPT !.at = "placed", !.going = flag]
<1>0. request' = [request EXCEPT ![m].at = "placed", ![m].going = flag] /\ flag \in BOOLEAN
  BY DEF ReadPlace
<1> HIDE DEF flag
<1>1. request[m] \in Requests /\ request \in [Members -> Requests]
  BY DEF RInv, TypeOK
<1>2. /\ r \in Requests /\ r.row = request[m].row /\ r.joined = request[m].joined
      /\ r.at = "placed" /\ r.promoted = request[m].promoted
  BY <1>0, <1>1 DEF Requests
<1>3. request' = [request EXCEPT ![m] = r]
  BY <1>0, <1>1
<1> HIDE DEF r
<1>4. QED
  <2>1. \A n \in r.promoted : row[n].state # "none"
    BY <1>2 DEF RInv, RequestsKnown
  <2>2. request[m].at = "joining"
    BY DEF ReadPlace
  <2>3. UNCHANGED <<eventVars, rosterVars, jobVars, historyVars>>
    BY DEF ReadPlace
  <2>4. RInv /\ r \in Requests /\ request' = [request EXCEPT ![m] = r]
    BY <1>2, <1>3
  <2>5. r.row = request[m].row /\ r.joined = request[m].joined
    BY <1>2
  <2>6. request[m].at = "joining" /\ r.at = "placed"
    BY <1>2, <2>2
  <2>7. QED
    BY <2>1, <2>3, <2>4, <2>5, <2>6, ReadKeeps

\* Whoever is let in has a row.
LEMMA ReadAfterKeeps ==
  ASSUME RInv, NEW m \in Members, ReadAfter(m)
  PROVE  RInv'
<1> DEFINE new == Going(Seen(m)) \ request[m].before
           r == [request[m] EXCEPT !.at = "counted", !.promoted = new]
<1>1. request[m] \in Requests /\ row \in [Members -> Rows]
  BY DEF RInv, TypeOK
<1>2. \A n \in new : n \in Members /\ row[n].state # "none"
  <2>1. \A n \in Going(Seen(m)) : n \in Members /\ Seen(m)[n].state = "active"
    BY DEF Going, Queue
  <2>2. \A n \in Members \ {m} : Seen(m)[n] = row[n]
    BY <1>1 DEF Seen
  <2>3. row[m].state = "active"
    BY DEF RInv, RequestsKnown, ReadAfter, Leaving
  <2>4. QED
    BY <2>1, <2>2, <2>3
<1> HIDE DEF new
<1>3. /\ r \in Requests /\ r.row = request[m].row /\ r.joined = request[m].joined
      /\ r.at = "counted" /\ r.promoted = new
  BY <1>1, <1>2 DEF Requests
<1>4. request' = [request EXCEPT ![m] = r]
  BY <1>1 DEF ReadAfter, RInv, TypeOK, new
<1> HIDE DEF r
<1>5. QED
  BY <1>2, <1>3, <1>4, ReadKeeps DEF ReadAfter

\* A withdrawal reads who is going and writes its row as it is, withdrawn.
LEMMA StartWithdrawKeeps ==
  ASSUME RInv, NEW m \in Members, StartWithdraw(m)
  PROVE  RInv'
<1> DEFINE what == [Idle EXCEPT !.at = "leaving", !.row = [row[m] EXCEPT !.state = "withdrawn"],
                                !.before = Going(row)]
<1>0. TypeOK /\ row[m] \in Rows
  BY DEF RInv, TypeOK
<1>1. /\ what \in Requests /\ what.at = "leaving" /\ what.promoted = {}
      /\ what.row.state = "withdrawn" /\ what.row.ticket = row[m].ticket
  <2>1. [row[m] EXCEPT !.state = "withdrawn"] \in Rows
    BY <1>0 DEF Rows
  <2>2. Going(row) \subseteq Members
    BY DEF Going, Queue
  <2>3. QED
    BY <1>0, <2>1, <2>2, IdleType DEF Requests, Idle, Rows
<1>2. Begin(m, what) /\ row[m].state = "active"
      /\ UNCHANGED <<eventVars, row, jobVars, upsets, nextTicket>>
  BY DEF StartWithdraw, Begin
<1> HIDE DEF what
<1>3. /\ request' \in [Members -> Requests]
      /\ request'[m] = what
      /\ \A n \in Members \ {m} : request'[n] = request[n]
      /\ request[m].at = "idle"
      /\ excuse \subseteq excuse'
      /\ excuse' \subseteq {"join overlaps", "withdrawals overlap", "enqueue", "capacity"}
      /\ "join overlaps" \notin excuse' /\ (\E n \in Members : Joining(n)') => Busy = {}
  BY <1>0, <1>1, <1>2, BeginFacts
<1>4. TypeOK'
  BY <1>0, <1>2, <1>3 DEF TypeOK
<1>5. TicketsApart'
  <2>1. \A n \in Members : Tickets(n)' \subseteq Tickets(n)
    BY <1>1, <1>2, <1>3 DEF Tickets
  <2>2. QED
    BY <2>1, <1>2 DEF RInv, TicketsApart
<1>6. RowsDrawn' /\ RequestsKnown'
  <2>1. RowsDrawn' /\ row' = row
    BY <1>2 DEF RInv, RowsDrawn
  <2>2. ~Joining(m)' /\ request'[m] = what /\ row[m].state = "active"
    BY <1>1, <1>2, <1>3 DEF Joining
  <2>3. \A n \in Members \ {m} :
          request'[n] = request[n] /\ Joining(n)' = Joining(n) /\ Leaving(n)' = Leaving(n)
    BY <1>3 DEF Joining, Leaving
  <2>4. QED
    BY <2>1, <2>2, <2>3, <1>1 DEF RInv, RequestsKnown
<1>7. \A n \in Members : "join overlaps" \notin excuse' => ~Joining(n)'
  BY <1>1, <1>3 DEF Joining, Busy
<1>8. QED
  BY <1>4, <1>5, <1>6, <1>7 DEF RInv, JoinAlone, JoinLast

\* A commit: the row the request has written, with the request over or in the
\* hands of the second click.
LEMMA CommitKeeps ==
  ASSUME RInv, NEW m \in Members, request[m].at # "idle",
         row' = Seen(m),
         NEW r \in {Idle, SecondClick(m)}, r = SecondClick(m) => request[m].at = "placed",
         request' = [request EXCEPT ![m] = r],
         QueueTypeOK', excuse \subseteq excuse',
         UNCHANGED <<eventVars, nextTicket>>
  PROVE  RInv'
<1>0. /\ TypeOK /\ row \in [Members -> Rows] /\ request[m] \in Requests
      /\ Joining(m) \/ Leaving(m)
  BY DEF RInv, TypeOK, Requests, Joining, Leaving
<1>1. request[m].row \in Rows
  BY <1>0 DEF Requests
<1>2. r \in Requests
  BY <1>1, IdleType DEF SecondClick, Requests, Idle
<1>3. /\ request' \in [Members -> Requests]
      /\ request'[m] = r
      /\ \A n \in Members \ {m} : request'[n] = request[n]
  BY <1>2, RequestChanges DEF RInv, TypeOK
<1>4. /\ row' \in [Members -> Rows]
      /\ row'[m] = request[m].row
      /\ \A n \in Members \ {m} : row'[n] = row[n]
  BY <1>0, <1>1 DEF Seen
<1>5. TypeOK'
  BY <1>0, <1>3, <1>4 DEF TypeOK, QueueTypeOK
<1>6. r.row \in {NoRow, request[m].row} /\ r.promoted = {} /\ r.at \in {"idle", "joining"}
      /\ (r.at = "joining" => r.row = request[m].row /\ r.joined = TRUE /\ Joining(m))
  <2>1. CASE r = Idle
    BY <2>1 DEF Idle
  <2>2. CASE r = SecondClick(m)
    BY <2>2 DEF SecondClick, Idle, Joining
  <2>3. QED
    BY <2>1, <2>2
<1>7. request[m].row.ticket # 0 /\ request[m].row.state # "none"
      /\ (Joining(m) => request[m].row.state = "active")
  BY <1>0 DEF RInv, RequestsKnown, RowsDrawn
<1>8. TicketsApart'
  <2>1. \A n \in Members : Tickets(n)' \subseteq Tickets(n) \cup {0}
    <3>1. r.row.ticket \in {0, request[m].row.ticket}
      <4>1. NoRow.ticket = 0
        BY DEF NoRow
      <4>2. QED
        BY <1>6, <4>1
    <3>2. Tickets(m)' = {request[m].row.ticket, r.row.ticket}
      BY <1>3, <1>4 DEF Tickets
    <3>3. \A n \in Members \ {m} : Tickets(n)' = Tickets(n)
      BY <1>3, <1>4 DEF Tickets
    <3>4. QED
      BY <3>1, <3>2, <3>3 DEF Tickets
  <2>2. nextTicket' = nextTicket /\ 0 < nextTicket
    <3>1. nextTicket \in Nat \ {0}
      BY <1>0, RowTypes
    <3>2. 0 < nextTicket
      BY <3>1
    <3>3. QED
      BY <3>2
  <2>3. ASSUME NEW n \in Members, NEW k \in Members, n # k, NEW s, s \in Tickets(n)',
               NEW t, t \in Tickets(k)', s # 0
        PROVE  s # t
    BY <2>1, <2>3 DEF RInv, TicketsApart
  <2>4. \A n \in Members : \A s \in Tickets(n)' : s < nextTicket'
    BY <2>1, <2>2 DEF RInv, TicketsApart
  <2>5. QED
    BY <2>3, <2>4 DEF TicketsApart
<1>9. RowsDrawn'
  BY <1>4, <1>7 DEF RInv, RowsDrawn
<1>10. RequestsKnown'
  <2>1. \A n \in Members : row[n].state # "none" => row'[n].state # "none"
    BY <1>4, <1>7
  <2>2. ASSUME NEW n \in Members, n # m
        PROVE  /\ request'[n] = request[n] /\ row'[n] = row[n]
               /\ Joining(n)' = Joining(n) /\ Leaving(n)' = Leaving(n)
    BY <2>2, <1>3, <1>4 DEF Joining, Leaving
  <2>3. Joining(m)' => r.at = "joining" /\ row'[m] = r.row /\ r.joined = TRUE /\ r.row.state = "active"
    BY <1>3, <1>4, <1>6, <1>7 DEF Joining
  <2>4. ~Leaving(m)'
    BY <1>3, <1>6 DEF Leaving
  <2>5. ASSUME NEW n \in Members, n # m
        PROVE  /\ Joining(n)' => /\ request'[n].row.state = "active" /\ request'[n].row.ticket # 0
                                 /\ row'[n].state = "active" => request'[n].row = row'[n]
                                 /\ row'[n].state # "active" => request'[n].joined = TRUE
               /\ Leaving(n)' => /\ row'[n].state = "active" /\ request'[n].row.state = "withdrawn"
                                 /\ request'[n].row.ticket = row'[n].ticket
               /\ \A k \in request'[n].promoted : row'[k].state # "none"
    <3>1. \A k \in request[n].promoted : k \in Members
      BY <1>0 DEF TypeOK, Requests
    <3>2. QED
      BY <2>1, <2>2, <2>5, <3>1 DEF RInv, RequestsKnown
  <2>6. request'[m].promoted = {} /\ request'[m] = r
    BY <1>3, <1>6
  <2>7. Joining(m)' => /\ request'[m].row.state = "active" /\ request'[m].row.ticket # 0
                       /\ request'[m].row = row'[m] /\ request'[m].joined = TRUE
    BY <2>3, <2>6, <1>4, <1>6, <1>7
  <2>8. QED
    BY <2>4, <2>5, <2>6, <2>7 DEF RequestsKnown
<1>11. \A n \in Members : "join overlaps" \notin excuse' /\ Joining(n)' => n = m /\ Busy = {m}
  <2>1. ASSUME NEW n \in Members, "join overlaps" \notin excuse, Joining(n)', n # m
        PROVE  FALSE
    <3>1. Joining(n)
      BY <2>1, <1>3 DEF Joining
    <3>2. m \in Busy
      BY DEF Busy
    <3>3. Busy = {n}
      BY <2>1, <3>1 DEF RInv, JoinAlone
    <3>4. QED
      BY <2>1, <3>2, <3>3
  <2>2. "join overlaps" \notin excuse /\ Joining(m)' => Busy = {m}
    BY <1>3, <1>6 DEF RInv, JoinAlone, Joining
  <2>3. QED
    BY <2>1, <2>2
<1>12. JoinAlone'
  BY <1>3, <1>11 DEF JoinAlone, Busy, Joining
<1>13. JoinLast'
  BY <1>3, <1>4, <1>6, <1>7, <1>11 DEF JoinLast, Joining
<1>14. QED
  BY <1>5, <1>8, <1>9, <1>10, <1>12, <1>13 DEF RInv

\* A join's row is its request's, drawn before, and the last of the queue unless
\* joins overlapped.
LEMMA CommitJoinKeeps ==
  ASSUME RInv, NEW m \in Members, NEW r \in {Idle, SecondClick(m)}, CommitJoin(m, r)
  PROVE  RInv'
<1>1. /\ TypeOK /\ row \in [Members -> Rows] /\ request[m].row \in Rows
      /\ request[m].at = "placed" /\ row' = Seen(m)
      /\ request' = [request EXCEPT ![m] = r]
      /\ UNCHANGED <<eventVars, nextTicket>>
  BY RowTypes DEF RInv, TypeOK, CommitJoin
<1>2. row' \in [Members -> Rows] /\ row'[m] = request[m].row
  BY <1>1 DEF Seen
<1>3. row'[m].ticket # 0
  BY <1>1, <1>2 DEF RInv, RequestsKnown, Joining
<1>4. QueueTypeOK' /\ excuse \subseteq excuse'
  <2>1. CASE request[m].joined
    <3> DEFINE kind == IF request[m].going THEN "rsvp_confirmed" ELSE "rsvp_waitlisted"
               n == IF r = Idle THEN 0 ELSE 1
    <3>1. Enqueue(kind, {m}, n)
      BY <2>1 DEF CommitJoin
    <3>2. kind \in SignUpKinds /\ kind \in Reasons /\ n \in Nat /\ {m} \in SUBSET Members
      BY DEF SignUpKinds, Reasons
    <3>3. \A k \in {m} : kind \in SignUpKinds /\ row'[k].ticket # 0
      BY <1>3, <3>2
    <3> HIDE DEF kind, n
    <3>4. QED
      BY <1>1, <1>2, <3>1, <3>2, <3>3, EnqueueFacts
  <2>2. CASE ~request[m].joined
    <3>1. UNCHANGED <<jobVars, historyVars>>
      BY <2>2 DEF CommitJoin
    <3>2. QED
      BY <1>1, <3>1 DEF TypeOK, QueueTypeOK
  <2>3. QED
    BY <2>1, <2>2
<1>5. request[m].at # "idle"
  BY <1>1
<1>6. QED
  BY <1>1, <1>4, <1>5, CommitKeeps

\* A withdrawal leaves the ticket on the row.
LEMMA CommitWithdrawKeeps ==
  ASSUME RInv, NEW m \in Members, CommitWithdraw(m)
  PROVE  RInv'
<1>1. /\ TypeOK /\ row \in [Members -> Rows] /\ request[m].row \in Rows /\ request[m] \in Requests
      /\ request[m].at = "counted" /\ row' = Seen(m)
      /\ request' = [request EXCEPT ![m] = Idle]
      /\ UNCHANGED <<eventVars, nextTicket>>
  BY RowTypes DEF RInv, TypeOK, CommitWithdraw
<1>2. /\ row' \in [Members -> Rows]
      /\ row'[m].ticket = row[m].ticket /\ row[m].state = "active"
      /\ \A n \in Members \ {m} : row'[n] = row[n]
  BY <1>1 DEF Seen, RInv, RequestsKnown, Leaving
<1>3. QueueTypeOK' /\ excuse \subseteq excuse'
  <2>1. CASE request[m].promoted # {}
    <3>1. Enqueue("promoted", request[m].promoted, 0)
      BY <2>1 DEF CommitWithdraw
    <3>2. request[m].promoted \in SUBSET Members
      BY <1>1 DEF Requests
    <3>3. \A k \in request[m].promoted : row'[k].ticket # 0
      BY <1>2, <3>2 DEF RInv, RequestsKnown, RowsDrawn
    <3>4. "promoted" \in SignUpKinds /\ "promoted" \in Reasons /\ 0 \in Nat
      BY DEF SignUpKinds, Reasons
    <3>5. QED
      BY <1>1, <1>2, <3>1, <3>2, <3>3, <3>4, EnqueueFacts
  <2>2. CASE request[m].promoted = {}
    <3>1. UNCHANGED <<jobVars, historyVars>>
      BY <2>2 DEF CommitWithdraw
    <3>2. QED
      BY <1>1, <3>1 DEF TypeOK, QueueTypeOK
  <2>3. QED
    BY <2>1, <2>2
<1>4. request[m].at # "idle" /\ Idle \in {Idle, SecondClick(m)} /\ Idle # SecondClick(m)
  BY <1>1 DEF Idle, SecondClick
<1>5. QED
  BY <1>1, <1>3, <1>4, CommitKeeps

\* A request that is rolled back leaves a gap in the sequence and nothing else.
LEMMA AbortKeeps ==
  ASSUME RInv, NEW m \in Members, Abort(m)
  PROVE  RInv'
<1>1. /\ request' \in [Members -> Requests]
      /\ request'[m] = Idle
      /\ \A n \in Members \ {m} : request'[n] = request[n]
  BY IdleType, RequestChanges DEF RInv, TypeOK, Abort
<1>2. UNCHANGED <<eventVars, rosterVars, jobVars, excuse>> /\ upsets' \in 0..MaxUpsets
  <2>1. upsets \in 0..MaxUpsets /\ upsets' = upsets + 1 /\ upsets' <= MaxUpsets
    BY DEF RInv, TypeOK, Abort, Upsets
  <2>2. upsets' \in 0..MaxUpsets
    BY <2>1, BoundAssumption
  <2>3. QED
    BY <2>2 DEF Abort
<1>3. TypeOK'
  BY <1>1, <1>2 DEF RInv, TypeOK
<1>4. Idle.at = "idle" /\ Idle.row.ticket = 0 /\ Idle.promoted = {}
  BY DEF Idle, NoRow
<1>5. \A n \in Members :
        /\ Tickets(n)' \subseteq Tickets(n) \cup {0}
        /\ Joining(n)' => request'[n] = request[n] /\ Joining(n)
        /\ Leaving(n)' => request'[n] = request[n] /\ Leaving(n)
        /\ request'[n].promoted \subseteq request[n].promoted
  BY <1>1, <1>2, <1>4 DEF Tickets, Joining, Leaving
<1>6. TicketsApart'
  <2>1. nextTicket \in Nat \ {0}
    BY RowTypes DEF RInv
  <2>2. 0 < nextTicket
    BY <2>1
  <2>3. QED
    BY <1>2, <1>5, <2>2 DEF RInv, TicketsApart
<1>7. RowsDrawn' /\ RequestsKnown'
  BY <1>2, <1>5 DEF RInv, RowsDrawn, RequestsKnown
<1>8. JoinAlone' /\ JoinLast'
  <2>1. Busy' \subseteq Busy /\ m \in Busy /\ m \notin Busy'
    BY <1>1, <1>4 DEF Busy, Abort
  <2>2. ASSUME "join overlaps" \notin excuse, NEW n \in Members, Joining(n) PROVE n = m
    <3>1. Busy = {n}
      BY <2>2 DEF RInv, JoinAlone
    <3>2. QED
      BY <2>1, <3>1
  <2>3. ~Joining(m)'
    BY <1>1, <1>4 DEF Joining
  <2>4. QED
    BY <1>2, <1>5, <2>2, <2>3 DEF JoinAlone, JoinLast
<1>9. QED
  BY <1>3, <1>6, <1>7, <1>8 DEF RInv

\* The organiser and the clock touch no row and no request.
LEMMA OutsideKeeps ==
  ASSUME RInv, UNCHANGED <<rosterVars, request>>, QueueTypeOK', excuse \subseteq excuse',
         series' \in Statuses, occurrence' \in Statuses, capacity' \in Capacities, clock' \in Clocks
  PROVE  RInv'
<1>1. TypeOK'
  BY DEF RInv, TypeOK, QueueTypeOK
<1>2. \A n \in Members : Tickets(n)' = Tickets(n) /\ Joining(n)' = Joining(n) /\ Leaving(n)' = Leaving(n)
  BY DEF Tickets, Joining, Leaving
<1>3. Busy' = Busy
  BY DEF Busy
<1>4. TicketsApart' /\ RowsDrawn' /\ RequestsKnown'
  BY <1>2 DEF RInv, TicketsApart, RowsDrawn, RequestsKnown
<1>5. JoinAlone' /\ JoinLast'
  BY <1>2, <1>3 DEF RInv, JoinAlone, JoinLast
<1>6. QED
  BY <1>1, <1>4, <1>5 DEF RInv

\* Cancelling an occurrence or a series leaves the rows alone.
LEMMA CancelKeeps ==
  ASSUME RInv, CancelOccurrence \/ CancelSeries
  PROVE  RInv'
<1>1. TypeOK /\ row \in [Members -> Rows] /\ row' = row
  BY DEF RInv, TypeOK, CancelOccurrence, CancelSeries
<1>2. PICK reason \in {"occurrence_cancelled", "series_cancelled"} : Enqueue(reason, {}, 1)
  BY DEF CancelOccurrence, CancelSeries
<1>3. reason \in Reasons /\ {} \in SUBSET Members /\ 1 \in Nat
  BY DEF Reasons
<1>4. QueueTypeOK' /\ excuse \subseteq excuse'
  BY <1>1, <1>2, <1>3, EnqueueFacts
<1>5. /\ UNCHANGED <<rosterVars, request, capacity, clock>>
      /\ series' \in Statuses /\ occurrence' \in Statuses
  BY <1>1 DEF TypeOK, Statuses, CancelOccurrence, CancelSeries
<1>6. capacity' \in Capacities /\ clock' \in Clocks
  BY <1>1, <1>5 DEF TypeOK
<1>7. QED
  BY <1>4, <1>5, <1>6, OutsideKeeps

\* A new capacity leaves the rows alone.
LEMMA UpdateSessionKeeps ==
  ASSUME RInv, NEW c \in Capacities, UpdateSession(c)
  PROVE  RInv'
<1>1. upsets' \in 0..MaxUpsets
  <2>1. upsets \in 0..MaxUpsets /\ upsets' = upsets + 1 /\ upsets' <= MaxUpsets
    BY DEF RInv, TypeOK, UpdateSession, Upsets
  <2>2. QED
    BY <2>1, BoundAssumption
<1>2. QueueTypeOK' /\ excuse \subseteq excuse'
  BY <1>1 DEF RInv, TypeOK, QueueTypeOK, UpdateSession
<1>3. QED
  BY <1>2, OutsideKeeps DEF RInv, TypeOK, UpdateSession

\* Time passing leaves the rows alone.
LEMMA TickKeeps ==
  ASSUME RInv, Tick
  PROVE  RInv'
<1>1. QueueTypeOK' /\ excuse \subseteq excuse'
  BY DEF RInv, TypeOK, QueueTypeOK, Tick
<1>2. QED
  BY <1>1, OutsideKeeps DEF RInv, TypeOK, Tick

\* Every step keeps the invariant: one lemma per action.
LEMMA NextKeepsRInv == RInv /\ [Next]_vars => RInv'
<1> SUFFICES ASSUME RInv, [Next]_vars PROVE RInv'
  OBVIOUS
<1>1. CASE UNCHANGED vars
  <2>1. QueueTypeOK'
    BY <1>1 DEF RInv, TypeOK, QueueTypeOK, vars
  <2>2. QED
    BY <1>1, <2>1, OutsideKeeps DEF RInv, TypeOK, vars
<1>2. CASE \E m \in Members : CommitJoin(m, Idle) \/ CommitJoin(m, SecondClick(m))
  BY <1>2, CommitJoinKeeps
<1>3. CASE \E m \in Members : DrawTicket(m) \/ ReadPlace(m) \/ StartWithdraw(m) \/ ReadAfter(m)
                              \/ CommitWithdraw(m) \/ Abort(m)
  BY <1>3, DrawTicketKeeps, ReadPlaceKeeps, StartWithdrawKeeps, ReadAfterKeeps,
     CommitWithdrawKeeps, AbortKeeps
<1>4. CASE CancelOccurrence \/ CancelSeries \/ (\E c \in Capacities : UpdateSession(c)) \/ Tick
  BY <1>4, CancelKeeps, UpdateSessionKeeps, TickKeeps
<1>5. QED
  BY <1>1, <1>2, <1>3, <1>4 DEF Next

\* The inductive invariant holds of every behaviour.
THEOREM RosterInvariant == Spec => []RInv
BY InitRInv, NextKeepsRInv, PTL DEF Spec

\* Every column has a value its table allows, whatever runs.
THEOREM RosterTypeCorrect == Spec => []TypeOK
<1>1. RInv => TypeOK
  BY DEF RInv
<1>2. QED
  BY <1>1, RosterInvariant, PTL

\* No two sign-ups hold one ticket, whatever overlaps.
THEOREM TicketsAreUnique == Spec => []TicketsUnique
<1>1. RInv => TicketsUnique
  BY DEF RInv, TicketsApart, Tickets, TicketsUnique
<1>2. QED
  BY <1>1, RosterInvariant, PTL

---------------------------------------------------------------------------
(* Order and places.                                                       *)

\* What has overlapped is not forgotten.
LEMMA ExcuseGrows == [Next]_vars => excuse \subseteq excuse'
<1> SUFFICES ASSUME [Next]_vars PROVE excuse \subseteq excuse'
  OBVIOUS
<1>1. ASSUME NEW reason, NEW users, NEW n, Enqueue(reason, users, n) PROVE excuse \subseteq excuse'
  BY <1>1 DEF Enqueue
<1>2. ASSUME NEW m \in Members,
             DrawTicket(m) \/ StartWithdraw(m) \/ ReadPlace(m) \/ ReadAfter(m) \/ Abort(m)
      PROVE  excuse \subseteq excuse'
  BY <1>2 DEF DrawTicket, StartWithdraw, ReadPlace, ReadAfter, Abort, Begin
<1>3. ASSUME NEW m \in Members, NEW r, CommitJoin(m, r) PROVE excuse \subseteq excuse'
  BY <1>1, <1>3 DEF CommitJoin
<1>4. ASSUME NEW m \in Members, CommitWithdraw(m) PROVE excuse \subseteq excuse'
  BY <1>1, <1>4 DEF CommitWithdraw
<1>5. CASE CancelOccurrence \/ CancelSeries
  BY <1>1, <1>5 DEF CancelOccurrence, CancelSeries
<1>6. CASE (\E c \in Capacities : UpdateSession(c)) \/ Tick \/ UNCHANGED vars
  BY <1>6 DEF UpdateSession, Tick, vars
<1>7. QED
  BY <1>2, <1>3, <1>4, <1>5, <1>6 DEF Next

\* Rows change only by the commit of one request, which has what it wrote.
LEMMA OneRowChanges ==
  ASSUME RInv, [Next]_vars
  PROVE  \/ row' = row
         \/ \E k \in Members :
              /\ request[k].at \in {"placed", "counted"}
              /\ row'[k] = request[k].row
              /\ \A n \in Members \ {k} : row'[n] = row[n]
              /\ capacity' = capacity
<1>0. row \in [Members -> Rows]
  BY DEF RInv, TypeOK
<1>1. ASSUME NEW k \in Members, row' = Seen(k)
      PROVE  row'[k] = request[k].row /\ \A n \in Members \ {k} : row'[n] = row[n]
  BY <1>0, <1>1 DEF Seen
<1>2. CASE \E k \in Members : CommitJoin(k, Idle) \/ CommitJoin(k, SecondClick(k)) \/ CommitWithdraw(k)
  <2>1. PICK k \in Members : /\ request[k].at \in {"placed", "counted"}
                             /\ row' = Seen(k) /\ capacity' = capacity
    BY <1>2 DEF CommitJoin, CommitWithdraw
  <2>2. QED
    BY <2>1, <1>1
<1>3. CASE \E k \in Members : DrawTicket(k) \/ ReadPlace(k) \/ StartWithdraw(k) \/ ReadAfter(k) \/ Abort(k)
  BY <1>3 DEF DrawTicket, ReadPlace, StartWithdraw, ReadAfter, Abort, Begin
<1>4. CASE \/ CancelOccurrence \/ CancelSeries \/ (\E c \in Capacities : UpdateSession(c))
           \/ Tick \/ UNCHANGED vars
  BY <1>4 DEF CancelOccurrence, CancelSeries, UpdateSession, Tick, vars
<1>5. QED
  BY <1>2, <1>3, <1>4 DEF Next

\* A commit writes an active row only for a join, and leaves the ticket of
\* whoever was in the queue.
LEMMA CommittedRow ==
  ASSUME RInv, NEW k \in Members, request[k].at \in {"placed", "counted"},
         request[k].row.state = "active"
  PROVE  Joining(k) /\ (row[k].state = "active" => request[k].row = row[k])
BY DEF RInv, RequestsKnown, Joining, Leaving

\* A step keeps the order of the queue.
LEMMA StepKeepsOrder ==
  ASSUME RInv, [Next]_vars
  PROVE  OrderKept
<1>1. ASSUME NEW m \in Queue(row'), NEW n \in Queue(row')
      PROVE  /\ {m, n} \subseteq Queue(row) =>
                  (row[m].ticket < row[n].ticket <=> row'[m].ticket < row'[n].ticket)
             /\ (m \notin Queue(row) /\ n \in Queue(row) /\ "join overlaps" \notin excuse) =>
                  row'[n].ticket < row'[m].ticket
  <2>0. m \in Members /\ n \in Members /\ row'[m].state = "active" /\ row'[n].state = "active"
    BY DEF Queue
  <2>1. CASE row' = row
    BY <2>1
  <2>2. ASSUME NEW k \in Members, request[k].at \in {"placed", "counted"},
               row'[k] = request[k].row, \A j \in Members \ {k} : row'[j] = row[j]
        PROVE  /\ {m, n} \subseteq Queue(row) =>
                    (row[m].ticket < row[n].ticket <=> row'[m].ticket < row'[n].ticket)
               /\ (m \notin Queue(row) /\ n \in Queue(row) /\ "join overlaps" \notin excuse) =>
                    row'[n].ticket < row'[m].ticket
    <3>1. \A j \in Members : row'[j].state = "active" /\ row[j].state = "active" => row'[j] = row[j]
      BY <2>2, CommittedRow
    <3>2. {m, n} \subseteq Queue(row) => row'[m] = row[m] /\ row'[n] = row[n]
      BY <2>0, <3>1 DEF Queue
    <3>3. ASSUME m \notin Queue(row), n \in Queue(row), "join overlaps" \notin excuse
          PROVE  row'[n].ticket < row'[m].ticket
      <4>1. m = k /\ row[m].state # "active" /\ row[n].state = "active" /\ n # k
        BY <2>0, <2>2, <3>3 DEF Queue
      <4>2. Joining(m)
        BY <2>0, <2>2, <4>1, CommittedRow
      <4>3. row[n].ticket < request[m].row.ticket
        BY <2>0, <3>3, <4>1, <4>2 DEF RInv, JoinLast
      <4>4. QED
        BY <2>0, <2>2, <4>1, <4>3
    <3>4. QED
      BY <3>2, <3>3
  <2>3. QED
    BY <2>1, <2>2, OneRowChanges
<1>2. Queue(row)' = Queue(row')
  BY DEF Queue
<1>3. QED
  BY <1>1, <1>2 DEF OrderKept

\* Those in the queue never change places, and who joins alone is the last.
THEOREM OrderIsKept == Spec => QueueKeepsOrder
<1>1. RInv /\ [Next]_vars => [OrderKept]_vars
  BY StepKeepsOrder
<1>2. QED
  BY <1>1, RosterInvariant, PTL DEF Spec, QueueKeepsOrder

\* Positions are numbers.
LEMMA PositionType ==
  ASSUME NEW rows, NEW m
  PROVE  /\ IsFiniteSet({n \in Queue(rows) : rows[n].ticket <= rows[m].ticket})
         /\ Position(rows, m) \in Nat
<1>1. {n \in Queue(rows) : rows[n].ticket <= rows[m].ticket} \in SUBSET Members
  BY DEF Queue
<1>2. IsFiniteSet({n \in Queue(rows) : rows[n].ticket <= rows[m].ticket})
  BY <1>1, FS_Subset, MembersAssumption
<1>3. QED
  BY <1>2, FS_CardinalityType DEF Position

\* Whoever has nobody new in front of them is still going.
LEMMA StillGoing ==
  ASSUME RInv, NEW rows, NEW rows2, NEW m \in Going(rows), rows2[m].state = "active",
         \A n \in Members :
           rows2[n].state = "active" /\ rows2[n].ticket <= rows2[m].ticket =>
             rows[n].state = "active" /\ rows[n].ticket <= rows[m].ticket
  PROVE  m \in Going(rows2)
<1>1. m \in Members /\ Position(rows, m) <= capacity /\ capacity \in Nat
  BY CapacityAssumption DEF Going, Queue, RInv, TypeOK
<1>2. {n \in Queue(rows2) : rows2[n].ticket <= rows2[m].ticket}
        \in SUBSET {n \in Queue(rows) : rows[n].ticket <= rows[m].ticket}
  BY DEF Queue
<1>3. Position(rows2, m) <= Position(rows, m)
  <2> DEFINE A == {n \in Queue(rows2) : rows2[n].ticket <= rows2[m].ticket}
             B == {n \in Queue(rows) : rows[n].ticket <= rows[m].ticket}
  <2>1. IsFiniteSet(B)
    BY PositionType
  <2>2. A \in SUBSET B
    BY <1>2
  <2>3. Cardinality(A) <= Cardinality(B)
    <3> HIDE DEF A, B
    <3>1. QED
      BY <2>1, <2>2, FS_Subset
  <2>4. QED
    BY <2>3 DEF Position
<1>4. Position(rows2, m) \in Nat /\ Position(rows, m) \in Nat
  BY PositionType
<1>5. Position(rows2, m) <= capacity
  BY <1>1, <1>3, <1>4
<1>6. QED
  BY <1>1, <1>5 DEF Going, Queue

\* A ticket that is later than another is not before it.
LEMMA LessIsNotMore == \A a, b \in Nat : a < b => ~ (b <= a)
OBVIOUS

\* A step that overlaps no join and changes no capacity takes no place away.
LEMMA StepKeepsPlaces ==
  ASSUME RInv, [Next]_vars, "join overlaps" \notin excuse, capacity' = capacity,
         NEW m \in Going(row), row'[m].state = "active"
  PROVE  m \in Going(row')
<1>0. m \in Members /\ row[m].state = "active"
  BY DEF Going, Queue
<1>1. CASE row' = row
  BY <1>1
<1>2. ASSUME NEW k \in Members, request[k].at \in {"placed", "counted"},
             row'[k] = request[k].row, \A j \in Members \ {k} : row'[j] = row[j]
      PROVE  m \in Going(row')
  <2>1. \A j \in Members : row'[j].state = "active" /\ row[j].state = "active" => row'[j] = row[j]
    BY <1>2, CommittedRow
  <2>2. row'[m] = row[m]
    BY <1>0, <2>1
  <2>3. ASSUME NEW n \in Members, row'[n].state = "active", row'[n].ticket <= row'[m].ticket
        PROVE  row[n].state = "active" /\ row[n].ticket <= row[m].ticket
    <3>1. CASE row[n].state = "active"
      <4>1. row'[n] = row[n]
        BY <2>1, <2>3, <3>1
      <4>2. row'[n].ticket = row[n].ticket /\ row'[m].ticket = row[m].ticket
        BY <2>2, <4>1
      <4>3. row[n].ticket <= row[m].ticket
        BY <2>3, <4>2
      <4>4. QED
        BY <3>1, <4>3
    <3>2. CASE row[n].state # "active"
      <4>1. n = k
        BY <1>2, <2>3, <3>2
      <4>2. Joining(n)
        BY <1>2, <2>3, <4>1, CommittedRow
      <4>3. row[m].ticket < row'[n].ticket
        BY <1>0, <1>2, <3>2, <4>1, <4>2 DEF RInv, JoinLast
      <4>4. row[m].ticket \in Nat /\ request[k].row.ticket \in Nat
        BY <1>0, <1>2, RowTypes DEF RInv
      <4>5. row'[n].ticket = request[k].row.ticket /\ row'[m].ticket = row[m].ticket
        BY <1>2, <2>2, <4>1
      <4>6. row[m].ticket < request[k].row.ticket /\ request[k].row.ticket <= row[m].ticket
        BY <2>3, <4>3, <4>5
      <4>7. QED
        BY <4>4, <4>6, LessIsNotMore
    <3>3. QED
      BY <3>1, <3>2
  <2>4. QED
    BY <2>3, StillGoing
<1>3. QED
  BY <1>1, <1>2, OneRowChanges

\* A step without overlapping joins or a new capacity leaves everyone the place they have.
LEMMA StepLeavesPlaces ==
  ASSUME RInv, [Next]_vars, excuse' \cap {"capacity", "join overlaps"} = {}
  PROVE  Kept
<1>1. "join overlaps" \notin excuse
  BY ExcuseGrows
<1>2. capacity' = capacity
  <2>1. ASSUME NEW k \in Members,
               DrawTicket(k) \/ ReadPlace(k) \/ StartWithdraw(k) \/ ReadAfter(k) \/ Abort(k)
        PROVE  capacity' = capacity
    BY <2>1 DEF DrawTicket, ReadPlace, StartWithdraw, ReadAfter, Abort, Begin
  <2>2. ASSUME NEW k \in Members, NEW r, CommitJoin(k, r) \/ CommitWithdraw(k)
        PROVE  capacity' = capacity
    BY <2>2 DEF CommitJoin, CommitWithdraw
  <2>3. CASE CancelOccurrence \/ CancelSeries \/ Tick \/ UNCHANGED vars
    BY <2>3 DEF CancelOccurrence, CancelSeries, Tick, vars
  <2>4. ~ \E c \in Capacities : UpdateSession(c)
    BY DEF UpdateSession
  <2>5. QED
    BY <2>1, <2>2, <2>3, <2>4 DEF Next
<1>3. ASSUME NEW m \in Going(row), row'[m] = row[m] PROVE m \in Going(row)'
  <2>1. row[m].state = "active"
    BY DEF Going, Queue
  <2>2. m \in Going(row')
    BY <1>1, <1>2, <1>3, <2>1, StepKeepsPlaces
  <2>3. QED
    BY <1>2, <2>2 DEF Going, Queue, Position
<1>4. QED
  BY <1>3 DEF Kept

\* Nobody loses a place but by leaving, whatever withdrawals overlap.
THEOREM PlacesAreKept == Spec => PlaceIsKept
<1>1. RInv /\ [Next]_vars => [excuse' \cap {"capacity", "join overlaps"} = {} => Kept]_vars
  BY StepLeavesPlaces
<1>2. QED
  BY <1>1, RosterInvariant, PTL DEF Spec, PlaceIsKept

---------------------------------------------------------------------------
(* Who is going was told.  Of a run without excuse: one request at a time, *)
(* no notice lost and no new capacity.                                     *)

OneRequest == \A m, n \in Busy : m = n

\* What the queue was sent is about tickets drawn; of those in the queue it
\* named exactly those who are going, and nobody twice.
NamedDrawn ==
  \A m \in Members, kind \in SignUpKinds, t \in 1..MaxTickets :
    <<m, kind, t>> \in named => t < nextTicket
Told(m) ==
  \/ <<m, "rsvp_confirmed", row[m].ticket>> \in named
  \/ <<m, "promoted", row[m].ticket>> \in named
NamedWhoGo == \A m \in Queue(row) : Told(m) <=> m \in Going(row)
NamedOnce ==
  \A m \in Members, t \in 1..MaxTickets :
    ~(<<m, "rsvp_confirmed", t>> \in named /\ <<m, "promoted", t>> \in named)

\* What a request read is still so, and a join's sign-up was not promoted.
ReadsTrue ==
  \A m \in Members :
    /\ request[m].at = "placed" => (request[m].going <=> m \in Going(Seen(m)))
    /\ Leaving(m) => request[m].before = Going(row)
    /\ request[m].at = "counted" => request[m].promoted = Going(Seen(m)) \ Going(row)
JoinsUnnamed ==
  \A m \in Members : Joining(m) =>
    /\ row[m].state # "active" =>
         \A kind \in SignUpKinds : <<m, kind, request[m].row.ticket>> \notin named
    /\ request[m].joined => <<m, "promoted", request[m].row.ticket>> \notin named

Calm == OneRequest /\ NamedDrawn /\ NamedWhoGo /\ NamedOnce /\ ReadsTrue /\ JoinsUnnamed
NInv == RInv /\ (excuse = {} => Calm)

\* The same rows and capacity, the same places.
LEMMA SameReading ==
  ASSUME capacity' = capacity, row' = row
  PROVE  /\ Going(row)' = Going(row) /\ Queue(row)' = Queue(row)
         /\ \A n \in Members : request'[n].row = request[n].row => Going(Seen(n))' = Going(Seen(n))
<1>1. Going(row)' = Going(row) /\ Queue(row)' = Queue(row)
  BY DEF Going, Queue, Position
<1>2. ASSUME NEW n \in Members, request'[n].row = request[n].row
      PROVE  Going(Seen(n))' = Going(Seen(n))
  <2>1. Seen(n)' = Seen(n)
    BY <1>2 DEF Seen
  <2>2. QED
    BY <2>1 DEF Going, Queue, Position
<1>3. QED
  BY <1>1, <1>2

\* A request that begins without an excuse is the only one.
LEMMA BeginsAlone ==
  ASSUME RInv, RInv', NEW m \in Members, NEW what, what.at # "idle", Begin(m, what), excuse' = {}
  PROVE  /\ request'[m] = what
         /\ \A n \in Members \ {m} : request'[n].at = "idle"
         /\ OneRequest'
         /\ UNCHANGED <<row, named, capacity>>
<1>1. request \in [Members -> Requests] /\ request' \in [Members -> Requests]
  BY DEF RInv, TypeOK
<1>2. request'[m] = what
  BY <1>1 DEF Begin
<1>3. what \in Requests
  BY <1>1, <1>2
<1>4. /\ \A n \in Members \ {m} : request'[n] = request[n]
      /\ Busy = {}
  BY <1>3, BeginFacts DEF RInv
<1>5. \A n \in Members \ {m} : request'[n].at = "idle"
  BY <1>4 DEF Busy
<1>6. QED
  BY <1>2, <1>5 DEF Begin, OneRequest, Busy

LEMMA DrawTicketCalm ==
  ASSUME RInv, RInv', Calm, NEW m \in Members, DrawTicket(m), excuse' = {}
  PROVE  Calm'
<1> DEFINE new == [state |-> "active", ticket |-> Ticket(m),
                   since |-> IF row[m].state = "none" THEN clock ELSE row[m].since]
           what == [Idle EXCEPT !.at = "joining", !.joined = row[m].state # "active", !.row = new]
<1>1. /\ what.at = "joining" /\ what.row = new /\ what.joined = (row[m].state # "active")
  BY DEF Idle
<1>2. new.ticket = Ticket(m)
  OBVIOUS
<1>3. Begin(m, what)
  BY DEF DrawTicket
<1> HIDE DEF what, new
<1>4. /\ request'[m] = what
      /\ \A n \in Members \ {m} : request'[n].at = "idle"
      /\ OneRequest'
      /\ UNCHANGED <<row, named, capacity>>
  BY <1>1, <1>3, BeginsAlone
<1>5. nextTicket \in Nat \ {0} /\ nextTicket <= nextTicket' /\ nextTicket' \in Nat
  BY RowTypes DEF RInv, DrawTicket
<1>6. NamedDrawn'
  BY <1>4, <1>5 DEF Calm, NamedDrawn
<1>7. NamedWhoGo' /\ NamedOnce'
  BY <1>4, SameReading DEF Calm, NamedWhoGo, NamedOnce, Told
<1>8. ReadsTrue'
  BY <1>1, <1>4 DEF ReadsTrue, Leaving
<1>9. JoinsUnnamed'
  <2>1. ASSUME row[m].state # "active", NEW kind \in SignUpKinds PROVE <<m, kind, Ticket(m)>> \notin named
    <3>1. Ticket(m) = nextTicket /\ Ticket(m) <= MaxTickets
      BY <2>1 DEF Ticket, DrawTicket
    <3>2. Ticket(m) \in 1..MaxTickets /\ ~(Ticket(m) < nextTicket)
      BY <3>1, <1>5, BoundAssumption
    <3>3. QED
      BY <3>2 DEF Calm, NamedDrawn
  <2>2. "promoted" \in SignUpKinds
    BY DEF SignUpKinds
  <2>3. QED
    BY <1>1, <1>2, <1>4, <2>1, <2>2 DEF JoinsUnnamed, Joining
<1>10. QED
  BY <1>4, <1>6, <1>7, <1>8, <1>9 DEF Calm

LEMMA StartWithdrawCalm ==
  ASSUME RInv, RInv', Calm, NEW m \in Members, StartWithdraw(m), excuse' = {}
  PROVE  Calm'
<1> DEFINE what == [Idle EXCEPT !.at = "leaving", !.row = [row[m] EXCEPT !.state = "withdrawn"],
                                !.before = Going(row)]
<1>1. what.at = "leaving" /\ what.before = Going(row)
  BY DEF Idle
<1>2. Begin(m, what) /\ UNCHANGED nextTicket
  BY DEF StartWithdraw
<1> HIDE DEF what
<1>3. /\ request'[m] = what
      /\ \A n \in Members \ {m} : request'[n].at = "idle"
      /\ OneRequest'
      /\ UNCHANGED <<row, named, capacity>>
  BY <1>1, <1>2, BeginsAlone
<1>4. NamedDrawn' /\ NamedWhoGo' /\ NamedOnce'
  BY <1>2, <1>3, SameReading DEF Calm, NamedDrawn, NamedWhoGo, NamedOnce, Told
<1>5. ReadsTrue'
  BY <1>1, <1>3, SameReading DEF ReadsTrue, Leaving
<1>6. JoinsUnnamed'
  BY <1>1, <1>3 DEF JoinsUnnamed, Joining
<1>7. QED
  BY <1>3, <1>4, <1>5, <1>6 DEF Calm

\* The reads, and a request rolled back.
LEMMA ReadCalm ==
  ASSUME RInv, RInv', Calm, NEW m \in Members, ReadPlace(m) \/ ReadAfter(m) \/ Abort(m)
  PROVE  Calm'
<1>1. /\ UNCHANGED <<row, named, capacity, nextTicket>> /\ request[m].at # "idle"
  BY DEF ReadPlace, ReadAfter, Abort
<1>2. request \in [Members -> Requests] /\ request[m] \in Requests
  BY DEF RInv, TypeOK
<1>3. \/ request'[m] = [request[m] EXCEPT !.at = "placed", !.going = m \in Going(Seen(m))]
         /\ request[m].at = "joining"
      \/ request'[m] = [request[m] EXCEPT !.at = "counted", !.promoted = Going(Seen(m)) \ request[m].before]
         /\ request[m].at = "leaving"
      \/ request'[m] = Idle
  BY <1>2 DEF ReadPlace, ReadAfter, Abort
<1>4. \A n \in Members \ {m} : request'[n] = request[n] /\ request[n].at = "idle"
  <2>1. \A n \in Members \ {m} : request'[n] = request[n]
    BY <1>2 DEF ReadPlace, ReadAfter, Abort
  <2>2. QED
    BY <1>1, <2>1 DEF Calm, OneRequest, Busy
<1>5. OneRequest'
  BY <1>4 DEF OneRequest, Busy
<1>6. NamedDrawn' /\ NamedWhoGo' /\ NamedOnce'
  BY <1>1, SameReading DEF Calm, NamedDrawn, NamedWhoGo, NamedOnce, Told
<1>7. CASE request'[m] = Idle
  <2>1. \A n \in Members : request'[n].at = "idle"
    BY <1>4, <1>7 DEF Idle
  <2>2. ReadsTrue' /\ JoinsUnnamed'
    BY <2>1 DEF ReadsTrue, JoinsUnnamed, Joining, Leaving
  <2>3. QED
    BY <1>5, <1>6, <2>2 DEF Calm
<1>8. CASE request'[m] = [request[m] EXCEPT !.at = "placed", !.going = m \in Going(Seen(m))]
           /\ request[m].at = "joining"
  <2>1. /\ request'[m].at = "placed" /\ (request'[m].going <=> m \in Going(Seen(m)))
        /\ request'[m].row = request[m].row /\ request'[m].joined = request[m].joined
    BY <1>2, <1>8 DEF Requests
  <2>2. ReadsTrue'
    BY <1>1, <1>4, <2>1, SameReading DEF ReadsTrue, Leaving
  <2>3. JoinsUnnamed'
    BY <1>1, <1>4, <1>8, <2>1 DEF Calm, JoinsUnnamed, Joining
  <2>4. QED
    BY <1>5, <1>6, <2>2, <2>3 DEF Calm
<1>9. CASE request'[m] = [request[m] EXCEPT !.at = "counted", !.promoted = Going(Seen(m)) \ request[m].before]
           /\ request[m].at = "leaving"
  <2>1. /\ request'[m].at = "counted" /\ request'[m].promoted = Going(Seen(m)) \ request[m].before
        /\ request'[m].row = request[m].row /\ request'[m].before = request[m].before
    BY <1>2, <1>9 DEF Requests
  <2>2. request[m].before = Going(row)
    BY <1>9 DEF Calm, ReadsTrue, Leaving
  <2>3. ReadsTrue'
    BY <1>1, <1>4, <2>1, <2>2, SameReading DEF ReadsTrue, Leaving
  <2>4. JoinsUnnamed'
    BY <1>1, <1>4, <2>1 DEF JoinsUnnamed, Joining
  <2>5. QED
    BY <1>5, <1>6, <2>3, <2>4 DEF Calm
<1>10. QED
  BY <1>3, <1>7, <1>8, <1>9

\* The view over the rows that are now there.
LEMMA NextPlaces ==
  ASSUME capacity' = capacity
  PROVE  Going(row)' = Going(row') /\ Queue(row)' = Queue(row')
BY DEF Going, Queue, Position

\* A join with the last ticket moves nobody else's place, either way.
LEMMA LastMovesNobody ==
  ASSUME RInv, NEW m \in Members, row' = Seen(m), Joining(m), row[m].state # "active",
         "join overlaps" \notin excuse, NEW n \in Members \ {m}
  PROVE  n \in Going(row) <=> n \in Going(row')
<1>1. row'[m] = request[m].row /\ \A j \in Members \ {m} : row'[j] = row[j]
  BY DEF Seen, RInv, TypeOK
<1>2. ASSUME row[n].state = "active" PROVE ~(row'[m].ticket <= row'[n].ticket)
  <2>1. row[n].ticket < request[m].row.ticket
    BY <1>2 DEF RInv, JoinLast
  <2>2. row[n].ticket \in Nat /\ request[m].row.ticket \in Nat
    BY RowTypes DEF RInv
  <2>3. ~(request[m].row.ticket <= row[n].ticket)
    BY <2>1, <2>2, LessIsNotMore
  <2>4. QED
    BY <1>1, <2>3
<1>3. ASSUME n \in Going(row) PROVE n \in Going(row')
  <2>1. row[n].state = "active" /\ row'[n].state = "active"
    BY <1>1, <1>3 DEF Going, Queue
  <2>2. ASSUME NEW j \in Members, row'[j].state = "active", row'[j].ticket <= row'[n].ticket
        PROVE  row[j].state = "active" /\ row[j].ticket <= row[n].ticket
    <3>1. j # m
      BY <1>2, <2>1, <2>2
    <3>2. row'[j] = row[j] /\ row'[n] = row[n]
      BY <1>1, <3>1
    <3>3. QED
      BY <2>2, <3>2
  <2>3. QED
    BY <1>3, <2>1, <2>2, StillGoing
<1>4. ASSUME n \in Going(row') PROVE n \in Going(row)
  <2>1. row[n].state = "active"
    BY <1>1, <1>4 DEF Going, Queue
  <2>2. ASSUME NEW j \in Members, row[j].state = "active", row[j].ticket <= row[n].ticket
        PROVE  row'[j].state = "active" /\ row'[j].ticket <= row'[n].ticket
    <3>1. row'[j] = row[j] /\ row'[n] = row[n]
      BY <1>1, <2>2
    <3>2. QED
      BY <2>2, <3>1
  <2>3. QED
    BY <1>4, <2>1, <2>2, StillGoing
<1>5. QED
  BY <1>3, <1>4

\* What a committed join queues, when nothing is lost.
LEMMA JoinQueues ==
  ASSUME RInv, NEW m \in Members, NEW r \in {Idle, SecondClick(m)}, CommitJoin(m, r), excuse' = {}
  PROVE  named' = named \cup
           {<<m, kind, row'[m].ticket>> : kind \in
              IF request[m].joined
              THEN {IF request[m].going THEN "rsvp_confirmed" ELSE "rsvp_waitlisted"} ELSE {}}
<1>1. /\ TypeOK /\ row' \in [Members -> Rows] /\ row'[m] = request[m].row
      /\ request[m].row.ticket # 0
  BY RowTypes DEF RInv, TypeOK, CommitJoin, Seen, RequestsKnown, Joining
<1>2. CASE request[m].joined
  <2> DEFINE kind == IF request[m].going THEN "rsvp_confirmed" ELSE "rsvp_waitlisted"
             n == IF r = Idle THEN 0 ELSE 1
  <2>1. Enqueue(kind, {m}, n)
    BY <1>2 DEF CommitJoin
  <2>2. kind \in SignUpKinds /\ kind \in Reasons /\ n \in Nat /\ {m} \in SUBSET Members
    BY DEF SignUpKinds, Reasons
  <2>3. \A k \in {m} : kind \in SignUpKinds /\ row'[k].ticket # 0
    BY <1>1, <2>2
  <2> HIDE DEF kind, n
  <2>4. named' = named \cup {<<k, kind, row'[k].ticket>> : k \in {m}}
    BY <1>1, <2>1, <2>2, <2>3, EnqueueFacts
  <2>5. named' = named \cup {<<m, kind, row'[m].ticket>>}
    BY <2>4
  <2>6. QED
    BY <1>2, <2>5 DEF kind
<1>3. CASE ~request[m].joined
  <2>1. named' = named
    BY <1>3 DEF CommitJoin
  <2>2. QED
    BY <1>3, <2>1
<1>4. QED
  BY <1>2, <1>3

\* A join commits: it names who joined if they go, and moves nobody else.
LEMMA CommitJoinCalm ==
  ASSUME RInv, Calm, NEW m \in Members, NEW r \in {Idle, SecondClick(m)},
         r = Idle \/ row[m].state = "none", CommitJoin(m, r), excuse = {}, excuse' = {}
  PROVE  Calm'
<1> DEFINE kind == IF request[m].going THEN "rsvp_confirmed" ELSE "rsvp_waitlisted"
           t == request[m].row.ticket
<1>1. /\ row \in [Members -> Rows] /\ request \in [Members -> Requests]
      /\ row' = Seen(m) /\ request[m].at = "placed" /\ Joining(m)
      /\ request' = [request EXCEPT ![m] = r] /\ UNCHANGED <<capacity, nextTicket>>
  BY DEF RInv, TypeOK, CommitJoin, Joining
<1>2. /\ row'[m] = request[m].row /\ row'[m].state = "active"
      /\ row[m].state = "active" => row' = row
      /\ row[m].state # "active" => request[m].joined
      /\ \A n \in Members \ {m} : row'[n] = row[n]
  BY <1>1 DEF Seen, RInv, RequestsKnown
<1>3. request[m].going <=> m \in Going(row')
  BY <1>1 DEF Calm, ReadsTrue
<1>4. /\ \A x : x \in named' <=> x \in named \/ (request[m].joined /\ x = <<m, kind, t>>)
      /\ t < nextTicket
  <2>1. \A x : x \in named' <=> x \in named \/ (request[m].joined /\ x = <<m, kind, row'[m].ticket>>)
    BY JoinQueues
  <2>2. t < nextTicket
    BY DEF RInv, TicketsApart, Tickets
  <2>3. QED
    BY <1>2, <2>1, <2>2
<1>5. request[m].joined => <<m, "promoted", t>> \notin named
  BY <1>1 DEF Calm, JoinsUnnamed
<1>6. row[m].state # "active" => <<m, "promoted", t>> \notin named /\ <<m, "rsvp_confirmed", t>> \notin named
  BY <1>1 DEF Calm, JoinsUnnamed, SignUpKinds
<1>7. \A n \in Members \ {m} : n \in Going(row) <=> n \in Going(row')
  BY <1>1, <1>2, LastMovesNobody
<1>8. /\ r.at = "idle" \/ (r.at = "joining" /\ r.row = request[m].row)
      /\ request'[m] = r
      /\ \A n \in Members \ {m} : request'[n].at = "idle"
  <2>1. Idle.at = "idle" /\ SecondClick(m).at = "joining" /\ SecondClick(m).row = request[m].row
    BY DEF Idle, SecondClick
  <2>2. m \in Busy /\ \A n \in Members \ {m} : request'[n] = request[n]
    BY <1>1 DEF Busy
  <2>3. \A n \in Members \ {m} : request[n].at = "idle"
    BY <2>2 DEF Calm, OneRequest, Busy
  <2>4. QED
    BY <1>1, <2>1, <2>2, <2>3
<1> HIDE DEF t
<1>9. OneRequest'
  BY <1>8 DEF OneRequest, Busy
<1>10. NamedDrawn'
  BY <1>1, <1>4 DEF Calm, NamedDrawn
<1>11. NamedOnce'
  <2>1. ASSUME NEW n \in Members, NEW s \in 1..MaxTickets,
               <<n, "rsvp_confirmed", s>> \in named', <<n, "promoted", s>> \in named'
        PROVE  FALSE
    <3>1. <<n, "promoted", s>> \in named
      BY <1>4, <2>1
    <3>2. <<n, "rsvp_confirmed", s>> \notin named
      BY <2>1, <3>1 DEF Calm, NamedOnce
    <3>3. request[m].joined /\ n = m /\ s = t
      BY <1>4, <2>1, <3>2
    <3>4. QED
      BY <1>5, <3>1, <3>3
  <2>2. QED
    BY <2>1 DEF NamedOnce
<1>12. NamedWhoGo'
  <2>1. ASSUME NEW n \in Queue(row') PROVE Told(n)' <=> n \in Going(row')
    <3>0. n \in Members /\ row'[n].state = "active"
      BY DEF Queue
    <3>1. CASE n # m
      <4>1. Told(n)' <=> Told(n)
        BY <1>2, <1>4, <3>0, <3>1 DEF Told
      <4>2. n \in Queue(row)
        BY <1>2, <3>0, <3>1 DEF Queue
      <4>3. QED
        BY <1>7, <3>0, <3>1, <4>1, <4>2 DEF Calm, NamedWhoGo
    <3>2. CASE n = m /\ row[m].state # "active"
      <4>1. Told(m)' <=> request[m].going
        BY <1>2, <1>4, <1>6, <3>2 DEF Told, t
      <4>2. QED
        BY <1>3, <3>2, <4>1
    <3>3. CASE n = m /\ row[m].state = "active"
      <4>1. Told(m) <=> m \in Going(row)
        BY <3>3 DEF Calm, NamedWhoGo, Queue
      <4>2. Told(m)' <=> Told(m) \/ (request[m].joined /\ request[m].going)
        BY <1>2, <1>4, <3>3 DEF Told, t
      <4>3. QED
        BY <1>2, <1>3, <3>3, <4>1, <4>2
    <3>4. QED
      BY <3>1, <3>2, <3>3
  <2>2. QED
    BY <1>1, <2>1, NextPlaces DEF NamedWhoGo
<1>13. ReadsTrue'
  BY <1>8 DEF ReadsTrue, Leaving
<1>14. JoinsUnnamed'
  <2>1. r.at = "idle" \/ request[m].joined
    BY <1>2 DEF Idle
  <2>2. request[m].joined => <<m, "promoted", t>> \notin named'
    BY <1>4, <1>5
  <2>3. QED
    BY <1>2, <1>8, <2>1, <2>2 DEF JoinsUnnamed, Joining, t
<1>15. QED
  BY <1>9, <1>10, <1>11, <1>12, <1>13, <1>14 DEF Calm

\* What a committed withdrawal queues, when nothing is lost.
LEMMA WithdrawQueues ==
  ASSUME RInv, NEW m \in Members, CommitWithdraw(m), excuse' = {}
  PROVE  named' = named \cup {<<n, "promoted", row'[n].ticket>> : n \in request[m].promoted}
<1>1. /\ TypeOK /\ row \in [Members -> Rows] /\ request[m].row \in Rows
      /\ request[m].promoted \in SUBSET Members
      /\ request[m].at = "counted" /\ row' = Seen(m)
  BY RowTypes DEF RInv, TypeOK, CommitWithdraw, Requests
<1>2. /\ row' \in [Members -> Rows]
      /\ \A n \in Members : row'[n].ticket = row[n].ticket
  BY <1>1 DEF Seen, RInv, RequestsKnown, Leaving
<1>3. CASE request[m].promoted # {}
  <2>1. Enqueue("promoted", request[m].promoted, 0)
    BY <1>3 DEF CommitWithdraw
  <2>2. "promoted" \in SignUpKinds /\ "promoted" \in Reasons /\ 0 \in Nat
    BY DEF SignUpKinds, Reasons
  <2>3. \A k \in request[m].promoted : "promoted" \in SignUpKinds /\ row'[k].ticket # 0
    BY <1>1, <1>2, <2>2 DEF RInv, RequestsKnown, RowsDrawn
  <2>4. QED
    BY <1>1, <1>2, <2>1, <2>2, <2>3, EnqueueFacts
<1>4. CASE request[m].promoted = {}
  <2>1. named' = named
    BY <1>4 DEF CommitWithdraw
  <2>2. QED
    BY <1>4, <2>1
<1>5. QED
  BY <1>3, <1>4

\* A withdrawal commits: it names those it let in, and nobody it did not.
LEMMA CommitWithdrawCalm ==
  ASSUME RInv, Calm, NEW m \in Members, CommitWithdraw(m), excuse' = {}
  PROVE  Calm'
<1> DEFINE new == Going(row') \ Going(row)
<1>1. /\ row \in [Members -> Rows] /\ request \in [Members -> Requests]
      /\ row' = Seen(m) /\ request[m].at = "counted" /\ Leaving(m)
      /\ request' = [request EXCEPT ![m] = Idle] /\ UNCHANGED <<capacity, nextTicket>>
  BY DEF RInv, TypeOK, CommitWithdraw, Leaving
<1>2. /\ row'[m].state = "withdrawn"
      /\ \A n \in Members \ {m} : row'[n] = row[n]
  BY <1>1 DEF Seen, RInv, RequestsKnown
<1>3. \A x : x \in named' <=> x \in named \/ \E n \in new : x = <<n, "promoted", row'[n].ticket>>
  <2>1. request[m].promoted = new
    BY <1>1 DEF Calm, ReadsTrue
  <2>2. QED
    BY <2>1, WithdrawQueues
<1>4. \A n \in Queue(row') : n \in Members \ {m} /\ n \in Queue(row) /\ row'[n] = row[n]
  BY <1>2 DEF Queue
<1>5. \A n \in new : n \in Queue(row') /\ n \notin Going(row)
  BY DEF Going
<1>6. \A n \in Queue(row') : n \in Going(row) => n \in Going(row')
  <2>1. ASSUME NEW n \in Queue(row'), n \in Going(row) PROVE n \in Going(row')
    <3>1. \A j \in Members : row'[j].state = "active" => row'[j] = row[j]
      BY <1>2
    <3>2. row'[n].state = "active" /\ row'[n] = row[n]
      BY <1>4 DEF Queue
    <3>3. QED
      BY <2>1, <3>1, <3>2, StillGoing
  <2>2. QED
    BY <2>1
<1>7. \A n \in Queue(row') : Told(n) <=> n \in Going(row)
  BY <1>4 DEF Calm, NamedWhoGo
<1> HIDE DEF new
<1>8. \A n \in Members : request'[n].at = "idle"
  <2>1. m \in Busy /\ \A n \in Members \ {m} : request'[n] = request[n]
    BY <1>1 DEF Busy
  <2>2. \A n \in Members \ {m} : request[n].at = "idle"
    BY <2>1 DEF Calm, OneRequest, Busy
  <2>3. request'[m] = Idle /\ Idle.at = "idle"
    BY <1>1 DEF Idle
  <2>4. QED
    BY <2>1, <2>2, <2>3
<1>9. OneRequest' /\ ReadsTrue' /\ JoinsUnnamed'
  BY <1>8 DEF OneRequest, Busy, ReadsTrue, JoinsUnnamed, Joining, Leaving
<1>10. NamedDrawn'
  <2>1. \A n \in new : row'[n].ticket < nextTicket
    BY <1>4, <1>5 DEF RInv, TicketsApart, Tickets
  <2>2. ASSUME NEW n \in Members, NEW k \in SignUpKinds, NEW s \in 1..MaxTickets, <<n, k, s>> \in named'
        PROVE  s < nextTicket
    <3>1. CASE <<n, k, s>> \in named
      BY <3>1 DEF Calm, NamedDrawn
    <3>2. CASE \E j \in new : <<n, k, s>> = <<j, "promoted", row'[j].ticket>>
      BY <2>1, <3>2
    <3>3. QED
      BY <1>3, <2>2, <3>1, <3>2
  <2>3. QED
    BY <1>1, <2>2 DEF NamedDrawn
<1>11. NamedOnce'
  <2>1. ASSUME NEW n \in Members, NEW s \in 1..MaxTickets,
               <<n, "rsvp_confirmed", s>> \in named', <<n, "promoted", s>> \in named'
        PROVE  FALSE
    <3>1. <<n, "rsvp_confirmed", s>> \in named
      BY <1>3, <2>1
    <3>2. <<n, "promoted", s>> \notin named
      BY <3>1 DEF Calm, NamedOnce
    <3>3. n \in new /\ s = row'[n].ticket
      BY <1>3, <2>1, <3>2
    <3>4. Told(n)
      BY <1>4, <1>5, <3>1, <3>3 DEF Told
    <3>5. QED
      BY <1>5, <1>7, <3>3, <3>4
  <2>2. QED
    BY <2>1 DEF NamedOnce
<1>12. NamedWhoGo'
  <2>1. ASSUME NEW n \in Queue(row') PROVE Told(n)' <=> n \in Going(row')
    <3>1. Told(n)' <=> Told(n) \/ n \in new
      BY <1>3, <1>4 DEF Told
    <3>2. n \in new <=> n \in Going(row') /\ n \notin Going(row)
      BY DEF new
    <3>3. QED
      BY <1>6, <1>7, <3>1, <3>2
  <2>2. QED
    BY <1>1, <2>1, NextPlaces DEF NamedWhoGo
<1>13. QED
  BY <1>9, <1>10, <1>11, <1>12 DEF Calm

\* A step that changes nothing Calm reads.
LEMMA NothingMovesCalm ==
  ASSUME Calm, UNCHANGED <<row, request, capacity, nextTicket, named>>
  PROVE  Calm'
<1>1. /\ Going(row)' = Going(row) /\ Queue(row)' = Queue(row)
      /\ \A n \in Members : Going(Seen(n))' = Going(Seen(n))
  BY SameReading
<1>2. OneRequest' /\ NamedDrawn' /\ NamedOnce' /\ JoinsUnnamed'
  BY DEF Calm, OneRequest, Busy, NamedDrawn, NamedOnce, JoinsUnnamed, Joining
<1>3. NamedWhoGo' /\ ReadsTrue'
  BY <1>1 DEF Calm, NamedWhoGo, Told, ReadsTrue, Leaving
<1>4. QED
  BY <1>2, <1>3 DEF Calm

\* The organiser and the clock name nobody.
LEMMA OutsideCalm ==
  ASSUME Calm, CancelOccurrence \/ CancelSeries \/ Tick \/ UNCHANGED vars
  PROVE  Calm'
<1>1. UNCHANGED <<row, request, capacity, nextTicket>>
  BY DEF CancelOccurrence, CancelSeries, Tick, vars
<1>2. named' = named
  <2>1. ASSUME NEW reason \in {"occurrence_cancelled", "series_cancelled"}, Enqueue(reason, {}, 1)
        PROVE  named' = named
    BY <2>1 DEF Enqueue
  <2>2. QED
    BY <2>1 DEF CancelOccurrence, CancelSeries, Tick, vars
<1>3. QED
  BY <1>1, <1>2, NothingMovesCalm

\* Every step keeps it, or leaves an excuse.
LEMMA NextKeepsNInv == NInv /\ [Next]_vars => NInv'
<1> SUFFICES ASSUME NInv, [Next]_vars PROVE NInv'
  OBVIOUS
<1>1. RInv /\ RInv'
  BY NextKeepsRInv DEF NInv
<1>2. ASSUME excuse' = {} PROVE Calm'
  <2>1. excuse = {} /\ Calm
    BY <1>2, ExcuseGrows DEF NInv
  <2>2. CASE \E m \in Members : \/ CommitJoin(m, Idle)
                                \/ row[m].state = "none" /\ CommitJoin(m, SecondClick(m))
    BY <1>1, <1>2, <2>1, <2>2, CommitJoinCalm
  <2>3. CASE \E m \in Members : DrawTicket(m) \/ StartWithdraw(m) \/ ReadPlace(m) \/ ReadAfter(m)
                                \/ CommitWithdraw(m) \/ Abort(m)
    BY <1>1, <1>2, <2>1, <2>3, DrawTicketCalm, StartWithdrawCalm, ReadCalm, CommitWithdrawCalm
  <2>4. CASE CancelOccurrence \/ CancelSeries \/ Tick \/ UNCHANGED vars
    BY <1>1, <1>2, <2>1, <2>4, OutsideCalm
  <2>5. ~ \E c \in Capacities : UpdateSession(c)
    BY <1>2 DEF UpdateSession
  <2>6. QED
    BY <2>2, <2>3, <2>4, <2>5 DEF Next
<1>3. QED
  BY <1>1, <1>2 DEF NInv

\* It holds at the start, when nobody is in the queue.
LEMMA InitNInv == Init => NInv
<1> SUFFICES ASSUME Init PROVE Calm
  BY InitRInv DEF NInv
<1>1. \A m \in Members : row[m].state = "none" /\ request[m].at = "idle"
  BY DEF Init, NoRow, Idle
<1>2. OneRequest /\ ReadsTrue /\ JoinsUnnamed /\ NamedWhoGo
  BY <1>1 DEF OneRequest, Busy, ReadsTrue, JoinsUnnamed, Joining, Leaving, NamedWhoGo, Queue
<1>3. NamedDrawn /\ NamedOnce
  BY DEF Init, NamedDrawn, NamedOnce
<1>4. QED
  BY <1>2, <1>3 DEF Calm

\* And it says what was promised.
LEMMA CalmNames == NInv => GoingAreNamed
<1> SUFFICES ASSUME NInv, excuse = {}
             PROVE  /\ Named
                    /\ \A m \in Members, t \in 1..MaxTickets :
                         ~ {<<m, "rsvp_confirmed", t>>, <<m, "promoted", t>>} \subseteq named
  BY DEF GoingAreNamed
<1>1. \A m \in Going(row) : Told(m)
  BY DEF NInv, Calm, NamedWhoGo, Going
<1>2. Named
  BY <1>1 DEF Named, Told
<1>3. \A m \in Members, t \in 1..MaxTickets :
        ~ {<<m, "rsvp_confirmed", t>>, <<m, "promoted", t>>} \subseteq named
  BY DEF NInv, Calm, NamedOnce
<1>4. QED
  BY <1>2, <1>3

\* Whoever is going had a notice queued that says so, and only one, in every run
\* of one request at a time that loses no notice and changes no capacity.
THEOREM WhoGoesWasTold == Spec => []GoingAreNamed
BY InitNInv, NextKeepsNInv, CalmNames, PTL DEF Spec
=============================================================================
