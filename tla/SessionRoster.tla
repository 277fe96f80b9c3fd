--------------------------- MODULE SessionRoster ---------------------------
(***************************************************************************)
(* One occurrence of a play session: members join and leave it, and who is *)
(* going is the order of their arrival tickets.  Nothing is written to     *)
(* anybody here: a request that has committed queues the notices it owes,  *)
(* and SessionNotices has the worker that sends them.                      *)
(*                                                                         *)
(* Grain.  A web request's transaction is three steps: the statement that  *)
(* writes its row, the read it answers from, and the commit that shows the *)
(* row to others (READ COMMITTED: a read sees the transaction's own write  *)
(* and what others have committed).  A member has one request open at a    *)
(* time: a second one waits for the lock on the member's row, or, when a   *)
(* first join is submitted twice, for the first one's insert.              *)
(***************************************************************************)
EXTENDS Integers, FiniteSets, Sequences

CONSTANTS
  Members,      \* the accounts that join and leave
  Capacities,   \* play_sessions.capacity; NULL is a number no less than |Members|
  Clocks,       \* how far off the start may be: 1 is more than a day
  RetryLimit,   \* MAIL_RETRY.retryLimit
  MaxOpen,      \* bound: how many requests are open at the same time
  MaxTickets,   \* bound: how often anybody joins afresh
  MaxUpsets     \* bound: how often anything that calls Upsets happens

ASSUME MembersAssumption == IsFiniteSet(Members)
ASSUME CapacityAssumption == Capacities # {} /\ Capacities \subseteq Nat \ {0}
ASSUME ClockAssumption == Clocks # {} /\ Clocks \subseteq 1..4
ASSUME BoundAssumption ==
  /\ RetryLimit \in Nat /\ MaxOpen \in Nat /\ MaxTickets \in Nat /\ MaxUpsets \in Nat

VARIABLES
  series,       \* play_sessions.status
  occurrence,   \* play_session_occurrences.status
  capacity,     \* play_sessions.capacity
  clock,        \* how far off the start is
  row,          \* play_session_rsvps
  nextTicket,   \* play_session_rsvp_seq
  request,      \* the open transaction of each member
  jobs,         \* session.notify jobs in the queue, in the order they were sent
  named,        \* history: the sign-ups a queued job was about
  upsets,       \* counts towards MaxUpsets
  excuse        \* history: what has happened that may leave a member unnamed

eventVars == <<series, occurrence, capacity, clock>>
rosterVars == <<row, nextTicket>>
jobVars == <<jobs, named>>
historyVars == <<upsets, excuse>>
vars == <<eventVars, rosterVars, request, jobVars, historyVars>>

---------------------------------------------------------------------------
(* The tables.                                                             *)

\* Within 24 hours of the start, within 2, and from then on.
Day == 2
Near == 3
Started == 4

Statuses == {"scheduled", "cancelled"}

\* `since` is created_at: it does not move when a member comes back.
Rows == [state : {"none", "active", "withdrawn"}, ticket : 0..MaxTickets, since : 0..Started]
NoRow == [state |-> "none", ticket |-> 0, since |-> 0]

\* The kinds that are about one sign-up, and the reasons a job is queued for.
SignUpKinds == {"rsvp_confirmed", "rsvp_waitlisted", "promoted"}
Reasons == SignUpKinds \cup {"occurrence_cancelled", "series_cancelled"}

\* `later` is a job that waits for a time of its own: a retry, or one deferred.
Jobs == [reason : Reasons, users : SUBSET Members, tries : 0..RetryLimit, later : BOOLEAN]

Requests == [at : {"idle", "joining", "placed", "leaving", "counted"}, row : Rows,
             joined : BOOLEAN, going : BOOLEAN, before : SUBSET Members,
             promoted : SUBSET Members]
Idle == [at |-> "idle", row |-> NoRow, joined |-> FALSE, going |-> FALSE,
         before |-> {}, promoted |-> {}]

Init ==
  /\ series = "scheduled"
  /\ occurrence = "scheduled"
  /\ capacity \in Capacities
  /\ clock \in Clocks /\ \A c \in Clocks : clock <= c
  /\ row = [m \in Members |-> NoRow]
  /\ nextTicket = 1
  /\ request = [m \in Members |-> Idle]
  /\ jobs = <<>>
  /\ named = {}
  /\ upsets = 0
  /\ excuse = {}

---------------------------------------------------------------------------
(* Who is going: the view play_session_rsvp_positions over the rows a      *)
(* transaction sees.                                                       *)

Queue(rows) == {m \in Members : rows[m].state = "active"}
Position(rows, m) == Cardinality({n \in Queue(rows) : rows[n].ticket <= rows[m].ticket})
Going(rows) == {m \in Queue(rows) : Position(rows, m) <= capacity}

\* What member m's transaction reads: its own row as it wrote it.
Seen(m) == [row EXCEPT ![m] = request[m].row]

Open == occurrence = "scheduled" /\ clock # Started

Busy == {m \in Members : request[m].at # "idle"}

\* A request begins; if others are open, what overlaps is remembered.
Begin(m, what) ==
  /\ request[m].at = "idle"
  /\ Cardinality(Busy) < MaxOpen
  /\ request' = [request EXCEPT ![m] = what]
  /\ excuse' = excuse \cup
       {e \in {"join overlaps", "withdrawals overlap"} :
          /\ Busy # {}
          /\ (e = "join overlaps") <=> \E n \in Members : request'[n].at \in {"joining", "placed"}}
  /\ UNCHANGED <<eventVars, row, jobVars, upsets>>

\* What disturbs a run: a request that dies, a notice that is not queued, the
\* organiser's hand; and in SessionNotices a relay or a budget that refuses.
Upsets(n) == upsets + n <= MaxUpsets /\ upsets' = upsets + n

\* Best effort after the commit: a queue that is down loses the notice.
Enqueue(reason, users, n) ==
  \/ /\ jobs' = Append(jobs, [reason |-> reason, users |-> users, tries |-> 0, later |-> FALSE])
     /\ named' = named \cup {<<m, reason, row'[m].ticket>> : m \in users}
     /\ Upsets(n)
     /\ UNCHANGED excuse
  \/ /\ Upsets(n + 1)
     /\ excuse' = excuse \cup {"enqueue"}
     /\ UNCHANGED jobVars

---------------------------------------------------------------------------
(* A member joins or leaves.                                               *)

\* Mutants: the column without its default; a number counted up from the rows; a
\* return that keeps its ticket; a repeat that draws a new one.
Ticket_NoDefault(m) == row[m].ticket
Ticket_MaxPlusOne(m) ==
  IF row[m].state = "active" THEN row[m].ticket
  ELSE 1 + CHOOSE t \in {row[n].ticket : n \in Members} : \A n \in Members : row[n].ticket <= t
Ticket_KeptOnReturn(m) == IF row[m].state = "none" THEN nextTicket ELSE row[m].ticket
Ticket_AlwaysFresh(m) == nextTicket

\* A first join and a join after leaving draw a ticket; a repeat keeps its own
\* (the number its INSERT uses up is a gap nobody sees).
Ticket(m) == IF row[m].state = "active" THEN row[m].ticket ELSE nextTicket

DrawTicket(m) ==
  /\ Open
  /\ Ticket(m) <= MaxTickets
  /\ nextTicket' = IF Ticket(m) = nextTicket THEN nextTicket + 1 ELSE nextTicket
  /\ Begin(m, [Idle EXCEPT
       !.at = "joining",
       !.joined = row[m].state # "active",
       !.row = [state |-> "active", ticket |-> Ticket(m),
                since |-> IF row[m].state = "none" THEN clock ELSE row[m].since]])

ReadPlace(m) ==
  /\ request[m].at = "joining"
  /\ request' = [request EXCEPT ![m].at = "placed", ![m].going = m \in Going(Seen(m))]
  /\ UNCHANGED <<eventVars, rosterVars, jobVars, historyVars>>

\* The other half of a double-submitted first join: it found no row to lock, so
\* it waited for this one's insert, keeps its ticket and takes itself for a join.
SecondClick(m) == [Idle EXCEPT !.at = "joining", !.joined = TRUE, !.row = request[m].row]

CommitJoin(m, next) ==
  /\ request[m].at = "placed"
  /\ row' = Seen(m)
  /\ request' = [request EXCEPT ![m] = next]
  /\ IF request[m].joined
     THEN Enqueue(IF request[m].going THEN "rsvp_confirmed" ELSE "rsvp_waitlisted", {m},
                  IF next = Idle THEN 0 ELSE 1)
     ELSE UNCHANGED <<jobVars, historyVars>>
  /\ UNCHANGED <<eventVars, nextTicket>>

\* Mutant: the list is first read after the update.
StartWithdraw_ReadsLate(m) ==
  /\ row[m].state = "active"
  /\ LET left == [row[m] EXCEPT !.state = "withdrawn"]
     IN  Begin(m, [Idle EXCEPT !.at = "leaving", !.row = left,
                               !.before = Going([row EXCEPT ![m] = left])])
  /\ UNCHANGED nextTicket

StartWithdraw(m) ==
  /\ row[m].state = "active"
  /\ Begin(m, [Idle EXCEPT !.at = "leaving", !.row = [row[m] EXCEPT !.state = "withdrawn"],
                           !.before = Going(row)])
  /\ UNCHANGED nextTicket

ReadAfter(m) ==
  /\ request[m].at = "leaving"
  /\ request' = [request EXCEPT ![m].at = "counted",
                                ![m].promoted = Going(Seen(m)) \ request[m].before]
  /\ UNCHANGED <<eventVars, rosterVars, jobVars, historyVars>>

CommitWithdraw(m) ==
  /\ request[m].at = "counted"
  /\ row' = Seen(m)
  /\ request' = [request EXCEPT ![m] = Idle]
  /\ IF request[m].promoted # {}
     THEN Enqueue("promoted", request[m].promoted, 0)
     ELSE UNCHANGED <<jobVars, historyVars>>
  /\ UNCHANGED <<eventVars, nextTicket>>

\* The request fails before its commit: the ticket it drew is used up.
Abort(m) ==
  /\ request[m].at # "idle"
  /\ Upsets(1)
  /\ request' = [request EXCEPT ![m] = Idle]
  /\ UNCHANGED <<eventVars, rosterVars, jobVars, excuse>>

---------------------------------------------------------------------------
(* The organiser, and time.                                                *)

CancelOccurrence ==
  /\ Open
  /\ occurrence' = "cancelled"
  /\ UNCHANGED <<series, capacity, clock, rosterVars, request>>
  /\ Enqueue("occurrence_cancelled", {}, 1)

\* The cascade cancels the occurrences that have not started.
CancelSeries ==
  /\ series = "scheduled"
  /\ series' = "cancelled"
  /\ occurrence' = IF clock = Started THEN occurrence ELSE "cancelled"
  /\ UNCHANGED <<capacity, clock, rosterVars, request>>
  /\ Enqueue("series_cancelled", {}, 1)

\* Moves the line between going and waitlisted; nobody is written to.
UpdateSession(c) ==
  /\ series = "scheduled"
  /\ c # capacity
  /\ capacity' = c
  /\ Upsets(1)
  /\ excuse' = excuse \cup {"capacity"}
  /\ UNCHANGED <<series, occurrence, clock, rosterVars, request, jobVars>>

Tick ==
  /\ clock' \in {c \in Clocks : c > clock}
  /\ UNCHANGED <<series, occurrence, capacity, rosterVars, request, jobVars, historyVars>>

Next ==
  \/ \E m \in Members :
       \/ DrawTicket(m) \/ ReadPlace(m) \/ CommitJoin(m, Idle)
       \/ row[m].state = "none" /\ CommitJoin(m, SecondClick(m))
       \/ StartWithdraw(m) \/ ReadAfter(m) \/ CommitWithdraw(m)
       \/ Abort(m)
  \/ CancelOccurrence
  \/ CancelSeries
  \/ \E c \in Capacities : UpdateSession(c)
  \/ Tick

Spec == Init /\ [][Next]_vars

---------------------------------------------------------------------------
(* Properties.                                                             *)

\* Every column has a value its table allows.
TypeOK ==
  /\ series \in Statuses /\ occurrence \in Statuses
  /\ capacity \in Capacities /\ clock \in Clocks
  /\ row \in [Members -> Rows] /\ nextTicket \in 1..MaxTickets + 1
  /\ request \in [Members -> Requests]
  /\ jobs \in Seq(Jobs)
  /\ named \subseteq Members \X SignUpKinds \X (1..MaxTickets)
  /\ upsets \in 0..MaxUpsets
  /\ excuse \subseteq {"join overlaps", "withdrawals overlap", "enqueue", "capacity"}

\* No two sign-ups in the queue hold one ticket, and none holds a ticket that
\* is still to be drawn: positions are a total order whatever overlaps.
TicketsUnique ==
  \A m, n \in Members :
    LET drawn(k) == IF k \in Busy THEN request[k].row ELSE row[k]
    IN  /\ drawn(m).ticket < nextTicket
        /\ m # n /\ drawn(m).ticket # 0 => drawn(m).ticket # drawn(n).ticket

\* Once nobody's request is open, whoever is going has had a notice queued that
\* says so of this sign-up: on joining, or on being let in off the waitlist.
Named ==
  Busy = {} => \A m \in Going(row) :
                 \E kind \in {"rsvp_confirmed", "promoted"} : <<m, kind, row[m].ticket>> \in named

\* Promotion happens by arithmetic, and withdraw is the one place that notices
\* it: with requests that do not overlap, nobody who got a place is left to
\* find out by refreshing the page, and nobody is let in twice.
GoingAreNamed ==
  excuse = {} =>
    /\ Named
    /\ \A m \in Members, t \in 1..MaxTickets :
         ~ {<<m, "rsvp_confirmed", t>>, <<m, "promoted", t>>} \subseteq named

\* Whoever is going keeps the place until they leave.
Kept == \A m \in Going(row) : row'[m] = row[m] => m \in Going(row)'

\* Nobody loses a place they have but by leaving, unless the organiser changes
\* the capacity or a join overlaps: withdrawals, overlapping or not, returns and
\* repeats never do it.
PlaceIsKept == [][excuse' \cap {"capacity", "join overlaps"} = {} => Kept]_vars

\* The same when requests overlap: "nothing in this file can race another".
PlaceSurvivesRaces == []["capacity" \notin excuse' => Kept]_vars

\* Those in the queue stay in order, and an arrival goes to the back.
OrderKept ==
  \A m, n \in Queue(row)' :
    /\ {m, n} \subseteq Queue(row) =>
         (row[m].ticket < row[n].ticket <=> row'[m].ticket < row'[n].ticket)
    /\ (m \notin Queue(row) /\ n \in Queue(row) /\ "join overlaps" \notin excuse) =>
         row'[n].ticket < row'[m].ticket

\* Those in the queue never change places, whatever they repeat; and a join or
\* a return that overlaps no other request goes to the back.
QueueKeepsOrder == [][OrderKept]_vars
=============================================================================
