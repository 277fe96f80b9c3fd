--------------------------- MODULE SessionNotices ---------------------------
(***************************************************************************)
(* The worker that writes to the members of SessionRoster's occurrence:    *)
(* session.notify jobs, the reminder sweep, and the ledger of what was     *)
(* sent.                                                                   *)
(*                                                                         *)
(* Grain.  A run reads its recipients in one step and sends to each in one *)
(* more: claim, hand-off and commit are one transaction, and a second      *)
(* claim of the same notice waits for it.  The roster moves in between.    *)
(***************************************************************************)
EXTENDS SessionRoster, SequencesExt

CONSTANT Workers    \* handlers of session.notify and session.reminders that run at once

VARIABLES
  run,          \* what each worker is doing
  ledger,       \* play_session_notifications
  mail,         \* the notices handed to the relay
  lost,         \* those of them whose transaction did not commit
  gaveUp        \* history: a job has used up its retries

mailVars == <<ledger, mail, lost>>
noticeVars == <<run, mailVars, gaveUp>>
allVars == <<vars, noticeVars>>

---------------------------------------------------------------------------

\* Facts about one sign-up are filed under its ticket, those about the
\* occurrence under none.
ReminderKinds == {"reminder_24h", "reminder_2h"}
Kinds == SignUpKinds \cup ReminderKinds \cup {"occurrence_cancelled"}
Keys == (Members \X SignUpKinds \X (1..MaxTickets)) \cup (Members \X (Kinds \ SignUpKinds) \X {0})

\* A member as the run read it.
Recipient == [user : Members, ticket : 1..MaxTickets, going : BOOLEAN]

\* `job` is the job being run; it is empty for a sweep of reminders.
Runs == [busy : BOOLEAN, kind : Kinds, job : Seq(Jobs), todo : SUBSET Recipient,
         failed : BOOLEAN, held : BOOLEAN]
AtRest == [busy |-> FALSE, kind |-> "promoted", job |-> <<>>, todo |-> {},
           failed |-> FALSE, held |-> FALSE]

NoticeInit ==
  /\ Init
  /\ run = [w \in Workers |-> AtRest]
  /\ ledger = {}
  /\ mail = EmptyBag
  /\ lost = EmptyBag
  /\ gaveUp = FALSE

\* Mutant: one key for every sign-up of a member.
Key_Flat(kind, r) == <<r.user, kind, 0>>

Key(kind, r) == <<r.user, kind, IF kind \in SignUpKinds THEN r.ticket ELSE 0>>

---------------------------------------------------------------------------
(* Who is written to.                                                      *)

Kind(job) == IF job.reason = "series_cancelled" THEN "occurrence_cancelled" ELSE job.reason

Listed == {[user |-> m, ticket |-> row[m].ticket, going |-> m \in Going(row)] : m \in Queue(row)}

\* A job names its accounts, or is about everybody in the queue.
Recipients(job) ==
  {r \in Listed :
     CASE job.reason = "series_cancelled" -> occurrence = "cancelled" /\ clock # Started
       [] job.reason = "occurrence_cancelled" -> TRUE
       [] OTHER -> r.user \in job.users}

\* Joined before the lead time began, going, and not yet told.
Due(kind, lead) ==
  {r \in Listed :
     /\ series = "scheduled" /\ occurrence = "scheduled" /\ clock = lead
     /\ r.going
     /\ row[r.user].since < lead
     /\ Key(kind, r) \notin ledger}

StillApplies(kind, r) ==
  /\ kind = "rsvp_waitlisted" => ~r.going
  /\ kind \in {"rsvp_confirmed", "promoted"} => r.going

---------------------------------------------------------------------------
(* A run of session.notify or session.reminders.                           *)

Deliver(w, kind, job, todo) ==
  /\ ~run[w].busy
  /\ run' = [run EXCEPT ![w] =
       [AtRest EXCEPT !.busy = TRUE, !.kind = kind, !.job = job, !.todo = todo]]
  /\ UNCHANGED <<eventVars, rosterVars, request, named, historyVars, mailVars, gaveUp>>

\* The first job, or one whose own time has come.
TakeJob(w) ==
  \E i \in DOMAIN jobs :
    /\ jobs[i].later \/ \A k \in 1..(i - 1) : jobs[k].later
    /\ jobs' = RemoveAt(jobs, i)
    /\ Deliver(w, Kind(jobs[i]), <<jobs[i]>>, Recipients(jobs[i]))

\* The ten-minute sweep; only the kind whose window is open finds anybody.
StartReminders(w) ==
  \E kind \in ReminderKinds :
    LET due == Due(kind, IF kind = "reminder_24h" THEN Day ELSE Near)
    IN  /\ due # {}
        /\ UNCHANGED jobs
        /\ Deliver(w, kind, <<>>, due)

\* The recipient the loop has come to: they are read in order of position.
First(w, r) == \A s \in run[w].todo : r.ticket <= s.ticket

\* Mutant: nothing is claimed before it is sent.
Claimable_NoLedger(w, r) == StillApplies(run[w].kind, r)

Claimable(w, r) == StillApplies(run[w].kind, r) /\ Key(run[w].kind, r) \notin ledger

\* No longer true, or already told.
Skip(w, r) ==
  /\ First(w, r)
  /\ ~Claimable(w, r)
  /\ run' = [run EXCEPT ![w].todo = @ \ {r}]
  /\ UNCHANGED <<vars, mailVars, gaveUp>>

Send(w, r) ==
  /\ First(w, r)
  /\ Claimable(w, r)
  /\ ledger' = ledger \cup {Key(run[w].kind, r)}
  /\ mail' = mail (+) SetToBag({Key(run[w].kind, r)})
  /\ run' = [run EXCEPT ![w].todo = @ \ {r}]
  /\ UNCHANGED <<vars, lost, gaveUp>>

\* Mutant: the claim has a transaction of its own, which stays when the send fails.
Fail_ClaimStays(w, r) ==
  /\ First(w, r)
  /\ Claimable(w, r)
  /\ Upsets(1)
  /\ run' = [run EXCEPT ![w].todo = {}, ![w].failed = TRUE]
  /\ ledger' = ledger \cup {Key(run[w].kind, r)}
  /\ UNCHANGED <<eventVars, rosterVars, request, jobVars, excuse, mail, lost, gaveUp>>

\* The claim rolls back, before the hand-off or after it.  One address is
\* refused and the loop goes on; or the relay is down, or the worker dies, and
\* nobody after it is reached.
Fail(w, r) ==
  /\ First(w, r)
  /\ Claimable(w, r)
  /\ Upsets(1)
  /\ \E rest \in {{}, run[w].todo \ {r}} :
       run' = [run EXCEPT ![w].todo = rest, ![w].failed = TRUE]
  /\ \E out \in SUBSET {Key(run[w].kind, r)} :
       mail' = mail (+) SetToBag(out) /\ lost' = lost (+) SetToBag(out)
  /\ UNCHANGED <<eventVars, rosterVars, request, jobVars, excuse, ledger, gaveUp>>

\* The day's mail budget is spent: the claim rolls back and the loop stops.
Hold(w, r) ==
  /\ First(w, r)
  /\ Claimable(w, r)
  /\ Upsets(1)
  /\ run' = [run EXCEPT ![w].todo = {}, ![w].held = TRUE]
  /\ UNCHANGED <<eventVars, rosterVars, request, jobVars, excuse, mailVars, gaveUp>>

\* Mutant: a held job counts as done.
Again_DropsHeld(w) ==
  [i \in {j \in DOMAIN run[w].job : run[w].failed /\ run[w].job[j].tries < RetryLimit} |->
     [run[w].job[i] EXCEPT !.later = TRUE, !.tries = @ + 1]]

\* A held job is sent again for tomorrow, as new; a failed one is retried.  A
\* sweep is neither: the next one finds whoever was not reached.
Again(w) ==
  [i \in {j \in DOMAIN run[w].job : run[w].held \/ (run[w].failed /\ run[w].job[j].tries < RetryLimit)} |->
     [run[w].job[i] EXCEPT !.later = TRUE, !.tries = IF run[w].held THEN 0 ELSE @ + 1]]

Finish(w) ==
  /\ run[w].busy
  /\ run[w].todo = {}
  /\ jobs' = jobs \o Again(w)
  /\ gaveUp' = (gaveUp \/ (run[w].failed /\ run[w].job # <<>> /\ Again(w) = <<>>))
  /\ run' = [run EXCEPT ![w] = AtRest]
  /\ UNCHANGED <<eventVars, rosterVars, request, named, historyVars, mailVars>>

WorkerStep(w) ==
  \/ TakeJob(w)
  \/ \E r \in run[w].todo : Skip(w, r) \/ Send(w, r) \/ Fail(w, r) \/ Hold(w, r)
  \/ Finish(w)

NoticeNext ==
  \/ Next /\ UNCHANGED noticeVars
  \/ \E w \in Workers : WorkerStep(w) \/ StartReminders(w)

NoticeSpec == NoticeInit /\ [][NoticeNext]_allVars

\* The queue hands out its jobs, a handler that has started goes on.
NoticeFairness == \A w \in Workers : WF_allVars(WorkerStep(w))

---------------------------------------------------------------------------
(* Properties.                                                             *)

NoticeTypeOK ==
  /\ TypeOK
  /\ run \in [Workers -> Runs]
  /\ ledger \subseteq Keys
  /\ IsABag(mail) /\ BagToSet(mail) \subseteq Keys
  /\ IsABag(lost) /\ lost \sqsubseteq mail
  /\ gaveUp \in BOOLEAN

\* How often a bag has k.
Copies(k, B) == IF BagIn(k, B) THEN B[k] ELSE 0

\* A notice is filed as sent exactly when it went out, and goes out a second
\* time only after a hand-off whose transaction was lost: retried jobs, a
\* second worker and two withdrawals that promote one member never repeat it.
MailMatchesLedger ==
  \A k \in BagToSet(mail) \cup ledger :
    Copies(k, mail) = Copies(k, lost) + (IF k \in ledger THEN 1 ELSE 0)

\* m is still in the state the notice is about.
Current(m, kind, t) ==
  /\ row[m].state = "active" /\ row[m].ticket = t
  /\ kind = "rsvp_waitlisted" => m \notin Going(row)
  /\ kind \in {"rsvp_confirmed", "promoted"} => m \in Going(row)

\* A notice that is queued and true reaches the member it is about, the second
\* time they are let in as well as the first, unless it stops being true or the
\* retries run out.
NoticeArrives ==
  \A m \in Members, kind \in SignUpKinds, t \in 1..MaxTickets :
    ((\E i \in DOMAIN jobs : jobs[i].reason = kind /\ m \in jobs[i].users) /\ Current(m, kind, t))
      ~> (<<m, kind, t>> \in ledger \/ ~Current(m, kind, t) \/ gaveUp)

\* Whoever is in the queue when a cancellation is queued is told, going or
\* waiting, unless they leave, the retries run out or the session begins.
CancellationArrives ==
  \A m \in Members :
    ((\E i \in DOMAIN jobs : Kind(jobs[i]) = "occurrence_cancelled") /\ row[m].state = "active")
      ~> (\/ <<m, "occurrence_cancelled", 0>> \in ledger
          \/ row[m].state # "active" \/ gaveUp \/ clock = Started)
=============================================================================
