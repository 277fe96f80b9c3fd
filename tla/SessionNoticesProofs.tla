------------------------ MODULE SessionNoticesProofs ------------------------
(***************************************************************************)
(* Proofs about SessionNotices: the roster's invariant beside the worker,  *)
(* and the ledger of what was sent, for any members, workers and bounds.   *)
(***************************************************************************)
EXTENDS SessionNotices, SessionRosterProofs

USE DEF eventVars, rosterVars, jobVars, historyVars, mailVars, noticeVars

---------------------------------------------------------------------------
(* Bags and queues.                                                        *)

\* One more copy of each element of a set.
LEMMA OneMoreOfEach ==
  ASSUME NEW B, IsABag(B), NEW S, NEW C, C = B (+) SetToBag(S)
  PROVE  /\ IsABag(C)
         /\ BagToSet(C) = BagToSet(B) \cup S
         /\ \A e : Copies(e, B) \in Nat
         /\ \A e : Copies(e, C) = Copies(e, B) + (IF e \in S THEN 1 ELSE 0)
<1>1. C = [e \in BagToSet(B) \cup S |->
             (IF e \in BagToSet(B) THEN B[e] ELSE 0) + (IF e \in S THEN 1 ELSE 0)]
  BY DEF (+), SetToBag, BagToSet
<1>2. \A e \in BagToSet(B) : B[e] \in Nat /\ B[e] > 0
  BY DEF IsABag, BagToSet
<1>3. \A e \in BagToSet(B) \cup S : C[e] \in {n \in Nat : n > 0}
  BY <1>1, <1>2
<1>4. BagToSet(C) = BagToSet(B) \cup S
  BY <1>1 DEF BagToSet
<1>5. IsABag(C)
  BY <1>1, <1>3, <1>4 DEF IsABag, BagToSet
<1>6. \A e : Copies(e, B) \in Nat
  BY <1>2 DEF Copies, BagIn
<1>7. \A e : Copies(e, C) = Copies(e, B) + (IF e \in S THEN 1 ELSE 0)
  <2> TAKE e
  <2>1. CASE e \in BagToSet(B) \cup S
    <3>1. C[e] = (IF e \in BagToSet(B) THEN B[e] ELSE 0) + (IF e \in S THEN 1 ELSE 0)
      BY <1>1, <2>1
    <3>2. Copies(e, C) = C[e] /\ Copies(e, B) = IF e \in BagToSet(B) THEN B[e] ELSE 0
      BY <1>4, <2>1 DEF Copies, BagIn
    <3>3. QED
      BY <3>1, <3>2
  <2>2. CASE e \notin BagToSet(B) \cup S
    BY <1>4, <2>2 DEF Copies, BagIn
  <2>3. QED
    BY <2>1, <2>2
<1>8. QED
  BY <1>4, <1>5, <1>6, <1>7

\* A queue without one of its jobs.
LEMMA QueueWithout ==
  ASSUME NEW s \in Seq(Jobs), NEW i \in DOMAIN s
  PROVE  RemoveAt(s, i) \in Seq(Jobs)
<1>1. i \in 1..Len(s) /\ Len(s) \in Nat
  OBVIOUS
<1>2. SubSeq(s, 1, i - 1) \in Seq(Jobs) /\ SubSeq(s, i + 1, Len(s)) \in Seq(Jobs)
  BY <1>1
<1>3. QED
  BY <1>2 DEF RemoveAt

\* A function over {} or {1} is a sequence.
LEMMA ShortSequence ==
  ASSUME NEW f, f = [i \in DOMAIN f |-> f[i]], DOMAIN f \in {{}, {1}}, \A i \in DOMAIN f : f[i] \in Jobs
  PROVE  f \in Seq(Jobs)
<1>1. \E n \in Nat : DOMAIN f = 1..n
  <2>1. 1..0 = {} /\ 1..1 = {1}
    OBVIOUS
  <2>2. QED
    BY <2>1
<1>2. PICK n \in Nat : f \in [1..n -> Jobs]
  BY <1>1
<1>3. QED
  BY <1>2

---------------------------------------------------------------------------
(* The inductive invariant.  A run has one job or none, and the mail is    *)
(* the ledger and what was lost, key by key.                               *)

OneJob == \A w \in Workers : Len(run[w].job) \in {0, 1}
Balanced == \A k \in Keys : Copies(k, mail) = Copies(k, lost) + (IF k \in ledger THEN 1 ELSE 0)

\* The parts of the state that the worker writes.
RunsOK == run \in [Workers -> Runs] /\ gaveUp \in BOOLEAN /\ OneJob
MailOK ==
  /\ ledger \subseteq Keys
  /\ IsABag(mail) /\ BagToSet(mail) \subseteq Keys
  /\ IsABag(lost) /\ BagToSet(lost) \subseteq Keys
  /\ Balanced

LInv == RInv /\ RunsOK /\ MailOK

\* What a run reads of a member, and the key it files a notice under.
LEMMA ReadTypes ==
  ASSUME RInv
  PROVE  Listed \subseteq Recipient /\ \A kind \in Kinds, r \in Recipient : Key(kind, r) \in Keys
<1>1. ASSUME NEW m \in Queue(row) PROVE m \in Members /\ row[m].ticket \in 1..MaxTickets
  <2>1. m \in Members /\ row[m] \in Rows /\ row[m].ticket # 0
    BY DEF Queue, RInv, TypeOK, RowsDrawn
  <2>2. row[m].ticket \in 0..MaxTickets
    BY <2>1 DEF Rows
  <2>3. QED
    BY <2>1, <2>2, BoundAssumption
<1>2. Listed \subseteq Recipient
  <2> SUFFICES ASSUME NEW m \in Queue(row)
               PROVE  [user |-> m, ticket |-> row[m].ticket, going |-> m \in Going(row)] \in Recipient
    BY DEF Listed
  <2> DEFINE g == m \in Going(row)
  <2>1. g \in BOOLEAN
    OBVIOUS
  <2> HIDE DEF g
  <2>2. [user |-> m, ticket |-> row[m].ticket, going |-> g] \in Recipient
    BY <1>1, <2>1 DEF Recipient
  <2>3. QED
    BY <2>2 DEF g
<1>3. \A kind \in Kinds, r \in Recipient : Key(kind, r) \in Keys
  BY DEF Key, Keys, Recipient
<1>4. QED
  BY <1>2, <1>3

\* One worker's run changes and nobody else's.
LEMMA RunChanges ==
  ASSUME RunsOK, NEW w \in Workers, NEW r \in Runs, Len(r.job) \in {0, 1},
         run' = [run EXCEPT ![w] = r], gaveUp' \in BOOLEAN
  PROVE  RunsOK'
<1>1. run \in [Workers -> Runs]
  BY DEF RunsOK
<1>2. run' \in [Workers -> Runs] /\ run'[w] = r /\ \A v \in Workers \ {w} : run'[v] = run[v]
  BY <1>1
<1>3. OneJob'
  BY <1>2 DEF RunsOK, OneJob
<1>4. QED
  BY <1>2, <1>3 DEF RunsOK

\* The worker moves no row, no request and no clock.
LEMMA WorkerLeavesRoster ==
  ASSUME RInv, UNCHANGED <<eventVars, rosterVars, request, named, excuse>>,
         jobs' \in Seq(Jobs), upsets' \in 0..MaxUpsets
  PROVE  RInv'
<1>1. QueueTypeOK' /\ excuse \subseteq excuse'
  BY DEF RInv, TypeOK, QueueTypeOK
<1>2. QED
  BY <1>1, OutsideKeeps DEF RInv, TypeOK

\* The mail as it was.
LEMMA MailUntouched ==
  ASSUME MailOK, UNCHANGED mailVars
  PROVE  MailOK'
BY DEF MailOK, Balanced, Keys, BagToSet, Copies, BagIn

\* A notice that is sent is filed, and was not before.
LEMMA SentIsFiled ==
  ASSUME MailOK, NEW k \in Keys, k \notin ledger,
         ledger' = ledger \cup {k}, mail' = mail (+) SetToBag({k}), lost' = lost
  PROVE  MailOK'
<1>1. /\ IsABag(mail') /\ BagToSet(mail') = BagToSet(mail) \cup {k}
      /\ \A e : Copies(e, mail) \in Nat
      /\ \A e : Copies(e, mail') = Copies(e, mail) + (IF e \in {k} THEN 1 ELSE 0)
  BY OneMoreOfEach DEF MailOK
<1>2. \A e : Copies(e, lost) \in Nat
  BY OneMoreOfEach DEF MailOK
<1>3. \A e \in Keys : Copies(e, mail') = Copies(e, lost) + (IF e \in ledger' THEN 1 ELSE 0)
  BY <1>1, <1>2 DEF MailOK, Balanced
<1>4. Balanced'
  BY <1>3 DEF Balanced, Keys, Copies, BagIn, BagToSet
<1>5. ledger' \subseteq Keys /\ BagToSet(mail') \subseteq Keys
  BY <1>1 DEF MailOK
<1>6. QED
  BY <1>1, <1>4, <1>5 DEF MailOK, Keys, IsABag, BagToSet

\* A hand-off whose transaction is lost counts on both sides.
LEMMA LostIsCounted ==
  ASSUME MailOK, NEW out \in SUBSET Keys, ledger' = ledger,
         mail' = mail (+) SetToBag(out), lost' = lost (+) SetToBag(out)
  PROVE  MailOK'
<1>1. /\ IsABag(mail') /\ BagToSet(mail') = BagToSet(mail) \cup out
      /\ \A e : Copies(e, mail) \in Nat
      /\ \A e : Copies(e, mail') = Copies(e, mail) + (IF e \in out THEN 1 ELSE 0)
  BY OneMoreOfEach DEF MailOK
<1>2. /\ IsABag(lost') /\ BagToSet(lost') = BagToSet(lost) \cup out
      /\ \A e : Copies(e, lost) \in Nat
      /\ \A e : Copies(e, lost') = Copies(e, lost) + (IF e \in out THEN 1 ELSE 0)
  BY OneMoreOfEach DEF MailOK
<1>3. \A e \in Keys : Copies(e, mail') = Copies(e, lost') + (IF e \in ledger' THEN 1 ELSE 0)
  BY <1>1, <1>2 DEF MailOK, Balanced
<1>4. Balanced'
  BY <1>3 DEF Balanced, Keys, Copies, BagIn, BagToSet
<1>5. BagToSet(mail') \subseteq Keys /\ BagToSet(lost') \subseteq Keys
  BY <1>1, <1>2 DEF MailOK
<1>6. QED
  BY <1>1, <1>2, <1>4, <1>5 DEF MailOK, Keys, IsABag, BagToSet

---------------------------------------------------------------------------
(* Every step of the worker keeps it.                                      *)

\* Nothing runs at rest.
LEMMA RestType == AtRest \in Runs /\ AtRest.job = <<>>
BY DEF AtRest, Runs, Kinds, SignUpKinds

LEMMA DeliverKeeps ==
  ASSUME LInv, NEW w \in Workers, NEW kind \in Kinds, NEW job \in Seq(Jobs), Len(job) \in {0, 1},
         NEW todo \in SUBSET Recipient, Deliver(w, kind, job, todo), jobs' \in Seq(Jobs)
  PROVE  LInv'
<1> DEFINE r == [AtRest EXCEPT !.busy = TRUE, !.kind = kind, !.job = job, !.todo = todo]
<1>1. r \in Runs /\ r.job = job
  BY RestType DEF Runs
<1>2. run' = [run EXCEPT ![w] = r] /\ gaveUp' = gaveUp
  BY DEF Deliver
<1> HIDE DEF r
<1>3. RunsOK'
  BY <1>1, <1>2, RunChanges DEF LInv, RunsOK
<1>4. MailOK'
  BY MailUntouched DEF LInv, Deliver
<1>5. RInv'
  <2>1. upsets' \in 0..MaxUpsets
    BY DEF Deliver, LInv, RInv, TypeOK
  <2>2. QED
    BY <2>1, WorkerLeavesRoster DEF LInv, Deliver
<1>6. QED
  BY <1>3, <1>4, <1>5 DEF LInv

\* A job leaves the queue for a run.
LEMMA TakeJobKeeps ==
  ASSUME LInv, NEW w \in Workers, TakeJob(w)
  PROVE  LInv'
<1>1. PICK i \in DOMAIN jobs : /\ jobs' = RemoveAt(jobs, i)
                               /\ Deliver(w, Kind(jobs[i]), <<jobs[i]>>, Recipients(jobs[i]))
  BY DEF TakeJob
<1>2. jobs \in Seq(Jobs)
  BY DEF LInv, RInv, TypeOK
<1>3. jobs' \in Seq(Jobs) /\ jobs[i] \in Jobs
  BY <1>1, <1>2, QueueWithout
<1>4. Kind(jobs[i]) \in Kinds
  <2>1. jobs[i].reason \in Reasons
    BY <1>3 DEF Jobs
  <2>2. QED
    BY <2>1 DEF Kind, Reasons, Kinds, SignUpKinds
<1>5. <<jobs[i]>> \in Seq(Jobs) /\ Len(<<jobs[i]>>) \in {0, 1}
  BY <1>3
<1>6. Recipients(jobs[i]) \in SUBSET Recipient
  BY ReadTypes DEF LInv, Recipients
<1>7. QED
  BY <1>1, <1>3, <1>4, <1>5, <1>6, DeliverKeeps

\* A sweep reads who is due and leaves the queue alone.
LEMMA StartRemindersKeeps ==
  ASSUME LInv, NEW w \in Workers, StartReminders(w)
  PROVE  LInv'
<1>1. PICK kind \in ReminderKinds, lead \in {Day, Near} :
        Deliver(w, kind, <<>>, Due(kind, lead)) /\ jobs' = jobs
  BY DEF StartReminders
<1>2. kind \in Kinds /\ jobs' \in Seq(Jobs)
  BY <1>1 DEF Kinds, LInv, RInv, TypeOK
<1>3. Due(kind, lead) \in SUBSET Recipient
  BY ReadTypes DEF LInv, Due
<1>4. <<>> \in Seq(Jobs) /\ Len(<<>>) \in {0, 1}
  OBVIOUS
<1>5. QED
  BY <1>1, <1>2, <1>3, <1>4, DeliverKeeps

\* A run goes on with fewer recipients left.
LEMMA RunGoesOn ==
  ASSUME RunsOK, NEW w \in Workers, NEW rest \in SUBSET run[w].todo, gaveUp' = gaveUp,
         \/ run' = [run EXCEPT ![w].todo = rest]
         \/ run' = [run EXCEPT ![w].todo = rest, ![w].failed = TRUE]
         \/ run' = [run EXCEPT ![w].todo = rest, ![w].held = TRUE]
  PROVE  RunsOK'
<1>1. run \in [Workers -> Runs] /\ run[w] \in Runs /\ Len(run[w].job) \in {0, 1}
  BY DEF RunsOK, OneJob
<1>2. rest \in SUBSET Recipient
  BY <1>1 DEF Runs
<1>3. PICK r : /\ run' = [run EXCEPT ![w] = r]
               /\ \/ r = [run[w] EXCEPT !.todo = rest]
                  \/ r = [run[w] EXCEPT !.todo = rest, !.failed = TRUE]
                  \/ r = [run[w] EXCEPT !.todo = rest, !.held = TRUE]
  OBVIOUS
<1>4. r \in Runs /\ r.job = run[w].job
  BY <1>1, <1>2, <1>3 DEF Runs
<1>5. QED
  BY <1>1, <1>3, <1>4, RunChanges DEF RunsOK

\* One recipient of a run: passed over, written to, failed or held back.
LEMMA RecipientKeeps ==
  ASSUME LInv, NEW w \in Workers, NEW r \in run[w].todo,
         Skip(w, r) \/ Send(w, r) \/ Fail(w, r) \/ Hold(w, r)
  PROVE  LInv'
<1> DEFINE k == Key(run[w].kind, r)
<1>1. run[w] \in Runs
  BY DEF LInv, RunsOK
<1>2. k \in Keys
  BY <1>1, ReadTypes DEF LInv, Runs
<1> HIDE DEF k
<1>3. RunsOK'
  <2>1. run[w].todo \ {r} \in SUBSET run[w].todo /\ {} \in SUBSET run[w].todo
    OBVIOUS
  <2>2. gaveUp' = gaveUp
    BY DEF Skip, Send, Fail, Hold
  <2>3. PICK rest \in SUBSET run[w].todo :
          \/ run' = [run EXCEPT ![w].todo = rest]
          \/ run' = [run EXCEPT ![w].todo = rest, ![w].failed = TRUE]
          \/ run' = [run EXCEPT ![w].todo = rest, ![w].held = TRUE]
    <3>1. CASE Skip(w, r)
      BY <2>1, <3>1 DEF Skip
    <3>2. CASE Send(w, r)
      BY <2>1, <3>2 DEF Send
    <3>3. CASE Fail(w, r)
      BY <2>1, <3>3 DEF Fail
    <3>4. CASE Hold(w, r)
      BY <2>1, <3>4 DEF Hold
    <3>5. QED
      BY <3>1, <3>2, <3>3, <3>4
  <2>4. QED
    BY <2>2, <2>3, RunGoesOn DEF LInv
<1>4. MailOK'
  <2>1. CASE Skip(w, r) \/ Hold(w, r)
    BY <2>1, MailUntouched DEF LInv, Skip, Hold
  <2>2. CASE Send(w, r)
    <3>1. /\ k \notin ledger /\ lost' = lost
          /\ ledger' = ledger \cup {k} /\ mail' = mail (+) SetToBag({k})
      BY <2>2 DEF Send, Claimable, k
    <3>2. QED
      BY <1>2, <3>1, SentIsFiled DEF LInv
  <2>3. CASE Fail(w, r)
    <3>1. PICK out \in SUBSET {k} :
            mail' = mail (+) SetToBag(out) /\ lost' = lost (+) SetToBag(out)
      BY <2>3 DEF Fail, k
    <3>2. out \in SUBSET Keys /\ ledger' = ledger
      BY <1>2, <2>3 DEF Fail
    <3>3. QED
      BY <3>1, <3>2, LostIsCounted DEF LInv
  <2>4. QED
    BY <2>1, <2>2, <2>3
<1>5. RInv'
  <2>1. jobs' \in Seq(Jobs)
    BY DEF Skip, Send, Fail, Hold, vars, LInv, RInv, TypeOK
  <2>2. upsets' \in 0..MaxUpsets
    <3>1. upsets \in 0..MaxUpsets
      BY DEF LInv, RInv, TypeOK
    <3>2. upsets' = upsets \/ (upsets' = upsets + 1 /\ upsets' <= MaxUpsets)
      BY DEF Skip, Send, Fail, Hold, vars, Upsets
    <3>3. QED
      BY <3>1, <3>2, BoundAssumption
  <2>3. UNCHANGED <<eventVars, rosterVars, request, named, excuse>>
    BY DEF Skip, Send, Fail, Hold, vars
  <2>4. QED
    BY <2>1, <2>2, <2>3, WorkerLeavesRoster DEF LInv
<1>6. QED
  BY <1>3, <1>4, <1>5 DEF LInv

\* What is queued again is a job, with its tries within the limit.
LEMMA AgainType ==
  ASSUME RunsOK, NEW w \in Workers
  PROVE  Again(w) \in Seq(Jobs)
<1> DEFINE q == run[w].job
           D == {j \in DOMAIN q : run[w].held \/ (run[w].failed /\ q[j].tries < RetryLimit)}
           f == Again(w)
<1>1. q \in Seq(Jobs) /\ Len(q) \in {0, 1}
  BY DEF RunsOK, OneJob, Runs
<1>2. DOMAIN q \in {{}, {1}}
  <2>1. DOMAIN q = 1..Len(q) /\ 1..0 = {} /\ 1..1 = {1}
    BY <1>1
  <2>2. QED
    BY <1>1, <2>1
<1>3. f = [i \in D |-> [q[i] EXCEPT !.later = TRUE, !.tries = IF run[w].held THEN 0 ELSE @ + 1]]
  BY DEF Again
<1>4. D \in {{}, {1}}
  BY <1>2
<1>5. \A i \in D : f[i] \in Jobs
  <2> TAKE i \in D
  <2> DEFINE n == IF run[w].held THEN 0 ELSE q[i].tries + 1
  <2>1. q[i] \in Jobs
    BY <1>1
  <2>2. n \in 0..RetryLimit
    <3>1. q[i].tries \in 0..RetryLimit
      BY <2>1 DEF Jobs
    <3>2. run[w].held \/ q[i].tries < RetryLimit
      OBVIOUS
    <3>3. QED
      BY <3>1, <3>2, BoundAssumption
  <2>3. f[i] = [q[i] EXCEPT !.later = TRUE, !.tries = n]
    BY <1>3
  <2> HIDE DEF n, f, q
  <2>4. QED
    BY <2>1, <2>2, <2>3 DEF Jobs
<1>6. DOMAIN f = D /\ f = [i \in DOMAIN f |-> f[i]]
  BY <1>3
<1> HIDE DEF q, D, f
<1>7. f \in Seq(Jobs)
  BY <1>4, <1>5, <1>6, ShortSequence
<1>8. QED
  BY <1>7 DEF f

\* A run ends.
LEMMA FinishKeeps ==
  ASSUME LInv, NEW w \in Workers, Finish(w)
  PROVE  LInv'
<1>1. RunsOK'
  <2>1. gaveUp' \in BOOLEAN
    BY DEF Finish
  <2>2. AtRest \in Runs /\ Len(AtRest.job) \in {0, 1} /\ run' = [run EXCEPT ![w] = AtRest]
    BY RestType DEF Finish
  <2>3. QED
    BY <2>1, <2>2, RunChanges DEF LInv
<1>2. MailOK'
  BY MailUntouched DEF LInv, Finish
<1>3. RInv'
  <2>1. jobs \in Seq(Jobs) /\ upsets \in 0..MaxUpsets
    BY DEF LInv, RInv, TypeOK
  <2>2. Again(w) \in Seq(Jobs) /\ jobs' = jobs \o Again(w)
    BY AgainType DEF LInv, Finish
  <2>3. jobs' \in Seq(Jobs)
    BY <2>1, <2>2
  <2>4. QED
    BY <2>1, <2>3, WorkerLeavesRoster DEF LInv, Finish
<1>4. QED
  BY <1>1, <1>2, <1>3 DEF LInv

\* Every step of the worker.
LEMMA WorkerKeeps ==
  ASSUME LInv, NEW w \in Workers, WorkerStep(w) \/ StartReminders(w)
  PROVE  LInv'
BY TakeJobKeeps, StartRemindersKeeps, RecipientKeeps, FinishKeeps DEF WorkerStep

\* The roster writes nothing of the worker's.
LEMMA RosterKeeps ==
  ASSUME LInv, Next, UNCHANGED noticeVars
  PROVE  LInv'
<1>1. RInv'
  BY NextKeepsRInv DEF LInv
<1>2. RunsOK'
  BY DEF LInv, RunsOK, OneJob, Runs, Recipient, Jobs
<1>3. MailOK'
  BY MailUntouched DEF LInv
<1>4. QED
  BY <1>1, <1>2, <1>3 DEF LInv

\* What the worker does is a stutter of the roster's rows.
LEMMA WorkerMovesNobody ==
  ASSUME NEW w \in Workers, WorkerStep(w) \/ StartReminders(w)
  PROVE  UNCHANGED <<eventVars, rosterVars, request, named, excuse>>
<1>1. ASSUME NEW kind, NEW job, NEW todo, Deliver(w, kind, job, todo)
      PROVE  UNCHANGED <<eventVars, rosterVars, request, named, excuse>>
  BY <1>1 DEF Deliver
<1>2. CASE TakeJob(w) \/ StartReminders(w)
  BY <1>1, <1>2 DEF TakeJob, StartReminders
<1>3. CASE \E r \in run[w].todo : Skip(w, r) \/ Send(w, r) \/ Fail(w, r) \/ Hold(w, r)
  BY <1>3 DEF Skip, Send, Fail, Hold, vars
<1>4. CASE Finish(w)
  BY <1>4 DEF Finish
<1>5. QED
  BY <1>2, <1>3, <1>4 DEF WorkerStep

---------------------------------------------------------------------------
(* The theorems.                                                           *)

\* The inductive invariant holds of the roster with its workers.
THEOREM NoticesInvariant == NoticeSpec => []LInv
<1>1. NoticeInit => LInv
  <2> SUFFICES ASSUME NoticeInit PROVE LInv
    OBVIOUS
  <2>1. RInv
    BY InitRInv DEF NoticeInit
  <2>2. RunsOK
    <3>1. \A w \in Workers : run[w].job = <<>>
      BY RestType DEF NoticeInit
    <3>2. OneJob
      BY <3>1 DEF OneJob
    <3>3. QED
      BY <3>2, RestType DEF NoticeInit, RunsOK
  <2>3. MailOK
    <3>1. ledger = {} /\ mail = [e \in {} |-> 1] /\ lost = [e \in {} |-> 1]
      BY DEF NoticeInit, EmptyBag, SetToBag
    <3>2. IsABag(mail) /\ IsABag(lost) /\ BagToSet(mail) = {} /\ BagToSet(lost) = {}
      BY <3>1 DEF IsABag, BagToSet
    <3>3. \A k \in Keys : Copies(k, mail) = 0 /\ Copies(k, lost) = 0 /\ k \notin ledger
      BY <3>1, <3>2 DEF Copies, BagIn
    <3>4. Balanced
      BY <3>3 DEF Balanced
    <3>5. QED
      BY <3>1, <3>2, <3>4 DEF MailOK
  <2>4. QED
    BY <2>1, <2>2, <2>3 DEF LInv
<1>2. LInv /\ [NoticeNext]_allVars => LInv'
  <2> SUFFICES ASSUME LInv, [NoticeNext]_allVars PROVE LInv'
    OBVIOUS
  <2>1. CASE UNCHANGED allVars
    <3>1. RInv'
      BY <2>1, NextKeepsRInv DEF LInv, allVars
    <3>2. RunsOK' /\ MailOK'
      BY <2>1, MailUntouched DEF LInv, allVars, RunsOK, OneJob, Runs, Recipient, Jobs
    <3>3. QED
      BY <3>1, <3>2 DEF LInv
  <2>2. CASE NoticeNext
    BY <2>2, RosterKeeps, WorkerKeeps DEF NoticeNext
  <2>3. QED
    BY <2>1, <2>2
<1>3. QED
  BY <1>1, <1>2, PTL DEF NoticeSpec

\* Runs, ledger and mail have their types, whatever the roster does meanwhile;
\* what is lost was handed to the relay.
THEOREM NoticesTypeCorrect == NoticeSpec => []NoticeTypeOK
<1>1. LInv => NoticeTypeOK
  <2> SUFFICES ASSUME LInv PROVE NoticeTypeOK
    OBVIOUS
  <2>1. ASSUME NEW e \in BagToSet(lost) PROVE e \in BagToSet(mail) /\ lost[e] <= mail[e]
    <3>1. e \in Keys /\ lost[e] \in Nat /\ lost[e] > 0 /\ Copies(e, lost) = lost[e]
      BY <2>1 DEF LInv, MailOK, IsABag, BagToSet, Copies, BagIn
    <3>2. Copies(e, mail) = lost[e] + (IF e \in ledger THEN 1 ELSE 0)
      BY <3>1 DEF LInv, MailOK, Balanced
    <3>3. Copies(e, mail) >= lost[e] /\ Copies(e, mail) # 0
      BY <3>1, <3>2
    <3>4. QED
      BY <3>3 DEF Copies, BagIn
  <2>2. lost \sqsubseteq mail
    BY <2>1 DEF \sqsubseteq, BagToSet
  <2>3. QED
    BY <2>2 DEF LInv, RInv, RunsOK, MailOK, NoticeTypeOK
<1>2. QED
  BY <1>1, NoticesInvariant, PTL

\* A notice is filed as sent exactly when it went out, and goes out again only
\* after a hand-off whose transaction was lost.
THEOREM LedgerIsTrue == NoticeSpec => []MailMatchesLedger
<1>1. LInv => MailMatchesLedger
  BY DEF LInv, MailOK, Balanced, MailMatchesLedger
<1>2. QED
  BY <1>1, NoticesInvariant, PTL

\* With the worker at work beside it, the roster still gives no ticket twice.
THEOREM TicketsAreUniqueToo == NoticeSpec => []TicketsUnique
<1>1. LInv => TicketsUnique
  BY DEF LInv, RInv, TicketsApart, Tickets, TicketsUnique
<1>2. QED
  BY <1>1, NoticesInvariant, PTL

\* And whoever is going had a notice queued of it, and only one.
THEOREM WhoGoesWasToldToo == NoticeSpec => []GoingAreNamed
<1>1. NoticeInit => NInv
  BY InitNInv DEF NoticeInit
<1>2. LInv /\ LInv' /\ NInv /\ [NoticeNext]_allVars => NInv'
  <2> SUFFICES ASSUME LInv, LInv', NInv, [NoticeNext]_allVars PROVE NInv'
    OBVIOUS
  <2>1. CASE [Next]_vars
    BY <2>1, NextKeepsNInv
  <2>2. CASE \E w \in Workers : WorkerStep(w) \/ StartReminders(w)
    <3>1. UNCHANGED <<eventVars, rosterVars, request, named, excuse>>
      BY <2>2, WorkerMovesNobody
    <3>2. excuse' = {} => Calm'
      BY <3>1, NothingMovesCalm DEF NInv
    <3>3. QED
      BY <3>2 DEF NInv, LInv
  <2>3. QED
    BY <2>1, <2>2 DEF NoticeNext, allVars
<1>3. QED
  BY <1>1, <1>2, NoticesInvariant, CalmNames, PTL DEF NoticeSpec

\* The order of the queue and everyone's place are kept beside the worker too.
THEOREM OrderIsKeptToo == NoticeSpec => QueueKeepsOrder
<1>1. LInv /\ [NoticeNext]_allVars => [OrderKept]_vars
  <2> SUFFICES ASSUME LInv, [NoticeNext]_allVars PROVE OrderKept \/ UNCHANGED vars
    OBVIOUS
  <2>1. CASE [Next]_vars
    BY <2>1, StepKeepsOrder DEF LInv
  <2>2. CASE \E w \in Workers : WorkerStep(w) \/ StartReminders(w)
    <3>1. row' = row
      BY <2>2, WorkerMovesNobody
    <3>2. Queue(row)' = Queue(row)
      BY <3>1 DEF Queue
    <3>3. QED
      BY <3>1, <3>2 DEF OrderKept
  <2>3. QED
    BY <2>1, <2>2 DEF NoticeNext, allVars
<1>2. QED
  BY <1>1, NoticesInvariant, PTL DEF NoticeSpec, QueueKeepsOrder

\* Sending, failing and retrying takes nobody's place.
THEOREM PlacesAreKeptToo == NoticeSpec => PlaceIsKept
<1>1. LInv /\ [NoticeNext]_allVars =>
        [excuse' \cap {"capacity", "join overlaps"} = {} => Kept]_vars
  <2> SUFFICES ASSUME LInv, [NoticeNext]_allVars, excuse' \cap {"capacity", "join overlaps"} = {}
               PROVE  Kept
    OBVIOUS
  <2>1. CASE [Next]_vars
    BY <2>1, StepLeavesPlaces DEF LInv
  <2>2. CASE \E w \in Workers : WorkerStep(w) \/ StartReminders(w)
    <3>1. row' = row /\ capacity' = capacity
      BY <2>2, WorkerMovesNobody
    <3>2. Going(row)' = Going(row)
      BY <3>1 DEF Going, Queue, Position
    <3>3. QED
      BY <3>2 DEF Kept
  <2>3. QED
    BY <2>1, <2>2 DEF NoticeNext, allVars
<1>2. QED
  BY <1>1, NoticesInvariant, PTL DEF NoticeSpec, PlaceIsKept
=============================================================================
