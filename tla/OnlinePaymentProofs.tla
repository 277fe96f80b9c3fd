----------------------- MODULE OnlinePaymentProofs -----------------------
(***************************************************************************)
(* Proofs about OnlinePayment, for every number of charges, checkouts,     *)
(* tabs and handlers and every price.                                      *)
(***************************************************************************)
EXTENDS OnlinePayment, TLAPS

USE DEF checkoutVars, bookVars, holdVars, stripeVars

-----------------------------------------------------------------------------
(* The records of requests and handlers.                                   *)

\* A request that goes to another point of its code keeps what it knows.
LEMMA TabMoves ==
  ASSUME tab \in [Tabs -> TabRecord], NEW t \in Tabs, NEW pc \in TabPcs, GoTo(t, pc)
  PROVE  /\ tab' \in [Tabs -> TabRecord]
         /\ tab'[t].pc = pc /\ tab'[t].charge = tab[t].charge /\ tab'[t].row = tab[t].row
         /\ \A u \in Tabs \ {t} : tab'[u] = tab[u]
BY DEF GoTo, TabRecord

\* A request that ends is idle.
LEMMA TabEnds ==
  ASSUME tab \in [Tabs -> TabRecord], NEW t \in Tabs, EndTab(t)
  PROVE  /\ tab' \in [Tabs -> TabRecord]
         /\ tab'[t].pc = "idle"
         /\ \A u \in Tabs \ {t} : tab'[u] = tab[u]
BY DEF EndTab, IdleTab, TabRecord, TabPcs

\* A handler that goes to another point of its code keeps what it knows.
LEMMA JobMoves ==
  ASSUME job \in [Workers -> JobRecord], NEW w \in Workers, NEW pc \in JobPcs, JobTo(w, pc)
  PROVE  /\ job' \in [Workers -> JobRecord]
         /\ job'[w].pc = pc /\ job'[w].checkout = job[w].checkout
         /\ job'[w].kind = job[w].kind
         /\ \A v \in Workers \ {w} : job'[v] = job[v]
BY DEF JobTo, JobRecord

\* A handler that ends is idle.
LEMMA JobEnds ==
  ASSUME job \in [Workers -> JobRecord], NEW w \in Workers, EndJob(w)
  PROVE  /\ job' \in [Workers -> JobRecord]
         /\ job'[w].pc = "idle"
         /\ \A v \in Workers \ {w} : job'[v] = job[v]
BY DEF EndJob, IdleJob, JobRecord, JobPcs, Kinds, PaidKinds, DeadKinds

\* A request that takes up another row.
LEMMA TabTakesRow ==
  ASSUME tab \in [Tabs -> TabRecord], NEW t \in Tabs, NEW pc \in TabPcs, NEW k \in Checkouts,
         tab' = [tab EXCEPT ![t].pc = pc, ![t].row = k]
  PROVE  /\ tab' \in [Tabs -> TabRecord]
         /\ tab'[t].pc = pc /\ tab'[t].charge = tab[t].charge /\ tab'[t].row = k
         /\ \A u \in Tabs \ {t} : tab'[u] = tab[u]
<1>1. tab'[t] = [tab[t] EXCEPT !.pc = pc, !.row = k]
  OBVIOUS
<1>2. \A u \in Tabs \ {t} : tab'[u] = tab[u]
  OBVIOUS
<1>3. tab'[t] \in TabRecord
  BY <1>1 DEF TabRecord
<1>4. QED
  BY <1>1, <1>2, <1>3 DEF TabRecord

LEMMA KindsAre ==
  \A e : e \in Kinds <=> e \in {"completed", "async_succeeded", "async_failed", "expired"}
BY DEF Kinds, PaidKinds, DeadKinds

\* A settlement that has locked its row knows what it read under no lock.
LEMMA JobLocks ==
  ASSUME job \in [Workers -> JobRecord], NEW w \in Workers, NEW d \in Int, NEW g \in BOOLEAN,
         job' = [job EXCEPT ![w].pc = "settle", ![w].due = d, ![w].slotGone = g]
  PROVE  /\ job' \in [Workers -> JobRecord]
         /\ job'[w].pc = "settle" /\ job'[w].checkout = job[w].checkout
         /\ job'[w].kind = job[w].kind
         /\ \A v \in Workers \ {w} : job'[v] = job[v]
<1>1. job'[w] = [job[w] EXCEPT !.pc = "settle", !.due = d, !.slotGone = g]
  OBVIOUS
<1>2. \A v \in Workers \ {w} : job'[v] = job[v]
  OBVIOUS
<1>3. job'[w] \in JobRecord
  BY <1>1 DEF JobRecord, JobPcs
<1>4. QED
  BY <1>1, <1>2, <1>3 DEF JobRecord

\* A payment adds to its charge and touches no other.
LEMMA Books ==
  ASSUME paid \in [Charges -> Nat], hold \in [Charges -> Holds],
         NEW c \in Charges, NEW a \in Nat, BookPayment(c, a)
  PROVE  paid' \in [Charges -> Nat] /\ hold' \in [Charges -> Holds]
BY DEF BookPayment, Holds

\* One delivery changes, the others stand.
LEMMA EventMoves ==
  ASSUME event \in [Checkouts -> [Kinds -> Deliveries]],
         NEW k \in Checkouts, NEW e \in Kinds, NEW d \in Deliveries,
         event' = [event EXCEPT ![k][e] = d]
  PROVE  /\ event' \in [Checkouts -> [Kinds -> Deliveries]]
         /\ event'[k][e] = d
         /\ \A j \in Checkouts, f \in Kinds : j # k \/ f # e => event'[j][f] = event[j][f]
OBVIOUS

\* Stripe announces an event of a session; the others stand.
LEMMA Raises ==
  ASSUME event \in [Checkouts -> [Kinds -> Deliveries]],
         NEW k \in Checkouts, NEW e \in Kinds, Raise(k, e)
  PROVE  /\ event' \in [Checkouts -> [Kinds -> Deliveries]]
         /\ event'[k][e] = "raised"
         /\ \A j \in Checkouts, f \in Kinds : j # k \/ f # e => event'[j][f] = event[j][f]
BY EventMoves DEF Raise, Deliveries

-----------------------------------------------------------------------------
(* The steps of a request keep the invariant.                              *)

\* closePrevious in the books.
LEMMA ClosePreviousKeeps ==
  ASSUME IInv, NEW t \in Tabs, ClosePrevious(t)
  PROVE  IInv'
<1>1. tab[t].pc = "close" /\ tab[t].row \in Checkouts /\ status[tab[t].row] # "none"
      /\ tab[t].charge \in Charges
  BY DEF IInv, ClosePrevious, TabsKnown, TabKnown
<1>2. tab' \in [Tabs -> TabRecord] /\ (\A u \in Tabs \ {t} : tab'[u] = tab[u])
      /\ tab'[t].pc \in {"insert", "idle"} /\ (tab'[t].pc = "insert" => tab'[t].charge = tab[t].charge)
  BY TabMoves, TabEnds DEF IInv, TypeOK, ClosePrevious, TabPcs
<1>3. TypeOK'
  BY <1>1, <1>2 DEF IInv, ClosePrevious, TypeOK, Statuses
<1>4. /\ WithinCharge' /\ PaidSlotKept' /\ PagesStored' /\ NewsTrue' /\ JobsKnown'
      /\ OneSettler' /\ HoldsKnown' /\ GoneVoid'
  BY DEF IInv, ClosePrevious, WithinCharge, PaidSlotKept, PagesStored, NewsTrue,
       JobsKnown, JobKnown, OneSettler, HoldsKnown, GoneVoid
<1>5. MoneyAccounted'
  BY <1>1, <1>2 DEF IInv, ClosePrevious, TypeOK, MoneyAccounted, Settled, PaidKinds
<1>6. BooksTrue'
  BY <1>1, <1>2 DEF IInv, ClosePrevious, TypeOK, BooksTrue, Settled
<1>7. RowsKnown'
  BY <1>1, <1>2 DEF IInv, ClosePrevious, TypeOK, RowsKnown
<1>8. TabsKnown'
  <2> SUFFICES ASSUME NEW u \in Tabs PROVE TabKnown(u)'
    BY DEF TabsKnown
  <2>1. TabKnown(u)
    BY DEF IInv, TabsKnown
  <2>2. CASE u # t
    BY <2>1, <2>2, <1>1, <1>2 DEF IInv, ClosePrevious, TypeOK, TabKnown
  <2>3. CASE u = t
    BY <2>1, <2>3, <1>1, <1>2 DEF IInv, ClosePrevious, TypeOK, TabKnown
  <2> QED BY <2>2, <2>3
<1>9. OneCreator'
  BY <1>1, <1>2 DEF IInv, ClosePrevious, TypeOK, OneCreator
<1>10. LocksHold'
  BY <1>1, <1>2 DEF IInv, ClosePrevious, TypeOK, LocksHold, Locked
<1>11. MarksJust'
  BY <1>1, <1>2 DEF IInv, ClosePrevious, TypeOK, MarksJust, MarkJust, Settled,
       PaidKinds, JobsKnown, JobKnown
<1>12. QED
  BY <1>3, <1>4, <1>5, <1>6, <1>7, <1>8, <1>9, <1>10, <1>11 DEF IInv

\* A request dies.
LEMMA AbandonTabKeeps ==
  ASSUME IInv, NEW t \in Tabs, AbandonTab(t)
  PROVE  IInv'
<1>1. tab' \in [Tabs -> TabRecord] /\ tab'[t].pc = "idle" /\ \A u \in Tabs \ {t} : tab'[u] = tab[u]
  BY TabEnds DEF IInv, TypeOK, AbandonTab
<1>2. TypeOK'
  BY <1>1 DEF IInv, AbandonTab, TypeOK
<1>3. /\ MoneyAccounted' /\ BooksTrue' /\ WithinCharge' /\ PaidSlotKept' /\ RowsKnown'
      /\ PagesStored' /\ NewsTrue' /\ JobsKnown' /\ LocksHold' /\ OneSettler' /\ MarksJust'
      /\ HoldsKnown' /\ GoneVoid'
  BY DEF IInv, AbandonTab, MoneyAccounted, BooksTrue, WithinCharge, PaidSlotKept,
       RowsKnown, PagesStored, NewsTrue, JobsKnown, JobKnown, LocksHold, OneSettler,
       MarksJust, MarkJust, HoldsKnown, GoneVoid
<1>4. TabsKnown'
  <2> SUFFICES ASSUME NEW u \in Tabs PROVE TabKnown(u)'
    BY DEF TabsKnown
  <2>1. TabKnown(u)
    BY DEF IInv, TabsKnown
  <2>2. CASE u # t
    BY <2>1, <2>2, <1>1 DEF IInv, AbandonTab, TypeOK, TabKnown
  <2>3. CASE u = t
    BY <2>1, <2>3, <1>1 DEF IInv, AbandonTab, TypeOK, TabKnown
  <2> QED BY <2>2, <2>3
<1>5. OneCreator'
  BY <1>1 DEF IInv, AbandonTab, TypeOK, OneCreator
<1>6. QED
  BY <1>2, <1>3, <1>4, <1>5 DEF IInv

\* openSession, the answer.
LEMMA StoreSessionKeeps ==
  ASSUME IInv, NEW t \in Tabs, StoreSession(t)
  PROVE  IInv'
<1>1. tab[t].row \in Checkouts /\ status[tab[t].row] # "none"
  BY DEF IInv, StoreSession, TabsKnown, TabKnown
<1>2. tab' \in [Tabs -> TabRecord] /\ tab'[t].pc = "idle" /\ \A u \in Tabs \ {t} : tab'[u] = tab[u]
  BY TabEnds DEF IInv, TypeOK, StoreSession
<1>3. TypeOK'
  BY <1>1, <1>2 DEF IInv, StoreSession, TypeOK
<1>4. /\ MoneyAccounted' /\ BooksTrue' /\ WithinCharge' /\ PaidSlotKept' /\ NewsTrue'
      /\ JobsKnown' /\ LocksHold' /\ OneSettler' /\ MarksJust' /\ HoldsKnown' /\ GoneVoid'
  BY DEF IInv, StoreSession, MoneyAccounted, BooksTrue, WithinCharge, PaidSlotKept,
       NewsTrue, JobsKnown, JobKnown, LocksHold, OneSettler, MarksJust, MarkJust,
       HoldsKnown, GoneVoid
<1>5. RowsKnown'
  BY <1>1, <1>2 DEF IInv, StoreSession, TypeOK, RowsKnown
<1>6. PagesStored'
  BY <1>1, <1>2 DEF IInv, StoreSession, TypeOK, PagesStored
<1>7. TabsKnown'
  <2> SUFFICES ASSUME NEW u \in Tabs PROVE TabKnown(u)'
    BY DEF TabsKnown
  <2>1. TabKnown(u)
    BY DEF IInv, TabsKnown
  <2>2. CASE u # t
    BY <2>1, <2>2, <1>1, <1>2 DEF IInv, StoreSession, TypeOK, TabKnown
  <2>3. CASE u = t
    BY <2>1, <2>3, <1>1, <1>2 DEF IInv, StoreSession, TypeOK, TabKnown
  <2> QED BY <2>2, <2>3
<1>8. OneCreator'
  BY <1>1, <1>2 DEF IInv, StoreSession, TypeOK, OneCreator
<1>9. QED
  BY <1>3, <1>4, <1>5, <1>6, <1>7, <1>8 DEF IInv

\* openSession, the call.
LEMMA CreateSessionKeeps ==
  ASSUME IInv, NEW t \in Tabs, CreateSession(t)
  PROVE  IInv'
<1>1. tab[t].row \in Checkouts /\ status[tab[t].row] # "none" /\ session[tab[t].row] = "none"
      /\ chargeOf[tab[t].row] = tab[t].charge /\ tab[t].charge \in Charges
  BY DEF IInv, CreateSession, TabsKnown, TabKnown
<1>2. /\ tab' \in [Tabs -> TabRecord] /\ \A u \in Tabs \ {t} : tab'[u] = tab[u]
      /\ tab'[t].pc = "store" /\ tab'[t].charge = tab[t].charge /\ tab'[t].row = tab[t].row
  BY TabMoves DEF IInv, TypeOK, CreateSession, TabPcs
<1>3. TypeOK'
  BY <1>1, <1>2 DEF IInv, CreateSession, TypeOK, Sessions
<1>4. WithinCharge' /\ PaidSlotKept' /\ LocksHold' /\ OneSettler' /\ GoneVoid'
  BY DEF IInv, CreateSession, WithinCharge, PaidSlotKept, LocksHold, OneSettler, GoneVoid
<1>5. MoneyAccounted'
  BY <1>1, <1>2 DEF IInv, CreateSession, TypeOK, MoneyAccounted, Settled, PaidKinds
<1>6. BooksTrue'
  BY <1>1, <1>2 DEF IInv, CreateSession, TypeOK, BooksTrue, Settled
<1>7. RowsKnown'
  BY <1>1, <1>2 DEF IInv, CreateSession, TypeOK, RowsKnown
<1>8. PagesStored'
  BY <1>1, <1>2 DEF IInv, CreateSession, TypeOK, PagesStored
<1>9. TabsKnown'
  <2> SUFFICES ASSUME NEW u \in Tabs PROVE TabKnown(u)'
    BY DEF TabsKnown
  <2>1. TabKnown(u)
    BY DEF IInv, TabsKnown
  <2>2. CASE u # t
    BY <2>1, <2>2, <1>1, <1>2 DEF IInv, CreateSession, TypeOK, TabKnown, OneCreator
  <2>3. CASE u = t
    BY <2>1, <2>3, <1>1, <1>2 DEF IInv, CreateSession, TypeOK, TabKnown
  <2> QED BY <2>2, <2>3
<1>10. OneCreator'
  BY <1>1, <1>2 DEF IInv, CreateSession, TypeOK, OneCreator
<1>11. NewsTrue'
  BY <1>1, <1>2 DEF IInv, CreateSession, TypeOK, NewsTrue
<1>12. JobsKnown'
  BY <1>1, <1>2 DEF IInv, CreateSession, TypeOK, JobsKnown, JobKnown, PaidKinds, DeadKinds
<1>13. MarksJust'
  BY <1>1, <1>2 DEF IInv, CreateSession, TypeOK, MarksJust, MarkJust, Settled, PaidKinds
<1>14. HoldsKnown'
  BY <1>1, <1>2 DEF IInv, CreateSession, TypeOK, HoldsKnown
<1>15. QED
  BY <1>3, <1>4, <1>5, <1>6, <1>7, <1>8, <1>9, <1>10, <1>11, <1>12, <1>13, <1>14 DEF IInv

\* closePrevious at the provider.
LEMMA AskProviderKeeps ==
  ASSUME IInv, NEW t \in Tabs, AskProvider(t)
  PROVE  IInv'
<1>1. tab[t].row \in Checkouts /\ status[tab[t].row] # "none" /\ tab[t].charge \in Charges
  BY DEF IInv, AskProvider, TabsKnown, TabKnown
<1>2. /\ tab' \in [Tabs -> TabRecord] /\ \A u \in Tabs \ {t} : tab'[u] = tab[u]
      /\ \/ tab'[t].pc = "close" /\ tab'[t].charge = tab[t].charge /\ tab'[t].row = tab[t].row
         \/ tab'[t].pc = "idle"
  BY TabMoves, TabEnds DEF IInv, TypeOK, AskProvider, TabPcs
<1>3. Raise(tab[t].row, "expired")
       => /\ event' \in [Checkouts -> [Kinds -> Deliveries]]
          /\ event'[tab[t].row]["expired"] = "raised"
          /\ \A j \in Checkouts, d \in Kinds : j # tab[t].row \/ d # "expired" => event'[j][d] = event[j][d]
  BY <1>1, Raises, KindsAre DEF IInv, TypeOK
<1>4. \/ session[tab[t].row] = "open" /\ session' = [session EXCEPT ![tab[t].row] = "expired"]
         /\ Raise(tab[t].row, "expired")
      \/ session' = session /\ event' = event
  BY DEF AskProvider
<1>5. TypeOK'
  BY <1>1, <1>2, <1>3, <1>4 DEF IInv, AskProvider, TypeOK, Sessions
<1>6. WithinCharge' /\ PaidSlotKept' /\ LocksHold' /\ OneSettler' /\ GoneVoid'
  BY DEF IInv, AskProvider, WithinCharge, PaidSlotKept, LocksHold, OneSettler, GoneVoid
<1>7. MoneyAccounted'
  <2> SUFFICES ASSUME NEW k \in Checkouts, session'[k] = "complete",
                      \A e \in PaidKinds : event'[k][e] \notin {"raised", "pending"}
               PROVE  status'[k] \in Settled
    BY DEF MoneyAccounted
  <2>1. session[k] = "complete" /\ status'[k] = status[k]
    BY <1>1, <1>4 DEF IInv, TypeOK, AskProvider
  <2>2. \A e \in PaidKinds : event'[k][e] = event[k][e]
    BY <1>1, <1>3, <1>4, KindsAre DEF PaidKinds
  <2> QED BY <2>1, <2>2 DEF IInv, MoneyAccounted
<1>8. BooksTrue'
  BY <1>1, <1>2, <1>3, <1>4 DEF IInv, AskProvider, TypeOK, BooksTrue, Settled
<1>9. RowsKnown'
  BY <1>1, <1>2, <1>3, <1>4 DEF IInv, AskProvider, TypeOK, RowsKnown
<1>10. PagesStored'
  BY <1>1, <1>2, <1>3, <1>4 DEF IInv, AskProvider, TypeOK, PagesStored
<1>11. TabsKnown'
  <2> SUFFICES ASSUME NEW u \in Tabs PROVE TabKnown(u)'
    BY DEF TabsKnown
  <2>1. TabKnown(u)
    BY DEF IInv, TabsKnown
  <2>2. CASE u # t
    BY <2>1, <2>2, <1>1, <1>2, <1>3, <1>4 DEF IInv, AskProvider, TypeOK, TabKnown
  <2>3. CASE u = t
    BY <2>1, <2>3, <1>1, <1>2, <1>3, <1>4 DEF IInv, AskProvider, TypeOK, TabKnown
  <2> QED BY <2>2, <2>3
<1>12. OneCreator'
  BY <1>1, <1>2, <1>3, <1>4 DEF IInv, AskProvider, TypeOK, OneCreator
<1>13. NewsTrue'
  BY <1>1, <1>2, <1>3, <1>4 DEF IInv, AskProvider, TypeOK, NewsTrue, Kinds, PaidKinds
<1>14. JobsKnown'
  BY <1>1, <1>2, <1>3, <1>4 DEF IInv, AskProvider, TypeOK, JobsKnown, JobKnown,
       PaidKinds, DeadKinds, JobRecord, Kinds
<1>15. MarksJust'
  BY <1>1, <1>2, <1>3, <1>4 DEF IInv, AskProvider, TypeOK, MarksJust, MarkJust, Settled,
       PaidKinds, JobsKnown, JobKnown, Kinds
<1>16. HoldsKnown'
  BY <1>1, <1>2, <1>3, <1>4 DEF IInv, AskProvider, TypeOK, HoldsKnown
<1>17. QED
  BY <1>5, <1>6, <1>7, <1>8, <1>9, <1>10, <1>11, <1>12, <1>13, <1>14, <1>15, <1>16 DEF IInv

\* resumableSessionUrl: a held slot's open session is handed back.
LEMMA ResumePreviousKeeps ==
  ASSUME IInv, NEW t \in Tabs, ResumePrevious(t)
  PROVE  IInv'
<1>1. tab[t].row \in Checkouts /\ status[tab[t].row] # "none" /\ tab[t].charge \in Charges
      /\ sessionRef[tab[t].row]
  BY DEF IInv, ResumePrevious, TabsKnown, TabKnown
<1>2. /\ tab' \in [Tabs -> TabRecord] /\ \A u \in Tabs \ {t} : tab'[u] = tab[u]
      /\ \/ tab'[t].pc = "ask" /\ tab'[t].charge = tab[t].charge /\ tab'[t].row = tab[t].row
         \/ tab'[t].pc = "idle"
  BY TabMoves, TabEnds DEF IInv, TypeOK, ResumePrevious, TabPcs
<1>3. TypeOK'
  BY <1>1, <1>2 DEF IInv, ResumePrevious, TypeOK
<1>4. /\ MoneyAccounted' /\ BooksTrue' /\ WithinCharge' /\ PaidSlotKept' /\ RowsKnown'
      /\ NewsTrue' /\ JobsKnown' /\ LocksHold' /\ OneSettler' /\ MarksJust' /\ HoldsKnown'
      /\ GoneVoid'
  BY DEF IInv, ResumePrevious, MoneyAccounted, BooksTrue, WithinCharge, PaidSlotKept,
       RowsKnown, NewsTrue, JobsKnown, JobKnown, LocksHold, OneSettler, MarksJust,
       MarkJust, HoldsKnown, GoneVoid
<1>5. PagesStored'
  BY <1>1, <1>2 DEF IInv, ResumePrevious, TypeOK, PagesStored
<1>6. TabsKnown'
  <2> SUFFICES ASSUME NEW u \in Tabs PROVE TabKnown(u)'
    BY DEF TabsKnown
  <2>1. TabKnown(u)
    BY DEF IInv, TabsKnown
  <2>2. CASE u # t
    BY <2>1, <2>2, <1>1, <1>2 DEF IInv, ResumePrevious, TypeOK, TabKnown
  <2>3. CASE u = t
    BY <2>1, <2>3, <1>1, <1>2 DEF IInv, ResumePrevious, TypeOK, TabKnown
  <2> QED BY <2>2, <2>3
<1>7. OneCreator'
  BY <1>1, <1>2 DEF IInv, ResumePrevious, TypeOK, OneCreator
<1>8. QED
  BY <1>3, <1>4, <1>5, <1>6, <1>7 DEF IInv

\* closeChargeCheckout reads the charge's open row.
LEMMA CloseChargeCheckoutKeeps ==
  ASSUME IInv, NEW t \in Tabs, CloseChargeCheckout(t)
  PROVE  IInv'
<1>1. tab[t].charge \in Charges
  BY DEF IInv, CloseChargeCheckout, TabsKnown, TabKnown
<1>2. PICK previous \in SeenPrevious(tab[t].charge) :
         IF previous.id = None THEN EndTab(t)
         ELSE tab' = [tab EXCEPT ![t].pc = IF previous.ref THEN "ask" ELSE "close",
                                 ![t].row = previous.id]
  BY DEF CloseChargeCheckout
<1>3. previous.id # None => previous.id \in Checkouts /\ status[previous.id] = "open"
  BY DEF SeenPrevious, OpenRows
<1>4. /\ tab' \in [Tabs -> TabRecord] /\ \A u \in Tabs \ {t} : tab'[u] = tab[u]
      /\ \/ tab'[t].pc \in {"ask", "close"} /\ tab'[t].charge = tab[t].charge /\ tab'[t].row = previous.id
            /\ previous.id # None
         \/ tab'[t].pc = "idle"
  <2>1. CASE previous.id = None
    BY <1>2, <2>1, TabEnds DEF IInv, TypeOK
  <2>2. CASE previous.id # None
    <3>1. PICK pc \in {"ask", "close"} : tab' = [tab EXCEPT ![t].pc = pc, ![t].row = previous.id]
      BY <1>2, <2>2
    <3>2. QED
      BY <1>3, <2>2, <3>1, TabTakesRow DEF IInv, TypeOK, TabPcs
  <2> QED BY <2>1, <2>2
<1>5. TypeOK'
  BY <1>1, <1>2, <1>3, <1>4 DEF IInv, CloseChargeCheckout, TypeOK
<1>6. /\ MoneyAccounted' /\ BooksTrue' /\ WithinCharge' /\ PaidSlotKept' /\ RowsKnown'
      /\ PagesStored' /\ NewsTrue' /\ JobsKnown' /\ LocksHold' /\ OneSettler' /\ MarksJust'
      /\ HoldsKnown' /\ GoneVoid'
  BY DEF IInv, CloseChargeCheckout, MoneyAccounted, BooksTrue, WithinCharge,
       PaidSlotKept, RowsKnown, PagesStored, NewsTrue, JobsKnown, JobKnown, LocksHold,
       OneSettler, MarksJust, MarkJust, HoldsKnown, GoneVoid
<1>7. TabsKnown'
  <2> SUFFICES ASSUME NEW u \in Tabs PROVE TabKnown(u)'
    BY DEF TabsKnown
  <2>1. TabKnown(u)
    BY DEF IInv, TabsKnown
  <2>2. CASE u # t
    BY <2>1, <2>2, <1>1, <1>2, <1>3, <1>4 DEF IInv, CloseChargeCheckout, TypeOK, TabKnown
  <2>3. CASE u = t
    BY <2>1, <2>3, <1>1, <1>2, <1>3, <1>4 DEF IInv, CloseChargeCheckout, TypeOK, TabKnown
  <2> QED BY <2>2, <2>3
<1>8. OneCreator'
  BY <1>1, <1>2, <1>3, <1>4 DEF IInv, CloseChargeCheckout, TypeOK, OneCreator
<1>9. QED
  BY <1>5, <1>6, <1>7, <1>8 DEF IInv

\* A member's tab asks for the page of a charge.
LEMMA StartChargeCheckoutKeeps ==
  ASSUME IInv, NEW t \in Tabs, NEW c \in Charges, StartChargeCheckout(t, c)
  PROVE  IInv'
<1>1. PICK previous \in SeenPrevious(c), pc \in {"resume", "resume_only", "ask", "close", "insert"} :
         /\ tab' = [tab EXCEPT ![t] = [pc |-> pc, goal |-> "pay", charge |-> c, row |-> previous.id]]
         /\ pc \in {"resume", "resume_only", "ask"} => previous.ref
         /\ pc = "close" => previous.id # None
  BY DEF StartChargeCheckout
<1>2. /\ previous.id # None => /\ previous.id \in Checkouts /\ status[previous.id] = "open"
                               /\ previous.ref = sessionRef[previous.id]
      /\ previous.id = None => ~previous.ref
  BY NoneAssumption DEF SeenPrevious, OpenRows
<1>3. /\ tab' \in [Tabs -> TabRecord] /\ \A u \in Tabs \ {t} : tab'[u] = tab[u]
      /\ tab'[t].pc = pc /\ tab'[t].charge = c /\ tab'[t].row = previous.id
  BY <1>1, <1>2 DEF IInv, TypeOK, TabRecord, TabPcs
<1>4. TypeOK'
  BY <1>1, <1>2, <1>3 DEF IInv, StartChargeCheckout, TypeOK
<1>5. /\ MoneyAccounted' /\ BooksTrue' /\ WithinCharge' /\ PaidSlotKept' /\ RowsKnown'
      /\ PagesStored' /\ NewsTrue' /\ JobsKnown' /\ LocksHold' /\ OneSettler' /\ MarksJust'
      /\ HoldsKnown' /\ GoneVoid'
  BY DEF IInv, StartChargeCheckout, MoneyAccounted, BooksTrue, WithinCharge,
       PaidSlotKept, RowsKnown, PagesStored, NewsTrue, JobsKnown, JobKnown, LocksHold,
       OneSettler, MarksJust, MarkJust, HoldsKnown, GoneVoid
<1>6. TabsKnown'
  <2> SUFFICES ASSUME NEW u \in Tabs PROVE TabKnown(u)'
    BY DEF TabsKnown
  <2>1. TabKnown(u)
    BY DEF IInv, TabsKnown
  <2>2. CASE u # t
    BY <2>1, <2>2, <1>1, <1>2, <1>3 DEF IInv, StartChargeCheckout, TypeOK, TabKnown
  <2>3. CASE u = t
    BY <2>1, <2>3, <1>1, <1>2, <1>3 DEF IInv, StartChargeCheckout, TypeOK, TabKnown
  <2> QED BY <2>2, <2>3
<1>7. OneCreator'
  BY <1>1, <1>2, <1>3 DEF IInv, StartChargeCheckout, TypeOK, OneCreator
<1>8. QED
  BY <1>4, <1>5, <1>6, <1>7 DEF IInv

\* cancelOnce.
LEMMA CancelReservationKeeps ==
  ASSUME IInv, NEW t \in Tabs, NEW c \in Charges, CancelReservation(t, c)
  PROVE  IInv'
<1>1. /\ tab' \in [Tabs -> TabRecord] /\ \A u \in Tabs \ {t} : tab'[u] = tab[u]
      /\ \/ tab'[t].pc = "read_open" /\ tab'[t].charge = c
         \/ tab'[t] = tab[t]
  BY DEF IInv, TypeOK, CancelReservation, TabRecord, TabPcs
<1>2. TypeOK'
  BY <1>1 DEF IInv, CancelReservation, TypeOK, Holds
<1>3. /\ MoneyAccounted' /\ BooksTrue' /\ WithinCharge' /\ RowsKnown' /\ PagesStored'
      /\ NewsTrue' /\ JobsKnown' /\ LocksHold' /\ OneSettler' /\ MarksJust'
  BY DEF IInv, CancelReservation, MoneyAccounted, BooksTrue, WithinCharge, RowsKnown,
       PagesStored, NewsTrue, JobsKnown, JobKnown, LocksHold, OneSettler, MarksJust,
       MarkJust
<1>4. PaidSlotKept'
  BY <1>1 DEF IInv, CancelReservation, TypeOK, PaidSlotKept
<1>5. TabsKnown'
  <2> SUFFICES ASSUME NEW u \in Tabs PROVE TabKnown(u)'
    BY DEF TabsKnown
  <2>1. TabKnown(u)
    BY DEF IInv, TabsKnown
  <2>2. CASE u # t
    BY <2>1, <2>2, <1>1 DEF IInv, CancelReservation, TypeOK, TabKnown
  <2>3. CASE u = t
    BY <2>1, <2>3, <1>1 DEF IInv, CancelReservation, TypeOK, TabKnown
  <2> QED BY <2>2, <2>3
<1>6. OneCreator'
  BY <1>1 DEF IInv, CancelReservation, TypeOK, OneCreator
<1>7. HoldsKnown'
  <2> SUFFICES ASSUME NEW d \in Charges
               PROVE  /\ hold'[d] = "expired" => hold[d] = "expired"
                      /\ hold'[d] = "held" => hold[d] = "held"
                      /\ voided[d] => voided'[d]
    BY DEF IInv, CancelReservation, HoldsKnown
  <2> QED BY DEF IInv, TypeOK, CancelReservation
<1>8. GoneVoid'
  BY <1>1 DEF IInv, CancelReservation, TypeOK, GoneVoid, Gone
<1>9. QED
  BY <1>2, <1>3, <1>4, <1>5, <1>6, <1>7, <1>8 DEF IInv

\* The row is inserted.
LEMMA NewRow ==
  ASSUME IInv, NEW t \in Tabs, NEW k \in Checkouts, tab[t].pc = "insert", status[k] = "none",
         Due(tab[t].charge) >= MinOnline, LongEnough(tab[t].charge),
         status' = [status EXCEPT ![k] = "open"],
         chargeOf' = [chargeOf EXCEPT ![k] = tab[t].charge],
         amount' = [amount EXCEPT ![k] = Due(tab[t].charge)],
         cardOnly' = IF hold[tab[t].charge] = "held" THEN cardOnly \cup {k} ELSE cardOnly,
         tab' = [tab EXCEPT ![t].pc = "create", ![t].row = k],
         UNCHANGED <<sessionRef, bookVars, holdVars, session, page, event, job>>
  PROVE  IInv'
<1>1. /\ chargeOf[k] = None /\ ~sessionRef[k] /\ session[k] = "none" /\ k \notin cardOnly
      /\ tab[t].charge \in Charges
  BY DEF IInv, RowsKnown, TabsKnown, TabKnown
<1>2. /\ tab' \in [Tabs -> TabRecord] /\ \A u \in Tabs \ {t} : tab'[u] = tab[u]
      /\ tab'[t].pc = "create" /\ tab'[t].charge = tab[t].charge /\ tab'[t].row = k
  BY TabTakesRow DEF IInv, TypeOK, TabPcs
<1>3. /\ Due(tab[t].charge) \in 1..Price
      /\ hold[tab[t].charge] # "expired"
      /\ hold[tab[t].charge] = "held" => clock[tab[t].charge] = "early"
  BY <1>1, PriceAssumption DEF IInv, TypeOK, WithinCharge, HoldsKnown, Due, LongEnough
<1>4. TypeOK'
  BY <1>1, <1>2, <1>3 DEF IInv, TypeOK, Statuses
<1>5. /\ WithinCharge' /\ PaidSlotKept' /\ PagesStored' /\ NewsTrue' /\ JobsKnown'
      /\ OneSettler' /\ GoneVoid'
  BY DEF IInv, WithinCharge, PaidSlotKept, PagesStored, NewsTrue, JobsKnown, JobKnown,
       OneSettler, GoneVoid
<1>6. MoneyAccounted'
  BY <1>1, <1>2, <1>3 DEF IInv, TypeOK, MoneyAccounted, Settled, PaidKinds
<1>7. BooksTrue'
  BY <1>1, <1>2, <1>3 DEF IInv, TypeOK, BooksTrue, Settled
<1>8. RowsKnown'
  BY <1>1, <1>2, <1>3, NoneAssumption DEF IInv, TypeOK, RowsKnown
<1>9. TabsKnown'
  <2> SUFFICES ASSUME NEW u \in Tabs PROVE TabKnown(u)'
    BY DEF TabsKnown
  <2>1. TabKnown(u)
    BY DEF IInv, TabsKnown
  <2>2. CASE u # t
    BY <2>1, <2>2, <1>1, <1>2, <1>3 DEF IInv, TypeOK, TabKnown
  <2>3. CASE u = t
    BY <2>1, <2>3, <1>1, <1>2, <1>3 DEF IInv, TypeOK, TabKnown
  <2> QED BY <2>2, <2>3
<1>10. OneCreator'
  BY <1>1, <1>2, <1>3 DEF IInv, TypeOK, OneCreator, TabsKnown, TabKnown
<1>11. LocksHold'
  BY <1>1, <1>2, <1>3 DEF IInv, TypeOK, LocksHold, JobsKnown, JobKnown
<1>12. MarksJust'
  BY <1>1, <1>2, <1>3 DEF IInv, TypeOK, MarksJust, MarkJust, Settled, PaidKinds,
       JobsKnown, JobKnown
<1>13. HoldsKnown'
  BY <1>1, <1>2, <1>3, NoneAssumption DEF IInv, TypeOK, HoldsKnown
<1>14. QED
  BY <1>4, <1>5, <1>6, <1>7, <1>8, <1>9, <1>10, <1>11, <1>12, <1>13 DEF IInv

\* The transaction that inserts a row, or refuses.
LEMMA InsertCheckoutKeeps ==
  ASSUME IInv, NEW t \in Tabs, InsertCheckout(t)
  PROVE  IInv'
<1>1. CASE /\ EndTab(t)
           /\ UNCHANGED <<checkoutVars, bookVars, holdVars, stripeVars, event, job>>
  BY <1>1, AbandonTabKeeps DEF InsertCheckout, AbandonTab
<1>2. CASE ~(EndTab(t) /\ UNCHANGED <<checkoutVars, bookVars, holdVars, stripeVars, event, job>>)
  BY <1>2, NewRow DEF InsertCheckout
<1>3. QED
  BY <1>1, <1>2

-----------------------------------------------------------------------------
(* The steps of the desk, and of a hold, keep the invariant.               *)

\* The desk takes money.
LEMMA RecordPaymentKeeps ==
  ASSUME IInv, NEW c \in Charges, RecordPayment(c)
  PROVE  IInv'
<1>1. Price \in Nat
  BY PriceAssumption
<1>2. TypeOK'
  BY <1>1 DEF IInv, RecordPayment, FitsCharge, BookPayment, TypeOK, Holds
<1>3. /\ MoneyAccounted' /\ BooksTrue' /\ RowsKnown' /\ PagesStored' /\ TabsKnown'
      /\ OneCreator' /\ NewsTrue' /\ JobsKnown' /\ LocksHold' /\ OneSettler' /\ MarksJust'
  BY DEF IInv, RecordPayment, MoneyAccounted, BooksTrue, RowsKnown, PagesStored,
       TabsKnown, TabKnown, OneCreator, NewsTrue, JobsKnown, JobKnown, LocksHold,
       OneSettler, MarksJust, MarkJust
<1>4. WithinCharge'
  BY <1>1 DEF IInv, RecordPayment, FitsCharge, BookPayment, TypeOK, WithinCharge
<1>5. PaidSlotKept'
  BY <1>1 DEF IInv, RecordPayment, FitsCharge, BookPayment, TypeOK, PaidSlotKept, HoldsKnown
<1>6. HoldsKnown'
  BY <1>1 DEF IInv, RecordPayment, FitsCharge, BookPayment, TypeOK, HoldsKnown
<1>7. GoneVoid'
  BY <1>1 DEF IInv, RecordPayment, FitsCharge, BookPayment, TypeOK, GoneVoid, Gone
<1>8. QED
  BY <1>2, <1>3, <1>4, <1>5, <1>6, <1>7 DEF IInv

\* The desk voids a charge.
LEMMA VoidChargeKeeps ==
  ASSUME IInv, NEW c \in Charges, VoidCharge(c)
  PROVE  IInv'
<1>1. TypeOK'
  BY DEF IInv, VoidCharge, TypeOK
<1>2. /\ MoneyAccounted' /\ BooksTrue' /\ WithinCharge' /\ PaidSlotKept' /\ RowsKnown'
      /\ PagesStored' /\ TabsKnown' /\ OneCreator' /\ NewsTrue' /\ JobsKnown' /\ LocksHold'
      /\ OneSettler' /\ MarksJust'
  BY DEF IInv, VoidCharge, MoneyAccounted, BooksTrue, WithinCharge, PaidSlotKept,
       RowsKnown, PagesStored, TabsKnown, TabKnown, OneCreator, NewsTrue, JobsKnown,
       JobKnown, LocksHold, OneSettler, MarksJust, MarkJust
<1>3. HoldsKnown'
  BY DEF IInv, VoidCharge, TypeOK, HoldsKnown
<1>4. GoneVoid'
  BY DEF IInv, VoidCharge, TypeOK, GoneVoid, Gone
<1>5. QED
  BY <1>1, <1>2, <1>3, <1>4 DEF IInv

\* Time passes on a hold.
LEMMA HoldClockKeeps ==
  ASSUME IInv, NEW c \in Charges, HoldClock(c)
  PROVE  IInv'
<1>1. TypeOK'
  BY DEF IInv, HoldClock, TypeOK, Clocks
<1>2. /\ MoneyAccounted' /\ BooksTrue' /\ WithinCharge' /\ PaidSlotKept' /\ RowsKnown'
      /\ PagesStored' /\ TabsKnown' /\ OneCreator' /\ NewsTrue' /\ JobsKnown' /\ LocksHold'
      /\ OneSettler' /\ MarksJust' /\ GoneVoid'
  BY DEF IInv, HoldClock, MoneyAccounted, BooksTrue, WithinCharge, PaidSlotKept,
       RowsKnown, PagesStored, TabsKnown, TabKnown, OneCreator, NewsTrue, JobsKnown,
       JobKnown, LocksHold, OneSettler, MarksJust, MarkJust, GoneVoid
<1>3. HoldsKnown'
  BY DEF IInv, HoldClock, TypeOK, HoldsKnown
<1>4. QED
  BY <1>1, <1>2, <1>3 DEF IInv

\* The sweep reads the lapsed holds.
LEMMA ReadLapsedKeeps ==
  ASSUME IInv, ReadLapsed
  PROVE  IInv'
<1>1. TypeOK'
  BY DEF IInv, ReadLapsed, TypeOK
<1>2. /\ MoneyAccounted' /\ BooksTrue' /\ WithinCharge' /\ PaidSlotKept' /\ RowsKnown'
      /\ PagesStored' /\ TabsKnown' /\ OneCreator' /\ NewsTrue' /\ JobsKnown' /\ LocksHold'
      /\ OneSettler' /\ MarksJust' /\ HoldsKnown' /\ GoneVoid'
  BY DEF IInv, ReadLapsed, MoneyAccounted, BooksTrue, WithinCharge, PaidSlotKept,
       RowsKnown, PagesStored, TabsKnown, TabKnown, OneCreator, NewsTrue, JobsKnown,
       JobKnown, LocksHold, OneSettler, MarksJust, MarkJust, HoldsKnown, GoneVoid
<1>3. QED
  BY <1>1, <1>2 DEF IInv

\* The sweep releases what is still lapsed and unpaid.
LEMMA ReleaseLapsedKeeps ==
  ASSUME IInv, ReleaseLapsed
  PROVE  IInv'
<1>1. TypeOK'
  BY DEF IInv, ReleaseLapsed, Releasable, Lapsed, TypeOK, Holds, Statuses
<1>2. WithinCharge' /\ PagesStored' /\ OneCreator' /\ NewsTrue' /\ JobsKnown' /\ OneSettler'
  BY DEF IInv, ReleaseLapsed, WithinCharge, PagesStored, OneCreator, NewsTrue,
       JobsKnown, JobKnown, OneSettler
<1>3. MoneyAccounted'
  BY DEF IInv, ReleaseLapsed, Releasable, Lapsed, TypeOK, MoneyAccounted, Settled, PaidKinds
<1>4. BooksTrue'
  BY DEF IInv, ReleaseLapsed, Releasable, Lapsed, TypeOK, BooksTrue, Settled
<1>5. PaidSlotKept'
  BY DEF IInv, ReleaseLapsed, Releasable, Lapsed, TypeOK, PaidSlotKept
<1>6. RowsKnown'
  BY DEF IInv, ReleaseLapsed, Releasable, Lapsed, TypeOK, RowsKnown
<1>7. TabsKnown'
  <2> SUFFICES ASSUME NEW u \in Tabs PROVE TabKnown(u)'
    BY DEF TabsKnown
  <2>1. TabKnown(u)
    BY DEF IInv, TabsKnown
  <2> QED BY <2>1 DEF IInv, ReleaseLapsed, Releasable, Lapsed, TypeOK, TabKnown
<1>8. LocksHold'
  BY DEF IInv, ReleaseLapsed, Releasable, Lapsed, TypeOK, LocksHold, Locked, OpenRows,
       JobsKnown, JobKnown, RowsKnown
<1>9. MarksJust'
  BY DEF IInv, ReleaseLapsed, Releasable, Lapsed, TypeOK, MarksJust, MarkJust, Settled,
       PaidKinds, JobsKnown, JobKnown
<1>10. HoldsKnown'
  BY DEF IInv, ReleaseLapsed, Releasable, Lapsed, TypeOK, HoldsKnown
<1>11. GoneVoid'
  BY DEF IInv, ReleaseLapsed, Releasable, Lapsed, TypeOK, GoneVoid, Gone
<1>12. QED
  BY <1>1, <1>2, <1>3, <1>4, <1>5, <1>6, <1>7, <1>8, <1>9, <1>10, <1>11 DEF IInv

-----------------------------------------------------------------------------
(* Stripe's steps keep the invariant.                                      *)

\* The member pays by card.
LEMMA PayByCardKeeps ==
  ASSUME IInv, NEW k \in Checkouts, PayByCard(k)
  PROVE  IInv'
<1>1. /\ event' \in [Checkouts -> [Kinds -> Deliveries]]
      /\ event'[k]["completed"] = "raised"
      /\ \A j \in Checkouts, f \in Kinds : j # k \/ f # "completed" => event'[j][f] = event[j][f]
  BY Raises, KindsAre DEF IInv, TypeOK, PayByCard
<1>2. TypeOK'
  BY <1>1 DEF IInv, PayByCard, TypeOK, Sessions
<1>3. /\ WithinCharge' /\ PaidSlotKept' /\ OneCreator' /\ LocksHold' /\ OneSettler'
      /\ GoneVoid'
  BY DEF IInv, PayByCard, WithinCharge, PaidSlotKept, OneCreator, LocksHold, OneSettler,
       GoneVoid
<1>4. MoneyAccounted'
  BY <1>1, KindsAre DEF IInv, PayByCard, TypeOK, MoneyAccounted, Settled, PaidKinds
<1>5. BooksTrue'
  BY <1>1 DEF IInv, PayByCard, TypeOK, BooksTrue, Settled
<1>6. RowsKnown'
  BY <1>1 DEF IInv, PayByCard, TypeOK, RowsKnown
<1>7. PagesStored'
  BY <1>1 DEF IInv, PayByCard, TypeOK, PagesStored
<1>8. TabsKnown'
  BY <1>1 DEF IInv, PayByCard, TypeOK, RowsKnown, TabsKnown, TabKnown
<1>9. NewsTrue'
  BY <1>1, KindsAre DEF IInv, PayByCard, TypeOK, NewsTrue
<1>10. JobsKnown'
  <2> SUFFICES ASSUME NEW v \in Workers PROVE JobKnown(v)'
    BY DEF JobsKnown
  <2>1. JobKnown(v) /\ job[v] \in JobRecord
    BY DEF IInv, JobsKnown, TypeOK
  <2> QED BY <2>1, <1>1 DEF IInv, PayByCard, TypeOK, JobRecord, JobKnown
<1>11. MarksJust'
  BY <1>1, KindsAre DEF IInv, PayByCard, TypeOK, MarksJust, MarkJust, Settled,
       PaidKinds, JobsKnown, JobKnown, NewsTrue
<1>12. HoldsKnown'
  BY <1>1 DEF IInv, PayByCard, TypeOK, HoldsKnown
<1>13. QED
  BY <1>2, <1>3, <1>4, <1>5, <1>6, <1>7, <1>8, <1>9, <1>10, <1>11, <1>12 DEF IInv

\* The member submits a delayed method.
LEMMA PayDelayedKeeps ==
  ASSUME IInv, NEW k \in Checkouts, PayDelayed(k)
  PROVE  IInv'
<1>1. /\ event' \in [Checkouts -> [Kinds -> Deliveries]]
      /\ event'[k]["completed"] = "raised"
      /\ \A j \in Checkouts, f \in Kinds : j # k \/ f # "completed" => event'[j][f] = event[j][f]
  BY Raises, KindsAre DEF IInv, TypeOK, PayDelayed
<1>2. TypeOK'
  BY <1>1 DEF IInv, PayDelayed, TypeOK, Sessions
<1>3. /\ WithinCharge' /\ PaidSlotKept' /\ OneCreator' /\ LocksHold' /\ OneSettler'
      /\ GoneVoid'
  BY DEF IInv, PayDelayed, WithinCharge, PaidSlotKept, OneCreator, LocksHold,
       OneSettler, GoneVoid
<1>4. MoneyAccounted'
  BY <1>1, KindsAre DEF IInv, PayDelayed, TypeOK, MoneyAccounted, Settled, PaidKinds
<1>5. BooksTrue'
  BY <1>1 DEF IInv, PayDelayed, TypeOK, BooksTrue, Settled
<1>6. RowsKnown'
  BY <1>1 DEF IInv, PayDelayed, TypeOK, RowsKnown
<1>7. PagesStored'
  BY <1>1 DEF IInv, PayDelayed, TypeOK, PagesStored
<1>8. TabsKnown'
  BY <1>1 DEF IInv, PayDelayed, TypeOK, RowsKnown, TabsKnown, TabKnown
<1>9. NewsTrue'
  BY <1>1, KindsAre DEF IInv, PayDelayed, TypeOK, NewsTrue
<1>10. JobsKnown'
  <2> SUFFICES ASSUME NEW v \in Workers PROVE JobKnown(v)'
    BY DEF JobsKnown
  <2>1. JobKnown(v) /\ job[v] \in JobRecord
    BY DEF IInv, JobsKnown, TypeOK
  <2> QED BY <2>1, <1>1 DEF IInv, PayDelayed, TypeOK, JobRecord, JobKnown
<1>11. MarksJust'
  BY <1>1, KindsAre DEF IInv, PayDelayed, TypeOK, MarksJust, MarkJust, Settled,
       PaidKinds, JobsKnown, JobKnown, NewsTrue
<1>12. HoldsKnown'
  BY <1>1 DEF IInv, PayDelayed, TypeOK, HoldsKnown
<1>13. QED
  BY <1>2, <1>3, <1>4, <1>5, <1>6, <1>7, <1>8, <1>9, <1>10, <1>11, <1>12 DEF IInv

\* A session ends unpaid.
LEMMA SessionExpiresKeeps ==
  ASSUME IInv, NEW k \in Checkouts, SessionExpires(k)
  PROVE  IInv'
<1>1. /\ event' \in [Checkouts -> [Kinds -> Deliveries]]
      /\ event'[k]["expired"] = "raised"
      /\ \A j \in Checkouts, f \in Kinds : j # k \/ f # "expired" => event'[j][f] = event[j][f]
  BY Raises, KindsAre DEF IInv, TypeOK, SessionExpires
<1>2. TypeOK'
  BY <1>1 DEF IInv, SessionExpires, TypeOK, Sessions
<1>3. /\ WithinCharge' /\ PaidSlotKept' /\ OneCreator' /\ LocksHold' /\ OneSettler'
      /\ GoneVoid'
  BY DEF IInv, SessionExpires, WithinCharge, PaidSlotKept, OneCreator, LocksHold,
       OneSettler, GoneVoid
<1>4. MoneyAccounted'
  BY <1>1, KindsAre DEF IInv, SessionExpires, TypeOK, MoneyAccounted, Settled, PaidKinds
<1>5. BooksTrue'
  BY <1>1 DEF IInv, SessionExpires, TypeOK, BooksTrue, Settled
<1>6. RowsKnown'
  BY <1>1 DEF IInv, SessionExpires, TypeOK, RowsKnown
<1>7. PagesStored'
  BY <1>1 DEF IInv, SessionExpires, TypeOK, PagesStored
<1>8. TabsKnown'
  BY <1>1 DEF IInv, SessionExpires, TypeOK, RowsKnown, TabsKnown, TabKnown
<1>9. NewsTrue'
  BY <1>1, KindsAre DEF IInv, SessionExpires, TypeOK, NewsTrue
<1>10. JobsKnown'
  <2> SUFFICES ASSUME NEW v \in Workers PROVE JobKnown(v)'
    BY DEF JobsKnown
  <2>1. JobKnown(v) /\ job[v] \in JobRecord
    BY DEF IInv, JobsKnown, TypeOK
  <2> QED BY <2>1, <1>1 DEF IInv, SessionExpires, TypeOK, JobRecord, JobKnown
<1>11. MarksJust'
  BY <1>1, KindsAre DEF IInv, SessionExpires, TypeOK, MarksJust, MarkJust, Settled,
       PaidKinds, JobsKnown, JobKnown, NewsTrue
<1>12. HoldsKnown'
  BY <1>1 DEF IInv, SessionExpires, TypeOK, HoldsKnown
<1>13. QED
  BY <1>2, <1>3, <1>4, <1>5, <1>6, <1>7, <1>8, <1>9, <1>10, <1>11, <1>12 DEF IInv

\* A delayed method settles or is refused.
LEMMA SettleDelayedKeeps ==
  ASSUME IInv, NEW k \in Checkouts, SettleDelayed(k)
  PROVE  IInv'
<1>1. PICK e \in {"async_succeeded", "async_failed"} :
         /\ event' \in [Checkouts -> [Kinds -> Deliveries]]
         /\ event'[k][e] = "raised"
         /\ \A j \in Checkouts, f \in Kinds : j # k \/ f # e => event'[j][f] = event[j][f]
         /\ session' = [session EXCEPT ![k] = IF e = "async_succeeded" THEN "complete" ELSE "failed"]
  <2>1. CASE session' = [session EXCEPT ![k] = "complete"] /\ Raise(k, "async_succeeded")
    BY <2>1, Raises, KindsAre DEF IInv, TypeOK
  <2>2. CASE session' = [session EXCEPT ![k] = "failed"] /\ Raise(k, "async_failed")
    BY <2>2, Raises, KindsAre DEF IInv, TypeOK
  <2> QED BY <2>1, <2>2 DEF SettleDelayed
<1>2. TypeOK'
  BY <1>1 DEF IInv, SettleDelayed, TypeOK, Sessions
<1>3. /\ WithinCharge' /\ PaidSlotKept' /\ OneCreator' /\ LocksHold' /\ OneSettler'
      /\ GoneVoid'
  BY DEF IInv, SettleDelayed, WithinCharge, PaidSlotKept, OneCreator, LocksHold,
       OneSettler, GoneVoid
<1>4. MoneyAccounted'
  BY <1>1, KindsAre DEF IInv, SettleDelayed, TypeOK, MoneyAccounted, Settled, PaidKinds
<1>5. BooksTrue'
  BY <1>1 DEF IInv, SettleDelayed, TypeOK, BooksTrue, Settled
<1>6. RowsKnown'
  BY <1>1 DEF IInv, SettleDelayed, TypeOK, RowsKnown
<1>7. PagesStored'
  BY <1>1 DEF IInv, SettleDelayed, TypeOK, PagesStored
<1>8. TabsKnown'
  BY <1>1 DEF IInv, SettleDelayed, TypeOK, RowsKnown, TabsKnown, TabKnown
<1>9. NewsTrue'
  BY <1>1, KindsAre DEF IInv, SettleDelayed, TypeOK, NewsTrue
<1>10. JobsKnown'
  <2> SUFFICES ASSUME NEW v \in Workers PROVE JobKnown(v)'
    BY DEF JobsKnown
  <2>1. JobKnown(v) /\ job[v] \in JobRecord
    BY DEF IInv, JobsKnown, TypeOK
  <2> QED BY <2>1, <1>1 DEF IInv, SettleDelayed, TypeOK, JobRecord, JobKnown
<1>11. MarksJust'
  BY <1>1, KindsAre DEF IInv, SettleDelayed, TypeOK, MarksJust, MarkJust, Settled,
       PaidKinds, JobsKnown, JobKnown, NewsTrue
<1>12. HoldsKnown'
  BY <1>1 DEF IInv, SettleDelayed, TypeOK, HoldsKnown
<1>13. QED
  BY <1>2, <1>3, <1>4, <1>5, <1>6, <1>7, <1>8, <1>9, <1>10, <1>11, <1>12 DEF IInv

\* The webhook ledger takes an event in.
LEMMA RecordEventKeeps ==
  ASSUME IInv, NEW k \in Checkouts, NEW e \in Kinds, RecordEvent(k, e)
  PROVE  IInv'
<1>1. /\ event' \in [Checkouts -> [Kinds -> Deliveries]]
      /\ event[k][e] = "raised" /\ event'[k][e] = "pending"
      /\ \A j \in Checkouts, f \in Kinds : j # k \/ f # e => event'[j][f] = event[j][f]
  BY EventMoves DEF IInv, TypeOK, RecordEvent, Deliveries
<1>2. TypeOK'
  BY <1>1 DEF IInv, RecordEvent, TypeOK
<1>3. /\ BooksTrue' /\ WithinCharge' /\ PaidSlotKept' /\ RowsKnown' /\ PagesStored'
      /\ TabsKnown' /\ OneCreator' /\ LocksHold' /\ OneSettler' /\ HoldsKnown' /\ GoneVoid'
  BY DEF IInv, RecordEvent, BooksTrue, WithinCharge, PaidSlotKept, RowsKnown,
       PagesStored, TabsKnown, TabKnown, OneCreator, LocksHold, OneSettler, HoldsKnown,
       GoneVoid
<1>4. MoneyAccounted'
  BY <1>1, KindsAre DEF IInv, RecordEvent, TypeOK, MoneyAccounted, Settled, PaidKinds
<1>5. NewsTrue'
  BY <1>1, KindsAre DEF IInv, RecordEvent, TypeOK, NewsTrue
<1>6. JobsKnown'
  <2> SUFFICES ASSUME NEW v \in Workers PROVE JobKnown(v)'
    BY DEF JobsKnown
  <2>1. JobKnown(v) /\ job[v] \in JobRecord
    BY DEF IInv, JobsKnown, TypeOK
  <2> QED BY <2>1, <1>1 DEF IInv, RecordEvent, TypeOK, JobRecord, JobKnown
<1>7. MarksJust'
  BY <1>1, KindsAre DEF IInv, RecordEvent, TypeOK, MarksJust, MarkJust, Settled,
       PaidKinds, JobsKnown, JobKnown
<1>8. QED
  BY <1>2, <1>3, <1>4, <1>5, <1>6, <1>7 DEF IInv

-----------------------------------------------------------------------------
(* The worker's steps keep the invariant.                                  *)

\* A handler takes a pending event.
LEMMA TakeEventKeeps ==
  ASSUME IInv, NEW w \in Workers, NEW k \in Checkouts, NEW e \in Kinds, TakeEvent(w, k, e)
  PROVE  IInv'
<1>1. /\ job' \in [Workers -> JobRecord] /\ \A v \in Workers \ {w} : job'[v] = job[v]
      /\ job'[w].pc = IF e \in DeadKinds THEN "expire" ELSE "fetch"
      /\ job'[w].checkout = k /\ job'[w].kind = e /\ event[k][e] = "pending"
  BY DEF IInv, TypeOK, TakeEvent, JobRecord, JobPcs
<1>2. e \notin DeadKinds => e \in PaidKinds
  BY DEF Kinds
<1>3. TypeOK'
  BY <1>1, <1>2 DEF IInv, TakeEvent, TypeOK
<1>4. /\ MoneyAccounted' /\ BooksTrue' /\ WithinCharge' /\ PaidSlotKept' /\ RowsKnown'
      /\ PagesStored' /\ TabsKnown' /\ OneCreator' /\ NewsTrue' /\ HoldsKnown' /\ GoneVoid'
  BY DEF IInv, TakeEvent, MoneyAccounted, BooksTrue, WithinCharge, PaidSlotKept,
       RowsKnown, PagesStored, TabsKnown, TabKnown, OneCreator, NewsTrue, HoldsKnown,
       GoneVoid
<1>5. JobsKnown'
  <2> SUFFICES ASSUME NEW v \in Workers PROVE JobKnown(v)'
    BY DEF JobsKnown
  <2>1. JobKnown(v) /\ job[v] \in JobRecord
    BY DEF IInv, JobsKnown, TypeOK
  <2> QED BY <2>1, <1>1, <1>2 DEF IInv, TakeEvent, TypeOK, JobRecord, JobKnown
<1>6. LocksHold'
  BY <1>1, <1>2 DEF IInv, TakeEvent, TypeOK, LocksHold
<1>7. OneSettler'
  BY <1>1, <1>2 DEF IInv, TakeEvent, TypeOK, OneSettler
<1>8. MarksJust'
  BY <1>1, <1>2 DEF IInv, TakeEvent, TypeOK, MarksJust, MarkJust, Settled, PaidKinds
<1>9. QED
  BY <1>3, <1>4, <1>5, <1>6, <1>7, <1>8 DEF IInv

\* The session is fetched again.
LEMMA FetchSessionKeeps ==
  ASSUME IInv, NEW w \in Workers, FetchSession(w)
  PROVE  IInv'
<1>1. /\ job' \in [Workers -> JobRecord] /\ \A v \in Workers \ {w} : job'[v] = job[v]
      /\ job'[w].checkout = job[w].checkout /\ job'[w].kind = job[w].kind
      /\ job'[w].pc = IF session[job[w].checkout] = "complete" THEN "lock" ELSE "mark"
  BY JobMoves DEF IInv, TypeOK, FetchSession, JobPcs
<1>2. TypeOK'
  BY <1>1 DEF IInv, FetchSession, TypeOK
<1>3. /\ MoneyAccounted' /\ BooksTrue' /\ WithinCharge' /\ PaidSlotKept' /\ RowsKnown'
      /\ PagesStored' /\ TabsKnown' /\ OneCreator' /\ NewsTrue' /\ HoldsKnown' /\ GoneVoid'
  BY DEF IInv, FetchSession, MoneyAccounted, BooksTrue, WithinCharge, PaidSlotKept,
       RowsKnown, PagesStored, TabsKnown, TabKnown, OneCreator, NewsTrue, HoldsKnown,
       GoneVoid
<1>4. JobsKnown'
  <2> SUFFICES ASSUME NEW v \in Workers PROVE JobKnown(v)'
    BY DEF JobsKnown
  <2>1. JobKnown(v) /\ job[v] \in JobRecord
    BY DEF IInv, JobsKnown, TypeOK
  <2> QED BY <2>1, <1>1 DEF IInv, FetchSession, TypeOK, JobRecord, JobKnown
<1>5. LocksHold'
  BY <1>1 DEF IInv, FetchSession, TypeOK, LocksHold
<1>6. OneSettler'
  BY <1>1 DEF IInv, FetchSession, TypeOK, OneSettler
<1>7. MarksJust'
  BY <1>1 DEF IInv, FetchSession, TypeOK, MarksJust, MarkJust, Settled, PaidKinds,
       JobsKnown, JobKnown, NewsTrue
<1>8. QED
  BY <1>2, <1>3, <1>4, <1>5, <1>6, <1>7 DEF IInv

\* The handler fails.
LEMMA FailJobKeeps ==
  ASSUME IInv, NEW w \in Workers, FailJob(w)
  PROVE  IInv'
<1>1. /\ job' \in [Workers -> JobRecord] /\ job'[w].pc = "idle"
      /\ \A v \in Workers \ {w} : job'[v] = job[v]
  BY JobEnds DEF IInv, TypeOK, FailJob
<1>2. TypeOK'
  BY <1>1 DEF IInv, FailJob, TypeOK
<1>3. /\ MoneyAccounted' /\ BooksTrue' /\ WithinCharge' /\ PaidSlotKept' /\ RowsKnown'
      /\ PagesStored' /\ TabsKnown' /\ OneCreator' /\ NewsTrue' /\ HoldsKnown' /\ GoneVoid'
  BY DEF IInv, FailJob, MoneyAccounted, BooksTrue, WithinCharge, PaidSlotKept,
       RowsKnown, PagesStored, TabsKnown, TabKnown, OneCreator, NewsTrue, HoldsKnown,
       GoneVoid
<1>4. JobsKnown'
  <2> SUFFICES ASSUME NEW v \in Workers PROVE JobKnown(v)'
    BY DEF JobsKnown
  <2>1. JobKnown(v) /\ job[v] \in JobRecord
    BY DEF IInv, JobsKnown, TypeOK
  <2> QED BY <2>1, <1>1 DEF IInv, FailJob, TypeOK, JobRecord, JobKnown
<1>5. LocksHold'
  BY <1>1 DEF IInv, FailJob, TypeOK, LocksHold
<1>6. OneSettler'
  BY <1>1 DEF IInv, FailJob, TypeOK, OneSettler
<1>7. MarksJust'
  BY <1>1 DEF IInv, FailJob, TypeOK, MarksJust, MarkJust, Settled, PaidKinds
<1>8. QED
  BY <1>2, <1>3, <1>4, <1>5, <1>6, <1>7 DEF IInv

\* expireCheckout.
LEMMA ExpireCheckoutKeeps ==
  ASSUME IInv, NEW w \in Workers, ExpireCheckout(w)
  PROVE  IInv'
<1>1. /\ job' \in [Workers -> JobRecord] /\ \A v \in Workers \ {w} : job'[v] = job[v]
      /\ job'[w].checkout = job[w].checkout /\ job'[w].kind = job[w].kind
      /\ job[w].pc = "expire" /\ job'[w].pc = "mark"
  BY JobMoves DEF IInv, TypeOK, ExpireCheckout, JobPcs
<1>2. job[w].checkout \in Checkouts /\ job[w].kind \in DeadKinds
  BY DEF IInv, ExpireCheckout, JobsKnown, JobKnown
<1>3. TypeOK'
  BY <1>1, <1>2 DEF IInv, ExpireCheckout, TypeOK, Statuses
<1>4. /\ WithinCharge' /\ PaidSlotKept' /\ PagesStored' /\ OneCreator' /\ NewsTrue'
      /\ HoldsKnown' /\ GoneVoid'
  BY DEF IInv, ExpireCheckout, WithinCharge, PaidSlotKept, PagesStored, OneCreator,
       NewsTrue, HoldsKnown, GoneVoid
<1>5. MoneyAccounted'
  BY <1>1, <1>2 DEF IInv, ExpireCheckout, TypeOK, MoneyAccounted, Settled, PaidKinds
<1>6. BooksTrue'
  BY <1>1, <1>2 DEF IInv, ExpireCheckout, TypeOK, BooksTrue, Settled
<1>7. RowsKnown'
  BY <1>1, <1>2 DEF IInv, ExpireCheckout, TypeOK, RowsKnown
<1>8. TabsKnown'
  <2> SUFFICES ASSUME NEW u \in Tabs PROVE TabKnown(u)'
    BY DEF TabsKnown
  <2>1. TabKnown(u)
    BY DEF IInv, TabsKnown
  <2> QED BY <2>1, <1>2 DEF IInv, ExpireCheckout, TypeOK, TabKnown
<1>9. JobsKnown'
  <2> SUFFICES ASSUME NEW v \in Workers PROVE JobKnown(v)'
    BY DEF JobsKnown
  <2>1. JobKnown(v) /\ job[v] \in JobRecord
    BY DEF IInv, JobsKnown, TypeOK
  <2> QED BY <2>1, <1>1, <1>2 DEF IInv, ExpireCheckout, TypeOK, JobRecord, JobKnown
<1>10. LocksHold'
  BY <1>1, <1>2 DEF IInv, ExpireCheckout, TypeOK, LocksHold, Locked, JobsKnown, JobKnown
<1>11. OneSettler'
  BY <1>1, <1>2 DEF IInv, ExpireCheckout, TypeOK, OneSettler
<1>12. MarksJust'
  BY <1>1, <1>2 DEF IInv, ExpireCheckout, TypeOK, MarksJust, MarkJust, Settled,
       PaidKinds, DeadKinds, JobsKnown, JobKnown
<1>13. QED
  BY <1>3, <1>4, <1>5, <1>6, <1>7, <1>8, <1>9, <1>10, <1>11, <1>12 DEF IInv

\* The event is processed.
LEMMA MarkEventKeeps ==
  ASSUME IInv, NEW w \in Workers, MarkEvent(w)
  PROVE  IInv'
<1>1. /\ job' \in [Workers -> JobRecord] /\ job'[w].pc = "idle"
      /\ \A v \in Workers \ {w} : job'[v] = job[v]
  BY JobEnds DEF IInv, TypeOK, MarkEvent
<1>2. job[w].checkout \in Checkouts /\ job[w].kind \in Kinds /\ MarkJust(w)
      /\ event[job[w].checkout][job[w].kind] # "none"
  BY DEF IInv, MarkEvent, JobsKnown, JobKnown, TypeOK, JobRecord, MarksJust
<1>3. /\ event' \in [Checkouts -> [Kinds -> Deliveries]]
      /\ event'[job[w].checkout][job[w].kind] = "done"
      /\ \A j \in Checkouts, f \in Kinds : j # job[w].checkout \/ f # job[w].kind
                                         => event'[j][f] = event[j][f]
  BY <1>2, EventMoves DEF IInv, TypeOK, MarkEvent, Deliveries
<1>4. TypeOK'
  BY <1>1, <1>2, <1>3 DEF IInv, MarkEvent, TypeOK
<1>5. /\ BooksTrue' /\ WithinCharge' /\ PaidSlotKept' /\ RowsKnown' /\ PagesStored'
      /\ TabsKnown' /\ OneCreator' /\ HoldsKnown' /\ GoneVoid'
  BY DEF IInv, MarkEvent, BooksTrue, WithinCharge, PaidSlotKept, RowsKnown, PagesStored,
       TabsKnown, TabKnown, OneCreator, HoldsKnown, GoneVoid
<1>6. MoneyAccounted'
  BY <1>1, <1>2, <1>3, KindsAre DEF IInv, MarkEvent, TypeOK, MoneyAccounted, Settled,
       PaidKinds, MarkJust
<1>7. NewsTrue'
  BY <1>1, <1>2, <1>3, KindsAre DEF IInv, MarkEvent, TypeOK, NewsTrue
<1>8. JobsKnown'
  <2> SUFFICES ASSUME NEW v \in Workers PROVE JobKnown(v)'
    BY DEF JobsKnown
  <2>1. JobKnown(v) /\ job[v] \in JobRecord
    BY DEF IInv, JobsKnown, TypeOK
  <2> QED BY <2>1, <1>1, <1>2, <1>3 DEF IInv, MarkEvent, TypeOK, JobRecord, JobKnown
<1>9. LocksHold'
  BY <1>1 DEF IInv, MarkEvent, LocksHold
<1>10. OneSettler'
  BY <1>1, <1>2, <1>3 DEF IInv, MarkEvent, TypeOK, OneSettler
<1>11. MarksJust'
  BY <1>1, <1>2, <1>3, KindsAre DEF IInv, MarkEvent, TypeOK, MarksJust, MarkJust,
       Settled, PaidKinds, JobsKnown, JobKnown
<1>12. QED
  BY <1>4, <1>5, <1>6, <1>7, <1>8, <1>9, <1>10, <1>11 DEF IInv

\* applyCheckoutPaid up to its wait for the charge.
LEMMA LockCheckoutKeeps ==
  ASSUME IInv, NEW w \in Workers, LockCheckout(w)
  PROVE  IInv'
<1>1. /\ job[w].pc = "lock" /\ job[w].checkout \in Checkouts /\ job[w].kind \in PaidKinds
      /\ session[job[w].checkout] = "complete" /\ sessionRef[job[w].checkout]
      /\ status[job[w].checkout] # "none" /\ chargeOf[job[w].checkout] \in Charges
      /\ ~Locked(job[w].checkout)
  BY DEF IInv, LockCheckout, JobsKnown, JobKnown, PagesStored, RowsKnown
<1>2. Due(chargeOf[job[w].checkout]) \in Int
  BY <1>1, PriceAssumption DEF IInv, TypeOK, Due
<1>3. /\ job' \in [Workers -> JobRecord] /\ \A v \in Workers \ {w} : job'[v] = job[v]
      /\ job'[w].checkout = job[w].checkout /\ job'[w].kind = job[w].kind
      /\ \/ /\ status[job[w].checkout] = "open" /\ job'[w].pc = "settle" /\ status' = status
         \/ /\ status[job[w].checkout] = "expired" /\ job'[w].pc = "mark"
            /\ status' = [status EXCEPT ![job[w].checkout] = "unapplied"]
         \/ /\ status[job[w].checkout] \in Settled /\ job'[w].pc = "mark" /\ status' = status
  <2>1. CASE /\ status[job[w].checkout] = "open" /\ UNCHANGED status
             /\ job' = [job EXCEPT ![w].pc = "settle", ![w].due = Due(chargeOf[job[w].checkout]),
                                   ![w].slotGone = hold[chargeOf[job[w].checkout]] \in Gone]
    <3>1. CASE hold[chargeOf[job[w].checkout]] \in Gone
      <4>1. job' = [job EXCEPT ![w].pc = "settle", ![w].due = Due(chargeOf[job[w].checkout]),
                              ![w].slotGone = TRUE]
        BY <2>1, <3>1, Zenon
      <4> QED BY <1>2, <2>1, <4>1, JobLocks DEF IInv, TypeOK
    <3>2. CASE hold[chargeOf[job[w].checkout]] \notin Gone
      <4>1. job' = [job EXCEPT ![w].pc = "settle", ![w].due = Due(chargeOf[job[w].checkout]),
                              ![w].slotGone = FALSE]
        <5>1. (hold[chargeOf[job[w].checkout]] \in Gone) = FALSE
          BY <3>2, SMT
        <5> QED BY <2>1, <5>1, Zenon
      <4> QED BY <1>2, <2>1, <4>1, JobLocks DEF IInv, TypeOK
    <3> QED BY <3>1, <3>2
  <2>2. CASE status[job[w].checkout] = "expired" /\ JobTo(w, "mark")
             /\ status' = [status EXCEPT ![job[w].checkout] = "unapplied"]
    BY <2>2, JobMoves DEF IInv, TypeOK, JobPcs
  <2>3. CASE status[job[w].checkout] \in Settled /\ JobTo(w, "mark") /\ UNCHANGED status
    BY <2>3, JobMoves DEF IInv, TypeOK, JobPcs
  <2> QED BY <1>1, <2>1, <2>2, <2>3 DEF IInv, TypeOK, LockCheckout, Statuses, Settled
<1>4. TypeOK'
  BY <1>1, <1>2, <1>3 DEF IInv, LockCheckout, TypeOK, Statuses
<1>5. /\ WithinCharge' /\ PaidSlotKept' /\ PagesStored' /\ OneCreator' /\ NewsTrue'
      /\ HoldsKnown' /\ GoneVoid'
  BY DEF IInv, LockCheckout, WithinCharge, PaidSlotKept, PagesStored, OneCreator,
       NewsTrue, HoldsKnown, GoneVoid
<1>6. MoneyAccounted'
  BY <1>1, <1>2, <1>3 DEF IInv, LockCheckout, TypeOK, MoneyAccounted, Settled, PaidKinds
<1>7. BooksTrue'
  BY <1>1, <1>2, <1>3 DEF IInv, LockCheckout, TypeOK, BooksTrue, Settled
<1>8. RowsKnown'
  BY <1>1, <1>2, <1>3 DEF IInv, LockCheckout, TypeOK, RowsKnown
<1>9. TabsKnown'
  <2> SUFFICES ASSUME NEW u \in Tabs PROVE TabKnown(u)'
    BY DEF TabsKnown
  <2>1. TabKnown(u)
    BY DEF IInv, TabsKnown
  <2> QED BY <2>1, <1>1, <1>3 DEF IInv, LockCheckout, TypeOK, TabKnown
<1>10. JobsKnown'
  <2> SUFFICES ASSUME NEW v \in Workers PROVE JobKnown(v)'
    BY DEF JobsKnown
  <2>1. JobKnown(v) /\ job[v] \in JobRecord
    BY DEF IInv, JobsKnown, TypeOK
  <2> QED BY <2>1, <1>1, <1>3 DEF IInv, LockCheckout, TypeOK, JobRecord, JobKnown
<1>11. LocksHold'
  BY <1>1, <1>2, <1>3 DEF IInv, LockCheckout, TypeOK, LocksHold, Locked, JobsKnown, JobKnown
<1>12. OneSettler'
  BY <1>1, <1>3 DEF IInv, OneSettler, Locked
<1>13. MarksJust'
  BY <1>1, <1>2, <1>3 DEF IInv, LockCheckout, TypeOK, MarksJust, MarkJust, Settled,
       PaidKinds, JobsKnown, JobKnown
<1>14. QED
  BY <1>4, <1>5, <1>6, <1>7, <1>8, <1>9, <1>10, <1>11, <1>12, <1>13 DEF IInv

\* applyCheckoutPaid from the charge to its commit.
LEMMA SettleKeeps ==
  ASSUME IInv, NEW w \in Workers, Settle(w)
  PROVE  IInv'
<1>1. /\ job[w].pc = "settle" /\ job[w].checkout \in Checkouts /\ job[w].kind \in PaidKinds
      /\ session[job[w].checkout] = "complete" /\ status[job[w].checkout] = "open"
      /\ chargeOf[job[w].checkout] \in Charges /\ amount[job[w].checkout] \in 1..Price
  BY DEF IInv, Settle, JobsKnown, JobKnown, LocksHold, RowsKnown
<1>2. Price \in Nat
  BY PriceAssumption
<1>3. /\ job' \in [Workers -> JobRecord] /\ \A v \in Workers \ {w} : job'[v] = job[v]
      /\ \/ /\ job'[w].pc = "mark" /\ job'[w].checkout = job[w].checkout /\ job'[w].kind = job[w].kind
            /\ status'[job[w].checkout] \in Settled
         \/ job'[w].pc = "idle" /\ status' = status
  BY <1>1, JobMoves, JobEnds DEF IInv, TypeOK, Settle, JobPcs, Settled
<1>4. TypeOK'
  <2>1. paid' \in [Charges -> Nat] /\ hold' \in [Charges -> Holds]
    <3>1. \/ UNCHANGED <<paid, hold>>
          \/ BookPayment(chargeOf[job[w].checkout], amount[job[w].checkout])
      BY DEF Settle
    <3> QED BY <1>1, <1>2, <3>1, Books DEF IInv, TypeOK
  <2>2. status' \in [Checkouts -> Statuses] /\ ledger' \subseteq Checkouts
    BY <1>1 DEF IInv, TypeOK, Settle, Statuses
  <2> QED BY <1>3, <2>1, <2>2 DEF IInv, TypeOK, Settle
<1>5. PagesStored' /\ OneCreator' /\ NewsTrue'
  BY DEF IInv, Settle, PagesStored, OneCreator, NewsTrue
<1>6. MoneyAccounted'
  BY <1>1, <1>2, <1>3 DEF IInv, Settle, FitsCharge, BookPayment, TypeOK, MoneyAccounted,
       Settled, PaidKinds
<1>7. BooksTrue'
  BY <1>1, <1>2, <1>3 DEF IInv, Settle, FitsCharge, BookPayment, TypeOK, BooksTrue, Settled
<1>8. WithinCharge'
  BY <1>1, <1>2, <1>3 DEF IInv, Settle, FitsCharge, BookPayment, TypeOK, WithinCharge
<1>9. PaidSlotKept'
  BY <1>1, <1>2, <1>3 DEF IInv, Settle, FitsCharge, BookPayment, TypeOK, PaidSlotKept,
       HoldsKnown
<1>10. RowsKnown'
  BY <1>1, <1>2, <1>3 DEF IInv, Settle, FitsCharge, BookPayment, TypeOK, RowsKnown
<1>11. TabsKnown'
  <2> SUFFICES ASSUME NEW u \in Tabs PROVE TabKnown(u)'
    BY DEF TabsKnown
  <2>1. TabKnown(u)
    BY DEF IInv, TabsKnown
  <2> QED BY <2>1, <1>1 DEF IInv, Settle, FitsCharge, BookPayment, TypeOK, TabKnown
<1>12. JobsKnown'
  <2> SUFFICES ASSUME NEW v \in Workers PROVE JobKnown(v)'
    BY DEF JobsKnown
  <2>1. JobKnown(v) /\ job[v] \in JobRecord
    BY DEF IInv, JobsKnown, TypeOK
  <2> QED BY <2>1, <1>1, <1>3 DEF IInv, Settle, FitsCharge, BookPayment, TypeOK, JobRecord, JobKnown
<1>13. LocksHold'
  BY <1>1, <1>2, <1>3 DEF IInv, Settle, FitsCharge, BookPayment, TypeOK, LocksHold,
       OneSettler, JobsKnown, JobKnown
<1>14. OneSettler'
  BY <1>1, <1>2, <1>3 DEF IInv, Settle, FitsCharge, BookPayment, TypeOK, OneSettler
<1>15. MarksJust'
  BY <1>1, <1>2, <1>3 DEF IInv, Settle, FitsCharge, BookPayment, TypeOK, MarksJust,
       MarkJust, Settled, PaidKinds, JobsKnown, JobKnown
<1>16. HoldsKnown'
  BY <1>1, <1>2, <1>3 DEF IInv, Settle, FitsCharge, BookPayment, TypeOK, HoldsKnown
<1>17. GoneVoid'
  BY <1>1, <1>2, <1>3 DEF IInv, Settle, FitsCharge, BookPayment, TypeOK, GoneVoid, Gone
<1>18. QED
  BY <1>4, <1>5, <1>6, <1>7, <1>8, <1>9, <1>10, <1>11, <1>12, <1>13, <1>14, <1>15,
       <1>16, <1>17 DEF IInv
-----------------------------------------------------------------------------
(* The invariant.                                                          *)

LEMMA InitEstablishes == Init => IInv
<1> SUFFICES ASSUME Init PROVE IInv
  OBVIOUS
<1> USE DEF Init
<1>1. TypeOK
  BY DEF TypeOK, Statuses, Holds, Clocks, Sessions, Kinds, PaidKinds, DeadKinds, Deliveries,
         IdleTab, IdleJob, TabRecord, JobRecord, TabPcs, JobPcs
<1>2. MoneyAccounted /\ BooksTrue /\ WithinCharge /\ PaidSlotKept
  BY PriceAssumption DEF MoneyAccounted, BooksTrue, WithinCharge, PaidSlotKept, Settled
<1>3. RowsKnown /\ PagesStored /\ NewsTrue
  BY KindsAre DEF RowsKnown, PagesStored, NewsTrue
<1>4. TabsKnown /\ OneCreator
  BY DEF TabsKnown, TabKnown, OneCreator, IdleTab
<1>5. JobsKnown /\ LocksHold /\ OneSettler /\ MarksJust
  BY DEF JobsKnown, JobKnown, LocksHold, OneSettler, MarksJust, MarkJust, IdleJob
<1>6. HoldsKnown /\ GoneVoid
  BY NoneAssumption DEF HoldsKnown, GoneVoid, Gone
<1>7. QED
  BY <1>1, <1>2, <1>3, <1>4, <1>5, <1>6 DEF IInv

LEMMA StutterKeeps == ASSUME IInv, UNCHANGED vars PROVE IInv'
BY DEF IInv, vars, TypeOK, MoneyAccounted, BooksTrue, WithinCharge, PaidSlotKept, RowsKnown,
       PagesStored, TabsKnown, TabKnown, OneCreator, NewsTrue, JobsKnown, JobKnown,
       LocksHold, OneSettler, MarksJust, MarkJust, HoldsKnown, GoneVoid

LEMMA NextKeeps == ASSUME IInv, [Next]_vars PROVE IInv'
<1>1. CASE \E t \in Tabs : TabStep(t)
  BY <1>1, StartChargeCheckoutKeeps, CancelReservationKeeps, ResumePreviousKeeps,
     AskProviderKeeps, ClosePreviousKeeps, InsertCheckoutKeeps, CreateSessionKeeps,
     StoreSessionKeeps, CloseChargeCheckoutKeeps, AbandonTabKeeps DEF TabStep
<1>2. CASE ClubStep
  BY <1>2, RecordPaymentKeeps, VoidChargeKeeps, HoldClockKeeps, ReadLapsedKeeps,
     ReleaseLapsedKeeps DEF ClubStep
<1>3. CASE \E k \in Checkouts : StripeStep(k)
  BY <1>3, PayByCardKeeps, PayDelayedKeeps, SettleDelayedKeeps, SessionExpiresKeeps,
     RecordEventKeeps DEF StripeStep
<1>4. CASE \E w \in Workers : WorkerStep(w)
  BY <1>4, TakeEventKeeps, FetchSessionKeeps, LockCheckoutKeeps, SettleKeeps,
     ExpireCheckoutKeeps, MarkEventKeeps, FailJobKeeps DEF WorkerStep
<1>5. CASE UNCHANGED vars
  BY <1>5, StutterKeeps
<1>6. QED
  BY <1>1, <1>2, <1>3, <1>4, <1>5 DEF Next

\* The rows, pages, locks, handlers and holds stay as IInv says, whatever the
\* members, the tabs, Stripe's deliveries, the desk and the workers do.
THEOREM Invariant == Spec => []IInv
<1>1. Init => IInv
  BY InitEstablishes
<1>2. IInv /\ [Next]_vars => IInv'
  BY NextKeeps
<1>3. QED
  BY <1>1, <1>2, PTL DEF Spec

\* Every variable keeps its type.
THEOREM TypeCorrect == Spec => []TypeOK
<1>1. IInv => TypeOK
  BY DEF IInv
<1>2. QED
  BY <1>1, Invariant, PTL

\* Money Stripe took is booked or owed once the events that report it are
\* processed: no crash, retry, reordering or second handler loses it.
THEOREM MoneyIsAccounted == Spec => []MoneyAccounted
<1>1. IInv => MoneyAccounted
  BY DEF IInv
<1>2. QED
  BY <1>1, Invariant, PTL

\* A settled checkout's session was paid, and exactly the paid ones have a
\* payment on their charge.
THEOREM BooksAreTrue == Spec => []BooksTrue
<1>1. IInv => BooksTrue
  BY DEF IInv
<1>2. QED
  BY <1>1, Invariant, PTL

\* No charge is paid past its amount, online and at the desk together.
THEOREM ChargeNotOverpaid == Spec => []WithinCharge
<1>1. IInv => WithinCharge
  BY DEF IInv
<1>2. QED
  BY <1>1, Invariant, PTL

\* A hold with money on its charge is never released.
THEOREM PaidSlotIsKept == Spec => []PaidSlotKept
<1>1. IInv => PaidSlotKept
  BY DEF IInv
<1>2. QED
  BY <1>1, Invariant, PTL

\* No page takes money for a slot whose hold was released.
THEOREM ReleasedSlotTakesNoMoney == Spec => []ReleasedTakesNoMoney
<1>1. IInv => ReleasedTakesNoMoney
  <2> SUFFICES ASSUME IInv, NEW k \in page, session[k] = "open", hold[chargeOf[k]] = "expired"
               PROVE  FALSE
    BY DEF ReleasedTakesNoMoney
  <2>1. k \in Checkouts /\ chargeOf[k] \in Charges
    BY DEF IInv, TypeOK, PagesStored, RowsKnown
  <2>2. QED
    BY <2>1 DEF IInv, HoldsKnown
<1>2. QED
  BY <1>1, Invariant, PTL

-----------------------------------------------------------------------------
(* What a step never does.                                                 *)

\* The only ways a checkout's status changes.
LEMMA StatusMoves ==
  ASSUME IInv, [Next]_vars, NEW k \in Checkouts
  PROVE  \/ status'[k] = status[k]
         \/ status[k] = "none" /\ status'[k] = "open"
         \/ status[k] = "open" /\ status'[k] \in {"paid", "expired", "unapplied"}
         \/ status[k] = "expired" /\ status'[k] = "unapplied"
<1> DEFINE Moves == \/ status'[k] = status[k]
                    \/ status[k] = "none" /\ status'[k] = "open"
                    \/ status[k] = "open" /\ status'[k] \in {"paid", "expired", "unapplied"}
                    \/ status[k] = "expired" /\ status'[k] = "unapplied"
<1>1. CASE UNCHANGED status
  BY <1>1
<1>2. ASSUME NEW t \in Tabs, ClosePrevious(t) \/ InsertCheckout(t) PROVE Moves
  BY <1>2 DEF IInv, TypeOK, ClosePrevious, InsertCheckout
<1>3. CASE ReleaseLapsed
  BY <1>3 DEF IInv, TypeOK, ReleaseLapsed
<1>4. ASSUME NEW w \in Workers, LockCheckout(w) \/ ExpireCheckout(w) PROVE Moves
  BY <1>4 DEF IInv, TypeOK, LockCheckout, ExpireCheckout
<1>5. ASSUME NEW w \in Workers, Settle(w) PROVE Moves
  <2>1. status[job[w].checkout] = "open"
    BY <1>5 DEF IInv, LocksHold, Settle
  <2>2. QED
    BY <1>5, <2>1 DEF IInv, TypeOK, Settle
<1>6. QED
  BY <1>1, <1>2, <1>3, <1>4, <1>5
     DEF Next, vars, TabStep, ClubStep, StripeStep, WorkerStep, StartChargeCheckout,
         CancelReservation, ResumePrevious, AskProvider, CreateSession, StoreSession,
         CloseChargeCheckout, AbandonTab, RecordPayment, VoidCharge, HoldClock, ReadLapsed,
         PayByCard, PayDelayed, SettleDelayed, SessionExpires, RecordEvent, TakeEvent,
         FetchSession, MarkEvent, FailJob

\* A settled checkout is final, and a closed one changes only to record money
\* that came late.
THEOREM SettledIsFinal == Spec => FinalStays
<1>1. IInv /\ [Next]_vars
        => [\A k \in Checkouts :
              /\ status[k] \in Settled => status'[k] = status[k]
              /\ status[k] = "expired" => status'[k] \in {"expired", "unapplied"}]_vars
  BY StatusMoves DEF Settled
<1>2. QED
  BY <1>1, Invariant, PTL DEF Spec, FinalStays

\* Money is booked only while the booking it pays for stands, when no charge
\* was invoiced first: a booking that goes voids its charge with it.
THEOREM GoneSlotIsNotBooked ==
  ASSUME Invoiced = {}
  PROVE  Spec => GoneSlotNotBooked
<1>1. IInv /\ [Next]_vars
        => [\A k \in Checkouts : k \in ledger' \ ledger => hold[chargeOf[k]] \notin Gone]_vars
  <2> SUFFICES ASSUME IInv, [Next]_vars, NEW k \in Checkouts, k \in ledger', k \notin ledger
               PROVE  hold[chargeOf[k]] \notin Gone
    OBVIOUS
  <2>1. CASE UNCHANGED ledger
    BY <2>1
  <2>2. ASSUME NEW w \in Workers, Settle(w) PROVE hold[chargeOf[k]] \notin Gone
    <3>1. k = job[w].checkout /\ ~voided[chargeOf[k]]
      BY <2>2 DEF Settle, FitsCharge
    <3>2. chargeOf[k] \in Charges
      BY <2>2, <3>1 DEF IInv, Settle, LocksHold, RowsKnown
    <3>3. QED
      BY <3>1, <3>2 DEF IInv, GoneVoid
  <2>3. QED
    BY <2>1, <2>2
       DEF Next, vars, TabStep, ClubStep, StripeStep, WorkerStep, StartChargeCheckout,
           CancelReservation, ResumePrevious, AskProvider, ClosePrevious, InsertCheckout,
           CreateSession, StoreSession, CloseChargeCheckout, AbandonTab, RecordPayment,
           VoidCharge, HoldClock, ReadLapsed, ReleaseLapsed, PayByCard, PayDelayed,
           SettleDelayed, SessionExpires, RecordEvent, TakeEvent, FetchSession, LockCheckout,
           ExpireCheckout, MarkEvent, FailJob
<1>2. QED
  BY <1>1, Invariant, PTL DEF Spec, GoneSlotNotBooked

-----------------------------------------------------------------------------
(* The abstract specification.                                             *)

\* A step that settles no row and completes no session is none of the intake's.
LEMMA MoneyStays ==
  ASSUME \A k \in Checkouts : /\ session'[k] = "complete" <=> session[k] = "complete"
                              /\ \/ status'[k] = status[k]
                                 \/ status[k] \notin Settled /\ status'[k] \notin Settled
  PROVE  Money' = Money
<1>1. \A k \in Checkouts : MoneyOf(k)' = MoneyOf(k)
  BY DEF MoneyOf, Settled
<1>2. QED
  BY <1>1 DEF Money

\* A step that settles or completes one checkout changes its money alone.
LEMMA MoneyMoves ==
  ASSUME NEW k \in Checkouts, NEW m, MoneyOf(k)' = m,
         \A j \in Checkouts \ {k} : session'[j] = session[j] /\ status'[j] = status[j]
  PROVE  Money' = [Money EXCEPT ![k] = m]
<1>1. \A j \in Checkouts \ {k} : MoneyOf(j)' = MoneyOf(j)
  BY DEF MoneyOf, Settled
<1>2. QED
  BY <1>1 DEF Money

\* Stripe's part: only a payment completes a session.
LEMMA StripeTakes ==
  ASSUME IInv, NEW k \in Checkouts, StripeStep(k)
  PROVE  Intake!Take(k) \/ UNCHANGED <<Money, paid>>
<1>1. CASE session'[k] = "complete" /\ session[k] # "complete"
  <2>1. /\ MoneyOf(k) = "none" /\ MoneyOf(k)' = "taken" /\ paid' = paid
        /\ \A j \in Checkouts \ {k} : session'[j] = session[j] /\ status'[j] = status[j]
    <3>1. status[k] \notin Settled
      BY <1>1 DEF IInv, BooksTrue
    <3>2. /\ status' = status /\ paid' = paid
          /\ \A j \in Checkouts \ {k} : session'[j] = session[j]
      BY DEF IInv, TypeOK, StripeStep, PayByCard, PayDelayed, SettleDelayed, SessionExpires,
             RecordEvent
    <3>3. QED
      BY <1>1, <3>1, <3>2 DEF MoneyOf, Settled
  <2>2. Money' = [Money EXCEPT ![k] = "taken"]
    BY <2>1, MoneyMoves
  <2>3. QED
    BY <2>1, <2>2 DEF Intake!Take, Money
<1>2. CASE ~(session'[k] = "complete" /\ session[k] # "complete")
  <2>1. /\ status' = status /\ paid' = paid
        /\ \A j \in Checkouts : session'[j] = "complete" <=> session[j] = "complete"
    BY <1>2 DEF IInv, TypeOK, StripeStep, PayByCard, PayDelayed, SettleDelayed,
                SessionExpires, RecordEvent
  <2>2. QED
    BY <2>1, MoneyStays
<1>3. QED
  BY <1>1, <1>2

\* The worker's settlement books the money or owes it, or rolls back.
LEMMA SettleBooks ==
  ASSUME IInv, NEW w \in Workers, Settle(w)
  PROVE  [Intake!Next]_<<Money, paid>>
<1>1. PICK k \in Checkouts : k = job[w].checkout
  BY DEF IInv, Settle, JobsKnown, JobKnown
<1> DEFINE c == chargeOf[k]
<1>2. /\ status[k] = "open" /\ session[k] = "complete"
      /\ c \in Charges /\ amount[k] \in 1..Price
  BY <1>1 DEF IInv, Settle, JobsKnown, JobKnown, LocksHold, RowsKnown
<1>3. session' = session /\ \A j \in Checkouts \ {k} : status'[j] = status[j]
  BY <1>1 DEF IInv, TypeOK, Settle
<1>4. Money[k] = "taken"
  BY <1>1, <1>2 DEF Money, MoneyOf, Settled
<1>5. CASE status'[k] = "unapplied" /\ paid' = paid
  <2>1. Money' = [Money EXCEPT ![k] = "owed"]
    <3>1. MoneyOf(k)' = "owed"
      BY <1>5 DEF MoneyOf, Settled
    <3>2. QED
      BY <1>1, <1>2, <1>3, <3>1, MoneyMoves
  <2>2. Intake!Owe(k)
    BY <1>4, <1>5, <2>1 DEF Intake!Owe
  <2>3. QED
    BY <1>1, <1>2, <2>2 DEF Intake!Next
<1>6. CASE status'[k] = "paid" /\ FitsCharge(c, amount[k]) /\ BookPayment(c, amount[k])
  <2>1. Money' = [Money EXCEPT ![k] = "booked"]
    <3>1. MoneyOf(k)' = "booked"
      BY <1>6 DEF MoneyOf, Settled
    <3>2. QED
      BY <1>1, <1>2, <1>3, <3>1, MoneyMoves
  <2>2. Intake!Book(k)
    BY <1>1, <1>2, <1>4, <1>6, <2>1 DEF Intake!Book, FitsCharge, BookPayment
  <2>3. QED
    BY <1>1, <1>2, <2>2 DEF Intake!Next
<1>7. CASE status' = status /\ paid' = paid
  <2>1. Money' = Money
    BY <1>3, <1>7, MoneyStays
  <2>2. QED
    BY <1>7, <2>1
<1>8. QED
  BY <1>1, <1>2, <1>5, <1>6, <1>7 DEF IInv, TypeOK, Settle

\* Money that finds its checkout closed is owed.
LEMMA LockOwes ==
  ASSUME IInv, NEW w \in Workers, LockCheckout(w)
  PROVE  [Intake!Next]_<<Money, paid>>
<1>1. PICK k \in Checkouts : k = job[w].checkout /\ session[k] = "complete"
  BY DEF IInv, LockCheckout, JobsKnown, JobKnown
<1>2. CASE status[k] = "expired" /\ status' = [status EXCEPT ![k] = "unapplied"]
  <2>1. /\ Money[k] = "taken" /\ MoneyOf(k)' = "owed"
        /\ \A j \in Checkouts \ {k} : session'[j] = session[j] /\ status'[j] = status[j]
    BY <1>1, <1>2 DEF IInv, TypeOK, LockCheckout, Money, MoneyOf, Settled
  <2>2. Money' = [Money EXCEPT ![k] = "owed"]
    BY <1>1, <2>1, MoneyMoves
  <2>3. Intake!Owe(k)
    BY <2>1, <2>2 DEF Intake!Owe, LockCheckout
  <2>4. QED
    BY <1>1, <2>3 DEF Intake!Next
<1>3. CASE status' = status
  <2>1. Money' = Money /\ paid' = paid
    BY <1>3, MoneyStays DEF LockCheckout
  <2>2. QED
    BY <2>1
<1>4. QED
  BY <1>1, <1>2, <1>3 DEF LockCheckout

\* The desk takes money within the charge.
LEMMA DeskTakes ==
  ASSUME IInv, NEW c \in Charges, RecordPayment(c)
  PROVE  Intake!Desk(c)
<1>1. Money' = Money
  BY MoneyStays DEF RecordPayment
<1>2. QED
  BY <1>1 DEF RecordPayment, FitsCharge, BookPayment, Intake!Desk

\* Every step is one of the intake's, or changes none of its state.
LEMMA StepImplements ==
  ASSUME IInv, [Next]_vars
  PROVE  [Intake!Next]_<<Money, paid>>
<1>1. ASSUME NEW k \in Checkouts, StripeStep(k) PROVE [Intake!Next]_<<Money, paid>>
  BY <1>1, StripeTakes DEF Intake!Next
<1>2. ASSUME NEW w \in Workers, Settle(w) \/ LockCheckout(w)
      PROVE  [Intake!Next]_<<Money, paid>>
  BY <1>2, SettleBooks, LockOwes
<1>3. ASSUME NEW c \in Charges, RecordPayment(c) PROVE [Intake!Next]_<<Money, paid>>
  BY <1>3, DeskTakes DEF Intake!Next
<1>4. ASSUME paid' = paid,
             \A k \in Checkouts : /\ session'[k] = "complete" <=> session[k] = "complete"
                                  /\ \/ status'[k] = status[k]
                                     \/ status[k] \notin Settled /\ status'[k] \notin Settled
      PROVE  [Intake!Next]_<<Money, paid>>
  BY <1>4, MoneyStays
<1>5. ASSUME NEW t \in Tabs, TabStep(t) PROVE [Intake!Next]_<<Money, paid>>
  <2>1. ASSUME NEW c \in Charges, StartChargeCheckout(t, c) \/ CancelReservation(t, c)
        PROVE  UNCHANGED <<session, status, paid>>
    BY <2>1 DEF StartChargeCheckout, CancelReservation
  <2>2. CASE ResumePrevious(t) \/ StoreSession(t) \/ CloseChargeCheckout(t) \/ AbandonTab(t)
    <3>1. UNCHANGED <<session, status, paid>>
      BY <2>2 DEF ResumePrevious, StoreSession, CloseChargeCheckout, AbandonTab
    <3>2. QED
      BY <1>4, <3>1
  <2>3. CASE AskProvider(t) \/ CreateSession(t)
    <3>1. /\ status' = status /\ paid' = paid
          /\ \A k \in Checkouts : session'[k] = "complete" <=> session[k] = "complete"
      BY <2>3 DEF IInv, TypeOK, TabsKnown, TabKnown, AskProvider, CreateSession
    <3>2. QED
      BY <1>4, <3>1
  <2>4. CASE ClosePrevious(t) \/ InsertCheckout(t)
    <3>1. session' = session /\ paid' = paid
      BY <2>4 DEF ClosePrevious, InsertCheckout
    <3>2. ASSUME NEW k \in Checkouts
          PROVE \/ status'[k] = status[k]
                \/ status[k] \notin Settled /\ status'[k] \notin Settled
      BY <2>4 DEF IInv, TypeOK, ClosePrevious, InsertCheckout, Settled
    <3>3. QED
      BY <1>4, <3>1, <3>2
  <2>5. QED
    BY <1>4, <1>5, <2>1, <2>2, <2>3, <2>4 DEF TabStep
<1>6. ASSUME NEW c \in Charges, VoidCharge(c) \/ HoldClock(c)
      PROVE  UNCHANGED <<session, status, paid>>
  BY <1>6 DEF VoidCharge, HoldClock
<1>7. CASE ReadLapsed \/ ReleaseLapsed
  <2>1. /\ session' = session /\ paid' = paid
        /\ \A k \in Checkouts : \/ status'[k] = status[k]
                                \/ status[k] \notin Settled /\ status'[k] \notin Settled
    BY <1>7 DEF IInv, TypeOK, ReadLapsed, ReleaseLapsed, Settled
  <2>2. QED
    BY <1>4, <2>1
<1>8. ASSUME NEW w \in Workers, WorkerStep(w) PROVE [Intake!Next]_<<Money, paid>>
  <2>1. ASSUME NEW k \in Checkouts, NEW e \in Kinds, TakeEvent(w, k, e)
        PROVE  UNCHANGED <<session, status, paid>>
    BY <2>1 DEF TakeEvent
  <2>2. CASE FetchSession(w) \/ MarkEvent(w) \/ FailJob(w)
    <3>1. UNCHANGED <<session, status, paid>>
      BY <2>2 DEF FetchSession, MarkEvent, FailJob
    <3>2. QED
      BY <1>4, <3>1
  <2>3. CASE ExpireCheckout(w)
    <3>1. /\ session' = session /\ paid' = paid
          /\ \A k \in Checkouts : \/ status'[k] = status[k]
                                  \/ status[k] \notin Settled /\ status'[k] \notin Settled
      BY <2>3 DEF IInv, TypeOK, ExpireCheckout, Settled
    <3>2. QED
      BY <1>4, <3>1
  <2>4. QED
    BY <1>2, <1>4, <1>8, <2>1, <2>2, <2>3 DEF WorkerStep
<1>9. CASE UNCHANGED vars
  <2>1. UNCHANGED <<session, status, paid>>
    BY <1>9 DEF vars
  <2>2. QED
    BY <1>4, <2>1
<1>10. QED
  BY <1>1, <1>3, <1>4, <1>5, <1>6, <1>7, <1>8, <1>9 DEF Next, ClubStep

\* The payment path implements the intake: money taken is settled once, in one
\* step with the charge's total, and never past it.
THEOREM ImplementsIntake == Spec => KeepsIntake
<1>1. Init => Intake!Init
  BY DEF Init, Intake!Init, Money, MoneyOf, Settled
<1>2. IInv /\ [Next]_vars => [Intake!Next]_<<Money, paid>>
  BY StepImplements
<1>3. QED
  BY <1>1, <1>2, Invariant, PTL DEF Spec, KeepsIntake, Intake!Spec, Intake!vars
=============================================================================
