------------------------ MODULE OperatorQueueProofs -------------------------
(***************************************************************************)
(* Proofs about OperatorQueue, for any number of documents, workers,       *)
(* threads and deaths: types, whatever buttons are used; what "revalidar"  *)
(* and "desbloquear" leave intact of the promises of the queue, and under  *)
(* which conditions.                                                       *)
(***************************************************************************)
EXTENDS OperatorQueue, AgtQueueProofs

-----------------------------------------------------------------------------
(* Type correctness.                                                       *)

\* What the save of revalidate leaves in the row.
LEMMA RevalidatedFacts ==
  ASSUME NEW inv \in Invoice, NEW bad \in BOOLEAN
  PROVE  /\ Revalidated(inv, bad) \in Invoice
         /\ Revalidated(inv, bad).version = inv.version
         /\ Revalidated(inv, bad).attempts = inv.attempts
         /\ Revalidated(inv, bad).status \in InvoiceStatus
  BY DEF Revalidated, Invoice, InvoiceStatus

\* What unlocking leaves in the row.
LEMMA RequeuedFacts ==
  ASSUME NEW inv \in Invoice
  PROVE  /\ Requeued(inv) \in Invoice
         /\ Requeued(inv).status = "QUEUED"
         /\ Requeued(inv).version = inv.version
         /\ Requeued(inv).attempts = inv.attempts
         /\ Requeued(inv).invalid = inv.invalid
  BY DEF Requeued, Invoice, InvoiceStatus

\* The verdict on a content is one or the other.
LEMMA VerdictType ==
  ASSUME NEW v
  PROVE  Verdict(v) \subseteq BOOLEAN
  BY DEF Verdict

\* A worker and a thread keep their documents from step to step.
LEMMA PlacesInductive ==
  ASSUME OperatorTypeOK, PlacesInv, [OperatorNext]_opVars
  PROVE  PlacesInv'
<1> DEFINE InHands == {"claimed", "loaded", "answered"}
<1> USE DEF OperatorTypeOK, TypeOK
<1>1. ASSUME NEW w \in Workers, UNCHANGED request,
             \A u \in Workers : u # w => doc'[u] = doc[u] /\ pc'[u] = pc[u],
             doc'[w] \in Docs <=> pc'[w] \in InHands
      PROVE  PlacesInv'
  BY <1>1 DEF PlacesInv, request
<1>2. ASSUME NEW t \in Threads, UNCHANGED pass,
             \A u \in Threads : u # t => tpc'[u] = tpc[u] /\ tdoc'[u] = tdoc[u],
             tpc'[t] = "idle" \/ tdoc'[t] \in Docs
      PROVE  PlacesInv'
  BY <1>2 DEF PlacesInv, pass
<1>3. ASSUME UNCHANGED <<pass, request>>
      PROVE  PlacesInv'
  BY <1>3 DEF PlacesInv, pass, request
<1>4. ASSUME NEW w \in Workers, WorkerStep(w)
      PROVE  PlacesInv'
  <2>1. CASE StartPass(w) \/ (\E d \in Docs : SkipClaimed(w, d)) \/ EndPass(w)
             \/ Recover(w)
    BY <1>1, <2>1 DEF StartPass, SkipClaimed, EndPass, Recover, PlacesInv
  <2>2. ASSUME NEW d \in Docs, Claim(w, d)
        PROVE  PlacesInv'
    BY <1>1, <2>2 DEF Claim
  <2>3. CASE Load(w) \/ Send(w)
    BY <1>1, <2>3 DEF Load, Send, PlacesInv
  <2>4. CASE Save(w)
    BY <1>1, <2>4, QueueAssumption DEF Save
  <2>5. QED
    BY <1>4, <2>1, <2>2, <2>3, <2>4 DEF WorkerStep
<1>5. ASSUME NEW t \in Threads, Done(t), UNCHANGED pass
      PROVE  PlacesInv'
  BY <1>2, <1>5 DEF Done
<1>6. ASSUME NEW t \in Threads, ThreadStep(t)
      PROVE  PlacesInv'
  <2>1. ASSUME NEW d \in Docs, UNCHANGED pass, tdoc' = [tdoc EXCEPT ![t] = d],
               NEW step, tpc' = [tpc EXCEPT ![t] = step]
        PROVE  PlacesInv'
    BY <1>2, <2>1
  <2>2. QED
    BY <1>5, <1>6, <2>1
    DEF ThreadStep, ImportCommit, PressEnviar, PressReenviar, PressButton,
        AutoQueue, Enqueue
<1>7. CASE Surroundings
  <2>1. ASSUME NEW w \in Workers, WorkerDies(w)
        PROVE  PlacesInv'
    BY <1>1, <2>1, QueueAssumption DEF WorkerDies
  <2>2. QED
    BY <1>3, <1>5, <1>7, <2>1
    DEF Surroundings, TimePasses, NetworkChanges, Administer, ThreadDies
<1>8. ASSUME NEW t \in Threads, NEW d \in Docs, PressRevalidar(t, d)
      PROVE  PlacesInv'
  BY <1>2, <1>8 DEF PressRevalidar
<1>9. ASSUME NEW d \in Docs, PressDesbloquear(d)
      PROVE  PlacesInv'
  BY <1>3, <1>9 DEF PressDesbloquear
<1>10. ASSUME NEW t \in Threads, RevalidateSave(t)
       PROVE  PlacesInv'
  BY <1>2, <1>10 DEF RevalidateSave, PlacesInv
<1>11. CASE UNCHANGED opVars
  BY <1>3, <1>11 DEF opVars, vars
<1>12. QED
  BY <1>4, <1>6, <1>7, <1>8, <1>9, <1>10, <1>11 DEF OperatorNext, Next

\* The buttons of the operator keep every variable in its type.
LEMMA ButtonsType ==
  ASSUME OperatorTypeOK, PlacesInv,
         \/ \E t \in Threads, d \in Docs : PressRevalidar(t, d)
         \/ \E t \in Threads : RevalidateSave(t)
         \/ \E d \in Docs : PressDesbloquear(d)
  PROVE  OperatorTypeOK'
<1> USE DEF OperatorTypeOK
<1>1. ASSUME NEW t \in Threads, NEW d \in Docs, PressRevalidar(t, d)
      PROVE  OperatorTypeOK'
  <2>1. invoice[d].status \in InvoiceStatus
    BY DEF TypeOK, Invoice
  <2>2. judged' \in [Threads -> BOOLEAN]
    BY <1>1, VerdictType DEF PressRevalidar
  <2>3. QED
    BY <1>1, <2>1, <2>2
    DEF PressRevalidar, TypeOK, ThreadPC, settings, agt, pass
<1>2. ASSUME NEW t \in Threads, RevalidateSave(t)
      PROVE  OperatorTypeOK'
  <2>1. /\ tdoc[t] \in Docs
        /\ invoice' = [invoice EXCEPT ![tdoc[t]] =
                         Revalidated(invoice[tdoc[t]], judged[t])]
    BY <1>2 DEF RevalidateSave, PlacesInv
  <2>2. Revalidated(invoice[tdoc[t]], judged[t]) \in Invoice
    BY <2>1, RevalidatedFacts DEF TypeOK
  <2>3. /\ invoice' \in [Docs -> Invoice]
        /\ invoice'[tdoc[t]].status \in InvoiceStatus
    BY <2>1, <2>2 DEF TypeOK, Invoice
  <2>4. seen' \in [Threads -> InvoiceStatus]
    BY <1>2, <2>3 DEF RevalidateSave, TypeOK
  <2>5. judged' \in [Threads -> BOOLEAN]
    BY <1>2 DEF RevalidateSave
  <2>6. QED
    BY <1>2, <2>3, <2>4, <2>5
    DEF RevalidateSave, TypeOK, ThreadPC, settings, agt, pass
<1>3. ASSUME NEW d \in Docs, PressDesbloquear(d)
      PROVE  OperatorTypeOK'
  <2>1. invoice' \in [Docs -> Invoice]
    BY <1>3, RequeuedFacts DEF PressDesbloquear, TypeOK
  <2>2. QED
    BY <1>3, <2>1 DEF PressDesbloquear, TypeOK, settings, agt, pass, request
<1>4. QED
  BY <1>1, <1>2, <1>3

\* Every step keeps every variable in its type.
LEMMA OperatorTypeInductive ==
  ASSUME OperatorTypeOK, PlacesInv, [OperatorNext]_opVars
  PROVE  OperatorTypeOK'
<1>1. CASE Next /\ UNCHANGED judged
  BY <1>1, WorkerStepType, ThreadStepType, SurroundingsType
  DEF OperatorTypeOK, Next
<1>2. CASE UNCHANGED opVars
  BY <1>2 DEF opVars, vars, settings, agt, pass, request, OperatorTypeOK, TypeOK
<1>3. QED
  BY <1>1, <1>2, ButtonsType DEF OperatorNext

\* The initial states are in the type.
LEMMA OperatorTypeInitially ==
  ASSUME OperatorInit
  PROVE  OperatorTypeOK /\ PlacesInv
<1>1. TypeOK
  BY InitSafeInv DEF OperatorInit, SafeInv
<1>2. PlacesInv
  BY QueueAssumption DEF OperatorInit, Init, PlacesInv
<1>3. QED
  BY <1>1, <1>2 DEF OperatorInit, OperatorTypeOK

\* The types hold in every reachable state, with the documents the processes
\* have in hand.
LEMMA OperatorTypeAlways == OperatorSpec => [](OperatorTypeOK /\ PlacesInv)
<1>1. OperatorInit => OperatorTypeOK /\ PlacesInv
  BY OperatorTypeInitially
<1>2. OperatorTypeOK /\ PlacesInv /\ [OperatorNext]_opVars
        => (OperatorTypeOK /\ PlacesInv)'
  BY OperatorTypeInductive, PlacesInductive
<1>3. QED
  BY <1>1, <1>2, PTL DEF OperatorSpec

\* Whatever buttons the operators use, every process keeps rows, statuses,
\* counters, outcomes and verdicts in their types.
THEOREM OperatorTypeCorrect == OperatorSpec => []OperatorTypeOK
  BY OperatorTypeAlways, PTL

-----------------------------------------------------------------------------
(* Interrupted documents.                                                  *)

\* Where nobody revalidates, a thread that will queue its document saw it in a
\* status that allows it.
LEMMA ThreadsInductive ==
  ASSUME "revalidar" \notin OperatorButtons, OperatorTypeOK, ThreadsInv,
         [OperatorNext]_opVars
  PROVE  ThreadsInv'
<1> USE DEF OperatorTypeOK, TypeOK
<1>1. ASSUME UNCHANGED request
      PROVE  ThreadsInv'
  BY <1>1 DEF ThreadsInv, request
<1>2. ASSUME NEW t \in Threads, Done(t)
      PROVE  ThreadsInv'
  BY <1>2 DEF ThreadsInv, Done
<1>3. ASSUME NEW t \in Threads, NEW d \in Docs, NEW v \in Versions,
             ImportCommit(t, d, v)
      PROVE  ThreadsInv'
  BY <1>3 DEF ThreadsInv, ImportCommit
<1>4. ASSUME NEW t \in Threads, NEW d \in Docs,
             PressEnviar(t, d) \/ PressReenviar(t, d)
      PROVE  ThreadsInv'
  BY <1>4 DEF ThreadsInv, PressEnviar, PressReenviar, PressButton
<1>5. CASE Next
  BY <1>1, <1>2, <1>3, <1>4, <1>5
  DEF Next, WorkerStep, ThreadStep, Surroundings, StartPass, Claim, SkipClaimed,
      EndPass, Load, Send, Save, Recover, AutoQueue, Enqueue, TimePasses,
      NetworkChanges, Administer, WorkerDies, ThreadDies
<1>6. ASSUME NEW d \in Docs, PressDesbloquear(d)
      PROVE  ThreadsInv'
  BY <1>1, <1>6 DEF PressDesbloquear
<1>7. ASSUME NEW t \in Threads
      PROVE  ~RevalidateSave(t) /\ \A d \in Docs : ~PressRevalidar(t, d)
  BY DEF RevalidateSave, PressRevalidar, ThreadsInv
<1>8. CASE UNCHANGED opVars
  BY <1>1, <1>8 DEF opVars, vars
<1>9. QED
  BY <1>5, <1>6, <1>7, <1>8 DEF OperatorNext

\* An interrupted document is moved by nothing but its being unlocked.
LEMMA InterruptedStep ==
  ASSUME "revalidar" \notin OperatorButtons, OperatorTypeOK, PlacesInv,
         ThreadsInv, OperatorNext, NEW d \in Docs, Interrupted(d)
  PROVE  invoice'[d] = invoice[d] \/ invoice'[d] = Requeued(invoice[d])
<1> DEFINE Stays == invoice'[d] = invoice[d]
<1>1. /\ invoice \in [Docs -> Invoice]
      /\ invoice[d].status = "SENDING"
      /\ \A w \in Workers : doc[w] # d
  BY DEF OperatorTypeOK, TypeOK, Interrupted, Holds
<1>2. ASSUME NEW e \in Docs, NEW row, e # d,
             invoice' = [invoice EXCEPT ![e] = row]
      PROVE  Stays
  BY <1>1, <1>2
<1>3. ASSUME NEW w \in Workers, WorkerStep(w)
      PROVE  Stays
  <2>1. ASSUME NEW e \in Docs, Claim(w, e)
        PROVE  Stays
    BY <1>1, <1>2, <2>1 DEF Claim
  <2>2. CASE Save(w)
    BY <1>1, <2>2 DEF Save
  <2>3. CASE Recover(w)
    BY <1>1, <2>3 DEF Recover, Waiting
  <2>4. QED
    BY <1>3, <2>1, <2>2, <2>3
    DEF WorkerStep, StartPass, SkipClaimed, EndPass, Load, Send
<1>4. ASSUME NEW e \in Docs, NEW status \in {"VALIDATED", "REJECTED", "ERROR"},
             NEW force, EnqueueUpdate(e, status, force)
      PROVE  Stays
  BY <1>1, <1>4 DEF EnqueueUpdate
<1>5. ASSUME NEW t \in Threads, ThreadStep(t)
      PROVE  Stays
  <2>1. ASSUME NEW e \in Docs, NEW v \in Versions, ImportCommit(t, e, v)
        PROVE  Stays
    BY <1>1, <2>1 DEF ImportCommit, WasCommunicated
  <2>2. CASE AutoQueue(t)
    BY <1>4, <2>2 DEF AutoQueue, ThreadsInv
  <2>3. CASE Enqueue(t)
    BY <1>4, <2>3 DEF Enqueue, ThreadsInv, RESENDABLE
  <2>4. QED
    BY <1>5, <2>1, <2>2, <2>3
    DEF ThreadStep, PressEnviar, PressReenviar, PressButton
<1>6. CASE Surroundings
  <2>1. ASSUME NEW e \in Docs, TimePasses(e)
        PROVE  Stays
    BY <1>1, <2>1 DEF TimePasses
  <2>2. QED
    BY <1>6, <2>1
    DEF Surroundings, NetworkChanges, Administer, WorkerDies, ThreadDies
<1>7. ASSUME NEW t \in Threads, NEW e \in Docs, PressRevalidar(t, e)
      PROVE  Stays
  BY <1>7 DEF PressRevalidar
<1>8. ASSUME NEW t \in Threads
      PROVE  ~RevalidateSave(t)
  BY DEF RevalidateSave, ThreadsInv
<1>9. ASSUME NEW e \in Docs, PressDesbloquear(e)
      PROVE  Stays \/ invoice'[d] = Requeued(invoice[d])
  BY <1>1, <1>9 DEF PressDesbloquear
<1>10. QED
  BY <1>3, <1>5, <1>6, <1>7, <1>8, <1>9 DEF OperatorNext, Next

\* Where nobody revalidates, a document whose sender died stays exactly as it
\* is until an operator unlocks it, careful or not.
THEOREM OnlyOperatorMovesInterrupted ==
  ASSUME "revalidar" \notin OperatorButtons
  PROVE  OperatorSpec => InterruptedWaitsForOperator
<1> DEFINE Inv == OperatorTypeOK /\ PlacesInv /\ ThreadsInv
           Waits == \A d \in Docs :
                      Interrupted(d) => invoice'[d] = invoice[d]
                                        \/ invoice'[d] = Requeued(invoice[d])
<1>1. OperatorInit => Inv
  BY OperatorTypeInitially DEF OperatorInit, Init, ThreadsInv
<1>2. Inv /\ [OperatorNext]_opVars => Inv'
  BY OperatorTypeInductive, PlacesInductive, ThreadsInductive
<1>3. Inv /\ [OperatorNext]_opVars => [Waits]_opVars
  BY InterruptedStep
<1>4. QED
  BY <1>1, <1>2, <1>3, PTL DEF OperatorSpec, InterruptedWaitsForOperator

-----------------------------------------------------------------------------
(* A careful operator.                                                     *)

\* Returning an interrupted document to the queue preserves the invariant of
\* the queue: nobody has it in hand.
LEMMA CarefulStep ==
  ASSUME CarefulOperator, SafeInv, NEW d \in Docs, PressDesbloquear(d)
  PROVE  SafeInv'
<1> DEFINE new == Requeued(invoice[d])
<1>1. /\ invoice \in [Docs -> Invoice]
      /\ invoice[d] \in Invoice
      /\ invoice[d].status = "SENDING"
      /\ \A w \in Workers : doc[w] # d
      /\ invoice' = [invoice EXCEPT ![d] = new]
      /\ UNCHANGED <<settings, agt, pass, request, crashes>>
  BY DEF PressDesbloquear, SafeInv, TypeOK, Interrupted, Holds
<1>2. new \in Invoice /\ new.status = "QUEUED"
  BY <1>1, RequeuedFacts
<1> HIDE DEF new
<1>3. TypeOK'
  BY <1>1, <1>2 DEF SafeInv, TypeOK, settings, agt, pass, request
<1>4. HandsInv'
  BY <1>1, <1>2 DEF SafeInv, HandsInv, agt, pass
<1>5. OneSender' /\ SettledAsAnswered' /\ FreshInv'
  BY <1>1, <1>2 DEF SafeInv, OneSender, Holds, SettledAsAnswered, FreshInv,
                    agt, pass
<1>6. ThreadsInv'
  BY <1>1, ThreadsRest
<1>7. QED
  BY <1>3, <1>4, <1>5, <1>6 DEF SafeInv

\* Every step of a queue with a careful operator preserves its invariant.
LEMMA CarefulInductive ==
  ASSUME CarefulOperator, "revalidar" \notin OperatorButtons, SafeInv,
         [OperatorNext]_opVars
  PROVE  SafeInv'
<1>1. CASE [Next]_vars
  BY <1>1, NextSafeInv
<1>2. ASSUME NEW t \in Threads
      PROVE  ~RevalidateSave(t) /\ \A d \in Docs : ~PressRevalidar(t, d)
  BY DEF RevalidateSave, PressRevalidar, SafeInv, ThreadsInv
<1>3. QED
  BY <1>1, <1>2, CarefulStep DEF OperatorNext, opVars

\* The invariant of the queue, with an operator who unlocks carefully.
LEMMA CarefulAlways ==
  ASSUME CarefulOperator, "revalidar" \notin OperatorButtons
  PROVE  OperatorSpec => []SafeInv
<1>1. OperatorInit => SafeInv
  BY InitSafeInv DEF OperatorInit
<1>2. SafeInv /\ [OperatorNext]_opVars => SafeInv'
  BY CarefulInductive
<1>3. QED
  BY <1>1, <1>2, PTL DEF OperatorSpec

\* However often interrupted documents return to the queue, two workers never
\* have the same one in hand, as long as the operator makes sure that the
\* sender is gone and nobody revalidates.
THEOREM UnlockingKeepsOneSender ==
  ASSUME CarefulOperator, "revalidar" \notin OperatorButtons
  PROVE  OperatorSpec => []OneSender
<1>1. SafeInv => OneSender
  BY DEF SafeInv
<1>2. QED
  BY <1>1, CarefulAlways, PTL

\* Under the same conditions a document shown as settled has the content the
\* AGT answered for.
THEOREM UnlockingKeepsAnswers ==
  ASSUME CarefulOperator, "revalidar" \notin OperatorButtons
  PROVE  OperatorSpec => []SettledAsAnswered
<1>1. SafeInv => SettledAsAnswered
  BY DEF SafeInv
<1>2. QED
  BY <1>1, CarefulAlways, PTL

\* Under the same conditions, and where nobody resends, what is queued or
\* being sent has passed validation.
THEOREM UnlockingKeepsQueueValid ==
  ASSUME CarefulOperator, "revalidar" \notin OperatorButtons,
         "reenviar" \notin Buttons
  PROVE  OperatorSpec => []QueuedIsValid
<1> DEFINE Inv == SafeInv /\ ValidInv /\ \A t \in Threads : tpc[t] # "reenviar"
<1>1. OperatorInit => Inv
  BY InitSafeInv DEF OperatorInit, Init, NoInvoice, ValidInv
<1>2. ASSUME Inv, [OperatorNext]_opVars
      PROVE  Inv'
  <2>1. SafeInv'
    BY <1>2, CarefulInductive
  <2>2. CASE [Next]_vars
    BY <1>2, <2>1, <2>2, ValidStep
  <2>3. ASSUME NEW d \in Docs, PressDesbloquear(d)
        PROVE  ValidInv' /\ \A t \in Threads : tpc'[t] # "reenviar"
    BY <1>2, <2>3, RequeuedFacts
    DEF PressDesbloquear, ValidInv, SafeInv, TypeOK, request
  <2>4. ASSUME NEW t \in Threads
        PROVE  ~RevalidateSave(t) /\ \A d \in Docs : ~PressRevalidar(t, d)
    BY <1>2 DEF RevalidateSave, PressRevalidar, SafeInv, ThreadsInv
  <2>5. QED
    BY <1>2, <2>1, <2>2, <2>3, <2>4 DEF OperatorNext, opVars
<1>3. Inv => QueuedIsValid
  BY DEF ValidInv, QueuedIsValid
<1>4. QED
  BY <1>1, <1>2, <1>3, PTL DEF OperatorSpec

-----------------------------------------------------------------------------
(* Communicated documents.                                                 *)

\* The document in hand has spent an attempt, and its content and its count
\* are those of the worker's copy, whatever its status has become.
LooseHands ==
  \A w \in Workers : doc[w] \in Docs =>
    /\ invoice[doc[w]].attempts > 0
    /\ pc[w] \in {"loaded", "answered"} =>
         /\ copy[w].version = invoice[doc[w]].version
         /\ copy[w].attempts = invoice[doc[w]].attempts

\* A document for which the AGT answered has spent an attempt, and one more
\* when it is being sent again: a timeout takes back only the last.
AnsweredCounted ==
  \A d \in Docs : answered[d] # NoVersion =>
    /\ invoice[d].attempts > 0
    /\ \A w \in Workers :
         doc[w] = d /\ ~(pc[w] = "answered" /\ outcome[w].result \in Final)
           => invoice[d].attempts > 1

NobodyResends == \A t \in Threads : tpc[t] # "reenviar"

ContentInv ==
  /\ OperatorTypeOK
  /\ PlacesInv
  /\ LooseHands
  /\ AnsweredCounted
  /\ NobodyResends

\* A step that leaves the workers with what they have in hand, the answers of
\* the AGT, and the contents and counts of the rows as they are.
LEMMA ContentRests ==
  ASSUME ContentInv, UNCHANGED <<answered, doc, copy, outcome>>,
         \A w \in Workers : doc[w] \in Docs => pc'[w] = pc[w],
         \A d \in Docs : /\ invoice'[d].version = invoice[d].version
                         /\ invoice'[d].attempts = invoice[d].attempts
  PROVE  LooseHands' /\ AnsweredCounted'
<1>1. LooseHands'
  BY DEF ContentInv, LooseHands
<1>2. AnsweredCounted'
  BY DEF ContentInv, AnsweredCounted
<1>3. QED
  BY <1>1, <1>2

\* An import only touches a row that spent no attempt: nobody has it in hand
\* and nobody answered for it.
LEMMA ImportContent ==
  ASSUME ContentInv, NEW t \in Threads, NEW d \in Docs, NEW v \in Versions,
         ImportCommit(t, d, v)
  PROVE  LooseHands' /\ AnsweredCounted' /\ answered[d] = NoVersion
<1> USE DEF ContentInv
<1>1. /\ invoice \in [Docs -> Invoice]
      /\ invoice[d].attempts \in Nat
      /\ ~(invoice[d].attempts > 0)
      /\ invoice' = [invoice EXCEPT ![d] = Saved(invoice[d], v)]
      /\ UNCHANGED <<agt, pass>>
  BY DEF ImportCommit, WasCommunicated, OperatorTypeOK, TypeOK, Invoice
<1>2. \A w \in Workers : doc[w] # d
  BY <1>1 DEF LooseHands
<1>3. answered[d] = NoVersion
  BY <1>1 DEF AnsweredCounted
<1>4. \A e \in Docs : e # d => invoice'[e] = invoice[e]
  BY <1>1
<1>5. UNCHANGED <<answered, pc, doc, copy, outcome>>
  BY <1>1 DEF agt, pass
<1>6. LooseHands'
  BY <1>2, <1>4, <1>5 DEF LooseHands
<1>7. AnsweredCounted'
  BY <1>3, <1>4, <1>5 DEF AnsweredCounted
<1>8. QED
  BY <1>3, <1>6, <1>7

\* The claim spends an attempt on a document that nobody else has in hand.
LEMMA ClaimContent ==
  ASSUME ContentInv, OneSender', NEW w \in Workers, NEW d \in Docs, Claim(w, d)
  PROVE  LooseHands' /\ AnsweredCounted'
<1> USE DEF ContentInv
<1>1. /\ invoice \in [Docs -> Invoice]
      /\ invoice[d] \in Invoice
      /\ invoice[d].attempts \in Nat
      /\ invoice' = [invoice EXCEPT ![d] = Claimed(invoice[d])]
      /\ pc'[w] = "claimed" /\ doc'[w] = d
      /\ \A u \in Workers : u # w => pc'[u] = pc[u] /\ doc'[u] = doc[u]
      /\ UNCHANGED <<answered, copy, outcome>>
  BY DEF Claim, OperatorTypeOK, TypeOK, Invoice, agt
<1>2. /\ invoice'[d].attempts = invoice[d].attempts + 1
      /\ \A e \in Docs : e # d => invoice'[e] = invoice[e]
  BY <1>1, ClaimedFacts
<1>3. \A u \in Workers : u # w => doc'[u] # d
  BY <1>1 DEF OneSender, Holds
<1>4. LooseHands'
  BY <1>1, <1>2, <1>3 DEF LooseHands
<1>5. AnsweredCounted'
  <2>1. ASSUME NEW e \in Docs, answered[e] # NoVersion
        PROVE  /\ invoice'[e].attempts > 0
               /\ \A u \in Workers :
                    doc'[u] = e /\ ~(pc'[u] = "answered" /\ outcome[u].result \in Final)
                      => invoice'[e].attempts > 1
    <3>1. CASE e = d
      <4>1. invoice[d].attempts > 0
        BY <2>1, <3>1 DEF AnsweredCounted
      <4>2. QED
        BY <1>1, <1>2, <3>1, <4>1
    <3>2. CASE e # d
      BY <1>1, <1>2, <2>1, <3>2 DEF AnsweredCounted
    <3>3. QED
      BY <3>1, <3>2
  <2>2. QED
    BY <1>1, <2>1 DEF AnsweredCounted
<1>6. QED
  BY <1>4, <1>5

\* Reading the row and calling the AGT leave the count as it was claimed.
LEMMA SendContent ==
  ASSUME ContentInv, OneSender, NEW w \in Workers, Load(w) \/ Send(w)
  PROVE  LooseHands' /\ AnsweredCounted'
<1> USE DEF ContentInv
<1>1. /\ UNCHANGED <<invoice, doc>>
      /\ doc[w] \in Docs
      /\ pc[w] \in {"claimed", "loaded"}
      /\ \A u \in Workers : u # w => /\ pc'[u] = pc[u]
                                     /\ copy'[u] = copy[u]
                                     /\ outcome'[u] = outcome[u]
      /\ \A u \in Workers : u # w => doc[u] # doc[w]
  BY DEF Load, Send, PlacesInv, OperatorTypeOK, TypeOK, OneSender, Holds
<1>2. copy'[w] = invoice[doc[w]] \/ (copy'[w] = copy[w] /\ pc[w] = "loaded")
  <2>1. CASE Load(w)
    BY <2>1 DEF Load, OperatorTypeOK, TypeOK
  <2>2. CASE Send(w)
    BY <2>2 DEF Send, agt
  <2>3. QED
    BY <2>1, <2>2
<1>3. LooseHands'
  <2>1. ASSUME NEW u \in Workers, doc[u] \in Docs
        PROVE  /\ invoice[doc[u]].attempts > 0
               /\ pc'[u] \in {"loaded", "answered"} =>
                    /\ copy'[u].version = invoice[doc[u]].version
                    /\ copy'[u].attempts = invoice[doc[u]].attempts
    <3>1. CASE u = w
      BY <1>2, <2>1, <3>1 DEF LooseHands
    <3>2. CASE u # w
      BY <1>1, <2>1, <3>2 DEF LooseHands
    <3>3. QED
      BY <3>1, <3>2
  <2>2. QED
    BY <1>1, <2>1 DEF LooseHands
<1>4. \A e \in Docs : e # doc[w] => answered'[e] = answered[e]
  BY <1>1 DEF Load, Send, agt, OperatorTypeOK, TypeOK
<1>5. \/ answered'[doc[w]] = answered[doc[w]]
      \/ pc'[w] = "answered" /\ outcome'[w].result \in Final
  <2>1. CASE Load(w)
    BY <2>1 DEF Load, agt
  <2>2. CASE Send(w)
    <3>1. PICK answer \in ClientAnswers(CompanyOf[doc[w]]) :
            /\ outcome'  = [outcome EXCEPT ![w] = [result |-> answer.result,
                                                   reqid  |-> answer.reqid]]
            /\ answered' = [answered EXCEPT ![doc[w]] =
                 IF answer.result \in Final THEN copy[w].version ELSE @]
      BY <2>2 DEF Send
    <3>2. pc'[w] = "answered" /\ outcome'[w].result = answer.result
      BY <2>2, <3>1 DEF Send, OperatorTypeOK, TypeOK
    <3>3. QED
      BY <1>1, <3>1, <3>2 DEF OperatorTypeOK, TypeOK
  <2>3. QED
    BY <2>1, <2>2
<1>6. AnsweredCounted'
  <2>1. ASSUME NEW e \in Docs, answered'[e] # NoVersion
        PROVE  /\ invoice'[e].attempts > 0
               /\ \A u \in Workers :
                    doc'[u] = e /\ ~(pc'[u] = "answered" /\ outcome'[u].result \in Final)
                      => invoice'[e].attempts > 1
    <3>1. CASE e = doc[w]
      <4>1. invoice[e].attempts > 0
        BY <1>1, <3>1 DEF LooseHands
      <4>2. answered[e] # NoVersion => invoice[e].attempts > 1
        BY <1>1, <3>1 DEF AnsweredCounted
      <4>3. QED
        BY <1>1, <1>5, <2>1, <3>1, <4>1, <4>2
    <3>2. CASE e # doc[w]
      <4>1. answered[e] # NoVersion
        BY <1>4, <2>1, <3>2
      <4>2. QED
        BY <1>1, <3>2, <4>1 DEF AnsweredCounted
    <3>3. QED
      BY <3>1, <3>2
  <2>2. QED
    BY <2>1 DEF AnsweredCounted
<1>7. QED
  BY <1>3, <1>6

\* What the save writes over a row, whatever its status has become: the same
\* content, and an attempt less only after a timeout.
LEMMA SaveContent ==
  ASSUME ContentInv, OneSender, NEW w \in Workers, Save(w)
  PROVE  /\ LooseHands' /\ AnsweredCounted'
         /\ \A d \in Docs : invoice'[d].version = invoice[d].version
<1> USE DEF ContentInv
<1> DEFINE new == AfterSend(copy[w], outcome[w].result, outcome[w].reqid)
           d   == doc[w]
<1>1. /\ d \in Docs
      /\ pc[w] = "answered"
      /\ copy[w].version = invoice[d].version
      /\ copy[w].attempts = invoice[d].attempts
      /\ invoice[d].attempts > 0
      /\ \A u \in Workers : u # w => doc[u] # d
  BY DEF Save, PlacesInv, LooseHands, OneSender, Holds
<1>2. /\ copy[w] \in Invoice
      /\ outcome[w].result \in Outcome
      /\ outcome[w].reqid \in BOOLEAN
      /\ invoice \in [Docs -> Invoice]
      /\ invoice' = [invoice EXCEPT ![d] = new]
  BY DEF Save, OperatorTypeOK, TypeOK
<1>3. /\ new.version = copy[w].version
      /\ outcome[w].result # "NETWORK" => new.attempts = copy[w].attempts
      /\ copy[w].attempts > 1 => new.attempts > 0
  BY <1>2, AfterSendFacts
<1> HIDE DEF new
<1>4. /\ invoice'[d] = new
      /\ \A e \in Docs : e # d => invoice'[e] = invoice[e]
  BY <1>1, <1>2
<1>5. /\ \A u \in Workers : u # w => /\ pc'[u] = pc[u]
                                     /\ doc'[u] = doc[u]
                                     /\ copy'[u] = copy[u]
                                     /\ outcome'[u] = outcome[u]
      /\ doc'[w] = Nobody
      /\ answered' = answered
  BY DEF Save, OperatorTypeOK, TypeOK, agt
<1>6. answered[d] # NoVersion => new.attempts > 0
  <2>1. CASE outcome[w].result \in Final
    BY <1>1, <1>3, <2>1 DEF Final
  <2>2. CASE outcome[w].result \notin Final
    BY <1>1, <1>3, <2>2 DEF AnsweredCounted
  <2>3. QED
    BY <2>1, <2>2
<1>7. LooseHands'
  BY <1>1, <1>4, <1>5, QueueAssumption DEF LooseHands
<1>8. AnsweredCounted'
  <2>1. ASSUME NEW e \in Docs, answered[e] # NoVersion
        PROVE  /\ invoice'[e].attempts > 0
               /\ \A u \in Workers :
                    doc'[u] = e /\ ~(pc'[u] = "answered" /\ outcome'[u].result \in Final)
                      => invoice'[e].attempts > 1
    <3>1. CASE e = d
      <4>1. \A u \in Workers : doc'[u] # d
        BY <1>1, <1>5, QueueAssumption
      <4>2. QED
        BY <1>4, <1>6, <2>1, <3>1, <4>1
    <3>2. CASE e # d
      BY <1>4, <1>5, <2>1, <3>2, QueueAssumption DEF AnsweredCounted
    <3>3. QED
      BY <3>1, <3>2
  <2>2. QED
    BY <1>5, <2>1 DEF AnsweredCounted
<1>9. QED
  BY <1>1, <1>3, <1>4, <1>7, <1>8

\* A worker that dies keeps nothing in hand.
LEMMA DeathContent ==
  ASSUME ContentInv, NEW w \in Workers, WorkerDies(w)
  PROVE  LooseHands' /\ AnsweredCounted'
<1> USE DEF ContentInv
<1>1. /\ UNCHANGED <<invoice, answered>>
      /\ doc'[w] = Nobody
      /\ \A u \in Workers : u # w => /\ pc'[u] = pc[u]
                                     /\ doc'[u] = doc[u]
                                     /\ copy'[u] = copy[u]
                                     /\ outcome'[u] = outcome[u]
  BY DEF WorkerDies, agt, OperatorTypeOK, TypeOK
<1>2. LooseHands'
  BY <1>1, QueueAssumption DEF LooseHands
<1>3. AnsweredCounted'
  BY <1>1, QueueAssumption DEF AnsweredCounted
<1>4. QED
  BY <1>2, <1>3

\* Queueing without counting anew leaves contents and counts as they are.
LEMMA EnqueueContent ==
  ASSUME OperatorTypeOK, NEW d \in Docs, NEW status, EnqueueUpdate(d, status, FALSE)
  PROVE  \A e \in Docs : /\ invoice'[e].version = invoice[e].version
                         /\ invoice'[e].attempts = invoice[e].attempts
<1>1. invoice \in [Docs -> Invoice]
  BY DEF OperatorTypeOK, TypeOK
<1>2. /\ Enqueued(invoice[d], FALSE).version = invoice[d].version
      /\ Enqueued(invoice[d], FALSE).attempts = invoice[d].attempts
  BY <1>1, EnqueuedFacts
<1>3. CASE invoice' = invoice
  BY <1>3
<1>4. CASE invoice' = [invoice EXCEPT ![d] = Enqueued(invoice[d], FALSE)]
  BY <1>1, <1>2, <1>4
<1>5. QED
  BY <1>3, <1>4 DEF EnqueueUpdate

\* Nobody resends where the button is not in use.
LEMMA NobodyResendsStep ==
  ASSUME "reenviar" \notin Buttons, OperatorTypeOK, NobodyResends,
         [OperatorNext]_opVars
  PROVE  NobodyResends'
<1> USE DEF OperatorTypeOK, TypeOK
<1>1. ASSUME UNCHANGED request
      PROVE  NobodyResends'
  BY <1>1 DEF NobodyResends, request
<1>2. ASSUME NEW t \in Threads, NEW place, place # "reenviar",
             tpc' = [tpc EXCEPT ![t] = place]
      PROVE  NobodyResends'
  BY <1>2 DEF NobodyResends
<1>3. ASSUME NEW t \in Threads, Done(t)
      PROVE  NobodyResends'
  BY <1>2, <1>3 DEF Done
<1>4. ASSUME NEW t \in Threads, ThreadStep(t)
      PROVE  NobodyResends'
  BY <1>2, <1>3, <1>4 DEF ThreadStep, ImportCommit, PressEnviar, PressReenviar,
                          PressButton, AutoQueue, Enqueue
<1>5. CASE Next
  BY <1>1, <1>3, <1>4, <1>5
  DEF Next, WorkerStep, Surroundings, StartPass, Claim, SkipClaimed, EndPass,
      Load, Send, Save, Recover, TimePasses, NetworkChanges, Administer,
      WorkerDies, ThreadDies
<1>6. ASSUME NEW t \in Threads, NEW d \in Docs, PressRevalidar(t, d)
      PROVE  NobodyResends'
  BY <1>2, <1>6 DEF PressRevalidar
<1>7. ASSUME NEW t \in Threads, RevalidateSave(t)
      PROVE  NobodyResends'
  BY <1>2, <1>7 DEF RevalidateSave
<1>8. ASSUME NEW d \in Docs, PressDesbloquear(d)
      PROVE  NobodyResends'
  BY <1>1, <1>8 DEF PressDesbloquear
<1>9. CASE UNCHANGED opVars
  BY <1>1, <1>9 DEF opVars, vars
<1>10. QED
  BY <1>5, <1>6, <1>7, <1>8, <1>9 DEF OperatorNext

\* A step keeps what is known of contents and counts, and changes the content
\* of a document only before the AGT answers for it.
LEMMA ContentStep ==
  ASSUME ContentInv, OneSender, OneSender', [OperatorNext]_opVars
  PROVE  /\ LooseHands' /\ AnsweredCounted'
         /\ \A d \in Docs : answered[d] # NoVersion
                              => invoice'[d].version = invoice[d].version
<1> DEFINE Keeps ==
      /\ LooseHands' /\ AnsweredCounted'
      /\ \A d \in Docs : answered[d] # NoVersion
                           => invoice'[d].version = invoice[d].version
<1> SUFFICES Keeps
  OBVIOUS
<1>1. invoice \in [Docs -> Invoice]
  BY DEF ContentInv, OperatorTypeOK, TypeOK
<1>2. ASSUME UNCHANGED <<answered, doc, copy, outcome>>,
             \A w \in Workers : doc[w] \in Docs => pc'[w] = pc[w],
             \A d \in Docs : /\ invoice'[d].version = invoice[d].version
                             /\ invoice'[d].attempts = invoice[d].attempts
      PROVE  Keeps
  BY <1>2, ContentRests
<1>3. ASSUME NEW w \in Workers, WorkerStep(w)
      PROVE  Keeps
  <2>1. ASSUME NEW d \in Docs, Claim(w, d)
        PROVE  Keeps
    <3>1. Claimed(invoice[d]).version = invoice[d].version
      BY <1>1 DEF Claimed, Invoice
    <3>2. \A e \in Docs : invoice'[e].version = invoice[e].version
      BY <1>1, <2>1, <3>1 DEF Claim
    <3>3. QED
      BY <2>1, <3>2, ClaimContent
  <2>2. CASE Load(w) \/ Send(w)
    <3>1. invoice' = invoice
      BY <2>2 DEF Load, Send
    <3>2. QED
      BY <2>2, <3>1, SendContent
  <2>3. CASE Save(w)
    BY <2>3, SaveContent
  <2>4. ASSUME StartPass(w) \/ (\E d \in Docs : SkipClaimed(w, d)) \/ EndPass(w)
        PROVE  Keeps
    <3>1. /\ UNCHANGED <<invoice, agt, doc, copy, outcome>>
          /\ pc[w] \in {"idle", "pick"}
          /\ \A u \in Workers : u # w => pc'[u] = pc[u]
      BY <2>4 DEF StartPass, SkipClaimed, EndPass, ContentInv, OperatorTypeOK,
                  TypeOK
    <3>2. doc[w] \notin Docs
      BY <3>1 DEF ContentInv, PlacesInv
    <3>3. QED
      BY <1>2, <3>1, <3>2 DEF agt
  <2>5. CASE Recover(w)
    <3>1. /\ UNCHANGED <<agt, doc, copy, outcome>>
          /\ pc[w] = "recover"
          /\ \A u \in Workers : u # w => pc'[u] = pc[u]
      BY <2>5 DEF Recover, ContentInv, OperatorTypeOK, TypeOK
    <3>2. doc[w] \notin Docs
      BY <3>1 DEF ContentInv, PlacesInv
    <3>3. \A d \in Docs : /\ invoice'[d].version = invoice[d].version
                          /\ invoice'[d].attempts = invoice[d].attempts
      BY <1>1, <2>5 DEF Recover, Invoice
    <3>4. QED
      BY <1>2, <3>1, <3>2, <3>3 DEF agt
  <2>6. QED
    BY <1>3, <2>1, <2>2, <2>3, <2>4, <2>5 DEF WorkerStep
<1>4. ASSUME UNCHANGED <<answered, pass>>,
             \A d \in Docs : /\ invoice'[d].version = invoice[d].version
                             /\ invoice'[d].attempts = invoice[d].attempts
      PROVE  Keeps
  BY <1>2, <1>4 DEF pass
<1>5. ASSUME NEW t \in Threads, ThreadStep(t)
      PROVE  Keeps
  <2>1. ASSUME NEW d \in Docs, NEW v \in Versions, ImportCommit(t, d, v)
        PROVE  Keeps
    <3>1. \A e \in Docs : e # d => invoice'[e] = invoice[e]
      BY <1>1, <2>1 DEF ImportCommit
    <3>2. QED
      BY <2>1, <3>1, ImportContent
  <2>2. ASSUME NEW d \in Docs, PressEnviar(t, d) \/ PressReenviar(t, d)
        PROVE  Keeps
    BY <1>4, <2>2 DEF PressEnviar, PressReenviar, PressButton, agt
  <2>3. CASE AutoQueue(t)
    <3>1. tdoc[t] \in Docs
      BY <2>3 DEF AutoQueue, ContentInv, PlacesInv
    <3>2. CASE invoice' = invoice
      BY <1>4, <2>3, <3>2 DEF AutoQueue, agt
    <3>3. CASE EnqueueUpdate(tdoc[t], seen[t], FALSE)
      BY <1>4, <2>3, <3>1, <3>3, EnqueueContent DEF AutoQueue, agt, ContentInv
    <3>4. QED
      BY <2>3, <3>2, <3>3 DEF AutoQueue
  <2>4. CASE Enqueue(t)
    <3>1. tdoc[t] \in Docs /\ (tpc[t] = "reenviar") = FALSE
      BY <2>4 DEF Enqueue, ContentInv, PlacesInv, NobodyResends
    <3>2. EnqueueUpdate(tdoc[t], seen[t], FALSE)
      BY <2>4, <3>1 DEF Enqueue
    <3>3. QED
      BY <1>4, <2>4, <3>1, <3>2, EnqueueContent DEF Enqueue, agt, ContentInv
  <2>5. QED
    BY <1>5, <2>1, <2>2, <2>3, <2>4 DEF ThreadStep
<1>6. CASE Surroundings
  <2>1. ASSUME NEW d \in Docs, TimePasses(d)
        PROVE  Keeps
    <3>1. \A e \in Docs : /\ invoice'[e].version = invoice[e].version
                          /\ invoice'[e].attempts = invoice[e].attempts
      BY <1>1, <2>1 DEF TimePasses, Invoice
    <3>2. QED
      BY <1>4, <2>1, <3>1 DEF TimePasses, agt
  <2>2. ASSUME NEW w \in Workers, WorkerDies(w)
        PROVE  Keeps
    BY <2>2, DeathContent DEF WorkerDies
  <2>3. QED
    BY <1>4, <1>6, <2>1, <2>2
    DEF Surroundings, NetworkChanges, Administer, ThreadDies, agt
<1>7. ASSUME NEW t \in Threads, NEW d \in Docs, PressRevalidar(t, d)
      PROVE  Keeps
  BY <1>4, <1>7 DEF PressRevalidar, agt
<1>8. ASSUME NEW t \in Threads, RevalidateSave(t)
      PROVE  Keeps
  <2>1. tdoc[t] \in Docs /\ judged[t] \in BOOLEAN
    BY <1>8 DEF RevalidateSave, ContentInv, PlacesInv, OperatorTypeOK
  <2>2. invoice' = [invoice EXCEPT ![tdoc[t]] =
                      Revalidated(invoice[tdoc[t]], judged[t])]
    BY <1>8 DEF RevalidateSave
  <2>3. \A d \in Docs : /\ invoice'[d].version = invoice[d].version
                        /\ invoice'[d].attempts = invoice[d].attempts
    BY <1>1, <2>1, <2>2, RevalidatedFacts
  <2>4. QED
    BY <1>4, <1>8, <2>3 DEF RevalidateSave, agt
<1>9. ASSUME NEW d \in Docs, PressDesbloquear(d)
      PROVE  Keeps
  <2>1. \A e \in Docs : /\ invoice'[e].version = invoice[e].version
                        /\ invoice'[e].attempts = invoice[e].attempts
    BY <1>1, <1>9, RequeuedFacts DEF PressDesbloquear
  <2>2. QED
    BY <1>4, <1>9, <2>1 DEF PressDesbloquear, agt
<1>10. CASE UNCHANGED opVars
  BY <1>4, <1>10 DEF opVars, vars, agt
<1>11. QED
  BY <1>3, <1>5, <1>6, <1>7, <1>8, <1>9, <1>10 DEF OperatorNext, Next

\* Where nobody resends, and as long as two workers never have the same
\* document in hand, the content of a document for which the AGT answered
\* never changes: whatever is revalidated or unlocked, carefully or not, and
\* whoever dies.
THEOREM CommunicatedUnlessTwoSenders ==
  ASSUME "reenviar" \notin Buttons
  PROVE  OperatorSpec /\ []OneSender => CommunicatedNeverAltered
<1> DEFINE Keeps == \A d \in Docs : answered[d] # NoVersion
                                      => invoice'[d].version = invoice[d].version
<1>1. OperatorInit => ContentInv
  BY OperatorTypeInitially, QueueAssumption
  DEF OperatorInit, Init, ContentInv, LooseHands, AnsweredCounted, NobodyResends
<1>2. ContentInv /\ OneSender /\ OneSender' /\ [OperatorNext]_opVars
        => ContentInv'
  BY OperatorTypeInductive, PlacesInductive, NobodyResendsStep, ContentStep
  DEF ContentInv
<1>3. ContentInv /\ OneSender /\ OneSender' /\ [OperatorNext]_opVars
        => [Keeps]_vars
  BY ContentStep DEF opVars
<1>4. QED
  BY <1>1, <1>2, <1>3, PTL DEF OperatorSpec, CommunicatedNeverAltered

\* With one process running the queue, revalidations and unlocking included,
\* the content of a document for which the AGT answered never changes.
THEOREM RevalidatingAltersNothingCommunicated ==
  ASSUME "reenviar" \notin Buttons, \A w1, w2 \in Workers : w1 = w2
  PROVE  OperatorSpec => CommunicatedNeverAltered
<1>1. OneSender
  BY DEF OneSender
<1>2. QED
  BY <1>1, CommunicatedUnlessTwoSenders, PTL

\* With any number of processes, a careful operator and no revalidation, the
\* content of a document for which the AGT answered never changes.
THEOREM UnlockingAltersNothingCommunicated ==
  ASSUME "reenviar" \notin Buttons, CarefulOperator,
         "revalidar" \notin OperatorButtons
  PROVE  OperatorSpec => CommunicatedNeverAltered
  BY UnlockingKeepsOneSender, CommunicatedUnlessTwoSenders, PTL

=============================================================================
