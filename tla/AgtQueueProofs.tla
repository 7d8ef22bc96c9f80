--------------------------- MODULE AgtQueueProofs ---------------------------
(***************************************************************************)
(* Proofs about AgtQueue, for any number of documents, companies, workers, *)
(* threads and deaths.                                                     *)
(***************************************************************************)
EXTENDS AgtQueue, InvoicesProofs, TLAPS

-----------------------------------------------------------------------------
(* Type correctness.                                                       *)

\* Bringing the waiting documents forward keeps the table in its type.
LEMMA RecoveredType ==
  ASSUME NEW inv \in Invoice
  PROVE  [inv EXCEPT !.due = TRUE] \in Invoice
  BY DEF Invoice

\* The steps of a worker that write no row leave the table as it is.
LEMMA PassRowsType ==
  ASSUME TypeOK, NEW w \in Workers, WorkerStep(w)
  PROVE  invoice' \in [Docs -> Invoice]
<1>1. ASSUME NEW d \in Docs, Claim(w, d)
      PROVE  invoice' \in [Docs -> Invoice]
  BY <1>1, ClaimedFacts DEF TypeOK, Claim
<1>2. CASE Save(w)
  <2>1. outcome[w].result \in Outcome /\ outcome[w].reqid \in BOOLEAN
    BY DEF TypeOK
  <2>2. doc[w] \in Docs =>
          AfterSend(copy[w], outcome[w].result, outcome[w].reqid) \in Invoice
    BY <2>1, AfterSendFacts DEF TypeOK
  <2>3. QED
    BY <1>2, <2>2 DEF TypeOK, Save
<1>3. CASE Recover(w)
  BY <1>3, RecoveredType DEF TypeOK, Recover
<1>4. QED
  BY <1>1, <1>2, <1>3
  DEF WorkerStep, StartPass, SkipClaimed, EndPass, Load, Send, TypeOK

\* Every row a thread writes is a row.
LEMMA ThreadRowsType ==
  ASSUME TypeOK, NEW t \in Threads, ThreadStep(t)
  PROVE  invoice' \in [Docs -> Invoice]
<1>1. ASSUME NEW d \in Docs, NEW v \in Versions, ImportCommit(t, d, v)
      PROVE  invoice' \in [Docs -> Invoice]
  BY <1>1, SavedFacts DEF TypeOK, ImportCommit
<1>2. ASSUME NEW force \in BOOLEAN, EnqueueUpdate(tdoc[t], seen[t], force)
      PROVE  invoice' \in [Docs -> Invoice]
  <2>1. CASE tdoc[t] \in Docs
    BY <1>2, <2>1, EnqueuedFacts DEF TypeOK, EnqueueUpdate
  <2>2. CASE tdoc[t] \notin Docs
    BY <1>2, <2>2 DEF TypeOK, EnqueueUpdate
  <2>3. QED
    BY <2>1, <2>2
<1>3. CASE AutoQueue(t)
  BY <1>2, <1>3 DEF TypeOK, AutoQueue
<1>4. CASE Enqueue(t)
  BY <1>2, <1>4 DEF Enqueue
<1>5. QED
  BY <1>1, <1>3, <1>4
  DEF ThreadStep, PressEnviar, PressReenviar, PressButton, TypeOK

\* The surroundings write no row but for the instant that comes.
LEMMA SurroundingsRowsType ==
  ASSUME TypeOK, Surroundings
  PROVE  invoice' \in [Docs -> Invoice]
<1>1. ASSUME NEW d \in Docs, TimePasses(d)
      PROVE  invoice' \in [Docs -> Invoice]
  BY <1>1, RecoveredType DEF TypeOK, TimePasses
<1>2. QED
  BY <1>1
  DEF TypeOK, Surroundings, NetworkChanges, Administer, WorkerDies, ThreadDies

\* A worker has a document in hand exactly between the claim and the save, and
\* a thread one between what it saw and what it does.
PlacesInv ==
  /\ \A w \in Workers :
       doc[w] \in Docs <=> pc[w] \in {"claimed", "loaded", "answered"}
  /\ \A t \in Threads : tpc[t] # "idle" => tdoc[t] \in Docs

\* Every step of a worker (process_queue, _send) preserves the types.
LEMMA WorkerStepType ==
  ASSUME TypeOK, PlacesInv, NEW w \in Workers, WorkerStep(w)
  PROVE  TypeOK'
<1>1. invoice' \in [Docs -> Invoice]
  BY PassRowsType
<1>2. CASE StartPass(w)
  BY <1>1, <1>2
  DEF TypeOK, StartPass, Candidates, WorkerPC, settings, agt, request
<1>3. ASSUME NEW d \in Docs, Claim(w, d)
      PROVE  TypeOK'
  BY <1>1, <1>3 DEF TypeOK, Claim, WorkerPC, settings, agt, request
<1>4. ASSUME NEW d \in Docs, SkipClaimed(w, d)
      PROVE  TypeOK'
  BY <1>1, <1>4 DEF TypeOK, SkipClaimed, settings, agt, request
<1>5. CASE EndPass(w)
  BY <1>1, <1>5 DEF TypeOK, EndPass, WorkerPC, settings, agt, request
<1>6. CASE Load(w)
  <2>1. doc[w] \in Docs
    BY <1>6 DEF Load, PlacesInv
  <2>2. QED
    BY <1>1, <1>6, <2>1 DEF TypeOK, Load, WorkerPC, settings, agt, request
<1>7. CASE Send(w)
  <2>1. doc[w] \in Docs
    BY <1>7 DEF Send, PlacesInv
  <2>2. copy[w].version \in Versions \cup {NoVersion}
    BY DEF TypeOK, Invoice
  <2>3. PICK answer \in ClientAnswers(CompanyOf[doc[w]]) :
          /\ outcome'  = [outcome EXCEPT ![w] = [result |-> answer.result,
                                                 reqid  |-> answer.reqid]]
          /\ received' = [received EXCEPT ![doc[w]] =
               @ \cup (IF answer.arrived THEN {copy[w].version} ELSE {})]
          /\ answered' = [answered EXCEPT ![doc[w]] =
               IF answer.result \in Final THEN copy[w].version ELSE @]
    BY <1>7 DEF Send
  <2>4. answer.result \in Outcome /\ answer.reqid \in BOOLEAN
    BY DEF ClientAnswers, Outcome, Final
  <2>5. outcome' \in [Workers -> [result : Outcome, reqid : BOOLEAN]]
    BY <2>3, <2>4 DEF TypeOK
  <2>6. received' \in [Docs -> SUBSET (Versions \cup {NoVersion})]
    BY <2>2, <2>3 DEF TypeOK
  <2>7. answered' \in [Docs -> Versions \cup {NoVersion}]
    BY <2>2, <2>3 DEF TypeOK
  <2>8. QED
    BY <1>1, <1>7, <2>5, <2>6, <2>7
    DEF TypeOK, Send, WorkerPC, settings, request
<1>8. CASE Save(w)
  <2>1. NoOutcome \in [result : Outcome, reqid : BOOLEAN]
    BY DEF NoOutcome, Outcome
  <2>2. pc' \in [Workers -> WorkerPC]
    BY <1>8 DEF TypeOK, Save, WorkerPC
  <2>3. recovered' \in [Workers -> BOOLEAN]
    BY <1>8 DEF TypeOK, Save
  <2>4. todo' \in [Workers -> SUBSET Docs]
    BY <1>8 DEF TypeOK, Save
  <2>5. QED
    BY <1>1, <1>8, <2>1, <2>2, <2>3, <2>4, NoInvoiceType
    DEF TypeOK, Save, settings, agt, request
<1>9. CASE Recover(w)
  <2>1. recovered' \in [Workers -> BOOLEAN]
    BY <1>9 DEF TypeOK, Recover
  <2>2. QED
    BY <1>1, <1>9, <2>1 DEF TypeOK, Recover, WorkerPC, settings, agt, request
<1>10. QED
  BY <1>2, <1>3, <1>4, <1>5, <1>6, <1>7, <1>8, <1>9 DEF WorkerStep

\* Every step of a thread (import, buttons) preserves the types.
LEMMA ThreadStepType ==
  ASSUME TypeOK, NEW t \in Threads, ThreadStep(t)
  PROVE  TypeOK'
<1>1. invoice' \in [Docs -> Invoice]
  BY ThreadRowsType
<1>2. ASSUME NEW d \in Docs
      PROVE  invoice[d].status \in InvoiceStatus /\ invoice'[d].status \in InvoiceStatus
  BY <1>1 DEF TypeOK, Invoice
<1>3. "ABSENT" \in InvoiceStatus
  BY DEF InvoiceStatus
<1>4. ASSUME NEW d \in Docs, NEW v \in Versions, ImportCommit(t, d, v)
      PROVE  TypeOK'
  BY <1>1, <1>2, <1>4 DEF TypeOK, ImportCommit, ThreadPC, settings, agt, pass
<1>5. ASSUME NEW d \in Docs, NEW button \in {"enviar", "reenviar"},
             NEW allowed, PressButton(t, d, button, allowed)
      PROVE  TypeOK'
  BY <1>1, <1>2, <1>5 DEF TypeOK, PressButton, ThreadPC, settings, agt, pass
<1>6. CASE AutoQueue(t)
  BY <1>1, <1>3, <1>6 DEF TypeOK, AutoQueue, Done, ThreadPC, settings, agt, pass
<1>7. CASE Enqueue(t)
  BY <1>1, <1>3, <1>7 DEF TypeOK, Enqueue, Done, ThreadPC, settings, agt, pass
<1>8. QED
  BY <1>4, <1>5, <1>6, <1>7 DEF ThreadStep, PressEnviar, PressReenviar

\* Time, network, administrators and deaths preserve the types.
LEMMA SurroundingsType ==
  ASSUME TypeOK, Surroundings
  PROVE  TypeOK'
<1>1. invoice' \in [Docs -> Invoice]
  BY SurroundingsRowsType
<1>2. ASSUME NEW d \in Docs, TimePasses(d)
      PROVE  TypeOK'
  BY <1>1, <1>2 DEF TypeOK, TimePasses, settings, agt, pass, request
<1>3. CASE NetworkChanges
  BY <1>3 DEF TypeOK, NetworkChanges, agt, pass, request
<1>4. ASSUME NEW c \in Companies, Administer(c)
      PROVE  TypeOK'
  BY <1>4 DEF TypeOK, Administer, agt, pass, request
<1>5. ASSUME NEW w \in Workers, WorkerDies(w)
      PROVE  TypeOK'
  <2>1. NoOutcome \in [result : Outcome, reqid : BOOLEAN]
    BY DEF NoOutcome, Outcome
  <2>2. crashes' \in 0..MaxCrashes
    BY <1>5, QueueAssumption DEF TypeOK, WorkerDies
  <2>3. QED
    BY <1>5, <2>1, <2>2, NoInvoiceType
    DEF TypeOK, WorkerDies, WorkerPC, settings, agt, request
<1>6. ASSUME NEW t \in Threads, ThreadDies(t)
      PROVE  TypeOK'
  <2>1. crashes' \in 0..MaxCrashes
    BY <1>6, QueueAssumption DEF TypeOK, ThreadDies
  <2>2. "ABSENT" \in InvoiceStatus
    BY DEF InvoiceStatus
  <2>3. QED
    BY <1>6, <2>1, <2>2
    DEF TypeOK, ThreadDies, Done, ThreadPC, settings, agt, pass
<1>7. QED
  BY <1>2, <1>3, <1>4, <1>5, <1>6 DEF Surroundings

-----------------------------------------------------------------------------
(* The inductive invariant.                                                *)

\* A step that leaves the workers and the AGT alone, never touches a row in
\* SENDING and settles none, disturbs nothing a worker relies on.
LEMMA RowsOfOthers ==
  ASSUME SafeInv, UNCHANGED <<agt, pass>>,
         \A d \in Docs :
           \/ invoice'[d] = invoice[d]
           \/ /\ invoice[d].status # "SENDING"
              /\ invoice'[d].status \notin {"SENDING", "SENT", "CONFIRMED",
                                            "REJECTED"}
  PROVE  HandsInv' /\ OneSender' /\ SettledAsAnswered'
<1>1. HandsInv'
  BY DEF SafeInv, HandsInv, agt, pass
<1>2. OneSender'
  BY DEF SafeInv, OneSender, Holds, pass
<1>3. SettledAsAnswered'
  BY DEF SafeInv, SettledAsAnswered, agt
<1>4. QED
  BY <1>1, <1>2, <1>3

\* No step of another process than its own changes what a thread saw.
LEMMA ThreadsRest ==
  ASSUME SafeInv, UNCHANGED request
  PROVE  ThreadsInv'
  BY DEF SafeInv, ThreadsInv, request

\* import_document preserves the invariant.
LEMMA ImportCommitStep ==
  ASSUME SafeInv, TypeOK', NEW t \in Threads, NEW d \in Docs, NEW v \in Versions,
         ImportCommit(t, d, v)
  PROVE  SafeInv'
<1> DEFINE new == Saved(invoice[d], v)
<1>1. /\ invoice' = [invoice EXCEPT ![d] = new]
      /\ invoice \in [Docs -> Invoice]
      /\ invoice[d] \in Invoice
  BY DEF ImportCommit, SafeInv, TypeOK
<1>2. /\ new.status \in {"VALIDATED", "ERROR"}
      /\ new.attempts = invoice[d].attempts
  BY <1>1, SavedFacts
<1>3. invoice[d].status # "SENDING" /\ invoice[d].attempts = 0
  BY <1>1 DEF ImportCommit, WasCommunicated, Invoice
<1> HIDE DEF new
<1>4. HandsInv' /\ OneSender' /\ SettledAsAnswered'
  BY <1>1, <1>2, <1>3, RowsOfOthers DEF ImportCommit
<1>5. FreshInv'
  BY <1>1, <1>2, <1>3 DEF SafeInv, FreshInv
<1>6. ThreadsInv'
  BY DEF ImportCommit, SafeInv, ThreadsInv, TypeOK
<1>7. QED
  BY <1>4, <1>5, <1>6 DEF SafeInv

\* Reading a row for a button of the panel preserves the invariant.
LEMMA PressButtonStep ==
  ASSUME SafeInv, TypeOK', NEW t \in Threads, NEW d \in Docs,
         PressEnviar(t, d) \/ PressReenviar(t, d)
  PROVE  SafeInv'
<1>1. UNCHANGED <<invoice, settings, agt, pass, crashes>>
  BY DEF PressEnviar, PressReenviar, PressButton
<1>2. HandsInv' /\ OneSender' /\ SettledAsAnswered'
  BY <1>1, RowsOfOthers
<1>3. FreshInv'
  BY <1>1 DEF SafeInv, FreshInv
<1>4. ThreadsInv'
  BY DEF PressEnviar, PressReenviar, PressButton, SafeInv, ThreadsInv, TypeOK
<1>5. QED
  BY <1>2, <1>3, <1>4 DEF SafeInv

\* The conditional update of enqueue, for a caller that saw a status from
\* which the document may be queued.
LEMMA EnqueueUpdateFacts ==
  ASSUME SafeInv, NEW d \in Docs, NEW status, NEW force \in BOOLEAN,
         EnqueueUpdate(d, status, force),
         \/ status = "VALIDATED" /\ ~force
         \/ status \in RESENDABLE /\ force
  PROVE  /\ \A e \in Docs :
              \/ invoice'[e] = invoice[e]
              \/ /\ invoice[e].status \in {"VALIDATED", "REJECTED", "ERROR"}
                 /\ invoice'[e].status = "QUEUED"
                 /\ invoice'[e].attempts = 0
         /\ FreshInv'
<1> DEFINE new == Enqueued(invoice[d], force)
<1>1. /\ invoice \in [Docs -> Invoice]
      /\ invoice[d] \in Invoice
  BY DEF SafeInv, TypeOK
<1>2. /\ new.status = "QUEUED"
      /\ new.attempts = IF force THEN 0 ELSE invoice[d].attempts
  BY <1>1, EnqueuedFacts
<1>3. CASE invoice[d].status = status
  <2>1. invoice' = [invoice EXCEPT ![d] = new]
    BY <1>3 DEF EnqueueUpdate
  <2>2. new.attempts = 0
    BY <1>2, <1>3 DEF SafeInv, FreshInv
  <2> HIDE DEF new
  <2>3. QED
    BY <1>1, <1>2, <1>3, <2>1, <2>2
    DEF SafeInv, FreshInv, RESENDABLE
<1>4. CASE invoice[d].status # status
  BY <1>4 DEF EnqueueUpdate, SafeInv, FreshInv
<1>5. QED
  BY <1>3, <1>4

\* A thread that is done relies on nothing any more.
LEMMA DoneThreads ==
  ASSUME SafeInv, NEW t \in Threads, Done(t)
  PROVE  ThreadsInv'
  BY DEF SafeInv, TypeOK, Done, ThreadsInv

\* enqueue_if_auto, run after the commit, preserves the invariant.
LEMMA AutoQueueStep ==
  ASSUME SafeInv, TypeOK', NEW t \in Threads, AutoQueue(t)
  PROVE  SafeInv'
<1>1. tdoc[t] \in Docs
  BY DEF AutoQueue, SafeInv, ThreadsInv
<1>2. CASE seen[t] = "VALIDATED" /\ auto_send[CompanyOf[tdoc[t]]]
  <2>1. EnqueueUpdate(tdoc[t], seen[t], FALSE)
    BY <1>2 DEF AutoQueue
  <2>2. /\ \A e \in Docs :
             \/ invoice'[e] = invoice[e]
             \/ /\ invoice[e].status \in {"VALIDATED", "REJECTED", "ERROR"}
                /\ invoice'[e].status = "QUEUED"
        /\ FreshInv'
    BY <1>1, <1>2, <2>1, EnqueueUpdateFacts
  <2>3. HandsInv' /\ OneSender' /\ SettledAsAnswered'
    BY <2>2, RowsOfOthers DEF AutoQueue
  <2>4. QED
    BY <2>2, <2>3, DoneThreads DEF AutoQueue, SafeInv
<1>3. CASE ~(seen[t] = "VALIDATED" /\ auto_send[CompanyOf[tdoc[t]]])
  <2>1. UNCHANGED <<invoice, agt, pass>>
    BY <1>3 DEF AutoQueue
  <2>2. HandsInv' /\ OneSender' /\ SettledAsAnswered'
    BY <2>1, RowsOfOthers
  <2>3. FreshInv'
    BY <2>1 DEF SafeInv, FreshInv
  <2>4. QED
    BY <2>2, <2>3, DoneThreads DEF AutoQueue, SafeInv
<1>4. QED
  BY <1>2, <1>3

\* enqueue, on a row read earlier, preserves the invariant.
LEMMA EnqueueStep ==
  ASSUME SafeInv, TypeOK', NEW t \in Threads, Enqueue(t)
  PROVE  SafeInv'
<1>1. tdoc[t] \in Docs
  BY DEF Enqueue, SafeInv, ThreadsInv
<1>2. \/ seen[t] = "VALIDATED" /\ ~(tpc[t] = "reenviar")
      \/ seen[t] \in RESENDABLE /\ tpc[t] = "reenviar"
  BY DEF Enqueue, SafeInv, ThreadsInv
<1>3. EnqueueUpdate(tdoc[t], seen[t], tpc[t] = "reenviar")
  BY DEF Enqueue
<1>4. /\ \A e \in Docs :
           \/ invoice'[e] = invoice[e]
           \/ /\ invoice[e].status \in {"VALIDATED", "REJECTED", "ERROR"}
              /\ invoice'[e].status = "QUEUED"
      /\ FreshInv'
  BY <1>1, <1>2, <1>3, EnqueueUpdateFacts
<1>5. HandsInv' /\ OneSender' /\ SettledAsAnswered'
  BY <1>4, RowsOfOthers DEF Enqueue
<1>6. QED
  BY <1>4, <1>5, DoneThreads DEF Enqueue, SafeInv

\* Time, network, administrators and deaths preserve the invariant.
LEMMA SurroundingsStep ==
  ASSUME SafeInv, TypeOK', Surroundings
  PROVE  SafeInv'
<1>1. ASSUME NEW d \in Docs, TimePasses(d)
      PROVE  SafeInv'
  <2>1. /\ invoice' = [invoice EXCEPT ![d].due = TRUE]
        /\ invoice \in [Docs -> Invoice]
        /\ invoice[d].status = "QUEUED"
    BY <1>1 DEF TimePasses, SafeInv, TypeOK
  <2>2. \A e \in Docs : /\ invoice'[e].status = invoice[e].status
                        /\ invoice'[e].attempts = invoice[e].attempts
                        /\ e # d => invoice'[e] = invoice[e]
    BY <2>1 DEF Invoice
  <2>3. HandsInv' /\ OneSender' /\ SettledAsAnswered'
    BY <1>1, <2>1, <2>2, RowsOfOthers DEF TimePasses
  <2>4. FreshInv'
    BY <2>2 DEF SafeInv, FreshInv
  <2>5. QED
    BY <1>1, <2>3, <2>4, ThreadsRest DEF TimePasses, SafeInv
<1>2. ASSUME NetworkChanges \/ \E c \in Companies : Administer(c)
      PROVE  SafeInv'
  <2>1. UNCHANGED <<invoice, agt, pass, request>>
    BY <1>2 DEF NetworkChanges, Administer
  <2>2. HandsInv' /\ OneSender' /\ SettledAsAnswered'
    BY <2>1, RowsOfOthers
  <2>3. FreshInv'
    BY <2>1 DEF SafeInv, FreshInv
  <2>4. QED
    BY <2>1, <2>2, <2>3, ThreadsRest DEF SafeInv
<1>3. ASSUME NEW w \in Workers, WorkerDies(w)
      PROVE  SafeInv'
  <2>1. HandsInv'
    BY <1>3, QueueAssumption DEF WorkerDies, SafeInv, TypeOK, HandsInv, agt
  <2>2. OneSender'
    BY <1>3, QueueAssumption DEF WorkerDies, SafeInv, TypeOK, OneSender, Holds
  <2>3. SettledAsAnswered' /\ FreshInv'
    BY <1>3 DEF WorkerDies, SafeInv, SettledAsAnswered, FreshInv, agt
  <2>4. QED
    BY <1>3, <2>1, <2>2, <2>3, ThreadsRest DEF WorkerDies, SafeInv
<1>4. ASSUME NEW t \in Threads, ThreadDies(t)
      PROVE  SafeInv'
  <2>1. UNCHANGED <<invoice, agt, pass>>
    BY <1>4 DEF ThreadDies
  <2>2. HandsInv' /\ OneSender' /\ SettledAsAnswered'
    BY <2>1, RowsOfOthers
  <2>3. FreshInv'
    BY <2>1 DEF SafeInv, FreshInv
  <2>4. QED
    BY <1>4, <2>2, <2>3, DoneThreads DEF ThreadDies, SafeInv
<1>5. QED
  BY <1>1, <1>2, <1>3, <1>4 DEF Surroundings

\* Between documents a worker relies on nothing.
LEMMA BetweenDocumentsStep ==
  ASSUME SafeInv, TypeOK', NEW w \in Workers,
         \/ StartPass(w)
         \/ \E d \in Docs : SkipClaimed(w, d)
         \/ EndPass(w)
  PROVE  SafeInv'
<1>1. UNCHANGED <<invoice, agt, doc, copy, outcome, request>>
  BY DEF StartPass, SkipClaimed, EndPass
<1>2. /\ pc[w] \notin {"claimed", "loaded", "answered"}
      /\ pc'[w] \notin {"claimed", "loaded", "answered"}
      /\ \A u \in Workers : u # w => pc'[u] = pc[u]
  BY DEF StartPass, SkipClaimed, EndPass, SafeInv, TypeOK
<1>3. HandsInv'
  BY <1>1, <1>2 DEF SafeInv, HandsInv, agt
<1>4. OneSender' /\ SettledAsAnswered' /\ FreshInv'
  BY <1>1 DEF SafeInv, OneSender, Holds, SettledAsAnswered, FreshInv,
              agt
<1>5. QED
  BY <1>1, <1>3, <1>4, ThreadsRest DEF SafeInv

\* The conditional update of process_queue preserves the invariant.
LEMMA ClaimStep ==
  ASSUME SafeInv, TypeOK', NEW w \in Workers, NEW d \in Docs, Claim(w, d)
  PROVE  SafeInv'
<1> DEFINE new == Claimed(invoice[d])
<1>1. /\ invoice' = [invoice EXCEPT ![d] = new]
      /\ invoice \in [Docs -> Invoice]
      /\ invoice[d] \in Invoice
      /\ invoice[d].status = "QUEUED"
  BY DEF Claim, SafeInv, TypeOK
<1>2. new.status = "SENDING"
  BY <1>1, ClaimedFacts
<1> HIDE DEF new
<1>3. \A u \in Workers : ~Holds(u, d)
  BY <1>1 DEF SafeInv, HandsInv, Holds
<1>4. /\ pc' = [pc EXCEPT ![w] = "claimed"]
      /\ doc' = [doc EXCEPT ![w] = d]
      /\ UNCHANGED <<agt, copy, outcome, request>>
      /\ pc \in [Workers -> WorkerPC]
      /\ doc \in [Workers -> Docs \cup {Nobody}]
  BY DEF Claim, SafeInv, TypeOK
<1>5. HandsInv'
  BY <1>1, <1>2, <1>3, <1>4 DEF SafeInv, HandsInv, Holds, agt
<1>6. OneSender'
  BY <1>3, <1>4 DEF SafeInv, OneSender, Holds
<1>7. SettledAsAnswered'
  BY <1>1, <1>2, <1>4 DEF SafeInv, SettledAsAnswered, agt
<1>8. FreshInv'
  BY <1>1, <1>2 DEF SafeInv, FreshInv
<1>9. QED
  BY <1>4, <1>5, <1>6, <1>7, <1>8, ThreadsRest DEF SafeInv

\* Reading the claimed row preserves the invariant.
LEMMA LoadStep ==
  ASSUME SafeInv, TypeOK', NEW w \in Workers, Load(w)
  PROVE  SafeInv'
<1>1. HandsInv'
  BY DEF Load, SafeInv, TypeOK, HandsInv, agt
<1>2. OneSender' /\ SettledAsAnswered' /\ FreshInv'
  BY DEF Load, SafeInv, OneSender, Holds, SettledAsAnswered, FreshInv, agt
<1>3. QED
  BY <1>1, <1>2, ThreadsRest DEF Load, SafeInv

\* The call to the AGT preserves the invariant, whatever it answers.
LEMMA SendStep ==
  ASSUME SafeInv, TypeOK', NEW w \in Workers, Send(w)
  PROVE  SafeInv'
<1>1. /\ doc[w] \in Docs
      /\ invoice[doc[w]].status = "SENDING"
      /\ copy[w] = invoice[doc[w]]
  BY DEF Send, SafeInv, HandsInv
<1>2. PICK answer \in ClientAnswers(CompanyOf[doc[w]]) :
        /\ outcome'  = [outcome EXCEPT ![w] = [result |-> answer.result,
                                               reqid  |-> answer.reqid]]
        /\ answered' = [answered EXCEPT ![doc[w]] =
             IF answer.result \in Final THEN copy[w].version ELSE @]
  BY DEF Send
<1>3. /\ pc' = [pc EXCEPT ![w] = "answered"]
      /\ UNCHANGED <<invoice, doc, copy, request>>
      /\ pc \in [Workers -> WorkerPC]
      /\ pc[w] = "loaded"
      /\ outcome \in [Workers -> [result : Outcome, reqid : BOOLEAN]]
      /\ answered \in [Docs -> Versions \cup {NoVersion}]
  BY DEF Send, SafeInv, TypeOK
<1>4. \A d \in Docs : d # doc[w] => answered'[d] = answered[d]
  BY <1>1, <1>2, <1>3
<1>5. outcome'[w].result \in Final => answered'[doc[w]] = copy[w].version
  BY <1>1, <1>2, <1>3
<1>6. \A u \in Workers : u # w /\ doc[u] \in Docs => doc[u] # doc[w]
  BY <1>1 DEF SafeInv, OneSender, Holds
<1>7. \A u \in Workers : u # w => outcome'[u] = outcome[u] /\ pc'[u] = pc[u]
  BY <1>2, <1>3
<1>8. HandsInv'
  BY <1>1, <1>3, <1>4, <1>5, <1>6, <1>7 DEF SafeInv, HandsInv
<1>9. SettledAsAnswered'
  BY <1>1, <1>3, <1>4 DEF SafeInv, SettledAsAnswered
<1>10. OneSender' /\ FreshInv'
  BY <1>3 DEF SafeInv, OneSender, Holds, FreshInv
<1>11. QED
  BY <1>3, <1>8, <1>9, <1>10, ThreadsRest DEF SafeInv

\* What a save finds and what it writes.
LEMMA SaveFacts ==
  ASSUME SafeInv, NEW w \in Workers, Save(w)
  PROVE  /\ doc[w] \in Docs
         /\ invoice[doc[w]].status = "SENDING"
         /\ \A d \in Docs : d # doc[w] => invoice'[d] = invoice[d]
         /\ invoice'[doc[w]].status \in {"QUEUED", "CONFIRMED", "SENT",
                                         "REJECTED", "ERROR"}
         /\ invoice'[doc[w]].status \in {"CONFIRMED", "SENT", "REJECTED"}
              => answered[doc[w]] = invoice'[doc[w]].version
         /\ invoice'[doc[w]].invalid = invoice[doc[w]].invalid
<1> DEFINE new == AfterSend(copy[w], outcome[w].result, outcome[w].reqid)
<1>1. /\ doc[w] \in Docs
      /\ invoice[doc[w]].status = "SENDING"
      /\ copy[w] = invoice[doc[w]]
      /\ outcome[w].result \in Final => answered[doc[w]] = copy[w].version
  BY DEF Save, SafeInv, HandsInv
<1>2. /\ copy[w] \in Invoice
      /\ outcome[w].result \in Outcome
      /\ outcome[w].reqid \in BOOLEAN
  BY <1>1 DEF SafeInv, TypeOK
<1>3. /\ invoice' = [invoice EXCEPT ![doc[w]] = new]
      /\ invoice \in [Docs -> Invoice]
  BY DEF Save, SafeInv, TypeOK
<1>4. /\ new.status \in {"QUEUED", "CONFIRMED", "SENT", "REJECTED", "ERROR"}
      /\ new.invalid = copy[w].invalid
      /\ new.status \in {"CONFIRMED", "SENT", "REJECTED"}
           => new.version = copy[w].version /\ outcome[w].result \in Final
  BY <1>2, AfterSendFacts
<1> HIDE DEF new
<1>5. QED
  BY <1>1, <1>3, <1>4

\* The unconditional save of _send preserves the invariant.
LEMMA SaveStep ==
  ASSUME SafeInv, TypeOK', NEW w \in Workers, Save(w)
  PROVE  SafeInv'
<1>1. /\ doc[w] \in Docs
      /\ \A d \in Docs : d # doc[w] => invoice'[d] = invoice[d]
      /\ invoice'[doc[w]].status \in {"QUEUED", "CONFIRMED", "SENT",
                                      "REJECTED", "ERROR"}
      /\ invoice'[doc[w]].status \in {"CONFIRMED", "SENT", "REJECTED"}
           => answered[doc[w]] = invoice'[doc[w]].version
  BY SaveFacts
<1>2. /\ pc'[w] \in {"idle", "recover", "pick"}
      /\ doc'[w] = Nobody
      /\ \A u \in Workers : u # w => /\ pc'[u] = pc[u]
                                     /\ doc'[u] = doc[u]
                                     /\ copy'[u] = copy[u]
                                     /\ outcome'[u] = outcome[u]
      /\ UNCHANGED <<agt, request>>
  BY DEF Save, SafeInv, TypeOK
<1>3. \A u \in Workers : u # w /\ doc[u] \in Docs => doc[u] # doc[w]
  BY <1>1 DEF SafeInv, OneSender, Holds
<1>4. HandsInv'
  BY <1>1, <1>2, <1>3, QueueAssumption DEF SafeInv, HandsInv, agt
<1>5. OneSender'
  BY <1>2, QueueAssumption DEF SafeInv, OneSender, Holds
<1>6. SettledAsAnswered'
  BY <1>1, <1>2 DEF SafeInv, SettledAsAnswered, agt
<1>7. FreshInv'
  BY <1>1 DEF SafeInv, FreshInv
<1>8. QED
  BY <1>2, <1>4, <1>5, <1>6, <1>7, ThreadsRest DEF SafeInv

\* Bringing the waiting documents forward preserves the invariant.
LEMMA RecoverStep ==
  ASSUME SafeInv, TypeOK', NEW w \in Workers, Recover(w)
  PROVE  SafeInv'
<1>1. \A d \in Docs : /\ invoice'[d].status = invoice[d].status
                      /\ invoice'[d].version = invoice[d].version
                      /\ invoice'[d].attempts = invoice[d].attempts
                      /\ invoice[d].status = "SENDING"
                           => invoice'[d] = invoice[d]
  BY DEF Recover, Waiting, SafeInv, TypeOK, Invoice
<1>2. /\ pc[w] = "recover"
      /\ pc'[w] = "pick"
      /\ \A u \in Workers : u # w => pc'[u] = pc[u]
      /\ UNCHANGED <<agt, doc, copy, outcome, request>>
  BY DEF Recover, SafeInv, TypeOK
<1>3. HandsInv'
  BY <1>1, <1>2 DEF SafeInv, HandsInv, agt
<1>4. OneSender' /\ SettledAsAnswered' /\ FreshInv'
  BY <1>1, <1>2 DEF SafeInv, OneSender, Holds, SettledAsAnswered,
                    FreshInv, agt
<1>5. QED
  BY <1>2, <1>3, <1>4, ThreadsRest DEF SafeInv

\* A step that changes nothing preserves the invariant.
LEMMA StutterStep ==
  ASSUME SafeInv, UNCHANGED vars
  PROVE  SafeInv'
<1>1. UNCHANGED <<invoice, active, auto_send, network, received, answered, pc,
                  todo, doc, copy, outcome, recovered, tpc, tdoc, seen,
                  crashes>>
  BY DEF vars, settings, agt, pass, request
<1>2. TypeOK'
  BY <1>1 DEF SafeInv, TypeOK
<1>3. HandsInv' /\ OneSender' /\ SettledAsAnswered'
  BY <1>1, RowsOfOthers DEF agt, pass
<1>4. FreshInv'
  BY <1>1 DEF SafeInv, FreshInv
<1>5. QED
  BY <1>1, <1>2, <1>3, <1>4, ThreadsRest DEF SafeInv, request

\* The invariant holds in an empty table.
LEMMA InitSafeInv == Init => SafeInv
<1> SUFFICES ASSUME Init PROVE SafeInv
  OBVIOUS
<1>1. TypeOK
  <2>1. NoOutcome \in [result : Outcome, reqid : BOOLEAN]
    BY DEF NoOutcome, Outcome
  <2>2. 0 \in 0..MaxCrashes
    BY QueueAssumption
  <2>3. QED
    BY <2>1, <2>2, NoInvoiceType
    DEF Init, TypeOK, WorkerPC, ThreadPC, InvoiceStatus
<1>2. HandsInv /\ OneSender
  BY QueueAssumption DEF Init, HandsInv, OneSender, Holds
<1>3. SettledAsAnswered /\ FreshInv
  BY DEF Init, NoInvoice, SettledAsAnswered, FreshInv
<1>4. ThreadsInv
  BY DEF Init, ThreadsInv
<1>5. QED
  BY <1>1, <1>2, <1>3, <1>4 DEF SafeInv

\* Every step of the queue preserves the invariant.
LEMMA NextSafeInv == SafeInv /\ [Next]_vars => SafeInv'
<1> SUFFICES ASSUME SafeInv, [Next]_vars PROVE SafeInv'
  OBVIOUS
<1>1. ASSUME NEW w \in Workers, WorkerStep(w)
      PROVE  SafeInv'
  <2>1. TypeOK'
    BY <1>1, WorkerStepType DEF SafeInv, HandsInv, ThreadsInv, PlacesInv
  <2>2. ASSUME NEW d \in Docs, Claim(w, d) PROVE SafeInv'
    BY <2>1, <2>2, ClaimStep
  <2>3. CASE Load(w)
    BY <2>1, <2>3, LoadStep
  <2>4. CASE Send(w)
    BY <2>1, <2>4, SendStep
  <2>5. CASE Save(w)
    BY <2>1, <2>5, SaveStep
  <2>6. CASE Recover(w)
    BY <2>1, <2>6, RecoverStep
  <2>7. QED
    BY <1>1, <2>1, <2>2, <2>3, <2>4, <2>5, <2>6, BetweenDocumentsStep
    DEF WorkerStep
<1>2. ASSUME NEW t \in Threads, ThreadStep(t)
      PROVE  SafeInv'
  <2>1. TypeOK'
    BY <1>2, ThreadStepType DEF SafeInv
  <2>2. QED
    BY <1>2, <2>1, ImportCommitStep, PressButtonStep, AutoQueueStep,
       EnqueueStep DEF ThreadStep
<1>3. CASE Surroundings
  BY <1>3, SurroundingsType, SurroundingsStep DEF SafeInv
<1>4. CASE UNCHANGED vars
  BY <1>4, StutterStep
<1>5. QED
  BY <1>1, <1>2, <1>3, <1>4 DEF Next

\* No step queues a document without an attempt left, nor counts one more than
\* max_attempts.
LEMMA LimitStep ==
  ASSUME IInv, [Next]_vars
  PROVE  AttemptsWithinLimit'
<1> USE DEF IInv
<1>1. invoice \in [Docs -> Invoice] /\ AttemptsWithinLimit
  BY DEF SafeInv, TypeOK
<1>2. ASSUME NEW w \in Workers, NEW d \in Docs, Claim(w, d)
      PROVE  AttemptsWithinLimit'
  <2> DEFINE new == Claimed(invoice[d])
  <2>1. /\ invoice' = [invoice EXCEPT ![d] = new]
        /\ invoice[d].status = "QUEUED"
    BY <1>2 DEF Claim
  <2>2. new.status = "SENDING" /\ new.attempts = invoice[d].attempts + 1
    BY <1>1, ClaimedFacts
  <2>3. new.attempts \in 1..MaxAttempts
    BY <1>1, <2>1, <2>2, MaxAttemptsAssumption DEF AttemptsWithinLimit, Invoice
  <2> HIDE DEF new
  <2>4. QED
    BY <1>1, <2>1, <2>2, <2>3 DEF AttemptsWithinLimit
<1>3. ASSUME NEW w \in Workers, Save(w)
      PROVE  AttemptsWithinLimit'
  <2> DEFINE new == AfterSend(copy[w], outcome[w].result, outcome[w].reqid)
  <2>1. /\ invoice[doc[w]].status = "SENDING"
        /\ copy[w] = invoice[doc[w]]
        /\ doc[w] \in Docs
    BY <1>3 DEF Save, SafeInv, HandsInv
  <2>2. /\ copy[w].attempts \in 1..MaxAttempts
        /\ copy[w] \in Invoice
        /\ outcome[w].result \in Outcome
        /\ outcome[w].reqid \in BOOLEAN
    BY <1>1, <2>1 DEF SafeInv, TypeOK, AttemptsWithinLimit
  <2>3. /\ new.status # "SENDING"
        /\ new.status = "QUEUED" => new.attempts < MaxAttempts
    BY <2>2, AfterSendFacts
  <2>4. invoice' = [invoice EXCEPT ![doc[w]] = new]
    BY <1>3 DEF Save
  <2> HIDE DEF new
  <2>5. QED
    BY <1>1, <2>1, <2>3, <2>4 DEF AttemptsWithinLimit
<1>4. ASSUME NEW w \in Workers, Recover(w)
      PROVE  AttemptsWithinLimit'
  BY <1>1, <1>4 DEF Recover, Invoice, AttemptsWithinLimit
<1>5. ASSUME NEW t \in Threads, NEW d \in Docs, NEW v \in Versions,
             ImportCommit(t, d, v)
      PROVE  AttemptsWithinLimit'
  <2>1. Saved(invoice[d], v).status \in {"VALIDATED", "ERROR"}
    BY <1>1, SavedFacts
  <2>2. QED
    BY <1>1, <1>5, <2>1 DEF ImportCommit, AttemptsWithinLimit
<1>6. ASSUME NEW t \in Threads, AutoQueue(t) \/ Enqueue(t)
      PROVE  AttemptsWithinLimit'
  <2>1. tdoc[t] \in Docs
    BY <1>6 DEF AutoQueue, Enqueue, SafeInv, ThreadsInv
  <2>2. \A e \in Docs : \/ invoice'[e] = invoice[e]
                        \/ /\ invoice'[e].status = "QUEUED"
                           /\ invoice'[e].attempts = 0
    <3>1. CASE AutoQueue(t) /\ invoice' # invoice
      BY <2>1, <3>1, EnqueueUpdateFacts DEF AutoQueue
    <3>2. CASE Enqueue(t)
      <4>1. \/ seen[t] = "VALIDATED" /\ ~(tpc[t] = "reenviar")
            \/ seen[t] \in RESENDABLE /\ tpc[t] = "reenviar"
        BY <3>2 DEF Enqueue, SafeInv, ThreadsInv
      <4>2. EnqueueUpdate(tdoc[t], seen[t], tpc[t] = "reenviar")
        BY <3>2 DEF Enqueue
      <4>3. QED
        BY <2>1, <4>1, <4>2, EnqueueUpdateFacts
    <3>3. QED
      BY <1>6, <3>1, <3>2
  <2>3. QED
    BY <1>1, <2>2, MaxAttemptsAssumption DEF AttemptsWithinLimit
<1>7. ASSUME NEW d \in Docs, TimePasses(d)
      PROVE  AttemptsWithinLimit'
  BY <1>1, <1>7 DEF TimePasses, Invoice, AttemptsWithinLimit
<1>8. CASE UNCHANGED invoice
  BY <1>1, <1>8 DEF AttemptsWithinLimit
<1>9. QED
  BY <1>2, <1>3, <1>4, <1>5, <1>6, <1>7, <1>8
  DEF Next, vars, WorkerStep, ThreadStep, Surroundings, StartPass, SkipClaimed,
      EndPass, Load, Send, PressEnviar, PressReenviar, PressButton,
      NetworkChanges, Administer, WorkerDies, ThreadDies

-----------------------------------------------------------------------------
(* The safety properties.                                                  *)

\* The inductive invariant holds in every reachable state of the queue.
THEOREM Invariant == Spec => []IInv
<1>1. Init => IInv
  BY InitSafeInv DEF Init, NoInvoice, IInv, AttemptsWithinLimit
<1>2. IInv /\ [Next]_vars => IInv'
  BY NextSafeInv, LimitStep DEF IInv
<1>3. QED
  BY <1>1, <1>2, PTL DEF Spec

\* So does its part that does not count the attempts.
LEMMA SafeAlways == Spec => []SafeInv
  BY InitSafeInv, NextSafeInv, PTL DEF Spec

\* Every process keeps rows, statuses, counters and outcomes in their types.
THEOREM TypeCorrect == Spec => []TypeOK
<1>1. SafeInv => TypeOK
  BY DEF SafeInv
<1>2. QED
  BY <1>1, SafeAlways, PTL

\* However many processes run the queue and whenever they die, two of them
\* never have the same document in hand.
THEOREM NeverTwoSenders == Spec => []OneSender
<1>1. SafeInv => OneSender
  BY DEF SafeInv
<1>2. QED
  BY <1>1, SafeAlways, PTL

\* A document shown as settled has the content the AGT answered for.
THEOREM AnswersMatchContents == Spec => []SettledAsAnswered
<1>1. SafeInv => SettledAsAnswered
  BY DEF SafeInv
<1>2. QED
  BY <1>1, SafeAlways, PTL

\* The count of the attempts never exceeds max_attempts while a document is sent, and is
\* below it while one is queued (agt/queue.py, _claim, _send and _retry).  A failure of
\* the network takes its attempt off the count, so that sends themselves are unbounded.
THEOREM AttemptsBounded == Spec => []AttemptsWithinLimit
<1>1. IInv => AttemptsWithinLimit
  BY DEF IInv
<1>2. QED
  BY <1>1, Invariant, PTL

-----------------------------------------------------------------------------
(* What a step may do to a row and to the hands of the workers: exactly    *)
(* what Delivery allows.                                                   *)

SameHands == \A w \in Workers : doc'[w] = doc[w]

Untouched(d) == invoice'[d] = invoice[d]

\* Another process than a sender changes a row that nobody is sending.
Changed(d) ==
  /\ invoice'[d].status = invoice[d].status
  /\ invoice[d].status \notin {"SENDING", "SENT", "CONFIRMED"}

Received(d) ==
  /\ invoice[d].status \in {"ABSENT", "VALIDATED", "QUEUED", "ERROR"}
  /\ invoice'[d].status \in {"VALIDATED", "ERROR"}

Queued(d) ==
  /\ invoice[d].status \in {"VALIDATED", "REJECTED", "ERROR"}
  /\ invoice'[d].status = "QUEUED"

Taken(w, d) ==
  /\ invoice[d].status = "QUEUED" /\ invoice'[d].status = "SENDING"
  /\ \A u \in Workers : doc[u] # d
  /\ doc'[w] = d /\ doc[w] \notin Docs

Concluded(w, d) ==
  /\ invoice[d].status = "SENDING"
  /\ invoice'[d].status \in {"QUEUED", "CONFIRMED", "SENT", "REJECTED", "ERROR"}
  /\ pc[w] = "answered"
  /\ doc[w] = d /\ doc'[w] \notin Docs

OthersHands(w) == \A u \in Workers : u # w => doc'[u] = doc[u]

OthersRows(d) == \A e \in Docs : e # d => Untouched(e)

StepKind ==
  \/ SameHands /\ \A d \in Docs : Untouched(d) \/ Changed(d)
  \/ \E d \in Docs : SameHands /\ OthersRows(d) /\ (Received(d) \/ Queued(d))
  \/ \E w \in Workers, d \in Docs :
       OthersHands(w) /\ OthersRows(d) /\ (Taken(w, d) \/ Concluded(w, d))
  \/ \E w \in Workers :
       /\ doc[w] \in Docs /\ doc'[w] \notin Docs
       /\ OthersHands(w)
       /\ \A d \in Docs : Untouched(d)

\* What a queueing thread may do to the table, seen from Delivery.
LEMMA EnqueueKind ==
  ASSUME SafeInv, NEW d \in Docs, NEW status \in {"VALIDATED", "REJECTED", "ERROR"},
         NEW force \in BOOLEAN, EnqueueUpdate(d, status, force), SameHands
  PROVE  StepKind
<1>1. invoice \in [Docs -> Invoice] /\ invoice[d] \in Invoice
  BY DEF SafeInv, TypeOK
<1>2. CASE invoice[d].status = status
  <2>1. Enqueued(invoice[d], force).status = "QUEUED"
    BY <1>1, EnqueuedFacts
  <2>2. invoice' = [invoice EXCEPT ![d] = Enqueued(invoice[d], force)]
    BY <1>2 DEF EnqueueUpdate
  <2>3. OthersRows(d) /\ Queued(d)
    BY <1>1, <1>2, <2>1, <2>2 DEF OthersRows, Untouched, Queued
  <2>4. QED
    BY <2>3 DEF StepKind
<1>3. CASE invoice[d].status # status
  BY <1>3 DEF EnqueueUpdate, StepKind, Untouched
<1>4. QED
  BY <1>2, <1>3

\* What a worker may do to the table and to who holds what.
LEMMA WorkerStepKind ==
  ASSUME SafeInv, NEW w \in Workers, WorkerStep(w)
  PROVE  StepKind
<1>1. ASSUME UNCHANGED <<invoice, doc>>
      PROVE  StepKind
  BY <1>1 DEF StepKind, SameHands, Untouched
<1>2. ASSUME NEW d \in Docs, Claim(w, d)
      PROVE  StepKind
  <2>1. invoice \in [Docs -> Invoice] /\ invoice[d] \in Invoice
    BY DEF SafeInv, TypeOK
  <2>2. Claimed(invoice[d]).status = "SENDING"
    BY <2>1, ClaimedFacts
  <2>3. OthersRows(d) /\ OthersHands(w)
    BY <1>2, <2>1 DEF Claim, OthersRows, Untouched, OthersHands, SafeInv, TypeOK
  <2>4. doc[w] \notin Docs /\ \A u \in Workers : doc[u] # d
    BY <1>2 DEF Claim, SafeInv, HandsInv
  <2>5. Taken(w, d)
    BY <1>2, <2>1, <2>2, <2>4 DEF Claim, Taken, SafeInv, TypeOK
  <2>6. QED
    BY <2>3, <2>5 DEF StepKind
<1>3. CASE Save(w)
  <2>1. OthersRows(doc[w]) /\ OthersHands(w)
    BY <1>3, SaveFacts DEF Save, OthersRows, Untouched, OthersHands, SafeInv, TypeOK
  <2>2. Concluded(w, doc[w])
    BY <1>3, SaveFacts, QueueAssumption DEF Save, Concluded, SafeInv, TypeOK
  <2>3. doc[w] \in Docs
    BY <1>3, SaveFacts
  <2>4. QED
    BY <2>1, <2>2, <2>3 DEF StepKind
<1>4. CASE Recover(w)
  <2>1. \A d \in Docs : Untouched(d) \/ Changed(d)
    BY <1>4 DEF Recover, Waiting, Untouched, Changed, SafeInv, TypeOK, Invoice
  <2>2. SameHands
    BY <1>4 DEF Recover, SameHands
  <2>3. QED
    BY <2>1, <2>2 DEF StepKind
<1>5. QED
  BY <1>1, <1>2, <1>3, <1>4
  DEF WorkerStep, StartPass, SkipClaimed, EndPass, Load, Send

\* What a thread may do to the table: it never touches a document in hand.
LEMMA ThreadStepKind ==
  ASSUME SafeInv, NEW t \in Threads, ThreadStep(t)
  PROVE  StepKind
<1>1. SameHands
  BY DEF ThreadStep, ImportCommit, PressEnviar, PressReenviar, PressButton,
         AutoQueue, Enqueue, SameHands, pass
<1>2. ASSUME NEW d \in Docs, NEW v \in Versions, ImportCommit(t, d, v)
      PROVE  StepKind
  <2>1. invoice \in [Docs -> Invoice] /\ invoice[d] \in Invoice
    BY DEF SafeInv, TypeOK
  <2>2. Saved(invoice[d], v).status \in {"VALIDATED", "ERROR"}
    BY <2>1, SavedFacts
  <2>3. invoice[d].status \in {"ABSENT", "VALIDATED", "QUEUED", "ERROR"}
    BY <1>2, <2>1 DEF ImportCommit, WasCommunicated, Invoice, InvoiceStatus
  <2>4. OthersRows(d) /\ Received(d)
    BY <1>2, <2>1, <2>2, <2>3 DEF ImportCommit, OthersRows, Untouched, Received
  <2>5. QED
    BY <1>1, <2>4 DEF StepKind
<1>3. ASSUME UNCHANGED invoice
      PROVE  StepKind
  BY <1>1, <1>3 DEF StepKind, Untouched
<1>4. CASE AutoQueue(t)
  <2>1. tdoc[t] \in Docs
    BY <1>4 DEF AutoQueue, SafeInv, ThreadsInv
  <2>2. QED
    BY <1>1, <1>3, <1>4, <2>1, EnqueueKind DEF AutoQueue
<1>5. CASE Enqueue(t)
  <2>1. /\ tdoc[t] \in Docs
        /\ seen[t] \in {"VALIDATED", "REJECTED", "ERROR"}
    BY <1>5 DEF Enqueue, SafeInv, ThreadsInv, RESENDABLE
  <2>2. EnqueueUpdate(tdoc[t], seen[t], tpc[t] = "reenviar")
    BY <1>5 DEF Enqueue
  <2>3. QED
    BY <1>1, <2>1, <2>2, EnqueueKind
<1>6. QED
  BY <1>2, <1>3, <1>4, <1>5
  DEF ThreadStep, PressEnviar, PressReenviar, PressButton

\* What the surroundings may do: bring an instant, or let a worker die.
LEMMA SurroundingsKind ==
  ASSUME SafeInv, Surroundings
  PROVE  StepKind
<1>1. ASSUME NEW d \in Docs, TimePasses(d)
      PROVE  StepKind
  <2>1. SameHands
    BY <1>1 DEF TimePasses, SameHands, pass
  <2>2. \A e \in Docs : Untouched(e) \/ Changed(e)
    BY <1>1 DEF TimePasses, Untouched, Changed, SafeInv, TypeOK, Invoice
  <2>3. QED
    BY <2>1, <2>2 DEF StepKind
<1>2. ASSUME UNCHANGED <<invoice, doc>>
      PROVE  StepKind
  BY <1>2 DEF StepKind, SameHands, Untouched
<1>3. ASSUME NEW w \in Workers, WorkerDies(w)
      PROVE  StepKind
  <2>1. /\ doc'[w] \notin Docs
        /\ OthersHands(w)
        /\ \A d \in Docs : Untouched(d)
    BY <1>3, QueueAssumption
    DEF WorkerDies, OthersHands, Untouched, SafeInv, TypeOK
  <2>2. CASE doc[w] \in Docs
    BY <2>1, <2>2 DEF StepKind
  <2>3. CASE doc[w] \notin Docs
    <3>1. doc' = doc
      BY <1>3, <2>3 DEF WorkerDies, SafeInv, TypeOK
    <3>2. QED
      BY <1>2, <1>3, <3>1 DEF WorkerDies
  <2>4. QED
    BY <2>2, <2>3
<1>4. QED
  BY <1>1, <1>2, <1>3
  DEF Surroundings, NetworkChanges, Administer, ThreadDies, pass

\* Every step is of one of these kinds.
LEMMA EveryStepKind == SafeInv /\ [Next]_vars => StepKind
<1> SUFFICES ASSUME SafeInv, [Next]_vars PROVE StepKind
  OBVIOUS
<1>1. CASE UNCHANGED vars
  BY <1>1 DEF vars, pass, StepKind, SameHands, Untouched
<1>2. QED
  BY <1>1, WorkerStepKind, ThreadStepKind, SurroundingsKind DEF Next

\* A row in SENDING changes only by the save of the worker that holds it.
THEOREM OnlyTheSender == Spec => OnlyTheSenderSettles
<1>1. SafeInv /\ [Next]_vars =>
        [\A d \in Docs :
           invoice[d].status = "SENDING" /\ invoice'[d] # invoice[d]
             => \E w \in Workers :
                  Holds(w, d) /\ pc[w] = "answered" /\ doc'[w] # d]_vars
  BY EveryStepKind
  DEF StepKind, Untouched, Changed, Received, Queued, Taken, Concluded,
      OthersRows, Holds
<1>2. QED
  BY <1>1, SafeAlways, PTL DEF Spec, OnlyTheSenderSettles

\* What the AGT accepted or took in never changes again in the Gateway.
THEOREM AcceptedForGood == Spec => AcceptedIsFinal
<1>1. SafeInv /\ [Next]_vars =>
        [\A d \in Docs : invoice[d].status \in {"SENT", "CONFIRMED"}
                           => invoice'[d] = invoice[d]]_vars
  BY EveryStepKind
  DEF StepKind, Untouched, Changed, Received, Queued, Taken, Concluded,
      OthersRows
<1>2. QED
  BY <1>1, SafeAlways, PTL DEF Spec, AcceptedIsFinal

-----------------------------------------------------------------------------
(* The queue implements Delivery.                                          *)

\* Every step of the queue is a step of Delivery or leaves it as it is.
LEMMA DeliveryStep ==
  ASSUME SafeInv, StepKind
  PROVE  [D!DeliveryNext]_(D!DeliveryVars)
<1> USE DEF StatusOf, SendersOf, D!DeliveryVars
<1>1. CASE SameHands /\ \A d \in Docs : Untouched(d) \/ Changed(d)
  <2>1. UNCHANGED <<StatusOf, SendersOf>>
    BY <1>1 DEF SameHands, Untouched, Changed
  <2>2. QED
    BY <2>1
<1>2. ASSUME NEW d \in Docs, SameHands, OthersRows(d), Received(d) \/ Queued(d)
      PROVE  D!DeliveryNext
  <2>1. SendersOf' = SendersOf
    BY <1>2 DEF SameHands
  <2>2. StatusOf' = [StatusOf EXCEPT ![d] = invoice'[d].status]
    BY <1>2 DEF OthersRows, Untouched
  <2>3. CASE Received(d)
    BY <2>1, <2>2, <2>3 DEF Received, D!DeliveryNext, D!Receive
  <2>4. CASE Queued(d)
    BY <2>1, <2>2, <2>4 DEF Queued, D!DeliveryNext, D!Queue
  <2>5. QED
    BY <1>2, <2>3, <2>4
<1>3. ASSUME NEW w \in Workers, NEW d \in Docs, OthersHands(w), OthersRows(d),
             Taken(w, d)
      PROVE  D!DeliveryNext
  <2>1. StatusOf' = [StatusOf EXCEPT ![d] = "SENDING"]
    BY <1>3 DEF OthersRows, Untouched, Taken
  <2>2. SendersOf[d] = {} /\ StatusOf[d] = "QUEUED"
    BY <1>3 DEF Taken
  <2>3. ASSUME NEW e \in Docs
        PROVE  SendersOf'[e] = [SendersOf EXCEPT ![d] = {w}][e]
    <3>1. \A u \in Workers : u # w => doc'[u] = doc[u]
      BY <1>3 DEF OthersHands
    <3>2. doc'[w] = d /\ doc[w] # e /\ \A u \in Workers : doc[u] # d
      BY <1>3 DEF Taken
    <3>3. QED
      BY <3>1, <3>2
  <2>4. SendersOf' = [SendersOf EXCEPT ![d] = {w}]
    BY <2>3
  <2>5. D!Take(w, d)
    BY <2>1, <2>2, <2>4 DEF D!Take
  <2>6. QED
    BY <2>5 DEF D!DeliveryNext
<1>4. ASSUME NEW w \in Workers, NEW d \in Docs, doc[w] = d, doc'[w] \notin Docs,
             OthersHands(w)
      PROVE  SendersOf[d] = {w} /\ SendersOf' = [SendersOf EXCEPT ![d] = {}]
  <2>1. \A u \in Workers : doc[u] = d => u = w
    BY <1>4 DEF SafeInv, OneSender, Holds
  <2>2. SendersOf[d] = {w}
    BY <1>4, <2>1
  <2>3. \A u \in Workers : u # w => doc'[u] = doc[u]
    BY <1>4 DEF OthersHands
  <2>4. ASSUME NEW e \in Docs
        PROVE  SendersOf'[e] = [SendersOf EXCEPT ![d] = {}][e]
    BY <1>4, <2>1, <2>3
  <2>5. QED
    BY <2>2, <2>4
<1>5. ASSUME NEW w \in Workers, NEW d \in Docs, OthersHands(w), OthersRows(d),
             Concluded(w, d)
      PROVE  D!DeliveryNext
  <2>1. StatusOf' = [StatusOf EXCEPT ![d] = invoice'[d].status]
    BY <1>5 DEF OthersRows, Untouched
  <2>2. SendersOf[d] = {w} /\ SendersOf' = [SendersOf EXCEPT ![d] = {}]
    BY <1>4, <1>5 DEF Concluded
  <2>3. D!Conclude(w, d)
    BY <1>5, <2>1, <2>2 DEF Concluded, D!Conclude
  <2>4. QED
    BY <2>3 DEF D!DeliveryNext
<1>6. ASSUME NEW w \in Workers, NEW d \in Docs, doc[w] = d, doc'[w] \notin Docs,
             OthersHands(w), \A e \in Docs : Untouched(e)
      PROVE  D!DeliveryNext
  <2>1. StatusOf' = StatusOf
    BY <1>6 DEF Untouched
  <2>2. D!Disappear(w, d)
    BY <1>4, <1>6, <2>1 DEF D!Disappear
  <2>3. QED
    BY <2>2 DEF D!DeliveryNext
<1>7. QED
  BY <1>1, <1>2, <1>3, <1>5, <1>6 DEF StepKind

\* Every behaviour of the queue, seen through the statuses of the documents
\* and the hands of the workers, is a behaviour of Delivery.
THEOREM Implements == Spec => DeliversAsPromised
<1>1. Init => D!DeliveryInit
  BY QueueAssumption DEF Init, NoInvoice, D!DeliveryInit, StatusOf, SendersOf
<1>2. SafeInv /\ [Next]_vars => [D!DeliveryNext]_(D!DeliveryVars)
  BY EveryStepKind, DeliveryStep
<1>3. QED
  BY <1>1, <1>2, SafeAlways, PTL DEF Spec, DeliversAsPromised, D!DeliverySpec

-----------------------------------------------------------------------------
(* As long as nobody resends.                                              *)

\* A document that enqueue may take, or has taken, has no validation errors.
ValidInv ==
  \A d \in Docs : invoice[d].status \in {"VALIDATED", "QUEUED", "SENDING"}
                    => ~invoice[d].invalid

\* Without reenviar every step keeps what is queued valid.
LEMMA ValidStep ==
  ASSUME "reenviar" \notin Buttons, SafeInv, ValidInv, [Next]_vars,
         \A t \in Threads : tpc[t] # "reenviar"
  PROVE  ValidInv' /\ \A t \in Threads : tpc'[t] # "reenviar"
<1>1. \A t \in Threads : tpc'[t] # "reenviar"
  BY DEF SafeInv, TypeOK, Next, vars, WorkerStep, ThreadStep, Surroundings,
     StartPass, Claim, SkipClaimed, EndPass, Load, Send, Save, Recover,
     ImportCommit, PressEnviar, PressReenviar, PressButton, AutoQueue, Enqueue,
     Done, TimePasses, NetworkChanges, Administer, WorkerDies, ThreadDies,
     request
<1>2. ASSUME UNCHANGED invoice
      PROVE  ValidInv'
  BY <1>2 DEF ValidInv
<1>3. ASSUME NEW w \in Workers, WorkerStep(w)
      PROVE  ValidInv'
  <2>1. ASSUME NEW d \in Docs, Claim(w, d)
        PROVE  ValidInv'
    BY <2>1, ClaimedFacts DEF Claim, ValidInv, SafeInv, TypeOK
  <2>2. CASE Save(w)
    BY <2>2, SaveFacts DEF ValidInv
  <2>3. CASE Recover(w)
    BY <2>3 DEF Recover, ValidInv, SafeInv, TypeOK, Invoice
  <2>4. QED
    BY <1>2, <1>3, <2>1, <2>2, <2>3
    DEF WorkerStep, StartPass, SkipClaimed, EndPass, Load, Send
<1>4. ASSUME NEW t \in Threads, ThreadStep(t)
      PROVE  ValidInv'
  <2>1. ASSUME NEW d \in Docs, NEW v \in Versions, ImportCommit(t, d, v)
        PROVE  ValidInv'
    BY <2>1, SavedFacts DEF ImportCommit, ValidInv, SafeInv, TypeOK
  <2>2. ASSUME tdoc[t] \in Docs, seen[t] = "VALIDATED",
               EnqueueUpdate(tdoc[t], seen[t], FALSE)
        PROVE  ValidInv'
    <3>1. invoice \in [Docs -> Invoice] /\ invoice[tdoc[t]] \in Invoice
      BY <2>2 DEF SafeInv, TypeOK
    <3>2. Enqueued(invoice[tdoc[t]], FALSE).invalid = invoice[tdoc[t]].invalid
      BY <3>1, EnqueuedFacts
    <3>3. CASE invoice[tdoc[t]].status = "VALIDATED"
      BY <2>2, <3>1, <3>2, <3>3 DEF EnqueueUpdate, ValidInv
    <3>4. CASE invoice[tdoc[t]].status # "VALIDATED"
      BY <1>2, <2>2, <3>4 DEF EnqueueUpdate
    <3>5. QED
      BY <3>3, <3>4
  <2>3. CASE AutoQueue(t)
    BY <1>2, <2>2, <2>3 DEF AutoQueue, SafeInv, ThreadsInv
  <2>4. CASE Enqueue(t)
    <3>1. tpc[t] = "enviar" /\ (tpc[t] = "reenviar") = FALSE
      BY <2>4 DEF Enqueue
    <3>2. QED
      BY <2>2, <2>4, <3>1 DEF Enqueue, SafeInv, ThreadsInv
  <2>5. QED
    BY <1>2, <1>4, <2>1, <2>3, <2>4
    DEF ThreadStep, PressEnviar, PressReenviar, PressButton
<1>5. ASSUME Surroundings
      PROVE  ValidInv'
  <2>1. ASSUME NEW d \in Docs, TimePasses(d)
        PROVE  ValidInv'
    BY <2>1 DEF TimePasses, ValidInv, SafeInv, TypeOK, Invoice
  <2>2. QED
    BY <1>2, <1>5, <2>1
    DEF Surroundings, NetworkChanges, Administer, WorkerDies, ThreadDies
<1>6. QED
  BY <1>1, <1>2, <1>3, <1>4, <1>5 DEF Next, vars

\* Where nobody uses "reenviar", what is queued or being sent has passed
\* validation, whatever is imported meanwhile.  (With "reenviar" it is not so.)
THEOREM FirstSendIsValid == "reenviar" \notin Buttons /\ Spec => []QueuedIsValid
<1> DEFINE Inv == SafeInv /\ ValidInv /\ \A t \in Threads : tpc[t] # "reenviar"
<1> SUFFICES ASSUME "reenviar" \notin Buttons PROVE Spec => []QueuedIsValid
  OBVIOUS
<1>1. Init => Inv
  BY InitSafeInv DEF Init, NoInvoice, ValidInv
<1>2. Inv /\ [Next]_vars => Inv'
  BY NextSafeInv, ValidStep
<1>3. Inv => QueuedIsValid
  BY DEF ValidInv, QueuedIsValid
<1>4. QED
  BY <1>1, <1>2, <1>3, PTL DEF Spec

=============================================================================
