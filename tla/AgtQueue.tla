------------------------------ MODULE AgtQueue ------------------------------
(***************************************************************************)
(* The queue that sends documents to the tax authority (AGT), with         *)
(* everything that runs against it at the same time:                       *)
(*                                                                         *)
(*   Workers  processes inside process_queue: the scheduler thread, the    *)
(*            management command process_agt_queue, the panel's "run the   *)
(*            queue" button.  Each works through its own list of           *)
(*            candidates on its own copies of the rows.                    *)
(*   Threads  processes that import documents (API request, sync) or serve *)
(*            the panel's buttons "enviar" and "reenviar".  They look at a *)
(*            row and act on it later.                                     *)
(*                                                                         *)
(* Every database statement is one step; a transaction is one step; the    *)
(* call to the AGT is one step.  Any process may die between two steps.    *)
(*                                                                         *)
(* The AGT is external: "received" and "answered" record what it got and   *)
(* what it gave its last final answer for.                                 *)
(***************************************************************************)
EXTENDS Invoices, FiniteSets

CONSTANTS
  Docs,           \* source documents (company, source_system, id)
  Companies,
  CompanyOf,      \* the company of each document
  Simulated,      \* companies whose environment is SIMULATION
  Workers,
  Periodic,       \* the workers that are the scheduler of run_gateway
  Threads,
  Buttons,        \* the buttons somebody uses, of "enviar" and "reenviar"
  Nobody,         \* no document
  Limit,          \* the limit argument of process_queue
  MaxCrashes      \* bound: how many processes may die in a behaviour

ASSUME QueueAssumption ==
  /\ CompanyOf \in [Docs -> Companies]
  /\ Simulated \subseteq Companies
  /\ Periodic \subseteq Workers
  /\ Buttons \subseteq {"enviar", "reenviar"}
  /\ Nobody \notin Docs
  /\ Limit \in Nat \ {0}
  /\ MaxCrashes \in Nat

VARIABLES
  invoice,        \* the table: one row per document
  active,         \* Company.active
  auto_send,      \* AgtConfiguration.auto_send
  network,        \* the AGT can be reached and answers within the timeout
  received,       \* AGT: the contents that reached it, per document
  answered,       \* AGT: the content of its last ACCEPTED/PENDING/REJECTED
  pc,             \* where each worker is
  todo,           \* candidates the worker has still to look at
  doc,            \* the document the worker has in hand
  copy,           \* the worker's in-memory copy of the row
  outcome,        \* [result, reqid] of the worker's last send
  recovered,      \* stats.network_recovered of the worker's pass
  tpc,            \* where each thread is
  tdoc,           \* the document the thread has in hand
  seen,           \* the status in the thread's in-memory copy of the row
  crashes

rows     == <<invoice>>
settings == <<active, auto_send, network>>
agt      == <<received, answered>>
pass     == <<pc, todo, doc, copy, outcome, recovered>>
request  == <<tpc, tdoc, seen>>
vars     == <<invoice, settings, agt, pass, request, crashes>>

WorkerPC == {"idle", "pick", "claimed", "loaded", "answered", "recover"}
\* "revalidar" is a button of OperatorQueue.
ThreadPC == {"idle", "auto", "enviar", "reenviar", "revalidar"}

NoOutcome == [result |-> "FATAL", reqid |-> FALSE]

TypeOK ==
  /\ invoice   \in [Docs -> Invoice]
  /\ active    \in [Companies -> BOOLEAN]
  /\ auto_send \in [Companies -> BOOLEAN]
  /\ network   \in BOOLEAN
  /\ received  \in [Docs -> SUBSET (Versions \cup {NoVersion})]
  /\ answered  \in [Docs -> Versions \cup {NoVersion}]
  /\ pc        \in [Workers -> WorkerPC]
  /\ todo      \in [Workers -> SUBSET Docs]
  /\ doc       \in [Workers -> Docs \cup {Nobody}]
  /\ copy      \in [Workers -> Invoice]
  /\ outcome   \in [Workers -> [result : Outcome, reqid : BOOLEAN]]
  /\ recovered \in [Workers -> BOOLEAN]
  /\ tpc       \in [Threads -> ThreadPC]
  /\ tdoc      \in [Threads -> Docs \cup {Nobody}]
  /\ seen      \in [Threads -> InvoiceStatus]
  /\ crashes   \in 0..MaxCrashes

Init ==
  /\ invoice   = [d \in Docs |-> NoInvoice]
  /\ active    = [c \in Companies |-> TRUE]
  /\ auto_send \in [Companies -> BOOLEAN]
  /\ network   = TRUE
  /\ received  = [d \in Docs |-> {}]
  /\ answered  = [d \in Docs |-> NoVersion]
  /\ pc        = [w \in Workers |-> "idle"]
  /\ todo      = [w \in Workers |-> {}]
  /\ doc       = [w \in Workers |-> Nobody]
  /\ copy      = [w \in Workers |-> NoInvoice]
  /\ outcome   = [w \in Workers |-> NoOutcome]
  /\ recovered = [w \in Workers |-> FALSE]
  /\ tpc       = [t \in Threads |-> "idle"]
  /\ tdoc      = [t \in Threads |-> Nobody]
  /\ seen      = [t \in Threads |-> "ABSENT"]
  /\ crashes   = 0

-----------------------------------------------------------------------------
(* The worker: process_queue and _send.                                    *)

\* Slip: documents that wait for the network are left out.
CandidatesNotWaiting(scope) ==
  {d \in Docs : /\ invoice[d].status = "QUEUED"
                /\ invoice[d].due
                /\ ~invoice[d].netwait
                /\ CompanyOf[d] \in scope
                /\ active[CompanyOf[d]]}

\* The candidates at the instant the pass starts, for one company or for all.
\* A pass takes at most Limit of them; which ones come first (the order of
\* next_attempt_at) is left open.
Candidates(scope) ==
  {d \in Docs : /\ invoice[d].status = "QUEUED"
                /\ invoice[d].due
                /\ CompanyOf[d] \in scope
                /\ active[CompanyOf[d]]}

IsBatch(S, candidates) ==
  /\ S \subseteq candidates
  /\ \/ S = candidates
     \/ Cardinality(S) = Limit
  /\ Cardinality(S) <= Limit

\* The scheduler runs the queue of every company; the panel that of its own,
\* the command either.
Scopes(w) ==
  {Companies} \cup (IF w \in Periodic THEN {} ELSE {{c} : c \in Companies})

StartPass(w) ==
  /\ pc[w] = "idle"
  /\ \E scope \in Scopes(w) :
       \E S \in SUBSET Candidates(scope) :
         /\ S # {}
         /\ IsBatch(S, Candidates(scope))
         /\ todo' = [todo EXCEPT ![w] = S]
  /\ pc' = [pc EXCEPT ![w] = "pick"]
  /\ UNCHANGED <<invoice, settings, agt, doc, copy, outcome, recovered,
                 request, crashes>>

\* Slip: the claim does not look at the status again.
ClaimUnchecked(w, d) ==
  /\ pc[w] = "pick"
  /\ d \in todo[w]
  /\ invoice' = [invoice EXCEPT ![d] = Claimed(@)]
  /\ pc'   = [pc EXCEPT ![w] = "claimed"]
  /\ todo' = [todo EXCEPT ![w] = @ \ {d}]
  /\ doc'  = [doc EXCEPT ![w] = d]
  /\ UNCHANGED <<settings, agt, copy, outcome, recovered, request, crashes>>

\* UPDATE ... SET status = SENDING WHERE status = QUEUED reserved the row.
Claim(w, d) ==
  /\ pc[w] = "pick"
  /\ d \in todo[w]
  /\ invoice[d].status = "QUEUED"
  /\ invoice' = [invoice EXCEPT ![d] = Claimed(@)]
  /\ pc'   = [pc EXCEPT ![w] = "claimed"]
  /\ todo' = [todo EXCEPT ![w] = @ \ {d}]
  /\ doc'  = [doc EXCEPT ![w] = d]
  /\ UNCHANGED <<settings, agt, copy, outcome, recovered, request, crashes>>

\* The same UPDATE matched no row: another process has it; next candidate.
SkipClaimed(w, d) ==
  /\ pc[w] = "pick"
  /\ d \in todo[w]
  /\ invoice[d].status # "QUEUED"
  /\ todo' = [todo EXCEPT ![w] = @ \ {d}]
  /\ UNCHANGED <<invoice, settings, agt, pc, doc, copy, outcome, recovered,
                 request, crashes>>

EndPass(w) ==
  /\ pc[w] = "pick"
  /\ todo[w] = {}
  /\ pc' = [pc EXCEPT ![w] = "idle"]
  /\ recovered' = [recovered EXCEPT ![w] = FALSE]
  /\ UNCHANGED <<invoice, settings, agt, todo, doc, copy, outcome, request,
                 crashes>>

\* Invoice.objects.get(pk): a read of its own, after the claim.
Load(w) ==
  /\ pc[w] = "claimed"
  /\ copy' = [copy EXCEPT ![w] = invoice[doc[w]]]
  /\ pc'   = [pc EXCEPT ![w] = "loaded"]
  /\ UNCHANGED <<invoice, settings, agt, todo, doc, outcome, recovered,
                 request, crashes>>

\* What client.send can come to, for a document of company c: the contract of
\* Outcome.  The simulated client accepts everything and talks to nobody.  The
\* real one is not written yet (OfficialAgtClient gives only FATAL, until the
\* official specification is there); the queue is built, and tested with
\* stand-ins, for all the outcomes.  A final answer means that the AGT has the
\* document; after a timeout or a 5xx it may have it all the same.
ClientAnswers(c) ==
  IF c \in Simulated
  THEN [result : {"ACCEPTED"}, reqid : {TRUE}, arrived : {FALSE}]
  ELSE   [result : {"RETRY"}, reqid : {FALSE}, arrived : BOOLEAN]
    \cup [result : {"FATAL"}, reqid : {FALSE}, arrived : {FALSE}]
    \cup IF network
         THEN [result : Final, reqid : BOOLEAN, arrived : {TRUE}]
         ELSE [result : {"NETWORK"}, reqid : {FALSE}, arrived : BOOLEAN]

\* client.send on the copy.
Send(w) ==
  LET d == doc[w]
  IN  /\ pc[w] = "loaded"
      /\ \E answer \in ClientAnswers(CompanyOf[d]) :
           /\ outcome'  = [outcome EXCEPT ![w] = [result |-> answer.result,
                                                  reqid  |-> answer.reqid]]
           /\ received' = [received EXCEPT ![d] =
                @ \cup (IF answer.arrived THEN {copy[w].version} ELSE {})]
           /\ answered' = [answered EXCEPT ![d] =
                IF answer.result \in Final THEN copy[w].version ELSE @]
      /\ pc' = [pc EXCEPT ![w] = "answered"]
      /\ UNCHANGED <<invoice, settings, todo, doc, copy, recovered, request,
                     crashes>>

\* invoice.save(): every field of the copy, whatever the row holds by now.
\* A NETWORK answer ends the pass; otherwise the first answer of a real AGT
\* brings the documents waiting for the network forward.
Save(w) ==
  LET d      == doc[w]
      result == outcome[w].result
  IN  /\ pc[w] = "answered"
      /\ invoice' = [invoice EXCEPT ![d] =
                       AfterSend(copy[w], result, outcome[w].reqid)]
      /\ pc' = [pc EXCEPT ![w] =
                  IF result = "NETWORK" THEN "idle"
                  ELSE IF ~recovered[w] /\ CompanyOf[d] \notin Simulated
                       THEN "recover" ELSE "pick"]
      /\ todo' = IF result = "NETWORK" THEN [todo EXCEPT ![w] = {}] ELSE todo
      /\ recovered' = [recovered EXCEPT ![w] = @ /\ result # "NETWORK"]
      /\ doc'  = [doc EXCEPT ![w] = Nobody]
      /\ copy' = [copy EXCEPT ![w] = NoInvoice]
      /\ outcome' = [outcome EXCEPT ![w] = NoOutcome]
      /\ UNCHANGED <<settings, agt, request, crashes>>

\* Every queued document that waits for the network, of every company.
Waiting == {d \in Docs : invoice[d].status = "QUEUED" /\ invoice[d].netwait}

Recover(w) ==
  /\ pc[w] = "recover"
  /\ invoice' = [d \in Docs |-> IF d \in Waiting
                                THEN [invoice[d] EXCEPT !.due = TRUE]
                                ELSE invoice[d]]
  /\ recovered' = [recovered EXCEPT ![w] = Waiting # {}]
  /\ pc' = [pc EXCEPT ![w] = "pick"]
  /\ UNCHANGED <<settings, agt, todo, doc, copy, outcome, request, crashes>>

-----------------------------------------------------------------------------
(* Importing threads and the panel's buttons.                              *)

\* Slip: only a new document is offered to the queue after the commit.
ImportCommitQueuesNew(t, d, v) ==
  /\ tpc[t] = "idle"
  /\ invoice[d].version # v
  /\ ~WasCommunicated(invoice[d])
  /\ invoice' = [invoice EXCEPT ![d] = Saved(@, v)]
  /\ IF invoice[d].status = "ABSENT"
     THEN /\ tpc'  = [tpc EXCEPT ![t] = "auto"]
          /\ tdoc' = [tdoc EXCEPT ![t] = d]
          /\ seen' = [seen EXCEPT ![t] = invoice'[d].status]
     ELSE UNCHANGED request
  /\ UNCHANGED <<settings, agt, pass, crashes>>

\* import_document: the transaction.  Equal data is a duplicate and other
\* data for a communicated document a conflict; neither changes anything.
ImportCommit(t, d, v) ==
  /\ tpc[t] = "idle"
  /\ invoice[d].version # v
  /\ ~WasCommunicated(invoice[d])
  /\ invoice' = [invoice EXCEPT ![d] = Saved(@, v)]
  /\ tpc'  = [tpc EXCEPT ![t] = "auto"]
  /\ tdoc' = [tdoc EXCEPT ![t] = d]
  /\ seen' = [seen EXCEPT ![t] = invoice'[d].status]
  /\ UNCHANGED <<settings, agt, pass, crashes>>

\* Slip: the row is queued whatever became of it since the caller saw it.
EnqueueAnyway(d, status, force) ==
  invoice' = [invoice EXCEPT ![d] = Enqueued(@, force)]

\* The conditional UPDATE of enqueue: only a row that still has the status
\* the caller saw is queued.
EnqueueUpdate(d, status, force) ==
  invoice' = IF invoice[d].status = status
             THEN [invoice EXCEPT ![d] = Enqueued(@, force)]
             ELSE invoice

\* The thread is done with its request.
Done(t) ==
  /\ tpc'  = [tpc EXCEPT ![t] = "idle"]
  /\ tdoc' = [tdoc EXCEPT ![t] = Nobody]
  /\ seen' = [seen EXCEPT ![t] = "ABSENT"]

\* After the commit, outside the transaction: enqueue_if_auto.
AutoQueue(t) ==
  /\ tpc[t] = "auto"
  /\ IF seen[t] = "VALIDATED" /\ auto_send[CompanyOf[tdoc[t]]]
     THEN EnqueueUpdate(tdoc[t], seen[t], FALSE)
     ELSE UNCHANGED invoice
  /\ Done(t)
  /\ UNCHANGED <<settings, agt, pass, crashes>>

\* The panel reads the row and finds that the button applies: no validation
\* errors, and a status that enqueue allows.  A refusal changes nothing.
PressButton(t, d, button, allowed) ==
  /\ button \in Buttons
  /\ tpc[t] = "idle"
  /\ ~invoice[d].invalid
  /\ invoice[d].status \in allowed
  /\ tpc'  = [tpc EXCEPT ![t] = button]
  /\ tdoc' = [tdoc EXCEPT ![t] = d]
  /\ seen' = [seen EXCEPT ![t] = invoice[d].status]
  /\ UNCHANGED <<invoice, settings, agt, pass, crashes>>

PressEnviar(t, d)   == PressButton(t, d, "enviar", {"VALIDATED"})
PressReenviar(t, d) == PressButton(t, d, "reenviar", RESENDABLE)

\* Slip: resending keeps the attempts already spent.
EnqueueNoReset(t) ==
  /\ tpc[t] \in {"enviar", "reenviar"}
  /\ EnqueueUpdate(tdoc[t], seen[t], FALSE)
  /\ Done(t)
  /\ UNCHANGED <<settings, agt, pass, crashes>>

\* enqueue, on the status the panel read: only resending starts counting anew.
Enqueue(t) ==
  /\ tpc[t] \in {"enviar", "reenviar"}
  /\ EnqueueUpdate(tdoc[t], seen[t], tpc[t] = "reenviar")
  /\ Done(t)
  /\ UNCHANGED <<settings, agt, pass, crashes>>

-----------------------------------------------------------------------------
(* The surroundings.                                                       *)

\* next_attempt_at comes.
TimePasses(d) ==
  /\ invoice[d].status = "QUEUED"
  /\ ~invoice[d].due
  /\ invoice' = [invoice EXCEPT ![d].due = TRUE]
  /\ UNCHANGED <<settings, agt, pass, request, crashes>>

NetworkChanges ==
  /\ network' = ~network
  /\ UNCHANGED <<invoice, active, auto_send, agt, pass, request, crashes>>

\* An administrator (de)activates the company or edits its configuration.
Administer(c) ==
  /\ \/ /\ active' = [active EXCEPT ![c] = ~@]
        /\ UNCHANGED auto_send
     \/ /\ auto_send' = [auto_send EXCEPT ![c] = ~@]
        /\ UNCHANGED active
  /\ UNCHANGED <<invoice, network, agt, pass, request, crashes>>

\* A process dies, or an exception (a locked database, say) leaves the pass:
\* what it had in memory is gone, what it wrote stays.
WorkerDies(w) ==
  /\ pc[w] # "idle"
  /\ crashes < MaxCrashes
  /\ crashes' = crashes + 1
  /\ pc'      = [pc EXCEPT ![w] = "idle"]
  /\ todo'    = [todo EXCEPT ![w] = {}]
  /\ doc'     = [doc EXCEPT ![w] = Nobody]
  /\ copy'    = [copy EXCEPT ![w] = NoInvoice]
  /\ outcome' = [outcome EXCEPT ![w] = NoOutcome]
  /\ recovered' = [recovered EXCEPT ![w] = FALSE]
  /\ UNCHANGED <<invoice, settings, agt, request>>

ThreadDies(t) ==
  /\ tpc[t] # "idle"
  /\ crashes < MaxCrashes
  /\ crashes' = crashes + 1
  /\ Done(t)
  /\ UNCHANGED <<invoice, settings, agt, pass>>

-----------------------------------------------------------------------------

WorkerStep(w) ==
  \/ StartPass(w)
  \/ \E d \in Docs : Claim(w, d) \/ SkipClaimed(w, d)
  \/ EndPass(w)
  \/ Load(w)
  \/ Send(w)
  \/ Save(w)
  \/ Recover(w)

ThreadStep(t) ==
  \/ \E d \in Docs, v \in Versions : ImportCommit(t, d, v)
  \/ \E d \in Docs : PressEnviar(t, d) \/ PressReenviar(t, d)
  \/ AutoQueue(t)
  \/ Enqueue(t)

Surroundings ==
  \/ \E d \in Docs : TimePasses(d)
  \/ NetworkChanges
  \/ \E c \in Companies : Administer(c)
  \/ \E w \in Workers : WorkerDies(w)
  \/ \E t \in Threads : ThreadDies(t)

Next ==
  \/ \E w \in Workers : WorkerStep(w)
  \/ \E t \in Threads : ThreadStep(t)
  \/ Surroundings

Spec == Init /\ [][Next]_vars

\* What the running program guarantees: a process in the middle of a request
\* or of a pass goes on, the scheduler thread starts a pass every two minutes,
\* and instants come.  Nobody has to press a button, to administer or to die.
Fairness ==
  /\ \A w \in Workers : WF_vars(pc[w] # "idle" /\ WorkerStep(w))
  /\ \A w \in Periodic : WF_vars(StartPass(w))
  /\ \A t \in Threads : WF_vars(AutoQueue(t) \/ Enqueue(t))
  /\ \A d \in Docs : WF_vars(TimePasses(d))

FairSpec == Spec /\ Fairness

-----------------------------------------------------------------------------
(* The promise of Delivery, with the worker that has a document in hand as *)
(* its sender.                                                             *)

StatusOf  == [d \in Docs |-> invoice[d].status]
SendersOf == [d \in Docs |-> {w \in Workers : doc[w] = d}]

D == INSTANCE Delivery WITH status <- StatusOf, senders <- SendersOf

\* The queue, with all its processes and their deaths, implements Delivery.
DeliversAsPromised == D!DeliverySpec

-----------------------------------------------------------------------------
(* What must hold.                                                         *)

\* The worker has reserved the document and has not written its result yet.
Holds(w, d) == doc[w] = d

\* Two processes never send the same document: between the claim and the
\* save at most one worker has it in hand (the conditional UPDATE of
\* process_queue; the saves of _send are unconditional).
OneSender ==
  \A d \in Docs : \A w1, w2 \in Workers :
    Holds(w1, d) /\ Holds(w2, d) => w1 = w2

\* A document shown as sent, validated or rejected by the AGT has the very
\* content for which the AGT gave its last final answer, although the
\* content is saved from one process and the answer from another.
SettledAsAnswered ==
  \A d \in Docs : invoice[d].status \in {"SENT", "CONFIRMED", "REJECTED"}
                    => answered[d] = invoice[d].version

\* The count of the attempts keeps within max_attempts: a queued document always has
\* one left and that in course is one of the allowed ones.  A network failure gives
\* its attempt back (queue.py:129), so that sends are not bounded, only their count is.
AttemptsWithinLimit ==
  \A d \in Docs :
    /\ invoice[d].status = "QUEUED"  => invoice[d].attempts < MaxAttempts
    /\ invoice[d].status = "SENDING" => invoice[d].attempts \in 1..MaxAttempts

\* A document that stopped in SENDING is never sent again by itself: its row
\* leaves SENDING, or changes at all, only when the worker that holds it
\* writes the answer.
OnlyTheSenderSettles ==
  [][\A d \in Docs :
       invoice[d].status = "SENDING" /\ invoice'[d] # invoice[d]
         => \E w \in Workers : Holds(w, d) /\ pc[w] = "answered" /\ doc'[w] # d]_vars

\* What the AGT accepted, or took in for later validation, stays as it is in
\* the Gateway: no later import, button or late save touches the row.
AcceptedIsFinal ==
  [][\A d \in Docs : invoice[d].status \in {"SENT", "CONFIRMED"}
                       => invoice'[d] = invoice[d]]_vars

\* Stopped while it was being sent, by the death of its worker.
Interrupted(d) ==
  invoice[d].status = "SENDING" /\ \A w \in Workers : ~Holds(w, d)

\* Once the network and the companies stay up, no queued document waits for
\* ever: it gets an answer, is replaced by new data, or needs an operator.
QueuedIsServed ==
  <>[](network /\ \A c \in Companies : active[c]) =>
    \A d \in Docs : invoice[d].status = "QUEUED"
                      ~> invoice[d].status \notin {"QUEUED", "SENDING"}
                         \/ Interrupted(d)

\* With automatic sending on, a validated document goes to the queue without
\* anybody's help (agt/models.py: "Coloca na fila de envio os documentos
\* validados").
ValidatedIsQueued ==
  \A d \in Docs :
    [](auto_send[CompanyOf[d]])
      => (invoice[d].status = "VALIDATED" ~> invoice[d].status # "VALIDATED")

\* The same as long as no process dies: automatic sending reaches documents
\* imported for the first time and documents imported again.
ValidatedIsQueuedUndisturbed == [](crashes = 0) => ValidatedIsQueued

\* A document with validation errors is never in the queue or on its way
\* (enqueue: "corrija-o na origem antes de enviar").
QueuedIsValid ==
  \A d \in Docs : invoice[d].status \in {"QUEUED", "SENDING"}
                    => ~invoice[d].invalid

\* The data of a document that may have reached the AGT is never replaced
\* (was_communicated: "Ja saiu (ou pode ter saido) para a AGT: os dados
\* deixam de poder ser substituidos").
MayHaveLeftIsFrozen ==
  [][\A d \in Docs : received[d] # {}
                       => invoice'[d].version = invoice[d].version]_vars

\* Once the AGT has answered for a document, its content never changes
\* (invoices/services.py: "Um documento ja comunicado a AGT nunca e
\* alterado").
CommunicatedNeverAltered ==
  [][\A d \in Docs : answered[d] # NoVersion
                       => invoice'[d].version = invoice[d].version]_vars

-----------------------------------------------------------------------------
(* Why it holds: the inductive invariant.                                  *)

\* Between the claim and the save the row stays in SENDING, exactly as the
\* worker loaded it, and a final answer was given for that content.
HandsInv ==
  \A w \in Workers :
    /\ doc[w] \in Docs <=> pc[w] \in {"claimed", "loaded", "answered"}
    /\ doc[w] \in Docs => invoice[doc[w]].status = "SENDING"
    /\ pc[w] \in {"loaded", "answered"} => copy[w] = invoice[doc[w]]
    /\ pc[w] = "answered" /\ outcome[w].result \in Final
         => answered[doc[w]] = copy[w].version

\* A validated document has spent no attempt.
FreshInv ==
  \A d \in Docs : invoice[d].status = "VALIDATED" => invoice[d].attempts = 0

\* A thread that will queue its document saw it in a status that allows it.
ThreadsInv ==
  \A t \in Threads :
    /\ tpc[t] # "revalidar"
    /\ tpc[t] # "idle" => tdoc[t] \in Docs
    /\ tpc[t] = "enviar" => seen[t] = "VALIDATED"
    /\ tpc[t] = "reenviar" => seen[t] \in RESENDABLE

\* What every step of the queue preserves: the safety properties together
\* with what the processes in the middle of something rely on.
SafeInv ==
  /\ TypeOK
  /\ HandsInv
  /\ OneSender
  /\ SettledAsAnswered
  /\ FreshInv
  /\ ThreadsInv

\* The same with the count of the attempts, which an operator who unlocks
\* documents may exceed (OperatorQueue).
IInv == SafeInv /\ AttemptsWithinLimit

=============================================================================
