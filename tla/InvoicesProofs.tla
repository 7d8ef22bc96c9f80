--------------------------- MODULE InvoicesProofs ---------------------------
(***************************************************************************)
(* Lemmas about the rewrites of Invoices: rows stay rows, and what each    *)
(* rewrite leaves in the fields.  The proofs about the queue and about the *)
(* synchronisation cite them.                                              *)
(***************************************************************************)
EXTENDS Invoices, TLAPS

\* The row of a document that was never imported is a row.
LEMMA NoInvoiceType == NoInvoice \in Invoice
  BY DEF NoInvoice, Invoice, InvoiceStatus

\* What _save leaves in the row of an import.
LEMMA SavedFacts ==
  ASSUME NEW inv \in Invoice, NEW v \in Versions
  PROVE  /\ Saved(inv, v) \in Invoice
         /\ Saved(inv, v).status \in {"VALIDATED", "ERROR"}
         /\ Saved(inv, v).status = "VALIDATED" => ~Saved(inv, v).invalid
         /\ Saved(inv, v).attempts = inv.attempts
<1>1. CASE v \in BadVersions
  <2>1. (v \in BadVersions) = TRUE
    BY <1>1
  <2>2. Saved(inv, v) = [inv EXCEPT !.version = v, !.invalid = TRUE,
                                    !.status = "ERROR"]
    BY <2>1, Zenon DEF Saved
  <2>3. QED
    BY <2>2 DEF Invoice, InvoiceStatus
<1>2. CASE v \notin BadVersions
  <2>1. (v \in BadVersions) = FALSE
    BY <1>2
  <2>2. Saved(inv, v) = [inv EXCEPT !.version = v, !.invalid = FALSE,
                                    !.status = "VALIDATED"]
    BY <2>1, Zenon DEF Saved
  <2>3. QED
    BY <2>2 DEF Invoice, InvoiceStatus
<1>3. QED
  BY <1>1, <1>2

\* What a save without content leaves in the row.
LEMMA SavedNothingType ==
  ASSUME NEW inv \in Invoice
  PROVE  Saved(inv, NoVersion) \in Invoice
<1>1. (NoVersion \in BadVersions) = FALSE
  BY VersionsAssumption
<1>2. Saved(inv, NoVersion) = [inv EXCEPT !.version = NoVersion,
                                 !.invalid = FALSE, !.status = "VALIDATED"]
  BY <1>1, Zenon DEF Saved
<1>3. QED
  BY <1>2 DEF Invoice, InvoiceStatus

\* What the update of enqueue leaves in the row.
LEMMA EnqueuedFacts ==
  ASSUME NEW inv \in Invoice, NEW force \in BOOLEAN
  PROVE  /\ Enqueued(inv, force) \in Invoice
         /\ Enqueued(inv, force).status = "QUEUED"
         /\ Enqueued(inv, force).version = inv.version
         /\ Enqueued(inv, force).invalid = inv.invalid
         /\ Enqueued(inv, force).attempts = IF force THEN 0 ELSE inv.attempts
  BY DEF Enqueued, Invoice, InvoiceStatus

\* What the claim of process_queue leaves in the row.
LEMMA ClaimedFacts ==
  ASSUME NEW inv \in Invoice
  PROVE  /\ Claimed(inv) \in Invoice
         /\ Claimed(inv).status = "SENDING"
         /\ Claimed(inv).attempts = inv.attempts + 1
         /\ Claimed(inv).invalid = inv.invalid
<1>1. inv.attempts + 1 \in Nat
  BY DEF Invoice
<1>2. QED
  BY <1>1 DEF Claimed, Invoice, InvoiceStatus

\* What _send leaves in the row after an answer that ends the sending.
LEMMA AfterAnswerFacts ==
  ASSUME NEW inv \in Invoice, NEW s \in InvoiceStatus
  PROVE  /\ AfterAnswer(inv, s) \in Invoice
         /\ AfterAnswer(inv, s).status = s
         /\ AfterAnswer(inv, s).version = inv.version
         /\ AfterAnswer(inv, s).invalid = inv.invalid
         /\ AfterAnswer(inv, s).attempts = inv.attempts
  BY DEF AfterAnswer, Invoice

\* What _send leaves in the row when the AGT could not be reached.
LEMMA AfterNetworkFacts ==
  ASSUME NEW inv \in Invoice
  PROVE  /\ AfterNetwork(inv) \in Invoice
         /\ AfterNetwork(inv).status = "QUEUED"
         /\ AfterNetwork(inv).version = inv.version
         /\ AfterNetwork(inv).invalid = inv.invalid
         /\ inv.attempts > 1 => AfterNetwork(inv).attempts > 0
         /\ inv.attempts \in 1..MaxAttempts
              => AfterNetwork(inv).attempts < MaxAttempts
<1> DEFINE fewer == IF inv.attempts = 0 THEN 0 ELSE inv.attempts - 1
<1>1. /\ fewer \in Nat
      /\ inv.attempts > 1 => fewer > 0
      /\ inv.attempts \in 1..MaxAttempts => fewer < MaxAttempts
  BY MaxAttemptsAssumption DEF Invoice
<1>2. AfterNetwork(inv) = [inv EXCEPT !.status = "QUEUED", !.attempts = fewer,
                                      !.netwait = TRUE, !.due = FALSE]
  BY DEF AfterNetwork, Invoice
<1> HIDE DEF fewer
<1>3. QED
  BY <1>1, <1>2 DEF Invoice, InvoiceStatus

\* What _send leaves in the row after a temporary failure.
LEMMA AfterRetryFacts ==
  ASSUME NEW inv \in Invoice
  PROVE  /\ AfterRetry(inv) \in Invoice
         /\ AfterRetry(inv).status \in {"QUEUED", "ERROR"}
         /\ AfterRetry(inv).version = inv.version
         /\ AfterRetry(inv).invalid = inv.invalid
         /\ AfterRetry(inv).attempts = inv.attempts
         /\ AfterRetry(inv).status = "QUEUED"
              => AfterRetry(inv).attempts < MaxAttempts
<1>1. CASE inv.attempts < MaxAttempts
  <2>1. AfterRetry(inv) = [inv EXCEPT !.status = "QUEUED", !.netwait = FALSE,
                                      !.due = FALSE]
    BY <1>1 DEF AfterRetry
  <2>2. QED
    BY <1>1, <2>1 DEF Invoice, InvoiceStatus
<1>2. CASE ~(inv.attempts < MaxAttempts)
  <2>1. AfterRetry(inv) = AfterAnswer(inv, "ERROR")
    BY <1>2 DEF AfterRetry
  <2>2. QED
    BY <2>1, AfterAnswerFacts DEF InvoiceStatus
<1>3. QED
  BY <1>1, <1>2

\* The row a save writes after a send, for every answer of the client.
LEMMA AfterSendFacts ==
  ASSUME NEW inv \in Invoice, NEW result \in Outcome, NEW reqid \in BOOLEAN
  PROVE  LET after == AfterSend(inv, result, reqid)
         IN  /\ after \in Invoice
             /\ after.status \in {"QUEUED", "CONFIRMED", "SENT", "REJECTED",
                                  "ERROR"}
             /\ after.version = inv.version
             /\ after.invalid = inv.invalid
             /\ result # "NETWORK" => after.attempts = inv.attempts
             /\ inv.attempts > 1 => after.attempts > 0
             /\ inv.attempts \in 1..MaxAttempts /\ after.status = "QUEUED"
                  => after.attempts < MaxAttempts
             /\ after.status \in {"CONFIRMED", "SENT", "REJECTED"}
                  => result \in Final
<1> DEFINE row == [inv EXCEPT !.reqid = inv.reqid \/ reqid]
<1>1. /\ row \in Invoice
      /\ row.version = inv.version
      /\ row.invalid = inv.invalid
      /\ row.attempts = inv.attempts
      /\ inv.attempts \in Nat
  BY DEF Invoice
<1> HIDE DEF row
<1>2. CASE result = "NETWORK"
  <2>1. AfterSend(inv, result, reqid) = AfterNetwork(row)
    BY <1>2 DEF AfterSend, row
  <2>2. QED
    BY <2>1, <1>1, <1>2, AfterNetworkFacts
<1>3. CASE result = "RETRY"
  <2>1. AfterSend(inv, result, reqid) = AfterRetry(row)
    BY <1>3 DEF AfterSend, row
  <2>2. QED
    BY <2>1, <1>1, <1>3, AfterRetryFacts
<1>4. ASSUME NEW s \in {"CONFIRMED", "SENT", "REJECTED", "ERROR"},
             AfterSend(inv, result, reqid) = AfterAnswer(row, s),
             s # "ERROR" => result \in Final,
             result # "NETWORK"
      PROVE  LET after == AfterSend(inv, result, reqid)
             IN  /\ after \in Invoice
                 /\ after.status \in {"QUEUED", "CONFIRMED", "SENT",
                                      "REJECTED", "ERROR"}
                 /\ after.version = inv.version
                 /\ after.invalid = inv.invalid
                 /\ result # "NETWORK" => after.attempts = inv.attempts
                 /\ inv.attempts > 1 => after.attempts > 0
                 /\ inv.attempts \in 1..MaxAttempts /\ after.status = "QUEUED"
                      => after.attempts < MaxAttempts
                 /\ after.status \in {"CONFIRMED", "SENT", "REJECTED"}
                      => result \in Final
  <2>1. s \in InvoiceStatus
    BY DEF InvoiceStatus
  <2>2. QED
    BY <2>1, <1>1, <1>4, AfterAnswerFacts
<1>5. CASE result = "ACCEPTED"
  <2>1. AfterSend(inv, result, reqid) = AfterAnswer(row, "CONFIRMED")
    BY <1>5 DEF AfterSend, row
  <2>2. QED
    BY <2>1, <1>4, <1>5 DEF Final
<1>6. CASE result = "PENDING"
  <2>1. AfterSend(inv, result, reqid) = AfterAnswer(row, "SENT")
    BY <1>6 DEF AfterSend, row
  <2>2. QED
    BY <2>1, <1>4, <1>6 DEF Final
<1>7. CASE result = "REJECTED"
  <2>1. AfterSend(inv, result, reqid) = AfterAnswer(row, "REJECTED")
    BY <1>7 DEF AfterSend, row
  <2>2. QED
    BY <2>1, <1>4, <1>7 DEF Final
<1>8. CASE result = "FATAL"
  <2>1. AfterSend(inv, result, reqid) = AfterAnswer(row, "ERROR")
    BY <1>8 DEF AfterSend, row
  <2>2. QED
    BY <2>1, <1>4, <1>8
<1>9. QED
  BY <1>2, <1>3, <1>5, <1>6, <1>7, <1>8 DEF Outcome

\* What is left in the row of a document that was queued, claimed and accepted.
LEMMA CommunicatedFacts ==
  ASSUME NEW inv \in Invoice
  PROVE  LET after == AfterSend(Claimed(Enqueued(inv, FALSE)), "ACCEPTED", TRUE)
         IN  after \in Invoice /\ after.status # "ABSENT"
<1>1. Claimed(Enqueued(inv, FALSE)) \in Invoice
  BY EnqueuedFacts, ClaimedFacts
<1>2. "ACCEPTED" \in Outcome
  BY DEF Outcome
<1>3. QED
  BY <1>1, <1>2, AfterSendFacts

=============================================================================
