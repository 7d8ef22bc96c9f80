------------------------------ MODULE Invoices ------------------------------
(***************************************************************************)
(* One row of the table invoices_invoice and the ways the code rewrites    *)
(* it.  Every operator of this module is a pure function of a row: which   *)
(* process calls it, when, and on how old a copy of the row, is the        *)
(* business of AgtQueue and of the modules built on it.                    *)
(*                                                                         *)
(* The document itself (header, lines, totals) is abstracted to a version: *)
(* two payloads of the same source document are the same version exactly   *)
(* when their fingerprints (content_hash) are equal.  Instants are         *)
(* abstracted to what the code asks of them: next_attempt_at to "due"      *)
(* (null or not after now), network_wait_since to "netwait" (not null).    *)
(***************************************************************************)
EXTENDS Naturals

CONSTANTS
  Versions,       \* the contents a source document can have
  BadVersions,    \* those that validate_document refuses
  NoVersion,      \* the content of a row that does not exist yet
  MaxAttempts     \* AgtConfiguration.max_attempts

ASSUME VersionsAssumption ==
  /\ BadVersions \subseteq Versions
  /\ NoVersion \notin Versions

\* The form accepts 1..20 attempts (agt/models.py, MinValueValidator(1)).
ASSUME MaxAttemptsAssumption == MaxAttempts \in Nat \ {0}

-----------------------------------------------------------------------------

\* PENDING and IMPORTED are declared in the source and never assigned;
\* ABSENT stands for "no such row".
InvoiceStatus == {"ABSENT", "VALIDATED", "QUEUED", "SENDING", "SENT",
                  "CONFIRMED", "REJECTED", "ERROR"}

Invoice == [status   : InvoiceStatus,
            version  : Versions \cup {NoVersion},
            invalid  : BOOLEAN,    \* validation_errors is not empty
            attempts : Nat,        \* send_attempts
            reqid    : BOOLEAN,    \* agt_request_id is not empty
            netwait  : BOOLEAN,    \* network_wait_since is not null
            due      : BOOLEAN]    \* next_attempt_at is null or has come

NoInvoice == [status |-> "ABSENT", version |-> NoVersion, invalid |-> FALSE,
              attempts |-> 0, reqid |-> FALSE, netwait |-> FALSE,
              due |-> TRUE]

\* Answers of the AGT client; NETWORK is also what _send makes of an OSError,
\* RETRY what it makes of any other exception.
Outcome == {"ACCEPTED", "PENDING", "REJECTED", "RETRY", "NETWORK", "FATAL"}

\* The answers after which the AGT has the document.
Final == {"ACCEPTED", "PENDING", "REJECTED"}

\* Slip: a document taken in for later validation may be sent again.
ResendableWithSent == {"REJECTED", "ERROR", "SENT"}

RESENDABLE == {"REJECTED", "ERROR"}

\* Slips: only a request number counts, or only an answer.
CommunicatedByRequest(inv) == inv.reqid

CommunicatedByAnswer(inv) ==
  inv.reqid \/ inv.status \in {"SENT", "CONFIRMED", "REJECTED"}

\* The document left, or may have left, for the tax authority.
WasCommunicated(inv) ==
  \/ inv.reqid
  \/ inv.attempts > 0
  \/ inv.status \in {"SENDING", "SENT", "CONFIRMED", "REJECTED"}

-----------------------------------------------------------------------------
(* The rewrites.                                                           *)

\* Slip: the row is marked as imported and nobody validates it.
SavedAsImported(inv, v) ==
  [inv EXCEPT !.version = v, !.status = "IMPORTED"]

\* _save: the content is replaced and validated again; the fields of the
\* communication are kept as they are.
Saved(inv, v) ==
  [inv EXCEPT !.version = v,
              !.invalid = v \in BadVersions,
              !.status  = IF v \in BadVersions THEN "ERROR" ELSE "VALIDATED"]

\* The conditional UPDATE of enqueue.
Enqueued(inv, force) ==
  [inv EXCEPT !.status   = "QUEUED",
              !.due      = TRUE,
              !.attempts = IF force THEN 0 ELSE @]

\* The conditional UPDATE by which process_queue reserves a document.
Claimed(inv) ==
  [inv EXCEPT !.status = "SENDING", !.attempts = @ + 1]

\* What _send does with the answer, by outcome.
AfterNetwork(inv) ==
  [inv EXCEPT !.status   = "QUEUED",
              !.attempts = IF @ = 0 THEN 0 ELSE @ - 1,
              !.netwait  = TRUE,
              !.due      = FALSE]

AfterAnswer(inv, final) ==
  [inv EXCEPT !.status = final, !.netwait = FALSE, !.due = TRUE]

\* Slip: one attempt too many.
AfterRetryOneMore(inv) ==
  IF inv.attempts <= MaxAttempts
  THEN [inv EXCEPT !.status = "QUEUED", !.netwait = FALSE, !.due = FALSE]
  ELSE AfterAnswer(inv, "ERROR")

AfterRetry(inv) ==
  IF inv.attempts < MaxAttempts
  THEN [inv EXCEPT !.status = "QUEUED", !.netwait = FALSE, !.due = FALSE]
  ELSE AfterAnswer(inv, "ERROR")

\* An empty request_id in the answer leaves the stored one alone.
AfterSend(inv, outcome, reqid) ==
  LET answered == [inv EXCEPT !.reqid = @ \/ reqid]
  IN  CASE outcome = "NETWORK"  -> AfterNetwork(answered)
        [] outcome = "ACCEPTED" -> AfterAnswer(answered, "CONFIRMED")
        [] outcome = "PENDING"  -> AfterAnswer(answered, "SENT")
        [] outcome = "REJECTED" -> AfterAnswer(answered, "REJECTED")
        [] outcome = "RETRY"    -> AfterRetry(answered)
        [] outcome = "FATAL"    -> AfterAnswer(answered, "ERROR")

\* The operator returns an interrupted document to the queue.
Requeued(inv) ==
  [inv EXCEPT !.status = "QUEUED", !.due = TRUE]

=============================================================================
