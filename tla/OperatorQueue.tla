--------------------------- MODULE OperatorQueue ----------------------------
(***************************************************************************)
(* The queue of AgtQueue with the two buttons by which an operator steps   *)
(* into the life of a document: "revalidar" (validate again a document     *)
(* that was not communicated) and "desbloquear" (return to the queue a     *)
(* document that stopped in SENDING).                                      *)
(***************************************************************************)
EXTENDS AgtQueue

CONSTANTS
  OperatorButtons,  \* those in use, of "revalidar" and "desbloquear"
  FutureDated,      \* contents that are only invalid until their date comes
  CarefulOperator   \* "desbloquear" only when the sender is really gone

ASSUME OperatorAssumption ==
  /\ OperatorButtons \subseteq {"revalidar", "desbloquear"}
  /\ FutureDated \subseteq BadVersions
  /\ CarefulOperator \in BOOLEAN

VARIABLE judged     \* the verdict a revalidating thread reached: invalid?

opVars == <<vars, judged>>

OperatorTypeOK ==
  /\ TypeOK
  /\ judged \in [Threads -> BOOLEAN]

OperatorInit ==
  /\ Init
  /\ judged = [t \in Threads |-> FALSE]

-----------------------------------------------------------------------------

\* validate_document, today: a date in the future may have come.
Verdict(v) ==
  IF v \in FutureDated THEN BOOLEAN ELSE {v \in BadVersions}

\* revalidate, up to its verdict: the row and its lines are read and judged.
PressRevalidar(t, d) ==
  /\ "revalidar" \in OperatorButtons
  /\ tpc[t] = "idle"
  /\ invoice[d].status # "ABSENT"
  /\ ~WasCommunicated(invoice[d])
  /\ \E bad \in Verdict(invoice[d].version) :
       judged' = [judged EXCEPT ![t] = bad]
  /\ tpc'  = [tpc EXCEPT ![t] = "revalidar"]
  /\ tdoc' = [tdoc EXCEPT ![t] = d]
  /\ seen' = [seen EXCEPT ![t] = invoice[d].status]
  /\ UNCHANGED <<invoice, settings, agt, pass, crashes>>

\* What the save of revalidate writes, whatever the row holds by now.
Revalidated(inv, bad) ==
  [inv EXCEPT !.invalid = bad,
              !.status  = IF bad THEN "ERROR" ELSE "VALIDATED"]

RevalidateSave(t) ==
  LET d == tdoc[t]
  IN  /\ tpc[t] = "revalidar"
      /\ invoice' = [invoice EXCEPT ![d] = Revalidated(@, judged[t])]
      /\ tpc'    = [tpc EXCEPT ![t] = "auto"]
      /\ seen'   = [seen EXCEPT ![t] = invoice'[d].status]
      /\ judged' = [judged EXCEPT ![t] = FALSE]
      /\ UNCHANGED <<settings, agt, pass, tdoc, crashes>>

\* requeue_stuck: one conditional UPDATE.  It does not ask for how long the
\* document has been in SENDING: the page offers the button after half an
\* hour, and whether the sender is gone is for the operator to find out.
PressDesbloquear(d) ==
  /\ "desbloquear" \in OperatorButtons
  /\ invoice[d].status = "SENDING"
  /\ CarefulOperator => Interrupted(d)
  /\ invoice' = [invoice EXCEPT ![d] = Requeued(@)]
  /\ UNCHANGED <<settings, agt, pass, request, judged, crashes>>

OperatorNext ==
  \/ Next /\ UNCHANGED judged
  \/ \E t \in Threads, d \in Docs : PressRevalidar(t, d)
  \/ \E t \in Threads : RevalidateSave(t)
  \/ \E d \in Docs : PressDesbloquear(d)

OperatorSpec == OperatorInit /\ [][OperatorNext]_opVars

-----------------------------------------------------------------------------

\* The one thing that moves an interrupted document is an operator who
\* unlocks it: no pass, import or other button takes it out of SENDING.
InterruptedWaitsForOperator ==
  [][\A d \in Docs :
       Interrupted(d) => invoice'[d] = invoice[d]
                         \/ invoice'[d] = Requeued(invoice[d])]_opVars

=============================================================================
