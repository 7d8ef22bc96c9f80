------------------------------ MODULE Delivery ------------------------------
(***************************************************************************)
(* What the sending queue promises, without saying how: the life of a      *)
(* document as the header of agt/queue.py draws it, and who may send it.   *)
(*                                                                         *)
(*   - a document is sent by at most one worker at a time, and only from   *)
(*     the queue;                                                          *)
(*   - only the worker that took it decides what became of it;             *)
(*   - if that worker disappears, the document stays in SENDING;           *)
(*   - what the AGT accepted or took in is never touched again.            *)
(*                                                                         *)
(* AgtQueue implements this specification.                                 *)
(***************************************************************************)
CONSTANTS Docs, Workers

VARIABLES
  status,         \* of each document
  senders         \* the workers that have it in hand

DeliveryVars == <<status, senders>>

DeliveryInit ==
  /\ status  = [d \in Docs |-> "ABSENT"]
  /\ senders = [d \in Docs |-> {}]

\* New data from the source, before the document is sent.
Receive(d) ==
  /\ status[d] \in {"ABSENT", "VALIDATED", "QUEUED", "ERROR"}
  /\ \E s \in {"VALIDATED", "ERROR"} : status' = [status EXCEPT ![d] = s]
  /\ UNCHANGED senders

Queue(d) ==
  /\ status[d] \in {"VALIDATED", "REJECTED", "ERROR"}
  /\ status' = [status EXCEPT ![d] = "QUEUED"]
  /\ UNCHANGED senders

Take(w, d) ==
  /\ status[d] = "QUEUED"
  /\ senders[d] = {}
  /\ status'  = [status EXCEPT ![d] = "SENDING"]
  /\ senders' = [senders EXCEPT ![d] = {w}]

Conclude(w, d) ==
  /\ status[d] = "SENDING"
  /\ senders[d] = {w}
  /\ \E s \in {"QUEUED", "CONFIRMED", "SENT", "REJECTED", "ERROR"} :
       status' = [status EXCEPT ![d] = s]
  /\ senders' = [senders EXCEPT ![d] = {}]

Disappear(w, d) ==
  /\ senders[d] = {w}
  /\ senders' = [senders EXCEPT ![d] = {}]
  /\ UNCHANGED status

DeliveryNext ==
  \E d \in Docs : \/ Receive(d)
                  \/ Queue(d)
                  \/ \E w \in Workers : \/ Take(w, d)
                                        \/ Conclude(w, d)
                                        \/ Disappear(w, d)

DeliverySpec == DeliveryInit /\ [][DeliveryNext]_DeliveryVars

=============================================================================
