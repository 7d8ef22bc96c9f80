------------------------------ MODULE Register ------------------------------
(***************************************************************************)
(* What the register of documents promises to those who submit them: a     *)
(* submission takes effect all at once or not at all, once at most, as if  *)
(* there were only one at a time, and what is told of it is true.  It      *)
(* takes effect before it is told: who is told nothing, or of a failure,   *)
(* does not know whether it did.  Registry, with its requests, row locks   *)
(* and constraints, implements this.                                       *)
(***************************************************************************)
CONSTANTS
  Requests,
  Documents       \* rows: [company, code, id, number, content, source, frozen]

VARIABLES
  docs,           \* the documents of the register
  asked,          \* what each request submitted, until it is told of it
  effect,         \* what that did to the register, until then
  answers         \* what each request was told

vars == <<docs, asked, effect, answers>>

Open == "none"

SameId(d, e)      == d.company = e.company /\ d.code = e.code /\ d.id = e.id
SameNumber(d, e)  == d.company = e.company /\ d.number = e.number
SameContent(d, e) == d.number = e.number /\ d.content = e.content

Init ==
  /\ docs    = {}
  /\ asked   = [r \in Requests |-> {}]
  /\ effect  = [r \in Requests |-> "none"]
  /\ answers = [r \in Requests |-> Open]

Submit(r) ==
  /\ asked[r] = {} /\ answers[r] = Open
  /\ UNCHANGED <<docs, effect, answers>>
  /\ \E d \in Documents : ~d.frozen /\ asked' = [asked EXCEPT ![r] = {d}]

-----------------------------------------------------------------------------
(* The effect.                                                             *)

TakeEffect(r, what) ==
  /\ effect[r] = "none"
  /\ effect' = [effect EXCEPT ![r] = what]
  /\ UNCHANGED <<asked, answers>>

Create(r, d) ==
  /\ TakeEffect(r, "created")
  /\ \A e \in docs : ~SameId(d, e) /\ ~SameNumber(d, e)
  /\ docs' = docs \cup {d}

Replace(r, d, e) ==
  /\ TakeEffect(r, "updated")
  /\ SameId(d, e) /\ ~SameContent(d, e) /\ ~e.frozen
  /\ \A f \in docs \ {e} : ~SameNumber(d, f)
  /\ docs' = (docs \ {e}) \cup {d}

-----------------------------------------------------------------------------
(* The answer.                                                             *)

Tell(r, outcome) ==
  /\ answers[r] = Open
  /\ answers' = [answers EXCEPT ![r] = outcome]
  /\ asked'   = [asked EXCEPT ![r] = {}]
  /\ effect'  = [effect EXCEPT ![r] = "none"]
  /\ UNCHANGED docs

\* What it did.
Reply(r) == effect[r] # "none" /\ Tell(r, effect[r])

\* The register has the document, as it is.
Confirm(r, d, e) ==
  /\ effect[r] = "none"
  /\ SameId(d, e) /\ SameContent(d, e)
  /\ Tell(r, "duplicate")

\* Another document is in the way.
Decline(r) == effect[r] = "none" /\ Tell(r, "conflict")

\* What was submitted is no document.
Reject(r) == asked[r] = {} /\ Tell(r, "invalid")

\* This says nothing about the effect.
Fail(r) == Tell(r, "failed")

-----------------------------------------------------------------------------

\* The document goes to the AGT: it does not change any more.
Freeze(e) ==
  /\ ~e.frozen
  /\ docs' = (docs \ {e}) \cup {[e EXCEPT !.frozen = TRUE]}
  /\ UNCHANGED <<asked, effect, answers>>

\* The client goes, told or not.
Leave(r) ==
  /\ answers' = [answers EXCEPT ![r] = Open]
  /\ asked'   = [asked EXCEPT ![r] = {}]
  /\ effect'  = [effect EXCEPT ![r] = "none"]
  /\ UNCHANGED docs

Next ==
  \/ \E r \in Requests :
       \/ Submit(r) \/ Reject(r) \/ Fail(r) \/ Leave(r)
       \/ \E d \in asked[r] :
            \/ Create(r, d) \/ Reply(r) \/ Decline(r)
            \/ \E e \in docs : Replace(r, d, e) \/ Confirm(r, d, e)
  \/ \E e \in docs : Freeze(e)

Spec == Init /\ [][Next]_vars

=============================================================================
