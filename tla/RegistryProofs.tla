--------------------------- MODULE RegistryProofs ---------------------------
(***************************************************************************)
(* Theorems about Registry, for any sources, companies, codes, threads,    *)
(* payloads and bounds: the types, one row per document and number, rows   *)
(* that stay as they were read, and that Registry implements Register.     *)
(***************************************************************************)
EXTENDS Registry, TLAPS

USE DEF AtWork

-----------------------------------------------------------------------------
(* Rows and requests.                                                      *)

\* The row a request is about is a row, as long as the request has its client
\* and its payload.
LEMMA RowOfFacts ==
  ASSUME NEW client \in Clients, NEW p \in Payloads
  PROVE  RowOf(client, p) \in Row /\ ~RowOf(client, p).frozen
BY RegistryAssumption DEF RowOf, Row, Clients

\* A request at work has all its fields.
LEMMA ImportingFacts ==
  ASSUME TypeOK, NEW r \in Requests, Importing(r)
  PROVE  /\ request[r] \in
              [pc : AtWork, client : Clients,
               payload : Payloads, found : SUBSET Row, answer : {"none"}, shown : {{}}]
         /\ RowAt(r) \in Row
         /\ ~RowAt(r).frozen
<1>1. request[r] \in RequestStates
  BY DEF TypeOK
<1>2. request[r] \in
        [pc : AtWork, client : Clients,
         payload : Payloads, found : SUBSET Row, answer : {"none"}, shown : {{}}]
  BY <1>1 DEF RequestStates, Importing, Idle
<1>3. request[r].client \in Clients /\ request[r].payload \in Payloads
  BY <1>2
<1>4. QED
  BY <1>2, <1>3, RowOfFacts DEF RowAt

\* A statement that goes on to the next one changes what the request holds and
\* nothing else of it.
LEMMA GoFacts ==
  ASSUME TypeOK, NEW r \in Requests, Importing(r),
         NEW pc \in AtWork, NEW found \in SUBSET Row,
         Go(r, pc, found)
  PROVE  /\ request' \in [Requests -> RequestStates]
         /\ \A q \in Requests : q # r => request'[q] = request[q]
         /\ request'[r].pc = pc /\ request'[r].found = found
         /\ request'[r].answer = request[r].answer
         /\ request'[r].answer = "none"
         /\ request'[r].client = request[r].client
         /\ request'[r].payload = request[r].payload
<1>1. request \in [Requests -> RequestStates]
  BY DEF TypeOK
<1> DEFINE States ==
      [pc : AtWork, client : Clients,
       payload : Payloads, found : SUBSET Row, answer : {"none"}, shown : {{}}]
<1>2. request[r] \in States
  BY ImportingFacts
<1>3. request' = [request EXCEPT ![r] = [request[r] EXCEPT !.pc = pc, !.found = found]]
  BY <1>1, <1>2 DEF Go
<1>4. [request[r] EXCEPT !.pc = pc, !.found = found] \in States
  BY <1>2
<1>5. States \subseteq RequestStates
  BY DEF RequestStates
<1>6. request' \in [Requests -> RequestStates]
  BY <1>1, <1>3, <1>4, <1>5
<1>7. request'[r] = [request[r] EXCEPT !.pc = pc, !.found = found]
  BY <1>1, <1>3
<1>8. \A q \in Requests : q # r => request'[q] = request[q]
  BY <1>1, <1>3
<1>9. QED
  BY <1>2, <1>6, <1>7, <1>8

Outcomes == {"none", "created", "updated", "duplicate", "conflict", "invalid", "failed"}

\* A request that is answered holds nothing any more, and the others go on as
\* they were.
LEMMA AnswerFacts ==
  ASSUME TypeOK, NEW r \in Requests, NEW client \in Clients,
         NEW outcome \in Outcomes, NEW shown \in SUBSET Row,
         request' = [request EXCEPT ![r] = Answered(client, outcome, shown)]
  PROVE  /\ request' \in [Requests -> RequestStates]
         /\ \A q \in Requests : q # r => request'[q] = request[q]
         /\ request'[r].pc = "answered" /\ request'[r].answer = outcome
<1>1. request \in [Requests -> RequestStates]
  BY DEF TypeOK
<1>2. Answered(client, outcome, shown) \in RequestStates
  BY DEF Answered, RequestStates, Outcomes
<1>3. QED
  BY <1>1, <1>2 DEF Answered

-----------------------------------------------------------------------------
(* The steps preserve the invariant.                                       *)

LEMMA InitInv == Init => RegisterInv
<1> SUFFICES ASSUME Init PROVE RegisterInv
  OBVIOUS
<1>1. \A r \in Requests : request[r] = Idle
  BY DEF Init
<1>2. TypeOK
  BY RegistryAssumption DEF Init, TypeOK, RequestStates
<1>3. OneRowPerDocument
  BY DEF Init, OneRowPerDocument
<1>4. HeldStaysAsRead /\ HeldIsOwn
  BY <1>1 DEF HeldStaysAsRead, HeldIsOwn, Holding, Idle
<1>5. QED
  BY <1>2, <1>3, <1>4 DEF RegisterInv

\* A step that leaves the rows alone and lets no request hold anything new.
LEMMA NothingNewHeld ==
  ASSUME RegisterInv, TypeOK', UNCHANGED invoices,
         \A q \in Requests :
           Holding(q)' => /\ Holding(q)
                          /\ request'[q].found = request[q].found
                          /\ RowAt(q)' = RowAt(q)
  PROVE  RegisterInv'
<1>1. OneRowPerDocument'
  BY DEF RegisterInv, OneRowPerDocument
<1>2. HeldStaysAsRead'
  BY DEF RegisterInv, HeldStaysAsRead
<1>3. HeldIsOwn'
  BY DEF RegisterInv, HeldIsOwn
<1>4. QED
  BY <1>1, <1>2, <1>3 DEF RegisterInv

\* A request that is answered, or given up, without a change of the register.
LEMMA LetGo ==
  ASSUME RegisterInv, NEW r \in Requests, UNCHANGED <<code, invoices>>,
         request' \in [Requests -> RequestStates],
         \A q \in Requests : q # r => request'[q] = request[q],
         ~Holding(r)'
  PROVE  RegisterInv'
<1>1. TypeOK'
  BY DEF RegisterInv, TypeOK
<1>2. QED
  BY <1>1, NothingNewHeld DEF Holding, RowAt

\* A statement that goes on holding what it held, or nothing.
LEMMA GoOn ==
  ASSUME RegisterInv, NEW r \in Requests, UNCHANGED <<code, invoices>>, Importing(r),
         NEW pc \in AtWork, NEW found \in SUBSET Row,
         Go(r, pc, found),
         (Holding(r) /\ found = request[r].found) \/ pc = "again"
  PROVE  RegisterInv'
<1>1. TypeOK
  BY DEF RegisterInv
<1>2. TypeOK'
  BY <1>1, GoFacts DEF TypeOK
<1>3. QED
  BY <1>1, <1>2, GoFacts, NothingNewHeld DEF Holding, RowAt

\* Looking for the document: nothing is found, and nothing held, or its row is,
\* which nobody else held.
LEMMA LookupStep ==
  ASSUME RegisterInv, NEW r \in Requests, Lookup(r)
  PROVE  RegisterInv'
<1>1. TypeOK /\ Importing(r) /\ request[r].pc = "lookup" /\ UNCHANGED <<code, invoices>>
  BY DEF RegisterInv, Lookup, Importing
<1>2. \A inv \in OwnRow(r) : inv \in invoices /\ inv \in Row /\ SameId(inv, RowAt(r))
  BY <1>1 DEF OwnRow, TypeOK
<1>3. ASSUME NEW outcome \in Outcomes, NEW shown \in SUBSET Row, Answer(r, outcome, shown)
      PROVE  RegisterInv'
  <2>1. request[r].client \in Clients
    BY <1>1, ImportingFacts
  <2>2. QED
    BY <1>1, <1>3, <2>1, AnswerFacts, LetGo DEF Answer, Holding
<1>4. ASSUME NEW found \in SUBSET Row, Go(r, "number", found),
             \A inv \in found : /\ inv \in OwnRow(r) /\ ~Held(inv) /\ ~inv.frozen
                                /\ ~SameContent(inv, RowAt(r))
      PROVE  RegisterInv'
  <2>1. /\ request' \in [Requests -> RequestStates]
        /\ \A q \in Requests : q # r => request'[q] = request[q]
        /\ request'[r].pc = "number" /\ request'[r].found = found
        /\ RowAt(r)' = RowAt(r)
    BY <1>1, <1>4, GoFacts DEF RowAt
  <2>2. TypeOK'
    BY <1>1, <2>1 DEF TypeOK
  <2>3. OneRowPerDocument'
    BY <1>1 DEF RegisterInv, OneRowPerDocument
  <2>4. HeldStaysAsRead'
    BY <1>1, <1>2, <1>4, <2>1 DEF RegisterInv, HeldStaysAsRead, Holding
  <2>5. \A q \in Requests : q # r /\ Holding(q) => found \cap request[q].found = {}
    BY <1>4 DEF Held, Holding
  <2>6. HeldIsOwn'
    <3>1. \A q \in Requests : q # r => (Holding(q)' <=> Holding(q)) /\ RowAt(q)' = RowAt(q)
      BY <2>1 DEF Holding, RowAt
    <3>2. \A inv \in found : SameId(inv, RowAt(r)') /\ ~SameContent(inv, RowAt(r)')
      BY <1>2, <1>4, <2>1
    <3>3. QED
      BY <2>1, <2>5, <3>1, <3>2 DEF RegisterInv, HeldIsOwn
  <2>7. QED
    BY <2>2, <2>3, <2>4, <2>6 DEF RegisterInv
<1>5. CASE OwnRow(r) = {} /\ Go(r, "number", {})
  BY <1>4, <1>5
<1>6. ASSUME NEW inv \in OwnRow(r), ~Held(inv),
             \/ SameContent(inv, RowAt(r))  /\ Answer(r, "duplicate", {inv})
             \/ ~SameContent(inv, RowAt(r)) /\ inv.frozen  /\ Conflict(r, {inv})
             \/ ~SameContent(inv, RowAt(r)) /\ ~inv.frozen /\ Go(r, "number", {inv})
      PROVE  RegisterInv'
  <2>1. {inv} \in SUBSET Row /\ ShownOfConflict(request[r].client, {inv}) \in SUBSET Row
    BY <1>2 DEF ShownOfConflict
  <2>2. CASE Answer(r, "duplicate", {inv})
    BY <1>3, <2>1, <2>2 DEF Outcomes
  <2>3. CASE Conflict(r, {inv})
    BY <1>3, <2>1, <2>3 DEF Outcomes, Conflict
  <2>4. CASE ~SameContent(inv, RowAt(r)) /\ ~inv.frozen /\ Go(r, "number", {inv})
    BY <1>4, <1>6, <2>1, <2>4
  <2>5. QED
    BY <1>6, <2>2, <2>3, <2>4
<1>7. QED
  BY <1>5, <1>6 DEF Lookup

\* The fiscal number is looked for.
LEMMA CheckNumberStep ==
  ASSUME RegisterInv, NEW r \in Requests, CheckNumber(r)
  PROVE  RegisterInv'
<1> DEFINE others == {inv \in invoices \ request[r].found : SameNumber(inv, RowAt(r))}
<1>1. /\ TypeOK /\ Importing(r) /\ Holding(r) /\ request[r].pc = "number"
      /\ UNCHANGED <<code, invoices>>
  BY DEF RegisterInv, CheckNumber, Importing, Holding
<1>2. request[r].client \in Clients /\ request[r].found \in SUBSET Row
  BY <1>1, ImportingFacts
<1>3. CASE Go(r, "save", request[r].found)
  BY <1>1, <1>2, <1>3, GoOn
<1>4. ASSUME NEW inv \in others, Conflict(r, {inv})
      PROVE  RegisterInv'
  <2>1. ShownOfConflict(request[r].client, {inv}) \in SUBSET Row
    BY <1>1 DEF ShownOfConflict, TypeOK
  <2>2. QED
    BY <1>1, <1>2, <1>4, <2>1, AnswerFacts, LetGo
    DEF Conflict, Answer, Outcomes, Holding
<1>5. QED
  BY <1>3, <1>4 DEF CheckNumber

\* The row is written: the constraints keep it apart from all others, and what
\* it replaces nobody else holds.
LEMMA SaveStep ==
  ASSUME RegisterInv, NEW r \in Requests, Save(r)
  PROVE  RegisterInv'
<1>1. /\ TypeOK /\ Importing(r) /\ Holding(r) /\ request[r].pc = "save"
      /\ UNCHANGED code
  BY DEF RegisterInv, Save, Importing, Holding
<1>2. /\ request[r].client \in Clients /\ request[r].found \in SUBSET Row
      /\ RowAt(r) \in Row
  BY <1>1, ImportingFacts
<1>3. CASE Go(r, "again", {}) /\ UNCHANGED invoices
  BY <1>1, <1>3, GoOn
<1>4. CASE /\ ~Clashes(r)
           /\ invoices' = (invoices \ request[r].found) \cup {RowAt(r)}
           /\ Go(r, "stored", request[r].found)
  <2>2. /\ request' \in [Requests -> RequestStates]
        /\ \A q \in Requests : q # r => request'[q] = request[q]
        /\ request'[r].pc = "stored"
    BY <1>1, <1>2, <1>4, GoFacts
  <2>3. TypeOK'
    BY <1>1, <1>2, <1>4, <2>2 DEF TypeOK
  <2>4. OneRowPerDocument'
    BY <1>4 DEF RegisterInv, OneRowPerDocument, Clashes, SameId, SameNumber
  <2>5. \A q \in Requests :
          Holding(q)' => /\ q # r /\ Holding(q) /\ request'[q] = request[q]
                         /\ RowAt(q)' = RowAt(q)
    BY <2>2 DEF Holding, RowAt
  <2>6. HeldStaysAsRead'
    <3>1. \A q \in Requests : q # r /\ Holding(q) => request[r].found \cap request[q].found = {}
      BY <1>1 DEF RegisterInv, HeldIsOwn
    <3>2. QED
      BY <1>4, <2>5, <3>1 DEF RegisterInv, HeldStaysAsRead
  <2>7. HeldIsOwn'
    BY <2>5 DEF RegisterInv, HeldIsOwn
  <2>8. QED
    BY <2>3, <2>4, <2>6, <2>7 DEF RegisterInv
<1>5. QED
  BY <1>3, <1>4 DEF Save

\* After an IntegrityError the request is told one thing or the other.
LEMMA LookAgainStep ==
  ASSUME RegisterInv, NEW r \in Requests, LookAgain(r)
  PROVE  RegisterInv'
<1>1. /\ TypeOK /\ Importing(r) /\ UNCHANGED <<code, invoices>>
  BY DEF RegisterInv, LookAgain, Importing
<1>2. request[r].client \in Clients
  BY <1>1, ImportingFacts
<1>3. PICK outcome \in Outcomes, shown \in SUBSET Row : Answer(r, outcome, shown)
  <2>1. CASE \E inv \in OwnRow(r) : Answer(r, "duplicate", {inv})
    BY <1>1, <2>1 DEF Outcomes, OwnRow, TypeOK
  <2>2. CASE Conflict(r, {})
    BY <2>2 DEF Conflict, ShownOfConflict, Outcomes
  <2>3. QED
    BY <2>1, <2>2 DEF LookAgain
<1>4. QED
  BY <1>1, <1>2, <1>3, AnswerFacts, LetGo DEF Answer, Holding

\* What was stored is told.
LEMMA ReplyStep ==
  ASSUME RegisterInv, NEW r \in Requests, Reply(r)
  PROVE  RegisterInv'
<1>1. TypeOK /\ Importing(r) /\ UNCHANGED <<code, invoices>>
  BY DEF RegisterInv, Reply, Importing
<1>2. request[r].client \in Clients /\ {RowAt(r)} \in SUBSET Row
  BY <1>1, ImportingFacts
<1>3. Result(r) \in Outcomes
  BY DEF Result, Outcomes
<1>4. request' = [request EXCEPT ![r] =
        Answered(request[r].client, Result(r), {RowAt(r)})]
  BY DEF Reply, Answer
<1>5. QED
  BY <1>1, <1>2, <1>3, <1>4, AnswerFacts, LetGo DEF Holding

\* What a request does to its own memory only.
LEMMA RequestStep ==
  ASSUME RegisterInv, NEW r \in Requests,
         Fail(r) \/ Leave(r) \/ (\E s \in Sources : Consult(r, s))
                 \/ (\E s \in Sources, p \in Payloads : Receive(r, s, p))
  PROVE  RegisterInv'
<1>1. TypeOK /\ UNCHANGED <<code, invoices>>
  BY DEF RegisterInv, Fail, Leave, Consult, Receive
<1>2. \A s \in Sources : Client(s) \in Clients
  BY <1>1 DEF Client, Clients, TypeOK
<1>3. CASE Fail(r)
  <2>1. Importing(r) /\ request[r].client \in Clients
    BY <1>1, <1>3, ImportingFacts DEF Fail, Importing
  <2>2. "failed" \in Outcomes /\ {} \in SUBSET Row
    BY DEF Outcomes
  <2>3. request' = [request EXCEPT ![r] = Answered(request[r].client, "failed", {})]
    BY <1>3 DEF Fail, Answer
  <2>4. /\ request' \in [Requests -> RequestStates]
        /\ \A q \in Requests : q # r => request'[q] = request[q]
        /\ request'[r].pc = "answered"
    BY <1>1, <2>1, <2>2, <2>3, AnswerFacts
  <2>5. QED
    BY <1>1, <2>4, LetGo DEF Holding
<1>4. CASE Leave(r)
  <2>1. /\ request' \in [Requests -> RequestStates]
        /\ \A q \in Requests : q # r => request'[q] = request[q]
        /\ request'[r].pc = "idle"
    BY <1>1, <1>4 DEF Leave, TypeOK, RequestStates, Idle
  <2>2. QED
    BY <1>1, <2>1, LetGo DEF Holding
<1>5. ASSUME NEW s \in Sources, Consult(r, s)
      PROVE  RegisterInv'
  <2>1. PICK shown \in SUBSET Row :
          request' = [request EXCEPT ![r] = Answered(Client(s), "none", shown)]
    BY <1>1, <1>5 DEF Consult, TypeOK
  <2>2. QED
    BY <1>1, <1>2, <2>1, AnswerFacts, LetGo DEF Outcomes, Holding
<1>6. ASSUME NEW s \in Sources, NEW p \in Payloads, Receive(r, s, p)
      PROVE  RegisterInv'
  <2>1. ASSUME NEW outcome \in {"invalid", "failed"},
               request' = [request EXCEPT ![r] = Answered(Client(s), outcome, {})]
        PROVE  RegisterInv'
    <3>1. outcome \in Outcomes /\ {} \in SUBSET Row
      BY DEF Outcomes
    <3>2. /\ request' \in [Requests -> RequestStates]
          /\ \A q \in Requests : q # r => request'[q] = request[q]
          /\ request'[r].pc = "answered"
      BY <1>1, <1>2, <2>1, <3>1, AnswerFacts
    <3>3. QED
      BY <1>1, <3>2, LetGo DEF Holding
  <2>2. CASE request' = [request EXCEPT ![r] =
               [pc |-> "lookup", client |-> Client(s), payload |-> p, found |-> {},
                answer |-> "none", shown |-> {}]]
    <3>1. [pc |-> "lookup", client |-> Client(s), payload |-> p, found |-> {},
           answer |-> "none", shown |-> {}] \in RequestStates
      BY <1>2 DEF RequestStates
    <3>2. /\ request' \in [Requests -> RequestStates]
          /\ \A q \in Requests : q # r => request'[q] = request[q]
          /\ request'[r].pc = "lookup"
      BY <1>1, <2>2, <3>1 DEF TypeOK
    <3>3. QED
      BY <1>1, <3>2, LetGo DEF Holding
  <2>3. QED
    BY <1>6, <2>1, <2>2 DEF Receive
<1>7. QED
  BY <1>3, <1>4, <1>5, <1>6

\* The queue freezes a row that nobody holds.
LEMMA CommunicateStep ==
  ASSUME RegisterInv, NEW inv \in invoices, Communicate(inv)
  PROVE  RegisterInv'
<1> DEFINE sent == [inv EXCEPT !.frozen = TRUE]
<1>1. /\ TypeOK /\ UNCHANGED <<code, request>> /\ ~Held(inv)
      /\ invoices' = (invoices \ {inv}) \cup {sent}
  BY DEF RegisterInv, Communicate
<1>2. inv \in Row /\ sent \in Row
  BY <1>1 DEF TypeOK, Row
<1>3. /\ sent.company = inv.company /\ sent.code = inv.code /\ sent.id = inv.id
      /\ sent.number = inv.number
  BY <1>2 DEF Row
<1>4. TypeOK'
  BY <1>1, <1>2 DEF TypeOK
<1>5. OneRowPerDocument'
  <2>1. \A d \in invoices : d # inv => ~SameId(d, inv) /\ ~SameNumber(d, inv)
                                      /\ ~SameId(inv, d) /\ ~SameNumber(inv, d)
    BY DEF RegisterInv, OneRowPerDocument
  <2>2. \A d \in invoices : d # inv => ~SameId(d, sent) /\ ~SameNumber(d, sent)
                                      /\ ~SameId(sent, d) /\ ~SameNumber(sent, d)
    BY <1>3, <2>1 DEF SameId, SameNumber
  <2>3. \A d \in invoices' : d = sent \/ (d \in invoices /\ d # inv)
    BY <1>1
  <2>4. QED
    BY <2>2, <2>3 DEF RegisterInv, OneRowPerDocument
<1>6. \A q \in Requests : Holding(q) => inv \notin request[q].found
  BY <1>1 DEF Held, Holding
<1>7. HeldStaysAsRead'
  BY <1>1, <1>6 DEF RegisterInv, HeldStaysAsRead, Holding
<1>8. HeldIsOwn'
  BY <1>1 DEF RegisterInv, HeldIsOwn, Holding, RowAt
<1>9. QED
  BY <1>4, <1>5, <1>7, <1>8 DEF RegisterInv

\* Access and codes change behind the requests' backs.
LEMMA AccessStep ==
  ASSUME RegisterInv,
         \/ \E s \in Sources : LetIn(s)
         \/ \E closed \in SUBSET Sources : ShutOut(closed)
         \/ \E s \in Sources, c \in Codes : Rename(s, c)
  PROVE  RegisterInv' /\ UNCHANGED <<invoices, request>>
<1>1. TypeOK /\ UNCHANGED <<invoices, request>>
  BY DEF RegisterInv, LetIn, ShutOut, Rename
<1>2. TypeOK'
  BY <1>1 DEF TypeOK, LetIn, ShutOut, Rename
<1>3. QED
  BY <1>1, <1>2, NothingNewHeld DEF Holding, RowAt

\* Every step keeps the invariant.
LEMMA NextInv == RegisterInv /\ [Next]_vars => RegisterInv'
<1> SUFFICES ASSUME RegisterInv, [Next]_vars PROVE RegisterInv'
  OBVIOUS
<1>1. ASSUME NEW r \in Requests, Import(r) PROVE RegisterInv'
  BY <1>1, LookupStep, CheckNumberStep, SaveStep, LookAgainStep, ReplyStep
  DEF Import
<1>2. CASE UNCHANGED vars
  <2>1. UNCHANGED <<code, invoices, request>>
    BY <1>2 DEF vars
  <2>2. TypeOK'
    BY <2>1 DEF RegisterInv, TypeOK
  <2>3. QED
    BY <2>1, <2>2, NothingNewHeld DEF Holding, RowAt
<1>3. CASE Next
  BY <1>1, <1>3, RequestStep, CommunicateStep, AccessStep DEF Next
<1>4. QED
  BY <1>2, <1>3

-----------------------------------------------------------------------------
(* Registry implements Register.                                           *)

Asked == [r \in Requests |-> IF Importing(r) THEN {RowAt(r)} ELSE {}]
Told  == [r \in Requests |-> request[r].answer]
Done  == [r \in Requests |-> IF request[r].pc = "stored" THEN Result(r) ELSE "none"]

\* A request that is answered is told, in the sense of Register.
LEMMA AnswerTells ==
  ASSUME TypeOK, NEW r \in Requests, Importing(r), NEW outcome \in Outcomes,
         NEW shown \in SUBSET Row, Answer(r, outcome, shown), UNCHANGED invoices
  PROVE  Submissions!Tell(r, outcome) /\ RowAt(r) \in Asked[r]
<1>1. request[r].client \in Clients /\ request[r].answer = "none"
  BY ImportingFacts
<1>2. /\ \A q \in Requests : q # r => request'[q] = request[q]
      /\ request'[r].pc = "answered" /\ request'[r].answer = outcome
  <2>1. PICK client \in Clients : client = request[r].client
    BY <1>1
  <2>2. request' = [request EXCEPT ![r] = Answered(client, outcome, shown)]
    BY <2>1 DEF Answer
  <2>3. QED
    BY <2>2, AnswerFacts
<1>3. \A q \in Requests : q # r => (Importing(q)' <=> Importing(q)) /\ RowAt(q)' = RowAt(q)
  BY <1>2 DEF Importing, RowAt
<1>4. ~Importing(r)'
  BY <1>2 DEF Importing
<1>5. Told' = [Told EXCEPT ![r] = outcome]
  BY <1>2 DEF Told
<1>6. Asked' = [Asked EXCEPT ![r] = {}]
  BY <1>3, <1>4 DEF Asked
<1>7. Done' = [Done EXCEPT ![r] = "none"]
  BY <1>2 DEF Done, Result
<1>8. Told[r] = "none" /\ RowAt(r) \in Asked[r]
  BY <1>1 DEF Told, Asked
<1>9. QED
  BY <1>5, <1>6, <1>7, <1>8 DEF Submissions!Tell, Submissions!Open, Asked, Told, Done

\* What a request goes on to do is nothing to Register.
LEMMA GoStutters ==
  ASSUME TypeOK, NEW r \in Requests, Importing(r),
         NEW pc \in AtWork \ {"stored"}, NEW found \in SUBSET Row,
         Go(r, pc, found), request[r].pc # "stored", UNCHANGED invoices
  PROVE  UNCHANGED Submissions!vars
<1>1. /\ \A q \in Requests : q # r => request'[q] = request[q]
      /\ request'[r].pc = pc /\ request'[r].answer = request[r].answer
      /\ RowAt(r)' = RowAt(r)
  BY GoFacts DEF RowAt
<1>2. \A q \in Requests : /\ Importing(q)' <=> Importing(q)
                          /\ RowAt(q)' = RowAt(q)
                          /\ request'[q].answer = request[q].answer
  BY <1>1 DEF Importing, RowAt
<1>3. Done' = Done
  BY <1>1 DEF Done, Result
<1>4. QED
  BY <1>2, <1>3 DEF Submissions!vars, Done

\* A document in the way: declined.
LEMMA Declined ==
  ASSUME TypeOK, NEW r \in Requests, Importing(r), request[r].pc # "stored",
         NEW shown \in SUBSET Row, Answer(r, "conflict", shown), UNCHANGED invoices
  PROVE  Submissions!Next
<1>1. "conflict" \in Outcomes
  BY DEF Outcomes
<1>2. Submissions!Tell(r, "conflict") /\ RowAt(r) \in Asked[r]
  BY <1>1, AnswerTells
<1>3. Done[r] = "none"
  BY DEF Done
<1>4. Submissions!Decline(r)
  BY <1>2, <1>3 DEF Submissions!Decline, Done
<1>5. QED
  BY <1>2, <1>4 DEF Submissions!Next, Asked

\* An error, before the register changed or after: failed.
LEMMA Failed ==
  ASSUME TypeOK, NEW r \in Requests, Fail(r)
  PROVE  Submissions!Next
<1>1. /\ Importing(r) /\ Answer(r, "failed", {}) /\ UNCHANGED invoices
      /\ "failed" \in Outcomes /\ {} \in SUBSET Row
  BY DEF Fail, Importing, Outcomes
<1>2. Submissions!Tell(r, "failed")
  BY <1>1, AnswerTells
<1>3. QED
  BY <1>2 DEF Submissions!Fail, Submissions!Next

\* The register has it already: confirmed.
LEMMA Confirmed ==
  ASSUME TypeOK, NEW r \in Requests, Importing(r), request[r].pc # "stored",
         NEW inv \in OwnRow(r), SameContent(inv, RowAt(r)),
         Answer(r, "duplicate", {inv}), UNCHANGED invoices
  PROVE  Submissions!Next
<1>1. "duplicate" \in Outcomes /\ {inv} \in SUBSET Row /\ inv \in invoices
      /\ SameId(inv, RowAt(r))
  BY DEF Outcomes, OwnRow, TypeOK
<1>2. Submissions!Tell(r, "duplicate") /\ RowAt(r) \in Asked[r]
  BY <1>1, AnswerTells
<1>3. Submissions!Confirm(r, RowAt(r), inv)
  BY <1>1, <1>2
  DEF Submissions!Confirm, Submissions!SameId, Submissions!SameContent, SameId, SameContent,
      Done
<1>4. QED
  BY <1>1, <1>2, <1>3 DEF Submissions!Next, Asked

\* Of the rows it holds a request holds one at most.
LEMMA OneHeld ==
  ASSUME RegisterInv, NEW r \in Requests, Holding(r), NEW inv \in request[r].found
  PROVE  /\ request[r].found = {inv} /\ inv \in invoices /\ ~inv.frozen
         /\ SameId(inv, RowAt(r)) /\ ~SameContent(inv, RowAt(r))
<1>1. \A d \in request[r].found :
        /\ d \in invoices /\ ~d.frozen
        /\ SameId(d, RowAt(r)) /\ ~SameContent(d, RowAt(r))
  BY DEF RegisterInv, HeldStaysAsRead, HeldIsOwn
<1>2. \A d \in request[r].found : SameId(d, inv)
  BY <1>1 DEF SameId
<1>3. \A d \in request[r].found : d = inv
  BY <1>1, <1>2 DEF RegisterInv, OneRowPerDocument
<1>4. QED
  BY <1>1, <1>3

\* A request that has stored its document did what its result says.
LEMMA StoredHasEffect ==
  ASSUME TypeOK, NEW r \in Requests, request[r].pc = "save", NEW found \in SUBSET Row,
         Go(r, "stored", found), found = request[r].found,
         NEW what \in Outcomes, what = Result(r)
  PROVE  Submissions!TakeEffect(r, what) /\ RowAt(r) \in Asked[r]
<1>1. Importing(r)
  BY DEF Importing
<1>2. /\ \A q \in Requests : q # r => request'[q] = request[q]
      /\ request'[r].pc = "stored" /\ request'[r].found = found
      /\ request'[r].answer = request[r].answer
      /\ RowAt(r)' = RowAt(r)
  BY <1>1, GoFacts DEF RowAt
<1>3. \A q \in Requests : /\ Importing(q)' <=> Importing(q)
                          /\ RowAt(q)' = RowAt(q)
                          /\ request'[q].answer = request[q].answer
  BY <1>1, <1>2 DEF Importing, RowAt
<1>4. Asked' = Asked /\ Told' = Told /\ RowAt(r) \in Asked[r]
  BY <1>1, <1>3 DEF Asked, Told
<1>5. Done[r] = "none" /\ Done' = [Done EXCEPT ![r] = what]
  BY <1>2 DEF Done, Result
<1>6. QED
  BY <1>4, <1>5 DEF Submissions!TakeEffect, Asked, Told, Done

\* Three statements after it looked, a request writes what Register lets it
\* create or replace at once.
LEMMA SaveImplements ==
  ASSUME RegisterInv, NEW r \in Requests, Save(r)
  PROVE  Submissions!Next \/ UNCHANGED Submissions!vars
<1>1. TypeOK /\ Importing(r) /\ Holding(r) /\ request[r].pc = "save"
  BY DEF RegisterInv, Save, Importing, Holding
<1>2. request[r].found \in SUBSET Row
  BY <1>1, ImportingFacts
<1>3. CASE Go(r, "again", {}) /\ UNCHANGED invoices
  BY <1>1, <1>3, GoStutters
<1>4. CASE /\ ~Clashes(r)
           /\ invoices' = (invoices \ request[r].found) \cup {RowAt(r)}
           /\ Go(r, "stored", request[r].found)
  <2>1. \A inv \in invoices \ request[r].found :
          ~SameId(inv, RowAt(r)) /\ ~SameNumber(inv, RowAt(r))
    BY <1>4 DEF Clashes
  <2>2. "created" \in Outcomes /\ "updated" \in Outcomes
    BY DEF Outcomes
  <2>3. CASE request[r].found = {}
    <3>1. \A e \in invoices : ~Submissions!SameId(RowAt(r), e)
                              /\ ~Submissions!SameNumber(RowAt(r), e)
      BY <2>1, <2>3
      DEF SameId, SameNumber, Submissions!SameId, Submissions!SameNumber
    <3>2. Result(r) = "created"
      BY <2>3 DEF Result
    <3>3. Submissions!TakeEffect(r, "created") /\ RowAt(r) \in Asked[r]
      BY <1>1, <1>2, <1>4, <2>2, <3>2, StoredHasEffect
    <3>4. Submissions!Create(r, RowAt(r))
      BY <1>4, <2>3, <3>1, <3>3 DEF Submissions!Create
    <3>5. QED
      BY <3>3, <3>4 DEF Submissions!Next, Asked
  <2>4. ASSUME NEW inv \in request[r].found
        PROVE  Submissions!Next
    <3>1. /\ request[r].found = {inv} /\ inv \in invoices /\ ~inv.frozen
          /\ SameId(inv, RowAt(r)) /\ ~SameContent(inv, RowAt(r))
      BY <1>1, OneHeld
    <3>2. Result(r) = "updated"
      BY <3>1 DEF Result
    <3>3. /\ Submissions!SameId(RowAt(r), inv)
          /\ ~Submissions!SameContent(RowAt(r), inv)
      BY <3>1 DEF SameId, SameContent, Submissions!SameId, Submissions!SameContent
    <3>4. \A f \in invoices \ {inv} : ~Submissions!SameNumber(RowAt(r), f)
      BY <2>1, <3>1 DEF SameNumber, Submissions!SameNumber
    <3>5. Submissions!TakeEffect(r, "updated") /\ RowAt(r) \in Asked[r]
      BY <1>1, <1>2, <1>4, <2>2, <3>2, StoredHasEffect
    <3>6. Submissions!Replace(r, RowAt(r), inv)
      BY <1>4, <3>1, <3>3, <3>4, <3>5 DEF Submissions!Replace
    <3>7. QED
      BY <3>1, <3>5, <3>6 DEF Submissions!Next, Asked
  <2>5. QED
    BY <2>3, <2>4
<1>5. QED
  BY <1>3, <1>4 DEF Save

\* The result that is told is what the request did.
LEMMA ReplyImplements ==
  ASSUME RegisterInv, NEW r \in Requests, Reply(r)
  PROVE  Submissions!Next
<1>1. /\ TypeOK /\ Importing(r) /\ request[r].pc = "stored"
      /\ Answer(r, Result(r), {RowAt(r)}) /\ UNCHANGED invoices
  BY DEF RegisterInv, Reply, Importing
<1>2. PICK outcome \in {"created", "updated"} : outcome = Result(r)
  BY DEF Result
<1>3. {RowAt(r)} \in SUBSET Row /\ outcome \in Outcomes
  BY <1>1, ImportingFacts DEF Outcomes
<1>4. Answer(r, outcome, {RowAt(r)})
  BY <1>1, <1>2 DEF Answer
<1>5. Submissions!Tell(r, outcome) /\ RowAt(r) \in Asked[r]
  BY <1>1, <1>3, <1>4, AnswerTells
<1>6. Done[r] = outcome /\ outcome # "none"
  BY <1>1, <1>2 DEF Done
<1>7. Submissions!Reply(r)
  BY <1>5, <1>6 DEF Submissions!Reply, Submissions!Tell, Done
<1>8. QED
  BY <1>5, <1>7 DEF Submissions!Next, Asked

\* A statement before the save answers, in one step of Register, or does nothing that
\* Register sees.
LEMMA ImportImplements ==
  ASSUME RegisterInv, NEW r \in Requests, Lookup(r) \/ CheckNumber(r) \/ LookAgain(r)
  PROVE  Submissions!Next \/ UNCHANGED Submissions!vars
<1>1. TypeOK /\ Importing(r) /\ request[r].pc # "stored" /\ UNCHANGED invoices
  BY DEF RegisterInv, Lookup, CheckNumber, LookAgain, Importing
<1>2. ASSUME NEW way \in SUBSET invoices, Conflict(r, way)
      PROVE  Submissions!Next
  <2>1. ShownOfConflict(request[r].client, way) \in SUBSET Row
    BY <1>1 DEF ShownOfConflict, TypeOK
  <2>2. QED
    BY <1>1, <1>2, <2>1, Declined DEF Conflict
<1>3. ASSUME NEW inv \in OwnRow(r), SameContent(inv, RowAt(r)),
             Answer(r, "duplicate", {inv})
      PROVE  Submissions!Next
  BY <1>1, <1>3, Confirmed
<1>4. CASE Lookup(r)
  <2>1. ASSUME NEW inv \in OwnRow(r)
        PROVE  {inv} \in SUBSET invoices /\ {inv} \in SUBSET Row
    BY <1>1 DEF OwnRow, TypeOK
  <2>2. CASE Go(r, "number", {})
    BY <1>1, <2>2, GoStutters
  <2>3. ASSUME NEW inv \in OwnRow(r), Go(r, "number", {inv})
        PROVE  UNCHANGED Submissions!vars
    BY <1>1, <2>1, <2>3, GoStutters
  <2>4. ASSUME NEW inv \in OwnRow(r), Conflict(r, {inv})
        PROVE  Submissions!Next
    BY <1>2, <2>1, <2>4
  <2>5. QED
    BY <1>3, <1>4, <2>2, <2>3, <2>4 DEF Lookup
<1>5. CASE CheckNumber(r)
  <2>1. request[r].found \in SUBSET Row
    BY <1>1, ImportingFacts
  <2>2. CASE Go(r, "save", request[r].found)
    BY <1>1, <2>1, <2>2, GoStutters
  <2>3. QED
    BY <1>2, <1>5, <2>2 DEF CheckNumber
<1>6. CASE LookAgain(r)
  BY <1>2, <1>3, <1>6 DEF LookAgain
<1>7. QED
  BY <1>4, <1>5, <1>6

\* Requests begin, are refused, are given up, or only read.
LEMMA RequestImplements ==
  ASSUME RegisterInv, NEW r \in Requests,
         Fail(r) \/ Leave(r) \/ (\E s \in Sources : Consult(r, s))
                 \/ (\E s \in Sources, p \in Payloads : Receive(r, s, p))
  PROVE  Submissions!Next \/ UNCHANGED Submissions!vars
<1>1. TypeOK /\ UNCHANGED invoices /\ request \in [Requests -> RequestStates]
  BY DEF RegisterInv, TypeOK, Fail, Leave, Consult, Receive
<1>2. \A s \in Sources : Client(s) \in Clients
  BY <1>1 DEF Client, Clients, TypeOK
<1>3. ASSUME request[r].pc = "idle"
      PROVE  ~Importing(r) /\ request[r].answer = "none" /\ Done[r] = "none"
  BY <1>1, <1>3 DEF RequestStates, Idle, Importing, Done
<1>4. \A q \in Requests \ {r} : /\ request'[q] = request[q]
                                /\ Importing(q)' <=> Importing(q)
                                /\ RowAt(q)' = RowAt(q)
  <2>1. \A q \in Requests \ {r} : request'[q] = request[q]
    BY <1>1 DEF Fail, Answer, Leave, Consult, Receive
  <2>2. QED
    BY <2>1 DEF Importing, RowAt
<1>5. CASE Fail(r)
  BY <1>1, <1>5, Failed
<1>6. CASE Leave(r)
  <2>1. request' = [request EXCEPT ![r] = Idle]
    BY <1>6 DEF Leave
  <2>2. ~Importing(r)' /\ request'[r].answer = "none" /\ request'[r].pc # "stored"
    BY <1>1, <2>1 DEF Importing, Idle
  <2>3. /\ Asked' = [Asked EXCEPT ![r] = {}] /\ Told' = [Told EXCEPT ![r] = "none"]
        /\ Done' = [Done EXCEPT ![r] = "none"]
    BY <1>4, <2>2 DEF Asked, Told, Done, Result
  <2>4. Submissions!Leave(r)
    BY <1>1, <2>3 DEF Submissions!Leave, Submissions!Open, Asked, Told, Done
  <2>5. QED
    BY <2>4 DEF Submissions!Next
<1>7. ASSUME NEW s \in Sources, Consult(r, s)
      PROVE  UNCHANGED Submissions!vars
  <2>1. PICK shown : request' = [request EXCEPT ![r] = Answered(Client(s), "none", shown)]
    BY <1>7 DEF Consult
  <2>2. ~Importing(r)' /\ request'[r].answer = "none" /\ request'[r].pc # "stored"
    BY <1>1, <2>1 DEF Importing, Answered
  <2>3. Asked' = Asked /\ Told' = Told
    BY <1>3, <1>4, <1>7, <2>2 DEF Consult, Asked, Told
  <2>4. Done' = Done
    BY <1>3, <1>4, <1>7, <2>2 DEF Consult, Done, Result
  <2>5. QED
    BY <1>1, <2>3, <2>4 DEF Submissions!vars, Asked, Told, Done
<1>8. ASSUME NEW s \in Sources, NEW p \in Payloads, Receive(r, s, p)
      PROVE  Submissions!Next
  <2>1. ~Importing(r) /\ request[r].answer = "none" /\ Done[r] = "none"
    BY <1>3, <1>8 DEF Receive
  <2>2. Asked[r] = {} /\ Told[r] = "none"
    BY <2>1 DEF Asked, Told
  <2>3. ASSUME NEW outcome \in {"invalid", "failed"},
               request' = [request EXCEPT ![r] = Answered(Client(s), outcome, {})]
        PROVE  Submissions!Next
    <3>1. ~Importing(r)' /\ request'[r].answer = outcome /\ request'[r].pc # "stored"
      BY <1>1, <2>3 DEF Importing, Answered
    <3>2. /\ Asked' = [Asked EXCEPT ![r] = {}] /\ Told' = [Told EXCEPT ![r] = outcome]
          /\ Done' = [Done EXCEPT ![r] = "none"]
      BY <1>4, <3>1 DEF Asked, Told, Done, Result
    <3>3. Submissions!Tell(r, outcome)
      BY <1>1, <2>2, <3>2 DEF Submissions!Tell, Submissions!Open, Asked, Told, Done
    <3>4. Submissions!Reject(r) \/ Submissions!Fail(r)
      BY <2>2, <3>3 DEF Submissions!Reject, Submissions!Fail, Asked
    <3>5. QED
      BY <3>4 DEF Submissions!Next
  <2>4. CASE request' = [request EXCEPT ![r] =
               [pc |-> "lookup", client |-> Client(s), payload |-> p, found |-> {},
                answer |-> "none", shown |-> {}]]
    <3>1. /\ Importing(r)' /\ request'[r].answer = "none"
          /\ RowAt(r)' = RowOf(Client(s), p)
      BY <1>1, <2>4 DEF Importing, RowAt
    <3>2. /\ Asked' = [Asked EXCEPT ![r] = {RowOf(Client(s), p)}]
          /\ Told' = Told
      BY <1>4, <2>1, <3>1 DEF Asked, Told
    <3>3. Done' = Done
      <4>1. request'[r].pc # "stored"
        BY <1>1, <2>4
      <4>2. QED
        BY <1>4, <2>1, <4>1 DEF Done, Result
    <3>4. RowOf(Client(s), p) \in Row /\ ~RowOf(Client(s), p).frozen
      BY <1>2, RowOfFacts
    <3>5. Submissions!Submit(r)
      BY <1>1, <2>2, <3>2, <3>3, <3>4
      DEF Submissions!Submit, Submissions!Open, Asked, Told, Done
    <3>6. QED
      BY <3>5 DEF Submissions!Next
  <2>5. QED
    BY <1>8, <2>3, <2>4 DEF Receive
<1>9. QED
  BY <1>5, <1>6, <1>7, <1>8

\* Every step is one of Register or nothing that it sees.
LEMMA StepImplements ==
  RegisterInv /\ [Next]_vars => Submissions!Next \/ UNCHANGED Submissions!vars
<1> SUFFICES ASSUME RegisterInv, [Next]_vars
             PROVE  Submissions!Next \/ UNCHANGED Submissions!vars
  OBVIOUS
<1>1. ASSUME UNCHANGED <<invoices, request>>
      PROVE  UNCHANGED Submissions!vars
  BY <1>1 DEF Submissions!vars, Importing, RowAt, Result
<1>2. ASSUME NEW r \in Requests, Import(r)
      PROVE  Submissions!Next \/ UNCHANGED Submissions!vars
  BY <1>2, SaveImplements, ImportImplements, ReplyImplements DEF Import
<1>3. ASSUME NEW inv \in invoices, Communicate(inv)
      PROVE  Submissions!Next
  <2>1. /\ ~inv.frozen /\ UNCHANGED request
        /\ invoices' = (invoices \ {inv}) \cup {[inv EXCEPT !.frozen = TRUE]}
    BY <1>3 DEF Communicate
  <2>2. Submissions!Freeze(inv)
    BY <2>1 DEF Submissions!Freeze, Importing, RowAt, Result
  <2>3. QED
    BY <2>2 DEF Submissions!Next
<1>4. CASE Next
  BY <1>1, <1>2, <1>3, <1>4, RequestImplements, AccessStep DEF Next
<1>5. CASE UNCHANGED vars
  BY <1>1, <1>5 DEF vars
<1>6. QED
  BY <1>4, <1>5

-----------------------------------------------------------------------------
(* The theorems.                                                           *)

\* The register's invariant holds for any number of sources and threads,
\* whatever they bring (services.py, import_document).
THEOREM Invariant == Spec => []RegisterInv
BY InitInv, NextInv, PTL DEF Spec

\* What threads remember and the table holds stays in its types.
THEOREM TypeCorrect == Spec => []TypeOK
<1>1. RegisterInv => TypeOK
  BY DEF RegisterInv
<1>2. QED
  BY <1>1, Invariant, PTL

\* There is never a second row for a document of a source or for a fiscal
\* number of a company (models.py, the constraints; services.py, import_document).
THEOREM OneRow == Spec => []OneRowPerDocument
<1>1. RegisterInv => OneRowPerDocument
  BY DEF RegisterInv
<1>2. QED
  BY <1>1, Invariant, PTL

\* A row read to be overwritten is neither sent nor changed before it is
\* (services.py, select_for_update).
THEOREM HeldStays == Spec => []HeldStaysAsRead
<1>1. RegisterInv => HeldStaysAsRead
  BY DEF RegisterInv
<1>2. QED
  BY <1>1, Invariant, PTL

\* However their statements interleave, requests do to the register what they
\* would one at a time, and are told the truth about it, after it is done; an
\* error may come before or after that (services.py, import_document; views.py,
\* DocumentListView.post).
THEOREM Implements == Spec => RegisterSpec
<1>1. Init => Submissions!Init
  <2> SUFFICES ASSUME Init PROVE Submissions!Init
    OBVIOUS
  <2>1. \A r \in Requests : /\ ~Importing(r) /\ request[r].answer = "none"
                           /\ request[r].pc # "stored"
    BY DEF Init, Idle, Importing
  <2>2. QED
    BY <2>1 DEF Init, Submissions!Init, Submissions!Open
<1>2. QED
  BY <1>1, Invariant, StepImplements, PTL DEF Spec, RegisterSpec, Submissions!Spec

-----------------------------------------------------------------------------
(* Whose documents are shown.  A request finds a row by company, code and  *)
(* id, and takes it for one of its own source.                             *)

\* A source bears a code: it has it, or one of its documents, or one of its
\* requests at work, goes on under it.
Bears(s, c) ==
  \/ code[s] = c
  \/ \E inv \in invoices : inv.source = s /\ inv.code = c
  \/ \E r \in Requests :
       /\ Importing(r)
       /\ request[r].client.source = s /\ request[r].client.code = c

CodesApart ==
  \A s, t \in Sources, c \in Codes :
    CompanyOf[s] = CompanyOf[t] /\ Bears(s, c) /\ Bears(t, c) => s = t

RowsAtHome == \A inv \in invoices : inv.company = CompanyOf[inv.source]

\* With RegisterInv, what every answer relies on: no code leads to the
\* documents of two sources of a company.
OwnerInv == RegisterInv /\ CodesApart /\ RowsAtHome /\ OnlyOwnDocumentsShown

\* A new code of a source is one that no other source of the company bears.
\* Rename asks this of the codes the sources have, not of their requests at
\* work or of the documents those leave behind.
CodesAreNotTakenOver ==
  [][\A s, t \in Sources :
       /\ code'[s] # code[s]
       /\ s # t /\ CompanyOf[s] = CompanyOf[t]
       => ~Bears(t, code'[s])]_vars

\* As long as no code was changed, everybody bears the code given at first.
FirstCodes ==
  renamed = 0 => \A s \in Sources, c \in Codes : Bears(s, c) => c = FirstCode[s]

RenameInv == RegisterInv /\ FirstCodes /\ renamed \in Nat

\* The statements of import_document go on to the next, or answer.
LEMMA ImportMoves ==
  ASSUME RegisterInv, NEW r \in Requests, Import(r)
  PROVE  /\ Importing(r)
         /\ \/ \E pc \in AtWork, found \in SUBSET Row :
                 Go(r, pc, found)
            \/ \E outcome \in Outcomes, shown \in SUBSET Row :
                 /\ Answer(r, outcome, shown)
                 /\ \A inv \in shown : \/ inv \in OwnRow(r)
                                       \/ inv.source = request[r].client.source
<1> DEFINE Moved ==
      /\ Importing(r)
      /\ \/ \E pc \in AtWork, found \in SUBSET Row :
              Go(r, pc, found)
         \/ \E outcome \in Outcomes, shown \in SUBSET Row :
              /\ Answer(r, outcome, shown)
              /\ \A inv \in shown : \/ inv \in OwnRow(r)
                                    \/ inv.source = request[r].client.source
<1> SUFFICES Moved
  OBVIOUS
<1>1. Importing(r) /\ invoices \in SUBSET Row
  BY DEF Import, Importing, Lookup, CheckNumber, Save, LookAgain, Reply, RegisterInv, TypeOK
<1>2. request[r].found \in SUBSET Row /\ RowAt(r) \in Row
  BY <1>1, ImportingFacts DEF RegisterInv
<1>3. ASSUME NEW way \in SUBSET invoices, Conflict(r, way)
      PROVE  Moved
  <2> DEFINE shown == ShownOfConflict(request[r].client, way)
  <2>1. Answer(r, "conflict", shown)
    BY <1>3 DEF Conflict
  <2>2. shown \in SUBSET Row /\ \A inv \in shown : inv.source = request[r].client.source
    BY <1>1 DEF ShownOfConflict
  <2> HIDE DEF shown
  <2>3. "conflict" \in Outcomes
    BY DEF Outcomes
  <2>4. QED
    BY <1>1, <2>1, <2>2, <2>3
<1>4. ASSUME NEW inv \in OwnRow(r), Answer(r, "duplicate", {inv})
      PROVE  Moved
  <2>1. {inv} \in SUBSET Row /\ "duplicate" \in Outcomes
    BY <1>1 DEF OwnRow, Outcomes
  <2>2. QED
    BY <1>1, <1>4, <2>1
<1>5. CASE Lookup(r)
  <2>1. CASE OwnRow(r) = {} /\ Go(r, "number", {})
    BY <1>1, <2>1
  <2>2. ASSUME NEW inv \in OwnRow(r), Go(r, "number", {inv})
        PROVE  Moved
    BY <1>1, <2>2 DEF OwnRow
  <2>3. ASSUME NEW inv \in OwnRow(r), Conflict(r, {inv})
        PROVE  Moved
    BY <1>3, <2>3 DEF OwnRow
  <2>4. QED
    BY <1>4, <1>5, <2>1, <2>2, <2>3 DEF Lookup
<1>6. CASE CheckNumber(r)
  <2>1. CASE Go(r, "save", request[r].found)
    BY <1>1, <1>2, <2>1
  <2>2. ASSUME NEW inv \in invoices, Conflict(r, {inv})
        PROVE  Moved
    BY <1>3, <2>2
  <2>3. QED
    BY <1>6, <2>1, <2>2 DEF CheckNumber
<1>7. CASE Save(r)
  <2>1. CASE Go(r, "again", {})
    BY <1>1, <2>1
  <2>2. CASE Go(r, "stored", request[r].found)
    BY <1>1, <1>2, <2>2
  <2>3. QED
    BY <1>7, <2>1, <2>2 DEF Save
<1>8. CASE LookAgain(r)
  BY <1>3, <1>4, <1>8 DEF LookAgain
<1>9. CASE Reply(r)
  <2>1. Answer(r, Result(r), {RowAt(r)}) /\ Result(r) \in Outcomes
    BY <1>9 DEF Reply, Result, Outcomes
  <2>2. \A inv \in {RowAt(r)} : inv.source = request[r].client.source
    BY DEF RowAt, RowOf
  <2>3. {RowAt(r)} \in SUBSET Row
    BY <1>2
  <2>4. QED
    BY <1>1, <2>1, <2>2, <2>3
<1>10. QED
  BY <1>5, <1>6, <1>7, <1>8, <1>9 DEF Import

\* Requests at work keep their clients; a new one has the code of its source.
LEMMA ClientsAfter ==
  ASSUME RegisterInv, Next, NEW q \in Requests, Importing(q)'
  PROVE  \/ Importing(q) /\ request'[q].client = request[q].client
         \/ \E s \in Sources : request'[q].client = Client(s)
<1>1. TypeOK /\ TypeOK'
  BY NextInv DEF RegisterInv
<1>2. CASE UNCHANGED request
  BY <1>2 DEF Importing
<1>3. ASSUME NEW r \in Requests, Importing(r),
             NEW pc \in AtWork,
             NEW found \in SUBSET Row, Go(r, pc, found)
      PROVE  Importing(q) /\ request'[q].client = request[q].client
  BY <1>1, <1>3, GoFacts DEF Importing
<1>4. ASSUME NEW r \in Requests, NEW client \in Clients, NEW outcome \in Outcomes,
             NEW shown \in SUBSET Row,
             request' = [request EXCEPT ![r] = Answered(client, outcome, shown)]
      PROVE  Importing(q) /\ request'[q].client = request[q].client
  <2>1. q # r /\ request'[q] = request[q]
    BY <1>1, <1>4, AnswerFacts DEF Importing
  <2>2. QED
    BY <2>1 DEF Importing
<1>5. ASSUME NEW r \in Requests, Importing(r), NEW outcome \in Outcomes,
             NEW shown \in SUBSET Row, Answer(r, outcome, shown)
      PROVE  Importing(q) /\ request'[q].client = request[q].client
  BY <1>1, <1>4, <1>5, ImportingFacts DEF Answer
<1>6. ASSUME NEW r \in Requests, Import(r)
      PROVE  Importing(q) /\ request'[q].client = request[q].client
  BY <1>1, <1>3, <1>5, <1>6, ImportMoves
<1>7. ASSUME NEW r \in Requests, Fail(r)
      PROVE  Importing(q) /\ request'[q].client = request[q].client
  BY <1>5, <1>7 DEF Fail, Importing, Outcomes
<1>8. ASSUME NEW r \in Requests, Leave(r)
      PROVE  Importing(q) /\ request'[q].client = request[q].client
  <2>1. q # r /\ request'[q] = request[q]
    BY <1>1, <1>8 DEF Leave, Importing, Idle, TypeOK
  <2>2. QED
    BY <2>1 DEF Importing
<1>9. ASSUME NEW r \in Requests, NEW s \in Sources, Consult(r, s)
      PROVE  Importing(q) /\ request'[q].client = request[q].client
  <2>1. PICK shown \in SUBSET Row :
          request' = [request EXCEPT ![r] = Answered(Client(s), "none", shown)]
    BY <1>1, <1>9 DEF Consult, TypeOK
  <2>2. Client(s) \in Clients
    BY <1>1 DEF Client, Clients, TypeOK
  <2>3. QED
    BY <1>4, <2>1, <2>2 DEF Outcomes
<1>10. ASSUME NEW r \in Requests, NEW s \in Sources, NEW p \in Payloads, Receive(r, s, p)
       PROVE  \/ Importing(q) /\ request'[q].client = request[q].client
              \/ request'[q].client = Client(s)
  BY <1>1, <1>10 DEF Receive, TypeOK, Importing, Answered
<1>11. QED
  BY <1>2, <1>6, <1>7, <1>8, <1>9, <1>10 DEF Next, LetIn, ShutOut, Rename, Communicate

\* A row after a step is one that was there, as far as its owner goes, or the
\* row of a request at work.
LEMMA RowsAfter ==
  ASSUME RegisterInv, Next, NEW inv \in invoices'
  PROVE  \/ \E old \in invoices : /\ inv.source = old.source
                                  /\ inv.company = old.company /\ inv.code = old.code
         \/ \E r \in Requests : Importing(r) /\ inv = RowAt(r)
<1>1. CASE UNCHANGED invoices
  BY <1>1
<1>2. ASSUME NEW r \in Requests, Save(r), inv \notin invoices
      PROVE  Importing(r) /\ inv = RowAt(r)
  BY <1>2 DEF Save, Importing
<1>3. ASSUME NEW sent \in invoices, Communicate(sent)
      PROVE  \E old \in invoices : /\ inv.source = old.source
                                   /\ inv.company = old.company /\ inv.code = old.code
  <2>1. sent \in Row /\ invoices' = (invoices \ {sent}) \cup {[sent EXCEPT !.frozen = TRUE]}
    BY <1>3 DEF Communicate, RegisterInv, TypeOK
  <2>2. CASE inv \in invoices
    BY <2>2
  <2>3. CASE inv = [sent EXCEPT !.frozen = TRUE]
    BY <2>1, <2>3 DEF Row
  <2>4. QED
    BY <2>1, <2>2, <2>3
<1>4. QED
  BY <1>1, <1>2, <1>3
  DEF Next, LetIn, ShutOut, Rename, Consult, Receive, Import, Lookup, CheckNumber,
      LookAgain, Reply, Fail, Leave

\* A source comes to bear a code only by being given it.
LEMMA BearersAfter ==
  ASSUME RegisterInv, Next, NEW s \in Sources, NEW c, Bears(s, c)'
  PROVE  Bears(s, c) \/ (code'[s] # code[s] /\ code'[s] = c)
<1>1. CASE code'[s] = c
  BY <1>1 DEF Bears
<1>2. ASSUME NEW inv \in invoices', inv.source = s, inv.code = c
      PROVE  Bears(s, c)
  <2>1. ASSUME NEW r \in Requests, Importing(r), inv = RowAt(r)
        PROVE  Bears(s, c)
    BY <1>2, <2>1 DEF Bears, RowAt, RowOf
  <2>2. QED
    BY <1>2, <2>1, RowsAfter DEF Bears
<1>3. ASSUME NEW q \in Requests, Importing(q)', request'[q].client.source = s,
             request'[q].client.code = c
      PROVE  Bears(s, c)
  <2>1. CASE Importing(q) /\ request'[q].client = request[q].client
    BY <1>3, <2>1 DEF Bears
  <2>2. ASSUME NEW t \in Sources, request'[q].client = Client(t)
        PROVE  Bears(s, c)
    BY <1>3, <2>2 DEF Bears, Client
  <2>3. QED
    BY <1>3, <2>1, <2>2, ClientsAfter
<1>4. QED
  BY <1>1, <1>2, <1>3 DEF Bears

\* What a request finds under the code of its client is of its own source.
LEMMA OwnRowIsOwn ==
  ASSUME OwnerInv, NEW r \in Requests, Importing(r), NEW inv \in OwnRow(r)
  PROVE  inv.source = request[r].client.source
<1>1. request[r].client \in Clients /\ inv \in invoices /\ inv \in Row
  BY ImportingFacts DEF OwnerInv, RegisterInv, TypeOK, OwnRow
<1>2. inv.company = CompanyOf[request[r].client.source] /\ inv.code = request[r].client.code
  BY DEF OwnRow, SameId, RowAt, RowOf
<1>3. /\ inv.source \in Sources /\ request[r].client.source \in Sources
      /\ inv.code \in Codes
  BY <1>1 DEF Row, Clients
<1>4. Bears(inv.source, inv.code) /\ Bears(request[r].client.source, inv.code)
  BY <1>1, <1>2 DEF Bears
<1>5. CompanyOf[inv.source] = CompanyOf[request[r].client.source]
  BY <1>1, <1>2 DEF OwnerInv, RowsAtHome
<1>6. QED
  BY <1>3, <1>4, <1>5 DEF OwnerInv, CodesApart

\* No step puts a document of another source into an answer.
LEMMA AnswersAfter ==
  ASSUME OwnerInv, Next
  PROVE  OnlyOwnDocumentsShown'
<1>1. TypeOK /\ RegisterInv /\ OnlyOwnDocumentsShown
  BY DEF OwnerInv, RegisterInv
<1> SUFFICES ASSUME NEW q \in Requests
             PROVE  \A inv \in request'[q].shown : inv.source = request'[q].client.source
  BY DEF OnlyOwnDocumentsShown
<1> DEFINE Own == \A inv \in request'[q].shown : inv.source = request'[q].client.source
<1>2. CASE request'[q] = request[q]
  BY <1>1, <1>2 DEF OnlyOwnDocumentsShown
<1>3. ASSUME NEW r \in Requests, NEW client \in Clients, NEW outcome \in Outcomes,
             NEW shown \in SUBSET Row,
             request' = [request EXCEPT ![r] = Answered(client, outcome, shown)],
             \A inv \in shown : inv.source = client.source
      PROVE  Own
  <2>1. CASE q # r
    BY <1>1, <1>2, <1>3, <2>1 DEF TypeOK
  <2>2. CASE q = r
    BY <1>1, <1>3, <2>2 DEF TypeOK, Answered
  <2>3. QED
    BY <2>1, <2>2
<1>4. ASSUME NEW r \in Requests, Import(r)
      PROVE  Own
  <2>1. Importing(r) /\ request[r].client \in Clients /\ request[r].shown = {}
    BY <1>1, <1>4, ImportMoves, ImportingFacts
  <2>2. ASSUME NEW pc \in AtWork,
               NEW found \in SUBSET Row, Go(r, pc, found)
        PROVE  Own
    <3>1. CASE q # r
      BY <1>1, <1>2, <2>1, <2>2, <3>1, GoFacts
    <3>2. CASE q = r
      <4>1. /\ request[r] \in [pc : AtWork, client : Clients,
                               payload : Payloads, found : SUBSET Row, answer : {"none"},
                               shown : {{}}]
            /\ request \in [Requests -> RequestStates]
        BY <1>1, <2>1, ImportingFacts DEF TypeOK
      <4>2. request'[r].shown = {}
        BY <2>1, <2>2, <4>1 DEF Go
      <4>3. QED
        BY <3>2, <4>2
    <3>3. QED
      BY <3>1, <3>2
  <2>3. ASSUME NEW outcome \in Outcomes, NEW shown \in SUBSET Row,
               Answer(r, outcome, shown),
               \A inv \in shown : inv \in OwnRow(r) \/ inv.source = request[r].client.source
        PROVE  Own
    <3>1. \A inv \in shown : inv.source = request[r].client.source
      BY <2>1, <2>3, OwnRowIsOwn
    <3>2. QED
      BY <1>3, <2>1, <2>3, <3>1 DEF Answer
  <2>4. QED
    BY <1>1, <1>4, <2>2, <2>3, ImportMoves
<1>5. ASSUME NEW r \in Requests, Fail(r)
      PROVE  Own
  <2>1. request[r].client \in Clients /\ "failed" \in Outcomes /\ {} \in SUBSET Row
    BY <1>1, <1>5, ImportingFacts DEF Fail, Importing, Outcomes
  <2>2. QED
    BY <1>3, <1>5, <2>1 DEF Fail, Answer
<1>6. ASSUME NEW r \in Requests, Leave(r)
      PROVE  Own
  BY <1>1, <1>2, <1>6 DEF Leave, Idle, TypeOK
<1>7. ASSUME NEW r \in Requests, NEW s \in Sources, Consult(r, s)
      PROVE  Own
  <2>1. PICK shown \in SUBSET Row :
          /\ request' = [request EXCEPT ![r] = Answered(Client(s), "none", shown)]
          /\ \A inv \in shown : inv.source = s
    BY <1>1, <1>7 DEF Consult, TypeOK
  <2>2. Client(s) \in Clients /\ Client(s).source = s /\ "none" \in Outcomes
    BY <1>1 DEF Client, Clients, TypeOK, Outcomes
  <2>3. QED
    BY <1>3, <2>1, <2>2
<1>8. ASSUME NEW r \in Requests, NEW s \in Sources, NEW p \in Payloads, Receive(r, s, p)
      PROVE  Own
  BY <1>1, <1>2, <1>8 DEF Receive, TypeOK, Answered
<1>9. QED
  BY <1>2, <1>4, <1>5, <1>6, <1>7, <1>8 DEF Next, LetIn, ShutOut, Rename, Communicate

\* The owners stay apart over a step that takes over no code.
LEMMA OwnersStep ==
  ASSUME OwnerInv, [Next]_vars,
         \A s, t \in Sources :
           /\ code'[s] # code[s]
           /\ s # t /\ CompanyOf[s] = CompanyOf[t]
           => ~Bears(t, code'[s])
  PROVE  OwnerInv'
<1>1. RegisterInv /\ RegisterInv'
  BY NextInv DEF OwnerInv
<1>2. CASE UNCHANGED vars
  BY <1>1, <1>2
  DEF OwnerInv, vars, CodesApart, Bears, Importing, RowsAtHome, OnlyOwnDocumentsShown
<1>3. CASE Next
  <2>1. CodesApart'
    <3> SUFFICES ASSUME NEW s \in Sources, NEW t \in Sources, NEW c \in Codes,
                        CompanyOf[s] = CompanyOf[t], Bears(s, c)', Bears(t, c)',
                        s # t
                 PROVE  FALSE
      BY DEF CodesApart
    <3>1. \/ Bears(s, c)
          \/ code'[s] # code[s] /\ code'[s] = c
      BY <1>1, <1>3, BearersAfter
    <3>2. \/ Bears(t, c)
          \/ code'[t] # code[t] /\ code'[t] = c
      BY <1>1, <1>3, BearersAfter
    <3>3. ~(code'[s] # code[s] /\ code'[t] # code[t])
      <4>1. CASE \E x \in Sources, d \in Codes : Rename(x, d)
        BY <1>1, <4>1 DEF Rename, RegisterInv, TypeOK
      <4>2. CASE ~\E x \in Sources, d \in Codes : Rename(x, d)
        BY <1>3, <4>2
        DEF Next, LetIn, ShutOut, Consult, Receive, Import, Lookup, CheckNumber, Save,
            LookAgain, Reply, Fail, Leave, Communicate
      <4>3. QED
        BY <4>1, <4>2
    <3>4. QED
      BY <3>1, <3>2, <3>3 DEF OwnerInv, CodesApart
  <2>2. RowsAtHome'
    BY <1>1, <1>3, RowsAfter DEF OwnerInv, RowsAtHome, RowAt, RowOf
  <2>3. QED
    BY <1>1, <1>3, <2>1, <2>2, AnswersAfter DEF OwnerInv
<1>4. QED
  BY <1>2, <1>3

\* At first each source of a company has a code of its own and there is
\* nothing to show.
LEMMA InitOwners == Init => OwnerInv /\ RenameInv
<1> SUFFICES ASSUME Init PROVE OwnerInv /\ RenameInv
  OBVIOUS
<1>1. RegisterInv /\ \A r \in Requests : request[r] = Idle
  BY InitInv DEF Init
<1>2. \A s \in Sources, c \in Codes : Bears(s, c) => c = FirstCode[s]
  BY <1>1 DEF Init, Bears, Importing, Idle
<1>3. CodesApart
  BY <1>2, RegistryAssumption DEF CodesApart
<1>4. RowsAtHome /\ OnlyOwnDocumentsShown
  BY <1>1 DEF Init, RowsAtHome, OnlyOwnDocumentsShown, Idle
<1>5. FirstCodes /\ renamed \in Nat
  BY <1>2 DEF Init, FirstCodes
<1>6. QED
  BY <1>1, <1>3, <1>4, <1>5 DEF OwnerInv, RenameInv

\* Until the first change everybody bears the first codes, and a code that is
\* free then is borne by nobody.
LEMMA RenameStep ==
  ASSUME Renames \in {0, 1}, RenameInv, [Next]_vars
  PROVE  /\ RenameInv'
         /\ \A s, t \in Sources :
              /\ code'[s] # code[s]
              /\ s # t /\ CompanyOf[s] = CompanyOf[t]
              => ~Bears(t, code'[s])
<1>1. RegisterInv /\ RegisterInv' /\ renamed \in Nat
  BY NextInv DEF RenameInv
<1>2. CASE UNCHANGED <<renamed, code>>
  <2>1. FirstCodes'
    <3>1. CASE UNCHANGED vars
      BY <3>1 DEF RenameInv, FirstCodes, vars, Bears, Importing
    <3>2. CASE Next
      BY <1>1, <1>2, <3>2, BearersAfter DEF RenameInv, FirstCodes
    <3>3. QED
      BY <3>1, <3>2
  <2>2. QED
    BY <1>1, <1>2, <2>1 DEF RenameInv
<1>3. ASSUME NEW s \in Sources, NEW c \in Codes, Rename(s, c)
      PROVE  /\ RenameInv'
             /\ \A x, t \in Sources :
                  /\ code'[x] # code[x]
                  /\ x # t /\ CompanyOf[x] = CompanyOf[t]
                  => ~Bears(t, code'[x])
  <2>1. renamed = 0 /\ renamed' = 1
    BY <1>1, <1>3 DEF Rename
  <2>2. \A t \in Sources : CompanyOf[t] = CompanyOf[s] => c # FirstCode[t]
    <3>1. \A t \in Sources : code[t] \in Codes /\ Bears(t, code[t])
      BY <1>1 DEF RegisterInv, TypeOK, Bears
    <3>2. \A t \in Sources : code[t] = FirstCode[t]
      BY <2>1, <3>1 DEF RenameInv, FirstCodes
    <3>3. QED
      BY <1>3, <3>2 DEF Rename
  <2>3. \A t \in Sources : CompanyOf[t] = CompanyOf[s] => ~Bears(t, c)
    BY <2>1, <2>2 DEF RenameInv, FirstCodes
  <2>4. \A x \in Sources : code'[x] # code[x] => x = s /\ code'[x] = c
    BY <1>1, <1>3 DEF Rename, RegisterInv, TypeOK
  <2>5. RenameInv'
    BY <1>1, <2>1 DEF RenameInv, FirstCodes
  <2>6. QED
    BY <2>3, <2>4, <2>5
<1>4. CASE \E s \in Sources, c \in Codes : Rename(s, c)
  BY <1>3, <1>4
<1>5. CASE ~\E s \in Sources, c \in Codes : Rename(s, c)
  <2>1. UNCHANGED <<renamed, code>>
    BY <1>5
    DEF vars, Next, LetIn, ShutOut, Consult, Receive, Import, Lookup, CheckNumber, Save,
        LookAgain, Reply, Fail, Leave, Communicate
  <2>2. QED
    BY <1>2, <2>1
<1>6. QED
  BY <1>4, <1>5

\* However often codes change: no answer shows a document of another source,
\* as long as no code is given to a source while another of the company, or a
\* document or request that is under way, still bears it (views.py,
\* DocumentListView.post; services.py, import_document).
THEOREM OnlyOwnUnlessTakenOver ==
  Spec /\ CodesAreNotTakenOver => []OnlyOwnDocumentsShown
<1>1. OwnerInv => OnlyOwnDocumentsShown
  BY DEF OwnerInv
<1> DEFINE Apart == \A s, t \in Sources :
                      /\ code'[s] # code[s]
                      /\ s # t /\ CompanyOf[s] = CompanyOf[t]
                      => ~Bears(t, code'[s])
<1>2. OwnerInv /\ [Next]_vars /\ [Apart]_vars => OwnerInv'
  <2>1. CASE Apart
    BY <2>1, OwnersStep
  <2>2. CASE UNCHANGED vars
    BY <2>2
    DEF vars, OwnerInv, RegisterInv, TypeOK, OneRowPerDocument, HeldStaysAsRead,
        HeldIsOwn, Holding, RowAt, CodesApart, Bears, Importing, RowsAtHome,
        OnlyOwnDocumentsShown
  <2>3. QED
    BY <2>1, <2>2
<1>3. QED
  BY <1>1, <1>2, InitOwners, PTL DEF Spec, CodesAreNotTakenOver

\* That is so when the code of at most one source is changed, once.
THEOREM OnlyOwnDocuments ==
  ASSUME Renames \in {0, 1}
  PROVE  Spec => []OnlyOwnDocumentsShown
<1> DEFINE Apart == \A s, t \in Sources :
                      /\ code'[s] # code[s]
                      /\ s # t /\ CompanyOf[s] = CompanyOf[t]
                      => ~Bears(t, code'[s])
<1>1. RenameInv /\ [Next]_vars => RenameInv' /\ [Apart]_vars
  BY RenameStep
<1>2. QED
  BY <1>1, InitOwners, OnlyOwnUnlessTakenOver, PTL DEF Spec, CodesAreNotTakenOver


=============================================================================
