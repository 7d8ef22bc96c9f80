---------------------------- MODULE SetupProofs -----------------------------
(***************************************************************************)
(* Theorems about Setup, for any networks, servers, tabs, forms, times and *)
(* bounds: what the wizard is told goes where it was shown, is used while  *)
(* it is good, and does what was approved; the server tells of no right to *)
(* write of the users of its connections, and the connections that were    *)
(* saved open; the list leads to the servers it names, and to all those    *)
(* that the search has enough to find (GivenAway).                         *)
(***************************************************************************)
EXTENDS Setup, SumProofs, SequenceTheorems, TLAPS

-----------------------------------------------------------------------------
(* What the wizard relies on from page to page.                            *)

\* What was typed was typed for a server that took it, and is sealed with the
\* time at which it was.
SealedWhenTyped(t) ==
  On(t, "databases") \/ On(t, "confirm") =>
    /\ tab[t].access.at \in Nat
    /\ tab[t].access.data.typed = tab[t].access.at
    /\ Enters(tab[t].access.data.server)

\* A sealed plan is the one that the page shows.
ShownIsSealed(t) ==
  On(t, "confirm") =>
    /\ tab[t].approved = PlanAgain(tab[t].access.data.server, tab[t].plan.data)
    /\ tab[t].plan.data.database \in Databases

\* The plan that is executed was approved, and is one for the server entered.
Executing(t) ==
  On(t, "running") =>
    /\ tab[t] = [page |-> "running", server |-> tab[t].server,
                 typed |-> tab[t].typed, approved |-> tab[t].approved,
                 plan |-> tab[t].plan, done |-> tab[t].done]
    /\ tab[t].plan = tab[t].approved
    /\ tab[t].plan = Plan(tab[t].server, tab[t].plan.database,
                          tab[t].plan.password, tab[t].plan.login_host)
    /\ tab[t].plan.database \in Databases
    /\ Enters(tab[t].server)

PageInv(t) ==
  SealedWhenTyped(t) /\ ShownIsSealed(t) /\ Executing(t)

PagesInv ==
  /\ tab = [t \in Tabs |-> tab[t]]
  /\ now \in Nat /\ edits \in Nat
  /\ \A t \in Tabs : PageInv(t)

-----------------------------------------------------------------------------
(* What it relies on of the accounts.                                      *)

\* Accounts that were not there before have no right but to read.
AccountsInv ==
  \A a \in DOMAIN accounts :
    /\ {"reads", "rights"} \subseteq DOMAIN accounts[a]
    /\ accounts[a].reads \subseteq Databases
    /\ a \notin DOMAIN Rights => accounts[a].rights = {}

\* The statements that are done did what they are for, and nothing undid it.
DoneInv(t) ==
  On(t, "running") =>
    LET plan == tab[t].plan
    IN  /\ tab[t].done \in 0..Len(plan.statements)
        /\ tab[t].done > 0 => plan.account \in DOMAIN accounts
        /\ tab[t].done = Len(plan.statements) =>
             plan.database \in accounts[plan.account].reads

UsersInv == PagesInv /\ AccountsInv /\ \A t \in Tabs : DoneInv(t)

-----------------------------------------------------------------------------
(* What it relies on of the connections.                                   *)

\* Rows are complete, whatever was saved over them, and a stored URL is not
\* empty.
SourceSound(src) ==
  /\ {"mode", "engine", "host", "port", "name", "user", "options", "connection",
      "driver", "password", "url"} \subseteq DOMAIN src
  /\ SourceErrors(src) = {}
  /\ src.engine \in SUPPORTED_ENGINES \cup {"", "url"}
  /\ src.url.text = "" => src.url = NoSecret

SourcesInv == PagesInv /\ \A src \in sources : SourceSound(src)

-----------------------------------------------------------------------------
(* Steps of the wizard from page to page.                                  *)

\* The tab that takes a step shows the page it makes; the others stay.
LEMMA TurnFacts ==
  ASSUME PagesInv, NEW t \in Tabs, NEW page, Turn(t, page)
  PROVE  /\ tab' = [u \in Tabs |-> tab'[u]]
         /\ tab'[t] = page
         /\ \A u \in Tabs : u # t => tab'[u] = tab[u]
BY DEF PagesInv, Turn

\* A tab keeps what holds for it while others take steps.
LEMMA PageKept ==
  ASSUME PagesInv, NEW u \in Tabs, tab'[u] = tab[u], UNCHANGED world
  PROVE  PageInv(u)'
<1>1. PageInv(u)
  BY DEF PagesInv
<1>2. QED
  BY <1>1
  DEF PageInv, SealedWhenTyped, ShownIsSealed, Executing, On, Enters, PlanAgain, Plan,
      Account

\* A step of one tab preserves the invariant when the page it makes is sound.
LEMMA TurnKeeps ==
  ASSUME PagesInv, NEW t \in Tabs, NEW page, Turn(t, page), UNCHANGED world, now' = now, edits' = edits,
         tab'[t] = page => PageInv(t)'
  PROVE  PagesInv'
BY TurnFacts, PageKept DEF PagesInv

\* Leaving the wizard is always sound.
LEMMA NoPageSound ==
  ASSUME NEW t \in Tabs, tab'[t] = NoPage
  PROVE  PageInv(t)'
BY DEF PageInv, SealedWhenTyped, ShownIsSealed, Executing, On

\* Searching turns no page.
LEMMA SearchStep ==
  ASSUME PagesInv, NEW t \in Tabs, NEW network, SetupStart(t, network)
  PROVE  PagesInv'
BY PageKept DEF SetupStart, PagesInv

\* A page of an entry, or of what is typed in.
LEMMA OpenStep ==
  ASSUME PagesInv, NEW t \in Tabs,
         \/ \E i \in DOMAIN servers : OpenConnect(t, i)
         \/ \E s \in ByHand : OpenTyped(t, s)
  PROVE  PagesInv'
<1>1. ASSUME NEW s, NEW i, Turn(t, [page |-> "connect", shown |-> s, index |-> i]),
             UNCHANGED <<world, now, edits>>
      PROVE  PagesInv'
  <2>1. tab'[t] = [page |-> "connect", shown |-> s, index |-> i]
    BY <1>1, TurnFacts
  <2>2. PageInv(t)'
    BY <2>1 DEF PageInv, SealedWhenTyped, ShownIsSealed, Executing, On
  <2>3. QED
    BY <1>1, <2>2, TurnKeeps
<1>2. QED
  BY <1>1 DEF OpenConnect, OpenTyped

\* Entering a server seals what was typed with the time; a refusal shows the
\* entry again.
LEMMA ConnectStep ==
  ASSUME PagesInv, NEW t \in Tabs, SetupConnect(t)
  PROVE  PagesInv'
<1>1. /\ On(t, "connect") /\ PageInv(t) /\ now \in Nat
      /\ UNCHANGED <<world, now, edits>>
  BY DEF SetupConnect, PagesInv
<1>2. ASSUME NEW s \in Entered(t), Enters(s),
             Turn(t, [page |-> "databases", overview |-> Overview(s),
                      access |-> Seal([server |-> s, typed |-> now], now, cipher)])
      PROVE  PagesInv'
  <2>1. tab'[t] = [page |-> "databases", overview |-> Overview(s),
                   access |-> Seal([server |-> s, typed |-> now], now, cipher)]
    BY <1>2, TurnFacts
  <2>2. SealedWhenTyped(t)'
    BY <1>1, <1>2, <2>1 DEF SealedWhenTyped, Seal, Enters
  <2>3. PageInv(t)'
    BY <2>1, <2>2 DEF PageInv, ShownIsSealed, Executing, On
  <2>4. QED
    BY <1>1, <1>2, <2>3, TurnKeeps
<1>3. ASSUME NEW s \in Entered(t),
             Turn(t, [page |-> "connect", shown |-> s, index |-> tab[t].index])
      PROVE  PagesInv'
  <2>1. tab'[t] = [page |-> "connect", shown |-> s, index |-> tab[t].index]
    BY <1>3, TurnFacts
  <2>2. PageInv(t)'
    BY <2>1 DEF PageInv, SealedWhenTyped, ShownIsSealed, Executing, On
  <2>3. QED
    BY <1>1, <1>3, <2>2, TurnKeeps
<1>4. CASE Turn(t, NoPage)
  BY <1>1, <1>4, TurnFacts, TurnKeeps, NoPageSound
<1>5. QED
  BY <1>2, <1>3, <1>4 DEF SetupConnect

\* The page of a plan shows what it seals.
LEMMA ShowPlanStep ==
  ASSUME PagesInv, NEW t \in Tabs, NEW d \in Databases, ShowPlan(t, d)
  PROVE  PagesInv'
<1> DEFINE s      == tab[t].access.data.server
           shown  == Plan(s, d, Passwords[plans + 1], LoginHost(s))
           sealed == [database |-> d, password |-> shown.password,
                      login_host |-> shown.login_host]
           page   == [page |-> "confirm", access |-> tab[t].access, approved |-> shown,
                      plan |-> Seal(sealed, now, cipher)]
<1>1. /\ On(t, "databases") /\ PageInv(t) /\ Turn(t, page)
      /\ UNCHANGED <<world, now, edits>>
  BY DEF ShowPlan, ForTheNextPage, PagesInv
<1>2. tab'[t] = page
  BY <1>1, TurnFacts
<1>3. shown = PlanAgain(s, sealed)
  BY DEF Plan, PlanAgain
<1>4. SealedWhenTyped(t)'
  BY <1>1, <1>2 DEF PageInv, SealedWhenTyped, Enters
<1>5. ShownIsSealed(t)'
  <2>1. /\ tab'[t].access = tab[t].access
        /\ tab'[t].approved = shown /\ tab'[t].plan.data = sealed
    BY <1>2 DEF Seal
  <2>2. QED
    BY <1>1, <1>3, <2>1 DEF ShownIsSealed, PlanAgain, Plan, Account
<1>6. PageInv(t)'
  BY <1>2, <1>4, <1>5 DEF PageInv, Executing, On
<1>7. QED
  BY <1>1, <1>6, TurnKeeps

\* What is executed is made of what was sealed.
LEMMA ProvisionStep ==
  ASSUME PagesInv, NEW t \in Tabs, SetupProvision(t)
  PROVE  PagesInv'
<1> DEFINE s      == tab[t].access.data.server
           sealed == tab[t].plan.data
           page   == [page |-> "running", server |-> s, typed |-> tab[t].access.data.typed,
                      approved |-> tab[t].approved, plan |-> PlanAgain(s, sealed), done |-> 0]
<1>1. /\ On(t, "confirm") /\ PageInv(t) /\ Turn(t, page)
      /\ UNCHANGED <<world, now, edits>>
  BY DEF SetupProvision, PagesInv
<1>2. tab'[t] = page
  BY <1>1, TurnFacts
<1>3. /\ Enters(s) /\ tab[t].approved = PlanAgain(s, sealed)
      /\ sealed.database \in Databases
  BY <1>1 DEF PageInv, SealedWhenTyped, ShownIsSealed
<1>4. Executing(t)'
  <2> DEFINE plan == PlanAgain(s, sealed)
  <2>1. plan = Plan(s, plan.database, plan.password, plan.login_host)
    BY DEF PlanAgain, Plan
  <2>2. plan.database = sealed.database
    BY DEF PlanAgain, Plan
  <2> HIDE DEF plan
  <2>3. tab'[t] = [page |-> "running", server |-> s, typed |-> tab[t].access.data.typed,
                   approved |-> plan, plan |-> plan, done |-> 0]
    BY <1>2, <1>3 DEF plan
  <2>4. Plan(s, plan.database, plan.password, plan.login_host)
          = Plan(tab[t].server, tab[t].plan.database,
                 tab[t].plan.password, tab[t].plan.login_host)'
    BY <1>1, <2>3 DEF Plan, Account
  <2>5. Enters(tab[t].server)'
    BY <1>1, <1>3, <2>3 DEF Enters
  <2>6. QED
    BY <1>3, <2>1, <2>2, <2>3, <2>4, <2>5 DEF Executing
<1>5. PageInv(t)'
  BY <1>2, <1>4 DEF PageInv, SealedWhenTyped, ShownIsSealed, On
<1>6. QED
  BY <1>1, <1>5, TurnKeeps

\* Statements are counted.
LEMMA ExecuteTurns ==
  ASSUME PagesInv, NEW t \in Tabs, Execute(t)
  PROVE  /\ PagesInv'
         /\ On(t, "running") /\ tab'[t].page = "running"
         /\ tab'[t].plan = tab[t].plan /\ tab'[t].done = tab[t].done + 1
<1>1. /\ On(t, "running") /\ PageInv(t)
      /\ UNCHANGED <<world, now, edits>>
      /\ Turn(t, [tab[t] EXCEPT !.done = @ + 1])
  BY DEF Execute, PagesInv
<1>2. /\ tab[t] = [page |-> "running", server |-> tab[t].server,
                   typed |-> tab[t].typed, approved |-> tab[t].approved,
                   plan |-> tab[t].plan, done |-> tab[t].done]
      /\ tab'[t] = [tab[t] EXCEPT !.done = @ + 1]
  BY <1>1, TurnFacts DEF PageInv, Executing
<1>3. tab'[t] = [page |-> "running", server |-> tab[t].server,
                 typed |-> tab[t].typed, approved |-> tab[t].approved,
                 plan |-> tab[t].plan, done |-> tab[t].done + 1]
  BY <1>2
<1>4. Executing(t)'
  BY <1>1, <1>3 DEF PageInv, Executing, Plan, Account, Enters
<1>5. PageInv(t)'
  BY <1>3, <1>4 DEF PageInv, SealedWhenTyped, ShownIsSealed, On
<1>6. PagesInv'
  BY <1>1, <1>5, TurnKeeps
<1>7. QED
  BY <1>1, <1>3, <1>6

\* The other steps of the wizard leave it, or make a connection first.
LEMMA LeaveStep ==
  ASSUME PagesInv, NEW t \in Tabs,
         \/ Leave(t) \/ Expired(t) \/ Refused(t) \/ Finish(t)
         \/ \E d \in Databases, a \in DOMAIN Rights : UseExisting(t, d, a)
  PROVE  PagesInv'
<1>1. Turn(t, NoPage) /\ UNCHANGED <<world, now, edits>>
  BY DEF Leave, Expired, Refused, Finish, UseExisting, CreateSource
<1>2. QED
  BY <1>1, TurnFacts, TurnKeeps, NoPageSound

\* A step of the wizard turns the page of one tab.
LEMMA WizardTurns ==
  ASSUME PagesInv, NEW t \in Tabs, Wizard(t)
  PROVE  \E page : Turn(t, page)
<1>1. ASSUME UNCHANGED tab
      PROVE  Turn(t, tab[t])
  BY <1>1 DEF PagesInv, Turn
<1>2. QED
  BY <1>1 DEF Wizard, SetupStart, Leave, OpenConnect, OpenTyped, SetupConnect, Expired, ShowPlan,
              UseExisting, CreateSource, SetupProvision, Execute, Refused, Finish

\* Which step leads to which page.
LEMMA Leads ==
  ASSUME PagesInv, NEW t \in Tabs, Wizard(t), tab'[t] # NoPage
  PROVE  \/ tab'[t].page \in {"connect", "confirm"}
         \/ SetupProvision(t)
         \/ Execute(t)
         \/ \E s \in Entered(t) :
              tab'[t] = [page |-> "databases", overview |-> Overview(s),
                         access |-> Seal([server |-> s, typed |-> now], now, cipher)]
<1>1. ~Turn(t, NoPage)
  BY TurnFacts
<1>2. ASSUME NEW i \in DOMAIN servers, OpenConnect(t, i)
      PROVE  tab'[t].page = "connect"
  BY <1>2, TurnFacts DEF OpenConnect
<1>3. ASSUME NEW s \in ByHand, OpenTyped(t, s)
      PROVE  tab'[t].page = "connect"
  BY <1>3, TurnFacts DEF OpenTyped
<1>4. ASSUME NEW d \in Databases, ShowPlan(t, d)
      PROVE  tab'[t].page = "confirm"
  <2>1. PICK page : Turn(t, page) /\ page.page = "confirm"
    BY <1>4 DEF ShowPlan
  <2>2. QED
    BY <2>1, TurnFacts
<1>5. CASE SetupConnect(t)
  <2>1. ASSUME NEW s \in Entered(t),
               Turn(t, [page |-> "connect", shown |-> s, index |-> tab[t].index])
        PROVE  tab'[t].page = "connect"
    BY <2>1, TurnFacts
  <2>2. QED
    BY <1>1, <1>5, <2>1, TurnFacts DEF SetupConnect
<1>6. QED
  BY <1>1, <1>2, <1>3, <1>4, <1>5
  DEF Wizard, SetupStart, Leave, Expired, UseExisting, CreateSource, Refused, Finish

\* Every step preserves what the wizard relies on.
LEMMA PagesStep == PagesInv /\ [Next]_vars => PagesInv'
<1> SUFFICES ASSUME PagesInv, [Next]_vars PROVE PagesInv'
  OBVIOUS
<1>1. ASSUME NEW t \in Tabs, Wizard(t) PROVE PagesInv'
  BY <1>1, SearchStep, OpenStep, ConnectStep, ShowPlanStep, ProvisionStep, ExecuteTurns,
     LeaveStep
  DEF Wizard
<1>2. ASSUME UNCHANGED <<world, tab>>, now' \in Nat, edits' \in Nat
      PROVE  PagesInv'
  BY <1>2, PageKept DEF PagesInv
<1>3. ASSUME NEW src \in sources, NEW form \in Forms, SaveForm(src, form)
      PROVE  PagesInv'
  BY <1>2, <1>3 DEF SaveForm, PagesInv
<1>4. CASE ChangeKey
  BY <1>2, <1>4 DEF ChangeKey, PagesInv
<1>5. CASE Tick
  BY <1>2, <1>5 DEF Tick, PagesInv
<1>6. CASE UNCHANGED vars
  BY <1>2, <1>6 DEF vars, PagesInv
<1>7. QED
  BY <1>1, <1>3, <1>4, <1>5, <1>6 DEF Next

\* There is no page at first.
LEMMA InitPages == Init => PagesInv
<1> SUFFICES ASSUME Init PROVE PagesInv
  OBVIOUS
<1>1. \A t \in Tabs : tab[t] = NoPage
  BY DEF Init
<1>2. \A t \in Tabs : PageInv(t)
  BY <1>1 DEF PageInv, SealedWhenTyped, ShownIsSealed, Executing, On
<1>3. QED
  BY <1>2 DEF Init, PagesInv

\* However many tabs, searches and plans there are, what is executed is what
\* was shown and approved (provisioning.py, provisioning_plan and apply_plan;
\* setup.py, setup_provision).
THEOREM OnlyApprovedIsExecuted == Spec => []ApprovedIsExecuted
<1>1. PagesInv => ApprovedIsExecuted
  BY DEF PagesInv, PageInv, Executing, ApprovedIsExecuted
<1>2. QED
  BY <1>1, InitPages, PagesStep, PTL DEF Spec

\* Entering a server as its administrator ends with the time for which what
\* was typed is good, in whatever page it travels (setup.py, _unseal;
\* config/crypto.py, decrypt_temporary).
THEOREM AdministratorIsForgotten == Spec => AdministratorExpires
<1> DEFINE Expires == \A t \in Tabs :
      (On(t, "confirm") /\ tab'[t] # NoPage /\ tab'[t].page = "running") =>
         now - tab'[t].typed <= ACCESS_TTL
<1>1. PagesInv /\ [Next]_vars => [Expires]_vars
  <2> SUFFICES ASSUME PagesInv, Next, NEW t \in Tabs,
                      On(t, "confirm"), tab'[t] # NoPage, tab'[t].page = "running"
               PROVE  now - tab'[t].typed <= ACCESS_TTL
    OBVIOUS
  <2>1. /\ tab[t].access.at \in Nat /\ now \in Nat
        /\ tab[t].access.data.typed = tab[t].access.at
    BY DEF PagesInv, PageInv, SealedWhenTyped
  <2>2. PICK u \in Tabs : Wizard(u)
    BY DEF Next, SaveForm, ChangeKey, Tick, On
  <2>3. u = t
    BY <2>2, WizardTurns, TurnFacts DEF On
  <2>4. SetupProvision(t)
    <3>1. Wizard(t) /\ ~Execute(t)
      BY <2>2, <2>3 DEF Execute, On
    <3>2. ASSUME NEW s, tab'[t] = [page |-> "databases", overview |-> Overview(s),
                                   access |-> Seal([server |-> s, typed |-> now], now, cipher)]
          PROVE  FALSE
      BY <3>2
    <3>3. QED
      BY <3>1, <3>2, Leads
  <2>5. tab'[t].typed = tab[t].access.at /\ now <= tab[t].access.at + ACCESS_TTL
    BY <2>1, <2>4, TurnFacts DEF SetupProvision, AccessGood, Unseals
  <2>6. QED
    BY <2>1, <2>5, SetupAssumption
<1>2. QED
  BY <1>1, InitPages, PagesStep, PTL DEF Spec, AdministratorExpires


-----------------------------------------------------------------------------
(* The users of the connections.                                           *)

ReadingStatements == {"reader", "read all", "select"}

\* A plan makes its user first and lets him read last.
LEMMA PlanFacts ==
  ASSUME NEW engine
  PROVE  /\ Len(Statements(engine)) \in {2, 3}
         /\ Statements(engine)[1] \in {"create", "create or password"}
         /\ Statements(engine)[2] \in {"password"} \cup ReadingStatements
         /\ Statements(engine)[Len(Statements(engine))] \in ReadingStatements
BY DEF Statements, ReadingStatements

\* The statement after those that are done.
LEMMA NextStatement ==
  ASSUME NEW engine, NEW statements, NEW length, NEW done,
         statements = Statements(engine), length = Len(statements),
         done \in 0..length, done < length
  PROVE  /\ statements[done + 1] \in
              {"create", "create or password", "password"} \cup ReadingStatements
         /\ done = 0 => statements[done + 1] \in {"create", "create or password"}
         /\ done + 1 = length => statements[done + 1] \in ReadingStatements
         /\ done + 1 \in 0..length
<1>1. length \in {2, 3}
  BY PlanFacts
<1>2. /\ statements[1] \in {"create", "create or password"}
      /\ statements[2] \in {"password"} \cup ReadingStatements
      /\ statements[length] \in ReadingStatements
  BY PlanFacts
<1>3. CASE done = 0
  <2>1. done + 1 = 1 /\ done + 1 \in 0..length /\ done + 1 # length
    BY <1>1, <1>3
  <2>2. QED
    BY <1>2, <1>3, <2>1
<1>4. CASE done = 1
  <2>1. done + 1 = 2 /\ done + 1 \in 0..length
    BY <1>1, <1>4
  <2>2. QED
    BY <1>2, <1>4, <2>1
<1>5. CASE done = 2
  <2>1. done + 1 = length /\ done + 1 \in 0..length
    BY <1>1, <1>5
  <2>2. statements[done + 1] \in ReadingStatements
    BY <1>2, <2>1
  <2>3. done # 0
    BY <1>5
  <2>4. statements[done + 1]
          \in {"create", "create or password", "password"} \cup ReadingStatements
    BY <2>2
  <2>5. QED
    BY <2>1, <2>2, <2>3, <2>4, Zenon
<1>6. done \in {0, 1, 2}
  BY <1>1
<1>7. QED
  BY <1>3, <1>4, <1>5, <1>6

\* What a plan is made of.
LEMMA PlanParts ==
  ASSUME NEW s, NEW database, NEW password, NEW login_host
  PROVE  /\ Plan(s, database, password, login_host).account
              = Account(s, READONLY_USERNAME, login_host)
         /\ Plan(s, database, password, login_host).statements = Statements(s.engine)
BY DEF Plan

\* A statement makes the user of its plan or changes him; nobody loses what he
\* reads or gets a right to do more.
LEMMA ExecutedFacts ==
  ASSUME AccountsInv, NEW statement, NEW plan,
         statement \in {"create", "create or password", "password"} \cup ReadingStatements,
         plan.account \in DOMAIN accounts \/ statement \in {"create", "create or password"},
         plan.database \in Databases,
         accounts' = Executed(statement, plan)
  PROVE  /\ AccountsInv'
         /\ DOMAIN accounts' = DOMAIN accounts \cup {plan.account}
         /\ \A a \in DOMAIN accounts : accounts[a].reads \subseteq accounts'[a].reads
         /\ statement \in ReadingStatements =>
              plan.database \in accounts'[plan.account].reads
<1> DEFINE a    == plan.account
           made == [password |-> plan.password, reads |-> {}, rights |-> {}]
<1> DEFINE Fine ==
      /\ AccountsInv'
      /\ DOMAIN accounts' = DOMAIN accounts \cup {plan.account}
      /\ \A b \in DOMAIN accounts : accounts[b].reads \subseteq accounts'[b].reads
      /\ statement \in ReadingStatements =>
           plan.database \in accounts'[plan.account].reads
<1> SUFFICES Fine
  OBVIOUS
<1>1. CASE a \notin DOMAIN accounts
  <2>1. statement \in {"create", "create or password"} /\ statement \notin ReadingStatements
    BY <1>1 DEF ReadingStatements
  <2>2. accounts' = [b \in DOMAIN accounts \cup {a} |-> IF b = a THEN made ELSE accounts[b]]
    <3>1. Executed(statement, plan)
            = [b \in DOMAIN accounts \cup {a} |-> IF b = a THEN made ELSE accounts[b]]
      BY <1>1, <2>1 DEF Executed
    <3>2. QED
      BY <3>1
  <2>3. /\ DOMAIN accounts' = DOMAIN accounts \cup {a} /\ accounts'[a] = made
        /\ \A b \in DOMAIN accounts : accounts'[b] = accounts[b]
    BY <1>1, <2>2
  <2>4. AccountsInv'
    <3>1. /\ {"reads", "rights"} \subseteq DOMAIN made
          /\ made.reads = {} /\ made.rights = {}
      OBVIOUS
    <3> HIDE DEF made
    <3>2. QED
      BY <2>3, <3>1 DEF AccountsInv
  <2>5. QED
    BY <1>1, <2>1, <2>3, <2>4
<1>2. ASSUME a \in DOMAIN accounts, NEW one, accounts' = [accounts EXCEPT ![a] = one],
             {"reads", "rights"} \subseteq DOMAIN one,
             one.rights = accounts[a].rights, accounts[a].reads \subseteq one.reads,
             one.reads \subseteq Databases,
             statement \in ReadingStatements => plan.database \in one.reads
      PROVE  Fine
  <2>1. /\ DOMAIN accounts' = DOMAIN accounts /\ accounts'[a] = one
        /\ \A b \in DOMAIN accounts : b # a => accounts'[b] = accounts[b]
    BY <1>2
  <2>2. AccountsInv'
    <3>1. a \notin DOMAIN Rights => one.rights = {}
      BY <1>2 DEF AccountsInv
    <3>2. \A b \in DOMAIN accounts' : b = a \/ (b \in DOMAIN accounts /\ accounts'[b] = accounts[b])
      BY <2>1
    <3> HIDE DEF a
    <3>3. QED
      BY <1>2, <2>1, <3>1, <3>2 DEF AccountsInv
  <2>3. QED
    BY <1>2, <2>1, <2>2
<1>3. CASE a \in DOMAIN accounts
  <2>1. /\ {"reads", "rights"} \subseteq DOMAIN accounts[a]
        /\ accounts[a].reads \subseteq Databases
    BY <1>3 DEF AccountsInv
  <2>2. CASE statement = "create"
    <3>1. accounts' = accounts
      BY <1>3, <2>2 DEF Executed
    <3>2. QED
      BY <1>3, <2>2, <3>1 DEF AccountsInv, ReadingStatements
  <2>3. CASE statement \in {"password", "create or password"}
    <3> DEFINE one == [accounts[a] EXCEPT !.password = plan.password]
    <3>1. /\ {"reads", "rights"} \subseteq DOMAIN one
          /\ one.rights = accounts[a].rights /\ one.reads = accounts[a].reads
      BY <2>1
    <3>2. accounts' = [accounts EXCEPT ![a] = one]
      BY <1>3, <2>3 DEF Executed
    <3> HIDE DEF one
    <3>3. QED
      BY <1>2, <1>3, <2>1, <2>3, <3>1, <3>2 DEF ReadingStatements
  <2>4. CASE statement \in {"reader", "select"}
    <3> DEFINE one == [accounts[a] EXCEPT !.reads = @ \cup {plan.database}]
    <3>1. /\ {"reads", "rights"} \subseteq DOMAIN one
          /\ one.rights = accounts[a].rights
          /\ one.reads = accounts[a].reads \cup {plan.database}
      BY <2>1
    <3>2. accounts' = [accounts EXCEPT ![a] = one]
      BY <1>3, <2>4 DEF Executed
    <3> HIDE DEF one
    <3>3. QED
      BY <1>2, <1>3, <2>1, <3>1, <3>2
  <2>5. CASE statement = "read all"
    <3> DEFINE one == [accounts[a] EXCEPT !.reads = Databases]
    <3>1. /\ {"reads", "rights"} \subseteq DOMAIN one
          /\ one.rights = accounts[a].rights /\ one.reads = Databases
      BY <2>1
    <3>2. accounts' = [accounts EXCEPT ![a] = one]
      BY <1>3, <2>5 DEF Executed
    <3> HIDE DEF one
    <3>3. QED
      BY <1>2, <1>3, <2>1, <3>1, <3>2
  <2>6. QED
    BY <2>2, <2>3, <2>4, <2>5 DEF ReadingStatements
<1>4. QED
  BY <1>1, <1>3

\* What was done stays done while the accounts lose nothing.
LEMMA DoneKept ==
  ASSUME UsersInv, NEW u \in Tabs, tab'[u] = tab[u],
         DOMAIN accounts \subseteq DOMAIN accounts',
         \A a \in DOMAIN accounts : accounts[a].reads \subseteq accounts'[a].reads
  PROVE  DoneInv(u)'
<1> SUFFICES ASSUME On(u, "running")
             PROVE  DoneInv(u)'
  BY DEF DoneInv, On
<1> DEFINE plan == tab[u].plan
           length == Len(plan.statements)
<1>1. /\ tab[u].done \in 0..length
      /\ tab[u].done > 0 => plan.account \in DOMAIN accounts
      /\ tab[u].done = length => plan.database \in accounts[plan.account].reads
  BY DEF UsersInv, DoneInv
<1>2. length \in {2, 3}
  <2>1. plan.statements = Statements(tab[u].server.engine)
    BY PlanParts DEF UsersInv, PagesInv, PageInv, Executing
  <2>2. QED
    BY <2>1, PlanFacts
<1>3. ASSUME tab[u].done = length
      PROVE  plan.account \in DOMAIN accounts /\ plan.database \in accounts'[plan.account].reads
  <2> HIDE DEF length, plan
  <2>1. tab[u].done > 0
    BY <1>2, <1>3
  <2>2. QED
    BY <1>1, <1>3, <2>1
<1>4. QED
  BY <1>1, <1>3 DEF DoneInv

\* Executing the next statement of a plan.
LEMMA ExecuteStep ==
  ASSUME UsersInv, NEW t \in Tabs, Execute(t)
  PROVE  UsersInv'
<1> DEFINE plan == tab[t].plan
           done == tab[t].done
           length == Len(plan.statements)
           statement == plan.statements[done + 1]
<1>1. /\ PagesInv /\ AccountsInv /\ PageInv(t) /\ DoneInv(t)
      /\ accounts' = Executed(statement, plan) /\ Remaining(t)
  BY DEF Execute, UsersInv, PagesInv
<1>2. /\ PagesInv' /\ On(t, "running") /\ tab'[t].plan = plan /\ tab'[t].done = done + 1
  BY <1>1, ExecuteTurns
<1>3. plan.statements = Statements(tab[t].server.engine) /\ plan.database \in Databases
  BY <1>1, <1>2, PlanParts DEF PageInv, Executing
<1>4. /\ done \in 0..length /\ done < length
      /\ done # 0 => plan.account \in DOMAIN accounts
  BY <1>1, <1>2 DEF DoneInv, Remaining
<1>5. /\ statement \in {"create", "create or password", "password"} \cup ReadingStatements
      /\ done = 0 => statement \in {"create", "create or password"}
      /\ done + 1 = length => statement \in ReadingStatements
      /\ done + 1 \in 0..length
  BY <1>3, <1>4, NextStatement
<1>6. tab'[t].plan = plan /\ Len(tab'[t].plan.statements) = length /\ tab'[t].done = done + 1
  BY <1>2
<1>7. plan.account \in DOMAIN accounts \/ statement \in {"create", "create or password"}
  BY <1>4, <1>5
<1> HIDE DEF plan, done, length, statement
<1>8. /\ AccountsInv'
      /\ DOMAIN accounts' = DOMAIN accounts \cup {plan.account}
      /\ \A a \in DOMAIN accounts : accounts[a].reads \subseteq accounts'[a].reads
      /\ statement \in ReadingStatements =>
           plan.database \in accounts'[plan.account].reads
  BY <1>1, <1>3, <1>5, <1>7, ExecutedFacts
<1>9. DoneInv(t)'
  BY <1>5, <1>6, <1>8 DEF DoneInv
<1>10. ASSUME NEW u \in Tabs, u # t PROVE DoneInv(u)'
  <2>1. tab'[u] = tab[u]
    BY <1>1, <1>10, TurnFacts DEF Execute
  <2>2. QED
    BY <1>8, <2>1, DoneKept
<1>11. QED
  BY <1>2, <1>8, <1>9, <1>10 DEF UsersInv

\* Steps that execute nothing change no account.
LEMMA QuietStep ==
  ASSUME UsersInv, [Next]_vars, ~\E t \in Tabs : Execute(t)
  PROVE  UsersInv'
<1>1. PagesInv /\ PagesInv'
  BY PagesStep DEF UsersInv
<1>2. accounts' = accounts
  BY DEF Next, Wizard, Leave, SetupStart, OpenConnect, OpenTyped, SetupConnect, Expired,
         ShowPlan, UseExisting, SetupProvision, Refused, Finish, SaveForm, ChangeKey, Tick, vars
<1>3. ASSUME NEW u \in Tabs, tab'[u] = tab[u] PROVE DoneInv(u)'
  BY <1>2, <1>3, DoneKept
<1>4. ASSUME NEW t \in Tabs, Wizard(t), NEW u \in Tabs PROVE DoneInv(u)'
  <2>1. CASE u # t
    BY <1>1, <1>3, <1>4, <2>1, WizardTurns, TurnFacts
  <2>2. CASE u = t /\ tab'[t] = NoPage
    BY <2>2 DEF DoneInv, On
  <2>3. CASE u = t /\ tab'[t] # NoPage /\ tab'[t].page # "running"
    BY <2>3 DEF DoneInv, On
  <2>4. CASE u = t /\ SetupProvision(t)
    <3> DEFINE plan == PlanAgain(tab[t].access.data.server, tab[t].plan.data)
    <3>1. tab'[t].done = 0 /\ tab'[t].plan = plan
      BY <1>1, <2>4, TurnFacts DEF SetupProvision
    <3>2. Len(plan.statements) \in {2, 3}
      <4>1. plan.statements = Statements(tab[t].access.data.server.engine)
        BY PlanParts DEF PlanAgain
      <4>2. QED
        BY <4>1, PlanFacts
    <3> DEFINE length == Len(plan.statements)
    <3>3. Len(tab'[t].plan.statements) = length
      BY <3>1
    <3>4. tab'[t].done \in 0..length /\ tab'[t].done # length
      <4> HIDE DEF length
      <4>1. length \in {2, 3}
        BY <3>2 DEF length
      <4>2. QED
        BY <3>1, <4>1
    <3> HIDE DEF plan, length
    <3>5. QED
      BY <2>4, <3>1, <3>3, <3>4 DEF DoneInv
  <2>5. tab'[t] = NoPage \/ tab'[t].page # "running" \/ SetupProvision(t)
    <3>1. ASSUME NEW s, tab'[t] = [page |-> "databases", overview |-> Overview(s),
                                   access |-> Seal([server |-> s, typed |-> now], now, cipher)]
          PROVE  tab'[t].page # "running"
      BY <3>1
    <3>2. QED
      BY <1>1, <1>4, <3>1, Leads
  <2>6. QED
    BY <2>1, <2>2, <2>3, <2>4, <2>5
<1>5. CASE UNCHANGED tab
  BY <1>1, <1>2, <1>3, <1>5 DEF UsersInv, AccountsInv
<1>6. AccountsInv'
  BY <1>2 DEF UsersInv, AccountsInv
<1>7. QED
  BY <1>1, <1>4, <1>5, <1>6 DEF UsersInv, Next, SaveForm, ChangeKey, Tick, vars

\* Every step keeps what is known of users and of the plans at work.
LEMMA UsersStep == UsersInv /\ [Next]_vars => UsersInv'
BY ExecuteStep, QuietStep

\* At first the accounts are those that were there before, and nothing is executed.
LEMMA InitUsers == Init => UsersInv
<1> SUFFICES ASSUME Init PROVE UsersInv
  OBVIOUS
<1>1. PagesInv /\ \A t \in Tabs : tab[t] = NoPage
  BY InitPages DEF Init
<1>2. \A t \in Tabs : DoneInv(t)
  BY <1>1 DEF DoneInv, On
<1>3. accounts = [a \in DOMAIN Rights |->
                    [password |-> "theirs", reads |-> Databases, rights |-> Rights[a]]]
  BY DEF Init
<1>4. AccountsInv
  <2>1. DOMAIN accounts = DOMAIN Rights
    BY <1>3
  <2>2. \A a \in DOMAIN accounts :
          accounts[a].reads = Databases /\ {"reads", "rights"} \subseteq DOMAIN accounts[a]
    BY <1>3
  <2>3. QED
    BY <2>1, <2>2 DEF AccountsInv
<1>5. QED
  BY <1>1, <1>2, <1>4 DEF UsersInv

\* The server told of no right of a user who was verified; one that was not there
\* before has none.
LEMMA VerifiedFacts ==
  ASSUME AccountsInv, NEW s, NEW a, NEW password, NEW database,
         Verified(s, a, password, database)
  PROVE  /\ ReadOnly(CheckPermissions(s.engine, database, accounts[a].rights))
         /\ a \notin DOMAIN Rights => accounts[a].rights = {}
BY DEF Verified, Connects, AccountsInv

\* A new connection reads as a user of whom the server tells no right to write; one
\* that the wizard made has none, and reads the database it was made for, whatever
\* other tabs execute on the same user and whichever statements were refused
\* (provisioning.py, verify_read_only and apply_plan; permissions.py,
\* check_permissions).  Nothing is said of rights that the server does not tell.
THEOREM NewUsersOnlyRead == Spec => NewSourcesOnlyRead
<1> DEFINE OnlyRead == \A src \in sources' \ sources :
      edits' = edits =>
        LET user == accounts[src.account]
        IN  /\ ReadOnly(CheckPermissions(src.engine, src.name, user.rights))
            /\ src.account \notin DOMAIN Rights => user.rights = {}
            /\ src.how = "provisioned" => src.name \in user.reads
<1>1. UsersInv /\ [Next]_vars => [OnlyRead]_vars
  <2> DEFINE Told(src) ==
        /\ ReadOnly(CheckPermissions(src.engine, src.name, accounts[src.account].rights))
        /\ src.account \notin DOMAIN Rights => accounts[src.account].rights = {}
  <2> SUFFICES ASSUME UsersInv, Next, NEW src \in sources' \ sources, edits' = edits
               PROVE  /\ Told(src)
                      /\ src.how = "provisioned" => src.name \in accounts[src.account].reads
    OBVIOUS
  <2>1. PagesInv /\ AccountsInv /\ edits \in Nat /\ \A t \in Tabs : PageInv(t) /\ DoneInv(t)
    BY DEF UsersInv, PagesInv
  <2>2. ASSUME NEW s, NEW a, NEW d, NEW password, NEW how, Verified(s, a, password, d),
               src = NewSource(s, a, d, password, how)
        PROVE  Told(src) /\ src.account = a /\ src.name = d /\ src.how = how
    <3>1. src.engine = s.engine /\ src.name = d /\ src.account = a /\ src.how = how
      BY <2>2 DEF NewSource
    <3>2. QED
      BY <2>1, <2>2, <3>1, VerifiedFacts
  <2> HIDE DEF Told
  <2>3. ASSUME NEW t \in Tabs, NEW d \in Databases, NEW a \in DOMAIN Rights,
               UseExisting(t, d, a)
        PROVE  Told(src) /\ src.how = "existing"
    <3> DEFINE s == tab[t].access.data.server
    <3>1. Verified(s, a, "theirs", d) /\ src = NewSource(s, a, d, "theirs", "existing")
      BY <2>3 DEF UseExisting, CreateSource
    <3>2. QED
      BY <2>2, <3>1
  <2>4. ASSUME NEW t \in Tabs, Finish(t)
        PROVE  Told(src) /\ src.name \in accounts[src.account].reads
    <3> DEFINE plan == tab[t].plan
               s    == tab[t].server
    <3>1. /\ Verified(s, plan.account, plan.password, plan.database)
          /\ On(t, "running") /\ ~Remaining(t)
          /\ src = NewSource(s, plan.account, plan.database, plan.password, "provisioned")
      BY <2>4 DEF Finish, CreateSource
    <3>2. Told(src) /\ src.account = plan.account /\ src.name = plan.database
      BY <2>2, <3>1
    <3>3. /\ plan = Plan(s, plan.database, plan.password, plan.login_host)
          /\ tab[t].done \in 0..Len(plan.statements)
          /\ tab[t].done = Len(plan.statements) =>
               plan.database \in accounts[plan.account].reads
      BY <2>1, <3>1 DEF PageInv, Executing, DoneInv
    <3> DEFINE length == Len(plan.statements)
    <3>4. length \in {2, 3}
      <4>1. plan.statements = Statements(s.engine)
        BY <3>3, PlanParts
      <4>2. QED
        BY <4>1, PlanFacts
    <3>5. plan.database \in accounts[plan.account].reads
      <4>1. ~(tab[t].done < length)
        BY <3>1 DEF Remaining
      <4> HIDE DEF plan, length
      <4>2. tab[t].done = length
        BY <3>3, <3>4, <4>1 DEF length
      <4>3. QED
        BY <3>3, <4>2 DEF length
    <3>6. QED
      BY <3>2, <3>5
  <2>5. ASSUME NEW old \in sources, NEW form \in Forms, SaveForm(old, form)
        PROVE  FALSE
    BY <2>1, <2>5 DEF SaveForm
  <2>6. \/ \E t \in Tabs, d \in Databases, a \in DOMAIN Rights : UseExisting(t, d, a)
        \/ \E t \in Tabs : Finish(t)
    BY <2>5
    DEF Next, Wizard, Leave, SetupStart, OpenConnect, OpenTyped, SetupConnect, Expired,
        ShowPlan, SetupProvision, Execute, Refused, ChangeKey, Tick
  <2>7. QED
    BY <2>3, <2>4, <2>6
<1>2. QED
  BY <1>1, InitUsers, UsersStep, PTL DEF Spec, NewSourcesOnlyRead


-----------------------------------------------------------------------------
(* The connections.                                                        *)

\* The choices of the form are engines that there are (forms.py,
\* DatabaseSourceForm; sources/models.py, DataSource.Engine).
FormsChoose == \A form \in Forms : form.engine \in SUPPORTED_ENGINES \cup {"", "url"}

\* What the form fills in replaces what was there, but for a URL that is left
\* empty.
LEMMA FilledFacts ==
  ASSUME NEW src, SourceSound(src), NEW form, NEW key
  PROVE  /\ DOMAIN Filled(src, form, key) = DOMAIN src
         /\ Filled(src, form, key).engine = form.engine
         /\ Filled(src, form, key).url.text = "" => Filled(src, form, key).url = NoSecret
<1> DEFINE new == Filled(src, form, key)
           url == IF form.engine # "url" THEN NoSecret
                  ELSE IF form.url # NoUrl THEN Encrypt(form.url, key) ELSE src.url
<1>1. "engine" \in DOMAIN src /\ "url" \in DOMAIN src
  BY DEF SourceSound
<1>2. DOMAIN new = DOMAIN src /\ new.engine = form.engine /\ new.url = url
  BY <1>1 DEF Filled
<1>3. url.text = "" => url = NoSecret
  BY DEF SourceSound, Encrypt, NoSecret, NoUrl
<1>4. QED
  BY <1>2, <1>3

\* A new connection is to a server that the wizard entered.
LEMMA NewSourceSound ==
  ASSUME NEW s, NEW a, NEW database, NEW password, NEW how, Enters(s),
         SourceErrors(NewSource(s, a, database, password, how)) = {}
  PROVE  SourceSound(NewSource(s, a, database, password, how))
<1> DEFINE src == NewSource(s, a, database, password, how)
<1>1. /\ {"mode", "engine", "host", "port", "name", "user", "options", "connection",
          "driver", "password", "url"} \subseteq DOMAIN src
      /\ src.engine = s.engine /\ src.url = NoSecret
  BY DEF NewSource
<1>2. s.engine \in SUPPORTED_ENGINES
  BY DEF Enters, PROVISIONING_ENGINES, SUPPORTED_ENGINES
<1>3. QED
  BY <1>1, <1>2 DEF SourceSound

\* Every step keeps the rows of connections sound.
LEMMA SourcesStep ==
  ASSUME FormsChoose, SourcesInv, [Next]_vars
  PROVE  SourcesInv'
<1>1. PagesInv /\ PagesInv' /\ \A t \in Tabs : PageInv(t)
  BY PagesStep DEF SourcesInv, PagesInv
<1>2. ASSUME NEW t \in Tabs, NEW s, Enters(s), NEW a, NEW database, NEW password, NEW how,
             CreateSource(t, s, a, database, password, how), NEW src \in sources'
      PROVE  SourceSound(src)
  BY <1>2, NewSourceSound DEF CreateSource, SourcesInv
<1>3. ASSUME NEW t \in Tabs, NEW d \in Databases, NEW a \in DOMAIN Rights,
             UseExisting(t, d, a), NEW src \in sources'
      PROVE  SourceSound(src)
  <2>1. Enters(tab[t].access.data.server)
    BY <1>1, <1>3 DEF UseExisting, PageInv, SealedWhenTyped
  <2>2. QED
    BY <1>2, <1>3, <2>1 DEF UseExisting, SourcesInv
<1>4. ASSUME NEW t \in Tabs, Finish(t), NEW src \in sources'
      PROVE  SourceSound(src)
  <2>1. Enters(tab[t].server)
    BY <1>1, <1>4 DEF Finish, PageInv, Executing
  <2>2. QED
    BY <1>2, <1>4, <2>1 DEF Finish, SourcesInv
<1>5. ASSUME NEW old \in sources, NEW form \in Forms, SaveForm(old, form),
             NEW src \in sources'
      PROVE  SourceSound(src)
  <2>1. SourceSound(old)
    BY DEF SourcesInv
  <2>2. SourceErrors(Filled(old, form, cipher)) = {}
        /\ src \in (sources \ {old}) \cup {Filled(old, form, cipher)}
    BY <1>5 DEF SaveForm
  <2>3. SourceSound(Filled(old, form, cipher))
    <3> DEFINE new == Filled(old, form, cipher)
    <3>1. /\ DOMAIN new = DOMAIN old /\ new.engine = form.engine
          /\ new.url.text = "" => new.url = NoSecret
      BY <2>1, FilledFacts
    <3>2. form.engine \in SUPPORTED_ENGINES \cup {"", "url"}
      BY DEF FormsChoose
    <3> HIDE DEF new
    <3>3. SourceErrors(new) = {}
      BY <2>2 DEF new
    <3>4. SourceSound(new)
      BY <2>1, <3>1, <3>2, <3>3 DEF SourceSound
    <3>5. QED
      BY <3>4 DEF new
  <2>4. QED
    BY <2>2, <2>3 DEF SourcesInv
<1>6. CASE UNCHANGED sources
  BY <1>1, <1>6 DEF SourcesInv
<1>7. ASSUME NEW src \in sources' PROVE SourceSound(src)
  BY <1>3, <1>4, <1>5, <1>7
  DEF SourcesInv, Next, Wizard, Leave, SetupStart, OpenConnect, OpenTyped, SetupConnect, Expired,
      ShowPlan, SetupProvision, Execute, Refused, ChangeKey, Tick, vars
<1>8. QED
  BY <1>1, <1>7 DEF SourcesInv

\* A complete row gives a configuration, but for its excuses.
LEMMA SoundOpens ==
  ASSUME NEW src, SourceSound(src), NEW key
  PROVE  \/ Opens(src, key)
         \/ ~Decrypts(src.password, key) \/ ~Decrypts(src.url, key)
         \/ src.mode = "ENV" /\ EnvRefused(src.connection)
         \/ src.engine = "sqlite" /\ src.name \notin Files
         \/ src.engine = "url" /\ src.url.text # "" /\ src.url.text \notin Urls
<1>1. CASE src.mode = "ENV"
  BY <1>1 DEF Opens
<1>2. CASE src.mode # "ENV"
  <2>1. /\ src.engine # "" /\ (src.engine = "url" => src.url # NoSecret)
        /\ (src.engine \notin {"", "url"} => src.name # "")
        /\ (src.engine \notin {"", "url", "sqlite"} => src.host # "")
        /\ (src.engine \notin {"", "url", "sqlite", "mssql"} => src.user # "")
        /\ src.options # "broken"
    <3>1. PanelErrors(src) = {}
      BY <1>2 DEF SourceSound, SourceErrors
    <3>2. /\ "db_engine" \notin PanelErrors(src) /\ "db_name" \notin PanelErrors(src)
          /\ "db_host" \notin PanelErrors(src) /\ "db_user" \notin PanelErrors(src)
          /\ "db_options" \notin PanelErrors(src)
      BY <3>1
    <3>3. QED
      BY <3>2 DEF PanelErrors
  <2>2. SUFFICES ASSUME Decrypts(src.password, key), Decrypts(src.url, key),
                        src.engine = "sqlite" => src.name \in Files,
                        src.engine = "url" /\ src.url.text # "" => src.url.text \in Urls
                 PROVE  ~ValuesRefused(Values(src))
    BY <1>2, <2>1 DEF Opens
  <2>3. /\ Values(src).engine = src.engine /\ Values(src).host = src.host
        /\ Values(src).name = src.name /\ Values(src).user = src.user
        /\ Values(src).options = src.options
        /\ Values(src).url = IF src.engine = "url" THEN src.url.text ELSE NoUrl
    BY DEF Values
  <2>4. CASE src.engine = "url"
    <3>1. src.url.text # "" /\ src.url.text \in Urls
      BY <2>1, <2>2, <2>4 DEF SourceSound
    <3>2. QED
      BY <2>1, <2>3, <2>4, <3>1 DEF ValuesRefused, Incomplete, NoUrl
  <2>5. CASE src.engine # "url"
    <3>1. src.engine \in SUPPORTED_ENGINES
      BY <2>1, <2>5 DEF SourceSound
    <3>2. QED
      BY <2>1, <2>2, <2>3, <2>5, <3>1 DEF ValuesRefused, Incomplete, NoUrl
  <2>6. QED
    BY <2>4, <2>5
<1>3. QED
  BY <1>1, <1>2

\* Whatever is typed over a connection, and in whatever order, one that was
\* saved opens, unless a secret can no longer be deciphered or what it names is
\* not there (sources/models.py, clean and connection_config; forms.py, clean).
THEOREM SavedOnesOpen ==
  ASSUME FormsChoose
  PROVE  Spec => []SavedConnectionsOpen
<1>1. Init => SourcesInv
  BY InitPages DEF Init, SourcesInv
<1>2. SourcesInv => SavedConnectionsOpen
  BY SoundOpens DEF SourcesInv, SavedConnectionsOpen
<1>3. SourcesInv /\ [Next]_vars => SourcesInv'
  BY SourcesStep
<1>4. QED
  BY <1>1, <1>2, <1>3, PTL DEF Spec

-----------------------------------------------------------------------------
(* The list of servers.                                                    *)

\* What is merged with something of B of the same name stays in A.
Merges(A, B) == \A a \in A, b \in B : Key(a) = Key(b) => Merged(a, b) \in A

\* A sequence is a function on its places, which are finitely many.
LEMMA Places ==
  ASSUME NEW A, NEW s \in Seq(A)
  PROVE  /\ Len(s) \in Nat /\ DOMAIN s = 1..Len(s) /\ s \in [1..Len(s) -> A]
         /\ IsFiniteSet(DOMAIN s) /\ \A i \in DOMAIN s : i \in Nat /\ s[i] \in A
<1>1. Len(s) \in Nat /\ DOMAIN s = 1..Len(s) /\ s \in [1..Len(s) -> A]
  BY LenProperties
<1>2. IsFiniteSet(1..Len(s))
  BY <1>1, FS_Interval
<1> QED  BY <1>1, <1>2

\* A list stays one of A by what is added to it.
LEMMA AddKeeps ==
  ASSUME NEW A, Merges(A, A), NEW l \in Seq(A), NEW s \in A
  PROVE  Add(l, s) \in Seq(A)
<1> DEFINE merged == [i \in DOMAIN l |-> IF Key(l[i]) = Key(s) THEN Merged(l[i], s) ELSE l[i]]
<1>1. Len(l) \in Nat /\ DOMAIN l = 1..Len(l) /\ \A i \in DOMAIN l : l[i] \in A
  BY Places
<1>2. merged \in [1..Len(l) -> A]
  BY <1>1 DEF Merges
<1>3. merged \in Seq(A)
  <2> HIDE DEF merged
  <2> QED  BY <1>1, <1>2, SeqDef
<1>4. Append(l, s) \in Seq(A)
  BY AppendProperties
<1> QED  BY <1>3, <1>4 DEF Add

\* One of the entries is in C.
Some(l, C) == \E i \in DOMAIN l : l[i] \in C

\* And what it has of C it keeps.
LEMMA AddKeepsSome ==
  ASSUME NEW A, NEW C, Merges(C, A), NEW l \in Seq(A), NEW s \in A, Some(l, C)
  PROVE  Some(Add(l, s), C)
<1>1. PICK i \in DOMAIN l : l[i] \in C
  BY DEF Some
<1>2. Len(l) \in Nat /\ DOMAIN l = 1..Len(l)
  BY Places
<1>3. CASE \E j \in DOMAIN l : Key(l[j]) = Key(s)
  <2>1. /\ DOMAIN Add(l, s) = DOMAIN l
        /\ Add(l, s)[i] = IF Key(l[i]) = Key(s) THEN Merged(l[i], s) ELSE l[i]
    BY <1>3 DEF Add
  <2> QED  BY <1>1, <2>1 DEF Merges, Some
<1>4. CASE ~\E j \in DOMAIN l : Key(l[j]) = Key(s)
  <2>1. Add(l, s) = Append(l, s)
    BY <1>4 DEF Add
  <2>2. i \in DOMAIN Append(l, s) /\ Append(l, s)[i] = l[i]
    BY <1>2, AppendProperties
  <2> QED  BY <1>1, <2>1, <2>2 DEF Some
<1> QED  BY <1>3, <1>4

\* An entry of D is one of C, and so is what is merged with it.
Brings(D, A, C) ==
  /\ D \subseteq C
  /\ \A d \in D, a \in A : Key(a) = Key(d) => Merged(a, d) \in C

\* An entry of D brings one of C.
LEMMA AddBrings ==
  ASSUME NEW A, NEW C, NEW D, Brings(D, A, C), NEW l \in Seq(A), NEW s \in D
  PROVE  Some(Add(l, s), C)
<1>1. Len(l) \in Nat /\ DOMAIN l = 1..Len(l) /\ \A i \in DOMAIN l : l[i] \in A
  BY Places
<1>2. CASE \E j \in DOMAIN l : Key(l[j]) = Key(s)
  <2>1. PICK j \in DOMAIN l : Key(l[j]) = Key(s)
    BY <1>2
  <2>2. /\ DOMAIN Add(l, s) = DOMAIN l
        /\ Add(l, s)[j] = Merged(l[j], s)
    BY <1>2, <2>1 DEF Add
  <2> QED  BY <1>1, <2>1, <2>2 DEF Brings, Some
<1>3. CASE ~\E j \in DOMAIN l : Key(l[j]) = Key(s)
  <2>1. Add(l, s) = Append(l, s)
    BY <1>3 DEF Add
  <2>2. Len(l) + 1 \in DOMAIN Append(l, s) /\ Append(l, s)[Len(l) + 1] = s
    BY <1>1, AppendProperties
  <2> QED  BY <2>1, <2>2 DEF Brings, Some
<1> QED  BY <1>2, <1>3

-----------------------------------------------------------------------------
(* Adding many.                                                            *)

\* The greatest of finitely many numbers is one of them.
LEMMA MaxOf ==
  ASSUME NEW S, IsFiniteSet(S), S \subseteq Int
  PROVE  Picks([s \in SUBSET S |-> Max(s)], S)
<1> SUFFICES ASSUME NEW s \in SUBSET S, s # {}
             PROVE  Max(s) \in s
  BY DEF Picks
<1> DEFINE k == [x \in s |-> x]
<1>1. IsFiniteSet(s) /\ Integral(k, s)
  BY FS_Subset DEF Integral
<1> HIDE DEF k
<1>2. PICK m \in s : \A x \in s : k[x] <= k[m]
  BY <1>1, Greatest
<1>3. \A x \in s : m >= x
  BY <1>2 DEF k
<1> QED  BY <1>3 DEF Max

\* The adding of one entry, as a function.
Adds(A) == [p \in Seq(A) \X A |-> Add(p[1], p[2])]

\* Adding entries is a fold of it.
LEMMA AddAllFolds ==
  ASSUME NEW A, Merges(A, A), NEW l \in Seq(A), NEW more \in Seq(A)
  PROVE  \E pick, g : /\ Picks(pick, DOMAIN more)
                      /\ FoldOf(Adds(A), l, more, pick, DOMAIN more, g)
                      /\ AddAll(l, more) = g[DOMAIN more]
<1> DEFINE D == DOMAIN more
           X == Seq(A)
           T == Adds(A)
           pick == [s \in SUBSET D |-> Max(s)]
           Folds(g) == g = [s \in SUBSET D |->
                              IF s = {} THEN l ELSE Add(g[s \ {Max(s)}], more[Max(s)])]
           iter == CHOOSE g : Folds(g)
<1>1. IsFiniteSet(D) /\ D \subseteq Int /\ \A i \in D : more[i] \in A
  BY Places
<1>2. Picks(pick, D)
  BY <1>1, MaxOf
<1>3. \A x \in X, i \in D : T[<<x, more[i]>>] = Add(x, more[i]) /\ Add(x, more[i]) \in X
  BY <1>1, AddKeeps DEF Adds
<1> HIDE DEF X, T
<1>4. l \in X /\ \A x \in X, i \in D : T[<<x, more[i]>>] \in X
  BY <1>3 DEF X
<1>5. ASSUME NEW s \in SUBSET D, s # {}
      PROVE  pick[s] = Max(s) /\ Max(s) \in D
  BY <1>2, <1>5 DEF Picks
<1>6. \E g : Folds(g)
  <2>1. PICK g : FoldOf(T, l, more, pick, D, g)
    <3> HIDE DEF D, pick
    <3> QED  BY <1>1, <1>2, FoldExists
  <2>2. \A s \in SUBSET D : g[s] \in X
    <3> HIDE DEF D, pick
    <3> QED  BY <1>1, <1>2, <1>4, <2>1, FoldKept
  <2>3. ASSUME NEW s \in SUBSET D, s # {}
        PROVE  T[<<g[s \ {pick[s]}], more[pick[s]]>>] = Add(g[s \ {Max(s)}], more[Max(s)])
    BY <1>3, <1>5, <2>2, <2>3
  <2>4. Folds(g)
    BY <2>1, <2>3 DEF FoldOf
  <2> QED  BY <2>4
<1>7. Folds(iter)
  BY <1>6
<1>8. AddAll(l, more) = iter[D]
  BY DEF AddAll, FoldLeft, MapThenFoldSet
<1> HIDE DEF iter
<1>9. FoldOf(T, l, more, pick, D, iter)
  <2>1. iter = [s \in SUBSET D |-> iter[s]] /\ iter[{}] = l
    BY <1>7
  <2>2. ASSUME NEW s \in SUBSET D, s # {}, iter[s \ {pick[s]}] \in X
        PROVE  iter[s] = T[<<iter[s \ {pick[s]}], more[pick[s]]>>]
    BY <1>3, <1>5, <1>7, <2>2
  <2> HIDE DEF D, pick
  <2> QED  BY <1>1, <1>2, <1>4, <2>1, <2>2, FoldFrom
<1> QED  BY <1>2, <1>8, <1>9 DEF T

\* A list stays one of A by what is added to it.
LEMMA AddAllKeeps ==
  ASSUME NEW A, Merges(A, A), NEW l \in Seq(A), NEW more \in Seq(A)
  PROVE  AddAll(l, more) \in Seq(A)
<1> DEFINE D == DOMAIN more
           X == Seq(A)
           T == Adds(A)
<1>1. PICK pick, g : /\ Picks(pick, D)
                     /\ FoldOf(T, l, more, pick, D, g)
                     /\ AddAll(l, more) = g[D]
  BY AddAllFolds
<1>2. IsFiniteSet(D) /\ \A i \in D : more[i] \in A
  BY Places
<1>3. \A x \in X, i \in D : T[<<x, more[i]>>] \in X
  BY <1>2, AddKeeps DEF Adds
<1>4. l \in X
  OBVIOUS
<1> HIDE DEF D, X, T
<1> QED  BY <1>1, <1>2, <1>3, <1>4, FoldKept DEF X

\* What it has of C it keeps.
LEMMA AddAllKeepsSome ==
  ASSUME NEW A, Merges(A, A), NEW C, Merges(C, A),
         NEW l \in Seq(A), NEW more \in Seq(A), Some(l, C)
  PROVE  Some(AddAll(l, more), C)
<1> DEFINE D == DOMAIN more
           X == {s \in Seq(A) : Some(s, C)}
           T == Adds(A)
<1>1. PICK pick, g : /\ Picks(pick, D)
                     /\ FoldOf(T, l, more, pick, D, g)
                     /\ AddAll(l, more) = g[D]
  BY AddAllFolds
<1>2. IsFiniteSet(D) /\ \A i \in D : more[i] \in A
  BY Places
<1>3. \A x \in X, i \in D : T[<<x, more[i]>>] \in X
  BY <1>2, AddKeeps, AddKeepsSome DEF Adds
<1>4. l \in X
  OBVIOUS
<1> HIDE DEF D, X, T
<1>5. g[D] \in X
  BY <1>1, <1>2, <1>3, <1>4, FoldKept
<1> QED  BY <1>1, <1>5 DEF X

\* And with an entry of D added there is one of C.
LEMMA AddAllBrings ==
  ASSUME NEW A, Merges(A, A), NEW C, Merges(C, A), NEW D, Brings(D, A, C),
         NEW l \in Seq(A), NEW more \in Seq(A), Some(more, D)
  PROVE  Some(AddAll(l, more), C)
<1> DEFINE P == DOMAIN more
           X == Seq(A)
           Y == {s \in Seq(A) : Some(s, C)}
           T == Adds(A)
<1>1. PICK pick, g : /\ Picks(pick, P)
                     /\ FoldOf(T, l, more, pick, P, g)
                     /\ AddAll(l, more) = g[P]
  BY AddAllFolds
<1>2. IsFiniteSet(P) /\ \A i \in P : more[i] \in A
  BY Places
<1>3. \A x \in X, i \in P : T[<<x, more[i]>>] \in X
  BY <1>2, AddKeeps DEF Adds
<1>4. \A x \in Y, i \in P : T[<<x, more[i]>>] \in Y
  BY <1>2, AddKeeps, AddKeepsSome DEF Adds
<1>5. PICK one \in P : more[one] \in D
  BY DEF Some
<1>6. \A x \in X : T[<<x, more[one]>>] \in Y
  BY <1>2, <1>5, AddKeeps, AddBrings DEF Adds
<1>7. l \in X
  OBVIOUS
<1> HIDE DEF P, X, Y, T
<1>8. g[P] \in Y
  BY <1>1, <1>2, <1>3, <1>4, <1>6, <1>7, FoldGives
<1> QED  BY <1>1, <1>8 DEF Y


-----------------------------------------------------------------------------
(* The open ports, and the machines of a network.                          *)

\* What one usual port does to a list.
PortAdds(machine, X, ports) == [p \in X \X ports |-> ByPort(machine, p[1], p[2])]

USUAL_PORTS == {DEFAULT_PORTS[i] : i \in DOMAIN DEFAULT_PORTS}

\* There are five usual ports.
LEMMA UsualPlaces ==
  /\ DOMAIN DEFAULT_PORTS = 1..5 /\ IsFiniteSet(1..5) /\ 1..5 \subseteq Int
  /\ \A i \in 1..5 : DEFAULT_PORTS[i] \in USUAL_PORTS
<1>1. DOMAIN DEFAULT_PORTS = 1..5
  BY DEF DEFAULT_PORTS
<1>2. IsFiniteSet(1..5)
  BY FS_Interval, 1 \in Int, 5 \in Int
<1>3. \A i \in 1..5 : DEFAULT_PORTS[i] \in USUAL_PORTS
  BY <1>1 DEF USUAL_PORTS
<1> QED  BY <1>1, <1>2, <1>3

\* Going through the usual ports is a fold of it, on lists that it does not leave.
LEMMA ByPortsFolds ==
  ASSUME NEW machine, NEW X, NEW l \in X,
         \A x \in X, u \in USUAL_PORTS : ByPort(machine, x, u) \in X
  PROVE  \E pick, g : /\ Picks(pick, 1..5)
                      /\ FoldOf(PortAdds(machine, X, USUAL_PORTS), l, DEFAULT_PORTS, pick, 1..5, g)
                      /\ ByPorts(machine, l) = g[1..5]
<1> DEFINE D == 1..5
           seq == DEFAULT_PORTS
           T == PortAdds(machine, X, USUAL_PORTS)
           pick == [s \in SUBSET D |-> Max(s)]
           Folds(g) == g = [s \in SUBSET D |->
                              IF s = {} THEN l
                              ELSE ByPort(machine, g[s \ {Max(s)}], seq[Max(s)])]
           iter == CHOOSE g : Folds(g)
<1>1. /\ IsFiniteSet(D) /\ D \subseteq Int /\ DOMAIN seq = D
      /\ \A i \in D : seq[i] \in USUAL_PORTS
  BY UsualPlaces
<1> HIDE DEF seq
<1>2. Picks(pick, D)
  BY <1>1, MaxOf
<1>3. \A x \in X, i \in D : /\ T[<<x, seq[i]>>] = ByPort(machine, x, seq[i])
                            /\ ByPort(machine, x, seq[i]) \in X
  BY <1>1 DEF PortAdds
<1> HIDE DEF T
<1>4. \A x \in X, i \in D : T[<<x, seq[i]>>] \in X
  BY <1>3
<1>5. ASSUME NEW s \in SUBSET D, s # {}
      PROVE  pick[s] = Max(s) /\ Max(s) \in D
  BY <1>2, <1>5 DEF Picks
<1>6. \E g : Folds(g)
  <2>1. PICK g : FoldOf(T, l, seq, pick, D, g)
    <3> HIDE DEF D, pick
    <3> QED  BY <1>1, <1>2, FoldExists
  <2>2. \A s \in SUBSET D : g[s] \in X
    <3> HIDE DEF D, pick
    <3> QED  BY <1>1, <1>2, <1>4, <2>1, FoldKept
  <2>3. ASSUME NEW s \in SUBSET D, s # {}
        PROVE  T[<<g[s \ {pick[s]}], seq[pick[s]]>>]
                 = ByPort(machine, g[s \ {Max(s)}], seq[Max(s)])
    BY <1>3, <1>5, <2>2, <2>3
  <2>4. Folds(g)
    BY <2>1, <2>3 DEF FoldOf
  <2> QED  BY <2>4
<1>7. Folds(iter)
  BY <1>6
<1>8. ByPorts(machine, l) = iter[D]
  BY <1>1 DEF ByPorts, FoldLeft, MapThenFoldSet, seq
<1> HIDE DEF iter
<1>9. FoldOf(T, l, seq, pick, D, iter)
  <2>1. iter = [s \in SUBSET D |-> iter[s]] /\ iter[{}] = l
    BY <1>7
  <2>2. ASSUME NEW s \in SUBSET D, s # {}, iter[s \ {pick[s]}] \in X
        PROVE  iter[s] = T[<<iter[s \ {pick[s]}], seq[pick[s]]>>]
    BY <1>3, <1>5, <1>7, <2>2
  <2> HIDE DEF D, pick
  <2> QED  BY <1>1, <1>2, <1>4, <2>1, <2>2, FoldFrom
<1> QED  BY <1>2, <1>8, <1>9 DEF T, seq

\* A set of lists that no usual port leaves is not left by all of them.
LEMMA ByPortsKeeps ==
  ASSUME NEW machine, NEW X, NEW l \in X,
         \A x \in X, u \in USUAL_PORTS : ByPort(machine, x, u) \in X
  PROVE  ByPorts(machine, l) \in X
<1> DEFINE T == PortAdds(machine, X, USUAL_PORTS)
           D == 1..5
           seq == DEFAULT_PORTS
<1>1. PICK pick, g : /\ Picks(pick, D) /\ FoldOf(T, l, seq, pick, D, g)
                     /\ ByPorts(machine, l) = g[D]
  BY ByPortsFolds
<1>2. IsFiniteSet(D) /\ \A x \in X, i \in D : T[<<x, seq[i]>>] \in X
  BY UsualPlaces DEF PortAdds
<1> HIDE DEF T, D, seq
<1> QED  BY <1>1, <1>2, FoldKept

\* What one of them brings, and no other takes away, is there in the end.
LEMMA ByPortsBrings ==
  ASSUME NEW machine, NEW X, NEW l \in X,
         \A x \in X, u \in USUAL_PORTS : ByPort(machine, x, u) \in X,
         NEW Y, \A x \in X \cap Y, u \in USUAL_PORTS : ByPort(machine, x, u) \in Y,
         NEW one \in USUAL_PORTS, \A x \in X : ByPort(machine, x, one) \in Y
  PROVE  ByPorts(machine, l) \in Y
<1> DEFINE T == PortAdds(machine, X, USUAL_PORTS)
           D == 1..5
           seq == DEFAULT_PORTS
           Z == X \cap Y
<1>1. PICK pick, g : /\ Picks(pick, D) /\ FoldOf(T, l, seq, pick, D, g)
                     /\ ByPorts(machine, l) = g[D]
  BY ByPortsFolds
<1>2. IsFiniteSet(D) /\ \A x \in X, i \in D : T[<<x, seq[i]>>] \in X
  BY UsualPlaces DEF PortAdds
<1>3. \A x \in Z, i \in D : T[<<x, seq[i]>>] \in Z
  BY UsualPlaces DEF PortAdds
<1>4. PICK i \in D : one = seq[i]
  BY UsualPlaces DEF USUAL_PORTS
<1>5. \A x \in X : T[<<x, seq[i]>>] \in Z
  BY <1>4 DEF PortAdds
<1> HIDE DEF T, D, seq, Z
<1>6. g[D] \in Z
  BY <1>1, <1>2, <1>3, <1>5, FoldGives
<1> QED  BY <1>1, <1>6 DEF Z

\* Lists put together one by one are one of A, if all of them are.
LEMMA ListsTogether ==
  ASSUME NEW A, Merges(A, A), NEW l \in Seq(A), NEW lists \in Seq(Seq(A))
  PROVE  FoldLeft(AddAll, l, lists) \in Seq(A)
<1> DEFINE D == DOMAIN lists
           X == Seq(A)
           T == [p \in X \X X |-> AddAll(p[1], p[2])]
           pick == [s \in SUBSET D |-> Max(s)]
           Folds(g) == g = [s \in SUBSET D |->
                              IF s = {} THEN l ELSE AddAll(g[s \ {Max(s)}], lists[Max(s)])]
           iter == CHOOSE g : Folds(g)
<1>1. IsFiniteSet(D) /\ D \subseteq Int /\ \A i \in D : lists[i] \in X
  BY Places
<1>2. Picks(pick, D)
  BY <1>1, MaxOf
<1>3. \A x \in X, i \in D : /\ T[<<x, lists[i]>>] = AddAll(x, lists[i])
                            /\ AddAll(x, lists[i]) \in X
  BY <1>1, AddAllKeeps
<1>4. l \in X
  OBVIOUS
<1> HIDE DEF X, T
<1>5. \A x \in X, i \in D : T[<<x, lists[i]>>] \in X
  BY <1>3
<1>6. ASSUME NEW s \in SUBSET D, s # {}
      PROVE  pick[s] = Max(s) /\ Max(s) \in D
  BY <1>2, <1>6 DEF Picks
<1>7. \E g : Folds(g)
  <2>1. PICK g : FoldOf(T, l, lists, pick, D, g)
    <3> HIDE DEF D, pick
    <3> QED  BY <1>1, <1>2, FoldExists
  <2>2. \A s \in SUBSET D : g[s] \in X
    <3> HIDE DEF D, pick
    <3> QED  BY <1>1, <1>2, <1>4, <1>5, <2>1, FoldKept
  <2>3. ASSUME NEW s \in SUBSET D, s # {}
        PROVE  T[<<g[s \ {pick[s]}], lists[pick[s]]>>] = AddAll(g[s \ {Max(s)}], lists[Max(s)])
    BY <1>3, <1>6, <2>2, <2>3
  <2>4. Folds(g)
    BY <2>1, <2>3 DEF FoldOf
  <2> QED  BY <2>4
<1>8. Folds(iter)
  BY <1>7
<1>9. FoldLeft(AddAll, l, lists) = iter[D]
  BY DEF FoldLeft, MapThenFoldSet
<1> HIDE DEF iter
<1>10. FoldOf(T, l, lists, pick, D, iter)
  <2>1. iter = [s \in SUBSET D |-> iter[s]] /\ iter[{}] = l
    BY <1>8
  <2>2. ASSUME NEW s \in SUBSET D, s # {}, iter[s \ {pick[s]}] \in X
        PROVE  iter[s] = T[<<iter[s \ {pick[s]}], lists[pick[s]]>>]
    BY <1>3, <1>6, <1>8, <2>2
  <2> HIDE DEF D, pick
  <2> QED  BY <1>1, <1>2, <1>4, <1>5, <2>1, <2>2, FoldFrom
<1>11. \A s \in SUBSET D : iter[s] \in X
  <2> HIDE DEF D, pick
  <2> QED  BY <1>1, <1>2, <1>4, <1>5, <1>10, FoldKept
<1>12. D \in SUBSET D
  OBVIOUS
<1> QED  BY <1>9, <1>11, <1>12 DEF X

\* What is at some places of a list is a list, of just that.
LEMMA TakenFacts ==
  ASSUME NEW A, NEW s \in Seq(A), NEW places \in SUBSET (DOMAIN s)
  PROVE  /\ Taken(s, places) \in Seq(A)
         /\ \A i \in DOMAIN Taken(s, places) : \E p \in places : Taken(s, places)[i] = s[p]
         /\ \A p \in places : \E i \in DOMAIN Taken(s, places) : Taken(s, places)[i] = s[p]
<1> DEFINE n == Cardinality(places)
           Orders(t) == \A i, j \in DOMAIN t : i < j => t[i] < t[j]
           order == CHOOSE t \in [1..n -> places] : Orders(t)
           k == [x \in places |-> x]
<1>1. /\ IsFiniteSet(places) /\ n \in Nat /\ places \subseteq Int
      /\ \A p \in places : s[p] \in A
  BY Places, FS_Subset, FS_CardinalityType
<1>2. PICK q : Ascending(k, places, q)
  <2>1. Integral(k, places) /\ \A x, y \in places : k[x] = k[y] => x = y
    BY <1>1 DEF Integral
  <2> HIDE DEF k
  <2> QED  BY <1>1, <2>1, AscendingExists
<1>3. q \in [1..n -> places] /\ Orders(q)
  BY <1>2 DEF Ascending
<1>4. order \in [1..n -> places] /\ Orders(order)
  BY <1>3
<1>5. Taken(s, places) = [i \in 1..n |-> s[order[i]]]
  BY <1>4 DEF Taken
<1> HIDE DEF order, n
<1>6. Taken(s, places) \in Seq(A)
  <2>1. [i \in 1..n |-> s[order[i]]] \in [1..n -> A]
    BY <1>1, <1>4
  <2> QED  BY <1>1, <1>5, <2>1, SeqDef
<1>7. \A i \in DOMAIN Taken(s, places) : \E p \in places : Taken(s, places)[i] = s[p]
  BY <1>4, <1>5
<1>8. \A p \in places : \E i \in DOMAIN Taken(s, places) : Taken(s, places)[i] = s[p]
  <2>1. order \in Injection(1..n, places)
    <3>1. ASSUME NEW i \in 1..n, NEW j \in 1..n, order[i] = order[j]
          PROVE  i = j
      BY <1>1, <1>4, <3>1
    <3> QED  BY <1>4, <3>1 DEF Injection, IsInjective
  <2>2. IsFiniteSet(1..n) /\ Cardinality(1..n) = n
    BY <1>1, FS_Interval
  <2>3. order \in Surjection(1..n, places)
    BY <1>1, <2>1, <2>2, FS_Injection DEF n
  <2>4. \A p \in places : \E i \in 1..n : order[i] = p
    BY <2>3 DEF Surjection
  <2> QED  BY <1>5, <2>4
<1> QED  BY <1>6, <1>7, <1>8

-----------------------------------------------------------------------------
(* Entries.                                                                *)

TCP == {"yes", "no", "unknown"}

\* The entries of some hosts that bear some names.
Entries(H, N) == [engine : ENGINES, host : H, port : Nat, instance : N, tcp : TCP]

\* What is detected has what it was detected with.
LEMMA DetectedFacts ==
  ASSUME NEW H, NEW N, NEW engine \in ENGINES, NEW host \in H, NEW port \in Nat,
         NEW instance \in N, NEW tcp \in TCP
  PROVE  LET e == Detected(engine, host, port, instance, tcp)
         IN  /\ e \in Entries(H, N)
             /\ e.engine = engine /\ e.host = host /\ e.port = port
             /\ e.instance = instance /\ e.tcp = tcp
BY DEF Detected, Entries

\* The first of two entries keeps what it has and takes what it lacks of the other.
LEMMA MergedFacts ==
  ASSUME NEW H, NEW N, NEW a \in Entries(H, N), NEW b \in Entries(H, N)
  PROVE  /\ Merged(a, b) \in Entries(H, N)
         /\ Merged(a, b).engine = a.engine /\ Merged(a, b).host = a.host
         /\ Merged(a, b).instance = a.instance
         /\ Merged(a, b).port = IF a.port = NotKnown THEN b.port ELSE a.port
         /\ Merged(a, b).tcp = IF a.tcp = "unknown" THEN b.tcp ELSE a.tcp
BY DEF Merged, Detected, Entries

\* Entries of some hosts and names stay so when they are merged.
LEMMA EntriesMerge == ASSUME NEW H, NEW N PROVE Merges(Entries(H, N), Entries(H, N))
BY MergedFacts DEF Merges

\* Where a server may be told to be that has a usual port which is open.
Fits(e, u) == Family(e.engine) = u.engine /\ e.port \in {u.port, NotKnown}

OnPort(e, u) == [e EXCEPT !.port = u.port]

\* An entry at which a port is noted is otherwise what it was.
LEMMA OnPortFacts ==
  ASSUME NEW H, NEW N, NEW e \in Entries(H, N), NEW u \in USUAL_PORTS
  PROVE  OnPort(e, u) = [engine |-> e.engine, host |-> e.host, port |-> u.port,
                         instance |-> e.instance, tcp |-> e.tcp]
BY DEF OnPort, Entries

\* What there is to know of the usual ports.
LEMMA UsualFacts ==
  ASSUME NEW u \in USUAL_PORTS
  PROVE  /\ u.port \in Nat \ {NotKnown}
         /\ u.engine \in ENGINES /\ Family(u.engine) = u.engine
         /\ u.engine = "mssql" <=> u.port = 1433
<1>1. USUAL_PORTS = {DEFAULT_PORTS[1], DEFAULT_PORTS[2], DEFAULT_PORTS[3], DEFAULT_PORTS[4],
                     DEFAULT_PORTS[5]}
  BY UsualPlaces DEF USUAL_PORTS
<1> QED  BY <1>1 DEF DEFAULT_PORTS, ENGINES, Family, NotKnown

\* Each family has one usual port.
LEMMA UsualPortFacts ==
  ASSUME NEW engine \in ENGINES
  PROVE  \E u \in USUAL_PORTS : u.engine = Family(engine) /\ u.port = UsualPort(engine)
<1> DEFINE Has(i) == DEFAULT_PORTS[i].engine = Family(engine)
           usual == CHOOSE i \in DOMAIN DEFAULT_PORTS : Has(i)
<1>1. \E i \in DOMAIN DEFAULT_PORTS : Has(i)
  <2>1. /\ DEFAULT_PORTS[1].engine = "mssql" /\ DEFAULT_PORTS[2].engine = "postgresql"
        /\ DEFAULT_PORTS[3].engine = "mysql" /\ DEFAULT_PORTS[4].engine = "oracle"
        /\ DEFAULT_PORTS[5].engine = "firebird"
    BY DEF DEFAULT_PORTS
  <2>2. Family(engine) \in {"mssql", "postgresql", "mysql", "oracle", "firebird"}
    BY DEF ENGINES, Family
  <2>3. 1 \in 1..5 /\ 2 \in 1..5 /\ 3 \in 1..5 /\ 4 \in 1..5 /\ 5 \in 1..5
    OBVIOUS
  <2> QED  BY <2>1, <2>2, <2>3, UsualPlaces
<1>2. usual \in DOMAIN DEFAULT_PORTS /\ Has(usual)
  BY <1>1
<1>3. UsualPort(engine) = DEFAULT_PORTS[usual].port
  BY DEF UsualPort
<1> HIDE DEF usual
<1> QED  BY <1>2, <1>3 DEF USUAL_PORTS

-----------------------------------------------------------------------------
(* An open port.                                                           *)

\* It is noted at an entry that fits, or added.
LEMMA ByPortIs ==
  ASSUME NEW machine, NEW A, NEW l \in Seq(A), NEW u \in USUAL_PORTS
  PROVE  \/ ~PortOpen(machine, u.port) /\ ByPort(machine, l, u) = l
         \/ /\ PortOpen(machine, u.port)
            /\ \E i \in DOMAIN l : /\ Fits(l[i], u)
                                   /\ ByPort(machine, l, u) = [l EXCEPT ![i] = OnPort(l[i], u)]
         \/ /\ PortOpen(machine, u.port)
            /\ ByPort(machine, l, u) = Add(l, ByOpenPort(u, "localhost"))
<1> DEFINE D == DOMAIN l
           fits(i) == Fits(l[i], u)
           Earliest(i) == fits(i) /\ \A j \in 1..(i - 1) : ~fits(j)
           first == CHOOSE i \in D : Earliest(i)
           F == {i \in D : fits(i)}
           k == [i \in D |-> -i]
<1>1. ByPort(machine, l, u)
        = IF ~PortOpen(machine, u.port) THEN l
          ELSE IF \E i \in D : fits(i) THEN [l EXCEPT ![first].port = u.port]
          ELSE Add(l, ByOpenPort(u, "localhost"))
  BY DEF ByPort, Fits
<1>2. ASSUME \E i \in D : fits(i)
      PROVE  first \in D /\ fits(first)
  <2>1. D = 1..Len(l) /\ Len(l) \in Nat /\ IsFiniteSet(D)
    BY Places
  <2>2. IsFiniteSet(F) /\ Integral(k, F) /\ F # {}
    BY <1>2, <2>1, FS_Subset DEF Integral
  <2>3. PICK m \in F : \A x \in F : k[x] <= k[m]
    <3> HIDE DEF F, k
    <3> QED  BY <2>2, Greatest
  <2>4. ASSUME NEW j \in 1..(m - 1), fits(j)
        PROVE  FALSE
    <3>1. j \in F /\ j < m /\ m \in Int
      BY <2>1, <2>4
    <3>2. k[j] = -j /\ k[m] = -m
      BY <3>1
    <3> HIDE DEF F, k
    <3> QED  BY <2>3, <3>1, <3>2
  <2>5. m \in D /\ Earliest(m)
    BY <2>4
  <2> HIDE DEF fits
  <2> QED  BY <2>5
<1>3. CASE PortOpen(machine, u.port) /\ \E i \in D : fits(i)
  <2>1. ByPort(machine, l, u) = [l EXCEPT ![first].port = u.port]
    BY <1>1, <1>3
  <2>2. first \in D /\ fits(first)
    BY <1>2, <1>3
  <2> HIDE DEF first
  <2>3. [l EXCEPT ![first].port = u.port] = [l EXCEPT ![first] = OnPort(l[first], u)]
    BY DEF OnPort
  <2> QED  BY <1>3, <2>1, <2>2, <2>3
<1>4. CASE ~PortOpen(machine, u.port)
  BY <1>1, <1>4
<1>5. CASE PortOpen(machine, u.port) /\ ~\E i \in D : fits(i)
  BY <1>1, <1>5
<1> QED  BY <1>3, <1>4, <1>5

\* Lists of A stay so, if what fits an open port is in A with it.
TakesPort(machine, A, u) ==
  PortOpen(machine, u.port) => \A a \in A : Fits(a, u) => OnPort(a, u) \in A

\* A usual port, open or not, leaves lists of A such.
LEMMA ByPortKeeps ==
  ASSUME NEW machine, NEW A, Merges(A, A), NEW l \in Seq(A), NEW u \in USUAL_PORTS,
         TakesPort(machine, A, u),
         PortOpen(machine, u.port) => ByOpenPort(u, "localhost") \in A
  PROVE  ByPort(machine, l, u) \in Seq(A)
<1>1. CASE PortOpen(machine, u.port) /\ ByPort(machine, l, u) = Add(l, ByOpenPort(u, "localhost"))
  BY <1>1, AddKeeps
<1>2. ASSUME PortOpen(machine, u.port), NEW i \in DOMAIN l, Fits(l[i], u),
             ByPort(machine, l, u) = [l EXCEPT ![i] = OnPort(l[i], u)]
      PROVE  ByPort(machine, l, u) \in Seq(A)
  <2>1. l \in [1..Len(l) -> A] /\ Len(l) \in Nat /\ l[i] \in A
    BY Places
  <2>2. OnPort(l[i], u) \in A
    BY <1>2, <2>1 DEF TakesPort
  <2>3. [l EXCEPT ![i] = OnPort(l[i], u)] \in [1..Len(l) -> A]
    BY <2>1, <2>2
  <2> QED  BY <1>2, <2>1, <2>3, SeqDef
<1> QED  BY <1>1, <1>2, ByPortIs

\* And what a list has of C it keeps.
LEMMA ByPortKeepsSome ==
  ASSUME NEW machine, NEW A, NEW C, Merges(C, A), NEW l \in Seq(A), NEW u \in USUAL_PORTS,
         TakesPort(machine, C, u),
         PortOpen(machine, u.port) => ByOpenPort(u, "localhost") \in A,
         Some(l, C)
  PROVE  Some(ByPort(machine, l, u), C)
<1>1. CASE PortOpen(machine, u.port) /\ ByPort(machine, l, u) = Add(l, ByOpenPort(u, "localhost"))
  BY <1>1, AddKeepsSome
<1>2. ASSUME PortOpen(machine, u.port), NEW i \in DOMAIN l, Fits(l[i], u),
             ByPort(machine, l, u) = [l EXCEPT ![i] = OnPort(l[i], u)]
      PROVE  Some(ByPort(machine, l, u), C)
  <2>1. PICK j \in DOMAIN l : l[j] \in C
    BY DEF Some
  <2>2. /\ DOMAIN ByPort(machine, l, u) = DOMAIN l
        /\ ByPort(machine, l, u)[j] = IF j = i THEN OnPort(l[i], u) ELSE l[j]
    BY <1>2, <2>1
  <2>3. ByPort(machine, l, u)[j] \in C
    BY <1>2, <2>1, <2>2 DEF TakesPort
  <2> QED  BY <2>1, <2>2, <2>3 DEF Some
<1>3. CASE ByPort(machine, l, u) = l
  BY <1>3
<1> QED  BY <1>1, <1>2, <1>3, ByPortIs

\* An open port brings an entry of C.
LEMMA ByPortBrings ==
  ASSUME NEW machine, NEW A, NEW C, NEW l \in Seq(A), NEW u \in USUAL_PORTS,
         PortOpen(machine, u.port), \A a \in A : Fits(a, u) => OnPort(a, u) \in C,
         Brings({ByOpenPort(u, "localhost")}, A, C)
  PROVE  Some(ByPort(machine, l, u), C)
<1>1. CASE ByPort(machine, l, u) = Add(l, ByOpenPort(u, "localhost"))
  BY <1>1, AddBrings
<1>2. ASSUME NEW i \in DOMAIN l, Fits(l[i], u),
             ByPort(machine, l, u) = [l EXCEPT ![i] = OnPort(l[i], u)]
      PROVE  Some(ByPort(machine, l, u), C)
  <2>1. l[i] \in A
    BY Places
  <2>2. ByPort(machine, l, u)[i] = OnPort(l[i], u) /\ DOMAIN ByPort(machine, l, u) = DOMAIN l
    BY <1>2
  <2> QED  BY <1>2, <2>1, <2>2 DEF Some
<1> QED  BY <1>1, <1>2, ByPortIs

-----------------------------------------------------------------------------
(* What a machine shows.                                                   *)

\* The list of some of its servers, told in some way.
LEMMA ServicesFacts ==
  ASSUME NEW machine, ToldApart(machine), NEW A,
         "services" \in machine.visible =>
           \A i \in DOMAIN machine.servers : ByService(machine.servers[i]) \in A
  PROVE  /\ FromServices(machine) \in Seq(A)
         /\ "services" \in machine.visible =>
              \A i \in DOMAIN machine.servers :
                \E j \in DOMAIN FromServices(machine) :
                  FromServices(machine)[j] = ByService(machine.servers[i])
<1> DEFINE s == machine.servers
           told == [i \in DOMAIN s |-> ByService(s[i])]
<1>1. Len(s) \in Nat /\ DOMAIN s = 1..Len(s)
  <2>1. s \in Seq({s[i] : i \in DOMAIN s})
    BY DEF ToldApart
  <2> HIDE DEF s
  <2> QED  BY <2>1, Places
<1>2. "services" \in machine.visible => told \in [1..Len(s) -> A]
  BY <1>1
<1>3. "services" \in machine.visible => told \in Seq(A)
  <2> HIDE DEF told, s
  <2> QED  BY <1>1, <1>2, SeqDef
<1>4. <<>> \in Seq(A)
  OBVIOUS
<1>5. FromServices(machine) = IF "services" \in machine.visible THEN told ELSE <<>>
  BY DEF FromServices
<1>6. \A i \in DOMAIN s : i \in DOMAIN told /\ told[i] = ByService(s[i])
  OBVIOUS
<1> QED  BY <1>3, <1>4, <1>5, <1>6

\* The instances of SQL Server that are installed.
LEMMA InstalledFacts ==
  ASSUME NEW machine, ToldApart(machine)
  PROVE  \E S : /\ Installed(machine, "mssql") \in Seq(S)
                /\ \A x \in S : \E i \in DOMAIN machine.servers :
                     x = machine.servers[i] /\ x.engine = "mssql"
                /\ \A i \in DOMAIN machine.servers : machine.servers[i].engine = "mssql" =>
                     \E j \in DOMAIN Installed(machine, "mssql") :
                       Installed(machine, "mssql")[j] = machine.servers[i]
<1> DEFINE s == machine.servers
           places == {i \in DOMAIN s : s[i].engine = "mssql"}
           known == Taken(s, places)
           S == {s[i] : i \in places}
           R == {s[i] : i \in DOMAIN s}
<1>1. s \in Seq(R)
  BY DEF ToldApart
<1>2. known = Installed(machine, "mssql")
  BY DEF Installed
<1>3. /\ known \in Seq(R)
      /\ \A i \in DOMAIN known : \E p \in places : known[i] = s[p]
      /\ \A p \in places : \E i \in DOMAIN known : known[i] = s[p]
  <2>1. places \in SUBSET (DOMAIN s)
    OBVIOUS
  <2> HIDE DEF known, places, s, R
  <2> QED  BY <1>1, <2>1, TakenFacts DEF known
<1> HIDE DEF known
<1>4. known \in Seq(S)
  <2>1. Len(known) \in Nat /\ DOMAIN known = 1..Len(known) /\ known \in [1..Len(known) -> R]
    <3> HIDE DEF R
    <3> QED  BY <1>3, Places
  <2>2. \A i \in 1..Len(known) : known[i] \in S
    BY <1>3, <2>1
  <2>3. known \in [1..Len(known) -> S]
    <3> HIDE DEF S, R
    <3> QED  BY <2>1, <2>2
  <2> HIDE DEF S, R
  <2> QED  BY <2>1, <2>3, SeqDef
<1>5. \A x \in S : \E i \in DOMAIN s : x = s[i] /\ x.engine = "mssql"
  OBVIOUS
<1>6. \A i \in DOMAIN s : s[i].engine = "mssql" => \E j \in DOMAIN known : known[j] = s[i]
  BY <1>3
<1> HIDE DEF S
<1> QED  BY <1>2, <1>4, <1>5, <1>6

\* The registry tells of every instance of SQL Server.
LEMMA RegistryFacts ==
  ASSUME NEW machine, ToldApart(machine), NEW A,
         "registry" \in machine.visible =>
           \A i \in DOMAIN machine.servers :
             machine.servers[i].engine = "mssql" => ByRegistry(machine.servers[i]) \in A
  PROVE  /\ FromRegistry(machine) \in Seq(A)
         /\ "registry" \in machine.visible =>
              \A i \in DOMAIN machine.servers : machine.servers[i].engine = "mssql" =>
                \E j \in DOMAIN FromRegistry(machine) :
                  FromRegistry(machine)[j] = ByRegistry(machine.servers[i])
<1> DEFINE s == machine.servers
           known == Installed(machine, "mssql")
           told == [i \in DOMAIN known |-> ByRegistry(known[i])]
<1>1. PICK S : /\ known \in Seq(S)
               /\ \A x \in S : \E i \in DOMAIN s : x = s[i] /\ x.engine = "mssql"
               /\ \A i \in DOMAIN s : s[i].engine = "mssql" =>
                    \E j \in DOMAIN known : known[j] = s[i]
  BY InstalledFacts
<1> HIDE DEF known
<1>2. /\ Len(known) \in Nat /\ DOMAIN known = 1..Len(known)
      /\ \A i \in DOMAIN known : known[i] \in S
  BY <1>1, Places
<1>3. "registry" \in machine.visible => told \in [1..Len(known) -> A]
  BY <1>1, <1>2
<1>4. "registry" \in machine.visible => told \in Seq(A)
  <2> HIDE DEF told
  <2> QED  BY <1>2, <1>3, SeqDef
<1>5. <<>> \in Seq(A)
  OBVIOUS
<1>6. FromRegistry(machine) = IF "registry" \in machine.visible THEN told ELSE <<>>
  BY DEF FromRegistry, known
<1>7. \A i \in DOMAIN s : s[i].engine = "mssql" =>
        \E j \in DOMAIN told : told[j] = ByRegistry(s[i])
  BY <1>1
<1> HIDE DEF told
<1> QED  BY <1>4, <1>5, <1>6, <1>7

\* The Browser announces every instance of SQL Server that runs.
LEMMA BrowserFacts ==
  ASSUME NEW machine, ToldApart(machine), NEW host, NEW A,
         \A i \in DOMAIN machine.servers :
           machine.servers[i].engine = "mssql" => ByBrowser(machine.servers[i], host) \in A
  PROVE  /\ FromBrowser(machine, host) \in Seq(A)
         /\ machine.browser =>
              \A i \in DOMAIN machine.servers :
                machine.servers[i].engine = "mssql" /\ machine.servers[i].running =>
                  \E j \in DOMAIN FromBrowser(machine, host) :
                    FromBrowser(machine, host)[j] = ByBrowser(machine.servers[i], host)
<1> DEFINE s == machine.servers
           known == Installed(machine, "mssql")
           places == {i \in DOMAIN known : known[i].running}
           running == Taken(known, places)
           told == [i \in DOMAIN running |-> ByBrowser(running[i], host)]
<1>1. PICK S : /\ known \in Seq(S)
               /\ \A x \in S : \E i \in DOMAIN s : x = s[i] /\ x.engine = "mssql"
               /\ \A i \in DOMAIN s : s[i].engine = "mssql" =>
                    \E j \in DOMAIN known : known[j] = s[i]
  BY InstalledFacts
<1> HIDE DEF known
<1>2. /\ running \in Seq(S)
      /\ \A p \in places : \E i \in DOMAIN running : running[i] = known[p]
  <2>1. places \in SUBSET (DOMAIN known)
    OBVIOUS
  <2> HIDE DEF places
  <2> QED  BY <1>1, <2>1, TakenFacts
<1> HIDE DEF running
<1>3. /\ Len(running) \in Nat /\ DOMAIN running = 1..Len(running)
      /\ \A i \in DOMAIN running : running[i] \in S
  BY <1>2, Places
<1>4. told \in [1..Len(running) -> A]
  BY <1>1, <1>3
<1>5. told \in Seq(A)
  <2> HIDE DEF told
  <2> QED  BY <1>3, <1>4, SeqDef
<1>6. <<>> \in Seq(A)
  OBVIOUS
<1>7. FromBrowser(machine, host) = IF machine.browser THEN told ELSE <<>>
  BY DEF FromBrowser, known, running
<1>8. ASSUME NEW i \in DOMAIN s, s[i].engine = "mssql", s[i].running
      PROVE  \E j \in DOMAIN told : told[j] = ByBrowser(s[i], host)
  <2>1. PICK p \in DOMAIN known : known[p] = s[i]
    BY <1>1, <1>8
  <2>2. PICK j \in DOMAIN running : running[j] = known[p]
    BY <1>2, <1>8, <2>1
  <2> QED  BY <2>1, <2>2
<1> HIDE DEF told
<1> QED  BY <1>5, <1>6, <1>7, <1>8

\* The open ports of a machine of the network.
LEMMA PortsFacts ==
  ASSUME NEW machine, NEW host, NEW A, \A u \in USUAL_PORTS : ByOpenPort(u, host) \in A
  PROVE  FromPorts(machine, host) \in Seq(A)
<1> DEFINE places == {i \in DOMAIN DEFAULT_PORTS : PortOpen(machine, DEFAULT_PORTS[i].port)}
           open == Taken(DEFAULT_PORTS, places)
           told == [i \in DOMAIN open |-> ByOpenPort(open[i], host)]
<1>1. DEFAULT_PORTS \in Seq(USUAL_PORTS)
  <2>1. DEFAULT_PORTS \in [1..5 -> USUAL_PORTS]
    <3>1. DEFAULT_PORTS = [i \in 1..5 |-> DEFAULT_PORTS[i]]
      BY DEF DEFAULT_PORTS
    <3> QED  BY <3>1, UsualPlaces
  <2> QED  BY <2>1, SeqDef
<1>2. open \in Seq(USUAL_PORTS)
  <2>1. places \in SUBSET (DOMAIN DEFAULT_PORTS)
    OBVIOUS
  <2> HIDE DEF places
  <2> QED  BY <1>1, <2>1, TakenFacts
<1>3. FromPorts(machine, host) = told
  BY DEF FromPorts
<1> HIDE DEF open
<1>4. /\ Len(open) \in Nat /\ DOMAIN open = 1..Len(open)
      /\ \A i \in DOMAIN open : open[i] \in USUAL_PORTS
  BY <1>2, Places
<1>5. told \in [1..Len(open) -> A]
  BY <1>4
<1> HIDE DEF told
<1> QED  BY <1>3, <1>4, <1>5, SeqDef

\* An instance of SQL Server as the registry or the Browser tells it.
Seen(e, x, host, H, N) ==
  /\ e \in Entries(H, N)
  /\ e.engine = "mssql" /\ e.host = host /\ e.instance = x.instance
  /\ e.tcp = IF x.tcp THEN "yes" ELSE "no"
  /\ e.port \in {NotKnown, x.port} /\ (x.tcp => e.port = x.port)

\* The entries of a server by its service, the registry and the Browser.
LEMMA ToldEntries ==
  ASSUME NEW H, NEW N, NEW x, x.engine \in ENGINES, x.instance \in N, NoName \in N,
         x.port \in Nat \ {NotKnown}, "localhost" \in H
  PROVE  /\ ByService(x) \in Entries(H, N)
         /\ ByService(x).engine = x.engine /\ ByService(x).instance # "MSSQLSERVER"
         /\ ByService(x).instance = IF x.instance = "MSSQLSERVER" THEN NoName ELSE x.instance
         /\ x.engine = "mssql" => ByService(x).port = NotKnown
         /\ Seen(ByRegistry(x), x, "localhost", H, N)
         /\ ByRegistry(x).port = x.port
         /\ \A h \in H : Seen(ByBrowser(x, h), x, h, H, N)
<1>1. "mssql" \in ENGINES /\ NotKnown \in Nat
  BY DEF ENGINES, NotKnown
<1> DEFINE tcp == IF x.tcp THEN "yes" ELSE "no"
<1>2. tcp \in TCP
  BY DEF TCP
<1>3. /\ ByService(x) \in Entries(H, N)
      /\ ByService(x).engine = x.engine /\ ByService(x).instance # "MSSQLSERVER"
      /\ ByService(x).instance = IF x.instance = "MSSQLSERVER" THEN NoName ELSE x.instance
      /\ x.engine = "mssql" => ByService(x).port = NotKnown
  <2> DEFINE port == IF x.engine = "mssql" THEN NotKnown ELSE UsualPort(x.engine)
             instance == IF x.instance = "MSSQLSERVER" THEN NoName ELSE x.instance
  <2>1. NoName # "MSSQLSERVER"
    BY Zenon DEF NoName
  <2>2. UsualPort(x.engine) \in Nat
    BY UsualPortFacts, UsualFacts
  <2>3. /\ port \in Nat /\ instance \in N /\ instance # "MSSQLSERVER" /\ "unknown" \in TCP
        /\ x.engine = "mssql" => port = NotKnown
    BY <1>1, <2>1, <2>2 DEF TCP
  <2>4. ByService(x) = Detected(x.engine, "localhost", port, instance, "unknown")
    BY DEF ByService
  <2>5. instance = IF x.instance = "MSSQLSERVER" THEN NoName ELSE x.instance
    OBVIOUS
  <2> HIDE DEF port, instance
  <2>6. /\ ByService(x) \in Entries(H, N) /\ ByService(x).engine = x.engine
        /\ ByService(x).instance = instance /\ ByService(x).port = port
    BY <2>3, <2>4, DetectedFacts
  <2> QED  BY <2>3, <2>5, <2>6
<1>4. Seen(ByRegistry(x), x, "localhost", H, N) /\ ByRegistry(x).port = x.port
  <2>1. ByRegistry(x) = Detected("mssql", "localhost", x.port, x.instance, tcp)
    BY DEF ByRegistry
  <2>2. tcp = IF x.tcp THEN "yes" ELSE "no"
    OBVIOUS
  <2> HIDE DEF tcp
  <2>0. x.port \in Nat
    OBVIOUS
  <2>3. /\ ByRegistry(x) \in Entries(H, N) /\ ByRegistry(x).engine = "mssql"
        /\ ByRegistry(x).instance = x.instance /\ ByRegistry(x).tcp = tcp
        /\ ByRegistry(x).port = x.port /\ ByRegistry(x).host = "localhost"
    BY <1>1, <1>2, <2>0, <2>1, DetectedFacts
  <2> QED  BY <2>2, <2>3 DEF Seen
<1>5. ASSUME NEW h \in H
      PROVE  Seen(ByBrowser(x, h), x, h, H, N)
  <2> DEFINE port == IF x.tcp THEN x.port ELSE NotKnown
  <2>1. port \in Nat /\ port \in {NotKnown, x.port} /\ (x.tcp => port = x.port)
    BY <1>1
  <2>2. ByBrowser(x, h) = Detected("mssql", h, port, x.instance, tcp)
    BY DEF ByBrowser
  <2>3. tcp = IF x.tcp THEN "yes" ELSE "no"
    OBVIOUS
  <2> HIDE DEF port, tcp
  <2>4. /\ ByBrowser(x, h) \in Entries(H, N) /\ ByBrowser(x, h).engine = "mssql"
        /\ ByBrowser(x, h).instance = x.instance /\ ByBrowser(x, h).tcp = tcp
        /\ ByBrowser(x, h).port = port /\ ByBrowser(x, h).host = h
    BY <1>1, <1>2, <2>1, <2>2, DetectedFacts
  <2> QED  BY <2>1, <2>3, <2>4 DEF Seen
<1> QED  BY <1>3, <1>4, <1>5

-----------------------------------------------------------------------------
(* Entries lead home.                                                      *)

\* The machines whose servers can be told apart, ours under its name.
Hosts(w) == {"localhost"} \cup {a \in DOMAIN w \ {"localhost"} : ToldApart(w[a])}

\* The names of instances there are, or may be.
Names(w) ==
  {NoName} \cup UNION {{w[a].servers[i].instance : i \in DOMAIN w[a].servers} : a \in DOMAIN w}

MachineOf(w, host) == w[IF host = "localhost" THEN Here ELSE host]

\* The default instance of a machine is set to a port.
DefaultAt(machine, port) ==
  \E i \in DOMAIN machine.servers :
    LET x == machine.servers[i] IN IsDefault(x) /\ x.tcp /\ x.port = port

\* An entry that bears the name of the default instance was told whether its TCP is on,
\* and its port with it.
SoundEntries(w) ==
  {e \in Entries(Hosts(w), Names(w)) :
     e.engine = "mssql" /\ e.instance = "MSSQLSERVER" =>
       /\ e.tcp # "unknown"
       /\ e.tcp = "yes" => e.port # NotKnown /\ DefaultAt(MachineOf(w, e.host), e.port)}

\* A sound entry that names an instance leads to none but it.
LEMMA SoundLeads ==
  ASSUME NEW w, ToldApart(w[Here]), NEW e \in SoundEntries(w),
         e.engine = "mssql", e.instance # NoName, e.tcp # "no", NEW there \in Arrives(w, e)
  PROVE  there.server.instance = e.instance
<1> DEFINE m == MachineOf(w, e.host)
           s == m.servers
           port == IF ConnectionPort(e) = NotKnown THEN UsualPort(e.engine) ELSE ConnectionPort(e)
<1>1. ToldApart(m)
  BY DEF MachineOf, SoundEntries, Entries, Hosts
<1>2. PICK j \in DOMAIN s : /\ there.server = s[j]
                            /\ Family(s[j].engine) = Family(e.engine)
                            /\ s[j].running /\ s[j].tcp
                            /\ IF Named(e) THEN s[j].instance = e.instance ELSE s[j].port = port
  <2> DEFINE J == {j \in DOMAIN s : /\ Family(s[j].engine) = Family(e.engine)
                                    /\ s[j].running /\ s[j].tcp
                                    /\ IF Named(e) THEN s[j].instance = e.instance
                                       ELSE s[j].port = port}
             address == IF e.host = "localhost" THEN Here ELSE e.host
  <2>1. Arrives(w, e) = {[address |-> address, server |-> s[i]] : i \in J}
    BY DEF Arrives, MachineOf
  <2> HIDE DEF J, s, address
  <2>2. PICK j \in J : there = [address |-> address, server |-> s[j]]
    BY <2>1
  <2>3. there.server = s[j]
    BY <2>2
  <2> QED  BY <2>3 DEF J
<1>3. CASE Named(e)
  BY <1>2, <1>3
<1>4. CASE ~Named(e)
  <2>1. e.instance = "MSSQLSERVER"
    BY <1>4 DEF Named
  <2>2. e.tcp = "yes" /\ e.port # NotKnown /\ DefaultAt(m, e.port)
    BY <2>1 DEF SoundEntries, Entries, TCP
  <2>3. port = e.port
    <3>1. PICK u \in USUAL_PORTS : u.engine = Family("mssql") /\ u.port = UsualPort("mssql")
      BY UsualPortFacts DEF ENGINES
    <3>2. UsualPort(e.engine) = 1433
      BY <3>1, UsualFacts DEF Family
    <3>3. ConnectionPort(e) = IF e.port = 1433 THEN NotKnown ELSE e.port
      BY <1>4 DEF ConnectionPort
    <3> QED  BY <2>2, <3>2, <3>3
  <2>4. s[j].port = e.port /\ s[j].engine = "mssql"
    <3>1. s[j].engine \in ENGINES
      BY <1>1 DEF ToldApart
    <3> QED  BY <1>2, <1>4, <2>3, <3>1 DEF Family, ENGINES
  <2>5. PICK i \in DOMAIN s : IsDefault(s[i]) /\ s[i].tcp /\ s[i].port = e.port
    BY <2>2 DEF DefaultAt
  <2>6. i = j
    <3>1. Listens(s[j], s[i].port)
      BY <1>2, <2>4, <2>5 DEF Listens
    <3> HIDE DEF m
    <3> QED  BY <1>1, <2>4, <2>5, <3>1 DEF ToldApart
  <2> QED  BY <1>2, <2>1, <2>5, <2>6 DEF IsDefault
<1> QED  BY <1>3, <1>4

\* Sound entries stay so when they are merged.
LEMMA SoundMerge == ASSUME NEW w PROVE Merges(SoundEntries(w), SoundEntries(w))
<1> SUFFICES ASSUME NEW a \in SoundEntries(w), NEW b \in SoundEntries(w)
             PROVE  Merged(a, b) \in SoundEntries(w)
  BY DEF Merges
<1>1. a \in Entries(Hosts(w), Names(w)) /\ b \in Entries(Hosts(w), Names(w))
  BY DEF SoundEntries
<1> QED  BY <1>1, MergedFacts DEF SoundEntries

\* An open port makes no entry unsound.
LEMMA SoundPorts ==
  ASSUME NEW w, NEW h \in Hosts(w), NEW u \in USUAL_PORTS, NEW machine
  PROVE  ByOpenPort(u, h) \in SoundEntries(w) /\ TakesPort(machine, SoundEntries(w), u)
<1>1. ByOpenPort(u, h) \in SoundEntries(w)
  <2>1. NoName \in Names(w) /\ "unknown" \in TCP /\ u.engine \in ENGINES /\ u.port \in Nat
    BY UsualFacts DEF TCP, Names
  <2> HIDE DEF TCP
  <2>2. ByOpenPort(u, h) \in Entries(Hosts(w), Names(w)) /\ ByOpenPort(u, h).instance = NoName
    BY <2>1, DetectedFacts DEF ByOpenPort
  <2>3. NoName # "MSSQLSERVER"
    BY Zenon DEF NoName
  <2> QED  BY <2>2, <2>3 DEF SoundEntries
<1>2. ASSUME NEW a \in SoundEntries(w), Fits(a, u)
      PROVE  OnPort(a, u) \in SoundEntries(w)
  <2>1. a \in Entries(Hosts(w), Names(w)) /\ u.port \in Nat
    BY UsualFacts DEF SoundEntries
  <2>2. OnPort(a, u) = [engine |-> a.engine, host |-> a.host, port |-> u.port,
                        instance |-> a.instance, tcp |-> a.tcp]
    BY <2>1, OnPortFacts
  <2>3. a.port \in {u.port, NotKnown}
    BY <1>2 DEF Fits
  <2> QED  BY <2>1, <2>2, <2>3 DEF SoundEntries, Entries
<1> QED  BY <1>1, <1>2 DEF TakesPort

\* What a machine tells of its servers is sound.
LEMMA SoundTold ==
  ASSUME NEW w, Here \in DOMAIN w,
         NEW h \in Hosts(w), NEW machine, machine = MachineOf(w, h), ToldApart(machine),
         NEW i \in DOMAIN machine.servers
  PROVE  LET x == machine.servers[i]
         IN  /\ ByService(x) \in SoundEntries(w)
             /\ x.engine = "mssql" => ByBrowser(x, h) \in SoundEntries(w)
             /\ x.engine = "mssql" /\ h = "localhost" => ByRegistry(x) \in SoundEntries(w)
<1> DEFINE x == machine.servers[i]
           H == Hosts(w)
           N == Names(w)
<1>1. /\ x.engine \in ENGINES /\ x.instance \in N /\ x.port \in Nat \ {NotKnown}
      /\ "localhost" \in H /\ NoName \in N
  <2>1. PICK a \in DOMAIN w : machine = w[a]
    BY DEF Hosts, MachineOf
  <2>2. x.instance \in Names(w)
    BY <2>1 DEF Names
  <2> QED  BY <2>2 DEF ToldApart, Hosts, Names
<1>2. IsDefault(x) /\ x.tcp => DefaultAt(MachineOf(w, h), x.port)
  BY DEF DefaultAt
<1> HIDE DEF x, H, N
<1>3. /\ ByService(x) \in Entries(H, N) /\ ByService(x).instance # "MSSQLSERVER"
      /\ Seen(ByRegistry(x), x, "localhost", H, N)
      /\ Seen(ByBrowser(x, h), x, h, H, N)
  BY <1>1, ToldEntries DEF H
<1>4. ByService(x) \in SoundEntries(w)
  BY <1>3 DEF SoundEntries, H, N
<1>5. ASSUME x.engine = "mssql", NEW e, Seen(e, x, h, H, N)
      PROVE  e \in SoundEntries(w)
  BY <1>1, <1>2, <1>5 DEF Seen, SoundEntries, IsDefault, H, N
<1> QED  BY <1>3, <1>4, <1>5 DEF x

\* What is found here, and in the network.
LEMMA SoundHere ==
  ASSUME NEW w, Here \in DOMAIN w, ToldApart(w[Here])
  PROVE  DiscoverLocal(w[Here]) \in Seq(SoundEntries(w))
<1> DEFINE m == w[Here]
           A == SoundEntries(w)
           listed == FromServices(m) \o FromRegistry(m)
           told == AddAll(<<>>, listed)
<1>1. "localhost" \in Hosts(w) /\ m = MachineOf(w, "localhost")
  BY DEF Hosts, MachineOf
<1>2. Merges(A, A)
  BY SoundMerge
<1>3. listed \in Seq(A)
  <2>1. FromServices(m) \in Seq(A)
    BY <1>1, SoundTold, ServicesFacts
  <2>2. FromRegistry(m) \in Seq(A)
    BY <1>1, SoundTold, RegistryFacts
  <2> HIDE DEF A
  <2> QED  BY <2>1, <2>2
<1>4. told \in Seq(A)
  <2>1. <<>> \in Seq(A)
    OBVIOUS
  <2> HIDE DEF A, listed
  <2> QED  BY <1>2, <1>3, <2>1, AddAllKeeps
<1>5. ByPorts(m, told) \in Seq(A)
  <2>1. \A l \in Seq(A), u \in USUAL_PORTS : ByPort(m, l, u) \in Seq(A)
    BY <1>1, <1>2, SoundPorts, ByPortKeeps
  <2> HIDE DEF A, told
  <2> QED  BY <1>4, <2>1, ByPortsKeeps
<1>6. FromBrowser(m, "localhost") \in Seq(A)
  BY <1>1, SoundTold, BrowserFacts
<1>7. DiscoverLocal(m) = AddAll(ByPorts(m, told), FromBrowser(m, "localhost"))
  BY DEF DiscoverLocal
<1> HIDE DEF A, told, m
<1>8. DiscoverLocal(m) \in Seq(A)
  BY <1>2, <1>5, <1>6, <1>7, AddAllKeeps
<1> QED  BY <1>8 DEF A, m

\* Those of other machines, and of ours under an address of the network.
Elsewhere(w) == {e \in SoundEntries(w) : e.host # "localhost"}

\* They stay so when they are merged.
LEMMA ElsewhereMerge == ASSUME NEW w PROVE Merges(Elsewhere(w), Elsewhere(w))
<1> SUFFICES ASSUME NEW a \in Elsewhere(w), NEW b \in Elsewhere(w), Key(a) = Key(b)
             PROVE  Merged(a, b) \in Elsewhere(w)
  BY DEF Merges
<1>1. Merged(a, b) \in SoundEntries(w)
  BY SoundMerge DEF Merges, Elsewhere
<1>2. Merged(a, b).host = a.host
  BY DEF Merged, Detected
<1> QED  BY <1>1, <1>2 DEF Elsewhere

\* What is found in a network is sound, and not on this computer by its name.
LEMMA SoundThere ==
  ASSUME NEW w, Here \in DOMAIN w, NEW hosts \in Seq(DOMAIN w \ {"localhost"}),
         \A i \in DOMAIN hosts : ToldApart(w[hosts[i]])
  PROVE  DiscoverNetwork(w, hosts) \in Seq(Elsewhere(w))
<1> DEFINE A == Elsewhere(w)
           announced == [i \in DOMAIN hosts |-> FromBrowser(w[hosts[i]], hosts[i])]
           open == [i \in DOMAIN hosts |-> FromPorts(w[hosts[i]], hosts[i])]
<1>1. /\ Len(hosts) \in Nat /\ DOMAIN hosts = 1..Len(hosts)
      /\ \A i \in DOMAIN hosts : hosts[i] \in DOMAIN w \ {"localhost"}
  BY Places
<1>2. Merges(A, A)
  BY ElsewhereMerge
<1>3. ASSUME NEW i \in DOMAIN hosts
      PROVE  /\ FromBrowser(w[hosts[i]], hosts[i]) \in Seq(A)
             /\ FromPorts(w[hosts[i]], hosts[i]) \in Seq(A)
  <2>1. hosts[i] \in Hosts(w) /\ w[hosts[i]] = MachineOf(w, hosts[i])
    BY <1>1 DEF Hosts, MachineOf
  <2>2. FromBrowser(w[hosts[i]], hosts[i]) \in Seq(A)
    <3>1. \A x : ByBrowser(x, hosts[i]).host = hosts[i]
      BY DEF ByBrowser, Detected
    <3>2. hosts[i] # "localhost"
      BY <1>1
    <3>3. \A j \in DOMAIN w[hosts[i]].servers :
            w[hosts[i]].servers[j].engine = "mssql" =>
              ByBrowser(w[hosts[i]].servers[j], hosts[i]) \in A
      BY <2>1, <3>1, <3>2, SoundTold DEF Elsewhere
    <3> HIDE DEF A
    <3> QED  BY <3>3, BrowserFacts
  <2>3. FromPorts(w[hosts[i]], hosts[i]) \in Seq(A)
    <3>1. \A u : ByOpenPort(u, hosts[i]).host = hosts[i]
      BY DEF ByOpenPort, Detected
    <3>2. hosts[i] # "localhost"
      BY <1>1
    <3>3. \A u \in USUAL_PORTS : ByOpenPort(u, hosts[i]) \in A
      BY <2>1, <3>1, <3>2, SoundPorts DEF Elsewhere
    <3> HIDE DEF A
    <3> QED  BY <3>3, PortsFacts
  <2> QED  BY <2>2, <2>3
<1> HIDE DEF A
<1>4. announced \in Seq(Seq(A)) /\ open \in Seq(Seq(A))
  <2>1. announced \in [1..Len(hosts) -> Seq(A)] /\ open \in [1..Len(hosts) -> Seq(A)]
    BY <1>1, <1>3
  <2> DEFINE B == Seq(A)
  <2>2. announced \in [1..Len(hosts) -> B] /\ open \in [1..Len(hosts) -> B]
    BY <2>1
  <2> HIDE DEF announced, open, B
  <2>3. announced \in Seq(B) /\ open \in Seq(B)
    BY <1>1, <2>2, SeqDef
  <2> QED  BY <2>3 DEF B
<1>5. <<>> \in Seq(A)
  OBVIOUS
<1>6. DiscoverNetwork(w, hosts) = FoldLeft(AddAll, FoldLeft(AddAll, <<>>, announced), open)
  BY DEF DiscoverNetwork
<1> HIDE DEF announced, open
<1>7. FoldLeft(AddAll, <<>>, announced) \in Seq(A)
  BY <1>2, <1>4, <1>5, ListsTogether
<1>8. DiscoverNetwork(w, hosts) \in Seq(A)
  BY <1>2, <1>4, <1>6, <1>7, ListsTogether
<1> QED  BY <1>8 DEF A

\* What is found here comes first in the list, under the name of this computer, and
\* what comes after bears another.
LEMMA SoundSearch ==
  ASSUME NEW w, NEW hosts, Here \in DOMAIN w, ToldApart(w[Here]),
         hosts \in LocalNetworks => /\ hosts \in Seq(DOMAIN w \ {"localhost"})
                                    /\ \A i \in DOMAIN hosts : ToldApart(w[hosts[i]])
  PROVE  /\ Search(w, hosts) \in Seq(SoundEntries(w))
         /\ \A i \in DOMAIN DiscoverLocal(w[Here]) :
              i \in DOMAIN Search(w, hosts) /\ Search(w, hosts)[i] = DiscoverLocal(w[Here])[i]
         /\ \A i \in DOMAIN Search(w, hosts) \ DOMAIN DiscoverLocal(w[Here]) :
              Search(w, hosts)[i].host # "localhost"
<1> DEFINE A == SoundEntries(w)
           here == DiscoverLocal(w[Here])
           known == {Key(here[i]) : i \in DOMAIN here}
           there == DiscoverNetwork(w, hosts)
           places == {i \in DOMAIN there : Key(there[i]) \notin known}
           new == Taken(there, places)
<1>1. here \in Seq(A)
  BY SoundHere
<1>2. CASE ~MaySearch(hosts)
  BY <1>1, <1>2, Places DEF Search
<1>3. CASE MaySearch(hosts)
  <2>1. there \in Seq(Elsewhere(w))
    BY <1>3, SoundThere DEF MaySearch
  <2>2. new \in Seq(Elsewhere(w))
    <3>1. places \in SUBSET (DOMAIN there)
      OBVIOUS
    <3> HIDE DEF places, there
    <3> QED  BY <2>1, <3>1, TakenFacts
  <2>3. Search(w, hosts) = here \o new
    BY <1>3 DEF Search
  <2> HIDE DEF new, here, A
  <2>4. here \o new \in Seq(A)
    <3>1. new \in Seq(A)
      BY <2>2, Places, SeqDef DEF Elsewhere, A
    <3> QED  BY <1>1, <3>1
  <2>5. /\ Len(here) \in Nat /\ DOMAIN here = 1..Len(here)
        /\ Len(new) \in Nat /\ DOMAIN new = 1..Len(new)
    BY <1>1, <2>2, Places
  <2>6. \A i \in DOMAIN here : i \in DOMAIN (here \o new) /\ (here \o new)[i] = here[i]
    BY <1>1, <2>2, <2>5
  <2>7. \A i \in DOMAIN (here \o new) \ DOMAIN here : (here \o new)[i].host # "localhost"
    <3> SUFFICES ASSUME NEW i \in DOMAIN (here \o new) \ DOMAIN here
                 PROVE  (here \o new)[i].host # "localhost"
      OBVIOUS
    <3>1. (here \o new)[i] \in Elsewhere(w)
      <4>1. i \in (Len(here) + 1)..(Len(here) + Len(new)) /\ (here \o new)[i] = new[i - Len(here)]
        BY <1>1, <2>2, <2>5
      <4>2. i - Len(here) \in DOMAIN new
        BY <2>5, <4>1
      <4> QED  BY <2>2, <4>1, <4>2, Places
    <3> QED  BY <3>1 DEF Elsewhere
  <2> QED  BY <2>3, <2>4, <2>6, <2>7 DEF here, A
<1> QED  BY <1>2, <1>3

-----------------------------------------------------------------------------
(* Nothing found here is lost.                                             *)

\* What the services and the registry say.
Told(machine) == AddAll(<<>>, FromServices(machine) \o FromRegistry(machine))

\* The list of what they say is one of A, if all they say is in A.
LEMMA ToldFacts ==
  ASSUME NEW machine, ToldApart(machine), NEW A, Merges(A, A),
         "services" \in machine.visible =>
           \A i \in DOMAIN machine.servers : ByService(machine.servers[i]) \in A,
         "registry" \in machine.visible =>
           \A i \in DOMAIN machine.servers :
             machine.servers[i].engine = "mssql" => ByRegistry(machine.servers[i]) \in A
  PROVE  Told(machine) \in Seq(A)
<1>1. FromServices(machine) \in Seq(A) /\ FromRegistry(machine) \in Seq(A)
  BY ServicesFacts, RegistryFacts
<1>2. FromServices(machine) \o FromRegistry(machine) \in Seq(A) /\ <<>> \in Seq(A)
  BY <1>1
<1> QED  BY <1>2, AddAllKeeps DEF Told

\* An entry that one of them has of D leaves one of C.
LEMMA ToldBrings ==
  ASSUME NEW machine, ToldApart(machine), NEW A, Merges(A, A),
         "services" \in machine.visible =>
           \A i \in DOMAIN machine.servers : ByService(machine.servers[i]) \in A,
         "registry" \in machine.visible =>
           \A i \in DOMAIN machine.servers :
             machine.servers[i].engine = "mssql" => ByRegistry(machine.servers[i]) \in A,
         NEW C, Merges(C, A), NEW D, Brings(D, A, C), NEW i \in DOMAIN machine.servers,
         \/ "services" \in machine.visible /\ ByService(machine.servers[i]) \in D
         \/ /\ "registry" \in machine.visible /\ machine.servers[i].engine = "mssql"
            /\ ByRegistry(machine.servers[i]) \in D
  PROVE  Some(Told(machine), C)
<1> DEFINE f == FromServices(machine)
           g == FromRegistry(machine)
<1>1. f \in Seq(A) /\ g \in Seq(A)
  BY ServicesFacts, RegistryFacts
<1>2. (\E j \in DOMAIN f : f[j] \in D) \/ (\E j \in DOMAIN g : g[j] \in D)
  BY ServicesFacts, RegistryFacts
<1>3. <<>> \in Seq(A)
  OBVIOUS
<1> HIDE DEF f, g
<1>4. f \o g \in Seq(A)
  BY <1>1
<1>5. Some(f \o g, D)
  <2>1. /\ Len(f) \in Nat /\ DOMAIN f = 1..Len(f)
        /\ Len(g) \in Nat /\ DOMAIN g = 1..Len(g)
    BY <1>1, Places
  <2>2. ASSUME NEW j \in DOMAIN f, f[j] \in D
        PROVE  Some(f \o g, D)
    <3>1. j \in DOMAIN (f \o g) /\ (f \o g)[j] = f[j]
      BY <1>1, <2>1
    <3> QED  BY <2>2, <3>1 DEF Some
  <2>3. ASSUME NEW j \in DOMAIN g, g[j] \in D
        PROVE  Some(f \o g, D)
    <3>1. Len(f) + j \in DOMAIN (f \o g) /\ (f \o g)[Len(f) + j] = g[j]
      BY <1>1, <2>1
    <3> QED  BY <2>3, <3>1 DEF Some
  <2> QED  BY <1>2, <2>2, <2>3
<1>6. Some(AddAll(<<>>, f \o g), C)
  BY <1>3, <1>4, <1>5, AddAllBrings
<1> QED  BY <1>6 DEF Told, f, g

\* Open ports leave lists of A such.
PortsStay(machine, A) ==
  /\ Merges(A, A)
  /\ \A u \in USUAL_PORTS : /\ TakesPort(machine, A, u)
                            /\ PortOpen(machine, u.port) => ByOpenPort(u, "localhost") \in A

\* All the usual ports together leave lists of A such.
LEMMA PortsIn ==
  ASSUME NEW machine, NEW A, PortsStay(machine, A), NEW l \in Seq(A)
  PROVE  ByPorts(machine, l) \in Seq(A)
<1> DEFINE X == Seq(A)
<1>1. \A x \in X, u \in USUAL_PORTS : ByPort(machine, x, u) \in X
  BY ByPortKeeps DEF PortsStay
<1> HIDE DEF X
<1>2. ByPorts(machine, l) \in X
  <2>1. l \in X
    BY DEF X
  <2> QED  BY <1>1, <2>1, ByPortsKeeps
<1> QED  BY <1>2 DEF X

\* And what a list has of C they let it keep.
LEMMA PortsKeepSome ==
  ASSUME NEW machine, NEW A, PortsStay(machine, A), NEW l \in Seq(A),
         NEW C, Merges(C, A), \A u \in USUAL_PORTS : TakesPort(machine, C, u), Some(l, C)
  PROVE  Some(ByPorts(machine, l), C)
<1> DEFINE X == {x \in Seq(A) : Some(x, C)}
<1>1. \A x \in X, u \in USUAL_PORTS : ByPort(machine, x, u) \in X
  BY ByPortKeeps, ByPortKeepsSome DEF PortsStay
<1>2. l \in X
  OBVIOUS
<1> HIDE DEF X
<1>3. ByPorts(machine, l) \in X
  BY <1>1, <1>2, ByPortsKeeps
<1> QED  BY <1>3 DEF X

\* One of them that is open brings an entry of C, if noting and adding it does.
LEMMA PortsBring ==
  ASSUME NEW machine, NEW A, PortsStay(machine, A), NEW l \in Seq(A),
         NEW C, Merges(C, A), \A u \in USUAL_PORTS : TakesPort(machine, C, u),
         NEW one \in USUAL_PORTS, PortOpen(machine, one.port),
         \A a \in A : Fits(a, one) => OnPort(a, one) \in C,
         Brings({ByOpenPort(one, "localhost")}, A, C)
  PROVE  Some(ByPorts(machine, l), C)
<1> DEFINE X == Seq(A)
           Y == {x \in X : Some(x, C)}
<1>1. \A x \in X, u \in USUAL_PORTS : ByPort(machine, x, u) \in X
  BY ByPortKeeps DEF PortsStay
<1>2. \A x \in X \cap Y, u \in USUAL_PORTS : ByPort(machine, x, u) \in Y
  BY <1>1, ByPortKeepsSome DEF PortsStay
<1>3. \A x \in X : ByPort(machine, x, one) \in Y
  BY <1>1, ByPortBrings
<1>4. l \in X
  OBVIOUS
<1> HIDE DEF X, Y
<1>5. ByPorts(machine, l) \in Y
  BY <1>1, <1>2, <1>3, <1>4, ByPortsBrings
<1> QED  BY <1>5 DEF Y

\* What the Browser says comes last.
LEMMA BrowserKeeps ==
  ASSUME NEW machine, NEW A, Merges(A, A), ByPorts(machine, Told(machine)) \in Seq(A),
         FromBrowser(machine, "localhost") \in Seq(A),
         NEW C, Merges(C, A), Some(ByPorts(machine, Told(machine)), C)
  PROVE  Some(DiscoverLocal(machine), C)
BY AddAllKeepsSome DEF DiscoverLocal, Told

\* What the Browser tells of D leaves an entry of C.
LEMMA BrowserBrings ==
  ASSUME NEW machine, NEW A, Merges(A, A), ByPorts(machine, Told(machine)) \in Seq(A),
         FromBrowser(machine, "localhost") \in Seq(A),
         NEW C, Merges(C, A), NEW D, Brings(D, A, C),
         Some(FromBrowser(machine, "localhost"), D)
  PROVE  Some(DiscoverLocal(machine), C)
BY AddAllBrings DEF DiscoverLocal, Told

-----------------------------------------------------------------------------
(* The servers here, one kind after the other.                             *)

Local(w) == Entries({"localhost"}, Names(w))

\* Entries of the default instance, and those of them with a port, or none.
Unnamed(e) == e.engine = "mssql" /\ ~Named(e)

Unnameds(w, ports) == {e \in Local(w) : Unnamed(e) /\ e.port \in ports}

\* Entries of which those are of a port, or none.
UnnamedOn(w, port) == {e \in Local(w) : Unnamed(e) => e.port \in {NotKnown, port}}

Instances(w, name) == {e \in Local(w) : e.engine = "mssql" /\ e.instance = name}

\* What two entries of one name have in common.
LEMMA KeyFacts ==
  ASSUME NEW a, NEW b, Key(a) = Key(b)
  PROVE  /\ a.engine = "mssql" => b.engine = "mssql"
         /\ Unnamed(a) => Unnamed(b)
         /\ Named(a) => Named(b) /\ a.instance = b.instance
         /\ a.engine # "mssql" =>
              Family(a.engine) = Family(b.engine) /\ a.port = b.port
<1>1. /\ Key(a).family = Key(b).family /\ Key(a).instance = Key(b).instance
      /\ Key(a).port = Key(b).port
  OBVIOUS
<1>2. /\ Key(a).family = Family(a.engine) /\ Key(b).family = Family(b.engine)
      /\ a.engine # "mssql" => Key(a).port = a.port
      /\ b.engine # "mssql" => Key(b).port = b.port
      /\ a.engine = "mssql" => Key(a).instance = IF Named(a) THEN a.instance ELSE "MSSQLSERVER"
      /\ b.engine = "mssql" => Key(b).instance = IF Named(b) THEN b.instance ELSE "MSSQLSERVER"
  BY DEF Key
<1>3. (a.engine = "mssql" <=> Family(a.engine) = "mssql")
      /\ (b.engine = "mssql" <=> Family(b.engine) = "mssql")
  BY DEF Family
<1>4. /\ Named(a) => a.instance # "MSSQLSERVER" /\ a.engine = "mssql"
      /\ Named(b) => b.instance # "MSSQLSERVER" /\ b.engine = "mssql"
  BY DEF Named
<1> QED  BY <1>1, <1>2, <1>3, <1>4 DEF Unnamed

\* The usual port of SQL Server is 1433.
LEMMA UsualMssql ==
  /\ UsualPort("mssql") = 1433
  /\ \E u \in USUAL_PORTS : u.engine = "mssql" /\ u.port = 1433
<1>1. PICK u \in USUAL_PORTS : u.engine = Family("mssql") /\ u.port = UsualPort("mssql")
  BY UsualPortFacts DEF ENGINES
<1> QED  BY <1>1, UsualFacts DEF Family

\* x is a server of our machine that answers.
Answers(w, x) ==
  /\ Here \in DOMAIN w /\ ToldApart(w[Here])
  /\ \E i \in DOMAIN w[Here].servers : x = w[Here].servers[i]
  /\ x.running /\ x.tcp

\* The entries that lead to it.
LeadTo(w, x) == {e \in Local(w) : [address |-> Here, server |-> x] \in Arrives(w, e)}

\* An entry leads to x by the name of x, by its port, or, where x is on port 1433, by
\* neither.
LEMMA LeadFacts ==
  ASSUME NEW w, NEW x, Answers(w, x), NEW e \in Local(w), Family(e.engine) = Family(x.engine),
         \/ Named(e) /\ e.instance = x.instance
         \/ ~Named(e) /\ e.port = x.port
         \/ Unnamed(e) /\ e.port \in {NotKnown, 1433} /\ x.port = 1433
  PROVE  e \in LeadTo(w, x)
<1> DEFINE s == w[Here].servers
           port == IF ConnectionPort(e) = NotKnown THEN UsualPort(e.engine) ELSE ConnectionPort(e)
           J == {j \in DOMAIN s : /\ Family(s[j].engine) = Family(e.engine)
                                  /\ s[j].running /\ s[j].tcp
                                  /\ IF Named(e) THEN s[j].instance = e.instance
                                     ELSE s[j].port = port}
<1>1. PICK i \in DOMAIN s : x = s[i] /\ s[i].running /\ s[i].tcp /\ x.port \in Nat \ {NotKnown}
  BY DEF Answers, ToldApart
<1>2. e.host = "localhost"
  BY DEF Local, Entries
<1>3. ~Named(e) => x.port = port
  <2>1. CASE ~Named(e) /\ e.port = x.port
    <3>1. e.engine = "mssql" /\ e.port = 1433 => port = 1433
      BY UsualMssql DEF ConnectionPort
    <3>2. ~(e.engine = "mssql" /\ e.port = 1433) => port = e.port
      BY <1>1, <2>1 DEF ConnectionPort
    <3> QED  BY <2>1, <3>1, <3>2
  <2>2. CASE Unnamed(e) /\ e.port \in {NotKnown, 1433} /\ x.port = 1433
    <3>1. ConnectionPort(e) = NotKnown
      BY <2>2 DEF ConnectionPort, Unnamed
    <3> QED  BY <2>2, <3>1, UsualMssql DEF Unnamed
  <2> QED  BY <2>1, <2>2 DEF Unnamed
<1>4. i \in J
  <2>1. Named(e) => s[i].instance = e.instance
    BY <1>1 DEF Unnamed
  <2>2. ~Named(e) => s[i].port = port
    BY <1>1, <1>3
  <2>3. Family(s[i].engine) = Family(e.engine) /\ s[i].running /\ s[i].tcp
    BY <1>1
  <2> HIDE DEF s, port
  <2> QED  BY <2>1, <2>2, <2>3
<1>5. Arrives(w, e) = {[address |-> Here, server |-> s[j]] : j \in J}
  BY <1>2 DEF Arrives
<1> HIDE DEF J, port
<1>6. [address |-> Here, server |-> x] \in Arrives(w, e)
  BY <1>1, <1>4, <1>5
<1> QED  BY <1>6 DEF LeadTo

\* The entries of our machine by its evidence.
LEMMA LocalTold ==
  ASSUME NEW w, Here \in DOMAIN w, ToldApart(w[Here]), NEW i \in DOMAIN w[Here].servers
  PROVE  LET x == w[Here].servers[i]
         IN  /\ ByService(x) \in Local(w)
             /\ ByService(x).engine = x.engine
             /\ ByService(x).instance = IF x.instance = "MSSQLSERVER" THEN NoName ELSE x.instance
             /\ x.engine = "mssql" => ByService(x).port = NotKnown
             /\ Seen(ByRegistry(x), x, "localhost", {"localhost"}, Names(w))
             /\ ByRegistry(x).port = x.port
             /\ Seen(ByBrowser(x, "localhost"), x, "localhost", {"localhost"}, Names(w))
             /\ x.engine = "mssql" => x.instance # NoName
<1> DEFINE x == w[Here].servers[i]
<1>1. x.instance \in Names(w) /\ NoName \in Names(w)
  BY DEF Names
<1>2. x.engine \in ENGINES /\ x.port \in Nat \ {NotKnown} /\ (x.engine = "mssql" => x.instance # NoName)
  BY DEF ToldApart
<1> HIDE DEF x
<1> QED  BY <1>1, <1>2, ToldEntries DEF Local, x

\* What is found here are entries of this host and of known names.
LEMMA LocalLists ==
  ASSUME NEW w, Here \in DOMAIN w, ToldApart(w[Here])
  PROVE  /\ Told(w[Here]) \in Seq(Local(w)) /\ PortsStay(w[Here], Local(w))
         /\ FromBrowser(w[Here], "localhost") \in Seq(Local(w))
<1>1. Merges(Local(w), Local(w))
  BY EntriesMerge DEF Local
<1>2. Told(w[Here]) \in Seq(Local(w))
  BY <1>1, LocalTold, ToldFacts DEF Seen, Local
<1>3. FromBrowser(w[Here], "localhost") \in Seq(Local(w))
  BY LocalTold, BrowserFacts DEF Seen, Local
<1>4. ASSUME NEW u \in USUAL_PORTS
      PROVE  ByOpenPort(u, "localhost") \in Local(w) /\ TakesPort(w[Here], Local(w), u)
  <2>1. NoName \in Names(w) /\ "unknown" \in TCP /\ u.engine \in ENGINES /\ u.port \in Nat
    BY UsualFacts DEF TCP, Names
  <2>2. ByOpenPort(u, "localhost") \in Local(w)
    BY <2>1, DetectedFacts DEF ByOpenPort, Local
  <2>3. \A a \in Local(w) : OnPort(a, u) \in Local(w)
    <3> SUFFICES ASSUME NEW a \in Local(w)
                 PROVE  OnPort(a, u) \in Local(w)
      OBVIOUS
    <3>1. OnPort(a, u) = [engine |-> a.engine, host |-> a.host, port |-> u.port,
                          instance |-> a.instance, tcp |-> a.tcp]
      BY OnPortFacts DEF Local
    <3> QED  BY <2>1, <3>1 DEF Local, Entries
  <2> QED  BY <2>2, <2>3 DEF TakesPort
<1> QED  BY <1>1, <1>2, <1>3, <1>4 DEF PortsStay

\* A part of the list that has a port keeps it.
LEMMA FixedPort ==
  ASSUME NEW w, NEW machine, NEW C \in SUBSET Local(w), \A c \in C : c.port # NotKnown,
         NEW u \in USUAL_PORTS
  PROVE  TakesPort(machine, C, u)
<1> SUFFICES ASSUME NEW c \in C, Fits(c, u)
             PROVE  OnPort(c, u) = c
  BY DEF TakesPort
<1>1. c.port = u.port
  BY DEF Fits
<1>2. OnPort(c, u) = [engine |-> c.engine, host |-> c.host, port |-> u.port,
                      instance |-> c.instance, tcp |-> c.tcp]
  BY OnPortFacts DEF Local
<1> QED  BY <1>1, <1>2 DEF Local, Entries

\* An open port tells no name.
LEMMA OpenPortFacts ==
  ASSUME NEW w, NEW u \in USUAL_PORTS
  PROVE  LET e == ByOpenPort(u, "localhost")
         IN  e \in Local(w) /\ e.engine = u.engine /\ e.port = u.port /\ ~Named(e)
<1> DEFINE e == ByOpenPort(u, "localhost")
<1>1. NoName \in Names(w) /\ "unknown" \in TCP /\ u.engine \in ENGINES /\ u.port \in Nat
  BY UsualFacts DEF TCP, Names
<1>2. e \in Local(w)
  BY <1>1, DetectedFacts DEF ByOpenPort, Local
<1>3. e.engine = u.engine /\ e.port = u.port /\ e.instance = NoName
  BY DEF ByOpenPort, Detected
<1> HIDE DEF e
<1>4. ~Named(e)
  BY <1>3 DEF Named
<1> QED  BY <1>2, <1>3, <1>4 DEF e

\* Any server but an instance of SQL Server has the usual port of its family.
LEMMA OtherFound ==
  ASSUME NEW w, NEW x, Answers(w, x), x.engine # "mssql", x.port = UsualPort(x.engine)
  PROVE  Some(DiscoverLocal(w[Here]), LeadTo(w, x))
<1> DEFINE m == w[Here]
           A == Local(w)
           C == {e \in A : Family(e.engine) = Family(x.engine) /\ e.port = x.port}
<1>1. /\ Told(m) \in Seq(A) /\ PortsStay(m, A) /\ FromBrowser(m, "localhost") \in Seq(A)
      /\ x.engine \in ENGINES /\ x.port \in Nat \ {NotKnown}
  BY LocalLists DEF Answers, ToldApart
<1>2. PICK u \in USUAL_PORTS : u.engine = Family(x.engine) /\ u.port = x.port
  BY <1>1, UsualPortFacts
<1>3. PortOpen(m, u.port)
  BY <1>2 DEF Answers, PortOpen, Listens
<1>4. Family(x.engine) # "mssql"
  BY DEF Family
<1>5. ASSUME NEW a \in A, NEW b \in A, a.port = x.port, Family(a.engine) = Family(x.engine)
      PROVE  Merged(a, b) \in C
  BY <1>1, <1>5, MergedFacts DEF Local
<1>6. Merges(C, A)
  BY <1>5 DEF Merges
<1>7. \A v \in USUAL_PORTS : TakesPort(m, C, v)
  <2>1. C \in SUBSET Local(w) /\ \A c \in C : c.port # NotKnown
    BY <1>1
  <2> HIDE DEF C, m
  <2> QED  BY <2>1, FixedPort
<1>8. \A a \in A : Fits(a, u) => OnPort(a, u) \in C
  <2> SUFFICES ASSUME NEW a \in A, Fits(a, u)
               PROVE  OnPort(a, u) \in C
    OBVIOUS
  <2>1. OnPort(a, u) = [engine |-> a.engine, host |-> a.host, port |-> u.port,
                        instance |-> a.instance, tcp |-> a.tcp]
    BY OnPortFacts DEF Local
  <2>2. OnPort(a, u) \in A
    BY <1>1, <1>2, <2>1 DEF Local, Entries
  <2> QED  BY <1>2, <2>1, <2>2 DEF Fits
<1>9. Brings({ByOpenPort(u, "localhost")}, A, C)
  <2> DEFINE d == ByOpenPort(u, "localhost")
  <2>1. d \in A /\ d.engine = u.engine /\ d.port = u.port
    BY OpenPortFacts
  <2>2. Family(d.engine) = Family(x.engine) /\ d.engine # "mssql"
    BY <1>2, <1>4, <2>1 DEF Family
  <2> HIDE DEF d
  <2>3. \A a \in A : Key(a) = Key(d) => a.port = x.port /\ Family(a.engine) = Family(x.engine)
    BY <1>2, <2>1, <2>2, KeyFacts
  <2>4. \A a \in A : Key(a) = Key(d) => Merged(a, d) \in C
    BY <1>5, <2>1, <2>3
  <2>5. d \in C
    BY <1>2, <2>1, <2>2
  <2> HIDE DEF A, C
  <2>6. Brings({d}, A, C)
    BY <2>4, <2>5 DEF Brings
  <2> QED  BY <2>6 DEF d
<1>10. C \subseteq LeadTo(w, x)
  <2>1. \A e \in C : ~Named(e)
    BY <1>4 DEF Named, Family
  <2> QED  BY <2>1, LeadFacts
<1> HIDE DEF A, C, m
<1>11. Some(ByPorts(m, Told(m)), C)
  BY <1>1, <1>2, <1>3, <1>6, <1>7, <1>8, <1>9, PortsBring
<1>12. ByPorts(m, Told(m)) \in Seq(A)
  BY <1>1, PortsIn
<1>13. Some(DiscoverLocal(m), C)
  BY <1>1, <1>6, <1>11, <1>12, BrowserKeeps DEF PortsStay
<1> QED  BY <1>10, <1>13 DEF Some, m

\* SQL Server on its usual port, where neither services nor registry tell of it.
LEMMA UntoldFound ==
  ASSUME NEW w, NEW x, Answers(w, x), x.engine = "mssql", x.port = 1433,
         w[Here].visible \cap {"services", "registry"} = {}
  PROVE  Some(ByPorts(w[Here], Told(w[Here])), Unnameds(w, {1433}))
<1> DEFINE m == w[Here]
           L == Local(w)
           A == {e \in L : e.engine = "mssql" => Unnamed(e) /\ e.port = 1433}
           C == Unnameds(w, {1433})
<1>1. PICK u \in USUAL_PORTS : u.engine = "mssql" /\ u.port = 1433
  BY UsualMssql
<1>2. PortOpen(m, 1433)
  BY DEF Answers, PortOpen, Listens
<1>3. ASSUME NEW a \in A, NEW b \in L
      PROVE  Merged(a, b) \in A /\ (a.engine = "mssql" => Merged(a, b) \in C)
  <2>1. /\ Merged(a, b) \in L /\ Merged(a, b).engine = a.engine
        /\ Merged(a, b).instance = a.instance
        /\ a.port = 1433 => Merged(a, b).port = 1433
    BY MergedFacts DEF Local, NotKnown
  <2> QED  BY <2>1 DEF Unnameds, Unnamed, Named
<1>4. C \in SUBSET A /\ C \in SUBSET L /\ \A c \in C : c.port # NotKnown /\ c.engine = "mssql"
  BY DEF Unnameds, Unnamed, NotKnown
<1>5. ASSUME NEW a \in A, NEW v \in USUAL_PORTS, Fits(a, v)
      PROVE  OnPort(a, v) \in A /\ (v = u => OnPort(a, v) \in C)
  <2>1. OnPort(a, v) = [engine |-> a.engine, host |-> a.host, port |-> v.port,
                        instance |-> a.instance, tcp |-> a.tcp]
    BY OnPortFacts DEF Local
  <2>2. OnPort(a, v) \in L /\ v.engine = "mssql" => v.port = 1433
    BY UsualFacts, <2>1 DEF Local, Entries
  <2>3. OnPort(a, v) \in L
    BY UsualFacts, <2>1 DEF Local, Entries
  <2>4. a.engine = "mssql" <=> v.engine = "mssql"
    BY <1>5 DEF Fits, Family
  <2>5. /\ OnPort(a, v).engine = a.engine /\ OnPort(a, v).instance = a.instance
        /\ OnPort(a, v).port = v.port
    BY <2>1
  <2> QED  BY <1>1, <2>2, <2>3, <2>4, <2>5 DEF Unnameds, Unnamed, Named
<1>6. ASSUME NEW v \in USUAL_PORTS
      PROVE  ByOpenPort(v, "localhost") \in A /\ (v = u => ByOpenPort(v, "localhost") \in C)
  <2> DEFINE d == ByOpenPort(v, "localhost")
  <2>1. d \in L /\ d.engine = v.engine /\ d.port = v.port /\ ~Named(d)
    BY OpenPortFacts
  <2>2. v.engine = "mssql" => v.port = 1433
    BY UsualFacts
  <2> HIDE DEF d
  <2>3. d \in A /\ (v = u => d \in C)
    BY <1>1, <2>1, <2>2 DEF Unnameds, Unnamed
  <2> QED  BY <2>3 DEF d
<1>7. A \in SUBSET L
  OBVIOUS
<1> HIDE DEF A, C, L
<1>8. Merges(A, A) /\ Merges(C, A)
  <2>1. \A a \in A, b \in A : Merged(a, b) \in A
    BY <1>3, <1>7
  <2>2. \A c \in C, b \in A : Merged(c, b) \in C
    BY <1>3, <1>4, <1>7
  <2> QED  BY <2>1, <2>2 DEF Merges
<1>9. PortsStay(m, A)
  BY <1>5, <1>6, <1>8 DEF PortsStay, TakesPort
<1>10. \A v \in USUAL_PORTS : TakesPort(m, C, v)
  BY <1>4, FixedPort DEF L
<1>11. Brings({ByOpenPort(u, "localhost")}, A, C)
  <2>1. \A a \in A : Key(a) = Key(ByOpenPort(u, "localhost")) => a.engine = "mssql"
    <3>1. ByOpenPort(u, "localhost").engine = "mssql"
      BY <1>1, OpenPortFacts
    <3> QED  BY <3>1, KeyFacts
  <2> QED  BY <1>3, <1>6, <1>7, <2>1 DEF Brings
<1>12. Told(m) \in Seq(A)
  BY <1>8, ToldFacts DEF Answers
<1>13. Some(ByPorts(m, Told(m)), C)
  BY <1>1, <1>2, <1>5, <1>8, <1>9, <1>10, <1>11, <1>12, PortsBring
<1> QED  BY <1>13 DEF C

\* A named instance is found by its name, or on the usual port.
LEMMA NamedFound ==
  ASSUME NEW w, NEW x, Answers(w, x), x.engine = "mssql", x.instance # "MSSQLSERVER",
         x.port = 1433 \/ w[Here].browser
  PROVE  Some(DiscoverLocal(w[Here]), LeadTo(w, x))
<1> DEFINE m == w[Here]
           A == Local(w)
           C == Instances(w, x.instance)
<1>1. /\ Told(m) \in Seq(A) /\ PortsStay(m, A) /\ FromBrowser(m, "localhost") \in Seq(A)
      /\ Merges(A, A)
  BY LocalLists DEF Answers, PortsStay
<1>2. PICK i \in DOMAIN m.servers : x = m.servers[i]
  BY DEF Answers
<1>3. /\ ByService(x) \in C /\ ByRegistry(x) \in C /\ ByBrowser(x, "localhost") \in C
      /\ x.instance # NoName
  <2>1. /\ ByService(x) \in A /\ ByService(x).engine = x.engine
        /\ ByService(x).instance = x.instance
        /\ Seen(ByRegistry(x), x, "localhost", {"localhost"}, Names(w))
        /\ Seen(ByBrowser(x, "localhost"), x, "localhost", {"localhost"}, Names(w))
        /\ x.instance # NoName
    BY <1>2, LocalTold DEF Answers
  <2> QED  BY <2>1 DEF Seen, Instances, Local
<1>4. \A e \in C : Named(e) /\ e.engine = "mssql" /\ e.instance = x.instance /\ e \in A
  BY <1>3 DEF Instances, Named
<1>5. C \subseteq LeadTo(w, x)
  BY <1>4, LeadFacts
<1>6. ASSUME NEW a \in C, NEW b \in A
      PROVE  Merged(a, b) \in C
  BY <1>6, MergedFacts DEF Instances, Local
<1>7. Merges(C, A)
  <2> HIDE DEF A, C
  <2> QED  BY <1>6 DEF Merges
<1>8. Brings(C, A, C)
  <2>1. ASSUME NEW a \in A, NEW d \in C, Key(a) = Key(d)
        PROVE  Merged(a, d) \in C
    <3>1. a.engine = "mssql" /\ a.instance = x.instance
      BY <1>4, <2>1, KeyFacts DEF Named
    <3>2. a \in C /\ d \in A
      BY <1>4, <3>1 DEF Instances
    <3> QED  BY <1>6, <3>2
  <2> HIDE DEF A, C
  <2> QED  BY <2>1 DEF Brings
<1>9. \A u \in USUAL_PORTS : TakesPort(m, C, u)
  <2> SUFFICES ASSUME NEW u \in USUAL_PORTS, NEW a \in C
               PROVE  OnPort(a, u) \in C
    BY DEF TakesPort
  <2>1. OnPort(a, u) = [engine |-> a.engine, host |-> a.host, port |-> u.port,
                        instance |-> a.instance, tcp |-> a.tcp]
    BY OnPortFacts DEF Instances, Local
  <2>2. OnPort(a, u) \in Local(w)
    BY <2>1, UsualFacts DEF Instances, Local, Entries
  <2> QED  BY <2>1, <2>2 DEF Instances
<1>10. ByPorts(m, Told(m)) \in Seq(A)
  BY <1>1, PortsIn
<1>11. CASE \/ "services" \in m.visible \/ "registry" \in m.visible
  <2>1. Some(Told(m), C)
    <3>1. \A j \in DOMAIN m.servers : /\ ByService(m.servers[j]) \in A
                                      /\ ByRegistry(m.servers[j]) \in A
      BY LocalTold DEF Answers, Seen, Local
    <3>2. ToldApart(m)
      BY DEF Answers
    <3> HIDE DEF A, C, m
    <3> QED  BY <1>1, <1>2, <1>3, <1>7, <1>8, <1>11, <3>1, <3>2, ToldBrings
  <2> HIDE DEF A, C, m
  <2>2. Some(ByPorts(m, Told(m)), C)
    BY <1>1, <1>7, <1>9, <2>1, PortsKeepSome
  <2>3. Some(DiscoverLocal(m), C)
    BY <1>1, <1>7, <1>10, <2>2, BrowserKeeps
  <2> QED  BY <1>5, <2>3 DEF Some, m
<1>12. CASE m.browser
  <2>1. Some(FromBrowser(m, "localhost"), C)
    <3>1. \A j \in DOMAIN m.servers : ByBrowser(m.servers[j], "localhost") \in A
      BY LocalTold DEF Answers, Seen, Local
    <3>2. ToldApart(m) /\ x.running
      BY DEF Answers
    <3> HIDE DEF A, C, m
    <3>3. PICK j \in DOMAIN FromBrowser(m, "localhost") :
            FromBrowser(m, "localhost")[j] = ByBrowser(x, "localhost")
      BY <1>2, <1>12, <3>1, <3>2, BrowserFacts
    <3> QED  BY <1>3, <3>3 DEF Some
  <2> HIDE DEF A, C, m
  <2>2. Some(DiscoverLocal(m), C)
    BY <1>1, <1>7, <1>8, <1>10, <2>1, BrowserBrings
  <2> QED  BY <1>5, <2>2 DEF Some, m
<1>13. CASE ~m.browser /\ m.visible \cap {"services", "registry"} = {}
  <2> DEFINE U == Unnameds(w, {1433})
  <2>1. Some(ByPorts(m, Told(m)), U)
    BY <1>13, UntoldFound
  <2>2. Merges(U, A)
    <3> SUFFICES ASSUME NEW a \in U, NEW b \in A
                 PROVE  Merged(a, b) \in U
      BY DEF Merges
    <3>1. a \in A /\ a.port = 1433
      BY DEF Unnameds
    <3> QED  BY <3>1, MergedFacts DEF Local, Unnameds, Unnamed, Named, NotKnown
  <2>3. U \subseteq LeadTo(w, x)
    <3>1. x.port = 1433
      BY <1>13
    <3>2. \A e \in U : e \in A /\ Unnamed(e) /\ e.port = 1433 /\ e.engine = x.engine
      BY DEF Unnameds, Unnamed
    <3> HIDE DEF U
    <3> QED  BY <3>1, <3>2, LeadFacts
  <2> HIDE DEF A, U, m
  <2>4. Some(DiscoverLocal(m), U)
    BY <1>1, <1>10, <2>1, <2>2, BrowserKeeps DEF m
  <2> QED  BY <2>3, <2>4 DEF Some, m
<1> QED  BY <1>11, <1>12, <1>13

\* What is told of other servers gives no entry of the default one another port.
LEMMA UnnamedLists ==
  ASSUME NEW w, NEW x, Answers(w, x), IsDefault(x)
  PROVE  /\ Merges(UnnamedOn(w, x.port), UnnamedOn(w, x.port))
         /\ \A i \in DOMAIN w[Here].servers :
              LET y == w[Here].servers[i]
              IN  /\ ByService(y) \in UnnamedOn(w, x.port)
                  /\ y.engine = "mssql" => ByRegistry(y) \in UnnamedOn(w, x.port)
                  /\ y.engine = "mssql" => ByBrowser(y, "localhost") \in UnnamedOn(w, x.port)
         /\ x.port = 1433 \/ ~PortOpen(w[Here], 1433) => PortsStay(w[Here], UnnamedOn(w, x.port))
<1> DEFINE m == w[Here]
           L == Local(w)
           A == UnnamedOn(w, x.port)
<1>1. A \in SUBSET L /\ \A e \in A : Unnamed(e) => e.port \in {NotKnown, x.port}
  BY DEF UnnamedOn
<1>2. ASSUME NEW a \in A, NEW b \in A, Key(a) = Key(b)
      PROVE  Merged(a, b) \in A
  <2>1. /\ Merged(a, b) \in L /\ Merged(a, b).engine = a.engine
        /\ Merged(a, b).instance = a.instance
        /\ Merged(a, b).port \in {a.port, b.port}
    BY MergedFacts DEF Local, UnnamedOn
  <2>2. Unnamed(Merged(a, b)) <=> Unnamed(a)
    BY <2>1 DEF Unnamed, Named
  <2>3. Unnamed(a) => Unnamed(b)
    BY <1>2, KeyFacts
  <2> QED  BY <1>1, <2>1, <2>2, <2>3 DEF UnnamedOn
<1>3. Merges(A, A)
  BY <1>2 DEF Merges
<1>4. ASSUME NEW i \in DOMAIN m.servers
      PROVE  LET y == m.servers[i]
             IN  /\ ByService(y) \in A
                 /\ y.engine = "mssql" => ByRegistry(y) \in A
                 /\ y.engine = "mssql" => ByBrowser(y, "localhost") \in A
  <2> DEFINE y == m.servers[i]
             told == ByService(y)
             registered == ByRegistry(y)
             announced == ByBrowser(y, "localhost")
  <2>1. /\ told \in L /\ told.engine = y.engine
        /\ y.engine = "mssql" => told.port = NotKnown
        /\ Seen(registered, y, "localhost", {"localhost"}, Names(w))
        /\ Seen(announced, y, "localhost", {"localhost"}, Names(w))
        /\ y.engine = "mssql" => y.instance # NoName
    BY LocalTold DEF Answers
  <2>2. IsDefault(y) => y = x
    <3>1. PICK j \in DOMAIN m.servers : x = m.servers[j]
      BY DEF Answers
    <3> QED  BY <3>1 DEF Answers, ToldApart
  <2> HIDE DEF y, told, registered, announced
  <2>3. told \in A
    BY <2>1 DEF UnnamedOn, Unnamed
  <2>4. ASSUME NEW e, Seen(e, y, "localhost", {"localhost"}, Names(w)), y.engine = "mssql"
        PROVE  e \in A
    <3>1. Unnamed(e) => y = x
      BY <2>1, <2>2, <2>4 DEF Unnamed, Named, Seen, IsDefault
    <3> QED  BY <2>4, <3>1 DEF UnnamedOn, Seen, Local
  <2> QED  BY <2>1, <2>3, <2>4 DEF y, told, registered, announced
<1>5. ASSUME x.port = 1433 \/ ~PortOpen(m, 1433), NEW u \in USUAL_PORTS, PortOpen(m, u.port)
      PROVE  /\ ByOpenPort(u, "localhost") \in A
             /\ \A a \in A : Fits(a, u) => OnPort(a, u) \in A
  <2>1. u.engine = "mssql" => u.port = x.port
    BY <1>5, UsualFacts
  <2>2. ByOpenPort(u, "localhost") \in A
    <3> DEFINE e == ByOpenPort(u, "localhost")
    <3>1. e \in L /\ e.engine = u.engine /\ e.port = u.port
      BY OpenPortFacts
    <3> HIDE DEF e
    <3>2. e \in A
      BY <2>1, <3>1 DEF UnnamedOn, Unnamed
    <3> QED  BY <3>2 DEF e
  <2>3. ASSUME NEW a \in A, Fits(a, u)
        PROVE  OnPort(a, u) \in A
    <3>1. OnPort(a, u) = [engine |-> a.engine, host |-> a.host, port |-> u.port,
                          instance |-> a.instance, tcp |-> a.tcp]
      BY OnPortFacts DEF Local, UnnamedOn
    <3>2. OnPort(a, u) \in L /\ OnPort(a, u).engine = a.engine /\ OnPort(a, u).port = u.port
      BY <3>1, UsualFacts DEF UnnamedOn, Local, Entries
    <3>3. a.engine = "mssql" => u.engine = "mssql"
      BY <2>3 DEF Fits, Family
    <3> QED  BY <2>1, <3>2, <3>3 DEF UnnamedOn, Unnamed
  <2> QED  BY <2>2, <2>3
<1>6. x.port = 1433 \/ ~PortOpen(m, 1433) => PortsStay(m, A)
  BY <1>3, <1>5 DEF PortsStay, TakesPort
<1> QED  BY <1>3, <1>4, <1>6

\* The default instance on its usual port.
LEMMA DefaultOn1433Found ==
  ASSUME NEW w, NEW x, Answers(w, x), IsDefault(x), x.port = 1433
  PROVE  Some(DiscoverLocal(w[Here]), LeadTo(w, x))
<1> DEFINE m == w[Here]
           A == UnnamedOn(w, x.port)
           C == Unnameds(w, {NotKnown, x.port})
<1>1. /\ Merges(A, A) /\ PortsStay(m, A) /\ ToldApart(m)
      /\ \A i \in DOMAIN m.servers :
           /\ ByService(m.servers[i]) \in A
           /\ m.servers[i].engine = "mssql" => /\ ByRegistry(m.servers[i]) \in A
                                               /\ ByBrowser(m.servers[i], "localhost") \in A
  BY UnnamedLists DEF Answers
<1>2. PICK i \in DOMAIN m.servers : x = m.servers[i]
  BY DEF Answers
<1>3. C \in SUBSET A /\ \A c \in C : Unnamed(c)
  BY DEF Unnameds, UnnamedOn
<1>4. \A a \in A : Unnamed(a) => a \in C
  BY DEF Unnameds, UnnamedOn
<1>5. \A a \in A, b \in A : Unnamed(Merged(a, b)) <=> Unnamed(a)
  BY MergedFacts DEF UnnamedOn, Local, Unnamed, Named
<1>6. C \subseteq LeadTo(w, x)
  <2>1. \A e \in C : /\ e \in Local(w) /\ Unnamed(e) /\ e.port \in {NotKnown, 1433}
                     /\ e.engine = x.engine
    BY DEF Unnameds, Unnamed, IsDefault
  <2> HIDE DEF C
  <2> QED  BY <2>1, LeadFacts
<1>7. ByService(x) \in C /\ ByRegistry(x) \in C
  <2>1. /\ ByService(x).engine = x.engine
        /\ ByService(x).instance = IF x.instance = "MSSQLSERVER" THEN NoName ELSE x.instance
        /\ Seen(ByRegistry(x), x, "localhost", {"localhost"}, Names(w))
    BY <1>2, LocalTold DEF Answers
  <2>2. Unnamed(ByService(x)) /\ Unnamed(ByRegistry(x))
    BY <2>1 DEF Unnamed, Named, IsDefault, Seen
  <2> HIDE DEF A, C, m
  <2>3. ByService(x) \in A
    BY <1>1, <1>2
  <2>4. ByRegistry(x) \in A
    BY <1>1, <1>2 DEF IsDefault
  <2> QED  BY <1>4, <2>2, <2>3, <2>4
<1> HIDE DEF A, C, m
<1>8. Merges(C, A) /\ Brings(C, A, C)
  <2>1. ASSUME NEW a \in A, NEW b \in A, Key(a) = Key(b), Unnamed(a)
        PROVE  Merged(a, b) \in C
    <3>1. Merged(a, b) \in A
      BY <1>1, <2>1 DEF Merges
    <3> QED  BY <1>4, <1>5, <2>1, <3>1
  <2>2. Merges(C, A)
    BY <1>3, <2>1 DEF Merges
  <2>3. Brings(C, A, C)
    BY <1>3, <2>1, KeyFacts DEF Brings
  <2> QED  BY <2>2, <2>3
<1>9. \A u \in USUAL_PORTS : TakesPort(m, C, u)
  <2>1. ASSUME NEW u \in USUAL_PORTS, NEW c \in C, Fits(c, u), PortOpen(m, u.port)
        PROVE  OnPort(c, u) \in C
    <3>1. OnPort(c, u) \in A
      BY <1>1, <1>3, <2>1 DEF PortsStay, TakesPort
    <3>2. OnPort(c, u).engine = c.engine /\ OnPort(c, u).instance = c.instance
      BY <1>3, OnPortFacts DEF A, UnnamedOn, Local
    <3>3. Unnamed(OnPort(c, u))
      BY <1>3, <3>2 DEF Unnamed, Named
    <3> QED  BY <1>4, <3>1, <3>3
  <2> QED  BY <2>1 DEF TakesPort
<1>10. Told(m) \in Seq(A)
  BY <1>1, ToldFacts
<1>11. ByPorts(m, Told(m)) \in Seq(A) /\ FromBrowser(m, "localhost") \in Seq(A)
  BY <1>1, <1>10, PortsIn, BrowserFacts
<1>12. Some(ByPorts(m, Told(m)), C)
  <2>1. CASE "services" \in m.visible \/ "registry" \in m.visible
    <3>1. Some(Told(m), C)
      BY <1>1, <1>2, <1>7, <1>8, <2>1, ToldBrings DEF IsDefault
    <3> QED  BY <1>1, <1>8, <1>9, <1>10, <3>1, PortsKeepSome
  <2>2. CASE m.visible \cap {"services", "registry"} = {}
    <3>1. Some(ByPorts(m, Told(m)), Unnameds(w, {1433}))
      BY <2>2, UntoldFound DEF IsDefault, m
    <3>2. Unnameds(w, {1433}) \subseteq C
      BY DEF Unnameds, C
    <3> QED  BY <3>1, <3>2 DEF Some
  <2> QED  BY <2>1, <2>2
<1>13. Some(DiscoverLocal(m), C)
  BY <1>1, <1>8, <1>11, <1>12, BrowserKeeps
<1> QED  BY <1>6, <1>13 DEF Some, m

\* The default instance is given no port but its own.
NoOtherPort(machine) == "registry" \in machine.visible \/ ~PortOpen(machine, 1433)

\* Elsewhere, where the Browser tells of it.
LEMMA DefaultElsewhereFound ==
  ASSUME NEW w, NEW x, Answers(w, x), IsDefault(x), x.port # 1433, w[Here].browser,
         NoOtherPort(w[Here])
  PROVE  Some(DiscoverLocal(w[Here]), LeadTo(w, x))
<1> DEFINE m == w[Here]
           L == Local(w)
           A == UnnamedOn(w, x.port)
           C == Unnameds(w, {x.port})
<1>1. /\ Merges(A, A) /\ ToldApart(m)
      /\ \A i \in DOMAIN m.servers :
           /\ ByService(m.servers[i]) \in A
           /\ m.servers[i].engine = "mssql" => /\ ByRegistry(m.servers[i]) \in A
                                               /\ ByBrowser(m.servers[i], "localhost") \in A
  BY UnnamedLists DEF Answers
<1>2. PICK i \in DOMAIN m.servers : x = m.servers[i]
  BY DEF Answers
<1>3. /\ Told(m) \in Seq(L) /\ PortsStay(m, L) /\ FromBrowser(m, "localhost") \in Seq(L)
      /\ Merges(L, L)
  BY LocalLists DEF Answers, PortsStay
<1>4. /\ C \in SUBSET A /\ C \in SUBSET L /\ A \in SUBSET L
      /\ \A c \in C : Unnamed(c) /\ c.port = x.port /\ c.port # NotKnown
  <2>1. x.port # NotKnown
    BY <1>2 DEF Answers, ToldApart
  <2> QED  BY <2>1 DEF Unnameds, UnnamedOn
<1>5. C \subseteq LeadTo(w, x)
  <2>1. \A e \in C : e \in Local(w) /\ ~Named(e) /\ e.port = x.port /\ e.engine = x.engine
    BY <1>4 DEF Unnamed, IsDefault
  <2> HIDE DEF C
  <2> QED  BY <2>1, LeadFacts
<1>6. ASSUME NEW a \in L, NEW b \in L, Unnamed(a),
             a.port = x.port \/ (a.port = NotKnown /\ b.port = x.port)
      PROVE  Merged(a, b) \in C
  <2>1. /\ Merged(a, b) \in L /\ Merged(a, b).engine = a.engine
        /\ Merged(a, b).instance = a.instance /\ Merged(a, b).port = x.port
    BY <1>2, <1>6, MergedFacts DEF Local, Answers, ToldApart
  <2> QED  BY <1>6, <2>1 DEF Unnameds, Unnamed, Named
<1>7. ByRegistry(x) \in C /\ ByBrowser(x, "localhost") \in C
  <2>1. /\ Seen(ByRegistry(x), x, "localhost", {"localhost"}, Names(w))
        /\ Seen(ByBrowser(x, "localhost"), x, "localhost", {"localhost"}, Names(w))
        /\ ByRegistry(x).port = x.port
    BY <1>2, LocalTold DEF Answers
  <2> QED  BY <2>1 DEF Unnameds, Unnamed, Named, IsDefault, Seen, Local, Answers
<1>8. \A a \in A : Unnamed(a) => a.port \in {NotKnown, x.port}
  BY DEF UnnamedOn
<1>9. ASSUME NEW u \in USUAL_PORTS
      PROVE  TakesPort(m, C, u)
  <2> HIDE DEF C, m
  <2>1. C \in SUBSET L
    BY <1>4
  <2>2. \A c \in C : c.port # NotKnown
    BY <1>4
  <2>3. C \in SUBSET Local(w)
    BY <2>1
  <2> QED  BY <2>2, <2>3, FixedPort
<1> HIDE DEF A, C, L, m
<1>10. Merges(C, L) /\ Merges(C, A) /\ Brings(C, A, C)
  <2>1. Merges(C, L) /\ Merges(C, A)
    BY <1>4, <1>6 DEF Merges
  <2>2. \A a \in A, d \in C : Key(a) = Key(d) => Merged(a, d) \in C
    BY <1>4, <1>6, <1>8, KeyFacts
  <2> QED  BY <2>1, <2>2 DEF Brings
<1>11. CASE "registry" \in m.visible
  <2>1. Some(Told(m), C)
    BY <1>1, <1>2, <1>7, <1>10, <1>11, ToldBrings DEF IsDefault
  <2>2. Some(ByPorts(m, Told(m)), C)
    BY <1>3, <1>9, <1>10, <2>1, PortsKeepSome
  <2>3. ByPorts(m, Told(m)) \in Seq(L)
    BY <1>3, PortsIn
  <2>4. Some(DiscoverLocal(m), C)
    BY <1>3, <1>10, <2>2, <2>3, BrowserKeeps
  <2> QED  BY <1>5, <2>4 DEF Some, m
<1>12. CASE "registry" \notin m.visible
  <2>1. ~PortOpen(m, 1433)
    BY <1>12 DEF m, NoOtherPort
  <2>2. PortsStay(m, A)
    BY <2>1, UnnamedLists DEF m, A
  <2>3. Told(m) \in Seq(A)
    BY <1>1, ToldFacts
  <2>4. ByPorts(m, Told(m)) \in Seq(A) /\ FromBrowser(m, "localhost") \in Seq(A)
    BY <1>1, <2>2, <2>3, PortsIn, BrowserFacts
  <2>5. Some(FromBrowser(m, "localhost"), C)
    <3>1. m.browser /\ x.engine = "mssql" /\ x.running
      BY DEF IsDefault, Answers, m
    <3>2. \A j \in DOMAIN m.servers :
            m.servers[j].engine = "mssql" => ByBrowser(m.servers[j], "localhost") \in A
      BY <1>1
    <3>3. i \in DOMAIN m.servers /\ m.servers[i].engine = "mssql" /\ m.servers[i].running
      BY <1>2, <3>1
    <3>4. ToldApart(m)
      BY <1>1
    <3>5. m.browser =>
            \A k \in DOMAIN m.servers :
              m.servers[k].engine = "mssql" /\ m.servers[k].running =>
                \E j \in DOMAIN FromBrowser(m, "localhost") :
                  FromBrowser(m, "localhost")[j] = ByBrowser(m.servers[k], "localhost")
      BY <2>4, <3>2, <3>4, BrowserFacts
    <3>6. PICK j \in DOMAIN FromBrowser(m, "localhost") :
            FromBrowser(m, "localhost")[j] = ByBrowser(m.servers[i], "localhost")
      BY <3>1, <3>3, <3>5
    <3> QED  BY <1>2, <1>7, <3>6 DEF Some
  <2>6. Some(DiscoverLocal(m), C)
    BY <1>1, <1>10, <2>4, <2>5, BrowserBrings
  <2> QED  BY <1>5, <2>6 DEF Some, m
<1> QED  BY <1>11, <1>12

\* All of it.
LEMMA HereFound ==
  ASSUME NEW w, NEW x, Answers(w, x), GivenAway(w[Here], x)
  PROVE  Some(DiscoverLocal(w[Here]), LeadTo(w, x))
<1>1. CASE x.engine # "mssql"
  BY <1>1, OtherFound DEF GivenAway
<1>2. CASE x.engine = "mssql" /\ x.instance # "MSSQLSERVER"
  BY <1>2, NamedFound, UsualMssql DEF GivenAway
<1>3. CASE IsDefault(x)
  BY <1>3, DefaultOn1433Found, DefaultElsewhereFound, UsualMssql
  DEF IsDefault, GivenAway, NoOtherPort
<1> QED  BY <1>1, <1>2, <1>3 DEF IsDefault

-----------------------------------------------------------------------------
(* The list of the session.                                                *)

\* The list l comes first in s.
Starts(l, s) == \A i \in DOMAIN l : i \in DOMAIN s /\ s[i] = l[i]

\* Only what is in l bears the name of this computer.
OthersElsewhere(l, s) == \A i \in DOMAIN s \ DOMAIN l : s[i].host # "localhost"

\* The session's list is what was found in this network, what is here first, until it
\* is dropped.
ListInv ==
  /\ world \in Worlds
  /\ servers \in Seq(SoundEntries(world))
  /\ servers # <<>> => Starts(DiscoverLocal(world[Here]), servers)
  /\ OthersElsewhere(DiscoverLocal(world[Here]), servers)

\* Only a search and the end of the wizard touch the list.
LEMMA ListTouched ==
  ASSUME Next
  PROVE  /\ world' = world
         /\ servers' \in {servers, <<>>}
              \cup {Search(world, network) : network \in {NoNetwork} \cup LocalNetworks}
<1>1. CASE \E t \in Tabs : Wizard(t)
  <2> PICK t \in Tabs : Wizard(t)
    BY <1>1
  <2>1. CASE \E network \in {NoNetwork} \cup LocalNetworks : SetupStart(t, network)
    BY <2>1 DEF SetupStart
  <2>2. CASE (\E i \in DOMAIN servers : OpenConnect(t, i)) \/ (\E s \in ByHand : OpenTyped(t, s))
    BY <2>2 DEF OpenConnect, OpenTyped
  <2>3. CASE SetupConnect(t)
    BY <2>3 DEF SetupConnect
  <2>4. CASE Expired(t) \/ Leave(t)
    BY <2>4 DEF Expired, Leave
  <2>5. CASE \E d \in Databases : ShowPlan(t, d) \/ \E a \in DOMAIN Rights : UseExisting(t, d, a)
    BY <2>5 DEF ShowPlan, UseExisting
  <2>6. CASE SetupProvision(t) \/ Execute(t) \/ Refused(t)
    BY <2>6 DEF SetupProvision, Execute, Refused
  <2>7. CASE Finish(t)
    BY <2>7 DEF Finish
  <2> QED  BY <2>1, <2>2, <2>3, <2>4, <2>5, <2>6, <2>7 DEF Wizard
<1>2. CASE \E src \in sources, form \in Forms : SaveForm(src, form)
  BY <1>2 DEF SaveForm
<1>3. CASE ChangeKey \/ Tick
  BY <1>3 DEF ChangeKey, Tick
<1> QED  BY <1>1, <1>2, <1>3 DEF Next

\* Every step leaves it such a list.
LEMMA ListStep ==
  ASSUME MachinesToldApart, ListInv, [Next]_vars
  PROVE  ListInv'
<1>1. CASE UNCHANGED vars
  BY <1>1 DEF ListInv, vars
<1>2. CASE Next
  <2> DEFINE A == SoundEntries(world)
  <2>1. /\ world' = world
        /\ servers' \in {servers, <<>>}
             \cup {Search(world, network) : network \in {NoNetwork} \cup LocalNetworks}
    BY <1>2, ListTouched
  <2>2. SoundEntries(world)' = A /\ DiscoverLocal(world[Here])' = DiscoverLocal(world[Here])
    BY <2>1
  <2>3. \A network : /\ Search(world, network) \in Seq(A)
                     /\ Starts(DiscoverLocal(world[Here]), Search(world, network))
                     /\ OthersElsewhere(DiscoverLocal(world[Here]), Search(world, network))
    <3>1. Here \in DOMAIN world /\ ToldApart(world[Here])
      BY SetupAssumption DEF ListInv, MachinesToldApart
    <3>2. \A hosts \in LocalNetworks :
            /\ hosts \in Seq(DOMAIN world \ {"localhost"})
            /\ \A i \in DOMAIN hosts : ToldApart(world[hosts[i]])
      BY DEF ListInv, MachinesToldApart
    <3> QED  BY <3>1, <3>2, SoundSearch DEF Starts, OthersElsewhere
  <2>4. <<>> \in Seq(A) /\ OthersElsewhere(DiscoverLocal(world[Here]), <<>>)
    BY EmptySeq DEF OthersElsewhere
  <2> HIDE DEF A
  <2> QED  BY <2>1, <2>2, <2>3, <2>4 DEF ListInv
<1> QED  BY <1>1, <1>2

\* There is none at first.
LEMMA InitList == Init => ListInv
BY EmptySeq DEF Init, ListInv, OthersElsewhere

\* An entry that names an instance of SQL Server leads to that instance alone, or to
\* nothing: a connection goes by the name, where the name says something, and the entry
\* of the default instance has no port but its own.
THEOREM EntriesNameTheirInstance ==
  ASSUME MachinesToldApart
  PROVE  Spec => []EntriesLeadHome
<1>1. ListInv => EntriesLeadHome
  <2> SUFFICES ASSUME ListInv, NEW e \in DOMAIN servers,
                      servers[e].engine = "mssql", servers[e].instance # NoName,
                      servers[e].tcp # "no", NEW there \in Arrives(world, servers[e])
               PROVE  there.server.instance = servers[e].instance
    BY DEF EntriesLeadHome
  <2>1. servers[e] \in SoundEntries(world)
    BY Places DEF ListInv
  <2>2. ToldApart(world[Here])
    BY DEF ListInv, MachinesToldApart
  <2> QED  BY <2>1, <2>2, SoundLeads
<1>2. Init => ListInv
  BY InitList
<1>3. ListInv /\ [Next]_vars => ListInv'
  BY ListStep
<1> QED  BY <1>1, <1>2, <1>3, PTL DEF Spec

\* Every server of our machine on the usual port of its family, and every instance of
\* SQL Server that the Browser announces, has an entry that leads to it: each way of
\* telling of it brings one or completes one, and what comes after takes none away.  Of
\* a default instance elsewhere that the registry does not tell this is said only if
\* the usual port is closed: an open one is put down to it (discovery.py:217).
THEOREM FindingLosesNothing ==
  ASSUME MachinesToldApart
  PROVE  Spec => []NothingFoundIsLost
<1>1. ListInv => NothingFoundIsLost
  <2> SUFFICES ASSUME ListInv, servers # <<>>, NEW i \in DOMAIN world[Here].servers,
                      GivenAway(world[Here], world[Here].servers[i])
               PROVE  \E e \in DOMAIN servers :
                        [address |-> Here, server |-> world[Here].servers[i]]
                          \in Arrives(world, servers[e])
    BY DEF NothingFoundIsLost
  <2> DEFINE x == world[Here].servers[i]
  <2>1. Here \in DOMAIN world /\ ToldApart(world[Here])
    BY SetupAssumption DEF ListInv, MachinesToldApart
  <2>2. Answers(world, x)
    BY <2>1 DEF Answers, GivenAway
  <2>3. Some(DiscoverLocal(world[Here]), LeadTo(world, x))
    BY <2>1, <2>2, HereFound
  <2>4. PICK e \in DOMAIN DiscoverLocal(world[Here]) :
          DiscoverLocal(world[Here])[e] \in LeadTo(world, x)
    BY <2>3 DEF Some
  <2>5. e \in DOMAIN servers /\ servers[e] = DiscoverLocal(world[Here])[e]
    BY DEF ListInv, Starts
  <2> QED  BY <2>4, <2>5 DEF LeadTo
<1>2. Init => ListInv
  BY InitList
<1>3. ListInv /\ [Next]_vars => ListInv'
  BY ListStep
<1> QED  BY <1>1, <1>2, <1>3, PTL DEF Spec

-----------------------------------------------------------------------------
(* Where the credentials go.                                               *)

\* A page that shows a server of this computer shows the one that has its number among
\* those that are found here, whatever list the session has by now.
ShownIsHere(t) ==
  On(t, "connect") =>
    \/ tab[t].index = 0
    \/ tab[t].shown.host # "localhost"
    \/ /\ tab[t].index \in DOMAIN DiscoverLocal(world[Here])
       /\ tab[t].shown = DiscoverLocal(world[Here])[tab[t].index]

ShownInv == PagesInv /\ ListInv /\ \A t \in Tabs : ShownIsHere(t)

\* The entries of the list that are on this computer are those that are found here.
LEMMA HereInList ==
  ASSUME ListInv, NEW i \in DOMAIN servers
  PROVE  \/ servers[i].host # "localhost"
         \/ /\ i \in DOMAIN DiscoverLocal(world[Here])
            /\ servers[i] = DiscoverLocal(world[Here])[i]
<1>1. servers # <<>>
  OBVIOUS
<1>2. CASE i \in DOMAIN DiscoverLocal(world[Here])
  BY <1>1, <1>2 DEF ListInv, Starts
<1>3. CASE i \notin DOMAIN DiscoverLocal(world[Here])
  BY <1>3 DEF ListInv, OthersElsewhere
<1> QED  BY <1>2, <1>3

\* A page that asks for credentials was made of what was typed in, or of an entry of
\* the list with its number.
LEMMA PagesOfEntries ==
  ASSUME PagesInv, NEW t \in Tabs, Wizard(t), tab'[t] # tab[t],
         tab'[t] # NoPage, tab'[t].page = "connect"
  PROVE  \E s, i : /\ tab'[t] = [page |-> "connect", shown |-> s, index |-> i]
                   /\ i = 0 \/ (i \in DOMAIN servers /\ s = servers[i])
<1>1. CASE \E i \in DOMAIN servers : OpenConnect(t, i)
  <2> PICK i \in DOMAIN servers : OpenConnect(t, i)
    BY <1>1
  <2> QED  BY TurnFacts DEF OpenConnect
<1>2. CASE \E s \in ByHand : OpenTyped(t, s)
  <2> PICK s \in ByHand : OpenTyped(t, s)
    BY <1>2
  <2> QED  BY TurnFacts DEF OpenTyped
<1>3. CASE SetupConnect(t)
  <2>1. ASSUME NEW s \in Entered(t),
               Turn(t, [page |-> "databases", overview |-> Overview(s),
                        access |-> Seal([server |-> s, typed |-> now], now, cipher)])
        PROVE  FALSE
    BY <2>1, TurnFacts
  <2>2. ~Turn(t, NoPage)
    BY TurnFacts
  <2>3. PICK s \in Entered(t) :
          Turn(t, [page |-> "connect", shown |-> s, index |-> tab[t].index])
    BY <1>3, <2>1, <2>2 DEF SetupConnect
  <2>4. tab[t].index = 0 \/ (tab[t].index \in DOMAIN servers /\ s = servers[tab[t].index])
    BY DEF Entered, ServerAt
  <2>5. tab'[t] = [page |-> "connect", shown |-> s, index |-> tab[t].index]
    BY <2>3, TurnFacts
  <2> QED  BY <2>4, <2>5
<1>4. ASSUME NEW d \in Databases, ShowPlan(t, d)
      PROVE  FALSE
  <2>1. PICK page : Turn(t, page) /\ page.page = "confirm"
    BY <1>4 DEF ShowPlan
  <2> QED  BY <2>1, TurnFacts
<1>5. ~SetupProvision(t)
  BY TurnFacts DEF SetupProvision
<1>6. ~Execute(t)
  BY ExecuteTurns DEF On
<1>7. ~Turn(t, NoPage) /\ tab' # tab
  BY TurnFacts
<1> QED  BY <1>1, <1>2, <1>3, <1>4, <1>5, <1>6, <1>7
         DEF Wizard, SetupStart, Leave, Expired, UseExisting, CreateSource, Refused, Finish

\* Every step preserves it.
LEMMA ShownStep ==
  ASSUME MachinesToldApart, ShownInv, [Next]_vars
  PROVE  ShownInv'
<1>1. PagesInv /\ ListInv /\ PagesInv' /\ ListInv'
  BY PagesStep, ListStep DEF ShownInv
<1>2. world' = world
  BY ListTouched DEF vars
<1>3. ASSUME NEW u \in Tabs, tab'[u] = tab[u]
      PROVE  ShownIsHere(u)'
  BY <1>2, <1>3 DEF ShownInv, ShownIsHere, On
<1>4. ASSUME NEW t \in Tabs, Wizard(t), tab'[t] # tab[t]
      PROVE  ShownIsHere(t)'
  <2>1. CASE tab'[t] = NoPage \/ tab'[t].page # "connect"
    BY <2>1 DEF ShownIsHere, On
  <2>2. CASE tab'[t] # NoPage /\ tab'[t].page = "connect"
    <3>1. PICK s, i : /\ tab'[t] = [page |-> "connect", shown |-> s, index |-> i]
                      /\ i = 0 \/ (i \in DOMAIN servers /\ s = servers[i])
      BY <1>1, <1>4, <2>2, PagesOfEntries
    <3>2. /\ tab'[t].index = i /\ tab'[t].shown = s
          /\ i = 0 \/ (i \in DOMAIN servers /\ s = servers[i])
      BY <3>1
    <3>3. \/ i = 0 \/ s.host # "localhost"
          \/ /\ i \in DOMAIN DiscoverLocal(world[Here])
             /\ s = DiscoverLocal(world[Here])[i]
      BY <1>1, <3>2, HereInList
    <3> QED  BY <1>2, <3>2, <3>3 DEF ShownIsHere
  <2> QED  BY <2>1, <2>2
<1>5. ASSUME NEW t \in Tabs, Wizard(t), NEW u \in Tabs, u # t
      PROVE  tab'[u] = tab[u]
  BY <1>1, <1>5, WizardTurns, TurnFacts
<1>6. \A u \in Tabs : ShownIsHere(u)'
  BY <1>3, <1>4, <1>5 DEF Next, SaveForm, ChangeKey, Tick, vars
<1> QED  BY <1>1, <1>6 DEF ShownInv

\* What the administrator typed for a server of this computer, or for one that was
\* typed in, goes to the server that the page shows, whether that takes it or not and
\* however often other tabs searched meanwhile: every search puts what is here first
\* (setup.py, setup_connect and setup_start).
THEOREM CredentialsGoHome ==
  ASSUME MachinesToldApart
  PROVE  Spec => CredentialsGoWhereShown
<1> DEFINE Home == \A t \in Tabs :
      SetupConnect(t) /\ (tab[t].index = 0 \/ tab[t].shown.host = "localhost") =>
        Entered(t) \subseteq {tab[t].shown}
<1>1. ShownInv /\ [Next]_vars => [Home]_vars
  <2> SUFFICES ASSUME ShownInv, NEW t \in Tabs, SetupConnect(t),
                      tab[t].index = 0 \/ tab[t].shown.host = "localhost",
                      NEW s \in Entered(t)
               PROVE  s = tab[t].shown
    OBVIOUS
  <2>1. CASE tab[t].index = 0
    BY <2>1 DEF Entered
  <2>2. CASE tab[t].index # 0
    <3>1. /\ tab[t].index \in DOMAIN DiscoverLocal(world[Here])
          /\ tab[t].shown = DiscoverLocal(world[Here])[tab[t].index]
      BY <2>2 DEF ShownInv, ShownIsHere, SetupConnect
    <3>2. tab[t].index \in DOMAIN servers /\ s = servers[tab[t].index]
      BY <2>2 DEF Entered, ServerAt
    <3>3. servers # <<>>
      BY <3>2
    <3>4. Starts(DiscoverLocal(world[Here]), servers)
      BY <3>3 DEF ShownInv, ListInv
    <3> QED  BY <3>1, <3>2, <3>4 DEF Starts
  <2> QED  BY <2>1, <2>2
<1>2. Init => ShownInv
  <2>1. Init => \A t \in Tabs : ShownIsHere(t)
    BY DEF Init, ShownIsHere, On
  <2> QED  BY <2>1, InitPages, InitList DEF ShownInv
<1>3. ShownInv /\ [Next]_vars => ShownInv'
  BY ShownStep
<1> QED  BY <1>1, <1>2, <1>3, PTL DEF Spec, CredentialsGoWhereShown

=============================================================================
