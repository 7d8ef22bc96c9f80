------------------------------- MODULE Setup --------------------------------
(***************************************************************************)
(* The setup wizard (dashboard/setup.py, host_connector/provisioning.py):  *)
(* an administrator of the panel lets the Gateway search for servers,      *)
(* enters one of them as its administrator, approves the statements that   *)
(* create a user who can only read, and gets a connection that uses it.    *)
(* Several tabs of a browser share one session; what the administrator     *)
(* typed travels sealed in the pages and is good for a while only.         *)
(* Connections may be edited by hand as well (dashboard/connections.py).   *)
(*                                                                         *)
(* An account of a database server is [server, name, from]: from matters   *)
(* to MySQL alone, where a user belongs to the place he comes from.        *)
(***************************************************************************)
EXTENDS Discovery, ConnectionConfig, FiniteSets

CONSTANTS
  Worlds,         \* the networks the Gateway may be installed in
  ByHand,         \* servers an administrator types in instead of choosing one
  Databases,      \* the databases of every server
  Tabs,
  Rights,         \* what accounts that exist before may do but read, by account: sets
                  \* of [right, level, database, through]
  NoPage,
  Forms,          \* what may be typed into the form of a connection
  ACCESS_TTL,     \* how long what is sealed is good for
  Passwords,      \* what generate_password gives, one after the other
  MaxTime, MaxSources, MaxEdits, MaxKeys   \* bounds

ASSUME SetupAssumption ==
  /\ \A w \in Worlds : Here \in DOMAIN w
  /\ ACCESS_TTL \in Nat /\ MaxTime \in Nat

VARIABLES
  world,          \* the network
  servers,        \* the session's list of servers
  tab,            \* the page of each tab
  accounts,       \* the accounts there are: [password, reads, rights]
  sources,        \* the connections, of the kind DATABASE
  plans,          \* passwords generated so far
  edits,
  cipher,         \* the key of the Gateway's encryption
  now

vars == <<world, servers, tab, accounts, sources, plans, edits, cipher, now>>

READONLY_USERNAME == "gateway_leitura"
PROVISIONING_ENGINES == {"mssql", "postgresql", "mysql", "mariadb"}
LOCAL_HOSTS == {"localhost"}
SYSTEM_DATABASES == {"master", "postgres", "mysql"}
NoNetwork == <<>>

Init ==
  /\ world \in Worlds
  /\ servers  = <<>>
  /\ tab      = [t \in Tabs |-> NoPage]
  /\ accounts = [a \in DOMAIN Rights |->
                   [password |-> "theirs", reads |-> Databases, rights |-> Rights[a]]]
  /\ sources  = {}
  /\ plans    = 0
  /\ edits    = 0
  /\ cipher   = 1
  /\ now      = 0

Turn(t, page) == tab' = [tab EXCEPT ![t] = page]

On(t, page) == tab[t] # NoPage /\ tab[t].page = page

-----------------------------------------------------------------------------
(* 1 and 2: searching, and choosing one of what was found.                 *)

\* The tab goes back to where the searches begin.
Leave(t) ==
  /\ tab[t] # NoPage /\ ~On(t, "running")
  /\ Turn(t, NoPage)
  /\ UNCHANGED <<world, servers, accounts, sources, plans, edits, cipher, now>>

SetupStart(t, network) ==
  /\ tab[t] = NoPage
  /\ servers' = Search(world, network)
  /\ UNCHANGED <<world, tab, accounts, sources, plans, edits, cipher, now>>

\* The page shows the server; its form says which one of the list it is.
OpenConnect(t, i) ==
  /\ tab[t] = NoPage
  /\ i \in DOMAIN servers
  /\ Turn(t, [page |-> "connect", shown |-> servers[i], index |-> i])
  /\ UNCHANGED <<world, servers, accounts, sources, plans, edits, cipher, now>>

\* A server that is typed in is not one of the list.
OpenTyped(t, s) ==
  /\ tab[t] = NoPage
  /\ Turn(t, [page |-> "connect", shown |-> s, index |-> 0])
  /\ UNCHANGED <<world, servers, accounts, sources, plans, edits, cipher, now>>

-----------------------------------------------------------------------------
(* 3: entering the server.                                                 *)

\* admin_config, and the configuration of a user who reads.
Config(s) ==
  [engine |-> s.engine, host |-> s.host, port |-> ConnectionPort(s), driver |-> "",
   url |-> NoUrl]

\* A server that answers as its administrator; engines that server_overview
\* can list.
Enters(s) ==
  /\ EngineMade(Config(s), world[Here].drivers)
  /\ Arrives(world, s) # {}
  /\ s.engine \in PROVISIONING_ENGINES

\* What server_overview says of it: SQL Server may know accounts of Windows only.
Overview(s) ==
  [databases |-> Databases \ SYSTEM_DATABASES,
   can_auto  |-> s.engine = "mssql" => \A there \in Arrives(world, s) : there.server.mixed]

\* The server of the list as it is now.
ServerAt(i) == IF i \in DOMAIN servers THEN {servers[i]} ELSE {}

Entered(t) ==
  IF tab[t].index = 0 THEN {tab[t].shown} ELSE ServerAt(tab[t].index)

\* The credentials go to the server, and sealed into the page that follows; if
\* it refuses them, the page is shown again.
SetupConnect(t) ==
  /\ On(t, "connect")
  /\ \/ \E s \in Entered(t) :
          /\ Enters(s)
          /\ Turn(t, [page |-> "databases", overview |-> Overview(s),
                      access |-> Seal([server |-> s, typed |-> now], now, cipher)])
     \/ \E s \in Entered(t) :
          /\ ~Enters(s)
          /\ Turn(t, [page |-> "connect", shown |-> s, index |-> tab[t].index])
     \/ Entered(t) = {} /\ Turn(t, NoPage)
  /\ UNCHANGED <<world, servers, accounts, sources, plans, edits, cipher, now>>

-----------------------------------------------------------------------------
(* The plan of a read-only user.                                           *)

LoginHost(s) == IF s.host \in LOCAL_HOSTS THEN "localhost" ELSE "%"

Account(s, name, login_host) ==
  [server |-> CHOOSE there \in Arrives(world, s) : TRUE, name |-> name,
   from |-> IF Family(s.engine) = "mysql" THEN login_host ELSE "%"]

\* provisioning_plan: the statements that change what the account may do, or
\* what it is entered with.
Statements(engine) ==
  CASE engine = "mssql"      -> <<"create", "password", "reader">>
    [] engine = "postgresql" -> <<"create or password", "read all">>
    [] OTHER                 -> <<"create", "password", "select">>

Plan(s, database, password, login_host) ==
  [account |-> Account(s, READONLY_USERNAME, login_host), database |-> database,
   password |-> password, login_host |-> login_host, statements |-> Statements(s.engine)]

\* What a statement does to the accounts of the server.
Executed(statement, plan) ==
  LET a     == plan.account
      known == a \in DOMAIN accounts
      made  == [password |-> plan.password, reads |-> {}, rights |-> {}]
  IN  CASE statement \in {"create", "create or password"} /\ ~known ->
             [b \in DOMAIN accounts \cup {a} |-> IF b = a THEN made ELSE accounts[b]]
        [] statement = "create" /\ known -> accounts
        [] statement = "password" \/ (statement = "create or password" /\ known) ->
             [accounts EXCEPT ![a].password = plan.password]
        [] statement \in {"reader", "select"} ->
             [accounts EXCEPT ![a].reads = @ \cup {plan.database}]
        [] statement = "read all" -> [accounts EXCEPT ![a].reads = Databases]

-----------------------------------------------------------------------------
(* verify_read_only, and the source.                                       *)

WRITE_PERMISSIONS ==
  {"INSERT", "UPDATE", "DELETE", "TRUNCATE", "ALTER", "CONTROL", "CREATE TABLE",
   "CREATE VIEW", "CREATE PROCEDURE", "ALTER ANY SCHEMA", "DROP", "CREATE",
   "TAKE OWNERSHIP", "IMPERSONATE", "ALL PRIVILEGES", "SUPER"}

\* PERMISSIONS: the roles that a server is asked about.
RolesAsked(engine) ==
  CASE engine = "mssql"      -> {"sysadmin", "db_owner", "db_datawriter", "db_ddladmin"}
    [] engine = "postgresql" -> {"superuser"}
    [] OTHER                 -> {}

\* A right is given for the whole "server", a "database" or a "table" of one, to the
\* "user" himself or through a "role".
InForce(g, database) == g.level = "server" \/ g.database = database

\* PERMISSIONS: what a server tells of the rights in a database.  SQL Server leaves out
\* those on tables, PostgreSQL all but those on tables, MySQL those on tables; and all
\* but SQL Server those that come through roles.
Shows(engine, database, g) ==
  /\ InForce(g, database)
  /\ CASE engine = "mssql"      -> g.level # "table"
       [] engine = "postgresql" -> g.level = "table" /\ g.through = "user"
       [] OTHER                 -> g.level # "table" /\ g.through = "user"

\* check_permissions, which has questions for the same engines that a user can be
\* made on; and PermissionReport.read_only.
CheckPermissions(engine, database, rights) ==
  [checked           |-> engine \in PROVISIONING_ENGINES,
   write_permissions |-> {p \in WRITE_PERMISSIONS :
                            \E g \in rights : g.right = p /\ Shows(engine, database, g)},
   warnings          |-> {r \in RolesAsked(engine) :
                            \E g \in rights : g.right = r /\ InForce(g, database)}]

ReadOnly(report) ==
  report.checked /\ report.write_permissions = {} /\ report.warnings = {}

\* test_connection: an account with a password enters.
Connects(s, a, password) ==
  /\ EngineMade(Config(s), world[Here].drivers)
  /\ a \in DOMAIN accounts
  /\ accounts[a].password = password
  /\ s.engine = "mssql" => a.server.server.mixed

\* Slip: that the connection works is enough.
VerifiedByConnecting(s, a, password, database) == Connects(s, a, password)

Verified(s, a, password, database) ==
  /\ Connects(s, a, password)
  /\ ReadOnly(CheckPermissions(s.engine, database, accounts[a].rights))

\* _create_source.  The instance, which is part of the name of the host, makes no
\* difference to what a configuration refuses.
NewSource(s, a, database, password, how) ==
  [mode |-> "PANEL", engine |-> s.engine, host |-> s.host, port |-> ConnectionPort(s),
   name |-> database, user |-> a.name, options |-> "none", connection |-> "", driver |-> "",
   password |-> Encrypt(password, cipher), url |-> NoSecret,
   account |-> a, how |-> how]

\* full_clean refuses an incomplete row, and save the code another tab just took.
CreateSource(t, s, a, database, password, how) ==
  LET src == NewSource(s, a, database, password, how)
  IN  /\ \/ /\ Cardinality(sources) < MaxSources
            /\ SourceErrors(src) = {}
            /\ sources' = sources \cup {src}
         \/ UNCHANGED sources
      /\ Turn(t, NoPage)

-----------------------------------------------------------------------------
(* 4: choosing a database, and how to read it.                             *)

AccessGood(t) == Unseals(tab[t].access, now, ACCESS_TTL, cipher)

\* What expired sends the tab back to the list of servers.
Expired(t) ==
  /\ On(t, "databases") \/ On(t, "confirm")
  /\ ~AccessGood(t) \/ (On(t, "confirm") /\ ~Unseals(tab[t].plan, now, ACCESS_TTL, cipher))
  /\ Turn(t, NoPage)
  /\ UNCHANGED <<world, servers, accounts, sources, plans, edits, cipher, now>>

\* A user that exists is verified, and becomes that of the source.
UseExisting(t, database, a) ==
  LET s == tab[t].access.data.server
  IN  /\ On(t, "databases")
      /\ AccessGood(t)
      /\ database \in tab[t].overview.databases
      /\ a.server \in Arrives(world, s)
      /\ IF Verified(s, a, "theirs", database)
         THEN CreateSource(t, s, a, database, "theirs", "existing")
         ELSE Turn(t, NoPage) /\ UNCHANGED sources
      /\ UNCHANGED <<world, servers, accounts, plans, edits, cipher, now>>

\* Slip: the page is given what was typed sealed anew.
ForTheNextPageAnew(access) == Seal(access.data, now, cipher)

\* The page passes on what it was given.
ForTheNextPage(access) == access

\* The plan is shown, and what it was made of sealed.
ShowPlan(t, database) ==
  LET s    == tab[t].access.data.server
      plan == Plan(s, database, Passwords[plans + 1], LoginHost(s))
  IN  /\ On(t, "databases")
      /\ AccessGood(t)
      /\ tab[t].overview.can_auto
      /\ database \in tab[t].overview.databases
      /\ plans < Len(Passwords)
      /\ plans' = plans + 1
      /\ Turn(t, [page |-> "confirm", access |-> ForTheNextPage(tab[t].access),
                  approved |-> plan,
                  plan |-> Seal([database |-> database, password |-> plan.password,
                                 login_host |-> plan.login_host], now, cipher)])
      /\ UNCHANGED <<world, servers, accounts, sources, edits, cipher, now>>

-----------------------------------------------------------------------------
(* 5: creating the user, statement by statement.                           *)

\* Slip: where the user comes from is forgotten.
PlanAgainLocal(s, sealed) ==
  Plan(s, sealed.database, sealed.password, "localhost")

\* The plan is made again of what was sealed.
PlanAgain(s, sealed) ==
  Plan(s, sealed.database, sealed.password, sealed.login_host)

SetupProvision(t) ==
  /\ On(t, "confirm")
  /\ AccessGood(t)
  /\ Unseals(tab[t].plan, now, ACCESS_TTL, cipher)
  /\ Turn(t, [page |-> "running", server |-> tab[t].access.data.server,
              typed |-> tab[t].access.data.typed, approved |-> tab[t].approved,
              plan |-> PlanAgain(tab[t].access.data.server, tab[t].plan.data), done |-> 0])
  /\ UNCHANGED <<world, servers, accounts, sources, plans, edits, cipher, now>>

Remaining(t) == tab[t].done < Len(tab[t].plan.statements)

\* AUTOCOMMIT: a statement that succeeded stays.
Execute(t) ==
  /\ On(t, "running")
  /\ Remaining(t)
  /\ accounts' = Executed(tab[t].plan.statements[tab[t].done + 1], tab[t].plan)
  /\ Turn(t, [tab[t] EXCEPT !.done = @ + 1])
  /\ UNCHANGED <<world, servers, sources, plans, edits, cipher, now>>

\* A statement is refused, or the connection lost: the rest is not executed.
Refused(t) ==
  /\ On(t, "running")
  /\ Remaining(t)
  /\ Turn(t, NoPage)
  /\ UNCHANGED <<world, servers, accounts, sources, plans, edits, cipher, now>>

\* All executed: the new user enters, and the session's list is dropped once the
\* source is there.
Finish(t) ==
  LET plan == tab[t].plan
  IN  /\ On(t, "running")
      /\ ~Remaining(t)
      /\ IF Verified(tab[t].server, plan.account, plan.password, plan.database)
         THEN /\ CreateSource(t, tab[t].server, plan.account, plan.database,
                              plan.password, "provisioned")
              /\ servers' = IF sources' = sources THEN servers ELSE <<>>
         ELSE Turn(t, NoPage) /\ UNCHANGED <<sources, servers>>
      /\ UNCHANGED <<world, accounts, plans, edits, cipher, now>>

-----------------------------------------------------------------------------
(* The form of a connection, and the surroundings.                         *)

\* connection_form saves what DatabaseSourceForm and DataSource.clean accept.  The
\* form shares nothing with the pages of the wizard: it is tried while none is open.
SaveForm(src, form) ==
  /\ edits < MaxEdits
  /\ \A t \in Tabs : tab[t] = NoPage
  /\ SourceErrors(Filled(src, form, cipher)) = {}
  /\ sources' = (sources \ {src}) \cup {Filled(src, form, cipher)}
  /\ edits'   = edits + 1
  /\ UNCHANGED <<world, servers, tab, accounts, plans, cipher, now>>

\* GATEWAY_ENCRYPTION_KEY or the secret it is derived from is replaced, once there
\* is a source whose secrets it keeps.
ChangeKey ==
  /\ cipher < MaxKeys
  /\ sources # {}
  /\ cipher' = cipher + 1
  /\ UNCHANGED <<world, servers, tab, accounts, sources, plans, edits, now>>

Tick ==
  /\ now < MaxTime
  /\ now' = now + 1
  /\ UNCHANGED <<world, servers, tab, accounts, sources, plans, edits, cipher>>

Wizard(t) ==
  \/ Leave(t)
  \/ \E network \in {NoNetwork} \cup LocalNetworks : SetupStart(t, network)
  \/ \E i \in DOMAIN servers : OpenConnect(t, i)
  \/ \E s \in ByHand : OpenTyped(t, s)
  \/ SetupConnect(t)
  \/ Expired(t)
  \/ \E d \in Databases : ShowPlan(t, d) \/ \E a \in DOMAIN Rights : UseExisting(t, d, a)
  \/ SetupProvision(t) \/ Execute(t) \/ Refused(t) \/ Finish(t)

Next ==
  \/ \E t \in Tabs : Wizard(t)
  \/ \E src \in sources, form \in Forms : SaveForm(src, form)
  \/ ChangeKey
  \/ Tick

Spec == Init /\ [][Next]_vars

-----------------------------------------------------------------------------
(* What must hold.                                                         *)

\* Every server of our machine that listens on the usual port of its family, and every
\* instance of SQL Server that its Browser announces, is in the list, and entering
\* that entry arrives at it: merging what services, registry, ports and Browser say
\* loses none of them (discovery.py, DiscoveryResult.add; setup.py, setup_start).  A
\* service on an unusual port is put down at the usual one (discovery.py:202), and may
\* be lost; so may a default instance whose entry was given the port of another server
\* before the Browser told its own (discovery.py:217).
NothingFoundIsLost ==
  servers # <<>> =>
    \A i \in DOMAIN world[Here].servers :
      LET x == world[Here].servers[i]
      IN  GivenAway(world[Here], x) =>
            \E e \in DOMAIN servers :
              [address |-> Here, server |-> x] \in Arrives(world, servers[e])

\* An entry that names an instance of SQL Server leads to that instance and to
\* no other, unless its TCP is known to be off (setup.py, _connection_port).
EntriesLeadHome ==
  \A e \in DOMAIN servers :
    servers[e].engine = "mssql" /\ servers[e].instance # NoName /\ servers[e].tcp # "no" =>
      \A there \in Arrives(world, servers[e]) : there.server.instance = servers[e].instance

\* What the administrator typed goes to the server that the page shows, whether that
\* lets him in or refuses him, if the page shows a server of our machine or one that
\* was typed in: the page sends a number of the session's list, and what is here
\* keeps its place when other tabs search again, with or without a network, as long
\* as the network stays as it is (setup.py, setup_connect, setup_start).
CredentialsGoWhereShown ==
  [][\A t \in Tabs :
       SetupConnect(t) /\ (tab[t].index = 0 \/ tab[t].shown.host = "localhost") =>
         Entered(t) \subseteq {tab[t].shown}]_vars

\* Of any server: they go only to the one the page asks leave to enter (connect.html:30,
\* "Autorizo o Gateway a entrar neste servidor").  It does not hold, for a number beyond
\* our machine's may be another server's after another search (setup.py:146).
CredentialsGoWhereAuthorised ==
  [][\A t \in Tabs : SetupConnect(t) => Entered(t) \subseteq {tab[t].shown}]_vars

\* The Gateway enters a server as its administrator only for as long as what was
\* typed is good for, however many pages it went through (setup.py: "expiram ao
\* fim de 10 minutos").
AdministratorExpires ==
  [][\A t \in Tabs :
       On(t, "confirm") /\ tab'[t] # NoPage /\ tab'[t].page = "running" =>
         now - tab'[t].typed <= ACCESS_TTL]_vars

\* What is executed is what was shown and approved (provisioning.py: "O cliente
\* ve exatamente o que vai ser executado antes de aprovar").
ApprovedIsExecuted ==
  \A t \in Tabs : On(t, "running") => tab[t].plan = tab[t].approved

\* A new connection reads as a user of whom the server tells no right to write in its
\* database; one the wizard created has none at all, told or not, and can read the
\* database it was created for, even though its statements may fail one by one and
\* other tabs run theirs on the same user meanwhile (setup.py, setup_database and
\* setup_provision; provisioning.py, apply_plan and verify_read_only).
NewSourcesOnlyRead ==
  [][\A src \in sources' \ sources :
       edits' = edits =>
         LET user == accounts[src.account]
         IN  /\ ReadOnly(CheckPermissions(src.engine, src.name, user.rights))
             /\ src.account \notin DOMAIN Rights => user.rights = {}
             /\ src.how = "provisioned" => src.name \in user.reads]_vars

\* Of any user: it has no right to write there (provisioning.py:10, "confirma que nao
\* consegue escrever").  It does not hold of one that was there before, whose rights on
\* tables, or through roles, the questions leave out (diagnostic_queries.py:42-68).
NewSourcesWriteNothing ==
  [][\A src \in sources' \ sources :
       edits' = edits =>
         \A g \in accounts[src.account].rights :
           g.right \in WRITE_PERMISSIONS => ~InForce(g, src.name)]_vars

\* Every connection the wizard or the form saved gives a configuration, whatever
\* it was before, unless the key of its secrets was replaced, the .env lost it,
\* its file went or its URL was never one (sources/models.py, connection_config).
SavedConnectionsOpen ==
  \A src \in sources :
    \/ Opens(src, cipher)
    \/ ~Decrypts(src.password, cipher) \/ ~Decrypts(src.url, cipher)
    \/ src.mode = "ENV" /\ EnvRefused(src.connection)
    \/ src.engine = "sqlite" /\ src.name \notin Files
    \/ src.engine = "url" /\ src.url.text # "" /\ src.url.text \notin Urls

-----------------------------------------------------------------------------
(* What the theorems take for granted of the constants.                    *)

MachinesToldApart ==
  \A w \in Worlds :
    /\ ToldApart(w[Here])
    /\ \A hosts \in LocalNetworks :
         /\ hosts \in Seq(DOMAIN w \ {"localhost"})
         /\ \A i \in DOMAIN hosts : ToldApart(w[hosts[i]])

=============================================================================
