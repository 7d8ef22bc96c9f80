----------------------------- MODULE Discovery ------------------------------
(***************************************************************************)
(* The search for database servers (host_connector/discovery.py): what the *)
(* services of Windows, its registry, the usual ports and the SQL Server   *)
(* Browser say is put together to one list of servers to choose from.      *)
(*                                                                         *)
(* A world has the machines of the network by address, one of them ours.   *)
(* A machine has the servers installed on it, in the order of the names of *)
(* their services: [engine, instance, port, tcp, running, mixed], mixed if *)
(* not only accounts of Windows enter; whether its Browser runs, which     *)
(* announces its instances of SQL Server; what of its "services" and       *)
(* "registry" we are let see; and its ODBC drivers of SQL Server.          *)
(***************************************************************************)
EXTENDS Integers, Sequences, FiniteSets, SequencesExt

CONSTANTS
  Here,           \* our machine's address in the network
  OwnAddresses    \* our addresses: [private, hosts], hosts those of its network

NotKnown == 0     \* a port that nobody told
NoName == ""
DEFAULT_PORTS == <<[engine |-> "mssql", port |-> 1433],
                   [engine |-> "postgresql", port |-> 5432],
                   [engine |-> "mysql", port |-> 3306],
                   [engine |-> "oracle", port |-> 1521],
                   [engine |-> "firebird", port |-> 3050]>>

Family(engine) == IF engine = "mariadb" THEN "mysql" ELSE engine

UsualPort(engine) ==
  LET usual == CHOOSE i \in DOMAIN DEFAULT_PORTS : DEFAULT_PORTS[i].engine = Family(engine)
  IN  DEFAULT_PORTS[usual].port

-----------------------------------------------------------------------------
(* DetectedServer and DiscoveryResult.  tcp is "yes", "no" or "unknown".   *)

Detected(engine, host, port, instance, tcp) ==
  [engine |-> engine, host |-> host, port |-> port, instance |-> instance, tcp |-> tcp]

Named(s) == s.engine = "mssql" /\ s.instance \notin {NoName, "MSSQLSERVER"}

\* Slip: the instance makes no difference.
KeyByHost(s) ==
  [family |-> Family(s.engine), host |-> s.host, instance |-> NoName,
   port |-> IF s.engine = "mssql" THEN NotKnown ELSE s.port]

\* An instance of SQL Server is told by its name, any other server by its port.
Key(s) ==
  [family   |-> Family(s.engine), host |-> s.host,
   instance |-> IF s.engine # "mssql" THEN NoName
                ELSE IF Named(s) THEN s.instance ELSE "MSSQLSERVER",
   port     |-> IF s.engine = "mssql" THEN NotKnown ELSE s.port]

Merged(s, other) ==
  Detected(s.engine, s.host, IF s.port = NotKnown THEN other.port ELSE s.port,
           s.instance, IF s.tcp = "unknown" THEN other.tcp ELSE s.tcp)

Add(servers, s) ==
  IF \E i \in DOMAIN servers : Key(servers[i]) = Key(s)
  THEN [i \in DOMAIN servers |->
          IF Key(servers[i]) = Key(s) THEN Merged(servers[i], s) ELSE servers[i]]
  ELSE Append(servers, s)

AddAll(servers, more) == FoldLeft(Add, servers, more)

-----------------------------------------------------------------------------
(* What a machine shows of itself.                                         *)

\* What is at some of the places of a sequence, in its order.
Taken(s, places) ==
  LET order == CHOOSE t \in [1..Cardinality(places) -> places] :
                 \A i, j \in DOMAIN t : i < j => t[i] < t[j]
  IN  [i \in DOMAIN order |-> s[order[i]]]

Installed(machine, engine) ==
  LET s == machine.servers IN Taken(s, {i \in DOMAIN s : s[i].engine = engine})

\* windows_services and classify_service: of the default instance of SQL Server the
\* name of the service is all of its name.
ByService(x) ==
  Detected(x.engine, "localhost",
           IF x.engine = "mssql" THEN NotKnown ELSE UsualPort(x.engine),
           IF x.instance = "MSSQLSERVER" THEN NoName ELSE x.instance, "unknown")

FromServices(machine) ==
  IF "services" \in machine.visible
  THEN [i \in DOMAIN machine.servers |-> ByService(machine.servers[i])] ELSE <<>>

\* sqlserver_registry_instances.
ByRegistry(x) ==
  Detected("mssql", "localhost", x.port, x.instance, IF x.tcp THEN "yes" ELSE "no")

FromRegistry(machine) ==
  LET known == Installed(machine, "mssql")
  IN  IF "registry" \in machine.visible
      THEN [i \in DOMAIN known |-> ByRegistry(known[i])] ELSE <<>>

Listens(x, port) == x.running /\ x.tcp /\ x.port = port

PortOpen(machine, port) ==
  \E i \in DOMAIN machine.servers : Listens(machine.servers[i], port)

\* sqlserver_browser and parse_browser_response: the instances that run.
ByBrowser(x, host) ==
  Detected("mssql", host, IF x.tcp THEN x.port ELSE NotKnown, x.instance,
           IF x.tcp THEN "yes" ELSE "no")

FromBrowser(machine, host) ==
  LET known   == Installed(machine, "mssql")
      running == Taken(known, {i \in DOMAIN known : known[i].running})
  IN  IF machine.browser
      THEN [i \in DOMAIN running |-> ByBrowser(running[i], host)] ELSE <<>>

-----------------------------------------------------------------------------
(* The networks that may be searched, each a sequence of addresses.        *)

MAX_NETWORK_HOSTS == 254

\* local_networks and networks_for.
LocalNetworks == {own.hosts : own \in {o \in OwnAddresses : o.private}}

\* validate_network, of what is chosen; whether it is private was seen to.
MaySearch(hosts) == hosts \in LocalNetworks /\ Len(hosts) <= MAX_NETWORK_HOSTS

-----------------------------------------------------------------------------
(* discover_local and discover_network.                                    *)

\* A server of which no more is known than its port.
ByOpenPort(usual, host) == Detected(usual.engine, host, usual.port, NoName, "unknown")

\* An open port belongs to the first server it could be of, if there is one.
ByPort(machine, servers, usual) ==
  LET fits(i) == /\ Family(servers[i].engine) = usual.engine
                 /\ servers[i].port \in {usual.port, NotKnown}
      first == CHOOSE i \in DOMAIN servers : fits(i) /\ \A j \in 1..(i - 1) : ~fits(j)
  IN  IF ~PortOpen(machine, usual.port) THEN servers
      ELSE IF \E i \in DOMAIN servers : fits(i)
           THEN [servers EXCEPT ![first].port = usual.port]
           ELSE Add(servers, ByOpenPort(usual, "localhost"))

ByPorts(machine, told) ==
  FoldLeft(LAMBDA servers, usual : ByPort(machine, servers, usual), told, DEFAULT_PORTS)

DiscoverLocal(machine) ==
  LET told == AddAll(<<>>, FromServices(machine) \o FromRegistry(machine))
  IN  AddAll(ByPorts(machine, told), FromBrowser(machine, "localhost"))

\* The open usual ports of a machine of the network.
FromPorts(machine, host) ==
  LET open == Taken(DEFAULT_PORTS,
                    {i \in DOMAIN DEFAULT_PORTS : PortOpen(machine, DEFAULT_PORTS[i].port)})
  IN  [i \in DOMAIN open |-> ByOpenPort(open[i], host)]

\* hosts is the sequence of addresses of the network; nothing says which of
\* them is our own.
DiscoverNetwork(world, hosts) ==
  LET announced == [i \in DOMAIN hosts |-> FromBrowser(world[hosts[i]], hosts[i])]
      open      == [i \in DOMAIN hosts |-> FromPorts(world[hosts[i]], hosts[i])]
  IN  FoldLeft(AddAll, FoldLeft(AddAll, <<>>, announced), open)

\* Slip: what is in the network comes first.
SearchNetworkFirst(world, hosts) ==
  LET here  == DiscoverLocal(world[Here])
      there == DiscoverNetwork(world, hosts)
      known == {Key(there[i]) : i \in DOMAIN there}
  IN  IF MaySearch(hosts)
      THEN there \o Taken(here, {i \in DOMAIN here : Key(here[i]) \notin known})
      ELSE here

\* setup_start: this computer first, then what else is in the network, if one may
\* be searched.
Search(world, hosts) ==
  LET here  == DiscoverLocal(world[Here])
      known == {Key(here[i]) : i \in DOMAIN here}
      there == DiscoverNetwork(world, hosts)
  IN  IF MaySearch(hosts)
      THEN here \o Taken(there, {i \in DOMAIN there : Key(there[i]) \notin known})
      ELSE here

-----------------------------------------------------------------------------
(* Entering a server.                                                      *)

\* Slip: SQL Server is always left to find its port.
ConnectionPortNone(s) == IF s.engine = "mssql" THEN NotKnown ELSE s.port

\* setup.py, _connection_port: a named instance and port 1433 go without.
ConnectionPort(s) ==
  IF s.engine = "mssql" /\ (Named(s) \/ s.port = 1433) THEN NotKnown ELSE s.port

\* Where a connection to a server arrives: at the instance that is named, which
\* the Browser of its machine finds, or at the port.
Arrives(world, s) ==
  LET address == IF s.host = "localhost" THEN Here ELSE s.host
      port    == IF ConnectionPort(s) = NotKnown THEN UsualPort(s.engine)
                 ELSE ConnectionPort(s)
      there   == world[address].servers
  IN  {[address |-> address, server |-> there[i]] :
         i \in {j \in DOMAIN there :
                  /\ Family(there[j].engine) = Family(s.engine)
                  /\ there[j].running /\ there[j].tcp
                  /\ IF Named(s) THEN there[j].instance = s.instance
                     ELSE there[j].port = port}}

-----------------------------------------------------------------------------
(* What the search is good for.                                            *)

\* The servers the search has enough to find: one that listens on the usual port of
\* its family, and an instance of SQL Server that the Browser announces.  Of the
\* default instance the announcement is merged into the entry there is by then, so it
\* counts if the registry told its port first, or if nothing else took the usual one.
GivenAway(machine, x) ==
  /\ x.running /\ x.tcp
  /\ \/ x.port = UsualPort(x.engine)
     \/ /\ x.engine = "mssql" /\ machine.browser
        /\ \/ x.instance # "MSSQLSERVER"
           \/ "registry" \in machine.visible
           \/ ~PortOpen(machine, 1433)

-----------------------------------------------------------------------------
(* What the theorems take for granted of a machine.                        *)

ENGINES == {"mssql", "postgresql", "mysql", "mariadb", "oracle", "firebird"}

IsDefault(x) == x.engine = "mssql" /\ x.instance = "MSSQLSERVER"

\* An instance of SQL Server has a name, one at most that of the default one; and
\* no other listens where the default one does, or would if it ran.
ToldApart(machine) ==
  LET s == machine.servers
  IN  /\ s \in Seq({s[i] : i \in DOMAIN s})
      /\ \A i \in DOMAIN s :
           /\ s[i].engine \in ENGINES /\ s[i].port \in Nat \ {NotKnown}
           /\ s[i].engine = "mssql" => s[i].instance # NoName
      /\ \A i, j \in DOMAIN s :
           IsDefault(s[i]) =>
             /\ IsDefault(s[j]) => i = j
             /\ s[i].tcp /\ s[j].engine = "mssql" /\ Listens(s[j], s[i].port) => i = j

=============================================================================
