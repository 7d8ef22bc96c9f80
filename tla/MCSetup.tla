---- MODULE MCSetup ----
(* Two networks of two machines and of one, with what makes their servers hard to tell apart. *)
EXTENDS Setup, TLC

CONSTANTS a0, a1, a2, t1, t2

Server(engine, instance, port) ==
  [engine |-> engine, instance |-> instance, port |-> port, tcp |-> TRUE, running |-> TRUE,
   mixed |-> TRUE]
Machine(list, browser, visible) ==
  [servers |-> list, browser |-> browser, visible |-> visible,
   drivers |-> {"ODBC Driver 17", "SQL Server"}]
Nothing == Machine(<<>>, FALSE, {})
World(here, there, elsewhere) ==
  [a \in {a0, a1, a2} |-> IF a = a0 THEN here ELSE IF a = a1 THEN there ELSE elsewhere]

Default == Server("mssql", "MSSQLSERVER", 1433)
Express == Server("mssql", "SQLEXPRESS", 1434)
ExpressOnDefault == Server("mssql", "SQLEXPRESS", 1433)
Both    == {"services", "registry"}

\* A default instance, found under both names of its machine, and a named one
\* that is installed and stopped.
W1 == World(Machine(<<Default, [Express EXCEPT !.running = FALSE]>>, TRUE, Both),
            Nothing, Nothing)
\* A named instance on the usual port here, and one beside a default instance
\* that does not listen there, for accounts of Windows only.
W2 == World(Machine(<<ExpressOnDefault>>, FALSE, {"services"}),
            Machine(<<[Default EXCEPT !.tcp = FALSE], [ExpressOnDefault EXCEPT !.mixed = FALSE]>>,
                    TRUE, {}), Nothing)
\* MySQL and MariaDB side by side, of which only one can have the usual port.
W3 == World(Machine(<<Server("mariadb", "", 3306), Server("mysql", "", 3307)>>, FALSE, Both),
            Nothing, Nothing)
\* The default instance elsewhere and for accounts of Windows only, a named one on the usual port.
W4 == World(Machine(<<[Server("mssql", "MSSQLSERVER", 2000) EXCEPT !.mixed = FALSE], ExpressOnDefault>>, TRUE, Both),
            Nothing, Nothing)
\* The same, where the registry may not be read: the named one's port is taken for that
\* of the default one.  No driver that would do for them; PostgreSQL and MySQL on other machines.
W5 == World([Machine(<<Server("mssql", "MSSQLSERVER", 2000), ExpressOnDefault>>, TRUE, {"services"})
               EXCEPT !.drivers = {"SQL Server"}],
            Machine(<<Server("postgresql", "", 5432)>>, FALSE, {}),
            Machine(<<Server("mysql", "", 3306)>>, FALSE, {}))

MCWorlds == {W1, W2, W3, W4, W5}
\* In a network of either card, and to itself.
MCOwnAddresses ==
  {[private |-> TRUE, hosts |-> <<a0, a1>>], [private |-> TRUE, hosts |-> <<a2>>],
   [private |-> FALSE, hosts |-> <<a0>>]}
MCByHand == {Detected("postgresql", a1, NotKnown, "", "unknown")}
MCPasswords == <<"p1", "p2">>

On1433 == [address |-> a0, server |-> Default]
Right(right, level, database, through) ==
  [right |-> right, level |-> level, database |-> database, through |-> through]
\* Somebody made the user before, with too many rights; another may write to a table
\* of the database, and owns another one.
MCRights == [server |-> On1433, name |-> READONLY_USERNAME, from |-> "%"] :>
                 {Right("db_datawriter", "database", "b", "role")}
            @@ [server |-> On1433, name |-> "leitor", from |-> "%"] :>
                 {Right("INSERT", "table", "b", "user"), Right("db_owner", "database", "master", "role")}

MCEnvironment ==
  "default" :> [engine |-> "mysql", host |-> "h", port |-> 0, name |-> "b", user |-> "u",
                password |-> "p", options |-> "none", driver |-> "",
                url |-> ""]

Typed(mode, engine, host, name, user, url) ==
  [mode |-> mode, engine |-> engine, host |-> host, port |-> 0, name |-> name,
   user |-> user, options |-> "none", connection |-> IF mode = "ENV" THEN "default" ELSE "",
   driver |-> "",
   password |-> "", clear |-> FALSE, url |-> url]
\* Good and bad; the URL may be left to what is stored.
MCForms ==
  {Typed("PANEL", "mssql", "h", "b", "", ""), Typed("PANEL", "oracle", "h", "b", "", ""),
   Typed("PANEL", "url", "", "", "", "firebird://"), Typed("PANEL", "url", "", "", "", ""),
   Typed("ENV", "", "", "", "", ""), Typed("PANEL", "sqlite", "", "b", "", "")}

\* What the theorems take for granted holds here.
ASSUME PremisesAssumption == MachinesToldApart

TabsAlike == Permutations({t1, t2})
====
