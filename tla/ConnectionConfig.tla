-------------------------- MODULE ConnectionConfig --------------------------
(***************************************************************************)
(* A connection to another system's database: from the form of the panel   *)
(* (dashboard/forms.py) over the row of the source (sources/models.py) to  *)
(* the configuration that is opened (host_connector/config.py and          *)
(* connection.py), with the secrets that are kept enciphered               *)
(* (config/crypto.py).                                                     *)
(*                                                                         *)
(* A text is "" or one of the names the instance gives; options are        *)
(* "none", "pairs" (of key and value, none of which the code sets itself)  *)
(* or "broken"; a port is a number, or NoPort.                             *)
(***************************************************************************)
EXTENDS Integers, Sequences

CONSTANTS
  Files,          \* SQLite files that exist
  Urls,           \* URLs that make_url takes
  Environment     \* the connections named in the .env: records like a form

SUPPORTED_ENGINES == {"mssql", "postgresql", "mysql", "mariadb", "oracle", "sqlite"}

NoPort == 0

-----------------------------------------------------------------------------
(* Secrets.                                                                *)

NoSecret == [text |-> "", key |-> 0]

\* encrypt, with the key of the moment.
Encrypt(text, key) == IF text = "" THEN NoSecret ELSE [text |-> text, key |-> key]

\* decrypt: DecryptionError when the key has changed.
Decrypts(secret, key) == secret = NoSecret \/ secret.key = key

\* decrypt_temporary refuses what was sealed too long ago, too.
Seal(data, now, key) == [data |-> data, at |-> now, key |-> key]
Unseals(token, now, ttl, key) == token.key = key /\ now <= token.at + ttl

-----------------------------------------------------------------------------
(* HostConnectionConfig.                                                   *)

NoUrl == ""

\* validate.
Incomplete(c) ==
  /\ c.url = NoUrl
  /\ \/ c.name = ""
     \/ c.engine = "sqlite" /\ c.name \notin Files
     \/ c.engine # "sqlite" /\ c.host = ""
     \/ c.engine \notin {"sqlite", "mssql"} /\ c.user = ""

\* from_values raises HostConfigError (or, for a URL that is none, the
\* ArgumentError of make_url).
ValuesRefused(v) ==
  \/ v.url # NoUrl /\ v.engine \in {"", "url"} /\ v.url \notin Urls
  \/ v.url = NoUrl /\ v.engine \notin SUPPORTED_ENGINES
  \/ v.options = "broken"
  \/ Incomplete(v)

\* from_env: a port that is no number is refused as well; the URL goes first.
EnvRefused(name) ==
  \/ name \notin DOMAIN Environment
  \/ LET e == Environment[name]
     IN  \/ e.url # NoUrl /\ e.engine = "" /\ e.url \notin Urls
         \/ e.url = NoUrl /\ e.engine \notin SUPPORTED_ENGINES
         \/ e.port < NoPort
         \/ e.options = "broken"
         \/ Incomplete(e)

\* The drivers of SQL Server that will do, the best first.
ODBC_DRIVER_PREFERENCE == <<"ODBC Driver 18", "ODBC Driver 17">>

\* best_odbc_driver, if there is one.  When nobody can tell what is installed
\* the best is hoped for.
BestDriver(installed) ==
  LET good == SelectSeq(ODBC_DRIVER_PREFERENCE, LAMBDA d : d \in installed)
  IN  IF installed = {} THEN {ODBC_DRIVER_PREFERENCE[1]}
      ELSE {good[i] : i \in DOMAIN good \cap {1}}

\* sqlalchemy_url, which asks for the driver of SQL Server.
UrlMade(c, installed) ==
  \/ c.url # NoUrl
  \/ /\ c.engine # "sqlite"
     /\ c.engine = "mssql" => c.driver # "" \/ BestDriver(installed) # {}

\* HostDatabase makes its engine when it is first used: SQLite opens its file,
\* the others what the URL says.
EngineMade(c, installed) ==
  \/ c.engine = "sqlite" /\ c.url = NoUrl
  \/ UrlMade(c, installed)

-----------------------------------------------------------------------------
(* The row of a source, and its form.                                      *)

\* Slip: a URL that is left empty is taken for one that is stored.
PanelErrorsUrlStored(src) ==
  {f \in {"db_engine"} : src.engine = ""}
  \cup {f \in {"db_name"} : src.engine \notin {"", "url"} /\ src.name = ""}
  \cup {f \in {"db_host"} : src.engine \notin {"", "url", "sqlite"} /\ src.host = ""}
  \cup {f \in {"db_user"} :
          src.engine \notin {"", "url", "sqlite", "mssql"} /\ src.user = ""}
  \cup {f \in {"db_options"} : src.options = "broken"}

\* _panel_connection_errors.
PanelErrors(src) ==
  {f \in {"db_engine"} : src.engine = "" \/ (src.engine = "url" /\ src.url = NoSecret)}
  \cup {f \in {"db_name"} : src.engine \notin {"", "url"} /\ src.name = ""}
  \cup {f \in {"db_host"} : src.engine \notin {"", "url", "sqlite"} /\ src.host = ""}
  \cup {f \in {"db_user"} :
          src.engine \notin {"", "url", "sqlite", "mssql"} /\ src.user = ""}
  \cup {f \in {"db_options"} : src.options = "broken"}

\* DataSource.clean, for a source of the kind DATABASE.
SourceErrors(src) ==
  IF src.mode = "ENV" THEN {f \in {"connection"} : src.connection = ""}
  ELSE PanelErrors(src)

\* DatabaseSourceForm: the fields, then clean, which sets the secrets before the
\* row is validated.  What is left empty stays as it was stored; the URL goes
\* with any other engine.
Filled(src, form, key) ==
  [src EXCEPT !.mode = form.mode, !.engine = form.engine, !.host = form.host,
     !.port = form.port, !.name = form.name, !.user = form.user, !.driver = form.driver,
     !.options = form.options, !.connection = form.connection,
     !.password = IF form.clear THEN NoSecret
                  ELSE IF form.password # "" THEN Encrypt(form.password, key) ELSE @,
     !.url = IF form.engine # "url" THEN NoSecret
             ELSE IF form.url # NoUrl THEN Encrypt(form.url, key) ELSE @]

\* What connection_config takes from the row.
Values(src) ==
  [engine |-> src.engine, host |-> src.host, port |-> src.port, name |-> src.name,
   user |-> src.user, password |-> src.password.text, options |-> src.options,
   driver |-> src.driver,
   url |-> IF src.engine = "url" THEN src.url.text ELSE NoUrl]

\* connection_config gives a configuration.
Opens(src, key) ==
  IF src.mode = "ENV" THEN ~EnvRefused(src.connection)
  ELSE /\ src.engine # ""
       /\ Decrypts(src.password, key)
       /\ src.engine = "url" => Decrypts(src.url, key) /\ src.url # NoSecret
       /\ ~ValuesRefused(Values(src))

=============================================================================
