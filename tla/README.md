# Gateway Fiscal: the verification project

The Gateway Fiscal reads billing documents from the systems of a company (their
databases, or an API they call), validates them and sends them to the Angolan
tax authority (AGT). It is a Django program; its state is in its own database,
and several processes and threads work on that database at the same time: the
web threads of the panel and of the API, the scheduler thread of `run_gateway`,
and the management commands `sync_sources` and `process_agt_queue`.

The models are TLA+ modules, model-checked with TLC on small instances (the
`.cfg` files); theorems about them are proved with TLAPS for every value of the
constants.

    tlc -config MCAgtQueue_contention.cfg MCAgtQueue.tla
    tlapm AgtQueueProofs.tla
    tlapm OperatorQueueProofs.tla
    tlapm SourceSyncProofs.tla
    tlapm RegistryProofs.tla
    tlapm SetupProofs.tla
    tlapm SumProofs.tla
    tlapm DocumentsProofs.tla

## 1. Inventory

Hard behaviours are the ones named in `PROJECT.json` under "hazards".

| Component | State | Operations | Interacts with | Hard | Correct when |
|---|---|---|---|---|---|
| **AGT sending queue** `src/agt/queue.py` | status, attempts, next instant, "waiting for the network" of each invoice row | `enqueue`, `enqueue_if_auto`, `process_queue`, `_send`, `requeue_stuck` | called by import, panel, scheduler, command; calls the AGT client | several processes on the same rows, saves of old copies, death during a send, timeouts, retries | nobody sends twice at once, an interrupted document is never resent by itself, answers and content stay together, attempts are bounded, what is queued gets served |
| **AGT client** `src/agt/client.py` | none | `send` | called by `_send` | timeouts: the AGT may have the document | the outcome says what the AGT did |
| **AGT configuration, keys, signatures** `src/agt/{models,keys,jws}.py` | one row per company; key files | edit, `for_company`; sign, verify | read by queue and client | changes between two attempts | signatures verify |
| **Invoices** `src/invoices/models.py` | the table and its life cycle | `was_communicated` | everybody | the life cycle is spread over all writers | communicated documents are frozen |
| **Import and validation** `src/invoices/services.py` | transaction per document | `import_document`, `revalidate` | called by API and synchronisation; queues | two imports at once, crash after the commit, revalidation on an old copy | one row per source document and per fiscal number, idempotent, nothing communicated is changed |
| **Canonical document** `src/invoices/canonical.py` | none | parse, fingerprint, validate | import | rounding tolerances | equal data, equal fingerprint |
| **Source synchronisation** `src/sources/{sync,models}.py` | cursor, lock with a lease, last status | `sync_source`, `acquire_sync_lock`, `release_sync_lock` | scheduler, command, panel; reads the other system's database | lease expiry, stale cursor, ties, late rows, crash, remapping, edit form | no document skipped in silence, one synchronisation at a time |
| **Mapping, assistant, autodetection** `src/sources/{mapping,assistant,autodetect}.py` | none (the mapping is a field of the source) | validate, convert, generate SQL, suggest | synchronisation, panel | cursor conversions | converts without losing order |
| **Database connector** `src/host_connector/` | none | connect read-only, catalogue, inspection, SQL guard | synchronisation, panel | a statement that writes | only reads |
| **Discovery** `src/host_connector/discovery.py` | none | scan for servers | panel | merging probes | each server once |
| **Provisioning, wizard** `src/host_connector/provisioning.py`, `src/dashboard/setup.py` | sealed tokens between pages; login on the other server | create a read-only login step by step | panel | steps that fail half way, repetition on the same server | a login it creates can only read, connections keep working |
| **Companies, roles, API keys** `src/companies/`, `src/api/authentication.py`, `src/dashboard/access.py` | companies, members, keys | authenticate, revoke, grant | API, panel | revocation during a request | nobody acts for another company |
| **REST API** `src/api/` | none | post a document, read a status | import | simultaneous posts | status codes tell the outcome |
| **Panel** `src/dashboard/` | none of its own | buttons on invoices, forms | all | pages that are old when the button is pressed | a button only does what its page promised |
| **Scheduler** `src/dashboard/management/commands/run_gateway.py` | when each job ran | run synchronisation and queue | both | one thread for two jobs | both jobs run again and again |
| **Audit log** `src/audit/` | append-only records | write | all | | no secrets in it |
| **Configuration, encryption** `src/config/` | settings, key | encrypt, mask | all | lifetime of sealed tokens | |
| **Installer, bootstrap, migrations, templates, tests** | | | | | |

### How the parts work together

    other system --(SELECT)--> synchronisation --\
                                                  >-- import --> invoice rows <--> sending queue --> AGT
    other system --(POST)----> REST API ---------/                    ^
                                                                      |
                                            panel (operator, administrator)

- Everything meets in the rows of the Gateway's database. A row is changed in
  three ways: by a *conditional update* (claim, enqueue, unlock, the lock of a
  synchronisation), which asks again whether the row is still as expected; by
  a *transaction* with `select_for_update` (import); and by a *plain save* of a
  copy read earlier (`_send`, `revalidate`, the forms), which asks nothing.
  The interesting errors live between the first two and the third.
- The scheduler is one thread that runs the synchronisation of all sources and
  the queue of all companies in turn. The commands and the panel's buttons run
  the same functions at any time, at the same time.
- The other system and the AGT are only seen through their answers.

## 2. Modules

| Module | What it is |
|---|---|
| `Invoices` | a row of the invoice table and every way the code rewrites it, as pure operators |
| `Delivery` | abstract specification: what the sending queue promises |
| `AgtQueue` | the queue, importing threads, the panel's buttons, network, deaths; extends `Invoices`, implements `Delivery` |
| `OperatorQueue` | `AgtQueue` with "revalidar" and "desbloquear" |
| `AgtQueueProofs`, `OperatorQueueProofs` | theorems about `AgtQueue` and `OperatorQueue` |
| `SourceSync` | synchronisation of one source; extends `Invoices` |
| `SourceSyncProofs` | theorems about `SourceSync` |
| `InvoicesProofs` | lemmas about the operators of `Invoices`, for both queues and the synchronisation |
| `Register` | abstract specification: what the register of documents promises to those who submit them |
| `Registry` | the API and `import_document`, statement by statement, with access and codes that change; implements `Register` |
| `RegistryProofs` | theorems about `Registry` |
| `Canonical` | the canonical document: conversions, refusals, rules and their tolerances, as pure operators |
| `Mapping` | mappings, the assistant's form, queries, rows to payload, the verdict of a preview, as pure operators; extends `Canonical` |
| `Autodetect` | the catalogue of a database and what is suggested from it: tables, columns, link and cursor, as pure operators; extends `Mapping` |
| `Documents` | one document from the other system, or the API, to its row, with its content in full, and the assistant's pages; extends `Autodetect` |
| `Discovery` | the search for database servers, and where a connection to one arrives, as pure operators |
| `ConnectionConfig` | a connection's form, row and configuration, and its secrets, as pure operators |
| `Setup` | the wizard that creates a read-only user and a connection; extends `Discovery` and `ConnectionConfig` |
| `SumProofs` | lemmas about sums and folds over finite sets and sets put in order |
| `DocumentsProofs`, `SetupProofs` | theorems about `Documents` and `Setup` |
| `MC...` | instances for TLC |

The same operation appears where it matters and as coarse as it can be there:
`import_document` is one step in `SourceSync`, a transaction and the queueing
after it in `AgtQueue`, its statements in `Registry`, and one step over full
contents in `Documents`. A version in `AgtQueue` or a content in `Registry` is
a class of documents of `Documents` with the same fingerprint.

What the models leave for later, in the order of what an error would cost: the
fairness between documents of
one company when more are due than a pass takes, and the panel's roles.

## 3. The models and the code

### Invoices (`src/invoices/models.py`, `src/invoices/services.py`, `src/agt/queue.py`)

A row is a record with the fields on which a decision depends:

| Field | In the code |
|---|---|
| `status` | `status`; `ABSENT` when there is no row. `PENDING` and `IMPORTED` are declared and never assigned |
| `version` | everything that `content_hash` covers; two payloads are the same version when their fingerprints are equal |
| `invalid` | `validation_errors` is not empty |
| `attempts` | `send_attempts` |
| `reqid` | `agt_request_id` is not empty |
| `netwait` | `network_wait_since` is not null |
| `due` | `next_attempt_at` is null or has come |

Messages, dates of sending and the stored answer decide nothing and are left
out. The length of the waits is left out with them: an instant in the future
comes some time (`TimePasses`).

### AgtQueue (`src/agt/queue.py` and its callers)

Each database statement is a step, a transaction is a step, the call to the AGT
is a step, and a process can die between any two.

| Code | Action |
|---|---|
| `process_queue`: list of candidates | `StartPass` (a pass that finds none changes nothing and is not a step) |
| its conditional update | `Claim`, `SkipClaimed` |
| `Invoice.objects.get` | `Load` |
| `client.send` | `Send`, with `ClientAnswers` for what it may come to |
| the rest of `_send`, with `save()` | `Save`, with `AfterSend` for the row |
| bringing waiting documents forward | `Recover` |
| end of the loop | `EndPass`, or `Save` after `NETWORK` |
| `import_document` | `ImportCommit`, then `AutoQueue` after the commit |
| the buttons "enviar", "reenviar" | `PressEnviar`, `PressReenviar` (the row is read), `Enqueue` (the conditional update) |
| `agt_config`, deactivating a company | `Administer` |

`received` and `answered` belong to the AGT: the contents that reached it and
the content for which it gave its last final answer. The real client is not
written yet (`OfficialAgtClient` always answers `FATAL`); `ClientAnswers` is
the contract of `Outcome`, for which the queue is written and tested: a final
answer means that the AGT has the document, and after a temporary error or a
timeout it may have it or not. Documents of a simulated company are accepted
and reach nobody.

Constants of the model that an administrator could change in the program:
`MaxAttempts`, `Simulated`. The order of candidates is left open: any `Limit` of
them. An import here concerns one document; collisions of fiscal numbers and two
first imports at once are in `Registry`.

### OperatorQueue

`revalidate` as two steps, the reading with its verdict and the save of
`status` and `validation_errors` (`update_fields`) over whatever the row holds
by then, followed by the queueing of `AgtQueue`. A verdict may depend on the
day: a date in the future is an error until it comes. The row and its lines are
read in one step. `requeue_stuck` is one conditional update; the page offers it
for documents half an hour in SENDING, and `CarefulOperator` says whether the
operator makes sure that the sender is gone, which the code asks of him
(`requeue_stuck`: "confirmar primeiro no portal da AGT").

### SourceSync (`src/sources/sync.py`, `src/sources/models.py`)

| Code | Action |
|---|---|
| the caller reads the row of the source (`run_sync_once`, `sync_sources`, panel) | `Load` |
| `acquire_sync_lock` | `Acquire`, `Refused` |
| `documents_query` | `Fetch` |
| `lines_query` and `rows_to_payload` of one row | `ReadLines` |
| `import_document` | `Import`; `Stop` when the payload cannot be parsed |
| the update of `sync_cursor` | `Advance` |
| an exception | `ReadFails` (the other database), `WriteFails` (the own one) |
| `finally` | `Release` |
| `connection_form`, `connection_mapping_json` | `OpenForm`, `SaveForm` (a save of the whole row) |
| `connection_mapping` | `SaveMapping` (only the mapping) |

The value of the cursor column is a place in an order (`Position`), given by
the mapping. Header and lines are read at different times, so a payload can be
a mixture (`Mixed`) if the document was corrected in between; it is taken to
fail validation. What the queue does to a document is one step,
`Communicate`. Left out: deactivating the source (it is only looked at before
the lock), the `last_sync_*` fields, which are shown and never read back, and
deletions in the other system.

### Registry (`src/invoices/services.py`, `src/api/`, `src/companies/models.py`, `src/dashboard/forms.py`)

| Code | Action |
|---|---|
| `ApiKey.authenticate`, making and revoking keys, `DataSource.active`, `Company.active` | `LetIn`, `ShutOut`; a request needs an open source to begin and none to go on |
| `DocumentListView.post`, up to `parse_document` | `Receive` |
| `select_for_update().filter(...).first()` and what follows of it | `Lookup` |
| `_check_fiscal_number_free` | `CheckNumber` |
| `_save` and the commit, or the `IntegrityError` | `Save`; the document is in the register, and the request at "stored" |
| `log_integration`, `enqueue_if_auto`, `audit_event` and the answer | `Reply`, with the `ImportResult` (`Result`) |
| after the `IntegrityError` | `LookAgain` |
| any other error, before the commit or after it | `Fail`: the answer is 500, and only what was not committed is undone |
| the answer has gone, or the process died | `Leave` |
| `DocumentListView.get`, `DocumentDetailView.get` | `Consult` |
| `ApiSourceForm`, which allows a new code as long as there are no documents | `Rename` |
| the claim of the queue | `Communicate` |

The transaction is READ COMMITTED; `select_for_update` holds the rows it found
until the transaction ends (`Held`), and nothing when it found none. The
statements of `_save` are one step with the commit. On SQLite, which ignores
`select_for_update`, a transaction that read before another one wrote cannot
write: it ends in `Fail`. A request remembers the source with its code from
when the key was looked up. `CompanyOf` is constant, as in the code.

`Register` is the same register without statements. A submission takes effect in
one step (`Create`, `Replace`) or none, once at most, and is answered in another:
with what it did (`Reply`), that the document is there as it is (`Confirm`), that
another is in the way (`Decline`), or with a failure (`Fail`), which says nothing
of the effect: of a submission answered 500, or never answered, the document may
be stored or not, and who wants to know has to submit it again. A document that
went to the AGT is frozen. The mapping takes `docs` from the rows, `asked` from
the requests at work, `effect` from those whose transaction was committed and
`answers` from the requests that have one.

### Canonical, Mapping, Autodetect, Documents (`src/invoices/canonical.py`, `src/sources/{mapping,assistant,autodetect}.py`, `src/dashboard/forms.py`, `src/host_connector/{catalog,sql_guard,connection}.py`)

| Code | Definition |
|---|---|
| `parse_document`, `_text`, `_decimal`, `_date` | `ParseErrors`, `Parse` |
| `validate_document` | `Broken` |
| `content_hash` | equality of what `Parse` gives |
| `list_tables`, `table_columns`, `distinct_values` | `ListTables`, `ColumnsOf`, `DistinctValues` |
| `match_columns`, `_table_score` | `MatchColumns`, `TableScore` |
| `suggest`, for the database or for two tables chosen by hand | `Suggest`, `SuggestFor` |
| `Suggestion.initial`, and the form that `connection_mapping` shows | `Initial`, `StartingForms` |
| `MappingAssistantForm`, `initial_from_mapping` | `FormAccepted`, `Reopened` |
| `build_mapping`, `build_select` | `BuildMapping`, `Select` |
| `validate_mapping`, `assert_read_only` | `MappingValid`, `AssertReadOnly` |
| `rows_to_payload` | `RowsToPayload` |
| `preview` | action `Preview`, with `PreviewErrors` |
| `connection_mapping`, saving | action `SaveMapping` |
| `sync_source` for one document, with `fetch_all` | action `Sync` |
| `DocumentListView.post` | action `Post` |
| `import_document` | `Import` |
| `revalidate`, with the payload it rebuilds | action `Revalidate` |

A value of a payload is a kind (missing, blank, text, number, decimal of the
database, date, too large, ...) with a number that tells two of a kind apart;
amounts are exact integers, in cents or in units of four decimals. A query is
what the code looks at in its text and what it makes the database do. A table of
a database has its columns, its keys and the words its name suggests; how well a
name of a column fits a field is given (`HeaderScore`, `LineScore`, in place of
the lists of synonyms), and so are the names of columns that point to a document
or tell when a row was made. What is suggested follows from them as in the code:
by foreign keys first, otherwise by scores. A form is what is suggested with one
of the `Edits` of an administrator. The types of document in the table
(`TypeValues`) stay the same between two openings of the form. The JSON editor of
a mapping is left out; what it can save is any mapping that `MappingValid` takes.

### Discovery, ConnectionConfig, Setup (`src/host_connector/{discovery,config,provisioning,permissions}.py`, `src/dashboard/{setup,connections,forms}.py`, `src/config/crypto.py`)

| Code | Definition |
|---|---|
| `windows_services`, `sqlserver_registry_instances`, `sqlserver_browser` | `FromServices`, `FromRegistry`, `FromBrowser` |
| `DiscoveryResult.add`, `DetectedServer.key` | `Add`, `Key` |
| `discover_local`, `discover_network` | `DiscoverLocal`, `DiscoverNetwork` |
| `local_networks`, `networks_for`, `validate_network` | `LocalNetworks`, `MaySearch` |
| `_connection_port` | `ConnectionPort` |
| `HostConnectionConfig.from_values`, `from_env`, `validate` | `ValuesRefused`, `EnvRefused`, `Incomplete` |
| `best_odbc_driver`, `sqlalchemy_url`, `HostDatabase._create_engine` | `BestDriver`, `UrlMade`, `EngineMade` |
| `DataSource.clean`, `DatabaseSourceForm` | `SourceErrors`, `Filled` |
| `encrypt`, `encrypt_temporary` and back | `Encrypt`, `Seal`, `Decrypts`, `Unseals` |
| `setup_start`, and going back to it | `SetupStart`, `Leave` |
| `setup_connect`, GET and POST, for a server of the list or a typed one | `OpenConnect`, `OpenTyped`, `SetupConnect` |
| `server_overview` | `Enters`, `Overview` |
| `test_connection`, `check_permissions`, `verify_read_only` | `Connects`, `CheckPermissions`, `Verified` |
| `setup_databases` | `UseExisting`, `ShowPlan`, `Expired` |
| `setup_provision` | `SetupProvision`, then `Execute` for each statement, `Refused`, `Finish` |
| `connection_form` | `SaveForm` |

A world is a network of machines with the servers installed on them, and what
of them can be seen; `Arrives` says where a connection ends up. The service of the default
instance of SQL Server shows no name (`classify_service`), the registry and the Browser
call it MSSQLSERVER; `Key` takes the two for one. Statements that
change no account (USE, CREATE USER, GRANT CONNECT) are folded into the others.
All tabs share the list of the session's last search, which any of them replaces
whenever it searches again; a page keeps what it showed and the number it will send.
`SaveForm` happens only while no tab has a
page of the wizard open, and the key changes only once a source has a secret:
neither meets the pages in any other way than through the rows. Entering a server
stands for either kind of authentication; what is left out is whether the
administrator may create users (his statements may be refused), the scores by
which databases are ordered, and the instance in the name of the host, which no
rule looks at. A right of an account is given on the server, a database or a table
of one, to the user himself or through a role; `Shows` is what the queries of
`diagnostic_queries.py:42-68` tell of it. SQL Server tells those on the server and
the database, by whatever way they come; PostgreSQL those on tables, given to
the user himself; MySQL those on the server and the database, given to the user
himself. `CheckPermissions` finds what is told, and the roles that are asked
about. A URL that is none makes `make_url` raise its own `ArgumentError`
(`src/host_connector/config.py:216`), which callers that expect
`HostConfigError` do not catch; both are "refused" here.

## 4. What is checked

Passing runs:

| Run | Instance | Shows |
|---|---|---|
| `contention` | one document, two workers, two threads, one death, both buttons | types; one sender at a time; answers and content together; attempts bounded; a document in SENDING is only settled by its sender; what was accepted is final; `AgtQueue` implements `Delivery`; the inductive invariant of section 6 |
| `served` | a document of a real and one of a simulated company, scheduler, one thread, network failures, one death | no queued document waits for ever; as long as nobody dies, automatic sending reaches every validated document |
| `unlock` | one document, two workers, two threads, two deaths, a careful operator who unlocks, nobody resends | one sender; what is queued is valid; what the AGT answered for is never altered; only the operator moves an interrupted document |
| `revalidate` | one worker, two threads that revalidate | although `revalidate` saves old verdicts over rows that were claimed or confirmed meanwhile, what the AGT answered for is never altered: the attempts, which it leaves alone, keep the row frozen |
| `cursor` | two documents, two synchronisations, a form, one death, a document that collides, corrections, unreadable contents | the cursor never passes a document that was not dealt with |
| `arrives` | two documents, batches of one, two mappings, scheduler and operator, one death | one synchronisation at a time; every document arrives |
| `documents` | eleven contents, two databases (a numeric key and foreign keys; neither) with tables of the server and unreadable ones, eight edits, nine payloads of the API, a day that passes | what may be sent adds up however the tolerances combine; lines cut off by the limit of rows are worth nothing; revalidation gives the verdict of the import; the assistant shows what it saved; only what was asked for is read; reading again is a duplicate; what a preview shows is what the import of the saved form finds |
| `api` | two sources of a company, two threads, three requests, three documents with one number, two of which share an id, and one that cannot be read, one change of code, errors before and after the commit | one row per document and per number; nobody sees another source's document; a row that is held stays as it was read; the invariant of section 6; `Registry` implements `Register`, so that a request takes effect once at most and is told the truth, where an answer 500 says nothing |
| `setup` | five worlds of three machines in two networks, two tabs that search as often as they like, a server that is typed in, a user from before whose right to write is told and one whose right is not, two plans, one connection, time beyond the lifetime of what is sealed, two keys | the servers the search has enough to find are in the list, and their entries lead to them; what was approved is executed; a connection that was saved opens; credentials go to the server that was shown, if it is of our machine or was typed in, and not for longer than promised; a new connection reads as a user of whom the server tells no right to write, and one that the wizard made has none |

Runs that refute what the code or its documentation says (each is a finding in
`PROJECT.json`):

| Run | Statement | What happens |
|---|---|---|
| `revalidate_race` | two processes never send the same document (`src/agt/queue.py:8`) | `revalidate` moves a document from SENDING to VALIDATED |
| `conflict_race` | a post can be repeated safely (`src/docs/api.md:68`) | the second of two identical posts finds the number taken by the first, of its own document |
| `repeated_lines` | a document with errors of business is kept (`src/docs/api.md:73`) | repeated line numbers break a constraint before the error can be kept |

Further configurations state what the code or its documentation suggests, and
TLC refutes them:

| Configuration | Statement | What happens |
|---|---|---|
| `MCAgtQueue_timeout_altered` | `MayHaveLeftIsFrozen`: "ja saiu (ou pode ter saido) para a AGT" (`src/invoices/models.py:109`) | a timeout takes the attempt back (`src/agt/queue.py:129`), and the document counts as new; it needs a client that gives the outcome NETWORK, as the real one will |
| `MCAgtQueue_auto_lost` | `ValidatedIsQueued`: automatic sending (`src/agt/models.py:70`) | a death between the commit and the queueing (`src/invoices/services.py:87`); nothing looks for the document later |
| `MCSourceSync_remapped` | `NothingSkipped`: no document is skipped in silence (`src/docs/origens.md:77`) | a new mapping keeps the cursor of the old one (`src/dashboard/connections.py:306`) |
| `MCSourceSync_form_unlocks` | `OneSyncAtATime` (`src/docs/origens.md:80`) | the form of the connection puts the free lock back (`src/dashboard/connections.py:84`) |
| `MCSourceSync_corrected` | `CorrectionArrives`: a correction is read (`src/docs/origens.md:76`) | the cursor has passed the document (`src/sources/sync.py:131`) |
| `MCSetup_list_replaced` | `CredentialsGoWhereAuthorised`: "Autorizo o Gateway a entrar neste servidor" (`src/dashboard/templates/dashboard/setup/connect.html:30`) | a page shows a server of the network; another tab searches another network; the page's number is now that of another server, which gets the administrator's password (`src/dashboard/setup.py:146`), and lets him in or not |
| `MCSetup_unseen_rights` | `NewSourcesWriteNothing`: "confirma que não consegue escrever" (`src/host_connector/provisioning.py:10`) | a user from before may insert into a table of SQL Server; the verification asks for the rights on the database (`src/host_connector/diagnostic_queries.py:49`) |

The preconditions of the passing runs are needed. Changing one constant makes TLC
refute the property:

| Configuration | Change | Refuted | What happens |
|---|---|---|---|
| `MCOperatorQueue_unlock` | `Buttons = {"enviar", "reenviar"}` | `QueuedIsValid` | two operators press "reenviar"; between the two updates the source replaced the document by an invalid one that is in ERROR like the old one |
| | the same | `CommunicatedNeverAltered` | "reenviar" resets the attempts, and a rejected document without request number counts as new |
| `MCOperatorQueue_revalidate` | check `QueuedIsValid` | `QueuedIsValid` | `revalidate` saves the verdict on the old data over the new data |
| `MCSourceSync_cursor` | `Position <- Tied`, `BatchSize = 1` | `NothingSkipped` | a batch ends between two documents with the same cursor value; the second is never asked for |
| | `InOrder = FALSE` | `NothingSkipped` | a document becomes visible after a later one was read |
| `MCSourceSync_arrives` | `SlowSyncs = TRUE` | `OneSyncAtATime` | a synchronisation outlives its lock, and at its end frees the lock of the next |
| `MCRegistry_api` | check `CodeIdentifiesDocuments` | `CodeIdentifiesDocuments` | the code changes while a request with the old one imports the first document |
| | `Renames = 2` | `OnlyOwnDocumentsShown` | besides, another source takes the old code: the document of the first is now found for the second |

`conflict_race` shows a wrong answer, not a wrong register: the second post is
declined, which `Register` allows for any submission.

### Bounds, and why they are enough

- One row is the unit of all races of the queue: workers and threads interact
  only through a row, except for `Recover` and the end of a pass after a network
  failure, for which `served` has two documents.
- Two workers and two threads: every race found or excluded is between two
  copies of the same row. Three of a kind add nothing that the proofs, which hold
  for any number, do not cover.
- Two attempts (`MaxAttempts`): first, last and "exhausted" are different.
- Two contents, one valid and one not; three in `SourceSync`, with the mixture.
- `MaxCrashes` bounds deaths: 1 or 2, so that a death can hit the process that
  cleans up after another.
- `attempts` is bounded by the code (`AttemptsWithinLimit`), cursors by
  `LastPosition`. Nothing else counts up.
- `BatchSize` 1 (`arrives`) puts a boundary between any two documents; 2
  (`cursor`) has two rows in a batch, the second of which grows old.
- Two requests at work meet each other at every statement; a third one served
  later sees what they left. Two sources of one company share its fiscal numbers.
- Two lines and a limit of two rows (`documents`): the third line of a document
  is cut off. The contents have every tolerance at its limit on either side, and
  beyond it; sums of two lines show whether tolerances add up.
- Three machines (`setup`), one of them the Gateway's, in two networks that may be
  searched and one that may not, so that one search replaces what another found by a
  longer, a shorter or a different list. They have the servers that are hard to tell
  apart: a default and a named instance, a named one on the usual port, two engines of
  one family, of which one is lost. The fifth world has a default instance whose entry
  gets another's port, and no driver of SQL Server that would do. Searches are not
  bounded. Two tabs have two plans for one account. One connection: none of the
  properties relates two of them, and what a saved one does to the wizard, dropping
  the session's list, a search undoes.
- A preview reads two lines (`PreviewLines`, 200 in the code), the import two
  (`MaxRows`, 1000): `PreviewTells` is about documents that both read whole.
- Workers, threads, syncers and tabs are interchangeable where no liveness is
  checked; there symmetry is used.

Deadlock is checked in all runs but `setup`, where the bounds on plans,
sources, edits and time may bring everything to an end.

### Fairness

Liveness runs assume only what the program gives:

- a pass, a request or a synchronisation that has begun goes on (weak fairness of
  the steps of each process); a process that dies is not in the middle of
  anything;
- the scheduler begins again: `run_gateway.py:62-77` runs both jobs at their
  intervals, for ever, and survives their exceptions. Weak fairness of `StartPass`
  and `Load` for `Periodic` processes only. Nobody has to press a button or run a
  command;
- instants come (`TimePasses`, `LeaseExpires`).

The network, the companies, the other database and the corrections of what cannot
be read are premises of the properties, not fairness. A death of the scheduler is a
restart: the process begins again with nothing in memory.

## 5. Mutants

Some definitions marked "Slip" state a plausible mistake in the definition that
follows them (a missing condition, one attempt too many, a status that is no
longer looked at). Nothing uses them; `PROJECT.json` lists, for each property,
one that TLC must find to violate it.

## 6. What is proved

### The queue

`AgtQueueProofs` is checked by `tlapm` for any sets of documents, companies,
workers and threads, any `Limit`, any `MaxAttempts` of at least 1 and any number
of deaths; it uses the assumptions of `Invoices` (`VersionsAssumption`,
`MaxAttemptsAssumption`) and of `AgtQueue` (`QueueAssumption`).

The safety properties are not inductive one by one. `IInv` is their conjunction
with what processes in the middle of something rely on:

- `TypeOK`;
- `HandsInv`: between claim and save the row stays in SENDING and equal to the
  worker's copy, and a final answer was given for that very copy. This is what
  makes the unconditional `save()` of `_send` harmless, and it is what `revalidate`
  breaks in `OperatorQueue`;
- `OneSender`: otherwise the save of one worker would break the copy of another;
- `SettledAsAnswered`, `AttemptsWithinLimit`;
- `FreshInv`: a VALIDATED document has spent no attempt, so that queueing it
  leaves the attempts below the limit;
- `ThreadsInv`: a thread that will queue its document saw it in a status from
  which it may be queued, so that its conditional update never touches a row in
  SENDING.

`RowsOfOthers` is the lemma behind most steps: a step that leaves workers and AGT
alone and neither touches a row in SENDING nor settles one disturbs nothing a
worker relies on. Each action has a lemma of its own (`ClaimStep`, `SaveStep`,
...); `NextSafeInv` and `LimitStep` put them together.

| Theorem | States |
|---|---|
| `Invariant` | `Spec => []IInv` |
| `TypeCorrect`, `NeverTwoSenders`, `AnswersMatchContents` | `TypeOK`, `OneSender`, `SettledAsAnswered` |
| `AttemptsBounded` | `AttemptsWithinLimit`: the count of attempts never exceeds `MaxAttempts`. A network failure gives its attempt back (`src/agt/queue.py:129`), so this does not bound how often a document is sent |
| `OnlyTheSender`, `AcceptedForGood` | the action properties `OnlyTheSenderSettles`, `AcceptedIsFinal` |
| `Implements` | `Spec => D!DeliverySpec`: each step is one of a few kinds (`StepKind`), and each kind is a step of `Delivery` or leaves status and senders alone |
| `FirstSendIsValid` | where "reenviar" is not in use, `QueuedIsValid`. The premise is needed: see section 4 |

### The register

`RegistryProofs` holds for any sources, companies, codes, threads and payloads,
any number of requests and of changes of code; it uses `RegistryAssumption`.
`RegisterInv` is inductive:

- `TypeOK`;
- `OneRowPerDocument`: what `Lookup` found is the only row of the document, so
  that a request holds one at most (`OneHeld`), and `Save` writes over one;
- `HeldStaysAsRead`: what was read before two more statements is still there and
  has not been sent;
- `HeldIsOwn`: what a request holds is its own document, with a content other than
  the one it brings, and no two requests hold the same row. Without it, the save
  of one request could take away what another one holds.

Each statement has a lemma (`LookupStep`, `CheckNumberStep`, `SaveStep`, ...), and
each has one that says which step of `Register` it is or that it is none
(`SaveImplements`, `ImportImplements`, `RequestImplements`). The save is the
interesting one, where a submission takes effect: the constraints and the lock
together make up for the time that went by since the row was looked for. What
comes after it, the answer, a failure or the end of the thread, tells or does not
tell what it did, and changes nothing.

| Theorem | States |
|---|---|
| `Invariant` | `Spec => []RegisterInv` |
| `TypeCorrect`, `OneRow`, `HeldStays` | `TypeOK`, `OneRowPerDocument`, `HeldStaysAsRead` |
| `Implements` | `Spec => RegisterSpec`: the requests implement the atomic register, which lets a submission that took effect be answered 500 |

`OnlyOwnDocumentsShown` has two theorems. What it needs is that no two sources of
a company bear the same code, where a source bears its code, the code of any
document it has and the code that any request of it at work went in with (`Bears`,
`CodesApart`). `Rename` looks at the present codes only, so this is not inductive:
a code that was given up is free, although a request may go on under it.
`CodesAreNotTakenOver` is the statement, about behaviours, that no change of code
does that. It is a premise; what it excludes is exactly the counterexample of
section 4 (`Renames = 2`). `OnlyOwnDocuments` has no such premise and holds for one
change of code, as in the run: the first change cannot take a code that is in use,
and nothing else was ever borne (`FirstCodes`).

| Theorem | States |
|---|---|
| `OnlyOwnUnlessTakenOver` | `Spec /\ CodesAreNotTakenOver => []OnlyOwnDocumentsShown`, for any number of changes of code |
| `OnlyOwnDocuments` | for `Renames` at most 1, `Spec => []OnlyOwnDocumentsShown` |

### Operators

`OperatorQueueProofs` is about the same queue with "revalidar" and "desbloquear".
Two inductive invariants carry it.

With a careful operator and no revalidation, the invariant of the queue but for the
bound on attempts still holds. That is why `IInv` is made of `SafeInv` and
`AttemptsWithinLimit`: unlocking a document that was at its last attempt adds one
beyond the limit, and the rest does not care. Each action of `AgtQueue` keeps
`SafeInv` by its lemma in `AgtQueueProofs`; only unlocking is new.

Without these premises two workers can have the same document, and `HandsInv` fails.
`ContentInv` is what remains: the attempts that a worker counted are still in the
row and its contents are those of the worker's copy, whatever the status has become
(`LooseHands`); a document for which the AGT answered has an attempt left that no
timeout takes back (`AnsweredCounted`). So `was_communicated` is true of it, and
the import refuses to replace it. It needs `OneSender`, which is given in three ways:
as a premise about the behaviour, by there being one worker, or by the careful
operator.

| Theorem | Where | States |
|---|---|---|
| `OperatorTypeCorrect` | always | `OperatorTypeOK` |
| `OnlyOperatorMovesInterrupted` | nobody revalidates | `InterruptedWaitsForOperator` |
| `UnlockingKeepsOneSender`, `UnlockingKeepsAnswers` | careful operator, nobody revalidates | `OneSender`, `SettledAsAnswered` |
| `UnlockingKeepsQueueValid` | and nobody resends | `QueuedIsValid` |
| `CommunicatedUnlessTwoSenders` | nobody resends | `OperatorSpec /\ []OneSender => CommunicatedNeverAltered` |
| `RevalidatingAltersNothingCommunicated` | and there is one worker | `CommunicatedNeverAltered` |
| `UnlockingAltersNothingCommunicated` | and the operator is careful, nobody revalidates | `CommunicatedNeverAltered` |

Section 4 has what happens without the premises: `revalidate_race` for the
revalidation, the "reenviar" of two operators for the last three.

### The synchronisation

`SourceSyncProofs` holds for any sets of documents, mappings, synchronisations and
forms, any batch size and any number of deaths.

`NothingSkipped` says that every document up to the cursor was dealt with. Copies of
the cursor are everywhere: in the row of the source, in what each synchronisation has
loaded, in the row that each open form will save. `CursorInv` says of each that it is
safe (`SafeCursors`): it is 0 or the place of a document, and all up to it were dealt
with. That no copy is stale does not follow and is not needed: an old copy that is
saved over a newer cursor makes the source read again what was read. Between the
query and the write, what is still to be read has no gap (`NoGap`): whatever is
before a row that is left was dealt with or is left too; and the row in hand is the
first of them (`InHand`).

The premise is `SoundColumn`: all mappings keep the same cursor column, no two
documents have the same place, and documents become visible in the order of their
places. Each part is needed; section 4 has the counterexample of each
(`MCSourceSync_remapped`, `Tied`, `InOrder = FALSE`). Nothing is assumed of leases:
overlapping synchronisations may repeat work and never skip any.

`OneSyncAtATime` is inductive with "who is between lock and release holds a lock
whose lease has not ended" (`LockInv`). Its premises, that a synchronisation ends
within its lease and that nobody saves the connection's form, are those without which
`MCSourceSync_arrives` and `MCSourceSync_form_unlocks` refute it.

| Theorem | Where | States |
|---|---|---|
| `TypeCorrect` | always | `TypeOK` |
| `NothingSkippedHolds` | `SoundColumn` | `NothingSkipped` |
| `OneSyncAtATimeHolds` | `~SlowSyncs`, no `Editors` | `OneSyncAtATime` |

### The wizard

`SetupProofs` holds for any networks, tabs, plans, forms, accounts and times.
`PagesInv` says of every tab what its page relies on: what is sealed was typed
when it was sealed the first time (`SealedWhenTyped`); the plan that is made again from
what is sealed is the plan that is shown (`ShownIsSealed`); what is executed was approved
(`Executing`).

`CredentialsGoHome` is about the list under an open page (`ShownInv`). The page shows the
server it was opened for, and sends its number. What is found on our machine comes first
in the list of every search, with or without a network, and is found the same each time
as long as the machine stays as it is; so a list that is not empty has at that number the
server the page shows, if it is of our machine (`ShownIsHere`), and no entry of the network is called `localhost`
(`OthersElsewhere`). The statement says nothing of how the login ends: a server that
refuses the password has got it too. Of an entry of the network it does not hold:
`MCSetup_list_replaced`, section 4.

`UsersInv` adds what the accounts may do and what the statements that are done have
achieved (`DoneInv`). Two tabs may execute the statements of one account at once, any of
which may be refused; since no statement takes away the reading right, the one that
finishes finds it. An account that the wizard created has no other rights, and of one
that was there before the verification has seen all that the server tells of it. What
it does not tell is not claimed: `MCSetup_unseen_rights`, section 4.

`SavedOnesOpen` goes back to `SourceErrors(src) = {}`: every row that is written passed
`full_clean` (the wizard's by `CreateSource`, the form's by `SaveForm`), and a row that
passes names what its engine needs. `FormsChoose` is that the engine of a form is one of
the choices of its field. Writing this down showed that a row that the wizard makes must
pass `full_clean` too (`src/dashboard/setup.py:81`), a guard that `CreateSource` has now.

| Theorem | Where | States |
|---|---|---|
| `OnlyApprovedIsExecuted` | always | `ApprovedIsExecuted` |
| `CredentialsGoHome` | `MachinesToldApart` | `CredentialsGoWhereShown` |
| `AdministratorIsForgotten` | always | `AdministratorExpires` |
| `NewUsersOnlyRead` | always | `NewSourcesOnlyRead` |
| `SavedOnesOpen` | `FormsChoose` | `SavedConnectionsOpen` |
| `EntriesNameTheirInstance` | `MachinesToldApart` | `EntriesLeadHome` |
| `FindingLosesNothing` | `MachinesToldApart` | `NothingFoundIsLost` |

The last two are about `Search`, and `ListInv` carries what it finds to the session: the
list is one of sound entries that begins with what was found here, or empty.

- `SoundEntries`: an entry that bears the name of the default instance was told by the
  registry or the Browser, so its TCP and its port are that instance's own. It is what
  `EntriesLeadHome` needs, since a connection to the default instance goes by its port; a
  named instance is found by its name. Merging two entries, noting an open port and the
  scan of the network keep it (`SoundMerge`, `SoundPorts`, `SoundTold`, `SoundThere`).
- For `NothingFoundIsLost`, what is found is followed probe by probe: each either brings an
  entry that leads to the server or completes one, and what comes later keeps it
  (`AddAllKeepsSome`, `AddAllBrings`, `PortsKeepSome`, `PortsBring`). Which entries these
  are differs for other engines, named instances, and the default one on 1433 or
  elsewhere (`OtherFound`, `NamedFound`, `DefaultOn1433Found`, `DefaultElsewhereFound`).
- The list is made by folding, and what a fold does is proved from its definition: the
  values it takes on the subsets of the places are one function, so that induction over a
  set of subsets says what holds of the last (`FoldKept`, `FoldGives` in `SumProofs`).

`MachinesToldApart` is what SQL Server and Windows see to: instances have names, one is the
default one, and no other listens on its port. The last is true of what runs; of a default
instance that is stopped it is an assumption, because the entry for it leads to whoever has
its port now. The instances of the run `setup` meet it, which MCSetup assumes.

What `NothingFoundIsLost` claims is as much as the code keeps (`GivenAway`): a server that
listens on the usual port of its family, and an instance of SQL Server that the Browser
announces. Two kinds of server are outside it, and are lost:

- A service on an unusual port. `discover_local` puts every service but those of SQL Server
  down at the usual port of its family (`src/host_connector/discovery.py:202-204`), where it
  is merged with what else is there. World `W3` has one, a MySQL on 3307 beside a MariaDB.
- A default instance elsewhere than on 1433, where the registry cannot be read. The services
  name it without its port, so the open port 1433 is noted at its entry
  (`src/host_connector/discovery.py:217`) even if another server listens there, and the
  port the Browser announces later does not replace it. World `W5` has one; in `W4` the
  registry tells its port first, and it is found.

### The assistant

`DocumentsProofs` holds for any databases, contents, forms, payloads and days, whatever
the suggestion was. `MappingInv`: a source has at most one mapping, which was made of a
form that passed, and is valid. `InvoiceInv`: a row that came by a mapping is what was
read by that mapping from a row its query selects; revalidation and sending leave that
alone.

`ReopenKeepsMapping` needs a premise that the proof brought to light. Of the place to
start from, `initial_from_mapping` looks at the text only, and shows nothing for the
default of *any* kind of cursor (`src/dashboard/forms.py:210`): a cursor of text that
starts after "0" is shown empty, and the next save starts it from the beginning.
`StartsAreShown` excludes that and nothing else; numbers and dates need no premise. No
edit of the run `documents` is of this kind.

### The document

The other five properties of `Documents` are about what is in a document. `KeptInv` says
of every row that its document is one that can be stored and read again without loss
(`SoundDoc`: texts are of their length, amounts within their digits, numbers of lines
from 1), that no number of a line comes twice, that its errors are those of its document
on the day of its import or of its last validation, and that it has none where it may be
sent. `SourceInv` adds that the other system holds one of its contents and that the saved
mapping names columns that exist; `ShownInv` that a preview shows what one reading of that
content comes to today.

- `WhatIsSentAddsUp`: the rules allow a cent per line and per sum, half-up rounding
  allows half a cent per line more; summed over any number of lines this gives the bounds
  of `SentAddsUp`. `SumProofs` has what sums need: the sum of the community modules does
  not depend on the order in which CHOOSE takes the elements, it is linear, and bounds
  add up. Its inductions are over the set of subsets that have the property, which a
  theorem without operator parameters can cite (`SubsetInduction`).
- `RevalidationFindsTheSame`: conversion is undone by the reading of what was stored, text
  by text and amount by amount, and the lines put in order by their number have the same
  sums.
- `UnchangedIsDuplicate`: in the order of a column in which no two rows have the same value
  there is one list of the rows (`AscendingIsOne`), so that what `fetch_all` cuts off is
  the same each time.
- `PreviewsTell`: a preview may get the lines in another order than the import when no
  column orders them. The two documents then differ in their lines, and still have errors
  both or neither: each line is refused or breaks rules by itself, sums are the same in any
  order, and the numbers of the lines, given or counted, do not follow the rows
  (`ReorderedIsFine`).

The premises are about the values of constants, and MCDocuments assumes them of the
instances that TLC checks. `ValuesAreWhole`: the other system's numbers are whole numbers
of units and forms give every field a value. `LinesAreNumbered`, which the proofs brought
to light: with a column for the number of the line, no two lines of a document have the
same number and at most one has none. Where that fails, the order among equals is the
database's, and so are the fingerprint and the lines that are cut off: the same document
read twice may be a change. `DocumentsAssumption` now says that a preview reads no more
lines than an import (200 and 1000, `src/sources/assistant.py:127` and
`src/host_connector/connection.py:29`); otherwise a preview could promise what the import
cuts off.

| Theorem | Where | States |
|---|---|---|
| `ReopeningChangesNothing` | `StartsAreShown` | `ReopenKeepsMapping` |
| `OnlyWhatWasAskedIsKept` | always | `OnlyWhatWasAsked` |
| `WhatIsSentAddsUp` | `ValuesAreWhole` | `SentAddsUp` |
| `LinesCutAreWorthless` | `ValuesAreWhole` | `CutLinesAreWorthless` |
| `RevalidationFindsTheSame` | `ValuesAreWhole` | `RevalidationAgrees` |
| `UnchangedIsDuplicate` | `ValuesAreWhole`, `LinesAreNumbered` | `ReadingAgainIsQuiet` |
| `PreviewsTell` | `ValuesAreWhole`, `LinesAreNumbered` | `PreviewTells` |

### How the invariants were found

Before an inductive invariant is proved it is an invariant of a TLC run, on the
instance of the run that checks the property: `IInv` on `contention` (where it still is
one), `RegisterInv`, `OwnerInv` and `RenameInv` on `api` (554 thousand states, and
`OwnerInv` with two changes of code that take over none, 1.4 million), `CursorInv` on
`cursor` (1.4 million), `LockInv` on `arrives` (175 thousand), `ContentInv` on `unlock`
(107 thousand) and with a careless operator who revalidates too (3.6 million), `UsersInv`,
`SourcesInv` and, with `ListInv`, `ShownInv` of the wizard on `setup` (943 thousand),
`MappingInv`, `SourceInv`, `KeptInv` and `ShownInv` of the documents on `documents` (29
thousand). `InvoiceInv` quantifies over all rows, and has no run.

### Only model-checked

Liveness (`QueuedIsServed`, `ValidatedIsQueuedUndisturbed`, `EveryDocumentArrives`), which
is out of the prover's reach.

## 7. What is not modelled

- Text, formats and cryptography: `jws`, `keys`, the algorithms of `crypto`,
  `build_payload`, masking, the parsing of what commands and services print. They
  are functions of bytes without state.
- The text of the catalogue queries, sampling, inspection and diagnostics of each
  database system, and the reports made of them; the scores of databases
  (`_score_database`): input and output.
- The JSON editor of mappings.
- Pages that only show something, roles that only guard pages, throttling, the
  audit log: nothing that is decided depends on them.
- Which candidates a pass of the queue takes first, when more are due than its
  limit (any choice, in `AgtQueue`); a synchronisation that never ends, and keeps
  the scheduler from the queue (`AgtQueue` assumes that it ends).
- The password of a read-only user that a second database of the same server sets
  anew, under a connection that goes on using the old one: it follows from the
  statements of the plan, and nothing in the repository says otherwise.
- The real AGT client, which waits for its official specification.
- Installation scripts, migrations, declarative administration, templates, tests.

`PROJECT.json` gives the reason for each component and for each hazard that no
property covers.
