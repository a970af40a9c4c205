# Verification of the UBIRCH COSE client

TLA+ models of the service in `src/main`, the TLC configurations that check
them, and proofs about all components checked by TLAPS. Line numbers refer to
the files of `src/main`.

## The system

The service keeps a table of identities (uid, encrypted private key, public
key, token) in PostgreSQL. It creates identities on request and signs hashes
with their keys, as `COSE_Sign1` objects that name by their `kid` the X.509
certificate of the key.

| component | state | operations | partners |
|---|---|---|---|
| Registration (`identity_handler.go`) | none of its own | `initIdentity`: generate a key, begin, INSERT, register the key, start the CSR goroutine, COMMIT | HTTP clients through the external `IdentityCreator`, table, key service, identity service |
| Database manager (`database.go`, `context_manager.go`) | table, transactions, connection pool | begin, insert, commit, lookups by uid and by key | PostgreSQL through `database/sql` |
| Protocol (`protocol.go`) | `identityCache`, `uidCache`, `skidStore`, fail counter | lookups with cache, retries, `GetSKID` | all handlers, the loader |
| Loader (`protocol.go:284`, `extended_client.go`) | the load in progress | on every tick: request list, request its key, match, install | certificate server, table |
| Signing (`services.go`, `cose_signer.go`) | none of its own | authenticate, payload and hash, SKID, sign | HTTP clients, Protocol |
| Migration (`migrator.go`) | one transaction | copy identities from files to the table | table, a service that may run |
| Configuration (`config.go`) | settings | parse, defaults, checks | everybody, at the start |
| File key stores (`file_manager.go`, `legacy_file_manager.go`) | a JSON file and its backup | load, port the older format, set a key and persist | migration |
| Start and shutdown (`main.go`) | server, routes, cancelled context | set up in order while the server serves, wait for a signal, close the database | everybody |

The components share memory (the caches under `sync.Map`, the lookup under a
mutex), the table and the pool. Every request is a goroutine; the loader is
one; every CSR is one.

What is hard, and what makes each component right:

* Registration does four things that are not atomic: row, registration at the
  key service, CSR, commit. Requests for one uid race, answers get lost, the
  process dies in between. Right is: one key per uid for ever, registered
  before it is visible, a reported success durable, nothing leaked.
* The caches are filled in steps with no lock around them. Right is: a cached
  identity is the committed one.
* The loader works with a table and a list that change, and with calls that
  fail one by one. Right is: an identity has the kid of the newest usable
  certificate of one list (the last one in the order of the list, which is all
  that `protocol.go:343` looks at), keeps it across failing lookups, loses it
  when loading fails too often, and gets it back.
* Signing reads the key at its start and the kid at its end. Right is: they
  belong together. It accepts five forms of the same thing. Right is: they
  sign the same hash.
* The migration is one transaction that uses a second connection, fed from
  files. Its commit may be in doubt when it reports an error. Right is: all or
  nothing, then or later, nothing taken from the service, only key pairs that
  were stored, and an end.
* The key file is replaced in three steps that can each fail or be the last.
  Right is: after one interruption a complete copy is left, and a migration finds
  all keys that earlier writes stored or none, never a part.
* The server serves while `main` is still setting the service up, and goes on
  after the signal until its requests are answered. Right is: ready means
  ready, no request without a database, and an end to every start and stop.

`PROJECT.json` lists the hazards at their lines.

## Modules

| module | what it is |
|---|---|
| `Context` | identity table, transactions, pool, identity cache: the state the others share, without a next-state relation of its own |
| `Registration` | PUT requests, EXTENDS `Context`; specifications `RegSpec` and `FairRegSpec` |
| `IdentityContract` | what registration promises, in three actions; `Registration` instantiates it with a refinement mapping |
| `RegistrationProofs` | theorems and proofs about `Registration` |
| `SkidLoader` | the loader, EXTENDS `Context`; registrations are single steps here |
| `SkidLoaderProofs` | theorems and proofs about `SkidLoader` |
| `CoseRequest` | pure operators: payload and hash of a signing request |
| `Signing` | signing requests next to the loader, EXTENDS `SkidLoader`, `CoseRequest` |
| `SigningProofs` | lemmas about `Signing`, whatever keeps the table, the lookup and the cache in order |
| `CoseClient` | `Registration` and `Signing` in one process: the whole service |
| `SignerContract` | what the whole service promises, EXTENDS `IdentityContract`; `CoseClient` instantiates it with a refinement mapping |
| `ContractProofs` | what the two contracts mean, proved of them alone |
| `CoseClientProofs` | theorems and proofs about `CoseClient`, from those about registration, the lemmas of the loader and of signing, and `ContractProofs` |
| `Config` | pure operators: whether a configuration is accepted, the lists of identities it yields |
| `KeyFile` | the key file, its backup and the two managers that write it |
| `Migration` | the migration in a process of its own, next to a service, EXTENDS `Config` and `KeyFile` |
| `Lifecycle` | `main` from its start to its end, the server, signals, CSR goroutines, EXTENDS `Config` |
| `KeyFileProofs`, `MigrationProofs`, `LifecycleProofs` | theorems and proofs about the three |
| `MC*` | values of the constants for TLC |

### How the models correspond to the code

*Keys.* Every attempt to register generates a key of its own
(`identity_handler.go:76`), so a key names the attempt and its transaction, and
a row of the table is the key it stores. Key generation never returns a key
twice; encryption and encodings of keys are injective operations that may fail,
and the failure is one of the fault actions.

*Transactions.* `tx[k].state` has the states in which `database/sql` and the
server can leave a transaction. `open` becomes `cancelled` by the deferred
`cancel()` (line 94), `committing` by `Commit`. `Commit` may return an error
although the server commits (`indoubt`), and a crash leaves transactions to
the server (`orphaned`, `indoubt`). An INSERT waits while an unfinished
transaction has inserted the same primary key and fails once the row is there.
A commit can fail (the isolation level is serializable). `GetIdentity` does not
run in the transaction (`database.go:156` uses `dm.db`); it takes a connection
of the pool, and so it is blocked while the pool has none.

*Requests.* `reg[h].pc` is the call a request waits in. `Exists` is split at
the accesses to shared state: cache, row, cache again. Each error return is an
action (`StoreRefused`, `DatabaseFault`, `RegistrationFails`, `CommitRefused`,
`CommitUnanswered`) and contains the deferred cancel. `KeyServiceAccepts`
and `RegistrationFails` at `KeyRegistered` are the two halves of a call whose
answer is lost. Whether a failed attempt to connect is repeated depends on the
text of a driver error (`database.go:184`), so `ConnectionNotAvailable` and
`DatabaseFault` are both possible. `reg[h].tries` counts the failed calls that
are repeated, which are fewer than `MaxDbConnAttempts` (`protocol.go:109`).

*Loader.* `ld.pc` is the call the loader waits in; matching handles one
certificate in each step because the table changes meanwhile. The comparison
with `!=` (`protocol.go:296`) is kept; values of the counter above the maximum
are one value, because no code tells them apart. A load that fails for the last
time clears the lookup in the same step: the list is empty, so nothing else
happens in between. `RequestFails` and `ListRefused` share the counting; the
list and the key that signed it come from two requests. `installed` is a
history variable.

*Signing.* `sig[s].pc` is the part of `handleRequest` that comes next; a request
whose UUID does not parse is answered at once (`InvalidUuid`). Bytes are terms,
such as `Sha256(SigStruct(ProtectedHeader, Cbor(d)))`, and a COSE object is a
record of them; `Verifies` is what a recipient does with it. Of a hash request
the code checks nothing but the length of what it decodes: digests and
`Arbitrary32` have the right one (`HashLen`), all else has another. A body that
breaks off while it is read is `Unreadable`. `answer` is a
history variable and is reset by the next request.

*Configuration.* A record says which options are given, whether the pool
parameters are numbers, what the file with the pinned certificates is worth,
and what `identities.json` and the map `tokens` hold, if the file can be opened
and decoded at all. The map is read in any order, hence `IdentityLists` is a
set.

*Key file.* A file is missing, cannot be decoded (`Torn`: it was truncated and
not written to its end), or holds a store in the present or in the older
format. `mgr.pc` is the part of `persistFile` that comes next; in each part an
error can be returned, and the process can die. Three history variables: `kept`
are the entries whose key a completed write stored, `faults` counts the
interruptions since (a failed backup, and an end or an error between rename and
write or during the write; two of them are never forgiven, because the next
write may begin from less than was stored), and `exposed` says that a process
began to write although it had not loaded all kept keys, see *Findings*. All
keys are one value: a pair that is older than the last one stored, or made of
two halves that do not match, is not told from the right one. The program itself
only reads the file, with `FileManager` in a migration (`migrator.go:42`):
`SetPrivateKey`, `SetPublicKey` and `NewLegacyFileManager` have no caller in
`main`. The writes are those of the processes whose files it reads, so the
properties say what `FileManager` finds (`FoundBy("file")`).

*Migration.* The key file is written by earlier processes, then read by the
migration; both never run at once, and after a success the file is not used any
more. The pool limit comes with the configuration of each process
(`maxOpenConns`). The error of `tx.Commit`, or a death while it waits, leaves
two cases: the transaction is rolled back (`Abort`), or the server has the
COMMIT and nobody waits for it (`CommitUnanswered`). Such transactions are in
`doubtful` and commit or roll back later; until then an INSERT of one of their
uids waits (`InDoubt`), by another migration or by the service. The service
commits rows in single steps.

*Lifecycle.* `Script` is what `main` does from the start of the server on. A
process that ends takes all its goroutines with it (`Vanish`), whether `main`
returns, `log.Fatal` is called or a signal kills it. `Serve` is a library: it
calls `serverReady` whether or not it can listen, and returns after the
requests it accepted are answered. A request is a slot; a registration starts
its CSR goroutine half way.

*Bounds.* `Keys` bounds the number of registration attempts: a request is taken
only while there is a key left (`KeyBudget`). `MaxCsrJobs` bounds the CSR
goroutines of `Lifecycle`. All else is bounded by the code.

## Runs

| run | specification and bounds | what it shows |
|---|---|---|
| `registration` | `RegSpec`; 2 uids, 3 keys, 2 requests, pool of 2, 2 attempts to connect; symmetry | type invariant, `CommittedKeyIsRegistered`, `GrantedIsDurable`, `CacheMirrorsTable`, `NoLeakedTransaction`, `NoCircularWait`, `RegConsistent`, and `IdentityContract` is implemented (`ImplementsContract`) |
| `registration_live` | `FairRegSpec`; 1 uid, 3 keys, 2 requests, pool of 1 | every request is answered, every transaction ends |
| `loader` | `SkidSpec`; 2 uids, 2 keys, 6 certificates, 8 lists, maximum of 2 failures | `StoreIsNewestMatch`, `StoreEmptyAfterMaxFailures`, `ReloadKeepsMatched` |
| `loader_live` | `FairSkidSpec`; 5 lists | `NewestCertPickedUp` |
| `loader_hang` | `UnansweredSkidSpec` | finding: `CertsCheckedFrequently` is violated |
| `signing` | `ServingSpec`; one document of each kind, all 400 combinations of endpoint, content type, encoding and body | `SignedAsAsked` |
| `hash_payload`, `json` | as `signing` | findings: each violates what the README of the service says |
| `client` | `ClientSpec`; 1 uid, 2 keys, 2 requests, 2 certificates, pool of 2, 1 attempt to connect, 1 signing slot, a data and a hash request | `CoseVerifiable` in the whole service, `SignerContract` is implemented (`ImplementsSigner`), and so is the loader's specification (`ImplementsLoader`) |
| `migration` | `MigSpec`; 2 uids with 4 entries of the key file, 3 older stores, 7 configurations, pools of 1, of 2 and without a limit | `OneFaultStillLoads`, `OneFaultKeepsKeys`, `MigratedWithStoredKeys`, `DoneMeansMigrated`, `AllOrNothing`, `MigrationEnds` |
| `lifecycle` | `LifeSpec`; 5 configurations, 2 requests, 2 CSR goroutines | `ReadyMeansServing`, `ServedWithDatabase`, `StartEnds`, `StopsAfterSignal` |
| `lifecycle_jobs` | as `lifecycle` | finding: `AsynchronousOperationsAwaited` is violated |

*Why the bounds are enough.* Two requests and three keys give every pair of
attempts on one uid, a third attempt against a transaction left in doubt, and
attempts on another uid that compete for the pool; the theorems below cover the
rest. A maximum of two failures has a failure below, at and above the maximum.
The lists have a renewal before and after the older certificate, a bad kid
behind a good one, unreadable certificates, and two identities. Two keys
for one uid in `client` give the case that a certificate belongs to a key that
was rolled back. The key files of the migration go through any sequence of
completed and interrupted writes (the number of neither is bounded) of two key
pairs, one of which may be empty in an older file; an identity of the lists is
missing from the file or misses half of its pair, is listed twice, has the
token of another one, or is alone, and a list cannot be decoded. A migration
that is left in doubt is followed by others with the same or another list. Two
requests let one be in flight while the other one is told that the service is
ready. The configurations of `lifecycle` are refused by each of the checks once.

*Deadlock* is checked in every run.

### Fairness

`RegFairness`: goroutines run. A request that waits for a connection or for a
row lock can proceed again and again but not always; `database/sql` serves
waiting requests in their order and PostgreSQL waiters of a lock, hence strong
fairness of `Progress(h)`. Answers of the key service and of the database come
(the client of the key service is a library). A transaction that is cancelled
or asked to commit ends: `TxEnds`.

That an answer comes is assumed, so `RequestsAnswered` does not tell an unlimited
number of attempts to connect from a limited one; the limit is `RegTypeOK`'s.

`OwnFairness`: the loader does what needs no answer; `time.Tick` ticks.
`AnswerFairness` adds that the list, its key and every lookup are answered well
again and again. Without it, `CertsCheckedFrequently` fails, since the
requests of the loader have no timeout (`extended_client.go:135`).

`MigSpec`: the process of the migration runs once it was started, and the server
ends the transactions nobody waits for (`ServerStep`), as in `TxEnds`. Nothing is
assumed of the service or of the processes that write the key file.
`MigrationEnds` has one exception: a pool limited to one connection and an
identity to look up. There the code waits for itself, see *Findings*; the same
limit with an empty list, and the same list with a larger pool, do end.

`LifeSpec`: `main` and the server run, and a request that was accepted is
answered, which the fairness of registration and signing gives. `main` pings the
database when it opens it (`database.go:83`), without a deadline; fairness of
`MainStep` assumes that the ping returns, with or without an error. That `Serve`
calls `serverReady` in either case is the library's. No fairness is assumed of
signals, of clients, or of CSR goroutines.

## Findings

1. `extended_client.go:135`: the requests for the certificate list have no
   timeout; an unanswered one stops the loader although new certificates are
   to be checked for "frequently" (`protocol.go:91`).
2. `services.go:133`: the payload for a hash sent as text is the text, not the
   "SHA256 hash" of `README.md:36`.
3. `cose_signer.go:249`: JSON documents with values that are not strings are
   refused, the example of `README.md:129` among them, which `json` shows; and
   a null value is encoded as an empty string, so that another document is
   signed than the one received (`README.md:11`), which the same run shows with
   `TypedDocs = {}`.
4. `identity_handler.go:141`: the goroutine that submits a CSR is not in the
   group of `main.go:97` that "contains all asynchronous operations"; a signal
   can end the process before the CSR is submitted, and it is never repeated.

What the models say about the code besides, where no text promises the
contrary:

* A migration that has reported an error may be in the table later, as a whole:
  the error of `tx.Commit` (`migrator.go:102`) does not say what the server did.
* The backup of the key file does not protect from a process that writes without
  having loaded what was stored. It finds nothing if the file was moved away and
  not written (`file_manager.go:147`; `loadFile` takes a missing file for an
  empty one without a look at the backup, line 113), or if the file is of the
  older version and it is a `FileManager`; it finds an older backup after a read
  error that passes (line 125). The interruption itself loses nothing: a copy
  with all keys is left, and it is the write that follows which destroys it
  (`exposed`).
* The first write after an older version leaves, when it is interrupted, a file
  that cannot be decoded and a backup in the older format. `FileManager`, and
  with it every migration, refuses both and ends with an error;
  `LegacyFileManager` still reads the backup. This is the exception in
  `OneFaultStillLoads`.
* Keys set by `LegacyFileManager` are never persisted
  (`legacy_file_manager.go:91` has no caller).
* With a pool limited to one connection (`DbMaxOpenConns` 1) the migration waits
  for ever for the connection its own transaction holds, unless its list is empty:
  `MigrationEnds` excludes this case (`WaitsForItself`) and fails without the
  exclusion.
* `loadTokens` does not refuse a token that another identity has,
  `loadIdentitiesFile` does (`config.go:312`).
* A pinned certificate that does not parse is only logged (`config.go:369`).

Seen while reading: the README names the path `/anchor` for original data, the
code serves `/cbor` (`main.go:168`); the README says that `kid` is the UUID, the
code uses the SKID of the certificate.

## Proofs

TLC checks the instances above; the theorems hold for every value of the
constants that the named assumptions allow. Each proof has an inductive
invariant of its own (`RegInv`, `SkidInv`, `ClientInv`, `KeyFileInv`, `MigInv`,
`LifeInv`), proved by one lemma per action.

| module | theorem | property |
|---|---|---|
| `RegistrationProofs` | `RegTypeCorrect` | `RegTypeOK` |
| | `NoLeak` | `NoLeakedTransaction` |
| | `Consistent` | `RegConsistent` |
| | `Refinement` | `ImplementsContract` |
| | `CommittedIsRegistered` | `CommittedKeyIsRegistered` |
| | `GrantedStays` | `GrantedIsDurable` |
| | `CacheIsTrue` | `CacheMirrorsTable` |
| | `NobodyWaitsInCircle` | `NoCircularWait` |
| `SkidLoaderProofs` | `SkidTypeCorrect` | `SkidTypeOK` |
| | `NewestMatch` | `StoreIsNewestMatch` |
| | `EmptyAfterMaxFailures` | `StoreEmptyAfterMaxFailures` |
| | `ReloadsKeepMatched` | `ReloadKeepsMatched` |
| `CoseClientProofs` | `ClientTypeCorrect`, `SigningTypeCorrect` | `ClientTypeOK`, `SigningTypeOK` |
| | `EveryCoseVerifiable` | `CoseVerifiable` |
| | `AllSignedAsAsked` | `SignedAsAsked` |
| | `ClientIsSigner` | `ImplementsSigner` |
| | `ClientSignsForBound`, `ClientTakesNothingBack` | the invariant and the action property of `ContractProofs`, said of the service |
| | `ClientContract` | `ImplementsContract`, of the service |
| | `ClientIsLoader` | `ImplementsLoader` |
| | `ClientWaitsInNoCircle` | `NoCircularWait`, of the service |
| | `ClientCacheIsTrue`, `ClientNewestMatch`, `ClientEmptyAfterMaxFailures`, `ClientReloadsKeepMatched` | the properties of registration and of the loader, in the whole service |
| `ContractProofs` | `SignerMeans` | the invariant of a signer: bound once, announced before, signed with the bound key |
| | `SignerKeeps` | what is bound, announced, reported or certified stays so |
| `KeyFileProofs` | `StillLoads` | `OneFaultStillLoads` |
| | `KeysKept` | `OneFaultKeepsKeys` |
| `MigrationProofs` | `MigTypeCorrect` | `MigTypeOK` |
| | `DoneIsMigrated` | `DoneMeansMigrated` |
| | `MigratedHasStoredKeys` | `MigratedWithStoredKeys` |
| | `WholeListOrNothing` | `AllOrNothing` |
| | `KeyFileStillLoads`, `KeyFileKeepsKeys` | the properties of the key file, next to a migration |
| `LifecycleProofs` | `LifeTypeCorrect` | `LifeTypeOK` |
| | `ReadyIsServing` | `ReadyMeansServing` |
| | `DatabaseIsOpen` | `ServedWithDatabase` |

*The assumptions.* `NoUid`, `NoKey` and `NoCert` are no uid, key or
certificate; every certificate has a key and a form; the lists of the server
are sequences of certificates, the empty one among them; `MaxDbConnAttempts` and
`MaxCertLoadFailCount` are positive numbers (`protocol.go:35` has 5,
`setInterval` 3 or 60). A JSON document is of one of three kinds
(`DocsAssumption`). An entry of the key file is a half of the pair of a uid, and
older files have such entries. A configuration lists identities in a finite
sequence and tokens in a finite map, with uids, of which only those of the file
may be the nil UUID
(`ConfigsAssumption`). Byte strings are terms, so that a digest, its text forms
and encodings differ by how they are made: hashes do not collide.

*Registration.* None of the safety properties is inductive. Whether a commit
binds a registered key depends on a transaction that nobody may be waiting for
any more, so the invariant must say what each unfinished transaction can still
do: `TxMayCommit`. Whether a request may send COMMIT depends on where it is:
`RequestOwnsTx`. And two attempts must not share a key, two unfinished
transactions not a uid. These are the parts of `RegConsistent`; with
`RegTypeOK` and `NoLeakedTransaction` it is inductive (`RegInv`). Two lemmas
carry the induction, one for steps that move only a request (`RequestMoves`),
one for steps that move a transaction (`TransactionMoves`). From `RegInv`, every
step is a step of `IdentityContract` or a stutter (`NextRefines`), which gives
`Refinement`. The contract fills a row once, with an announced key, so its steps
preserve `CommittedKeyIsRegistered`, `GrantedIsDurable` and, for a step that
leaves the cache alone, `CacheMirrorsTable`; the one step that fills the cache
stores what is committed, by `RequestOwnsTx`. That nobody waits in a circle
needs one fact more, that a request has not inserted its row before its insert
(`NothingInserted`). So who waits for a connection waits for requests that
have one, who waits for a row waits for transactions that have theirs, and
those wait for no other request: the chain has two links at most. This is the
safety half of `RequestsAnswered`; the other half, that each link is released,
is fairness.

*Loader.* `LoaderInv` speaks of the lookup while it is built: what is matched so
far is the last usable certificate of the part of the list already seen
(`MatchedIsNewestSeen`), so that the installation is right. That a reload loses
nobody rests on the uid cache: an identity that has a SKID has its uid cached
(`StoredUidIsCached`), its lookup cannot fail, and so it is matched as soon as
one of its certificates was seen (`MatchedIfStored`). All of it must survive
rows that are filled meanwhile, for which a key must not be in two rows
(`KeyHasOneUid`). That the counter is compared with `!=` is harmless because no
failure is counted between a success and its installation (`LoadIsFresh`).

*The whole service.* `LoaderInv` and `SignInv` mention the table, not the
transactions, so the same lemmas serve the loader alone and the service. A
request keeps what it read: its key is the committed one and stays so, the
certificate it looked up is one for that key (`SlotOK`); that a later reload or
registration cannot separate the two is the induction. `ImplementsSigner` needs
two facts that belong to no component: a key is announced for one uid only
(`AnnouncedOnce`), and every certificate in hand, also one that the list has
dropped since, was asked for by a CSR (`CertificatesIssued`). Hence the CSR of
the certificate a COSE object names was one for the identity that signs.
`SignerContract` is safety only: a CSR that is lost for ever violates
nothing in it, see finding 4. `ContractProofs` assumes nothing of the code; with `ClientIsSigner` its theorems
become theorems about the service, without another induction over its steps.

`SkidLoader` makes a registration one step and leaves the pool to the loader.
`ClientIsLoader` justifies that: with the transactions and the identity cache
mapped to their initial values, a commit is a `Register` (it is a `Bind` of the
contract), everything else that registration and signing do is a stutter, and
a lookup that found a connection in the service finds one there too. So the
runs `loader` and the theorems of `SkidLoaderProofs` speak of the loader as it
runs in the service. Fairness is not part of the mapping: `NewestCertPickedUp`
assumes of the database what `AnswerFairness` says.

*Key file.* With one fault at most, and while nobody has written with less than
was stored, the stored keys are somewhere complete at each step: in the file if
it decodes, else in its backup, and in the memory of a process that writes
(`KeysAreSomewhere`). Why one fault and not two: a file that is half written and
a backup that is half written cost one each (`TornMeansFaults`). Where
`FileManager` meets the older format is `LegacyIsFirst`: only in a file without
a backup, or in the backup of the first write.

*Migration.* While the transaction is open, `staged` is exactly the set of uids
before the current position (`StagedIsPrefix`), and each of them has a free row
and a stored pair (`RowsFit`); a duplicate or a row of the service stops the
insert. Hence a commit adds the whole list. A transaction in doubt was left at
the end of its list, so it has all of it (`AllStaged`), and its rows stay free:
every other insert of them waits, and two transactions in doubt share none. So
its late commit adds the whole list too. Keys in files and in the list are
stored ones, whichever copy was read (`DiskKeysKept`, `ListedKeysKept`).

*Lifecycle.* Which routes are there, whether the database is open and whether
the server may still work on requests follow from where `main` is in its script
(`RoutesFollowMain`, `ContextFollowsMain`, `ServerFollowsMain`).

*Only model-checked.* Liveness (`RequestsAnswered`, `TransactionsEnd`,
`NewestCertPickedUp`, `MigrationEnds`, `StartEnds`, `StopsAfterSignal`) and the
four findings: fairness speaks of `ENABLED`, which is out of the prover's reach.
Every invariant and every other action property or refinement of a passing run
is a theorem. No module declares a RECURSIVE operator.

## Not modelled, and the plan

Not modelled: `initIdentities` (`identity_handler.go:43`), which nothing calls
and which would do with each entry of a list what a request does with its uid;
parsing and default values of the configuration; byte layout of CBOR, HTTP, the
TLS handshake and idle connections, metrics, audit log; a data race inside the
router that `main` changes while the server reads it (`main.go:126`), since what
it does is the library's.

Left to do: a refinement with fairness between the service and the loader, and
the liveness properties themselves, once a prover can reason about `ENABLED`;
`initIdentities`, should it get a caller.
