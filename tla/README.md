# ts3pilot: a TLA+ verification project

ts3pilot manages TeamSpeak 3 servers. A TypeScript program, `ts3-manager`, runs
on the host of the server, as a command line and as a long-lived *agent* with a
signed HTTP API; a WordPress plugin, `ts3pilot-wp`, pairs with agents, shows
their status and binds WordPress users to TeamSpeak identities.

The modules in this directory are models of that code, not of its
documentation: every definition names the lines it stands for in
`PROJECT.json` ("map"). TLC checks the models on small instances, and TLAPS
proves the safety properties for every value of the constants.

## 1. Inventory

Paths are relative to the repository; `M/` is `apps/ts3-manager/src/`, `W/` is
`plugins/ts3pilot-wp/src/`.

| Component | State it keeps | Operations | Who it talks to | What is hard | What makes it correct |
|---|---|---|---|---|---|
| ServerQuery connection (`M/ts3/serverQueryConnection.ts`) | `socket`, `connected`, `connecting`, `closed`, `queue`, `pendingData`, a timer per command | `connect`, `command`, `close`; events of sockets and timers | the TeamSpeak server over TCP; every agent handler and the identity worker share one connection | callers awaiting one `connect()`, a timeout racing a late answer, reconnection, `close()` between two continuations | one command outstanding; a call gets the answer to its own command, or fails; every call ends; nothing is sent twice |
| ServerQuery client and protocol (`M/ts3/serverQuery.ts`, `serverQueryProtocol.ts`, `escape.ts`) | none | one command for each method, parsing, escaping | the connection | separators and line ends inside values, keys without a value | a command is one line with its own parameters; a response is read as it was written |
| Agent credentials and pairing (`M/agent/server.ts`, `handlers.ts`, `M/cli/commands/api.ts`, `M/config/config.ts`) | the config file: `enabled`, `credential`, `pairing` | `enable`, `pair`, `rotate-secret`, `unpair`, `disable`, `config set` | WordPress over HTTP, the administrator over the command line; both share a file without a lock | a slow body, two clients with one code, two processes that update the file, the end of the agent | a pairing code is used once; what is revoked opens nothing; credential and pairing code exclude each other |
| Request admission (`M/security/rateLimit.ts`, `nonceStore.ts`) | token buckets, the nonce store, both in memory | `consume`, `checkAndStore`, `prune` | called by `handleRequest` and `authenticate` | duplicated and delayed messages, a clock set back, a full store, a skew changed while the agent runs | the rate is bounded; a signed message passes once |
| Identity worker (`M/identity/`) | the challenge store, polling cycles | register, prune, match, webhook, mark delivered | TeamSpeak (client list), WordPress (webhook) | overlapping cycles, times read before an await, a webhook that is processed but not acknowledged | one webhook for each registration; the attempt limit; expired challenges go |
| Request signatures (`M/security/hmac.ts`, `secrets.ts`) | none | sign, verify | admission | cryptography | taken as given |
| Other agent endpoints (`M/agent/handlers.ts`, `routeTable.ts`, `M/domain/`) | a 30 s deployment cache | status, clients, channels, kick, service actions, … | the TeamSpeak client, the service manager | little | capabilities are checked before the handler |
| Backup and restore (`M/system/backupEngine.ts`, `M/cli/commands/backupCmd.ts`) | archives and temporary files | create, inspect, restore | the file system, a running server, other jobs | files that change while they are read, backups that share temporary names, a restore that stops half way | an archive that exists and that nobody disturbed is complete; a restore is whole or accounted for |
| Installation (`M/services/installer.ts`, `download.ts`) and self-update (`M/cli/commands/update.ts`) | staging directory, EULA marker, config, the binary | download, verify, move, mark; rename of the binary | release servers, the file system | a crash between two moves, a forced second attempt, mirrors that bring something else | the marker means an installation; the binary is the old one or a later one, whole |
| Service management (`M/system/`) | none of its own (systemd) | start, stop, restart, status | systemctl, a script | timeouts of processes | - |
| Configuration schema (`M/domain/schemas.ts`) | none | validators of the config and of request bodies | every handler, every command that writes the config | which fields may be left out, and their limits | what a handler uses has been validated |
| Diagnosis, adoption, logs, console (`M/services/`, `M/cli/`) | none | read-only checks, output | - | - | - |
| WordPress node pairing and registry (`W/Agent/Pairing.php`, `W/Settings/`) | options: the list of nodes, the active node, settings | pair, add, edit, delete, switch, save, migrate | agents, administrators in parallel requests | read-change-write of options from stale copies, a lost pair answer, the legacy node that comes back | a pairing is whole or undone; a credential belongs to the endpoint beside it |
| WordPress identity binding (`W/Identity/`, `W/Rest/AdminController.php`) | user meta: challenge and mapping | begin, callback, set status | the identity worker | the callback racing an administrator, secrets that changed since the registration | a verified identity was vouched for; a revoked mapping stays revoked |
| WordPress status snapshots (`W/Services/StatusService.php`) | transients | get, refresh, negative entries | agents | the key of a snapshot that changes its meaning | a snapshot is shown for the node it came from |
| WordPress REST, audit log, front end, updater | an option of bounded length, transients | append, render | - | unlocked append of a bounded list | the log holds the newest entries |
| Clients other than ServerQuery, build and release scripts | - | - | - | - | - |

"components" in `PROJECT.json` lists all of them with their status and reason,
"hazards" every place where this code is hard to test, and which property
covers it.

How the parts of the agent meet at run time: a request passes **Admission**
(limiter, timestamp, nonce), is authenticated against the config (**AgentApi**),
and its handler either changes the config (AgentApi), registers a challenge
(**ChallengeVerifier**), validates the body and sends a command
(**TeamSpeakRequests**, with **QueryText**, over **ServerQueryConnection**) or starts a backup or a restore (**HostJobs**). The
identity worker uses the same ServerQuery connection, of which it relies on
exactly what **QueryService** promises: a call ends, with its own answer or a
failure. On the other side a web request of WordPress changes options and user
meta (**WordPressNodes**, **IdentityBinding**) and calls agents, which are
environment there, as WordPress is environment in the models of the agent.

## 2. Modules

| Module | What it is |
|---|---|
| `QueryService` | abstract specification: what the promise returned by `command()` means to its caller |
| `ServerQueryConnection` | the connection; implements `QueryService` (`ImplementsService`) |
| `QueryText` | escaping, command lines, the parsing of responses |
| `TeamSpeakRequests` | a TeamSpeak operation from the request to the answer: capability, validation, command, response (extends `QueryText`) |
| `AgentApi` | credentials, pairing and the config file |
| `Admission` | token bucket, timestamp window, nonce store |
| `ChallengeVerifier` | challenge store, polling cycles, webhooks |
| `HostFiles` | the files of the host, jobs, a server that writes, kills |
| `BackupArchive`, `Installation` | the jobs: backup and restore; installation and self-update (both extend `HostFiles`) |
| `HostJobs` | all jobs side by side |
| `NodeRegistry` | the options of WordPress and the operations on the list of nodes, as operators on histories |
| `WordPressNodes` | the web requests that administer nodes, pair, forward and show snapshots |
| `IdentityBinding` | the mapping of a user, beside all requests of `WordPressNodes` |
| `MC*.tla`, `MC*.cfg` | the instances for TLC |
| `ServerQueryProofs`, `AgentApiProofs`, `AdmissionProofs`, `ChallengeProofs`, `HostProofs`, `IdentityProofs`, `WordPressProofs`, `QueryTextProofs` | theorems and proofs, one theorem for each property |

In each model some operators carry a comment such as "A failAll() that stops
after the head of the queue" or "Mutant: the marker is written before the files
are moved". They are no part of the specification: they are
mistakes one could make in that place of the code. "mutants" in `PROJECT.json`
pairs each property with one of them, to show that the property would notice.

### ServerQueryConnection

An element of `Cmds` is one call of `command()`. JavaScript runs to completion,
so an action is one callback, or one continuation of a promise:

- `Call` is `command()` up to its `await this.connect()`, in the four ways
  `connect()` can go; `Enqueue` is what follows the await, where `this.socket`
  is looked at again. Between the two come other continuations and `Close`.
- `HandshakeLine` and `HandshakeTimeout` are the handshake of
  `openConnection()`; `ResolveConnect` and `RejectConnect` are its `settle()`,
  which wakes every waiting call at once.
- `Read` is `handleLine()`, with `SettleHead` and `SendHead`; `CommandTimeout`
  the timer of the head; `SocketError`, `CloseEvent` the handlers of a socket's
  events; `PeerEnd` an orderly end by the server.
- `ServerExecute` is the environment: the server executes what was written, also
  on a socket the client has given up, and replies while the socket is open.

`sock[s]` follows a socket to its `'close'` event: a destroyed socket is
"dying" until then, because its handler still clears `connected` and fails the
queue, whatever socket has come since. Two facts of Node are assumed: no
macrotask runs while a continuation is ready (`Idle`), and a destroyed socket
reports `'close'` before a socket created later has read a line. `entries`,
`executed` and `executions` are history: which command each data line of a
response answered, the server's verdict and how often it executed the command.
Texts of commands and of data lines are abstracted to the command they belong
to; a line that cannot be parsed is not modelled.

### AgentApi

An actor is an HTTP request or a process of the command line.
`Arrive` is `handleRequest()` up to `await readBody`, with the config it loads;
`Authenticate`, `Recheck`, `ReadFile`, `WriteFile` follow without another
await, so the request holds the agent's thread (`running`) - but processes of
the command line go on in between. `Start`, `Check`, `ReadFile`, `WriteFile`
are a command: it checks the config of its start and updates a copy it reads
later. `ReadFile` and `WriteFile` are the two halves of `updateConfig()` (read,
rename into place). `Refuse` stands for every other reason to refuse a request
(limits, nonces, capabilities, a malformed body). `Terminate` is a signal,
`CloseServer` the timer that a disable request sets.

Secrets are names: an actor that generates a credential or a code generates its
own name. Signatures are abstracted: a request presents a secret that was
in the file at some time.

`config set` is five operations: "setEnabled" and "setDisabled" write
`agent.enabled`, "setCredential" a credential the administrator knows or '',
"setNew" one of her own, and "set", for any other key, writes back the three
fields it read. So a disabled config may hold a credential: `byHand` is
remembered until an unpairing or disabling, and `PairedOrPairing` is about a file
that nobody wrote by hand. `SingleUse` and `RevokedIsRefused` hold with `config
set` as well; a credential that is typed in again is not a revoked one any more
(`Typed`). Left out: `config set` of a field below `agent.pairing`, and of a value
that `readConfig()` refuses - which the command writes before it looks
(`configCmd.ts:47`), so that every later command fails.

`behind` and `overlapped` record whether a process updated the file after
another one had changed it since the first looked at it. The code has no lock
there, and the properties of the pass run are stated for `~overlapped`;
`agent_lost_update` shows what happens otherwise. Interleavings inside the
agent - two requests with one code, a slow body - never set `overlapped`: they
are what `SingleUse`, `PairedOrPairing` and `RevokedIsRefused` are about.

### Admission

`Request` is a signed request: `Consume` (the limiter), the window of the
timestamp, and the nonce store with its `prune`, eviction and insertion, in the
order of the code - a nonce is stored before the signature is verified, so a
request that is not genuine may use one up. `PlainRequest` is one that ends
before the nonce store. `SetBack` sets the clock back; `SetSkew` changes
`agent.clockSkewSec` while the store keeps the `ttl` of the launch, and a
request uses any value it may have loaded on arrival.

Tokens are counted in units (`Unit` for one token), so fractions of a refill
are exact integers. The agent has two limiters; each is an instance of this
module. `Restart` is the end of the agent and a new `startAgentServer()`: the
buckets are full, the store is empty and takes its `ttl` from the skew of that
time. `ReplayCaught` holds across restarts that come when the windows of all
messages that passed are over (`steady`), and `RateBound` grants each launch one
full bucket.

### ChallengeVerifier

A cycle is one `verifyOnce()`, which `setInterval` starts whether or not the
previous one has ended. `StartCycle` prunes and takes the time that the whole
cycle will use (`late` are the codes expired then); `Listed`, `NoMatch`,
`Inspect` are the awaits of the client list and of each client's details;
`Match` counts the attempt and consumes the challenge before the webhook is
sent; `Delivered` and `Undelivered` end the await of the webhook, which
`Receive` may process earlier, later or never. How a code is found in a text is
abstracted to the choice of an active code. A user is abstracted to the code made
for her. `Restart` is `runAgentCommand()` in a new process: challenges and
cycles are gone, webhooks of the old process may still arrive, and a code may be
registered anew.

### HostFiles, BackupArchive, Installation, HostJobs

A job is one call of a command, which is a process of its own, or a backup or
restore in the process of the agent (`Agent`). Its `at` is the place of the code
it has reached; everybody else may act between two places. `ServerWrite` is the
TeamSpeak server, which writes files while they are read; `Kill` ends a process
with all its jobs, anywhere.

- Backup: `BackupStart` lists the files (`Listed`: those of an include list - the
  default one in the agent - outside of the excluded directories); `BackupHash` takes the digest of one
  file, with the size taken before the `await`, and the size of the next;
  `BackupTar` copies one file into the temporary tar; `BackupPack` compresses and
  renames. The temporary names hold the process id only, so two backups of the
  agent share them (`Beside`, `mixed`): each may end with its own archive, with a
  broken one, or fail. Whether the manifest `fits` into the 1 MiB that inspection
  allows is any outcome, as a path of the model stands for any number of files:
  creation does not look, and such an archive is reported as a success.
- Restore: `RestoreInspect` is the whole of `inspectBackupArchive()`; `RestoreOpen`
  reads the archive again, which may be another one by then; `RestoreFile`
  empties a file and `RestoreFill` fills it.
- Installation: `InstallFetch` downloads, verifies and unpacks into a directory
  of its own; `InstallMove` renames one entry; `InstallMark`, `InstallFirewall`
  and `InstallConfig` follow. A directory does not replace one that is not empty,
  so a forced installation over an existing one (`--force to overwrite`,
  `installer.ts:119`) fails half way, with files of both and the old marker.
  `Roots` is `findExtractedRoot()`: of an archive with one directory only what is
  in the directory is moved, and files beside it are left (`Nested`, `taken`).
  `ConfigSet` is an administrator who sets `ts3.installPath` or takes it out; the
  config of a host may name a place before anything is installed there.
- Update: `IsNewer` compares versions, `UpdateFetch` tries the next mirror after
  a failure but not after a wrong digest, `UpdateSwap` probes the candidate and
  renames it.

A content is a name with a size. A read of one file is one step; an entry whose
length is not the one of its header shifts all that follows, and such an archive
counts as one that cannot be read to its end.

### NodeRegistry, WordPressNodes, IdentityBinding

WordPress reads its options once for a request and keeps them;
`update_option()` writes one option to the database and to that copy, and writes
nothing when the copy holds the value already. An operation is therefore modelled
as the sequence of copies it goes through (a *history*, `Put`): `Begin` computes
it from the database as it is at the start of the request, and `WriteOption`
writes the option in which the first two copies differ. Between two writes other
requests read and write. `Migrate`, `Upsert`, `SetActive`, `Remove`, `SetMany` and
`Log` are the functions of the same names in `NodeRegistry.php`,
`Repository.php` and `AuditLog.php`. `All` and `ActiveId` fall back to the options
of the plugin's former name, `ts3cops_nodes` and `ts3cops_active_node` (`old`,
which nothing writes), while the present ones are empty: after the last node
was deleted the old list is read again. The settings and the log have such a
fallback too; they are never emptied once written, so the model keeps the value
that is read.

`Pair` stores the provisional node, `PairCall` asks the agent - which may issue a
credential and lose its answer - and finishes or takes back. `Status` and
`FetchSnapshot` are `StatusService::get()`; an expired transient is one that is
not hit. `MeChallenge` to `MeRegister` are `identity_me_challenge()` with its two
reads of the mapping; `Callback` reads and checks, `MarkVerified` writes; between
`BindStatus` and `BindWrite` an administrator's request holds its copy. Agents are
external: of an agent the model keeps the number of the credential in force.
What an administrator types is not checked by the code, nor by the model: the
three settings are independent of each other (`SaveSettings`), and a credential is
any that was issued (`Typed`); `edited` remembers that one was put beside an endpoint
it is not of. A node id in the settings is an agent's or blank. The status
"unbound" of a user without meta is a write too, of a mapping that was not
`stored`.

Left out: capabilities and nonces of WordPress, the user meta of the plugin's
former name, the challenge an administrator starts and
`Challenge::verify()` (their meta entry is read by no other code), unknown users,
and updates that affect no row.
`AnswerAccepted` is stated for challenges registered with the node the settings
name: `AdminController.php:597` sends the credential of the settings to whatever
node was selected.

### QueryText, TeamSpeakRequests

`Escape`, `Unescape`, `BuildCommand`, `ParseKeyValue` and `ParseResponse` translate
`escape.ts` and `serverQueryProtocol.ts`, on sequences of characters. Names
and numbers count as one character. Two kinds of responses lose something, and
`RecordsReadBack` excludes both: a key without a value joins the next key
(`escape.ts:68`), and a value at the end of a line loses the blanks at its own end
that `trim()` knows and nobody escapes, such as U+00A0
(`serverQueryProtocol.ts:68`; `Wide`). `ValuesKeepTheirKey` says what is left in
both cases: no value passes to another key.

A behaviour of `TeamSpeakRequests` is one request, of an operation and with a body
whose fields hold nothing or a JSON value of some type. `Refuse` is
`handleRequest()` for a capability that is not granted (403) and a body that its
validator rejects (400, `Valid`, field by field); `Send` is the handler and the
method of `serverQuery.ts` up to the line that is written (`Command`: which
parameters are left out, and which have a default). The worker's `clientinfo`
has no route and no body. `Reply` is the server, with everything a response may
look like; `Resolve` parses it and applies `assertOk()`. `requireFeature()` is no
guard here: the client that speaks ServerQuery supports every operation a route
asks for. How fields are renamed and numbers converted afterwards is left out, and
so is the connection, which has its own model.

## 3. Runs

Deadlock is not checked in any of them: every model may come to an end (all
calls settled, all actors, jobs or web requests done, the bounded clock or the
registrations used up). That nothing waits for ever where it should not is the
subject of `Settles` and `ExpiredGoes`.

| Run | Instance | States | What it shows |
|---|---|---|---|
| `server_query` | 3 calls, 3 sockets | 64,418 | `Serialized`, `OwnVerdict`, `AtMostOnce`, `HeadTimed`, `ClosedForGood`, `Settles`, and that the connection implements `QueryService` |
| `server_query_stale` | 2 calls, 2 sockets | violation | `OwnData`: see finding 1 |
| `agent_api` | 2 requests, 2 commands | 2,527,536 | `PairedOrPairing`, `SingleUse`, `RevokedIsRefused` |
| `agent_stale_auth` | 2 requests, 1 command | violation | `ServedByCurrent`: see finding 2 |
| `agent_lost_update` | 1 request, 2 commands | violation | `RevokedIsGone`: see finding 3 |
| `admission` | 1 client, 3 nonces, store of 2, 1.5 tokens, skews 1 and 2, 2 launches | 487,517 | `RateBound`, `ReplayCaught`, `StoreInOrder` |
| `challenge_verifier` | 1 code registered twice, 2 clients, 2 cycles, restarts | 45,758 | `SingleUse`, `AttemptLimit`, `DeliveredIsReceived`, `AcceptedFresh`, `ExpiredGoes` |
| `challenge_retry` | 1 code, 2 clients, 1 cycle | violation | `RetryPending`: see finding 4 |
| `wordpress` | 2 web requests of any kind, 6 states of the options, 2 agents, 1 user, 2 identities | 744,907 | `FailedPairRestores`, `PairedAgrees`, `CredentialsOwned`, `DeletedUnlessNamed`, `VerifiedByProof`, `RevokedForGood`, `AnswerAccepted`, `AuditIsRecent` |
| `wordpress_snapshot` | 3 web requests, two nodes and no active one | violation | `SnapshotOfItsNode`: see finding 5 |
| `host_files` | 2 jobs of any kind, 3 paths, 2 include lists, 5 contents, a write of the server, kills | 1,715,746 | `QuietBackupSound`, `RestoreExact`, `RestoreAccounts`, `MarkerMeansInstalled`, `UpdateKeepsOrReplaces` |
| `query_text` | every operation, with bodies that are valid, out of range or of another type, texts of up to 3 characters of 9, reports of up to 2 records | 27,230 | `CommandIsOneLine`, `RecordsReadBack`, `ValuesKeepTheirKey` |

**Bounds and why they are enough.**

- `MaxSockets = 3`, three calls: two calls race for a connection and one comes
  after the reconnection; the third socket lets an old `'close'` event meet a
  connection that is already the second since. A reply holds at most one data
  line and one notification: more of them repeat the same step.
- Two requests and two commands: two requests race for a code or a credential,
  while one command changes the file and another follows it. Requests, and
  commands, are interchangeable (symmetry; no liveness is checked there).
- Three nonces for a store of two: the third evicts. A capacity of 3 units, 2
  for a request and as many for a tick, makes a bucket that is full, fractional
  and empty within `MaxTime = 2` ticks; skews 1 and 2 give a window that ends
  within the run and a skew that is raised beyond the store's `ttl`; a second
  launch follows with either.
- One code registered twice: the second registration meets cycles and webhooks of
  the first. `MaxAttempts = 1` and two clients reach the lock,
  `MaxMatches = 1` the limit of a cycle. Codes do not interact but through the
  limit of a cycle, which `NoMatch` and `Full` cover. `Restarts` says whether
  the agent is ever started again; it is `FALSE` in `challenge_retry` alone, so
  that the lost retry cannot be blamed on a restart.
- Two web requests overlap in every way, on a new site, on settings of the
  version before the list, with one and with two paired nodes, and with the options
  of the former name, alone and behind a list; one more request would repeat a pair of these
  overlaps. `MaxGen = 2` lets a pairing replace a credential, `AuditMax = 1` makes
  the log full. The counterexample of `wordpress_snapshot` needs a third request,
  nodes none of which was made active, and neither users nor a channel list.
- Two jobs and one write of the server beside theirs: a backup meets a write and
  another backup, a restore, or a kill. Two paths make a first and a last file of the
  include list; the third is outside of it and a directory, which an installation
  cannot replace. A second list names one of the two, and an archive with one
  directory brings one path. Contents of equal and
  of different size tell apart what digest and length notice. Four releases
  compare by their second number, by a missing one, and one is mispacked.
- The nine characters are those the escaping, the splitting or the trimming treat
  differently; three of them contain every pair and what stands between. A tenth
  stands at the end of a reported value only, the blank that is trimmed. Names,
  topics and messages also have the lengths 100, and 101, 256 and 513, which are
  refused. Numbers are 0, 1 and one above the largest order; the response is
  looked at for one operation (`Asked`), as it is parsed alike for all.

The proofs below remove these bounds for the safety properties, all of them.

**Fairness.** `server_query` assumes weak fairness of `Enqueue` (a ready
continuation runs), of `CommandTimeout` and `HandshakeTimeout` (armed timers
fire), and of `CloseEvent` (Node delivers it): the event loop. Nothing is
assumed of the server, the network or the callers: `Settles` holds when the
server stays silent. `challenge_verifier` assumes that what a cycle awaits comes
to an end (`Advance`: queries and webhooks have timeouts) and that the interval
fires (`StartCycle`). `challenge_retry` uses `AnsweringSpec`, which adds servers
that answer (strong fairness of `Listed`, `Receive`, `Delivered`), so that the
counterexample cannot be blamed on them.

## 4. Findings

1. **A response can hold lines of another command** (`server_query_stale`).
   `pendingData` is not cleared when a connection dies: data lines of a
   response that was cut off join the first response after the reconnection.
   The verdict (`OwnVerdict`) is not affected.
2. **A request may be served with a rotated credential**
   (`agent_stale_auth`). The config is loaded before the body is awaited. What
   does hold: a request that *comes* after the change is refused
   (`RevokedIsRefused`), and a pair request never succeeds twice (`SingleUse`).
3. **Overlapping updates of the config file lose one of them**
   (`agent_lost_update`): a revoked credential can be written back.
4. **A match whose webhook was lost is not retried** (`challenge_retry`),
   although the log says "webhook pending retry".
5. **A snapshot is shown for another node** (`wordpress_snapshot`). As long as no
   node was made active, the snapshot of the first entry is kept under the empty
   id; when that entry is deleted, it is shown for the next one until it expires.

## 5. Proofs

Every theorem holds for all values of the constants that meet the named
assumptions of the models: `MaxSocketsAssumption` (a natural number),
`ActorAssumption` (requests, commands, first secrets and `None` are different),
`AdmissionAssumption` (numbers are natural, `Unit`, `MaxEntries` and `MaxLaunches`
positive), `VerifierAssumption` (numbers are natural, `MaxMatches` positive),
`FilesAssumption`, `ListsAssumption` (include lists name files, and the default one is
among them), `NestedAssumption`, `WritesAssumption`, `SizeAssumption` and `SpecialAssumption`
(contents have sizes; "no file" and "torn" are no contents), `ReleaseAssumption` and
`SourceAssumption`, `RunningAssumption` (the installation found at the start has the
paths of the model, each with a content), and for WordPress `SitesAssumption` (the
options a site starts with, those of the former name too, are of their types, list each node once, keep every
credential beside its endpoint, and use no id that is still to be made),
`NoneAssumption` ("nothing" is no id), `AgentAssumption`, `ProjectionAssumption`,
`BoundAssumption`, `AuditMaxAssumption` and `UidAssumption`; for the requests,
`RequestsAssumption` (the fields of a body hold nothing or a JSON value, and the
worker gives the id of a client), `CharsAssumption` (the characters of what the code
itself writes are among the characters), `DigitsAssumption` (the numbers that are
used have a text), and of the server `NamesAssumption` (a key holds no separator, and
is not how an error line or a notification begins), `ReportsAssumption` (a record
has keys, each of them once) and `LineEndsAssumption` (a line ends with a newline, and
blanks around it). TLC evaluates all of them in the runs of their models.

Each theorem states one property; "theorems" in `PROJECT.json` says which. Those of
a module rest on one inductive invariant, unless the following says otherwise.

- **`ServerQueryProofs`.** `TypeOK`, `Serialized`, `OwnVerdict`, `AtMostOnce`,
  `HeadTimed`, the action property `ClosedForGood`, and `ImplementsService`: every
  step of the connection is a step or a stutter of `QueryService`. `OwnVerdict` is
  not inductive: that the reply read
  belongs to the head of the queue rests on what each wire may carry. The
  invariant `IInv` adds `SocketInv` (only the last socket can be alive, and an
  open one has no dying one beside it), `QueueInv` (the queue holds each queued
  call once), `LifeInv` (a queued command has a socket whose `'close'` will end it),
  `WireInv` (the open wire carries the head of the queue, or the rest of its
  reply, with the verdict of the execution), `SentInv` (a command on a wire was
  not executed, is on no other wire, and its call is queued or failed; what
  waits behind the head was never sent) and `VerdictInv` (an answered call was
  executed once).
- **`AgentApiProofs`.** `TypeOK`, `PairedOrPairing`, `SingleUse`,
  `RevokedIsRefused`. The invariant adds `LooksHold`: what a process found out
  at its first look still holds of the file, unless the file changed under it
  (`behind`); so an update replaces what its operation expects. `UsedIsDone`: a
  secret somebody holds was written by its maker, so a new one is neither
  revoked nor granted; `Shut`: no removed secret is in the file, and a request
  that came late cannot match the config it loaded.
- **`AdmissionProofs`.** `TypeOK`, `RateBound`, `ReplayCaught`, `StoreInOrder`.
  `RateBound` needs the account of a bucket - what was served, what is left,
  and what the next refill could still bring - (`Account`), which a clock that is
  set back must not raise, and a restart by one full bucket only. `ReplayCaught` needs
  `Remembered`: while the run is steady, a message that passed is past half of the
  store's `ttl` already or has an entry that lasts until then. `StoreInOrder` is an
  invariant beside it: an eviction takes the first entry, an insertion is the last.
- **`ChallengeProofs`.** `TypeOK`, `SingleUse`, `AttemptLimit`,
  `DeliveredIsReceived`, `AcceptedFresh`. The invariant adds
  `SweptGone` (a code that had expired at the last sweep is not in the store) and
  `RoomForMatch` (a cycle that reports a match is below its limit).
- **`HostProofs`.** `TypeOK`, `QuietBackupSound`, `RestoreExact`,
  `RestoreAccounts`, `MarkerMeansInstalled` and `UpdateKeepsOrReplaces`, for any
  number of jobs, files, contents, writes
  and releases. The invariant is `JobOk` of each job: by its kind and place, how
  what it has read and written relates to the files. Nobody's `JobOk` mentions
  another job, so a step is looked at for the job that makes it, and for the
  others once: they are left alone (`OneJob`), or a file was written and they are
  not quiet any more and promise less (`OneWriter`, `DisturbedOk`). `TypeInv`,
  relative to it, says that what is read and about to be written are contents.
- **`IdentityProofs`.** `VerifiedByProof`, `RevokedForGood`,
  `AnswerAccepted`, for any number of web requests, users, identities and
  agents. Requests write whole records from old copies, so the invariant says of
  each request what it is about to write (`RequestOk`: an identity that was
  vouched for, a status other than "verified"), of a user whose revocation is
  settled that no request holds a copy of her mapping (`Settled`), and of a
  challenge that it carries the secret of the settings of its registration
  (`Secrets`). Migration leaves the settings alone (`MigrateSettings`), which is
  why the settings a callback checks are those it found.
- **`WordPressProofs`.** `TypeOK` of `IdentityBinding`, `CredentialsOwned`,
  `FailedPairRestores`, `PairedAgrees`, `DeletedUnlessNamed` and `AuditIsRecent`,
  for any number of requests, agents and credentials and every list a site may
  start with.
  A request is the history of copies it goes through, computed at its start and
  written option by option while others compute theirs; so the invariants are
  about histories. Each operation of the registry (`Migrates`, `Upserts`,
  `Removes`, `SetsActive`, `SetsMany`, `Logging`) keeps a history within a set of
  entries, a set of settings and a set of logs, beside an old list that stays as it is, when
  these meet a few closure conditions (`Closed`), and goes on with it one option at a time (`Continues`). A
  step of a request that writes no option is then one statement for all operations
  (`Effect`), and one that writes another (`Writes`). Each property takes closed
  sets of its own:
  `WInv`, the entries with ids already made (so that the id made for a pairing
  is new, and what a request finds after its steps is what `ReqOk` says);
  `OwnInv`, entries and settings whose credential is of their endpoint (whatever
  stale copy a list is written from, the old list included, its entries are in the set);
  `DelInv`, those without the deleted node, as long as nothing names it (`Names`: a
  pairing, the settings, or the old list behind one that was emptied); `AudInv`, all, with the
  one log that is stored. `SoloInv` says where the options are when nothing
  overlaps. `Without` is a recursive function over the
  length of the list; `WithoutFacts` is proved by an induction over it (`UpTo`: of the numbers for
  which a claim fails there would be a least one, by `WFMin`).

- **`QueryTextProofs`.** `CommandIsOneLine`, for all texts of any length, any
  characters and any requests. The inductive invariant is small (`SInv`: what was
  sent is the command of a request that may be sent); the work is in the functions
  on texts, which are recursive over the characters. Each is described by the
  sequence of its steps (`EscapeSteps`, `UnescapeSteps`, `ReadSteps`, `JoinSteps`,
  `LineSteps`), which is shown to exist by `StepsExist`, so that a claim about all
  steps is an induction over a length (`UpTo`). `Pieces` then gives the place of
  every character's escaped form in a value (`EscapePieces`) and of every
  parameter in a line (`LinePieces`). From these: `UnescapeEscape` (unescaping an
  escaped text gives the text), `EscapedType` (it holds no bare separator),
  `ReadValue` and `ReadParam` (the parser reads one parameter as what was
  written), `ReadCommand` (it reads them one after the other, and the keys of a
  command differ, so none replaces another: `StoreOne`), `SpaceCount` and
  `CommandLine` (one line, as many spaces as parameters). `CommandType` shows what
  the commands of the valid requests are made of, one case for each operation.

  `RecordsReadBack` and `ValuesKeepTheirKey`, for all keys, records, texts and line
  ends, follow from a second invariant (`RInv`: a response is one of those
  described, to the command that was sent, and the answer is what `Answer` makes of
  it); the work is again in the functions. Splitting into lines, splitting into
  entries, parsing an entry and the loop over the lines are four machines that
  take one character or line after the other; `After()` is the state of any of
  them behind a text, and by `AfterConcat` a text behind another is read from
  where the other ends. So each level is shown for one part and put together:
  `LinesRead` (lines come out as they were, but for the blanks at their ends, and
  whatever ends them; `TrimLine`, `CoreOf`, `EscapeEnd`: what `trim()` takes from
  an escaped line is the end of its last value), `BarredRead` and `EntriesRead` (the
  entries between the bars), `ReadPairs` with `StoresPair` and `KeepsWaiting` (`ReadUpTo`:
  after the i-th pair no key has the value of another, and if none was bare all of
  them are stored and nothing else), which gives `EntryReads`. `EntryFacts`, `ErrorLineIs` and
  `NotificationIs` say how the loop takes the lines, `SplitRead`, `DataRead`,
  `NotesRead` and `EndRead` what it has made of each part, and `ReplyRead` puts
  them together. `LeftOf` in `ValuesKeepTheirKey`, and the two exceptions of
  `RecordsReadBack`, are what these lemmas leave open, not what they could not show:
  TLC finds `RecordsReadBack` violated when either exception is dropped.

**Only model-checked.** `Settles` and `ExpiredGoes` (liveness, out of reach of
the prover), and the five violations. Every safety property of every passing run
is proved.

## 6. Plan

The models were written in the order of how much depends on them: the connection
all TeamSpeak operations share, the credentials, the gates in front of them, the
identity worker; then the WordPress side, the files of the host, and the text of
ServerQuery. What is left, in this order:

1. The composition of `IdentityBinding` with `ChallengeVerifier`: webhooks that are
   lost or received twice, with a mapping that stays pending for ever, and an
   abstract specification of a binding that both implement.
2. The composition of `WordPressNodes` with `AgentApi`: a pairing whose answer is
   lost while an administrator rotates the credential of the agent. Each side is
   modelled with the other as its environment today.
3. `api pair` beside a pair request of the agent: two credentials for one code when
   the two processes overlap (`SingleUse` says nothing of overlaps).

## 7. Not modelled

- Cryptography (a signature is valid or not), formatting and output, the validation of
  the config and of bodies other than those of the TeamSpeak operations, the command line's parsing of arguments, read-only
  diagnosis and adoption, systemd and its unit files, the mock and the WebQuery
  client, rendering in WordPress, its query of the release feed, build and
  release scripts. These keep no state of their own, or are outside of what a
  model checker can say something about.
- Of backups: the bytes of tar and gzip, the refusal of symbolic links and of
  targets outside the root; `services/backup.ts`, which no other code uses.
- Of installations: the mock installation of development mode, staging
  directories left behind by a kill and found again under a reused process id.
- Of `config set`: the fields below `agent.pairing`, and values that the schema
  refuses, after which no command loads the config any more.
- A restart of the agent in `AgentApi` after `Terminate` (its state is the file,
  which the command line keeps changing there), and in `ServerQueryConnection`
  (it keeps nothing).

## 8. Running

```
tlc -config MCServerQuery.cfg MCServerQuery      # and the other .cfg files alike
tlapm ServerQueryProofs.tla                      # and the other *Proofs modules
```

`MCAgentApiStale.cfg` and `MCAgentApiLost.cfg` belong to `MCAgentApi`,
`MCServerQueryStale.cfg` to `MCServerQuery`, `MCChallengeRetry.cfg` to
`MCChallengeVerifier`, and `MCWordPressSnapshot.cfg` to `MCWordPress`.
