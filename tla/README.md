# SSH Vault 2 in TLA+

This directory specifies the parts of SSH Vault 2 in which state, concurrency
and failure meet: the account and sync server (`server/server.mjs`), and in the
desktop client (`client/`) the local vault, the synchronization with the server,
the host keys and terminal output of SSH sessions, SFTP transfers, and RDP sessions
with their picture and clipboard. Each module is translated from the source; the
model checker TLC explores small instances completely, and the TLA+ proof system
proves, for instances of any size, that the states are well-formed, and nearly every
safety property that TLC checks: of the server's accounts, sync storage and e-mail
changes, and of the client's vault, synchronization, host keys, terminals, SFTP transfers,
RDP sessions and their picture.
`PROJECT.json` maps every definition to the lines it models and lists the runs,
the hazards they are aimed at, and the disagreements found.

## 1. Inventory

| Component | State it keeps | Operations | Hard behaviour | Modelled in |
|---|---|---|---|---|
| Account server (`server.mjs`) | `accounts/*.json`, `settings.json`, cookies handed out | registration (web, app), login, password reset, self-service, admin API | Node runs one handler up to its next `await`; the body of a request is awaited after the account record was read, so handlers write back old copies | `AccountServer` |
| Sync storage (`server.mjs`) | `sync/*.json`, `sync-backups/*/`, temporary files | PUT, import, delete, move | overlapping uploads, quotas computed from a projection, failing writes, crashes | `SyncStore` |
| E-mail change (`moveAccountEmail`) | account file, sync file and backups of two addresses | five file operations, three to undo them | failure of any of them, crash between any two | `EmailMove` |
| Local vault (`appservice.go`) | key in memory, `hosts.json`/`vault.json`, the secrets of `sync.json`, `dataMu` | unlock, lock, save, delete, export, imports, sync and its settings | calls run concurrently, only some hold `dataMu`, each secret uses the key of its moment | `LocalVault` |
| SSH session (`appservice.go`, `App.tsx`) | `s.ssh[id]`, channels `out` and `done`, sequence buffer of the terminal | connect, output, close | five goroutines, a bounded channel, events that may overtake each other, late mounting, a gap timer | `SshSession` |
| RDP picture (`rdp.go`, `rdp_render.go`, `App.tsx`) | framebuffer, dirty rectangle, hub registration, bounded channel, canvas | apply bitmaps, pump, `RDPRenderEndpoint`, websocket | two publishers, latest-wins queue, channels closed under a sender | `RdpRender` |
| Sync client and configuration (`appservice.go`, `App.tsx`) | `sync.json`, `hosts.json`, `vault.json`, the account's blob | login, form, push, pull, automatic sync | no mutex: a configuration read before the HTTP exchange is saved after it, two files are read and written one after the other | `SyncSystem` |
| SFTP (`appservice.go`, `properties_api.go`) | `s.sftps`, `uploads` of a session, temporary remote files | uploads of files, directories and chunks, editor, downloads, removal, rename | requests that fail one by one, servers whose rename does not replace, two sessions on one server, sessions closed before a call has the mutex | `SftpFiles`, `RemoteFiles` |
| RDP session (`rdp.go`, `App.tsx`) | `s.rdps[id]`, the `st` shared by its goroutines, the connection, the tab | connect, close, errors | three goroutines end one session, events overtake each other, a dial that ends after the close | `RdpSession` |
| RDP clipboard (`rdp.go`) | `clipFiles`, `clipDone`, the format list announced | staging texts and files, serving, refreshing | announced outside of the mutex, files of an older offer served late | `RdpSession` |
| Known hosts (`appservice.go`, `App.tsx`) | `known_hosts`, the key a flow has asked the user about | connect, ask, `TrustSSHHost`, connect again | the file is looked for, made and read in three steps without a mutex; the key may be another when it is to be saved | `KnownHosts` |
| Updates, rate limits | files, counters | comparisons and arithmetic | boundaries | no, see section 6 |
| RDP media pipeline and protocol stack (`internal/rdpstack`) | – | – | – | no: nothing in the program calls it; sessions use the vendored engine |
| Local files, windows, forms, pages, SMTP, codecs, vendored code, build | – | – | – | no: calls to the operating system, drawing, generated or third-party code |

How they interact: the client talks to the server over HTTP with a sync token;
a token is checked against the account record, the blob goes to the sync
storage, and an e-mail change moves both. Inside the client the user interface
calls methods of `AppService`, each in a goroutine of its own, and is called
back by events (`ssh:data`, `ssh:status`, `rdp:status`) and, for RDP, by a local
websocket. The vault's key and files are shared by all these calls.

What makes each one correct:

* Account server: a token belongs to the current password; what a password
  change revoked stays revoked; names are unique; an administrator named in the
  environment cannot be locked out; a session lasts until its time is over or its
  password changes.
* Sync storage: the version just overwritten is kept; retention and quotas
  hold; a client that lost its data does not overwrite the server's (section 3 says when
  it does).
* E-mail change: whatever fails, the user can log in to an address that has the
  data; a rollback restores everything. The last of the five operations is the
  exception: when it fails, the rollback takes the data away.
* Local vault: one key for all secrets; no secret lost; exports complete, and uploads,
  unless the token for them was left in the clear; calls with `dataMu` never overwrite
  what they have not read.
* SSH session: output in order, no silent hole, nobody waits for ever.
* Known hosts: nothing is saved that the user has not confirmed; another key than the
  one saved ends the connection.
* RDP picture: no tile out of date without a reason; the canvas catches up.
* Sync client: `hosts.json` and `vault.json` belong together, on disk and on the
  server; settings the user has changed survive exchanges that begin afterwards.
* SFTP: a file is replaced by one whole new version or not at all; a file that is
  lost leaves the new version behind; temporary files are removed.
* RDP session and clipboard: the tab shows the truth in the end, every connection
  is closed, the remote computer is offered what is staged and no longer than
  until it has fetched it.

## 2. Modules

| Module | Models | Steps |
|---|---|---|
| `AccountServer` | the handlers of `handleAppAccount`, `handleSelfAPI`, `handleAdminAPI`, `handleSync` as far as accounts are concerned | a handler without `await` before its effect is one action; the others are a `...Begin`, which stores in `reqs` the locals that survive the `await`, and a `...End` |
| `AccountServerProofs` | theorems about it | – |
| `SyncStore` | `writeSyncRecord`, `backupExistingSyncRecord`, `pruneBackups`, the quota and size guards | `PutBegin` up to the body, the rest in one action; writes may fail, and a crash may fall between copy, write and pruning |
| `SyncStoreProofs` | theorems about it | – |
| `EmailMove` | `moveAccountEmail` | one action per file operation, forwards and backwards |
| `EmailMoveProofs` | theorems about it | – |
| `LocalVault` | the methods that read or write secrets | reading the file, each secret, the key check and the write are single steps |
| `LocalVaultProofs` | theorems about it | – |
| `SshSession` | `ConnectSSHWithSize`, `queueSSHData`, `startSSHOutputPump`, `cleanupSSH`; `writeSSHPayload`, `handleTerminalSeqGap`, `attachTerm`, `closeTerminal` | one action per channel operation, critical section, event or timer |
| `RdpRender` | `rdpApplyBitmaps`, `signalRender`, `runRDPRenderPump`, `RDPRenderEndpoint`, `Register`, `Publish`, `serveWS`, `cleanupRDP` (as `cleanupSession`); `startRDPRenderStream` | one action per critical section and channel operation |
| `SyncSystem` | `SyncPush`, `SyncPull`, `SyncLogin`, `SaveSyncConfig`, `saveSync`, the callers in `App.tsx`, and the blob of the server, for several clients | one action per file read or written, per HTTP request and per save of the configuration; every call may fail between two of them, and a client may end |
| `SyncSystemProofs` | theorems about it | – |
| `RemoteFiles` | the promise of the file manager, an abstract specification | begin, commit and abort of a replacement; removal and rename by the user |
| `SftpFiles` | `ConnectSFTP`, `CloseSFTP`, `UploadSFTP`, `UploadSFTPChunk`, `WriteTextSFTP`, `finalizeRemoteReplace`, downloads, `RemoveSFTP`, `RenameSFTP` | one action per request to the server, served or refused. `Disconnect` (the connection breaks) and `RemoveTemp` (anybody removes a temporary file) are of the world outside |
| `SftpFilesProofs` | theorems about it | – |
| `RdpSession` | `ConnectRDP` with its goroutine, handlers and providers, `cleanupRDP`, `RDPStageClipboardText` and `...Files`; the list of sessions in `App.tsx`; what the vendored engine does as far as it calls back | one action per critical section, write of `st`, and emitted or delivered event |
| `RdpProofs` | theorems about it and about `RdpRender` | – |
| `KnownHosts` | `hostKeyCallbackWithExpectedFingerprint`, `appendKnownHost`, `TrustSSHHost`, `hostKeyDecision`, and the two flows `connectSSH` and `connectSFTP` | one action per access to the file, per key checked, per answer of the user; a call may fail at every step. The keys of the servers and the user's editor are of the world outside |
| `SshProofs` | theorems about it and about `SshSession` | – |
| `MC...` | constants of the runs | – |

State and code correspond by name: `accounts` and `sync` are the directories of
that name, `cookies` are those handed out whose eight hours are not over, `reqs` holds
the local variables of suspended handlers; `file`, `key`, `conf` and `mu` of
`LocalVault` are the data file, `localKey`, the secret of `sync.json` and `dataMu`;
`out`, `done`, `pending`, `expected`, `seqBuffer` and `gapTimer` of `SshSession` are the
variables `out`, `done`, `pendingTermBuffers`, `expectedSeq`, `seqBuffer` and
`seqGapTimer`; `fb`, `dirty`, `wake`, `queue` and `batch` of `RdpRender` are
`fb`, the dirty rectangle, `renderWake`, the channel of the hub and
`rdpRenderFrameQueues`. What `RdpRender` and `SshSession` share by name with the other
module of their session carries a prefix, as in `RenderSpec` and `SshSpec`, so that one
module of proofs can be about both. `conf` and `disk` of `SyncSystem` are the files of a
client and `ex` the local variables of its exchanges; `sess`, `uploads` and `call`
of `SftpFiles` are the fields of `sftpRec` and the local variables of the call that
holds its mutex; `rec`, `st`, `clip` and `tab` of `RdpSession` are `s.rdps[id]`, the
variable captured by the closures of `ConnectRDP`, `clipFiles` with `clipDone`, and
the entry in `rdpSessions`. `flow` of `KnownHosts` is a run of `connectSSH`
or `connectSFTP` with the local variables of the call it waits for, and `db` what
`knownhosts.New` has read.

Definitions marked "Faulty variant" are not part of the specifications. They
are mistakes the code could contain, and each property is shown to fail when
the definition next to it is replaced by one of them.

Abstractions. Passwords, salts and tokens are fresh numbers. There is no clock: a
cookie may expire at any moment (`SessionExpires`). A blob of the sync
storage is its size, in `EmailMove` its owner. A secret is known by the key it
is encrypted under, `hosts.json` and `vault.json` are one file, and the token and the
automatic passphrase of `sync.json` are one secret, encrypted and written in one step. A chunk of
terminal output is its stream and number, and a payload is the chunks gathered
in it. The RDP surface is a row of tiles whose content is the number of the batch of
bitmaps that drew them last, and whether a snapshot is full, which the code decides by
areas and times, is a free choice. `SshSession` writes the payloads kept for a
terminal in one go instead of in a sorted loop; the buffer orders them either
way. In `SyncSystem` every edit gives both files a new number, and encryption is
a blob that can be read or a call that fails. In `SftpFiles` a file is the set of
chunks of a version that have arrived; which error a server answers with is left
out, and so is whether it replaces by rename: every rename may be refused. In
`RdpSession` a text on the clipboard is no files; its content is not followed. In
`KnownHosts` a key is its fingerprint and all keys are of one type; the server has one
address by number and may be called by name.
History variables (`kept`, `torn`, `fresh`, `clean`, `skipped`, `raced`, `failed`,
`touched`, `troubled`, `undone`, `hidden`, `late`, `missed`, `served`, `stale`, and the
passwords in tokens and cookies) are read by properties only.

`SftpFiles` implements `RemoteFiles`. The mapping takes a file that
`finalizeRemoteReplace` has removed, to rename the temporary file to its place a
second time, as still there (`Visible`): that gap is what the code cannot avoid on
a server whose rename does not replace, and the promise is that it ends in the new
file or, when the second rename fails, in an aborted replacement.

## 3. Runs

All runs explore the complete state space of their instance, within the bounds named.

| Run | Question | Instance | States |
|---|---|---|---|
| `account_server` | do stale copies break tokens, the environment administrator, or sessions before their time? | 2 addresses, 2 interchangeable usernames, 1 administrator, 1 suspended handler beside the immediate ones, 4 random values, 2 cookies (1 beside a suspended copy of a record), one second factor or pending reset at a time | 940,244 |
| `sync_store` | do limits and backups survive overlaps, failures and crashes? | 2 accounts, 1 suspended PUT beside the immediate operations, 3 sizes, 2 backups | 36,414 |
| `email_move` | is the data reachable after any failure, and what does a rollback restore? | 2 users, 3 addresses | 394,428 |
| `local_vault` | are keys and secrets kept by calls that overlap, and do methods with `dataMu` overwrite what they have not read? | 2 records, 2 keys, 2 calls beside `LocalVaultLock` and restarts; a legacy plain token only until keys are mixed | 1,703,124 |
| `ssh_session` | order, holes, waiting | stdout with 3 chunks and the banner, channel of 1, payload of 2 chunks, list of 2 | 330,738 |
| `rdp_render` | is a tile ever out of date without a reason, and does the canvas catch up? | 2 tiles, 2 batches of bitmaps, queue of 1, 2 streams | 346,031 |
| `sync_system` | do the two files stay together, and do settings survive, with clients and exchanges overlapping? | 2 clients with 2 exchanges each, 2 running at a time, 2 states or settings | 725,631 |
| `sftp_files` | is the promise of `RemoteFiles` kept, and who is left with what when requests fail? | 2 sessions, 2 paths, 2 uploads of 2 chunks | 515,861 |
| `known_hosts` | is anything saved or let through that the user has not confirmed? | 2 flows, 1 server with name and address, 2 keys, 1 change of key, 2 lines | 160,119 |
| `rdp_session` | does the tab end up with the truth and the connection closed, and is the clipboard offered that is staged? | 1 session, 2 stagings of up to 2 files, 1 event "ready" | 953,970 |

Why these bounds are enough to be interesting: one suspended handler beside all
immediate ones already gives every pair "old copy against new state", and four random
values a registration (two) and the use of a reset (two), or two accounts; a deletion
whose body comes with its head (`SelfDelete`) lets the account disappear under the
suspended one; the constraint `FewCookies` keeps two cookies, one to watch and one to
act with: an administrator and a user, or one user before and after a change. Beside a
handler suspended with a copy of a record it keeps one, which may run out and make
room for that of another login; `OneSwitch` keeps apart the second factor and a
pending reset, which no property reads. In `local_vault` the constraint
`NoPlainTokenOnceMixed` follows a legacy token in the clear only while the keys are
not mixed: the exceptions for such a token and for mixed keys are met one by one. Two
addresses are a move, three a move to a free address beside one that is taken. The
sizes 2, 3 and 8 lie on both sides of each guard and of the byte limit of the
backups. In
`ssh_session` four payloads can arrive in any order, the list of two overflows, and
two gaps can occur; a channel of one chunk is full after every send. In `rdp_render`
a queue of one is full after each frame, so backpressure, the drain loop and a lost
resend all occur, and the second stream closes a channel under both publishers. In
`sync_system` two exchanges of one client, or of two, overlap at every step, with one
edit or one change of the settings after the first; in `sftp_files` two uploads to
the same path meet in `finalizeRemoteReplace`, one of them in chunks, and a third
version is the file that was there; in `known_hosts` the two flows meet at each of
the three steps to the file, and the key changes between the question and the answer;
in `rdp_session` the second staging replaces the first while its files are being
served, and two files are what it takes for one to be late. Every bound is a constant
or a constraint of the `MC` module, and is named where it is declared. Deadlock is checked except in the runs of
`SshSession`, `RdpRender` and `RdpSession`, where a session may end for good.

Runs that show where the code and what the repository says of it part ways:

| Run | What is said | What happens |
|---|---|---|
| `account_stale_token` | "password change invalidates old session and old sync tokens" (server.test.mjs:489) | a handler suspended with the old record writes it back, tokens included |
| `local_vault_import` | "Export- und Importpfade behandeln Secrets vorsichtiger." (changelog.md:140) | `ImportSSHConfig` writes back the host list whose secrets were blanked for the user interface |

Further properties that the modules define and the model violates; add one to
the configuration named to see the counterexample:

| Property | Configuration | Counterexample |
|---|---|---|
| `UsernamesUnique` | `MCAccountServer.cfg` | a record read before the `await` restores a username another account has taken since |
| `SyncHasAccount` | `MCAccountServer.cfg` | an upload waiting for its body writes the file of an account deleted meanwhile |
| `AccountHasOneAddress` | `MCAccountServer.cfg` | a suspended handler recreates the account file of the old address after an e-mail change |
| `ClosedModeRejects` | `MCAccountServer.cfg` | the web registration uses the mode it read before its body |
| `AccountWithinQuota` | `MCSyncStore.cfg` | the projection of the backups drops the one to come first (`~` sorts before digits), the pruning keeps it; `QuotasExceededByOneVersion` bounds the excess |
| `ShrinkNeedsConsent` | `MCSyncStore.cfg` | the size guard compares with the file as it was before the body |
| `MoveKeepsData` | `MCEmailMove.cfg` | "self email change preserves uniqueness and moves sync data" (server.test.mjs:586): the last unlink fails when the old sync file is gone already, and the rollback removes the new one |
| `UploadComplete` | `MCLocalVault.cfg` | "vor Export entsperren, sonst fehlen Tresor-Secrets" (appservice.go:3481): `SyncPush` does not ask the vault's status; with a token left in the clear and a locked vault it uploads the hosts without their secrets |
| `KeyframesHeal` | `MCRdpRender.cfg` with `MaxOpens = 1` | "Periodic full keyframes heal any dirty rects skipped during backpressure" (rdp_render.go:136): a full frame is only made when something is dirty; on a still desktop the skipped tile stays out of date |
| `SavedMeansSaved` | `MCKnownHosts.cfg` | "SSH Host-Key gespeichert" (appservice.go:1546) is returned, without error, for a server that did not answer and for a key that is not the one confirmed; nothing was saved, and the flow connects once more and fails with the question it has just had answered |

What else translating the code has shown, without a property that could say it: an
account without data answers a GET with 403 (server.mjs:677), so that the branch of
the user interface for that case is never taken (App.tsx:1493); `Close` during the dial
of an RDP session leaves a connection nobody closes (rdp.go:766, the exception `missed`
of `NothingLeftOpen`); the error of staging names a "Sitzung" where
`rdpMissingOrSet` looks for a "Session", so that it does not close the tab
(App.tsx:866); two flows that save two keys of one host leave a second line without
effect.

## 4. Fairness

Only `SshSession` and `RdpRender` state liveness. `FairSpec` of `SshSession`
has weak fairness for each goroutine that writes to the channel, for the output
pump, and for the event loop of the user interface: the Go scheduler runs a
goroutine that can go on, `select` on a closed `done` or a ticking ticker does
not block, and the browser handles events and timers. `FairSpec` of `RdpRender`
has it for the OnBitmap callback, the pump, the call of `RDPRenderEndpoint`, the
websocket and the animation frame. Nothing is assumed of the remote shell or
desktop, of the user, or of connections. `ReadersEnd` needs the readers only;
`NothingWaitsForEver` needs the event loop, whose timer it is about.

`NothingWaitsForEver` excludes one case, which its comment names: after two
payloads have been dropped from the list of a terminal not mounted yet, the
timer passes over the first gap and nothing arms it for the second.
`StaleForAReason` and `CanvasCatchesUp` name their exceptions too: `skipped`
(backpressure), `raced` (the full frame of `RDPRenderEndpoint` sent after a newer
frame of the pump) and `failed` (a refused batch wakes nobody).

## 5. Proofs

The eight modules `...Proofs` prove the theorems that `PROJECT.json` lists for all
values of the constants that satisfy the named assumptions (`NamesAssumption`,
`FilesAssumption`, `SizesAssumption`, `StoreAssumption`, `HostsAssumption`,
`VaultAssumption`, `SshAssumption`, `SyncAssumption`, `SftpAssumption`, `RdpAssumption`
and `RenderAssumption`): the null values are none of the real ones and differ where they
meet, the environment administrators are account names, each host has an address, the
bounds are numbers, and positive where the code's are. `StoreAssumption` says that the
accounts are finitely many and that a blob has a largest size, which `readBody` gives it
(server.mjs:394). No theorem assumes fairness.

`AccountServerProofs`. The invariant `IInv` adds to the four properties what makes
them inductive: every password number in a record, a suspended copy or a cookie was
issued; two copies of records with the same password have the same session revision,
wherever they are (in the store or in a suspended handler), and so has a cookie, until
it expires; and
a copy carried by a handler is of an active account. Without the statement about
copies, `SessionLastsWithPassword` is not inductive: a write-back could pair the
current password with another revision. The argument goes in two halves.
`EffectKeepsInvariant` shows that `IInv` is kept by any step with a certain *effect*:
each record is left, removed, replaced by a copy that exists already up to tokens and
names, or given a fresh password. Then one lemma per group of actions
(`AccountNextEffect`, `CookieNextEffect`, `BeginNextEffect`, ...) shows that its
actions have that effect. `TypeCorrect`, `TokensMatch`, `EnvAdminSafe` and
`SessionsLast` follow.

`EmailMoveProofs` proves, for any users and addresses and whichever operation fails, type
correctness, that the data stays reachable (`DataStaysReachable`) and what a completed
rollback restores (`RollbackRestoresAll`); both name the failure of the last unlink as
their exception. Its invariant `IInv` adds `JobOK`, which says for each step the move has
reached, forwards and backwards, which files of the two addresses are as they were in
`job.before` and which are changed; `SyncRestored` is what the rollback makes of the
sync files, by the operation that failed. `DataReachable` is part of the induction: a
move begins in a state where the data is where the account is.

`SyncStoreProofs` proves all properties of the run `sync_store`. `retainedBackupEntries`
and the quotas are folds over sequences and sets, so the first part is about those: a
fold is the function its equation describes (`FoldExists`, `FoldUnique`), by the
smallest subset at which two candidates differ, since the strict subsets of a finite set
are well-founded. From it follow the lemmas about sums (`BytesAppend`, `SumChange`, ...)
and about what is retained: `RetainedWithinLimits`, and `RetainedCompared`, which bounds
what the pruning keeps by what the projection of the quota check has counted. The
properties are not inductive where a write was interrupted: a copy without its pruning
exceeds the limits until the next completed write. `RetentionUnlessTorn` therefore lets
an account be over them only while it has a file, which that next write copies and
prunes with; and `QuotasUnlessTorn` leaves the bytes of torn accounts out of the sum,
because they may exceed their limits, and counts them again only after a completed
write, whose check has counted them too. `WriteQuota`, `InterruptedQuota`, `DeleteQuota`
and `MoveQuota` keep it.

`SshProofs`, output. The properties are about the screen, but a chunk passes from a
reader to the channel, the buffer of the pump, a payload, and from there out of order to
the terminal. `Output`, which is all payloads in the order of their numbers, then the
buffer of the pump, then the channel, is one sequence that no step but `Send` changes,
by appending one chunk (`PumpReceive` and `Flush` only move the borders, `Shift`).
`InOrder` and `NoHoles` of it are kept because `ReaderOK` says that a reader has at most
one chunk in hand, the one after its last in the output, for as long as the session is
open or the reader has seen it open; afterwards nothing of its stream is appended but
that chunk. On the other side `ScreenOK` says that the payloads written have ascending
numbers below `expected`, that the buffer holds none below it, and that before the first
clearing they are 1, 2, 3 and so on: only `GapTimer` passes over a number, and it clears
the terminal. The two halves share no variable but `payloads`. They meet in `Screen`,
whose chunks `FlattenSeq` lays out; `FlattenPlaces` gives each position of a
concatenation its payload and the place in it, ascending with the position, so that two
chunks on the screen are two of `Output` in the same order (`InOrderOnScreen`) and what
precedes a chunk in `Output` precedes it on the screen (`NoHolesOnScreen`).

`SshProofs`, host keys. `OnlyConfirmed` is not inductive: a call that is to trust a key adds
it, so `FlowOK` says that what such a call was given has been confirmed. What a call
has read is confirmed too, as the file may have been another then. `FlowMoves` covers
all actions that leave the file alone; `CreateStep`, `AppendStep`, `ConfirmStep` and
`OutsideStep` the rest. Lines are sequences over the set of confirmed lines, so that the
facts needed are that `RemoveAt` and `Append` stay in it and that it grows
(`RemoveAtType`, `SeqMonotonic`). `KnownHostsConfirmed` and `KnownHostsTypes` follow;
`KnownHostsBlocks` needs, beyond types, that a line added for a host without one
decides for it (`AppendDecides`).

`LocalVaultProofs` proves all properties of the run `local_vault`, for any number of
records, keys and overlapping calls. `OneKey` alone is not inductive: a call carries
values encrypted under some key and writes them later. The invariant therefore says
that, unless a disturbed call has written, there is a key `k` with `Under(k)`: the file,
the secret of `sync.json`, what every undisturbed call has in hand, and a key in service
that nobody is verifying all go together. A key that is being verified is the exception, and it is harmless
because whoever runs then is disturbed (`DisturbedOK`). Exports rest on `ExportOK` (an
undisturbed export still has every secret it has read, encrypted or in the clear) and
`OpenOK` (with the vault locked there is nothing left to decrypt), which except the
upload that `ExportComplete` leaves out (`Unasked`); `SecretsKept` on
`KeepsOK`, the same for what a call is going to write; `LockedWritesFresh` on `MutexOK`.
`Frame(c)` states what a step of one call means to the others; `OtherCalls` carries
`CallOK` across it, so that each action is proved about its own call only
(`GoOnStep`, `StartStep` and `EndStep` for the steps that look alike).

`SyncSystemProofs`. `FilesOfOneState` speaks of files on disk and in the blob; in
between, the data is in the hands of exchanges. `SlotOK` says what a clean exchange has
at each point: before it uploads or writes, two parts of one state; while it reads or
writes, the `hosts.json` that is on disk. `DiskOK` and `BlobOK` are the property itself.
Two exchanges of one client meet in `HalfWritten`: an exchange that reads is clean only
while no other is between its writes. `StepOf` and `QuietStep` carry the invariant over
any step of one client, and over one that leaves its files alone; one lemma per action
shows which it is. `SettingsLast` rests on the part of `SlotOK` about `fresh`: an
exchange that is fresh saves what is in the file (`FreshSaves`).

`SftpFilesProofs` proves all properties of the run `sftp_files`, the refinement among
them. Its invariant is about temporary files. `VersionOK(v)` says that version `v` is
known to one session only, by its list of uploads or by the call that is writing it, and
that its temporary file holds what that session has sent: nothing when a write begins,
the first `next` chunks between two calls, everything from the first request of
`finalizeRemoteReplace` on; somebody else's removal, `touched`, is the exception.
`CallOK` fits the step of a call to its method and says that an upload whose last chunk
has come has all its chunks. `StepOf` and `OwnStep` carry the invariant over any step of
one session, given what the step does to the versions it concerns; one lemma per action
gives that, and one lemma per group of actions its types. The refinement then has one
`...Maps` lemma per action: `SeenAt(p)` is what `Visible` shows at one path, and the
steps fall into those that change no such value (`QuietStep`, `GoingOnStep`,
`SameStep`), begin a replacement (`BeginStep`), give it up (`AbortStep`), complete it
(`RenamedMaps`: here the invariant says that the file renamed is whole) or are the
user's. The same case distinction shows which of them may lose a file.

`RdpProofs`, picture. `StaleForAReason` is about a stream that is up and a canvas;
`PipelineOK` extends it to the whole time since the endpoint took its full frame, and
says where the latest content of a tile is: on the canvas, if neither the frames
received nor those in the channel have the tile; in the last frame of either that has
it; or with a publisher that is still going to send to this stream (`Arrives`). "The
last frame that has it" is what the property itself does not say and what makes it
inductive: an older frame behind a newer one would undo it. That a publisher's frame may
come last needs `FramesOK`, its content is the latest or the tile is dirty again, of
which `raced` names the exception; `PlacesOK` says who may have a frame in hand and for
which stream. `Presented` is about the fold by which a batch of frames is drawn to the
canvas. One lemma per kind of step follows: `PublishStep` for all of `Publish`, in both
goroutines, `SnapshotStep`, `FullSnapshotStep`, `ServeStep`, `PresentStep`, `OpenStep`,
`DrawStep`, and `QuietPictureStep` for the rest.

`RdpProofs`, session. `LifeOK` ties the record, the goroutine of the login, the connection
and the tab together, `ClosedOK` says that whoever deletes the record is the only one to
emit "closed", and `ConnOK` that a record is gone with its connection or with the
exception `missed`. `StatusIsTrue` is about a moment at which nothing is under way;
`ShownOK` extends it to all others by what the tab would show in the end if the events
in flight arrived in their order (`Ends`), and whether it has been or will be told that
the session is over (`ToldClosed`). `ClipOK` says that the index the counting callback
holds is of a file of its own staging, which `ClearedServed` needs;
`OffersWhatIsStaged` is inductive beside the types.

Only model-checked: liveness (`ReadersEnd`, `NothingWaitsForEver`, `CanvasCatchesUp`),
which is beyond the proof system. All other properties of the runs that pass are proved,
under the assumptions named above; what the code violates (the two runs and the table of
section 3) is shown by counterexamples.

## 6. Not modelled, and why

* Account server: rate limits, CSRF and origin checks only refuse requests,
  which the model leaves out by not taking the step. TOTP codes are not
  verified, accounts of before e-mail addresses do not occur. A crash between the two
  saves of an approval registration is modelled (`RegisterCrash`), but nothing in the
  repository says what should be left then.
* Local vault: the two data files are one, and so are the two secrets of `sync.json`: that
  one of them is encrypted and the other in the clear is not represented. The keys that
  `SyncPull` writes to files of their own are left out.
* Known hosts: two hosts behind one address are not in the run, though in the model;
  `KnownHostsInfo` only reads.
* SFTP: listing, making directories, the checks for symbolic links and the local side
  of a transfer change nothing the properties see.
* SSH: `WriteSSH` and `ResizeSSH` pass their argument on. The terminal is not
  remounted: the pane stays rendered while the session is in the list.
* RDP: packet bytes and pixel formats; the size of the surface is fixed for a
  session, as in the code, where a new size is a new session. Mouse and keyboard are
  passed on. `internal/rdpstack` is called by no other package.
* Updates: the manifest and its signature are checked, files are fetched and put in
  place in one goroutine, without state that another one shares.
* The rest of the table in section 1.

## 7. Plan

Done: all modules of section 2, with the proofs of section 5. Next, in this order:

1. `SyncStore` as the store `SyncSystem` talks to, with the size guards and their
   overriding, and a proof that it implements what `SyncSystem` takes it for.
2. Proofs about the tables of section 3: under which condition on the steps taken a
   property that the model violates holds after all.
3. Operators against reference definitions: `mergeHosts`, rate limits, the comparison
   of versions.
4. The two files of `LocalVault` told apart, and the two secrets of `sync.json`.
