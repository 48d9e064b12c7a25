# Verification project for remote-file-agent-server

TLA+ models of the server, model-checked with TLC and partly proved with TLAPS.
The repository's Go code is the reference; paths below are relative to
`src/internal/` unless they begin otherwise.

The server stands between *agents* (a process on each device, connected by one
WebSocket) and their users: an *admin* web page and *MCP* clients. A request for
a device becomes an RPC over the agent's WebSocket. Files come back by HTTP PUT
into an object storage, and users fetch them by download links that expire.

## 1. Inventory

| Component | Source | State | Operations | Talks to |
|---|---|---|---|---|
| Agent sessions | `ws/manager.go`, `ws/handler.go` | `Manager.connections` (device to connection) under `Manager.mu`; per connection the send channel, `deviceID`, the socket, `Connection.mu` | upgrade, hello, other messages, `close`, `SendToDevice`, `writePump`, stale-device ticker | registry, admin hub, RPC manager |
| Device registry | `devices/registry.go`, `devices/store.go` | `Registry.connections` (device to connection id) under its lock; SQL table `devices` | `Register`, `Get`, `SetConnection`, `Delete`, `CheckStaleDevices`, `CleanupAllDevices` | SQLite |
| RPC manager | `rpc/manager.go`, `rpc/types.go` | `pending` under a lock; per call a channel of capacity 1 and a context | `Call`, `HandleResponse`, `CancelRequest`, `CleanupExpired` | agent sessions, both ways |
| Object uploads | `objects/upload.go`, `objects/storage.go` | table `uploaded_objects`; a file and a `.tmp` file per object | `InitUpload`, `HandleUpload`, `UpdateObjectStatus`, `DeleteObject`, `CancelUpload` | file system, SQLite |
| Upload requests | `objects/zip.go`, `mcp/tools.go` | none of their own | compress, initialise, ask the agent, wait | RPC manager, storage |
| Download links | `objects/token.go`, `objects/api.go`, `objects/download.go`, `mcp/tools.go` | table `download_tokens`; `expires_at` of objects | generate, validate, download, delete, two clean-ups | storage |
| Admin hub | `admin/ws_manager.go` | map of admin connections, broadcast channel | connect, broadcast, drop slow readers | agent sessions |
| Admin API and sessions | `admin/api.go`, `auth.go`, `session.go`, `middleware.go` | session table under one lock | login, logout, device calls, session clean-up | RPC manager, registry, audit log |
| MCP server and sessions | `mcp/server.go`, `mcp/session.go`, `mcp/tools.go` | session table; selected device and response channel per session | messages, SSE streams, tools, session clean-up | RPC manager, registry, storage, links |
| Concurrency limit | `middleware/limiter.go` | a channel that holds an element for each running request | take or refuse, give back | wraps HTTP handlers |
| Rate limiter | `middleware/limiter.go` | map of token buckets | `getLimiter`, clean-up | wraps HTTP handlers |
| Audit log | `audit/logger.go` | bounded queue; table `audit_logs` | `Log`, worker | SQLite |
| Metrics, logging, configuration, web UI | | counters, files | | |

The start-up code `cmd/server` is not in the repository. What it must do (start
the tickers, call `CleanupAllDevices`, serve HTTP with net/http, which recovers
panics in request goroutines, wrap handlers in the middlewares, which have no
callers here) is taken from how the rest of the code describes it and is marked
external.

**Hard behaviour.** There is little data and much interleaving: three maps and
two tables describe the same devices and are written one after the other, by
different goroutines, some under a lock and some not. `close()` runs in two
goroutines' hands and needs the lock one of them holds. An answer, a timeout, a
cancellation and a clean-up ticker race for one call. Uploads of an object share
a temporary file. Deletion, expiry and upload are each several SQL statements
and file system calls without a transaction, and each of them may fail or be cut
off by a crash, after which the rows and files stay and the maps do not.

**What makes each component correct.**
- *Sessions and registry*: a connection is closed by one goroutine, once; the
  two maps agree between two messages, and so do the rows and what the admins
  were told; a session is removed only by its owner, unless two hellos of a device
  overtake each other; a hello gets through.
- *RPC manager*: a call ends, once, with the one answer that was accepted for it
  or none; nothing is left in the table; late and repeated answers do no harm.
- *Uploads*: a completed object has the file whose length and hash were verified;
  temporary files go, and it is known when they do not; an object does not stay in `uploading`.
- *Links*: an unexpired link that nothing overlapped while it was issued serves its
  object; what has expired goes.
- *Admin hub*: an admin's list converges to the registry's, whether it comes by events,
  as the first list or by a fetch of the page; the hub never waits for a page nor sends on
  a channel it has closed; an admin it gave up is gone.
- *MCP sessions*: a session lasts until it is idle for the timeout; a request that
  is done within it keeps its session; a request calls one device; a channel is
  closed once and no stream is left behind.
- *Admin requests*: a session that is over opens nothing; the limit loses no place.
- *Audit log*: it tells of nothing that did not happen; what was answered is logged or
  known to be lost, but for an RPC that a crash cuts off between its answer and its
  entry; entries are stored in order, once.

## 2. Modules

A step is what a goroutine does between two accesses to shared state. A critical
section without calls is one step; one with calls inside keeps the lock in a
variable meanwhile. SQL statements and file system calls are steps of their own,
and up to `MaxFaults` of them fail.

| Module | Models | Code to model |
|---|---|---|
| `DeviceRegistry` | registry and `devices` table | `online` is `Registry.connections`, `status` the row, `aged` the rows whose `last_seen` is beyond the checker's timeout; `StaleList`, `StaleLook`, `StaleUpdate` are the three steps of `CheckStaleDevices`. The other operations are operators used by the next module. |
| `AgentSessions` | `ws/manager.go` over the registry | `pc[c]` is where connection `c`'s readPump is: `helloLock..helloAck` is `handleHello`, `closeLock..closeSend` is `close()`. `target` and `resume` say whose `close()` it runs and where it returns to, so that the `close()` of a replaced connection inside `handleHello` is a nested call. `mgrMu` and `connMu` are the locks while they are held over several steps; `queue`, `closed` and `writer` are the send channel and its pump; `feed` is the last event the admin hub was given; `fate` tells whether the process is up. |
| `SessionDirectory` | abstract | a connection is *admitted* when its device has no session, *enters* itself, and *leaves* once. One that is admitted alone finds nobody else's session in its place, neither when it enters nor when it leaves; several may be admitted before the first enters, and then they may replace and remove each other's. Every entry and removal names the connection that makes it. |
| `DeviceLife` | abstract | a device gets a row, an entry, is announced, loses its entry, its row, is withdrawn, in that order. `AgentSessions` implements it, `AdminHub` takes its agents from it. |
| `AgentSessionsProps`, `AgentSessionsProofs`, `MCAgentSessions` | properties; theorems; instances | |
| `RpcCalls` | `rpc/manager.go` | `pc[r]` is where `Call` is; `parked` is a `select` that found nothing ready, `SelectResponse` and `SelectDone` one that did, either when both are. `hpc`, `hreq`, `hreply` are `HandleResponse` in a readPump. `ctx` and `due` are the context and its timer. The agent sessions are the set `connected` of devices, which changes freely until `frozen`: what `FreezeIsTotal` shows of `Manager.mu`, and the one thing a call cannot time out of. |
| `CallContract` | abstract | a call begins, accepts at most one answer, ends once. |
| `RpcCallsProps`, `RpcCallsProofs`, `MCRpcCalls` | properties; theorems; instances | |
| `ObjectStore` | uploads, deletion, cancellation | `final` and `temp` are directory entries and name files; `lo` and `hi` say whose bytes are in the two halves of a file, and `fd` which file an upload has open. Two halves are enough for two bodies to mix. `deleted`, `overlapped` and `left` only record which objects somebody tried to delete, which had two uploads at a time, and for which the removal of `.tmp` failed. |
| `ObjectLife` | abstract | an object is wanted, completes once and with a content, keeps it until its deletion has begun; it may fail, and "failed" and "gone" are not undone. |
| `ObjectStoreProps`, `ObjectStoreProofs`, `MCObjectStore` | properties; theorems; instances | |
| `DownloadLinks` | links, downloads, expiry | `link[i]` is what issuer `i` returned to its client and `tokens` the rows in the table; `Never` is the NULL of `expires_at`. Requests and clean-ups may take any time: `Tick` waits for nobody. `raced` only records the issuers that another issuer of the same object, or a clean-up that took it for expired, overlapped. Uploads are one step here, because `ObjectStore` takes them apart. |
| `DownloadLinksProps`, `DownloadLinksProofs`, `MCDownloadLinks` | properties; theorems; instances | |
| `ByteRanges` | `parseRange` and the answer of `ServeFile` in `objects/download.go` | No state: `Answer(header, size)` is what is sent, `Meant(p, size)` the bytes a part asks for. |
| `ByteRangesProofs` | theorems | `MCDownloadLinks` also evaluates their statements for all headers over small sizes (`SmallRanges`). |
| `AdminHub` | `admin/ws_manager.go` and the page's list | `dev[d]` is how far device `d` is with its hello or its `close()`, in the stages of `DeviceLife`, through which `AgentSessions` takes it step by step (failing statements are left to it); `HelloAgain` is a second hello of a connected device; `broadcast` and `hand` are what `run()` reads and holds; `apc` and `listed` are `HandleConnection` and the `ListOnline` in it; `send`, `closed`, `writing`, `reading` and `sock` are a connection, `view` is what the page shows, and `fetching` and `fetched` its GET of the list beside the WebSocket, at load and on refresh. `dropped` and `crossed` only record what happened, for `ViewsConverge`: a channel was full; a device changed while an admin's list was made or a fetched one was under way, or the first list could not be made. |
| `EventFeed` | abstract | a reader gets every message published while it is in, and the recent ones, once and in order, and at most one greeting; one that is put out loses the end of what is pending, never a part in between. |
| `AdminHubProps`, `AdminHubProofs`, `MCAdminHub` | properties; theorems; instances | |
| `McpServer` | `mcp/session.go`, the handlers of `mcp/server.go`, `mcp/tools.go` | `table` is `SessionManager.sessions`, `chosen` and `closed` are a session object, which requests (`holds`) and streams (`reading`) keep when the clean-up removes it. `pc[r]` is the next RPC of a request's tool; `target` is the device it took from the session, `asked` those it has called. `idle` and `held` count the time since a session's last use and since a request began. A request waits in `body` for its client, and in a call for the agent or, when `frozen`, for ever. |
| `SessionContext` | abstract | an id has a context from its first use until it is idle for the timeout, and keeps the device selected in it. |
| `McpServerProps`, `McpServerProofs`, `MCMcpServer` | properties; theorems; instances | |
| `AdminRequests` | `admin/*.go` but the hub, the concurrency limit, `audit/logger.go`, handlers of `objects/api.go` | `pc[r]` is where request `r` is between middleware, handler and audit entry. Sessions and entries are named for the request that made them. `slots` is the length of the limit's channel; `queue`, `hand` and `stored` are the audit channel, the worker and the table. A request holds its place while it waits in `body` for its client and when it is `stuck` in a call that waits for the frozen `ws.Manager`. `missing`, `late` and `ended` only record what happened. Calls are those of `CallContract`. |
| `AuditTrail` | abstract | what is added is written in order, once, unless it is lost before. |
| `AdminRequestsProps`, `AdminRequestsProofs`, `MCAdminRequests` | properties; theorems; instances | |

`AgentSessions` composes with `DeviceRegistry` by EXTENDS (the registry has no
goroutine but the checker), and `AdminRequests` with `CallContract`, which `RpcCalls`
is shown to implement: what holds of admin requests over the contract holds over
the RPC manager. `FreezeIsTotal` of `AgentSessions` is what `Freeze` in `RpcCalls` and
`McpServer` and `CallHangs` in `AdminRequests` stand for: a call that has not sent its message
waits for `Manager.mu` outside its `select`, and may wait for ever. In the same way `AdminHub` composes with `DeviceLife`: what the pages
see does not depend on how hello and `close()` get their device from stage to stage.
In `McpServer` a call is one step, which the answer or the error ends. `RpcCalls`, `ObjectStore`, `DownloadLinks` and `AdminHub` see
their neighbours through an environment that may do more than the neighbour:
connections come and go at any time, an agent answers whatever it likes whenever
it likes, the request that asked for an upload may fail before or after it, devices
come and go while an admin connects.

Definitions that begin with a comment "Mutant of" are faulty variants of the
operator after them. No action uses them; each shows that a property depends on
the code it is about.

## 3. Runs

`tlc -config X.cfg M`. "Distinct states" are those of a complete search; every
passing run takes under three and a half minutes with two workers.

| Run | Question | Bounds, and why they are enough |
|---|---|---|
| `agents_orderly` (`AgentsOrderly.cfg`) | One connection of an agent at a time: do maps, row and admins' event agree between messages, and do the devices implement the life of a device? | One device, two connections, so that the second meets what the first left. Right and wrong tokens, one failing statement, a crash at any point, the stale checker, a send queue of 1 so that it fills. Devices interact only through locks and the database's statements. |
| `agents_overlap` (`AgentsOverlap.cfg`) | Two connections of one agent at a time: who closes what, does the map implement the directory, does everyone get through, and what follows once a hello replaces a connection? | Two connections are what a replacement involves, or two hellos between lookup and entry. A crash at any point, after which a connection that was cut off is used no more. Right tokens only: wrong ones are `agents_rejected`. |
| `rpc_calls` (`RpcCalls.cfg`) | Does a call end once, with the one accepted answer or none, leave nothing behind, and end at all? | Two calls and two readPumps: enough for two answers to one call over an old and a new connection, and for one ticker to take both. The connection manager may freeze at any point. |
| `uploads` (`Uploads.cfg`) | Is a completed object backed by the file that was verified, does `.tmp` go, does `uploading` end, and does the object live as `ObjectLife` says? | Two PUTs, in sequence or overlapping, one deletion, one cancellation, one failing call, a failing requester, a crash. Bodies are exact, short or long; one that is corrupt or breaks off fails where a short one does. Objects share nothing, so one is enough. |
| `links` (`Links.cfg`) | Does an unexpired link serve its object, and does what expired go? | Two admins and a tool issue links to one object over the times 0, 1 and 2, with a life of one tick, each as slowly as it likes: a link expires, another renews, the clean-up meets both or overlaps a request; one download, one deletion, one failing call. A third tick would only repeat a renewal. |
| `admin_feed` (`AdminFeed.cfg`) | Does an admin's list end up right, does it get a feed without gaps, and does the hub neither wait nor send on a closed channel? | One agent, one admin: admins meet only in the loop of `run()`, which treats each alone, and an event is about one device. The hub's channel holds one message and the admin's two, so both overflow; the agent connects, says hello again or reports progress three times in all; the page fetches as often as it likes, and its first list may fail. |
| `mcp_sessions` (`McpSessions.cfg`) | Does a session last while it is used, does a request keep one device, and does everything end? | Two clients and a stream share one session id. Two session objects: one in the table and one that was removed while somebody held it. Two devices to select. The timeout is one tick, a poll repeats once and a directory holds one other, so that each loop is left in both ways. |
| `admin_requests` (`AdminRequests.cfg`) | Does the limit lose no place, does a session that is over open nothing, and does the audit log tell the truth? | Three requests of any kind, two at a time, so that one is refused, one logs in and another uses the session. A queue of one, so that it overflows; a session is over with the first tick, before or after any step; one failing INSERT, one crash. |
| `agents_replaced` | violated `HelloReturns` | see findings |
| `agents_rejected` | violated `NoPanic` | see findings |
| `rpc_select_race` | violated `ResponseWinsSelect` | see findings |
| `uploads_torn` | violated `StoredIsVerified` | see findings |

`CHECK_DEADLOCK FALSE` stands where connections, uploads or requests are used up
and the system rests. `agents_orderly` and `mcp_sessions` check for deadlock; in `rpc_calls` nothing
may be left to do after a freeze.

**Environments, and what they leave out.** Some properties hold in some
environments only, and the constants say which.
- `Overlap = FALSE`: an agent opens a connection when its last one is cleaned up
  here. It excludes half-open TCP connections and two agents with one id. The
  opposite is checked in `agents_overlap` and violates what `agents_replaced` says.
- `Tokens`: the enroll tokens agents present.
- `agents_overlap` has no request that sends: the clause of `FreezeIsTotal` about
  those is proved, not met in the run.
- Uploads of one object may overlap; `CompletedIsBacked` then promises a file, and
  the verified one only to objects outside `overlapped`.
- Requests for links may take any time. What is promised of a link is promised unless
  another request for its object, or a clean-up that took the object for expired, overlapped the
  link's own request (`raced`). Both overlaps do harm, which the observations below describe; a
  clean-up or a request that comes later does none.
- `LongLived`: the devices whose rows may get older than the checker's timeout. A
  row does not get old within the hello that wrote it.
- An agent announces one device id per connection; the code lets a second hello
  change it.

**Fairness.** `AgentSessions`: strong fairness of each readPump, because it waits
for locks that others keep taking and Go's mutexes hand over to a waiter that has
waited long; weak fairness of each writePump, which nothing disables, and of the
service manager's restart. Agents and the network owe nothing: they may stay
silent for ever. `RpcCalls`: a call's own goroutine runs, time passes and timers
fire; neither the agent, nor the ticker, nor the readPump owes the call anything.
Its lookup and its send take `Manager.mu` and the connection's mutex, and are not fair
once the connection manager is `frozen`.
`ObjectStore`: an upload that has begun goes on, since its bytes arrive or its
connection breaks; whoever asked for it need not notice. `DownloadLinks`: the two
clean-up tickers go on; users need not. `AdminHub`: `run()`, the writePumps and the
ends of readPumps go on, since a write to a page that does not read fails after ten
seconds; `HandleConnection`, which queries the database, and the pages owe nothing.
`McpServer`: the clean-up ticker goes on, handlers do what they do next, a stream
notices that its channel is closed; a client does not owe the body of its request, and a
call does not end after a freeze. `AdminRequests`: handlers and the audit worker go on, and
calls end by their timeout, which is what `RpcCalls` shows of them, unless they hang; no client
owes a body. No deadline for reading a body is set in the repository. `CallsEnd`, `AllEnd` and
`AllSettles` say that these are the only ways in which something does not end.

## 4. Findings

- **`agents_replaced`** `ws/manager.go:226`. An agent that reconnects while its
  old connection is registered stops the server: `handleHello` calls `close()` on
  the old connection while it holds `Manager.mu`, and `close()` locks `Manager.mu`.
  `FreezeIsTotal` shows (and is proved) that this is final for every device: no
  hello, no clean-up, no event and no send gets through until a restart.
- **`agents_rejected`** `ws/manager.go:466`. A wrong token closes the connection
  (`:218`) and goes back to the read loop. The reply to the agent's next message is sent on
  the closed channel; if the socket ends instead, the deferred `close()` (`:121`) closes the
  channel again (`:500`). Either panics in a goroutine nothing recovers: the process ends.
- **`rpc_select_race`** `rpc/manager.go:262`. The response is sent before the
  context is cancelled so that the response wins, but a caller that enters its
  `select` after both finds both branches ready.
- **`uploads_torn`** `objects/upload.go:56`. Overlapping uploads of one object
  write one temporary file, while each hashes what it received: the second truncates what the first
  has verified, or their bytes mix.

Met while modelling, visible in the models' steps, and not run on their own:
- The clean-up of an old connection removes a new one's entry from the registry by
  device id (`ws/manager.go:488`): in an overlap the device is connected and not online.
- The lookup and the entry of a hello are two critical sections (`ws/manager.go:228`, `:246`). Two
  hellos of one device that are both between them replace each other's entry, and the `close()` of the
  one removes the other's by device id (`:481`). `SessionDirectory` allows for it, and for nothing else.
- A request waits for `Manager.mu` outside its call's timeout (`ws/manager.go:505`): after a freeze
  it never ends and keeps its place in the concurrency limit, as does one whose client does not
  send its body. `CallsEnd`, `AllEnd` and `AllSettles` except both.
- `CheckStaleDevices` looks for a connection under the registry's lock and runs its
  UPDATE without it (`devices/registry.go:194`). An agent that registers between the two,
  while its old connection is cleaned up, has its new row marked offline, and requests to
  it are refused until it registers again.
- `close()` deletes the device's row at every disconnection, although
  `src/DATABASE_WRITES_ANALYSIS.md:44` counts one registration per device.
- `HandleResponse` drops the agent's error (`rpc/manager.go:233`), which
  `objects/zip.go:54` wants to print; `ErrDeviceOffline` is never returned.
- The deferred removal of `.tmp` tests the `err` of `CopyN`, which is nil exactly
  for a body that was too long (`objects/upload.go:64`), and a removal that fails is not noticed
  (`:65`): `TempIsRemoved` exempts both.
- A deletion that overlaps an upload leaves the file (`objects/storage.go:229`).
- A requester that gives up marks a completed object failed (`objects/zip.go:114`).
- `get_download_link` returns a link for the empty object id when an upload fails,
  since `err` is shadowed (`mcp/tools.go:416`): `LinksAreBacked` speaks of the links
  that name an object. It sets no expiry, so its objects stay for ever, and its
  links live 24 hours (`mcp/tools.go:453`) where `src/docs/MCP_USAGE.md:332` says
  10 minutes.
- A request for a link is two statements, insert the token and set the object's
  expiry (`objects/api.go:206`). Of two requests at a time the earlier may write last, and the
  object goes before the later link; so does a tool's link that is made between the two statements.
- A link is issued for an object whose expiry is over as long as its row is there
  (`objects/api.go:185`), and the clean-up does not look again at what it has listed
  (`objects/storage.go:299`): such a link loses its object at once. `raced` names these two.
- An admin that connects while a device changes may be sent a list that is older
  than an event queued before it (`admin/ws_manager.go:86`), and its page stays wrong
  until the next event about that device. `ViewsConverge` exempts such admins, which
  `crossed` names. The same goes for the list a page fetches when it is loaded, beside its
  WebSocket, or on refresh: the answer overwrites what events have said since
  (`src/web/admin/devices.html:320`). If the first list cannot be made, none is sent
  (`admin/ws_manager.go:94`). An event the full broadcast channel drops (`:139`) does the same
  to every page.
- `run()` may close the channel of an admin that is still being sent its list: the
  send panics (`admin/ws_manager.go:112`), net/http recovers it, and the socket stays
  open without pumps (`apc = "panicked"`).
- A download whose file cannot be opened is answered 200 with no body
  (`objects/api.go:268`).
- A selection keeps a copy of the device's row. `get_download_link` tests the status
  in it (`mcp/tools.go:402`), which was `online` when the device was selected, and
  `get_device_status` without an id answers from it: neither notices that the
  device has gone. `McpServer` therefore calls a device that may be offline.
- A request that outlives the session timeout selects a device in a session that
  nobody finds again (`mcp/session.go:114`): `OutlivedOnly` and the abstract contexts
  allow for it. An open SSE stream does not keep its session alive.
- Nothing is ever sent to the channel an SSE stream reads, although
  `mcp/server.go:72` says "establish SSE connection for responses".
- `compressAndUpload` takes one path (`mcp/tools.go:633`), so a link for several
  paths always fails; every error of an RPC is reported as "RPC timeout"
  (`:314`, `:364`); `isDirectoryEmpty` (`:520`) asks once per nested directory, ten
  seconds each and no bound on all.
- The audit log has successes and failed logins only. A deletion whose answer comes
  after the timeout is done and not logged (`admin/api.go:318`); an RPC is logged
  after its client was answered, a deletion before. Entries are dropped when the
  queue is full (`audit/logger.go:77`), although `src/DATABASE_WRITES_ANALYSIS.md:123`
  says they must be persisted, and carry the time of their INSERT (`:51`). A process that dies
  between an RPC's answer and its entry (`admin/api.go:258`, `:261`) leaves no trace of it.
- A logout does not stop the requests of its session that run.
- A range whose last byte lies beyond the file is refused with 416
  (`objects/download.go:188`), where HTTP would cut it off; so are `bytes=size-` and
  every range of an empty file. `RefusedExactly` states what is refused.
- The rate limiter is keyed by `RemoteAddr`, address and port, although its comment
  says per IP (`middleware/limiter.go:69`), and creates a bucket by check-then-act.
- `RemoveConnection`, `DeleteOffline`, `BroadcastToAll`, `BroadcastDeviceList`, `CancelRequest`,
  `CancelUpload` and `RevokeToken` have no callers in the repository. Two of them
  are modelled, `CancelRequest` and `CancelUpload`, because they race with what is
  called.

## 5. Proofs

TLAPS checks the theorems for every value of the constants that satisfies the
assumptions declared in the modules (names outside the sets they stand for,
functions between the right sets, capacities that are positive naturals).

**`AgentSessionsProofs`.**
`TypeCorrect` comes first. `LockInvHolds` proves `LockInv` in every environment.
It is inductive with the types: a registered connection is still served
(`RegisteredInv`); a goroutine closes its own connection, and another's only while
it holds `Manager.mu` and that connection stays registered (`CloseInv`); the locks
are held exactly inside the critical sections (`MutexInv`). Without `CloseInv` a
nested `close()` could be anyone's, and nothing about the maps would follow.
`ReplacementFreezesManager` needs only `LockInv`: the holder of the lock waits in
`closeRemove` for the lock it holds. `RightTokensNeverPanic` adds that what the map
holds is open, if tokens are right.
`SettledDevicesAgree` needs `OrderlyInv`, for `~Overlap`: it says of every step of
the one goroutine that serves a device how map, registry, row and event stand. The
three agreement properties speak of settled devices only and are far from
inductive; `OrderlyInv` is what they follow from. `RowReadIsFresh` in it justifies
`Register`'s check-then-act. `ImplementsDirectory` is the refinement, step by step, for right tokens
and any number of connections at a time: a wrong token lets a connection close itself twice.
`DevicesLiveInOrder` reads row, registry entry and last event of a device as its stage
in `DeviceLife`; of the eight combinations two never occur. `StageInv` adds to
`OrderlyInv` what holds in the few steps it leaves open: at `helloSet` the entry is there
iff the device was announced, and when `close()` begins to take things away they are all there
or all not; a departure that is about to be told is one of an announced device.
`EventsFit`, the other half of `DevicesLive`, says of each event that it comes at the
stage where `AdminHub` sends one (`Announce`, `HelloAgain`, `Withdraw`), and that no `close()`
of an announced device ends without one. Nothing is claimed after a failing statement
(`intact`).

**`RpcCallsProofs`.** `CallInv` ties the table, the channels and the readPumps
together: a request that a readPump has taken was sent and is no longer pending, no
two readPumps own the same one, and an answer is in the channel or returned, never
both. From it follow `CallsAreSafe` (the channel has room, nothing leaks, a
cancelled call has a cause) and `ImplementsContract`, with the answers on their
way, in the channel and returned as the abstract `accepted`.

**`ObjectStoreProofs`.** `TempInv` says at which steps of an upload `.tmp` may exist.
`FilesInv` keeps the files of objects apart: what an upload has open, or a directory
entry of its object names, was created for that object, and an object's two entries
are different files. `SoleInv` says that an
upload outside `overlapped` is alone in its steps; from it `WholeInv` follows, which
says for each step of a lone upload what its file holds (`OwnFile`), and that the
file at the path of a completed object is a verified one. `HasFileInv` places the
deletions. `CompletedObjectsAreBacked` combines them, for any number of uploads,
deletions, failing calls and crashes.
`ImplementsObjectLife` is the refinement of `ObjectLife` for objects outside
`overlapped`. `Stage` is the status column, but "failed" counts as "wanted" while an upload is on
its way, since `UpComplete` overwrites it; `Stored` names the upload whose whole
body the path holds. `LifeInv` is what it needs on top of `WholeInv`: the object of an
upload on its way has not completed, and a row goes by a deletion only.

**`DownloadLinksProofs`.** Even the types need `IssuedInv`: an issuer has its link
exactly when it has stored the token. `TimeInv` bounds a token's expiry by the clock, so that
one generated later never expires earlier. `KeptInv` is the heart: of an object that nobody
asked to delete and no failing call touched, `ObjectInv` holds, for issuers outside `raced`.
One that is at work is the only issuer of its object, which is there and out of the clean-up's
reach by the time its token is made (`WorkInv`). One that has returned its link has an object
with row and file that expires no earlier than the link, and no issuer at work is about to
store an earlier expiry (`LinkInv`). Nothing is claimed of the other issuers, and who is
once in `raced` stays there. `ReadInv` and `ServeInv` carry this through the steps of a
download.

**`ByteRangesProofs`.** For every header and size, an accepted header is answered
with exactly the bytes it asks for, at least one; what is refused is stated exactly;
a download resumed after `k` bytes gets the rest.

**`AdminHubProofs`.** `ClosedInv`: an admin that is closed has left the map, hence
`RegisteredIsOpen`. `ViewInv`: of a device that does not change, the last message in
the broadcast channel, else the one in `run()`'s hand, else the last in the admin's
own channel, else the page, agrees with the registry, unless something was dropped
or crossed. A list that is being made for an admin, or fetched by its page, agrees with
the registry as long as no device changes (`ListAgrees`, `FetchAgrees`), so that it may be
shown at any time. When all channels are empty `ViewInv` is `ViewsConverge`.
`HubImplementsFeed` reads hand and broadcast channel as the feed's recent messages and an
admin's channel followed by these as what it has still to get: `HubSend` then moves nothing
for an admin that has room, and cuts the end off for one that has not. `FeedInv` says that
an admin has an empty channel before it comes in, that one which is being sent its list is in the
map or closed, and that its pumps run only after that.
The lemmas on `\o`, `Append` and `InsertAt` carry the weight. It needs no exemption: unlike
`ViewsConverge` it holds of admins that cross a change and when events are dropped.

**`McpServerProofs`.** `ToolInv` says that a request in a tool has a session and asks
the device it took. `SessionInv` relates the table, what requests and streams hold
and the clocks: a session in the table has been idle for no longer than any
request has held it, so the clean-up takes it from a request only after the
timeout. `SessionsAreContexts` is the refinement, action by action.

**`AdminRequestsProofs`.** `SlotInv`: the limit's channel has as many elements as
requests run. `FlowInv` and `SessionInv`: where a request is in its handler, what its
call has brought, and that a session that is over is never used again. `EntryInv`:
an entry is of a request that is over and whose call, if it made one, succeeded. The refinement
`LoggerImplementsTrail` reads table, worker and queue as one sequence.

**Only model-checked.** `CallsEnd`, `HelloReturns`, `AllGetThrough`, `UploadingEnds`,
`ExpiredAreRemoved`, `HubServes`, `AllEnd` and `AllSettles`: temporal properties under
fairness, which are out of the prover's reach. All invariants, all refinements and
`FreezeIsTotal` are proved. So are invariants no run lists, such as `CallInv`, `WholeInv`
or `StageInv`, which the listed ones follow from.

## 6. Not modelled

Heartbeats (they change no state), the listings and `GetLogs` (they only read),
formatting and logging. The stray file an upload creates when its object's row is
gone. Operations without callers, but for two
named above. The rate limiter: its token bucket is a library, and nothing else
depends on it. Metrics, the debug log, configuration and the web UI are not worth a
model. `PROJECT.json` gives the status of every part, the source lines of every
definition, and all hazards with the properties that cover them; three have none,
with the reason.

## 7. Plan

Done, in this order: `DeviceRegistry` and `AgentSessions`, because everything
else needs the connection map; `RpcCalls`; `ObjectStore`; `DownloadLinks`;
`AdminHub`; the abstract `SessionDirectory` and `CallContract`; `McpServer` with
`SessionContext`; `ByteRanges`; `AdminRequests` with `AuditTrail`; the theorems of
section 5, with the refinements of the seven abstract modules (`DeviceLife`, `ObjectLife`
and `EventFeed` last).

Dropped: a composition of `RpcCalls` with `AgentSessions` over one connection map.
`RpcCalls` lets `connected` change at any time and agents stay silent; what it must
know of `AgentSessions` beyond that is that the map's lock may be lost for ever, which is
its action `Freeze`.

Next:
1. Over one queue, what an admin is told of a device against `DeviceLife`: with
   `EventFeed` and without full channels, the stages a page sees are those of the device.
2. The link as an abstract lease on an object, which `DownloadLinks` implements for
   issuers outside `raced`; `KeptInv` is most of its proof.
3. The rate limiter's map of buckets and its clean-up.
