# TLA+ models of Eclipse Theia

Theia is an IDE framework. A *front end* (a browser page or an Electron window)
and a *back end* (a Node process) are two halves of one application. Everything
the halves do together travels over one socket, so most of the hard behaviour of
the system sits in the layers between that socket and the services:

    services            editor models, file watchers, preferences, tasks, AI, ...
    RPC                 RpcProxyFactory, RpcProtocol     calls, replies, cancellation
    service channels    ServiceConnectionProvider, DefaultMessagingService
    multiplexing        ChannelMultiplexer               open, ack, data, close by id
    connection          WebSocketConnectionSource, WebsocketFrontendConnectionService
    socket              socket.io                        sessions that come and go

This project models the layers from the connection upwards, checks them with TLC
on small instances and proves their safety with TLAPS for all values of the
constants. Five parts are done: of the layers the connection, the multiplexer and
RPC, and above them two services that live on awaits, shared objects and other
processes: file watching, from the deduplication of watches in the front end to the
watcher process, and the editor model with its file. The inventory below covers the
whole system, the plan says what follows.

All code paths are relative to `packages/` in the repository. Lines, by
definition, are in `PROJECT.json` under `map`; the hazards, each at its line, are
there too.

* [Inventory](#inventory)
* [Plan](#plan)
* [The models](#the-models)
* [What the runs check](#what-the-runs-check)
* [Bounds](#bounds)
* [Fairness](#fairness)
* [What is proved](#what-is-proved)
* [Where the code and its documentation disagree](#where-the-code-and-its-documentation-disagree)
* [What is not modelled](#what-is-not-modelled)
* [Running it](#running-it)

## Inventory

### Connection negotiation and reconnect (modelled)

*State.* The front end (`core/src/browser/messaging/ws-connection-source.ts`)
keeps the socket, `currentChannel`, its listeners on the handshake events and a
`SocketWriteBuffer`. The back end
(`core/src/node/messaging/websocket-frontend-connection-service.ts`) keeps, by
front-end id, a `ReconnectableSocketChannel` (its socket and its write buffer),
the handle of a close timer, and the ids marked for close.

*Operations.* INITIAL_CONNECT (create a context), RECONNECT (move it to a new
socket, or refuse), the disconnect handler of a socket (detach, then close at
once, after a timeout, or never), the close timer, `markForClose`, buffered writes
and flushes.

*Interacts* with the multiplexer above, which takes the channel and hears of its
close, and with socket.io below.

*Hard.* The two ends learn of a socket's death at different times (the back end's
ping timeout is a minute); a socket can die in the middle of a handshake; a timer
races a reconnect; what is written during an outage is buffered up to 100 KB.

*Correct when* a connected front end has exactly one context which is on its
socket, no timer or stale handler closes it, no channel talks to the context of
another, nothing is handled twice, and the front end gets back after failures.

### Channel multiplexing (modelled)

*State.* `ChannelMultiplexer` (`core/src/common/message-rpc/channel.ts`) keeps
`pendingOpen` (id to the promise of an `open()`) and `openChannels` (id to
`ForwardingChannel`).

*Operations.* `open`, the handlers of Open, AckOpen, Close and Data, `close` of a
channel, and the loss of the connection, which rejects what is pending and tells
what is open.

*Interacts* with service channels, which open the ids, and RPC, which writes.

*Hard.* Packets carry an id and no more, and ids are used again; both sides open
and close independently, with packets under way.

*Correct when* an `open()` makes one pair of ends that read each other's messages
and nobody else's, every `open()` is answered, and every close is told.

### Service channels (planned)

*State.* `ServiceConnectionProvider`
(`core/src/browser/messaging/service-connection-provider.ts`) keeps the
multiplexer of the current connection and `channelHandlers`, what to open again on
the next one. `DefaultMessagingService`
(`core/src/node/messaging/default-messaging-service.ts`) keeps its handlers by
path and a container for each connection.

*Hard.* A service being opened when the connection is lost is not in
`channelHandlers` yet. The opener's listener is attached in a promise job after
the AckOpen, while the other side may send as soon as it has acknowledged.

*Correct when* every service that was asked for is open on every connection, once.

### Remote procedure calls (modelled)

*State.* `RpcProxyFactory` (`core/src/common/messaging/proxy-factory.ts`) keeps
`rpcDeferred`, the promise of the protocol in use. `RpcProtocol`
(`core/src/common/message-rpc/rpc-protocol.ts`) keeps, for a channel,
`nextMessageId`, `pendingRequests` and `cancellationListeners` of the calls it
makes, `cancellationTokenSources` of those it answers.

*Operations.* A call on the proxy, `sendRequest`, `sendNotification`, the cancel of
a token, the handlers of Request, Notification, Cancel, Reply and ReplyErr, the
close of the channel and `listen` on the next one.

*Hard.* Channels close under calls that wait, are under way, are running or are
being answered; ids begin again at 0 on every channel; a write may fail because
the buffer of an outage is full, on four paths.

*Correct when* a caller gets the answer of its own call and no other, a call runs
at most once, a cancel reaches its own handler only, no map leaks, and each call
is settled.

### IPC channels (partly modelled)

`IPCConnectionProvider` (`core/src/node/messaging/ipc-connection-provider.ts`) forks a
process and starts the next when it exits: in `FileWatching`, with the order in
which the listeners on the close run. `BinaryMessagePipe`
(`core/src/node/messaging/binary-message-pipe.ts`) cuts messages out of the byte
stream between the back end and its child processes; not modelled. *Hard:* what is
under way when the process exits, ids that begin again in the next one. *Correct
when* requests reach a process that runs.

### References to shared objects (planned)

`ReferenceCollection` (`core/src/common/reference.ts`) shares one asynchronously
created object for a key among its users and disposes it with the last reference.
*Hard:* acquire, dispose and failed creation interleave at each await. *Correct
when* no user holds a disposed object and none is left when nobody holds it.

### Editor model and file resource (modelled but for errors)

*State.* `MonacoEditorModel` (`monaco/src/browser/monaco-editor-model.ts`) keeps the
text, a dirty flag, `bufferSavedVersionId`, the resource version its text is of,
`contentChanges` for incremental saves, and `pendingOperation`, a chain of syncs and
saves with a cancellation source for each kind. `FileResource`
(`filesystem/src/browser/file-resource.ts`) keeps `_version`, the version it last
read or wrote, and a lock.

*Operations.* Edit, undo, save (auto or manual), revert, sync on a change of the
file; open, read, stat, write and update of the resource.

*Interacts* with the file service, whose stat before a write refuses one that is
out of date, and with other programs on the same file.

*Hard.* Edits, saves, reverts and changes on disk between the awaits.

*Correct when* a model that is clean shows what the file has, and no text of another
program is overwritten unseen.

### Watch deduplication (modelled)

*State.* `FileService` (`filesystem/src/browser/file-service.ts`) keeps
`activeWatchers`, an entry for each resource and options with its count, its real
watcher or `subsumingParent` and its `subsumedChildren`, and an index of recursive
entries.

*Operations.* `watch`, `doWatch`, the disposal of a watch.

*Hard.* A recursive watch takes over those below it, unless their excludes differ;
when it goes they are promoted or find another parent. Entries come in any order,
and the provider is awaited before each.

*Correct when* every watch has a real watcher that reports what it asked for, and
nothing else is watched.

### File watching (modelled for one path)

*State.* `RemoteFileSystemProvider` keeps what a front end wants watched;
`FileSystemProviderServer` and `DiskFileSystemProvider` keep the handles of a
connection; `ParcelFileSystemWatcherService` and `ParcelWatcher`
(`filesystem/src/node/parcel-watcher/parcel-filesystem-service.ts`), in a process of
their own, share a native watcher among clients, with references by client.

*Operations.* watch and unwatch, the open and close of a connection, the start of a
watcher in several awaits, its errors, its disposal some time after the last
reference, the exit of the process.

*Hard.* A close with watches asked for, answered or given up; a timer against a new
reference; a disposal, an error or an exit in the middle of a start.

*Correct when* references are those of the handles, handles have an owner, what is
wanted is watched after every reconnect, and nothing stays watched that nobody wants.

### Terminal output, preference transactions, MCP servers (planned)

* `MultiRingBuffer` (`process/src/node/multi-ring-buffer.ts`): one writer runs over
  readers that fall behind; head, tail and each reader wrap at different times.
* `PreferenceTransaction`
  (`preferences/src/browser/preference-transaction-manager.ts`): edits batched
  under a mutex, concluded when the queue is empty; an edit may come between.
* `MCPServer`, `MCPServerManagerImpl` (`ai-mcp/src/node/`): several front ends
  start, update and stop one server whose start takes several awaits.

### Components without a module in the plan

| Component | State and behaviour | Why |
| --- | --- | --- |
| Socket endpoint (`core/src/node/messaging/websocket-endpoint.ts`) | accepts a socket after `allowConnect` | one hazard, listed; the rest is socket.io |
| Message encoding (`core/src/common/message-rpc/rpc-message-encoder.ts`) | none | its kinds of messages are in `RpcProxy`; the bytes are msgpack's |
| Events, cancellation, promises, disposables (`core/src/common/`) | listeners, one settled value | modelled by effect where they are used; sequential with unit tests |
| AI chat (`ai-chat`), tasks (`task`) | sessions and requests, processes and reports | candidates after the plan; a hazard of each is listed |
| Plugin host (`plugin-ext`) | VS Code extension API over `RpcProtocol` | wide, little protocol of its own |
| Debugging (`debug`) | sessions driven by external adapters | the protocol is the adapters' |
| SCM, search, notebooks, other views | view models | rendering |
| Collaboration, remote (`collaboration`, `remote`) | external protocols | not in the repository |
| Workspace trust and storage (`workspace`) | preferences and dialogs | sequential |
| Electron main process (`core/src/electron-main`) | windows | Electron's API; reload and close of a window are in `FrontendConnection` |
| Generator and tools (`dev-packages`) | none at run time | build time |

## Plan

In this order, the most important behaviour first. A module in bold is done.

| Module | Component | Composition | Theorems |
| --- | --- | --- | --- |
| **FrontendConnection** | connection | none | type, **context kept**, timers, marks, each message once, **who hears whom, and in order** |
| **Channels** | promise of the multiplexer | abstract | |
| **ChannelMultiplexer** | multiplexing | refines Channels | type, **held is registered**, ends agree, **each step is a step of `Channels`** |
| **RpcProxy** | RPC | over one channel at a time | type, **answers and cancels are own**, **at most once**, maps |
| **WatchDeduplication** | watches of the front end | gives `FileWatching` its watches | **covered**, links, index, no leak |
| **FileWatching** | the way of a watch to the watcher process | over a connection that closes, as `FrontendConnection` and `RpcProxy` have it | type, **references match**, **owners**, **no silent loss** |
| **EditorModel** | editor model, file resource, check before a write | one queue over one file | type, **nothing overwritten**, **settled is synced** |
| ServiceConnections | service channels | over the channels of `Channels`, which are opened again as `Recovers` of FrontendConnection allows; gives what `RpcProxy` assumes of `Listen` and `ChannelClosed` | each service is open at most once on a connection |
| BinaryMessagePipe | IPC channels | implements an abstract pipe of messages | read is a prefix of written, for chunks that do not cut a start |
| ReferenceCollection | references | none | a held object is not disposed |
| MultiRingBuffer | terminal output | implements a bounded log with readers | readers stay between tail and head |
| PreferenceTransaction, MCPServer | preferences, MCP | none | as they allow |

Each module comes with one run over an instance in which every action fires, and
one for each disagreement with a document that modelling brings up. The instances
have two or three actors, two or three values and two generations of whatever can
be replaced (sessions, channels, versions), which is where the defects of this
code would be.

## The models

### FrontendConnection

One front end, identified by one front-end id, and the back end's service. The
unit of the model is a *session*, one period for which the socket is up. Each end
has its own view of it: `socket` is the front end's, `alive` the back end's.
Packets of a session are in `up[s]` and `down[s]`, in order, lost with it.

| Variable | Code |
| --- | --- |
| `socket`, `currentChannel`, `channelOpen`, `writeBuffer` | fields of `WebSocketConnectionSource`; a channel is a generation number |
| `reconnectListeners`, `initialConnectListeners` | how many listeners `negogiateReconnect` and `negotiateInitialConnect` have on the socket; they are taken off by an answer only, so they outlive a session |
| `pendingEmits` | what socket.io keeps to send on the next connect |
| `listening` | sockets that have not said INITIAL_CONNECT or RECONNECT |
| `bound[s]` | the context whose disconnect handler is on socket `s` |
| `connection`, `attached`, `socketBuffer` | `connectionsByFrontend`, and the socket and buffer of that `ReconnectableSocketChannel`; a context is named by the session that created it |
| `timers`, `closeTimeout` | timers that run, and the one in `closeTimeouts` |
| `markedForClose` | `channelsMarkedForClose` |
| `thrown` | `closeConnection` was called with no connection there |
| `received`, `delivered` | what the current context and the current channel have handled |

| Action | Code |
| --- | --- |
| `Connect` | `handleSocketConnected`: RECONNECT if there is a channel, else INITIAL_CONNECT |
| `Disconnect`, `ReloadPage` | socket.io's disconnect, the end of a page |
| `ReceiveInitialConnect` | the INITIAL_CONNECT listener, `connectNewChannel` |
| `ReceiveReconnected`, `ReceiveReconnectRefused` | the RECONNECT listener; refused, it reloads the page or gives the channel up |
| `ReceiveMessage`, `Send`, `MarkForClose` | the channel's message handler, its commits, the call before a window closes |
| `Receive(s)` | the back end's handlers: `HandleInitialConnect`, `HandleReconnect`, messages |
| `Serve` | a message written by the context |
| `NoticeDisconnect(s)` | `handleSocketDisconnect`'s handler on `s` |
| `TimerFires(t)` | the close timer, `closeConnection` |
| `Restart` | the back-end process dies and starts again |

A packet is decoded as one message (`Decoded`) and a flush sends the whole buffer
as one packet (`Flushed`), as the code does. The constants are the settings
(`frontendConnectionTimeout`, 0 by default; `reloadOnReconnect`, off by default;
`KeepsId`, which holds in Electron, where the id is the window's, and not in a
browser, where each page makes a new one) and the faults.
`StaleDisconnects` says whether a front end can be back before the back end has
noticed the death of its last session. It can: socket.io's server learns of a
dead TCP connection by a ping timeout. The runs need both values, because much of
what one would expect holds only without it.

### Channels and ChannelMultiplexer

`Channels` is the abstract service: each `open()` is a *pair* of ends with a pipe to
each, an end reads what its peer wrote, in order, and is told of a close after the
last message. `ChannelMultiplexer` is the code: two multiplexers that know channels
by id only. It names each pair too, so that a message can be traced, but no
handler looks at the name.

| Variable | Code |
| --- | --- |
| `pendingOpen`, `openChannels` | the maps of each side's `ChannelMultiplexer` |
| `closed` | sides whose underlying channel's `onClose` has fired |
| `link[p]` | packets on the way to side `p` |
| `promise` | the promise an `open()` returned |
| `holder` | what the holder of a channel knows: open, closed by it, told |
| `written`, `read` | messages written to an end, and given to its `onMessage` listeners |

| Action | Code |
| --- | --- |
| `Open(p, id)` | `open`, with its throw for an id in use as guard |
| `Receive(p)` | `handleMessage`: `HandleOpen`, `HandleAckOpen`, `HandleClose`, `HandleData` |
| `Write(e)`, `CloseChannel(e)` | the write buffer's commit and `close` of a `ForwardingChannel` |
| `UnderlyingChannelClose(p)` | `onUnderlyingChannelClose` |

The refinement maps an end's state to the holder's knowledge, or to the promise
while there is no channel yet (`StateOf`), and its pipe to the data packets of its
peer in the link (`PipeTo`).

### RpcProxy

One proxy at the caller, and the server's protocols. A *channel* is one that
`ServiceConnectionProvider` opened for the proxy, numbered in order; each has its
own `RpcProtocol` at both sides. The two sides learn of a close separately, and a
server may still run handlers of a closed channel.

| Variable | Code |
| --- | --- |
| `channels`, `connected`, `serving` | channels opened, whether the last is open for the caller, those open for the server |
| `rpcDeferred`, `queue` | the deferred protocol, and the `.then` callbacks that wait for it |
| `state`, `answer` | the promise of a call, and whose results it got |
| `nextMessageId`, `pendingRequests`, `cancellationListeners` | the caller's protocol |
| `handlers`, `tokenSources`, `tokensCancelled`, `started` | request handlers that run, `cancellationTokenSources`, tokens cancelled, calls started |
| `dropped` | calls whose cancel or answer could not be written |

| Action | Code |
| --- | --- |
| `Listen` | `RpcProxyFactory.listen` with a new `RpcProtocol` |
| `MakeCall(c)`, `Send` | the proxy's `get` trap; the callback of `rpcDeferred.promise`: `sendRequest`, `sendNotification` |
| `Cancel(c)` | the token's listener, `sendCancel` |
| `ReceiveReply` | `handleReply`, `handleReplyErr` |
| `ChannelClosed` | `onClose` of protocol and proxy, `waitForConnection` |
| `ReceiveRequest(g)` | `handleRequest` up to the request handler, `handleCancel`, `handleNotify` |
| `Finish(r)` | the rest of `handleRequest`: the reply, or the error reply in its place |
| `ServerChannelClosed(g)` | the server's `onClose` |

A write buffer that may refuse a message is a choice of each commit
(`CallerCommit`, `ServerCommit`): what fills it is the outage below. Calls go one
way only, since requests of the two directions share no map.

### WatchDeduplication

Several consumers of one `FileService`, resources in a tree. A key is a resource
with its options: whether recursive, and its excludes.

| Variable | Code |
| --- | --- |
| `phase`, `wants` | what a caller of `watch` is about, and the key it asked for |
| `count` | `disposables` of an entry; 0: no entry |
| `real`, `subsumingParent`, `subsumedChildren` | the fields of `WatcherEntry` and `RecursiveWatcherEntry` |
| `index` | `recursiveWatcherIndexes`, one key for a resource |
| `watching` | ghost: the watchers the provider runs for each key |

| Action | Code |
| --- | --- |
| `Watch(c)`, `DoWatch(c)` | `watch`, and `doWatch` after its await: `Join`, `BeSubsumed`, `StartPlain`, `StartRecursive` |
| `Abandon(c)` | the disposal before the entry is there |
| `Dispose(c)` | the disposal of an entry: `Release` with the promotion of its children, in any order |

### FileWatching

Front ends, each with connections numbered in order; a client of the service for
each connection; the watcher process. One path, so one entry in the service's map.

| Variable | Code |
| --- | --- |
| `asked`, `watchOptions`, `calls`, `connection`, `connected` | `RemoteFileSystemProvider`, its calls and its connection |
| `serving`, `handle` | servers not disposed, and the handles of `DiskFileSystemProvider.watch` by id and connection |
| `told` | clients whose `onError` was called |
| `reachable`, `requests`, `messages` | whether the deferred of the proxy to the process is of the protocol in use; what is under way |
| `watcherId`, `watcherHandles`, `watchers`, `current` | the service: next id, handles, every `ParcelWatcher` with its stage, references and timer, and the one in the map |

| Action | Code |
| --- | --- |
| `Watch(i)`, `Unwatch(i)` | `RemoteFileSystemProvider.watch` and its disposal |
| `Open(f)`, `Close(f)`, `DisposeServer(c)` | a connection opens, with `reconnect`; closes for the front end; for the back end |
| `ServeCall(f)`, `Receive` | the server's `watch` and `unwatch`; answers and errors of the process |
| `ServeRequest` | `watchFileChanges`, `unwatchFileChanges` |
| `CheckPath(w)`, `Created(w)`, `Fails(w)`, `TimerFires(w)` | the steps of `start`, errors, the deferred disposal |
| `Crash` | the process exits: `doListen`'s listener, then the proxy's |

### EditorModel

One model on one file. Texts are numbers; a text that results from changes applied
to another text than they were made on is 0. A version of the file is its number
(`mtime`); the check before a write compares it.

| Variable | Code |
| --- | --- |
| `written` | the texts the file has had |
| `notice`, `stat`, `version` | a change event under way, the stat `isInSync` waits with, `_version` |
| `history`, `bufferSavedVersionId`, `dirty`, `resourceVersion`, `contentChanges` | `MonacoEditorModel`; `history` is the text buffer's undo stack |
| `queue`, `op`, `reverting` | `pendingOperation`: what is chained and what runs, with its stage; `revert` awaits |
| `seen`, `synced`, `disturbed` | ghosts: the versions the model has loaded or written, and the situations the code does not cope with |

| Action | Code |
| --- | --- |
| `Edit`, `Undo`, `Save`, `Revert` | `markAsDirty`, `fireDidChangeContent`, `scheduleSave`, `revert` up to its await |
| `ExternalWrite` | another program |
| `StatFile`, `StatAnswered` | `FileResource.sync` with `isInSync`, to the model's `sync` |
| `Start` | the next of the chain |
| `SyncOpen`, `SyncRead` | `doSync`: the file is opened (and `_version` set), then read and loaded |
| `SaveStart`, `Snapshot`, `Check`, `Ask`, `Write`, `SaveDone` | `doSave`: participants, what is taken, the stat and check, `shouldOverwrite`, the write, the stat after it |

`disturbed` marks what defeats the code, so that the properties say exactly what
holds without: `edit`, an edit while a save or the sync of a revert is awaited, which
is marked as saved; `undo`, an undo to the saved state after an edit that cancelled a
sync; `revert` and `load`, a text loaded over changes that stay in `contentChanges`;
`cancel`, a save cancelled after its incremental write was refused; `overtaken`,
another program that writes between the check and the write or before the stat after it.

### How the layers fit

`ChannelMultiplexer` assumes of its connection what FrontendConnection shows where
it shows it: packets arrive in order and at most once (`DeliveredInOrder`,
`ReceivedOnce`), and all are of one counterpart (`OneChannelPerContext`,
`OneContextPerChannel`). It assumes besides that none is lost before a close, which the code does
not grant across an outage (see `conn_v_coalesced`), and its results hold to that extent.
`RpcProxy` assumes `Channels` of one channel at a time, save that a write may fail,
and takes the reopening of the channel from `Recovers` and
`ServiceConnectionProvider`, which is the next module of the plan. `FileWatching`
takes its two connections from there: calls that wait for the proxy are sent first
on the next channel, those under way are lost with theirs, both sides learn of a close
separately. A watch of it is a real watcher of `WatchDeduplication` (`Covered`,
`NothingLeaks`), and the changes it reports are the `notice` of `EditorModel`.

## What the runs check

Twelve configurations; the states are TLC's distinct states.

| Run | States | Checks |
| --- | --- | --- |
| `conn_faults` | 344 546 | safety and recovery of the connection under all faults but stale disconnects |
| `conn_stale` | 160 063 | what remains true with stale disconnects, without reload |
| `conn_v_dropped`, `conn_v_coalesced` | | disagreements |
| `mux_channels` | 74 466 | the multiplexer implements `Channels`, and settles |
| `rpc_calls` | 265 619 | calls, cancels and answers across a close |
| `watch_shared` | 36 650 | shared watches, in any order |
| `watching` | 275 688 | watches across connections, failures and an exit of the process |
| `watching_v_leak`, `watching_v_restart` | | disagreements |
| `editor` | 7 229 211 | edits, saves, syncs and a revert against another program |
| `editor_v_reverted` | | a disagreement |

**`conn_faults`** lets sessions die at any moment, handshakes included, reloads the
page under the same id and restarts the back end. It shows that
contexts, sockets and disconnect handlers stay matched (`ContextsMatched`), that
`closeConnection` finds its connection (`NeverThrows`), that no close timer escapes
cancellation (`TimersCancellable`), that a front end which takes itself for
connected is (`AttachedWhenSettled`) and is not dropped (`KeptWhileConnected`),
that no page or channel talks to the context of another (`OneChannelPerContext`,
`OneContextPerChannel`), that messages come in order (`DeliveredInOrder`), that a
mark for close is consumed by its own page (`MarkIsOwn`), and that the front end
gets connected for good when failures stop (`Recovers`).

**`conn_stale`** has dead sessions noticed late and in any order. Contexts get lost
(that is `conn_v_dropped`), but nothing is handled twice (`ReceivedOnce`) and a
context whose front end stays away is discarded (`ContextDiscarded`). It has no
`reloadOnReconnect` (the default): a refused front end connects anew on the same page.

**`mux_channels`** opens, closes and opens again, with packets of the old channel
under way, and loses the connection on either side first. `ImplementsChannels` is
the refinement; `HeldIsRegistered` says that what a holder takes for open gets what
arrives; `EndsAgree` compares both sides when nothing is under way; `OpenSettles`
and `CloseIsTold` are liveness.

**`rpc_calls`** has a request whose handler waits for its cancel, one whose handler
does not and a notification, over two channels, with write buffers that may refuse
anything. `AnswerIsOwn` and `CancelIsOwn` are about ids that begin again,
`AtMostOnce` about a close with calls under way, `EntriesTracked` about maps that
could leak, `Accounted` and `CallsSettle` about callers left waiting. `Accounted` is
the part of `CallsSettle` that needs no fairness: in every state something is left
that will settle each open call, and a cancelled one's handler will be told, which a
cancel written before its request would undo.

**`watch_shared`** has four callers that watch and leave six keys on three nested
resources, with excludes that hide one from one of the watches above. `Covered`:
what is watched has a real watcher that reports it. `LinksAgree`, `IndexedIsReal`:
parents, children and index agree, however children are moved. `NothingLeaks`: the
provider runs what the entries say. Callers are symmetric.

**`watching`** has a front end that watches the path twice, over two connections, so
that two clients share the watcher. `RefsMatch` relates references, handles and
timer; `HandlesOwned` finds for each handle who will unwatch it; `NoSilentLoss` says
that what is allocated is watched or an error is told; `WatchSettles` that what is
wanted is watched after a reconnect, and `Discarded` that what is not wanted is not.

**`editor`** has two edits and another program's write, or the reverse, undo, three
saves and reverts. `NothingOverwritten`: at the check before a write the file had what
the model has seen, or the user agreed. `SettledIsSynced`: a clean model at rest shows
what the file has. Both except the situations `disturbed` names, and only those.

For every property `PROJECT.json` names a mistake in a handler that breaks it
(`Mistake:` definitions in the modules: a forgotten reset, a dropped delete, the
wrong key). They are what a plausible bug would look like and are used by no
action.

Runs say `CHECK_DEADLOCK FALSE` because a bounded system does stop: all sessions
used, all messages sent, all calls settled. `watch_shared` does not: every caller may
always go on.

## Bounds

| Bound | In | Value | Why enough |
| --- | --- | --- | --- |
| `MaxSessions` | `Connect`, and a fault happens only if two sessions are left (`CanFail`) | 4 to 6 | two faults and the sessions to recover from each; a refused RECONNECT takes two. Handlers relate a session to the context of an earlier one and the timer of another, three at a time |
| `MaxSent` | `Send`, `Serve` | 1 to 3 | 2 show order and repetition, 3 fill a buffer of 2 after a message sent directly |
| `BufferCapacity` | `Buffered` | 1, 2 | 1 overflows; 2 is the least that coalesces |
| one `markForClose` at a time | `MarkForClose` | | the mark is a member of a set; a second call adds nothing |
| `MaxOpens` | `Open` | 2 | one id twice, or two ids at once: a stale packet needs an old and a new channel |
| `MaxData` | `Write` | 1 | data of the old channel against a new one; order is the link's |
| `Call` | | 3 | two requests to confuse and a notification |
| `Consumer`, `Key` | | 4, 6 | two callers to share an entry while a parent comes and goes, and one more above; keys of each kind: hidden, compatible, not |
| `MaxConnections`, the last stays open | `Open`, `Close`, `DisposeServer` | 2 | a client of the old connection against one of the new |
| `Id` | | 2 | a reference that goes while another stays |
| `MaxErrors`, `MaxCrashes` | `Fails`, `Crash` | 1 | a failure at each stage; after an exit nothing is served, so that a second adds nothing to what is checked |
| `MaxTexts` | `Edit`, `ExternalWrite` | 4 | three changes: an edit before and one during a save, and a foreign write |
| `MaxCalls` | `Save`, `Revert` | 3 | one that runs, one that waits, one that cancels |
| `MaxVersions` | `Edit`, `SyncRead` | 5 | three edits and a load |
| `MaxChannels`, the last stays open | `Listen`, `ChannelClosed`, `ServerChannelClosed` | 2 | ids of an old channel against a new one; a server still busy with the old |

`CanFail` and the last channel that stays open are what makes "when failures stop"
part of the model. Bounds are for TLC; the theorems hold for any of them.

## Fairness

* *FrontendConnection.* socket.io reconnects with `reconnectionAttempts: Infinity`, so
  `Connect` is fair; both sides ping, so the death of a session is noticed
  (`Disconnect` of a session the back end has left, `NoticeDisconnect` of one the
  front end has left); Node runs the handlers of what arrived and the timers that
  expired. No fault, send, reload, or mark has to happen.
* *ChannelMultiplexer.* The connection delivers, and a side whose peer has lost it
  learns so. No `open`, write, close or loss has to happen.
* *RpcProxy.* `Listen`, as the connection recovers and `ServiceConnectionProvider`
  opens its services again; callbacks and messages are run. Request handlers
  return: those of `Patient` calls only once their token is cancelled. No call,
  cancel or close has to happen, but a close the server knows reaches the caller.

* *FileWatching.* Connections deliver, both ends learn of a close (`Close` of one the
  server has left, `DisposeServer` of one the front end has left), the process serves
  requests and runs expired timers, and `createWatcher` returns. A path need not
  appear (`CheckPath` is not fair), nothing has to fail, no watch has to be given up.
* *WatchDeduplication*, *EditorModel*: safety only. In the first each step is
  synchronous once the provider is there; in the second the user and the other
  program may go on for ever.

Weak fairness is enough throughout: each of these steps stays possible until it is
taken or a fault takes away its reason, and faults are bounded.

## What is proved

TLAPS proves the theorems for every value of the constants that satisfies the
`ASSUME`s of the modules: any number of sessions, channels, calls, ids and messages,
all settings. All obligations of the eight proof modules are proved (1 298, 1 803, 555,
3 857, 2 034, 705, 2 131 and 3 435, in the order below), without assumptions beyond
those named here. Every safety property a run checks, and the refinement, is stated
by a theorem; what is left to TLC is liveness.

**FrontendConnection_proofs**

* `TypeCorrect`: `Spec => []TypeOK`, in every environment.
* `MatchedAlways`, under `~StaleDisconnects`: the invariant
  `Matched == ContextsMatched /\ TimersCancellable /\ NeverThrows`. None of the
  three is inductive alone: a timer is safe because a context with a running timer
  is detached, that it is detached because the only live session with a disconnect
  handler is the one its context is on, and `closeConnection` finds its connection
  because both hold. `ContextsMatched` is the strengthening; the step that
  matters, `NoticeDisconnect`, uses that the session noticed is the attached one.
* `CloseFindsConnection`, `TimersStayCancellable`, `ContextsStayMatched`: its parts.
* `ContextKept`: `[][...]_vars`, no step drops or replaces the context of a
  connected front end. From `Matched`: what closes a connection is a timer, which
  implies it is detached, a disconnect, which is of the attached socket, or a
  handshake, which implies a session other than the attached one.

* `MarksAreOwn`: a mark for close is of the page its context belongs to. The invariant
  `MarkAttached`: while there is a mark the context is attached and has handled the
  message that made it; a handshake finds the context detached, and so without a mark.
* `HandledOnce`, in every environment: no context handles a message twice. `OneCopy`
  counts copies of a message over the write buffer, the packets under way and what the
  context has handled; each step moves a copy or drops it, and a new
  message has a new number (`MessagesNumbered`).

Without the assumption the theorems that make it are false: `conn_v_dropped` is the
counterexample for `ContextKept`.

**FrontendStreams_proofs**, on `Matched` and under `~StaleDisconnects`, as what it
proves fails with stale disconnects

* `StreamsKept`: the inductive invariant `Streams`, in four parts.
  * `OneSession`: only the last session is up at either end. Without it a message of
    an old session could overtake one of the next.
  * `Asked`: a session that no context is bound to has its question (INITIAL_CONNECT or
    RECONNECT) first on the way up, or the answer that there is no context first on
    the way down. This is what makes `AttachedWhenSettled` inductive: a front end
    can only settle on a session by an answer that the back end gives when it attaches.
  * `DownStream`: what is on its way down and what waits in the write buffer of the
    context is of one context, what is on its way comes before what waits, and both
    come after what the open channel has handled. The order of delivery alone is not
    inductive, since `Send` and the flush after a reconnect rely on the order of what is
    not yet delivered.
  * `UpStream`: what the context has handled and what is on its way to it is of one
    channel, the open one if there is one; while the INITIAL_CONNECT of a new context
    is on its way, there is nothing of either. A new channel opens only on that packet,
    so it never meets what an older one has written.
* `SettledMeansAttached`, `ContextHearsOneChannel`, `ChannelHearsOneContext` and
  `ChannelHearsInOrder` follow: the properties `AttachedWhenSettled`,
  `OneChannelPerContext`, `OneContextPerChannel` and `DeliveredInOrder`.

**ChannelMultiplexer_proofs**

* `TypeCorrect`, for all ids, openers and losses.
* `HeldStaysRegistered`, assuming that no id is opened by both sides (`OneOpener`).
  The invariant adds to `HeldIsRegistered` that an Open under way is a call
  of the side it comes from, for an id that side opens (`OpensAreCalls`), that
  what is pending is a call of the side itself whose id is not open there
  (`PendingIsClosed`) and that a map has one entry for an id (`OnePerId`); without
  the first two, a handler could replace a channel that is held.

Without the assumption it is false (see the disagreements).

**Channels_proofs**, all assuming `OneOpener`

* `EndsFitTogether`: the inductive invariant `Good`, which adds to that of
  `HeldStaysRegistered` how the packets under way fit the two ends of each pair:
  * `Registered`: the maps hold what waits and what is open, and nothing else.
  * `Lives`: how far the life of one end may be ahead of that of the other.
  * `Senses`: what a packet tells of its end is still true when it is under way (an Open
    is of a call not yet accepted, an AckOpen of one that waits, a Close of a closed end).
  * `Ordered`: of one end open, data and close come in this order, data by
    number; packets of an earlier call with the same id come before those of a later.
  * `Underway`, `DataUnderway`: what an end has yet to hear is on its way, and of the
    data just that.
  * `Generations`: who uses an id now. A call whose opener takes part is the
    newest with its id; an acceptor that is open for longer is about to get
    its Close; what arrives at an end is never older than the end. It is the heart of the proof: handlers
    look channels up by id only, so an old packet must never meet a new channel.
* `EndsAgreeWhenQuiet`: with nothing under way `Underway` leaves nothing one end
  could know and the other not.
* `MultiplexersImplementChannels`: `Spec => ImplementsChannels`, step by step: `Open` is
  `Open`, an Open received is `Accept` and an AckOpen `Return`, Data is `Read`, Close is
  `Told` or, of a pair that is gone, a stutter, and a loss is `Lose`. The mapping of
  `pipe` (`PipeTo`) is what the other end has written and this one has not read, by
  their counts: it says nothing of the link, so a packet that got lost, came twice, or
  reached another channel would be a step that `Channels` does not have.
* `EndsReadTheirPeer`, from it: what an end has read is the beginning of what the
  other end of its own pair has written (`ReadsAreOwn`).

**RpcProxy_proofs**

* `TypeCorrect` (it needs that the deferred protocol, if any, is the last
  channel's: `DeferredIsLast`).
* `EntriesStayTracked`: no map leaks or loses what is needed.
* `NoCallForgotten`: `Accounted`, from `Known`. A call has at most one request in the
  map (`PendingOnce`), and each of them whose caller waits is in a message, in a handler
  or in an answer of its channel (`Fine`); a cancel is behind its request in the queue
  or follows it to a handler that still has its token source. Every step that takes
  one of these away settles the call, or puts the next one there, or is a refusal
  that `dropped` records.
* `AnswersAreOwn`, `CancelsAreOwn`: the argument is `Ids`. Every trace of an id on
  a channel, be it in a message, a handler, a token source or the pending map, is
  of one and the same call (`IdsOwn`), and ids not given out yet have none
  (`Numbered`). A new channel has no trace of any id, which is why beginning
  again at 0 is safe.
* `StartedAtMostOnce`: `Once` says that a call that waits is in the queue once and
  nowhere else (`QueuedOnce`), one under way is in one message, not yet started
  (`UnderWayOnce`), and the calls started are distinct (`StartedOnce`).

**WatchDeduplication_proofs**

* `AlwaysInv`: the inductive invariant. `EntriesInv` relates the fields of the
  entries two by two: parents and children are each other's inverse (`Linked`), a
  parent is active, real and may subsume its child (`ParentReal`), an entry is real
  exactly when it is active and has no parent (`RealUnsubsumed`), the index leads to
  real recursive entries at that place (`IndexReal`), a watcher runs once for each
  real entry (`WatchedOnce`); `CallersInv` counts callers.
* `TypeCorrect`, `AlwaysCovered`, `LinksAlwaysAgree`, `IndexedAlwaysReal`,
  `NothingEverLeaks` follow from it. The steps that matter are the disposal of a
  parent, whose children are given new parents or watchers one after the other, and a
  new recursive watch, which takes over those below it.

**FileWatching_proofs**

* `TypeCorrect`, `RefsStayMatched`: `ServiceOK` adds to `RefsMatch` that all handles
  are of the watcher in the map and that no two have one id, since otherwise one
  `unwatch` could take away the reference of another client.
* `HandlesStayOwned`, for any number of exits. `OwnersOK` says that a call of
  `watchFileChanges` is a request, then an answer, there once, and that a handle waits
  for it (`WaitingOK`), and that a handle which waits or is allocated is of a client
  that is there (`ServedOK`).
* `NoLossIsSilent`. `IdsOK` says that a watcher id is in one place: in an answer, in a
  handle or in an unwatch on its way back; `NoneLost` extends the property to the handles whose
  answer is on the way, which an error must reach too. Both hold only until the process exits
  the first time, as ids begin again at 0 then.

**EditorModel_proofs**

* `TypeCorrect`, with `RevertOK`: a revert waits exactly as long as its one sync is
  queued or runs.
* `NeverOverwrites`: the version a save compares with the mtime of the file is one
  whose text the model has seen (`SeenOK`), at each step of the save, as long as no
  other program wrote between its steps and no cancelled save was refused.
* `StaysFaithful`: the invariant `Faithful`, as long as `disturbed` is empty.
  `Sounds` says of a clean buffer that it shows the file, or a notice, a
  sync or a save is left that will bring them together, and of a dirty one the same of
  the state that undo would make clean. It is kept only because of the rest:
  * `Met`: once the buffer has met the text of the file, the changes kept lead from
    that text to the buffer's (`Leads`); hence a save without changes may end at once.
  * `TakenOK`: what a save under way has taken still fits the buffer, and at its write
    the file, so that applying the changes gives the text; one that was cancelled
    has a save or a revert behind it.
  * `Fresh`: a sync reads the newest version, or a notice of a newer one is under way.
  * `Awaited`, `InOrder`: a revert that keeps no changes has its sync, and what is
    before that sync in the queue is cancelled, so nothing is loaded into the buffer between.
  * `CleanOK`, `Ids`: what clean means for the ids of the states, which are unique.
* `SettledShowsFile`: `SettledIsSynced` follows, as at rest nothing is left.

The connection and multiplexer modules state lemmas on queues (`PushType`, `PopType`,
`SentType`, ...), the RPC module what each handler can add to a queue (`SendAdds`,
`CancelAdds`, `FinishAdds`) and what it then holds (`GrowHolds`, `AppendHolds`,
`TailHolds`), and `FileWatching_proofs` what a queue holds of a set
(`TailHolds`, `AppendHolds`, `ConcatHolds`), so that each invariant is checked against
the additions only.

**Model-checked only.** All liveness: `Recovers`, `ContextDiscarded`, `OpenSettles`,
`CloseIsTold`, `CallsSettle`, `WatchSettles`, `Discarded`. Liveness under fairness and
`ENABLED` are beyond the prover, as are induction over data and `RECURSIVE` operators;
the modules use neither of the last two.

## Where the code and its documentation disagree

Each has a run that finds the behaviour; the counterexample is the shortest one.

* **A connected front end's context is dropped** (`conn_v_dropped`,
  `websocket-frontend-connection-service.ts:111`). The disconnect handler of an old
  session closes whatever context the front end has by then, also one that
  moved to a new session; the channel sees no close event.
* **Buffered messages are dropped** (`conn_v_coalesced`,
  `socket-write-buffer.ts:50`). A flush joins messages in one packet, of which the
  receiver decodes the first.
* **A native watcher is left running** (`watching_v_leak`,
  `parcel-filesystem-service.ts:223`). A watcher disposed while `createWatcher` is
  awaited throws before the branch that would stop what was created.
* **After an exit of the watcher process nothing is watched** (`watching_v_restart`,
  `ipc-connection-provider.ts:66`). The next process is handed to a deferred that is
  resolved already; the one that later calls wait for is made after.
* **Reverted changes come back** (`editor_v_reverted`, `monaco-editor-model.ts:605`).
  `contentChanges` survive a revert, and the next incremental save applies them.

Three more are seen by changing a configuration, and have no run of their own:

* *A front end stays on its closed channel* (`ws-connection-source.ts:132`). With
  `ReloadOnReconnect = FALSE`, `StaleDisconnects = FALSE`, `HandshakeDrops = TRUE` and
  6 sessions, `Recovers` fails: after a refused RECONNECT `currentChannel` is closed but kept; if
  the session of the initial connect is lost before its answer, the next handshake is
  a RECONNECT, which is granted.
* *Both sides open one id* (`channel.ts:239`). With `MayOpen <- TwoOpeners`,
  `HeldIsRegistered` fails: the branch for this case leaves the call pending, so that
  the AckOpen makes a second channel. In the repository only front ends open channels.
* *A request is never answered* (`rpc-protocol.ts:258`). A reply that cannot be written
  for a full buffer is followed by an error reply that cannot either; `CallsSettle`
  excepts those calls (`dropped`).

## What is not modelled

* Bytes: packets, msgpack, sizes. Buffers count messages, not bytes.
* Time: a timer that runs may expire at any moment.
* More than one front end at once: the back end's maps are keyed by front-end id
  and entries do not interact. One id with several pages in sequence is modelled.
* A second `close()` of a closed channel, and calls made inside
  `onDidCloseConnection`; both are hazards in `PROJECT.json`.
* Events forwarded by `RpcProxyFactory` on notifications, and error serialisation.
* More than one watched path in `FileWatching`: entries of the service's map do not
  interact. File changes themselves, and the polling of a path that does not exist.
* Errors of reads and writes other than "out of sync", deleted files, encodings,
  read-only files, soft revert and the disposal of a model.
* A second writer of the same `FileResource`; its lock matters only against stats.
* The components listed in the inventory without a module.

## Running it

    tlc -workers 2 -config conn_faults.cfg FrontendConnection.tla
    tlc -workers 2 -config mux_channels.cfg MCChannelMultiplexer.tla
    tlc -workers 2 -config watching.cfg MCFileWatching.tla
    tlapm RpcProxy_proofs.tla

`PROJECT.json` lists, for each run, its module and configuration.
