# TLA+ models of XMPPFramework

A verification project kept beside the code of XMPPFramework (Objective-C): TLA+ modules that
model its protocol machines, TLC configurations that check them on small instances, and proofs
that TLAPS checks for every value of the constants.

Paths are relative to `src/`. PROJECT.json names, for every definition that models code, the
lines it stands for.

## 1. The system

An application creates one **XMPPStream** per account, activates **modules** (XMPPReconnect,
XMPPAutoPing, XMPPStreamManagement, XMPPRoster, ...) on it and adds **delegates**. Everything
runs on serial dispatch queues: the stream on its *xmppQueue*, each module on a *moduleQueue* of
its own, each delegate on the queue it was added with. Three kinds of interaction exist:

- *callbacks*: the stream (or a module) posts a message to every delegate through a
  GCDMulticastDelegate, which dispatches it asynchronously to the delegate's queue. Callbacks to
  one queue stay in order; they run after the state they report may have changed again;
- *questions*: some callbacks return a value (`willSendIQ:`, `willReceiveMessage:`,
  `xmppStreamWillBind:`, `stanzaIdForSentElement:`). The stream asks on a concurrent queue and
  continues on its own queue when all delegates have answered;
- *calls*: the API methods of the stream and the modules run their body on their own queue.

| Component | State it keeps | Operations | What is hard | What makes it correct |
|---|---|---|---|---|
| XMPPStream, connection (`Core/XMPPStream.m`) | `state`, `flags`, `srvResults`, `connectTimer`, `auth`, `customBinding`, ids of the bind and session IQs | connect, disconnect, abortConnecting, secure, register, authenticate; handlers of socket, parser and resolver | asynchronous questions answered after a disconnect; timers of an earlier attempt; SRV fallback | one didDisconnect per connection; nothing happens on a stream that was disconnected; a timer only ends the attempt it belongs to |
| XMPPStream, traffic | `receipts`, `willSend...Queue`, `willReceiveStanzaQueue` | sendElement, andGetReceipt, receive, keep alive | receipts are matched by position; filters are asynchronous | a receipt is signalled for its own element; stanzas are delivered in order |
| Stream management (`XEP-0198/XMPPStreamManagement.m`) | counters and arrays of both directions, flags of the session, three timers | enable, resume, requestAck, sendAck, markHandledStanzaId, one handler per callback | ids and decisions of delegates arrive late; counts on both ends must agree across connections and crashes | section 3: no false ack, every ack reported, counts that survive connections |
| Storage of stream management (`Memory Storage/`) | resumption id, date, both counters, pending stanzas | three writers, reset | written piecewise | what is stored can be resumed from at any moment |
| XMPPReconnect | `flags`, `reconnectTimer`, `reconnectTicket`, reachability | manualStart, stop, stream callbacks, reachability callbacks | a question to delegates outlives stop | no attempt after stop or after a deliberate disconnect |
| XMPPIDTracker | a dictionary from ids to trackers with timers | addID, invokeForID, removeID | an answer racing a timeout | every id is answered once |
| XMPPAutoPing, XMPPPing | ping timer, `awaitingPingResponse`, `lastReceiveTime` | activate, stream callbacks, timer | a timeout racing any traffic | a live stream is not reported dead |
| GCDMulticastDelegate | list of (delegate, queue) nodes | add, remove, enumerate | removal during an enumeration on another queue | a removed delegate is not called |
| XMPPSRVResolver | results, timeout timer, socket to the resolver | start, stop, process results | timeout racing the answer | exactly one of resolve and fail |
| XMPPRoster, with a storage | `requestedRoster`, `hasRoster`, `earlyPresenceElements`; users and their resources | fetch, results, pushes, presence, disconnection | presence before the roster, a timer in place of the roster, what is left of a connection | users and resources agree with what the server said last |
| XMPPCapabilities | requests per jid, a list of jids per hash, timers; what is stored | presence, fetch, answers, errors, timeouts | one answer for many contacts, contacts that change meanwhile | one of a list is asked and timed; who waits is told |
| XMPPRoom, XMPPCoreDataStorage | flags and caches; storage behind a queue | join, leave, presence; batched saves | joins racing leaves | caches agree with what the server said last |
| All other XEP modules | ids of queries in flight | one query, one answer | timeouts | as XMPPIDTracker |
| Authentication mechanisms | one step counter | start, challenge | none | strings |
| Parser, element classes, categories | - | conversions | none | - |

## 2. Plan

| Module | Contents | Abstract specification | Runs | State |
|---|---|---|---|---|
| `StreamManagement` | section 3 | implements `AckedDelivery` | `sm_*` | done |
| `StreamConnection` | section 4 | - | `conn_*` | done |
| `StreamTraffic` | section 5 | implements `OrderedDelivery` | `traffic_main` | done |
| `Reconnect` | section 6, with the stream reduced to what the module sees of it | - | `reconnect_main` | done |
| `AutoPing` | section 7, with XMPPPing and the XMPPIDTracker it uses | - | `ping_main` | done |
| `Capabilities` | section 8, with the storage it relies on | - | `caps_main` | done |
| `Roster` | section 9, with the memory storage and the timer of the fetch | - | `roster_main` | done |
| `MulticastDelegate`, `SRVResolver` | removal of a delegate during an enumeration; the timeout racing the answer | a removed delegate is not called; exactly one outcome | | left |
| `Room`, `CoreDataStorage`, one's own capabilities | caches against the server's last word | | | left |
| proofs | section 10: every invariant and action property of the runs; liveness stays model-checked | | | done |

Each model keeps what it owns and reduces the others to what it sees of them: `Reconnect` sees a
stream that is up or not, `StreamTraffic` one that is connected or not, `StreamManagement` one that
binds and breaks. What is assumed of a neighbour is stated in the section of the module.

## 3. Stream management

Modules: `StreamManagement` (the model), `AckedDelivery` (what it promises a sender),
`MCStreamManagement` (the refinement), `StreamManagementProofs` (types, offsets, timers, what is
acknowledged to the server, and the control of the session), `StreamManagementAcks` (proofs of what
is reported as acknowledged).

### 3.1 Correspondence

The code is `Extensions/XEP-0198/XMPPStreamManagement.m` and its memory storage. The module runs
on its moduleQueue and is called by the stream, whose xmppQueue posts callbacks to it.

| Model | Code |
|---|---|
| `moduleQ` | blocks posted to the moduleQueue: delegate callbacks of the stream. One is run at a time by a `Handle...` action |
| `draining` | the loop over `unprocessedReceivedAcks` that an answered id starts; it is one block, so no other handler runs in between (`QueueFree`) |
| `idQueries`, `handledQueries`, `handledAnswers` | questions put to delegates on a concurrent queue, and answers posted back to the moduleQueue |
| `willQ` | `willReceiveStanzaQueue` of the stream |
| `c2s`, `Arrives` | the two directions of the wire. What arrives is posted at once: the wire and the queue are both FIFO |
| `store` | the storage: resumption id, date of the last disconnect (set or not), both counters, pending stanzas |
| `sessions`, `attached` | what the server knows: the stanzas it handled per session, how many it sent, whether it can be resumed |
| `session`, `reported`, `reports`, `appHandled`, `lost` | history: not in the code, read by the properties. `lost` are the stanzas that a `<resumed/>` counted while the storage did not hold them, or held them without their id |

A stanza is its number in the order of sending; an id is the number again, or 0 for nil
(`IdLess`). A received stanza is the server's session and its number there. Times are left out: a
timer that runs may fire at any moment, and a resumption is refused for its age whenever the
application or the server chooses (`MayDecline`, `ServerExpires`).

The configuration is in the constants: `AsyncIds` and `AsyncHandled` say whether a delegate
implements `stanzaIdForSentElement:` and `getIsHandled:...`, `RequestCount`, `RequestTimeout`,
`AckCount`, `AckTimeout` and `AckDelay` are `autoRequest...`, `autoAck...` and `ackResponseDelay`.
`Modulus` is 2^32 in the code.

### 3.2 Assumptions about the surroundings

- *didDisconnect before the next binding.* `Connect` (which stands for all of connecting and
  authenticating) waits until the moduleQueue has run the last connection's didDisconnect. The
  code does not enforce this: `start:` reads the storage on the xmppQueue. Several round trips to
  the server lie between the two; without the assumption the storage of the connection before the
  last would be resumed from.
- *No loss of the connection between `<resume/>` and its answer, and no crash while `<resumed/>` is
  on the moduleQueue* (`ResumeMayBreak`): supposed only where processes crash. `sm_resume` loses
  connections at any moment.
- *enable is called while connected* (`EnableLate`); `AcksComplete` holds under `sm_resume`'s constants
  without it.
- *Binding decides to resume when it can* (`MayDecline`), as with `autoResume` set to YES.
- The server counts every stanza it reads in a session, acknowledges only those, and sends again
  on resumption what the client's h does not cover. It answers or not, and expires sessions, at
  will.

Section 3.4 says what happens when an assumption is given up.

### 3.3 Runs

| Run | Instance | What it shows |
|---|---|---|
| `sm_outgoing` | 3 stanzas, one without an id, ids answered late, 1 connection | `OffsetInRange`, `AcksComplete`, `AutoRequestArmed`; under fairness `EventuallyReported` |
| `sm_incoming` | 2 stanzas received over 2 connections, sent again after a resumption, answered late and marked, ack responses delayed | `HandledSafe`, `AutoAckArmed`; under fairness `EventuallyAcked` |
| `sm_resume` | 2 out, 3 connections, ids answered late, connections lost while `<resume/>` is awaited | `StoreMatchesServer`, `AcksComplete`, and that the module implements `AckedDelivery` |
| `sm_crash` | 2 out, 1 in, 2 connections, a filtering delegate and one crash of the process | `NoFalseAck` |
| `sm_false_ack` | 2 out, 3 connections, resumption declined | `NoFalseAck` does not hold (3.4) |

*Bounds.* Three outgoing stanzas are the fewest for which an id answered out of order blocks one
stanza, lets one pass and leaves one behind (a partly processed ack), and for which the offset
differs from both 0 and the length. Two incoming ones can be handled in either order, and acknowledged
together or apart; with a second connection they are sent again, counted or not (3 over 2 connections
are too many states; 3 over one, which a hole between two handled stanzas needs, passed with the same properties).
Two connections are one resumption. The three of `sm_resume` are a
session, an attempt to resume it that is lost, and another. `MaxQueue` bounds optional traffic only (acks and requests that nobody
asked for; there are none where no stanza is sent, as in `sm_incoming`): it never delays a callback the code must run. `CHECK_DEADLOCK FALSE`: every behaviour
ends when the bounds are used up.

*Fairness* (`LiveSpec`) is weak fairness of the moduleQueue, of the delegates (they answer, and
mark in the end what they said they would handle), of the timers, and of a server that reads. The
application need not call `sendAck` or `requestAck`: automatic acks come from counts and timers alone.
Dispatch queues and timers run what is posted to them, which justifies the first three; the server
is an assumption. Connecting, losing a connection and sending are not fair. Both liveness
properties allow the session to be interrupted instead.

*What is acknowledged in the end.* `unackedByClient` is emptied by counting, without an `<a/>`; only
sending one resets `lastAckOffset`. `EventuallyAcked` therefore asks for both to be empty
(`AllAcked`). It excepts a session in which an answer owed on the connection before has counted down
`outstandingIds` (`AnswersCounted`); 3.4 says why.

*What counts as reported.* Nothing in the module can report a stanza that the storage did not hold
with its id when `<resumed/>` counts it. `AcksComplete` asks that every other counted stanza was
reported, and that nothing behind the count was; 3.4 lists how a stanza gets into `lost`.

*Refinement.* `AckedDelivery` has four variables and three steps: a stanza is sent, the server
handles some, some of those are reported, each once and in the order of sending. `MCStreamManagement`
instantiates it with the variables of the same names: sessions, counters, storage, resumption and
timers are stuttering.

### 3.4 Where code and documentation disagree

With a run: in `sm_false_ack` a session that was not resumed stays in the storage while the next is
negotiated. A disconnect before `<enabled/>` stores the new stanzas next to the old resumption id
(`XMPPStreamManagement.m:1844`); resuming it reports them as acknowledged.

Without a run of their own, found in the same model with other constants:

| Constants | Property refuted | What happens |
|---|---|---|
| `Modulus` 3 (`sm_outgoing`) | `AcksComplete` | when h wraps, the difference at lines 530 and 995 is one too small: a stanza stays unreported and later reports are off by one |
| `MayDecline` TRUE (`sm_resume`) | `AcksComplete` | the storage keeps a declined session, as in `sm_false_ack` |
| as it is (`sm_incoming`) | `EventuallyAckedAlways` | enabling and resuming set `outstandingStanzaIds` to 0 (lines 350 and 473), but an answer that a delegate owes from the last connection still counts it down (line 1477), past 0 or by one too many. The next stanza's answer is then not counted as owed, and a mark that comes before it is dropped at line 1363: the stanza is never acknowledged, and nothing behind it is. The comment at lines 1354 to 1361 says that this case is handled 'by queuing up the stanzaId for later processing' |
| `WillReceive` TRUE, 1 connection (`sm_incoming`) | `HandledSafe` | `<enabled/>` passes stanzas that wait on the willReceive queue; they are counted in a session they do not belong to |
| `ResumeMayBreak` TRUE, 3 connections, 0 in (`sm_crash`) | `NoFalseAck` | the process dies while `<resumed/>` and a later didSend wait on the moduleQueue: the stanza sent meanwhile is in no storage, and the next resumption counts another one in its place |

A stanza that the server has handled and that no delegate is ever told of (`lost`) comes about in
these ways. No doc excludes them, but an application that waits for
`xmppStreamManagement:didReceiveAckForStanzaIds:` waits in vain.

| Where | What happens |
|---|---|
| the connection is lost while `<resume/>` is awaited | `start:` has moved the pending stanzas to memory, and the disconnect stores an empty list |
| an id is answered after the disconnect (`AsyncIds`) | it is set on a stanza that the storage has already copied |
| `enable` is called on a closed connection (`EnableLate`) | it empties `unackedByServer` before the didDisconnect is handled, which stores an empty list |
| the process dies between the write of a stanza and its didSend callback | the stanza is in no storage |
| after a restart, an attempt ends before anything was resumed or enabled | the stored counters are overwritten with zeros |

`NoFalseAck`, `StoreMatchesServer`, `ImplementsDelivery` and `AcksComplete` hold with any one of these:
the first two are in `sm_resume`, `AcksComplete` was also checked with `EnableLate` TRUE there and with
`sm_crash`'s constants.

## 4. The connection of the stream

Modules: `StreamConnection`, `StreamConnectionProofs`.

### 4.1 Correspondence

The code is `Core/XMPPStream.m` from `connectWithTimeout:error:` to `STATE_XMPP_CONNECTED` and
back. Every handler is a block of the serial xmppQueue and one action. What waits for the queue
comes from five sources that are ordered each in itself and not among each other:

| Model | Code |
|---|---|
| `callbacks` | delegate methods of GCDAsyncSocket: connected, read, closed |
| `parsed` | callbacks of XMPPParser, which parses on a queue of its own; each names its parser, as the code compares `sender` with `parser` |
| `resolvers` | XMPPSRVResolver objects that have not called back; the code compares with `srvResolver` |
| `timer` | `connectTimer`; the model remembers which attempt started it |
| `questions` | answers of delegates: `willSecureWithSettings:`, `xmppStreamWillBind:`, `alternativeResourceForConflictingResource:` |

Calls of the application (`Application`) run between any two blocks. `state`, `isSecure`,
`isAuthenticated`, `features`, `auth`, `customBinding` and `tracked` are the fields of those names
(`features` is what `rootElement` holds, `tracked` the ids in `idTracker`). `conn`, `granted`,
`heard`, `told` and `attempt` are history.

Operators such as `SendOpeningNegotiation`, `ContinuePostBinding` and `Releases` say what a method
assigns, and the actions that call them add what the rest of the handler does.

Authentication is one exchange of auth elements with answers success, failure and challenge,
`sasl` or `legacy` by whether the stream restarts. Binding by a module (`customBinding`) is an
exchange of its own elements that ends in success, in a fall back to standard binding or in an
abort. In its `start:` the custom binding of this repository (`XMPPStreamManagement.m:680`) continues
or falls back; that one of the application may also end there is `EndsInStart`. `startTLSPolicy`,
`skipStartSession` and what the server offers are free choices.

### 4.2 Assumptions about the surroundings

- GCDAsyncSocket is not part of the repository. It is modelled by how the stream uses it: a
  connection that was started ends in exactly one `socketDidDisconnect:withError:`; reads complete
  in order, with all or a part of what has arrived; reads and writes on a closed socket do nothing;
  `startTLS` needs no read to be queued (the comment at `XMPPStream.m:4672` relies on the same).
- The server answers requests in order and with elements that fit them, may close the stream
  instead, and pushes stanzas to a bound client.
- A delegate that is asked about binding may answer after the end of that connection was handled
  (`LateAnswers`, as in `conn_main`), but then no custom binding ends in its `start:` (4.4 says what
  happens otherwise).
- `authenticate:error:` may be called on an authenticated stream (`Reauthenticates`, as in
  `conn_settles`): the code asks for the state only.
- The resolver calls back once, with records or with none.

### 4.3 Runs

| Run | Instance | What it shows |
|---|---|---|
| `conn_main` | 2 attempts, 0 or 2 SRV records, 1 extra round per connection, TLS allowed, responses validated, binding questions answered late, authentication once per connection | `AliveHasSocket`, `OneReader`, `AuthenticatedByServer`, `TimerEndsWithConnection`, `NoReconnectBehindTheBack` |
| `conn_settles` | 1 attempt, 0 or 2 SRV records or a configured host, TLS preferred or required, from the start or not, hosts that refuse at once, responses not validated, a second authentication, a custom binding that may end in its start | `ConnectedIsAnnounced`; under fairness, `Settles` |

*Bounds.* Two attempts let everything an attempt leaves behind (parser callbacks, resolvers,
timers, questions) meet the next one. Two SRV records are a host that fails, a next host, and a
record left when the first answers. One extra round is one challenge, one refused resource, one
further custom binding element or one pushed stanza per TCP connection. In `conn_main` states are told
apart without `heard` and `told`, which its properties do not read (`WithoutHistory`), which leaves 2.4
million of them. With `Reauthenticates = TRUE` its properties hold in 3.8 million. `CHECK_DEADLOCK FALSE` for
the same reason as above.

*Fairness* is weak fairness of what runs on the xmppQueue, per source, of the delegates, of a
socket that connects and reads, of a server that answers and of a resolver that calls back; and of
a socket that was told to close after writing. The calls of the application, timeouts, and the
loss of the connection are not fair.

### 4.4 Where code and documentation disagree

Refuted in the model of `conn_main`:

- `AliveHasSocket`, `OneReader`, `TimerEndsWithConnection` and `NoReconnectBehindTheBack` with
  `EndsInStart = TRUE`: the block at `XMPPStream.m:3732` acts on the answer to `xmppStreamWillBind:` in
  any state. A custom binding that succeeds at once then makes a disconnected stream CONNECTED without a
  socket, and nothing brings it back. The comments of `XMPPCustomBinding.h` offer just this to a custom
  binding; the one of this repository does not use it. `AuthenticatedByServer` holds.
- `ConnectedIsAnnounced` with `LateAnswers = TRUE`: a late answer writes the bind request of the last
  connection while a stream that was authenticated a second time waits for the new features; the
  answer is taken for them, and the stream is CONNECTED unannounced. With `Reauthenticates = FALSE`
  it holds with late answers too (9.6 million states).
- `ToldIsFinal`: `disconnect` and `abortConnecting` in CONNECTING close the socket only; with SRV
  records left, `socketDidDisconnect:` takes that for a failed host and connects to the next.
- `TimerIsOfThisAttempt`: `disconnect` during the SRV resolution leaves the connect timer running;
  the next attempt inherits it.

Seen in the code while modelling, without a property: hosts after the first are tried without a
timer (`endConnectTimeout` at the start of `socketDidDisconnect:`); when all SRV hosts fail
asynchronously the domain itself is not tried; `isSecure` stays set when an old-style secure
attempt ends during the resolution; abort and timeout during the resolution are not followed by
`xmppStreamDidDisconnect:`; `customBinding` survives the end of a connection; without
`validatesResponses` any stanza that arrives while the session is started is taken for the answer;
an error in answer to the session request leaves `isAuthenticated` set; when the features after
authentication offer no binding, the stream is connected without `xmppStreamDidAuthenticate:`
(the model's server always offers it); a second peer-to-peer connect meets the assertion on
`asyncSocket`, which is never set to nil (peer-to-peer is not modelled).

## 5. Sending and receiving elements

Modules: `StreamTraffic`, `OrderedDelivery` (what the stream promises those who read from it),
`MCStreamTraffic` (the refinement), `StreamTrafficProofs`.

### 5.1 Correspondence

The code is `Core/XMPPStream.m` on a connected stream: `sendElement:` and
`sendElement:andGetReceipt:`, the willSend and willReceive delegates, `didReceiveIQ:`, receipts
and the presence kept for resending.

| Model | Code |
|---|---|
| `sent`, and a call as its place there | calls of `sendElement:`; the form of an element keeps what the code tells apart (IQ that requires a response, presence broadcast or directed, custom element) |
| `willSendQueue[kind]` | `willSendIqQueue`, `willSendMessageQueue`, `willSendPresenceQueue`; an element whose kind has no willSend delegate is written at once |
| `writing`, `wire` | writes that GCDAsyncSocket has not reported, and all writes (history) |
| `receipts`, `signalled` | the array `receipts`, matched by position in `socket:didWriteDataWithTag:` |
| `willReceiveQueue`, `stanzaQueue` | `willReceiveStanzaQueue`, which exists from the first stanza that is put to delegates |
| `didReceiveIqQueue`, `iqCalls` | the wait for all delegates that are given a request, and the calls they have not returned from |
| `xmppQueue` | the blocks that these queues post back |
| `fate`, `returned`, `delivered`, `answers`, `questioned` | history |

`AddDelegate` and `RemoveDelegate` change what delegates implement at any time: whether a kind is
put to delegates is decided when the element is sent or received. `Disconnect` is
`socketDidDisconnect:`, which cancels none of the blocks that wait.

Assumed: a stream that is connected stays so until `Disconnect` (the steps between are section 4);
the socket writes in order; a delegate returns in the end or not, in any order among delegates.
The threads that wait for a receipt are not modelled, only its signals.

### 5.2 Run

`traffic_main`: 2 connections, 3 elements altogether, sent, resent or received; custom elements,
presence broadcast and directed, with and without receipts; requests and presence from the server;
a willSend delegate for presence and a willReceive delegate for IQs that come and go; two delegates
that implement `didReceiveIQ:`, between which nothing distinguishes (`Symmetry`). It checks `OneFate`,
`ReceiptConserved`, `ReceiptTrueUnasked`, `SentInOrder`, `OneAnswer`, and that
the stream implements `OrderedDelivery` (`DeliversInOrder`).

*Bounds.* Two connections let what waits on a queue meet the next connection. Three elements are one
that is put to delegates, one that overtakes it, and one behind both. One kind with a willSend
delegate and one with a willReceive delegate stand for all, as the three queues are alike; custom
elements are never put to delegates. No fairness: all properties are about safety.

*Refinement.* `OrderedDelivery` has the number of items offered and the last one taken. A received
stanza is offered, and taken when it is delivered; stanzas that are filtered, or that return after
the end of the connection, are left out.

### 5.3 Where code and documentation disagree

Refuted in the model of `traffic_main`:

- `DeliveredAsReturned`: the block of `receivePresence:` (`XMPPStream.m:3049`) passes on the presence
  it was given and not the one its delegates returned, although `XMPPStream.h:948` says they 'can be
  used to modify elements on the fly'.
- `ReceiptTrue`: an element that is filtered or overtaken while delegates are asked leaves its receipt
  to the next one (`XMPPStream.m:4361`); a receipt then says that an element was sent which was not.
- `ResendIsLatest`: a presence that is resent past a willSend delegate may follow a newer one.

Seen without a property: of two threads that wait for one receipt one is woken
(`XMPPStream.m:5125`).

## 6. Reconnecting

Modules: `Reconnect`, `ReconnectProofs`. The code is `Extensions/Reconnect/XMPPReconnect.m`.

### 6.1 Correspondence

| Model | Code |
|---|---|
| `moduleQueue` | the callbacks the stream posts, and the answers of the delegates |
| `shouldReconnect`, `shouldRestartReconnect`, `manuallyStarted`, `queryingDelegates` | the bits of `flags` |
| `reconnectTimer`, `reachability` | the timer (`spent`: it fires only once) and the SCNetworkReachability monitor |
| `restart` | a block of `maybeAttemptReconnectWithTicket:` that has the current `reconnectTicket` |
| `previous`, `network` | `previousReachabilityFlags` and the flags of the host |
| `queries` | questions to the delegates that are open |
| `stream` | the stream as the module sees it: it connects and aborts it synchronously, and hears of it later |
| `process`, `halted` | history: a reconnect process was begun; it was stopped and none begun since |

The stream connects, fails, authenticates, is refused, lost or replaced by another client (the
conflict error) at any time. `SrvResolution` says whether connecting starts with the resolution
of SRV records: an attempt that is aborted then ends without a `xmppStreamDidDisconnect:`.

### 6.2 Run

`reconnect_main`: a timer with a delay and an interval, SRV resolution, two callbacks of the stream
and two questions at a time. It checks `QuietWhenUp`,
`ProcessIsWantedUnchanged`, `StopEnds`, and under fairness `Reconnects`.

*Bounds.* Two callbacks are one that is handled while the one that contradicts it already waits; the
proofs cover queues of any length. Two questions are one before `stop` and one after.

*Fairness.* Blocks run, timers fire, a closed socket reports it: dispatch queues and GCDAsyncSocket
see to that. Delegates answer and, at some time, with yes: an assumption, without which a delegate
keeps the stream disconnected on purpose. Attempts need not end by themselves; the timer aborts them.

### 6.3 Where code and documentation disagree

Refuted in the same model:

- `ProcessIsWanted`: clearing `autoReconnect` ends the attempts of a process (line 570), although
  `XMPPReconnect.h:60` says that this 'will not stop the current reconnect process'.
- `StoppedStays`: an answer to a question asked before `stop` still connects the stream (line 628),
  although the comment in `stop` says 'Clear all flags to disable any further reconnect attemts
  regardless of the state we are in'.
- `Reconnects` without a repeating timer: an attempt that is aborted during the SRV resolution
  (`XMPPStream.m:1413`) posts no `xmppStreamDidDisconnect:` and the next waits for the network.

## 7. Pings

Modules: `AutoPing`, `AutoPingProofs`. The code is `Extensions/XEP-0199/XMPPAutoPing.m`, the
`XMPPPing.m` it owns, and the tracker `Utilities/XMPPIDTracker.m` that times the pings.

### 7.1 Correspondence

The two modules have a queue each, `moduleQueue` and `pingQueue`. The stream posts its callbacks to
both. `HandlePingIntervalTimerFire` posts the tracking of a ping to the queue of XMPPPing and then the
ping to the stream (`outbox`); the outcome is posted back. `tracked` is the dictionary of the tracker,
`armed` the entries whose timer can still fire: `TrackerFires` leaves the entry, `HandleIQ` removes
both, `RemoveAllIDs` all. A timer is armed only for a positive `pingTimeout` (`TimesOut`).
`lastReceiveTime` is never, recent or old. `verdicts` and `old` are history.
A ping whose id occurs nowhere any more may be used again as a new one (`Fresh`), so that no counter
bounds the behaviours.

### 7.2 Run

`ping_main`: two pings known at a time, two callbacks per queue; `AwaitingEnds`, `MonitorsWhileUp`,
`PongIsFinal`, `OldPingsForgotten`, and under fairness `SilenceIsNoticed`.

*Bounds.* Two pings are one of an earlier connection and one of this one, or one that timed out and
the next. The proofs cover any number of pings, queues of any length, and pings without a timeout;
without one `SilenceIsNoticed` is not claimed, and the invariants were checked as well.

*Fairness.* The queues run their blocks and timers fire. Neither the server nor the application
has to do anything.

### 7.3 Where code and documentation disagree

Refuted in the same model:

- `PingsForgotten`: a ping whose timer fires before XMPPAutoPing hears of the disconnection is tracked
  after XMPPPing has heard of it, and times out on the next connection, although `XMPPPing.h` says that
  outstanding pings are forgotten.
- `OneVerdict`: the entry of a tracker that timed out stays in the dictionary
  (`XMPPIDTracker.m:321`), and a late answer invokes the handler a second time.

Seen without a property: an entry is removed after its handler ran (`XMPPIDTracker.m:163`), and with
it one of the same id that the handler tracked again.

## 8. Capabilities of others

Modules: `Capabilities`, `MCCapabilities`, `CapabilitiesProofs`. The code is
`Extensions/XEP-0115/XMPPCapabilities.m`, with what it relies on of
`XMPPCapabilitiesCoreDataStorage.m`.

### 8.1 Correspondence

| Model | Code |
|---|---|
| `resource[j]` | what the storage holds of a jid: whether it is there, the hash it announces, the capabilities it is linked to (`caps`: those of a hash, its own, or none), and that asking it failed |
| `stored` | the hashes whose capabilities are stored |
| `discoRequestJidSet` | jids with a request |
| `discoRequestHashDict` | for a hash, the list of jids that announced it and the index of the one that is asked |
| `discoTimerJidDict` | what the timer of a jid is for: a hash, or the jid alone |
| `informed`, `moved` | history: of whom the delegates were told; whose hash changed under a request |

Everything runs on the moduleQueue and the storage keeps the order of its calls, so a handler is one
step. Presences, answers, errors and timeouts come in any order and from anybody, as the
code matches answers with jids and not with queries.

Assumed: an answer either has the hash its jid announced or another one. A disconnection reaches the
module only as the presence that goes out before it; requests and timers outlive the connection.
A contact may leave (`Leaving`) or change its hash at any time: the properties about requests
then make an exception of it (`moved`), because the code keeps nothing true of it (8.3).

### 8.2 Run

`caps_main`: two contacts, one of which changes between two hashes and the other leaves, lists of up
to two; `OneIsAsked`, `WhoWaitsIsTold`, and under fairness `NobodyIsAwaitedForever`.

*Bounds.* A list of two is one that is asked and one that is next; both hashes can be asked for at
once. `LinkedByHash`, the invariant of the storage, holds with the same bounds and is proved. The proofs cover lists of any length.

*Fairness* is that timers fire.

### 8.3 Where code and documentation disagree

- `NaughtyIsRemoved` is refuted with three contacts that announce one hash (`OneHash`, lists of up to
  three): after a timeout the index of the list has moved on; an answer of the jid that was
  asked before, whose hash does not match, removes the jid at the index and not its own
  (`XMPPCapabilities.m:1371`), although the comment above says 'We need to remove the naughty jid from
  the lists.' The other one loses its timer and its place and is neither told nor noted as failed.
- `OneIsAsked` without the exception of `moved` is refuted: a contact that changes its hash or leaves
  while it is asked stops the list for good, and who announces the hash later only joins it
  (line 1335; the comment at 1077 wants the next one to be asked).
- `AllAreTold` is refuted: an answer that comes after its list was given up is stored without telling
  anybody.

Seen without a property: a presence in the legacy format makes the storage forget what it knew of the
contact; a request for one's own capabilities that comes while they are collected is not answered.

## 9. The roster

Modules: `Roster`, `MCRoster`, `RosterProofs`. The code is `Extensions/Roster/XMPPRoster.m` with
`MemoryStorage/XMPPRosterMemoryStorage.m`, and the timer that `XMPPIDTracker.m` keeps for the fetch.

### 9.1 Correspondence

| Model | Code |
|---|---|
| `moduleQueue` | blocks of the moduleQueue: what the server sent, in its order, and callbacks about the connection and what was sent |
| `requestedRoster`, `hasRoster`, `earlyPresenceElements` | the fields of those names |
| `armed` | fetches whose timer can still fire: 60 seconds, not ended by a disconnection |
| `users`, `resources`, `bareResources` | the storage: the subscription of each user, "seen" for one that allowRosterlessOperation added; users with a resource under a full JID, and under their bare JID |
| `asks`, `interested`, `owed` | the server: fetches it has not answered, whether it pushes changes, contacts whose presence it is about to send |
| `shown`, `available` | one's own presence as it was sent last, and as the server has seen it |
| `guessed`, `asked`, `left`, `answered`, `strangers` | history |

The storage is called synchronously on the moduleQueue, so a handler is one step;
`Population` and `Updated` are what it makes of items during and after population, `Applies` what it
makes of presence. The item of a contact is "both", "none" (which may be a contact that waits for
approval, and is left out of the first roster) or "absent", which in a push is a removal. The server answers fetches and sends presence in any
order, pushes once it answered a fetch on the connection, and ends the presence of a contact that is no longer
subscribed to. A contact may also answer a request or unsubscribe (`ServerSendsAnswer`): "subscribed",
"unsubscribed" and "unsubscribe" come from its bare JID. `XMPPRoster.m:898` hands them to the storage as
it does all presence that is not "subscribe", and
`XMPPUserMemoryStorageObject.m:384` takes everything but "unavailable" and "error" for available: a
resource is added for the bare JID, which the unavailable presence of a full JID does not
remove. `Fresh` reuses the ids of fetches that nobody knows any more, the least first, since one is as good as another.

### 9.2 Run

`roster_main`: one contact, two connections, three changes by contacts, other clients and the
application, two blocks on the queue to which another is added, and three settings: fetching with
and without clearing at the end of a connection, and rosterless without fetching. It checks
`RosterMatches`, `PresenceMatches`, `KnownIsAccepted`, and under fairness `EarlyIsHeard`.

*Bounds.* Three changes are a contact that comes, one that changes meanwhile and a fetch of the
application; two connections are what is needed for something to be left of an earlier one. No
property relates two contacts. The invariants also hold with two contacts and two connections
(15.6 million states), and with a queue of three; the proofs cover any number of both.

*Fairness* is that the queue runs its blocks and that timers fire. The server never has to answer.

### 9.3 Where code and documentation disagree

Refuted in the same model:

- `HasRosterIsReceived`: a timer in place of the answer sets hasRoster, although `XMPPRoster.h:169`
  says 'The initial roster has been received by client and populated.' The presence replayed then is
  lost, which is why `PresenceMatches` makes an exception of it (`guessed`).
- `OnlineIsAvailable`: a contact that approves one's request, denies it or unsubscribes is online from then
  on, available or not, until it is removed from the roster or one's own connection ends. No doc says
  what `isOnline` means beyond its name. `PresenceMatches` therefore says two things: the resources under
  full JIDs are those of the available contacts, and a contact has one under its bare JID only if it
  answered on this connection.
- `RequestIsSent`: `fetchRoster` without a connection sets requestedRoster for an element that is
  dropped; the fetch of the next connection is then not sent.

Seen without a property: a presence on its way when one becomes unavailable is stored after the
resources were cleared (`left`); with allowRosterlessOperation, presence heard before the first roster
is cleared with the users (line 740).

## 10. Proofs

All theorems hold for every value of the constants that the assumptions of each module allow: any
number of stanzas, sessions, connections, crashes, attempts, delegates, pings, contacts, hashes and fetches,
queues of any length, any width of h. Type invariants are proved rather than checked in a run.

| Theorem | Property | Argument |
|---|---|---|
| `StreamManagementProofs!TypeCorrect` | `TypeOK` | `Inv` adds `SessionsKnown`: a session named on the wire, on the moduleQueue or in the storage exists. Without it `sessions[s]` and the new `store.id` of `HandleEnabled` have no type |
| `StreamManagementProofs!OffsetCorrect` | `OffsetInRange` | inductive on top of `Inv`: what takes stanzas from `unackedByServer` moves the offset with them |
| `StreamManagementProofs!RequestTimerCorrect` | `AutoRequestArmed` | `ArmedInv`: while no session is on, or one is about to begin, the counters that `<enabled/>` or `<resumed/>` will count on are clear. For `<resumed/>` this needs `QueueInv`: nothing of the last connection is left on the moduleQueue when the next one binds, and the answer to `<resume/>` is its first callback |
| `StreamManagementProofs!AckTimerCorrect` | `AutoAckArmed` | the same invariant; what is left in `unackedByClient` after counting begins with a stanza that is not handled |
| `StreamManagementProofs!HandledCorrect` | `HandledSafe`, if `NoFilter` | `SafeInv`: the module counts what it receives without looking at it, so the invariant follows every stanza. `CallInv`: the stanzas on the moduleQueue are those of their session, in order and without a gap, and the `<enabled/>` that begins a session stands before its first stanza. `Counts`: there is a number that `lastHandledByClient` does not exceed such that the stanzas up to it are handled, `unackedByClient` holds the next ones and the moduleQueue those after them. `Stored` and `Objects` say the same of the storage and of what the delegates still owe an answer for |
| `StreamManagementAcks!NoFalseAckCorrect` | `NoFalseAck`, on the conditions below | `OutgoingInv` is `Inv`, `QueueInv`, `ArmedInv`, `ControlInv` and `DataInv`. `ControlInv` follows one session: it is asked for, answered, in use or could be resumed, never two of these, and says what of it the storage holds. `DataInv` is `Data(r, t, b)` for some numbers: the server has read, or will never read, the stanzas up to `r`, the module knows of those up to `t`, and the session began after `b`. Then the i-th of `unackedByServer` is stanza number `lastHandledByServer + i` of the session for the server too (`Lined`), the same holds of the lists in the storage and in `prevUnacked` (`Stores`, `Prior`), and an h on its way or kept for an id is no more than the server has handled (`Acks`, `Kept`) |
| `StreamManagementAcks!StoreCorrect` | `StoreMatchesServer`, on the same | `Stores` in `Data`; while a session is on, from `Lined` and the numbers of the stored stanzas |
| `StreamManagementAcks!DeliveryCorrect` | `ImplementsDelivery`, on the same | a step of the model sends, receives or reports in `AckedDelivery`, or stutters (`StepDelivers`). That what is reported comes after all reported before is in `Reported`: what was reported is below all that waits |
| `StreamManagementAcks!CompleteCorrect` | `AcksComplete`, on the same | `Complete` on top of `OutgoingInv`. `Accounted(s, k)`: the first `k` stanzas that the server handled of session `s` are reported, have no id, or are in `lost`. `lastHandledByServer` is such a `k` for the session in use, and it and the stored count are for the session that could be resumed (`InCount`, `Known`). An ack adds stanzas that `Lined` names, whose ids are their own (`Identified`). A `<resumed/>` counts from the stored number; by `Prior` what `prevUnacked` holds with an id is what the server handled there, so that reporting it leaves only what `lost` takes. That nothing is reported ahead of the count is `Lined` and `Reported` |
| `StreamConnectionProofs!TypeCorrect` | `TypeOK`, if `NoLateEnd` | `Inv == TypeOK /\ Control` (below) |
| `StreamConnectionProofs!TimerCorrect` | `TimerEndsWithConnection`, if `NoLateEnd` | from `EstablishedForgets` in `Control` |
| `StreamConnectionProofs!NoReconnectCorrect` | `NoReconnectBehindTheBack`, if `NoLateEnd` | lemma `ConnectionSteps`: only three actions begin a connection; `Control` excludes each in an established stream |
| `StreamConnectionProofs!SocketCorrect` | `AliveHasSocket`, if `NoLateEnd` | `SocketInv` adds where the end of the connection stands among the callbacks: it is the last, and the socket is idle |
| `StreamConnectionProofs!AuthCorrect` | `AuthenticatedByServer`, if `NoLateEnd` | `GrantInv` follows a success from the wire through the data of a read to the elements of the parser in use: if one is there, the server of this TCP connection granted it. It uses `SocketInv`, by which a new TCP connection starts only when nothing of the last waits among the callbacks |
| `StreamConnectionProofs!NegotiationInvariance` | none of its own; used by the next two, if `InTime` and `AuthenticatesOnce` | `NegotiationInv` weighs what is under way between stream and server (`Underway`: requests, and elements on the wire, in the data of a read, or with the parser in use). Until a resource is bound the two take turns, so that at most one exchange is under way: three units for the opening of a stream, one for everything else, none for a stream that waits for its application. So no stream features are left when TLS is on, and no parser has read anything behind the chunk it is reading |
| `StreamConnectionProofs!OneReaderCorrect` | `OneReader`, if `InTime` and `AuthenticatesOnce` | `ReadsInv` in `NegotiationInv`: a read is queued, completed, or with the parser in use, whose chunk ends after everything it has read; `EndCount` and `ReadCount` turn this into the number 1 |
| `StreamConnectionProofs!AnnouncedCorrect` | `ConnectedIsAnnounced`, if `InTime` and `AuthenticatesOnce` | `Announced` and `Restarting` in `NegotiationInv`: a stream that restarts after its authentication is opened by an RFC server and offered to bind a resource, so that it becomes `CONNECTED` only behind an announcement |
| `StreamTrafficProofs!TypeCorrect` | `TypeOK` | inductive: a queue names only calls and stanzas that exist |
| `StreamTrafficProofs!DeliveryCorrect` | `DeliversInOrder` | `InOrder`: what was taken, what waits on the xmppQueue and what waits for delegates is one rising sequence; until the first question nothing is on the way. Every step then maps to a step of `OrderedDelivery` or a stutter |
| `StreamTrafficProofs!SentInOrderCorrect` | `SentInOrder` | `SendOrder`: the same of the wire, the blocks of the xmppQueue and the delegates' queue, for each kind, among the elements that were put to delegates; and the wire rises among the others |
| `StreamTrafficProofs!OneFateCorrect` | `OneFate` | `Decided`: the same sum over the lists of `SendOrder`, of which a step moves one term to the next. That the call returned by delegates, or run on the xmppQueue, has no fate yet follows from the sum: its place in the queue counts for one |
| `StreamTrafficProofs!ReceiptsCorrect` | `ReceiptConserved` | `Pending`: a receipt is in `receipts` once and not signalled, or signalled once and gone from it; and `receipts` names only calls that have one |
| `StreamTrafficProofs!ReceiptTrueCorrect` | `ReceiptTrueUnasked` | `InStep`: while nobody is asked, `receipts` and `writing` rise and have the same calls with receipts as members, so that the first receipt is that of the element written. It uses `SendOrder` (a block of the xmppQueue was put to delegates) and `Pending` |
| `StreamTrafficProofs!MyPresenceCorrect` | `MyPresenceIsLast`, in no run | inductive with the types |
| `StreamTrafficProofs!OneAnswerCorrect` | `OneAnswer` | `AnswersOnce`: a request that delegates still hold was not answered with the error, and what waits or was answered so has been delivered. It needs `InOrder`, by which a stanza is delivered once |
| `ReconnectProofs!QuietOnceUp` | `QuietWhenUp` | `QueueOrder`: before the stream is up again after a didDisconnect, a didConnect follows it on the queue; a conflict waits behind the didConnect of its connection |
| `ReconnectProofs!ProcessEquipped`, `NothingIdle` | `ProcessIsEquipped`, `MonitorsForProcess`, in no run | inductive with `QueueOrder` |
| `ReconnectProofs!ProcessWanted` | `ProcessIsWantedUnchanged` | `Flagged`: a process has one of its two flags, a halted module neither. A conflict takes them away, and `ConflictBehind` puts it behind the didConnect that ends the process first |
| `ReconnectProofs!StopHolds`, `AbortsOnlyAttempts` | `StopEnds`, `AbortsUnheardOnly` | action properties from the same invariant |
| `AutoPingProofs!WaitingEnds` | `AwaitingEnds` | `AwaitedBehind`: every disconnection on the queue of XMPPPing that would forget the awaited ping is followed by another ping or answered on the other queue |
| `AutoPingProofs!MonitoringCorrect` | `MonitorsWhileUp` | `LastTurn`: the last callback about the connection says whether the stream is authenticated |
| `AutoPingProofs!OldForgotten` | `OldPingsForgotten` | `OldOrdered`: the tracking of an old ping is before the disconnection on the queue |
| `AutoPingProofs!PongsFinal` | `PongIsFinal` | `Heard`: nothing was said of a ping whose timer runs or is to be started, and no pong of one that is tracked |
| `CapabilitiesProofs!LinkedCorrect` | `LinkedByHash` | a part of the inductive `IInv`, with `StoredClosed`: nobody is asked about a hash that is known |
| `CapabilitiesProofs!OneIsAskedCorrect`, `RequestsCorrect` | `OneIsAsked`; `RequestsAreReal`, in no run | `Fits`: for each jid that is not in `moved`, its request, its places in lists and its timer are in one of a few combinations |
| `CapabilitiesProofs!WhoWaitsIsToldCorrect` | `WhoWaitsIsTold` | an action property from `Fits`: whoever has a request is in the list that is told |
| `RosterProofs!RosterCorrect` | `RosterMatches` | `Matching`: the last word about each contact along the queue is that of the server, or nothing is known of it; before a roster without the contact is handled the contact is gone (`AbsentStays`), and pushes come after a roster of their connection (`PushesAfter`) |
| `RosterProofs!PresenceCorrect` | `PresenceMatches` | `PresenceInv`: the last block that tells of a contact's presence tells what the server holds, or nothing tells and it is counted so, in the resources or in the presence kept (`ToldLast`); a roster that will not list a contact finds none of its presence kept (`ToldRoster`); a contact that comes is a user by then (`Listed`); and presence is handled only with a fetch requested on its connection (`Requested`). `AnswersInv`: answers that are stored, kept, or on the queue with no end of a connection behind them were sent to this connection |
| `RosterProofs!AcceptsCorrect` | `KnownIsAccepted` | `Friend`: whatever speaks of a contact that was in the roster all along says so |
| `RosterProofs!KeptTimed` | `KeptIsTimed` of that module | what is kept waits for a fetch whose timer runs |

`ReconnectProofs`, `AutoPingProofs`, `CapabilitiesProofs` and `RosterProofs` have a `TypeCorrect` of their own too.

`Control` has four parts: an established stream has no timer and no SRV hosts left
(`EstablishedForgets`); without a parser nothing on the queue matches it (`NoStrayElements`); a
resolver that is in use and has not called back belongs to a resolving stream (`ResolverInUse`);
while delegates answer in time, questions about binding are those of established streams
(`QuestionsInTime`). `TypeOK` includes
`NothingKept`, which is not a type: a stream without a connection has no parser, no features and
no authentication. It is needed because a handler of the parser may only run in an established
stream (`CurrentIsEstablished`).

`NoFilter` is `WillReceive = FALSE`: with a delegate that filters, `HandledSafe` is refuted (3.4).
It needs no bound on the width of h: when h wraps, `lastHandledByClient` is smaller than what it counts.

The theorems of `StreamManagementAcks` have three conditions, which permit any number of sessions,
resumptions, lost connections and late ids. `AlwaysResumes` is `MayDecline = FALSE`, as with
`autoResume`: otherwise `NoFalseAck` is refuted, by the run `sm_false_ack`. `KeepsResuming` is
`MaxCrash = 0 \/ ResumeMayBreak = FALSE`: either no process ends at all, or no connection is lost,
and no process ends, while the answer to `<resume/>` is awaited; without it the last row of the first table
in 3.4 refutes `NoFalseAck`. `NoWrap` is `MaxOut < Modulus`: fewer than 2^32 stanzas are sent. When h
wraps, what is reported lags behind (3.4, first row), and `Lined` no longer holds: no counterexample to
`NoFalseAck` is known, and whether it holds beyond the wrap is open.

`NoLateEnd` is `LateAnswers => ~EndsInStart`. It permits every late answer of a delegate, and is what
`XMPPStreamManagement`, the only custom binding of the repository, does in its `start:`. With a custom
binding that ends there too late, `AliveHasSocket` is refuted (4.4). `NegotiationInv` needs more:
`InTime`, `LateAnswers = FALSE`, and `AuthenticatesOnce`, `Reauthenticates = FALSE`. A late answer writes
a request out of turn, and a second authentication restarts the turns, so that what weighs one exchange
does not hold; `OneReader` has no counterexample with late answers (`conn_main`), and neither has
`ConnectedIsAnnounced` with only one of the two (`conn_settles`, 4.4), but they are not proved there.
`RespondersAssumption` keeps the stream's own error apart from the names of delegates.

Layout: facts about sequences, types of the operators, frame lemmas, one lemma per action, one per
group of `Next`, the theorem.

Model-checked and not proved: the liveness properties (`EventuallyReported`, `EventuallyAcked`,
`Settles`, `Reconnects`, `SilenceIsNoticed`, `NobodyIsAwaitedForever`, `EarlyIsHeard`), which are out of
this prover's reach together with everything that needs ENABLED. Every invariant, action
property and refinement of a passing run is stated by a theorem. No RECURSIVE operator is used.

## 11. Not modelled

Section 1 and PROJECT.json list the parts without a module. `MulticastDelegate`, `SRVResolver`,
`Room` and `CoreDataStorage` have state worth a model; the other extensions are one query
and one answer each, or rewrite messages, or hold objects for Core Data. Inside the modelled parts:
wall clock times and the age of a session (a choice of the environment); the text of elements,
ids and errors; KVO, logging and traffic counts; keep alive; peer-to-peer connects; the activation
and deactivation of modules; the deprecated synchronous authentication calls, which end in the
same state as their replacements; the choice between resources and JIDs; the threads that wait for a
receipt; pings that are answered for others; the collection of one's own capabilities; of the roster, one's own
presence, errors, photos, the requests that `addUser:` and its like send, and the Core Data storage. The order
in which the delegates of one callback run is theirs; only what they answer matters to the models.

## 12. Running

    tlc -workers 2 -config sm_resume.cfg MCStreamManagement
    tlc -workers 2 -config conn_main.cfg StreamConnection
    tlc -workers 2 -config traffic_main.cfg MCStreamTraffic
    tlc -workers 2 -config reconnect_main.cfg Reconnect
    tlc -workers 2 -config ping_main.cfg AutoPing
    tlc -workers 2 -config caps_main.cfg MCCapabilities
    tlc -workers 2 -config roster_main.cfg MCRoster
    tlapm StreamTrafficProofs.tla

`sm_*.cfg` belong to `MCStreamManagement`, `conn_*.cfg` to `StreamConnection`, the others to the modules above. The runs whose `expect` is `violation` in PROJECT.json end with a counterexample.
The largest passing run has 4.2 million states; each takes three minutes or less on two cores.
`StreamManagementProofs` and `StreamManagementAcks` are each checked in about a quarter of an hour,
`StreamConnectionProofs` in five minutes, every other proof module in two minutes or less.
