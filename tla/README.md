# OpenConsole: a TLA+ model of the relay and the browser

OpenConsole shares one machine's terminal with guests through a relay. The
machine that shares runs `openconsole` (the host); guests watch and type from a
browser, from `openconsole join` or over plain `ssh`; the relay
(`openconsole-server`) never runs anything, it routes frames. This directory
models the parts of it whose correctness depends on the order of things, and the
conversions between them whose two ends are written twice (Go and TypeScript), checks
the models with TLC, and proves with TLAPS, for every instance, every invariant and the
refinement it checks but one, which speaks of ENABLED.

Line numbers refer to the sources beside this directory.

## 1. The system

| Part | Source | State it keeps | Operations |
| --- | --- | --- | --- |
| Session store | `internal/session/manager.go`, `session.go`, `auth.go`, `id.go` | id -> record (three tokens, expiry), closed flag | Create, Get, Authenticate, Delete, sweep, Close |
| Bridges registry | `internal/session/bridges.go` | id -> live bridge | Open, Get, remove, CloseAll |
| Bridge: the shared terminal | `internal/session/bridge.go`, `ring.go` | host stream, guests, size, replay ring, one queue per guest | ServeHost, ServeGuest, broadcast, Close |
| Bridge: forwards | `internal/session/forward.go` | host channel -> forward, guest channel -> host channel, a queue and a writer per forward | open, route both ways, close, retire, guest teardown |
| Tunnel endpoint | `internal/server/tunnel.go` | none of its own | handshake, acknowledge, serve a host or a guest, keepalive |
| Server lifecycle | `internal/server/server.go` | listeners, base context | Run, teardown |
| API, rate limiter, client address | `internal/server/api.go`, `ratelimit.go`, `clientip.go` | token buckets | create session, look up, sweep |
| SSH server | `internal/sshd/` | host key, connections | authenticate, join as a guest |
| Host client | `internal/client/share.go` | send queue, terminal | pumps, sender, CLOSE |
| Forward ends | `internal/client/forward_host.go`, `forward_guest.go`, `window.go` | open channels, credit windows | dial, pump, credit, close |
| Guest client | `internal/client/join.go` | terminal mode | receive, type, detach |
| Browser: tunnel | `web/src/tunnel.ts` | socket handle, access, ending, two promise chains | connect, handle a frame, write, fail, close |
| Browser: page | `web/src/main.ts` | location, keys, terminal grid and font, current tunnel, status | load, submit, reload, reconnect, refit |
| Browser: links, keys, framing | `web/src/locator.ts`, `crypto.ts`, `protocol.ts` | none | parse and build links, derive, seal, open, encode, decode |
| Protocol and transport | `internal/protocol/`, `internal/tunnel/` | write mutex | encode, decode, send, close |
| End-to-end encryption | `internal/e2e/` | keys | seal, open |
| Local terminal | `internal/terminal/` | PTY | start, resize, close |

How they meet. A session record is made over HTTP; it gets a bridge when a host
tunnel authenticates with the host token, and loses both when that tunnel ends.
Guests authenticate against the record, look the bridge up in the registry, and
attach. Inside a bridge everything is goroutines and one mutex: the host's reader
broadcasts into the guests' queues, a writer per guest drains its queue, a reader
per guest writes to the host directly, a watchdog closes the transport of a guest
that fell behind, and every forwarded TCP stream has a queue and a writer of its
own. Shutdown closes bridges from outside while all of this is running.

A browser reads a session's id, token and key from its URL, opens a WebSocket to the
relay's guest endpoint, and speaks the same frames as any other guest. It has one event
loop, but decryption is asynchronous, so frames wait for each other on a promise chain
while the socket they came from may already be closed or replaced.

What is hard about it: the lock is dropped between almost every look and the act
that depends on it; `select` picks at random when a stop and a frame are ready
together; a guest's reader is not joined when its connection is torn down; and
every teardown path (host leaves, guest leaves, guest is too slow, relay shuts
down, a write fails) may meet every other half-way.

What makes each part correct:

- *store and registry*: the limit holds under concurrent creates; one terminal per
  session; no bridge outlives its host and none is left registered; no guest is
  left on a closed bridge; shutdown leaves nothing.
- *shared terminal*: a guest sees one gapless run of the output from wherever it
  joins; it knows the size; a slow guest costs nobody else anything and is released;
  everybody who stays is told of the end.
- *forwards*: no byte of one stream ever reaches another guest or a later stream;
  no gap inside a stream; both ends hear of the end; nothing leaks when a guest
  leaves; the host's reader waits for nobody.
- *browser tunnel*: frames are drawn and keys leave in order, however long each takes; a
  disagreement about encryption shows nothing; the narrower of two grants wins; the page
  is told of every end, and what it says is true of the terminal that is there.
- *browser page, links, framing*: a ticket arrives whole or not at all; the key a page
  joins with is the host's; both codecs agree; the font fits the host's grid.
- *forward ends*: credit is never exceeded and never lost; a closed stream leaves no
  socket behind.
- *rate limiter*: no source is granted more than burst + rate * time.

`PROJECT.json` lists the hazards one by one, at their lines, with the properties
that cover them.

## 2. Modules

| Module | Models |
| --- | --- |
| `RelayForwards` | `forward.go`, and the parts of `bridge.go` that drive it |
| `RelayForwardsProofs` | theorems about `RelayForwards`: types, routing |
| `RelayDeliveryProofs` | theorems about `RelayForwards`: what a guest and the host see of a stream |
| `BridgeFanOut` | `bridge.go` and `ring.go` without the forwards |
| `BridgeFanOutProofs` | theorems about `BridgeFanOut`: the end of a session |
| `FanOutViewProofs` | theorems about `BridgeFanOut`: types, the ring, what each guest sees, and that it implements `SharedTerminal` |
| `SharedTerminal` | what the fan-out promises, with no queue, lock or goroutine in it |
| `ForwardEnds` | `forward_guest.go`, `forward_host.go`, `window.go`, the sender of `share.go`, the receiving loop and the exit of `join.go` |
| `ForwardEndsProofs` | the theorems about `ForwardEnds` |
| `SessionLifecycle` | `manager.go`, `bridges.go`, the handlers of `tunnel.go`, the joining half of `sshd.go`, `teardown` of `server.go` |
| `SessionLifecycleProofs` | the theorems about `SessionLifecycle` |
| `BrowserTunnel` | class `Tunnel` of `tunnel.ts`, and how `showSession` of `main.ts` owns one after another |
| `BrowserTunnelProofs` | the theorems about `BrowserTunnel` |
| `BrowserLink` | `locator.ts`, and base32 and the session keys of `crypto.ts` |
| `BrowserWire` | `protocol.ts`, `seal` and `open` of `crypto.ts`, and their Go counterparts |
| `BrowserPage` | the rest of `main.ts`, composed with `BrowserLink` and `BrowserWire` |
| `BrowserPageProofs` | theorems about these three: base32, keys and tickets, frames, the font |
| `MC...` | small instances for TLC: symmetry only, every definition is the module's own |

### RelayForwards

State: `forwards` is `Bridge.forwards`, `channels` each `guestConn.channels`,
`nextChan` the counter; per forward `out`, `last`, how often `closed` was closed
(`stops`) and where its writer is; per guest where its reader is and whether its
`ServeGuest` is attached, cancelled or cleaning up (`toTell` are the forwards it
removed and must still report); where the host's reader is and the frame it
carries. The host is a stream that is up, broken or nil, the frames on their way
from it (`wire`), the sockets it holds (`hostEnd`) and the forwards whose target it is
dialling (`dialing`). The dial is a goroutine of its own (`forward_host.go:64`): it succeeds
(`DialSucceeds`), fails with an ERROR (`DialFails`) or goes on, and a CLOSE that arrives
meanwhile changes nothing (`missed` remembers it). `delivered` and `cause` only record.

A step is a critical section, a channel operation or a write. Abstractions:

- Only the caller that removed a forward stops it, so removal and stop are one step.
- A writer takes a frame and writes it in one step (the frame in flight would add
  one to the queue's capacity).
- ERROR ends a stream as CLOSE does, WINDOW travels as DATA does: `forward.go`
  treats them alike. A refused OPEN and a viewer's frame change nothing.
- Channel numbers are a counter without its 32-bit wrap.
- Sending on a cancelled context may succeed or fail; the transport library decides.

### BridgeFanOut and SharedTerminal

State: the fields of `Bridge`; where `serveHost` is and the frame it is about to
broadcast; per guest its `ServeGuest`, queue, stop and kill channels, context,
transport, writer, the frame the writer holds, reader. A payload is its number;
`length` gives each a length, chosen at the start, so that the ring is checked
for every combination. `seen` is what the transport accepted.

`SshGuests` are the guests that came over SSH, the others use a WebSocket. The difference
matters at the end. An SSH stream closes itself behind a CLOSE (`sshd/stream.go:87`), looks at
its context only on entry, answers no PING, and its context ends with `Server.Run`'s; a
WebSocket guest's derives from the base context (`tunnel.go:35`). `relay` is how far the
shutdown has come: `ShutdownBegins` ends the SSH guests' contexts, `CloseAll` closes the
bridge, and `BaseCancel`, once it has returned, cancels the base context (`server.go:287-288`),
and with it the writes of guests that are still being flushed, and the host's `Recv`. A
PING is answered by the guest's reader (`ReaderPings`, then `PongSent` or `PongFails`), without a
deadline, while the writer waits for `wsConn.writeMu`.

`SharedTerminal` has four actions that matter: the host says something, the host
ends, a guest starts watching somewhere or is shown the next piece, a guest is
told of the end having seen everything. `BridgeFanOut` implements it
(`ImplementsTerminal`) under the mapping: pieces are non-empty DATA frames, what a
guest was shown runs from the first to the last of them in `seen`, and the host
has ended once its CLOSE is being broadcast or `serveHost` returns.

### ForwardEnds

State: per end the `conns` map (`listed`), the windows' `avail`, the goroutine of every
channel (`pump`, `hold`) and the frame the receiving loop is writing to a socket (`loop`);
the guest's `ready` (`answer`); the sender's queue, the relay's queue per forward, the frames
on their way to the host, and which channels the relay routes. `guest` is in its session, in
`Close`, or gone; `share` is up, has failed or is over. The rest only records.

Both ends are the same machine, so the actions take the end as a parameter: a pump reads,
reserves credit (`PumpReserves`) and sends, three steps between which a channel may close; a
loop takes a frame, and if it is DATA it does nothing else until the socket took it
(`LoopWrites`, which credits it) or refused it (`LoopFails`).

Abstractions: a stream is a number of bytes, a channel has one number everywhere (translation
is `RelayForwards`), a guest's frame reaches the host's transport at once, and frames on the
way to the host are not bounded: the windows bound them. A channel leaves the map, closes its
window and its socket and announces it in one step. A refused allowlist and a failed dial are
the same ERROR. The terminal does not share the sender's queue here.

### SessionLifecycle

State: `record`, `expired`, `mclosed` are the store, `registry` the bridges map,
`bridge` each host tunnel's bridge (open but without host, hosted, closed),
`host` and `guest` where each handler is, `shutdown` where teardown is, with the
bridges `CloseAll` has yet to close and the one it is removing. What happens
inside a hosted bridge is `BridgeFanOut`; here a guest is attached or not.
Abstractions: tokens are right or the connection does not count; ids never collide
(128 random bits) and are never reused; `Get`'s lookup and its removal of an expired
record, two critical sections, are one step, which ids that are not reused make
harmless.

### BrowserTunnel

State: the fields of `Tunnel` (`held` is `ws !== null`, `opened`, `readOnly`, `ending`),
the two promise chains (`inbound` holds frames, `outbound` keys), the WebSocket's
`readyState`, and the page's `tunnel`, `setStatus` and `disableStdin`. Each connection has
its own copy; `current` is the one the page holds. `relay` is the relay's end as far as the
page is told of it.

A task of the event loop - a socket event, a finished decryption, a key, a click - is an
action guarded by `Quiet`: no promise callback is ready to run. A callback is an action of
its own (`HandleOpen`, `HandleData`, ...), enabled as soon as its frame is the head of its
chain and needs no decryption; what does is `Decrypted`, a task, because WebCrypto answers
in one. So frames overtake nothing, but sockets open, deliver and close while the chain
waits. Several chains' callbacks may be runnable at once, in any order.

Abstractions: DATA is a number and whether it authenticates; a garbled message is one that
does not decode; `onerror` and the `onclose` that follows it are one task; resizing the
terminal is `BrowserPage`'s. `beforeunload` ends the program and is not an action. What the
relay may say (`RelaySays`) is taken from the guest handler of `internal/server/tunnel.go` and
from `ServeGuest`. The handler reads the bridge's flag, acknowledges, and attaches the guest,
three steps: a guest that is acknowledged before the host has declared its encryption (`early`)
may be turned away by an ERROR, or attached to the encrypted session when the host declares
itself in between. An ERROR may also follow later, even behind the host's CLOSE (`"parting"`):
a guest that types finds no host.

### BrowserLink, BrowserWire and BrowserPage

`BrowserLink` and `BrowserWire` are conversions without state: base32 with its shift
register and its overflow, fields of tickets and fragments, the binary header digit by
digit, the limit on payloads. `BrowserPage` is the machine around them: a host with a key
prints a ticket, the ticket may be mangled, the page reads it from the form or its URL,
derives keys, and takes messages that may have been altered on their way. `Mangled` takes
digits for other valid digits (`Misread`) and `k` for `v`, cuts, adds, puts wrong characters
in, and puts a percent sign into the token, which `sessionURL` writes raw and `parseSessionURL`
decodes (`Unescape`). The reference for base32 is what Go
writes, by its definition (`GoBase32`): the bytes are one row of bits, and a digit is the next
five. For the framing it is the Go side (`Marshal`, `Unmarshal`), for parsing what the host
printed.

Abstractions: a text is a token and its fields without the dots; HKDF is a function that
keeps sessions, roots and directions apart; a sealed payload remembers its key, its
additional data and whether it was altered, and no nonce. Of bytes the length counts
(`Length`); text frames of either end are taken to be within the limit. `KEY_SIZE` is 2 instead
of 32 (four bits unused in the last digit, as with 32), the word 14 bits instead of 32 (still
overflowing), a header byte has 16 values instead of 256, `MaxPayloadLen` is 32 instead of 1 MiB
(what sealing adds is 28, as it is). A cell of xterm is 0.6 by 1.2 font
sizes, its height rounded; floating-point rounding of the ratios is ignored. The
early returns of `refit` without a terminal and of `fromTicketKey` for a key of the wrong
size are never reached from the page and left out.

## 3. What is checked

All runs use `CHECK_DEADLOCK FALSE`: every one of these systems may come to rest
(the session is over and nobody is left).

| Run | Shows | Bounds |
| --- | --- | --- |
| `ForwardsRouting` | the channel maps agree, a forward is stopped once, nobody receives another forward's frames, whoever leaves whenever | two guests that use the same channel number, two forwards, queues of one |
| `ForwardsDelivery` | no gap in a stream; both ends are told of the end, though a host that still dials ignores it; a stop flushes; the host's reader never waits; writers end | one forward, three data frames, a queue of one, every failure |
| `ForwardEnds` | credit and bytes are conserved, the end of a stream overtakes none of it and reaches both ends, senders go on | one stream, a window of two bytes read in ones and twos, three bytes one way and one the other, queues of two, every failure |
| `ForwardEndsClose` | *violated*: a guest that detaches while a forward is being opened never exits | |
| `FanOutViews` | the ring, gapless output, the size, and `SharedTerminal` | an SSH guest that joins at any point, three frames with lengths 0, 1 and 3 in a ring of 2, a queue of two |
| `FanOutEnd` | the end overlooks nobody; a quiet guest sees the CLOSE, unless the relay shuts down; dropped guests and ended sessions release their goroutines | a WebSocket guest that types and pings, a queue of one, two frames, every failure |
| `LifecycleSessions` | the limit, one terminal per session, no orphan, no stranded guest, nothing after Close | two sessions in a store of one, two requests, two hosts, a guest, expiry, failed handshakes, shutdown |
| `LifecycleShutdown` | teardown ends every tunnel | two hosts, a WebSocket and an SSH guest |
| `LifecycleReconnect` | *violated*: the record of a live terminal is deleted | |
| `BrowserTunnel` | output and keys keep their order, a mismatch the relay knows of shows nothing, the narrower grant wins, no frame is stuck, every end is told | one connection, two DATA frames, a RESIZE or PING, two keys, every failure |
| `BrowserReconnect` | the status is true of the terminal that is there | two connections, a DATA frame and a key, every failure |
| `BrowserPage` | keys, tickets, links, framing and the font | two root keys with boundary bytes, every digit taken for the first or the last one, three channels up to the last number, pastes within the limit, beyond it when sealed and beyond it, two grids, two windows |

Why the bounds are enough. Queues of one frame fill after a single frame, which
makes every full-queue path reachable within three frames. Two forwards are needed
for a number to be reused or a frame to be misrouted, and two guests for a frame to
reach the wrong one; a third adds only permutations. In the registry, two hosts
are what a race needs, and a limit of one makes every second create meet it.
Two encrypted frames are what it takes to finish decrypting in the wrong order, and two
keys to seal in the wrong order; three bytes and a window of two make a sender wait for
credit, and queues of two frames overflow with frames the window allows; a second connection
is what a late event needs to speak for another. `BrowserPage` cuts every ticket at every digit, puts a wrong character and two wrong
digits in every place, and takes every pair of links one after the other.
The faults explored are a constant (`Faults`, `Events`); the run about delivery and the
run about the end explore all of them.

The violated properties are sentences of the documentation or of comments; section 6
explains each.

### Fairness

- `RelayForwards!Fairness`: every runnable goroutine runs; writes to a guest end
  (`sendBounded` gives them `guestSendTimeout`); `ServeGuest` returns when its
  reader ended. Nothing is assumed of what peers send. `HostReaderNeverWaits`
  assumes no fairness at all: it says that the step is enabled.
- `BridgeFanOut!Scheduling`: every runnable goroutine runs; of a WebSocket guest, a write whose
  connection is closed or whose context is cancelled returns, and `Close` returns (`closeGrace`).
  A write to a guest that stopped reading may hang forever, and the first half of
  `GuestsAreReleased` holds nevertheless, thanks to the watchdog. The second half assumes in
  addition that the writes of `ServeGuest` and of the writer end (`WritesEnd`, the send timeout)
  and that every PONG does (`PongsEnd`). `WritesEnd` does not say that they end while a PONG
  holds `wsConn.writeMu`, which no timeout interrupts; it is strong fairness because a Go mutex
  goes to whoever waited longest. `PongsEnd` is an assumption about guests and not one the code
  justifies: `bridge.go:435` sets no deadline, so a guest that sends PINGs and stops reading
  keeps its goroutines when the session ends (section 6). Nothing is assumed of writes to SSH
  guests, which may block in `ch.Write` or `ch.Close` for good, and `GuestsAreReleased` says
  nothing of them.
- `SessionLifecycle!FairSpec`: handlers run on; a write or a `Recv` ends when its
  context is cancelled, or, for a guest, when it was stopped (which is what
  `GuestsAreReleased` establishes inside the bridge). A host or a guest that is
  served may stay for ever.

- `ForwardEnds!Fairness`: every runnable goroutine runs, a dial ends (`dialTimeout`), and an
  application reads what waits in its socket some time. Nothing is assumed of what
  applications write. The last assumption is one about other programs: without it a single
  target that does not read stops the host's receiving loop (section 6).
- `BrowserTunnel!Fairness`: the event loop runs what is ready, WebCrypto finishes, a socket
  whose peer is gone or whose closing handshake has begun closes (browsers time both out).
  Nothing is assumed of the user or the relay, and a socket may stay connecting for ever.

## 4. What is proved

`RelayForwardsProofs` proves, for any sets of guests, viewers and channels and any
depth, limit and bound (`ForwardsAssumption` is all that is assumed):

- `TypeInvariance`: `Spec => []TypeOK`, the queue bound included.
- `RoutesMatchHolds`, `StoppedOnceHolds`, `NoCrossTalkHolds`: the three safety
  invariants `ForwardsRouting` checks.

None of the three is inductive. `IInv` (`RelayForwards`) strengthens them:
`Numbering` says that the numbers given out are exactly `1..made` and that forward
`f` has number `f`, `Routes` that the two maps are inverse to each other and own
their forwards, `StopState` that a forward in the map, or waiting for its report,
is not stopped yet, `WritersMade` that only forwards that were made have a writer,
and `Streams` that every frame in a queue, on the wire, in the host reader's hand
or at the host's socket names the forward its channel number was given to. The last
is what makes a late frame harmless, and it holds because numbers are never reused:
with the mutant that reuses the lowest free number the argument and the run both
fail. `IndInvariance` proves `IInv` inductive, one step per action.

`RelayDeliveryProofs` proves what `ForwardsDelivery` checks of safety: `InOrderHolds`,
`EndedIsToldToHostHolds` and `StoppedIsFlushedHolds`. It first says once what each action does,
forward by forward, and then proves four invariants, each with the help of those before it:

- `Begins`: a forward is silent, in both directions, until its target is dialled, and until its
  OPEN was told nobody takes it off the map while its guest stays. So an end is told behind the
  OPEN, and the only way for the host to open a socket after it is to be dialling already.
- `Delivery`: what a guest was sent and what waits for it is one run of frames (`LineInOrder`);
  the frames of a forward on the wire are numbered upwards with the CLOSE last
  (`WireInOrder`); and, as long as the host's reader routes the forward, the frame it holds or
  the next one on the wire is the one the queue waits for (`NoneMissing`). A gap can arise only
  where the reader gives up on a full queue, and from then on nothing is queued.
- `Telling`: whoever took a forward off the map, while its guest stays, is about to tell the
  host by a CLOSE of its own, not by a frame that was on its way, or told it while it dialled
  (`missed`). `EndedIsToldToHost` allows for that case by name; what the code would have to
  keep without it is `ToldIsDropped` (section 6).
- `Flushing`: a forward is off the map and the relay's own notice waits in its slot before the
  writer is stopped, so the flush finds the notice.

`BrowserTunnelProofs` proves, for any number of connections, frames and keys and any set
of faults (`TunnelAssumption`): `TypeInvariance`, `MismatchShowsNothingHolds`,
`NarrowerWinsHolds` and `StatusIsTrueHolds`. All of them rest on `IInv`, proved inductive in
`Invariance`, one lemma per conjunct with one case per action:

- `AckFirst`: an acknowledgement is alone on its chain and its socket is open. It holds
  because such a chain is runnable, so that `Quiet` keeps every task from running before
  the handler has taken it off.
- `Sockets`: a socket that may still carry something is the one its tunnel holds, so a
  tunnel that fails does close it; and the relay says nothing before it is connected.
- `Mismatch`: where link and session disagree and the relay knew that the session is encrypted,
  the only way to be attached with an open socket is to have the acknowledgement, unread, at the
  head of the chain, and its handler closes that socket. A guest acknowledged too early to tell
  (`early`) is one of an encrypted session. So only a page without a key may be shown
  anything: one with a key refuses the unset flag (`tunnel.ts:221`).
- `KeysTyped` and `KeysMuted`: a key on its way was typed, and, where only watching is
  allowed, typed before the tunnel was told.

`StatusIsTrue` is inductive together with `Sockets` and `AckFirst`: unless the user
reconnected too early, every tunnel but the current one is finished, and a finished tunnel
takes no step.

`DrawnAsReceivedHolds` and `KeysInOrderHolds` rest on a second invariant, `OInv`: `Output`
(what waits on the inbound chain or was drawn is older than what the relay sends next, and a
page without a key is given nothing that could fail) and `Typing` (what waits to be sealed
comes after what was sent, and while a socket is open every key its tunnel took is in one of
the two). Decryption may finish in any order; what keeps the order is that a chain is only
ever appended to and only its head leaves. That the socket is the tunnel's own (`Sockets`) is
needed where a connection begins.

`ForwardEndsProofs` proves, for any number of channels, any window, any chunk sizes, any
depth of the queues and any set of faults (`EndsAssumption`), `EndReachesBothHolds`: whoever
still holds a socket of a stream the relay no longer routes has the news on its way. Its
`IInv` (`ForwardEnds`) adds what makes that inductive:

- `OpenIsFirst`: an OPEN on its way to the host is the only one for its channel, the host has
  not dialled for it, and if the channel has ended, the end is behind it. Without it the host
  could begin to dial for a stream whose end it has already passed.
- `HostLetGo`: an end in the host's send queue is that of a channel the host no longer holds,
  so the relay may stop routing it without telling the host.
- `NumbersUsed`: a number is not taken twice, and the host has a socket only behind a dial.
- `GuestLetGo`: a guest in `Close` holds nothing, so the relay need not tell it.

Most actions only let go of sockets and send frames; `Calm` says this in one formula,
`CalmKeeps` that it preserves the invariant, and each such action is shown to be calm. Opening,
dialling and the host's receiving loop have a lemma each. How much credit there is plays no
part in that argument (`Domains` leaves `avail` out).

`TypeOKHolds`, `CreditKeptHolds` and `EofComesLastHolds` do depend on it. They follow from
`CInv`, proved inductive together with `IInv` (`CreditInvariance`); TLC checked it on the
instance of the run and on larger ones before it was proved. Its parts:

- `Books`: for each end of each stream, its credit, the bytes it has sent that nobody has
  written and the credit on its way back never exceed the window, and what was written and is
  on its way never exceeds what was read; while the stream is up both are equalities. The
  inequalities are what `TypeOK` needs (an end is never given more than it had), and they must
  hold of streams that are coming apart as well, where frames are dropped and no equality is
  left.
- `Depths` and `Fresh`: a queue of a routed forward has no more than its depth, what an end
  holds was read in one chunk, and until the host has dialled there is nothing but an OPEN and
  perhaps a CLOSE.
- `EndsAreLast` and `Unrouted`: no DATA follows the announcement of an end on the way to the
  host, nor in the relay's queue, nor what the host sent before its application was done; and
  once the relay has unrouted a stream the guest still holds, all the host read of it has
  passed. Without them the end of a stream could overtake its last bytes.
- `Partings`: an end that was told has let go, an end whose application is done has sent all it
  read, and as long as the news of that is on its way, all of it is written or on its way too.

`Books` speaks of sums over queues. `Bytes` is a recursive function on the length of a queue,
and what it does when a frame is queued, taken or moved (`BytesAppend`, `BytesTail`,
`BytesConcat`) is proved from the fact that a set of numbers has a least one. After that each
action is described by what it does to the wires (`InStep`, `OutStep`, `QueueStep`), to an
end (`Steady`, `PumpStep`) and to the bytes on their way (the lemmas named `...Flow`), and the
parts of `CInv` are preserved one after the other.

`SessionLifecycleProofs` proves, for any sessions, requests, hosts and guests, with any limit
or none and whatever may happen (`LifecycleAssumption`), every safety property
`LifecycleSessions` checks: `TypeInvariance`, `RegistryMatchesHolds`,
`NobodyLeftOnClosedHolds`, `FinishedSessionIsGoneHolds` and `CapHoldsAlways`. Its `IInv` adds

- `Tunnels`: where a host's tunnel is decides whether its bridge exists, is open or closed; a
  bridge is registered under the session it was opened for and no other; what CloseAll still
  holds was opened, and what it is evicting is closed. This is what makes the identity check
  of `remove` sufficient, and what keeps a host that opens the next bridge of a session from
  being unlisted by the previous one.
- `Visits`: a guest that looks a bridge up has a session, and one that attaches has a bridge.

The two ways in which a bridge is closed and removed, by its tunnel and by `CloseAll`, share
`ClosingKeeps` and `RemovingKeeps`. The limit is inductive by itself on a finite store
(`Held`); it rests on the second look of `Create`, under the lock it inserts under.

`BridgeFanOutProofs` proves `EndReachesEveryoneHolds`, for any guests and viewers, queues of
any depth, any ring, output and sizes, and any failures (`BridgeAssumption`). Its `IInv` rests on

- `Collected`: `broadcast` and `Close` collect guests into sets that were empty, so neither
  forgets a guest the other has yet to deal with.
- `Leaves`: a guest leaves the registry once, and whoever took it off is about to stop it.
- `ReleasedByWriter`: a guest that keeps its connection and does not type, and whose context the
  relay's shutdown has not cancelled (`ShutDown`), can leave
  `ServeGuest` only through its writer, and that ends with the queue empty. One step of the
  argument is that a writer that ended belongs to a guest already off the registry, so that
  a later `broadcast` cannot queue for it.
- `CloseIsLast`: nothing is queued behind the final CLOSE; it is the last frame of the queue,
  then the one being sent, then the last one sent.

What is replayed to a guest that joins plays no part in it, so `Domains` says nothing of the
ring, and of what was written only that it is a sequence (`Written`).

`FanOutViewProofs` proves the rest of what `FanOutViews` checks: `TypeInvariance`,
`NoGapHolds`, `SizeAgreesHolds` and `RingIsRecentHolds`. All that a guest was shown or will be,
`Coming`, is one sequence: what was written, then what its writer holds, its replay and its
queue; frames only move along it, so that most steps leave it as it is. `VInv` says of it

- `Source`: what is being broadcast is the last output, or the size, the host's reader noted.
- `RingEndsLatest`: the ring holds every output from its oldest frame on.
- `Stages`: nothing is coming to a guest that has not come, and the replay is sent before the
  writer starts.
- `OneRun`: what is coming is one run of consecutive outputs; while the guest is registered
  the run reaches to the latest one, but for the one being broadcast; and if that one is
  already in it, which is possible because ring and broadcast are separate critical
  sections, no other has come twice.
- `CloseComesLast`: the final CLOSE is the last frame of a run that is complete.

`SizeAgrees` is inductive with these. For the ring, `Bytes` is counted by a function on the
payloads' places, of which every replay is a suffix: the bytes from one place on are the
difference of two counts (`BytesFrom`), and the payload before the place at which `frameRing.Add`
stops dropping is the one that would not have fitted (`RingStaysSnug`).

Its last theorem is `Refinement`, `Spec => ImplementsTerminal`. `SharedTerminal`
numbers only the pieces that show something, so a frame is mapped to its rank among the
non-empty ones, and what a guest has seen to the first and the latest rank shown to it.
`HostData` is `Say` unless the payload is empty, `HostClose` and `HostLost` are `End`,
whatever moves between queues is a stutter, and a frame accepted by a guest's transport is
`StartWatching`, `Show` or `Tell`, or a stutter for the one output a guest may be sent twice.
That what is accepted is the next piece follows from `OneRun`, and that nothing is left when
the guest is told from `CloseComesLast`.

`BrowserPageProofs` proves every property of the run `BrowserPage`, for root keys of any size,
any channels, terminals and windows, header bytes with any number of values above the largest
type's, and any word that 8192 divides (`LinkAssumption`, `WireAssumption`, `PageAssumption`),
which the 2^32 of JavaScript's shifts and the 256 of a byte satisfy. It begins with base32:

- `DecodesWhatGoEncodes` and `EncodesAsGo`, for a row of bytes of any length. The loops are
  functions on the number of characters they took, and the proofs say what they hold after
  each: the decoder the bytes that are complete and the bits left over (`HasDecoded`), the
  encoder the digits that are complete and the bits left over (`HasEncoded`). The number both
  shift into also holds bits that were used already and drops what exceeds the word; 13 bits of
  it are all that is ever read, which is where 8192 comes from. That the claims hold for every
  length is shown of the least length at which they would not.
- `DecodedLength`: a text of another length than the ticket's decodes to too few bytes, and one
  with a wrong character to none. `parseKeyField` checks the size, so every field that was cut
  or has a wrong character is refused. A field whose digit or letter was taken for another
  valid one may be accepted (`FieldMisread`): it then has the letter or the key of the printed
  one, but not both, unless it is the same key. `MangledKeys` says which keys any text may
  yield: the printed one, one that was misread, none, or the text is an error.
- `MisreadApart`: a key that was misread yields neither of the host's keys, also where the
  letters of a viewer's and a full ticket are exchanged. It rests on derivation keeping roots
  and directions apart and no key deriving itself (`DerivedApart`, `DerivedMoves`), which the
  symbolic HKDF does by construction and the real one with overwhelming probability.

`LinkInvariance` proves the invariant of the page (TLC checked it first). `URLInv` is the range
of the URLs: the session's own, with any text a user may have pasted, or the landing page's.
`ViewInv` says that a session view keeps the one locator and the keys it was opened with, even
while the URL has been edited and the event that would reload the page is still queued;
`SubmittedInv` that what the form was left with is what the URL says until it is edited. With
`PageFollowsURL` it is inductive, and `KeyIsTheHostsHolds`, `TicketArrivesHolds` and
`PageFollowsURLHolds` follow.

`ReadAsWrittenHolds` rests on `ChannelRead` (the four digits of a channel number are read back
as the number), `AlteredRead` (what each alteration leaves: no frame, a frame that is not DATA,
or a frame whose payload was sealed for another channel) and `AttachedKeys` (a page that is
attached has the host's keys, keys that open nothing of the host's, or neither has any).
`DataOpened` puts them together, once for both directions. What exceeds `MaxPayloadLen` is not
due and is read by nobody: `Marshal` and `Unmarshal` refuse it.

`FontNearlyBestHolds` is arithmetic: one pass of `refit` comes within two sizes of any font
that fits from wherever it starts (`PassReaches`), from below it a second pass comes within one, and
from above it a pass goes down by two at most (`PassFromAbove`), none of them beyond what fits
by more than one (`PassBounds`). What is lost by rounding cells, columns and rows is weighed against
the number of rows, font by font, and that is where `MAX_FONT` rows are needed (section 6).

Only model-checked, and why:

- `HostReaderNeverWaits` says that a step is ENABLED, which the prover cannot reason about.
- The liveness properties (`WritersEnd`, `SendersGoOn`, `GuestsAreReleased` and the others):
  fairness is outside the prover.
- The two violated properties have counterexamples instead.

## 5. Not modelled

The ciphers themselves; PTYs; parsing of flags and addresses; the web client's footer, docs
page and bundler settings, and what `describeSSH` writes on the page; installers and
packaging; logging and wording. `keepalive` changes no state, and its PING has a timeout. The
transport's write mutex is assumed: a write is one step, but for the PONG that holds it while
others wait (`BridgeFanOut`). The parts of section 1 that have no module yet are the plan of
section 7.

## 6. Where the code and its documentation disagree

1. `forward.go:379`: the relay's own notice has a slot for the case that the queue is
   full (`forward.go:52-55`), the host's CLOSE has not, and is dropped.
2. `forward.go:342`: a guest's reader outlives `closeGuestForwards` and can open a
   forward after it; the host then keeps a socket `docs/protocol.md:234` says it drops.
3. `bridge.go:457`: a guest that types while the host exits gets `ErrNoHost`, returns,
   and cancels the context its writer was flushing the CLOSE under (`bridge.go:105`).
   `server.go:288` does the same to every guest when the relay shuts down: `CloseAll` does not
   wait for the flush (`ToldBeforeCancelled`).
4. `tunnel.go:158`: the acknowledgement precedes the attachment
   (`docs/protocol.md:297`). If the host declares its encryption in between
   (`bridge.go:204`), a page without a key was told `encrypted: false`, is attached, and draws
   ciphertext, which `tunnel.go:109` says it is spared (`CiphertextIsNotShown`).
5. `internal/sshd/sshd.go:370`: before the host has attached, `Encrypted` is false
   (`docs/architecture.md:310`).
6. `tunnel.go:128`: the deferred `Delete` runs after the registry lets the next host
   in (`tunnel.go:125`).

At the ends of forwards:

7. `forward_guest.go:274`: `Close` waits for forwards whose answer nobody will read any more
   (`forward_guest.go:111`); the guest's process does not exit.
8. `docs/architecture.md:453` and `forward.go:29` say that nobody reaches the limit of the
   relay's queue. It counts frames and the window counts bytes, so writes of a few bytes each
   overrun it while a guest is slow, and the stream is reset (`QueueIsABackstop`).
9. `docs/protocol.md:72` and `:347` say that there is no flow control; there is.
10. `forward_host.go:217`: a CLOSE for a channel that is still being dialled finds nothing to
    close; the socket is opened afterwards and stays until its target closes it or the share
    ends (`late` in `EndReachesBoth`, `missed` in `EndedIsToldToHost`; `ToldIsDropped`).
11. `forward_host.go:186`: the loop that serves the terminal and every forward writes to a
    target and waits for it. `docs/protocol.md:343` says a person's terminal never blocks on
    someone else's connection; the guests' typing does.

Items 6 and 7 have a run that finds them. The others are stated as definitions the code
does not keep: `HostCloseReachesGuest`, `DepartedGuestHoldsNothing`,
`FinalCloseReachesGuest`, `ToldBeforeCancelled`, `AckMeansAttached`, `CiphertextIsNotShown`,
`SshNeverSeesEncrypted`, `QueueIsABackstop`, `ToldIsDropped`.

In the browser:

12. `tunnel.ts:182`: a session that ended normally is shown as a lost connection when the
   relay's close event comes while the CLOSE is still behind a frame being decrypted
   (`tunnel.ts:51`; `GracefulEndIsShown` states it).
13. `locator.ts:34`: a link cut inside an escape leaves a blank page, because
   `decodeURIComponent` throws and nobody catches it; the view `"blank"` of `BrowserPage`.
   `sessionURL` writes the token as it was typed (`locator.ts:98`), so the form takes the ticket
   `s.100%` and leads to such a page, and a token with an escape in it arrives as another one
   (`TicketArrivesAsTyped`). The relay's own tokens are base32 (`id.go:43`).
14. `main.ts:252`: after a reconnect, late events of the tunnel that was replaced still reach
   the page. `StatusIsTrue` holds only for a user who waits (`hurried`); `main.ts:125`
   likewise shares one text decoder between tunnels.
15. `tunnel.ts:221`: a guest with a key that arrives before its host is acknowledged with
    the flag unset, and told that the session is not encrypted.
16. `tunnel.ts:157`: frames behind one that failed to decrypt are still drawn, on a page
    that shows the failure.
17. `protocol.ts:4` calls itself an exact mirror of the Go package, which has WINDOW; a
    WINDOW frame ends the page's tunnel. `protocol.ts:161` accepts the names
    every JavaScript object inherits (`Inherited`); `encodeData` does not split a paste that
    exceeds the Go side's `MaxPayloadLen` once it is sealed: Go refuses it whole and the
    connection ends, which `ReadAsWritten` allows for; a page draws DATA of any channel.
18. `main.ts:136` says the second pass lands on the largest font that fits: it may be one
    size off either way, and one too large clips a row. `FontNearlyBest` states what holds of
    terminals with 22 (`MAX_FONT`) rows and columns or more. With fewer rows the font may stay
    smaller still: 18 rows in 419 pixels remain at size 17 once they are there, and 19 fits; 21
    rows in 505 pixels go from 22 to 18 and stay, and 20 fits.
19. `crypto.ts:202` wants tickets read aloud or typed. Base32 has no check digit: a digit taken
    for another, or `v` for `k`, gives a key of the right size, and the page joins with it; it
    can then read and write nothing (second case of `KeyIsTheHosts`).

Seen while modelling, without a run of their own: `Bridge.Close` sends its reason to
nobody (`server.go:285` says peers are told first); the PONG of `bridge.go:435` has no deadline,
where every other write to a guest has one, so a guest that sends PINGs and stops reading
outlives its session; an SSH guest's write checks its context only on entry
(`sshd/stream.go:53`); the TTL also ends records whose host
is connected (`README.md:275` speaks of unclaimed sessions); output that arrives while a
guest joins may be shown twice (`NoGap` allows exactly that one frame).

## 7. Plan

In order of weight:

1. `HostShare`: the pumps of `share.go` and the final CLOSE, over the sender `ForwardEnds` has.
2. `RateLimiter` against a reference definition, `Access` (the matrix of
   `Authenticate`), the host key's creation with a crash in it.
