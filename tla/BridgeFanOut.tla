---------------------------- MODULE BridgeFanOut ----------------------------
(***************************************************************************)
(* The shared terminal of one session: internal/session/bridge.go and       *)
(* ring.go.  One host's output goes to every attached guest through a queue *)
(* per guest; a guest that joins late is replayed recent output; a guest    *)
(* that falls behind is dropped; the end of the session is announced and    *)
(* flushed.                                                                 *)
(*                                                                         *)
(* Goroutines: the host's reader (serveHost); per guest ServeGuest itself,  *)
(* its writer, its reader and its watchdog; and whoever calls Bridge.Close. *)
(* A step is one critical section of the bridge's mutex, one channel        *)
(* operation, or one end of a transport write.  Frames on a channel other   *)
(* than the terminal's are module RelayForwards.                            *)
(***************************************************************************)
EXTENDS Integers, Sequences, FiniteSets

CONSTANTS
  Guests,      \* guest connections
  Viewers,     \* those whose access cannot write
  SshGuests,   \* those that came over SSH; the others use a WebSocket
  QueueDepth,  \* guestQueueDepth: frames one guest may have waiting
  RingBytes,   \* scrollbackBytes
  Lengths,     \* payload lengths
  Windows,     \* terminal sizes the host announces
  MaxFrames,   \* bound: DATA and RESIZE frames the host sends
  MaxTyped,    \* bound: frames one guest types
  Faults       \* bound: the failures explored, a subset of AllFaults

AllFaults == {"host lost", "close all", "guest lost", "guest closes", "send fails"}

NoSize == 0    \* cols = rows = 0: the host has not said

ASSUME BridgeAssumption ==
  /\ Viewers \subseteq Guests
  /\ SshGuests \subseteq Guests
  /\ QueueDepth \in Nat \ {0}
  /\ RingBytes \in Nat \ {0}
  /\ MaxFrames \in Nat
  /\ MaxTyped \in Nat
  /\ Lengths \subseteq Nat
  /\ Windows \subseteq Nat \ {NoSize}
  /\ Faults \subseteq AllFaults

VARIABLES
  host,      \* Bridge.host is set
  closed,    \* Bridge.closed
  size,      \* Bridge.cols, Bridge.rows
  scroll,    \* Bridge.scroll: the data frames kept for replay
  guests,    \* Bridge.guests
  toStop,    \* guests Close removed and has yet to stop
  hostPc,    \* where serveHost is
  casting,   \* the frame serveHost is about to broadcast
  slow,      \* guests broadcast removed and has yet to kill
  frames,    \* DATA and RESIZE frames received from the host
  sent,      \* DATA frames among them
  main,      \* where a guest's ServeGuest is
  backlog,   \* frames ServeGuest has yet to replay
  queue,     \* guestConn.out
  stopped,   \* guestConn.closed is closed
  killed,    \* guestConn.dead is closed
  cancelled, \* ServeGuest's context is cancelled
  lost,      \* the guest's transport is closed
  writer,    \* where the guest's writer is
  held,      \* the frame the writer is sending, <<>> or <<frame>>
  reader,    \* where the guest's reader is
  typed,     \* frames the guest typed
  seen,      \* frames written to the guest's transport
  owed,      \* the final CLOSE was queued for the guest
  length,    \* the n-th data frame's payload length, chosen once and for all
  relay      \* how far the relay's shutdown has come

hostVars  == <<hostPc, casting, slow, frames, sent>>
connVars  == <<stopped, killed, cancelled, lost>>
pumpVars  == <<writer, held, reader, typed>>
vars == <<host, closed, size, scroll, guests, toStop, hostPc, casting, slow,
          frames, sent, main, backlog, queue, stopped, killed, cancelled, lost,
          writer, held, reader, typed, seen, owed, length, relay>>

Data(n)   == [t |-> "data", n |-> n]
Resize(w) == [t |-> "resize", n |-> w]
Close     == [t |-> "close", n |-> 0]
Frame == {Data(n) : n \in 1..MaxFrames} \cup {Resize(w) : w \in Windows} \cup {Close}

Init ==
  /\ host = FALSE /\ closed = FALSE /\ size = NoSize
  /\ scroll = <<>> /\ guests = {} /\ toStop = {}
  /\ hostPc = "away" /\ casting = Close /\ slow = {} /\ frames = 0 /\ sent = 0
  /\ main = [g \in Guests |-> "away"]
  /\ backlog = [g \in Guests |-> <<>>]
  /\ queue = [g \in Guests |-> <<>>]
  /\ stopped = [g \in Guests |-> FALSE]
  /\ killed = [g \in Guests |-> FALSE]
  /\ cancelled = [g \in Guests |-> FALSE]
  /\ lost = [g \in Guests |-> FALSE]
  /\ writer = [g \in Guests |-> "off"]
  /\ held = [g \in Guests |-> <<>>]
  /\ reader = [g \in Guests |-> "off"]
  /\ typed = [g \in Guests |-> 0]
  /\ seen = [g \in Guests |-> <<>>]
  /\ owed = [g \in Guests |-> FALSE]
  /\ length \in [1..MaxFrames -> Lengths]
  /\ relay = "up"

-----------------------------------------------------------------------------
(* frameRing: whole payloads, the most recent ones that fit. *)

Bytes(s) == LET upTo[i \in 0..Len(s)] == IF i = 0 THEN 0 ELSE upTo[i - 1] + length[s[i]]
            IN  upTo[Len(s)]

From(s, k) == SubSeq(s, k, Len(s))

\* Mutant: the front is dropped one frame too late.
RingAddLate(s, n) ==
  LET all   == Append(s, n)
      fit   == {k \in 1..Len(all) : Bytes(From(all, k)) <= RingBytes}
      start == CHOOSE k \in fit : \A j \in fit : k <= j
  IN  IF length[n] >= RingBytes THEN <<n>>
      ELSE From(all, IF start > 1 THEN start - 1 ELSE start)

\* Mutant: an oversized payload is refused rather than kept whole.
RingAddRefusesBig(s, n) ==
  LET all   == Append(s, n)
      fit   == {k \in 1..Len(all) : Bytes(From(all, k)) <= RingBytes}
      start == CHOOSE k \in fit : \A j \in fit : k <= j
  IN  IF length[n] = 0 \/ length[n] >= RingBytes THEN s ELSE From(all, start)

\* frameRing.Add.  An empty payload is not kept; one as large as the ring
\* replaces everything; otherwise whole payloads leave at the front until the
\* rest fits.
RingAdd(s, n) ==
  LET all   == Append(s, n)
      fit   == {k \in 1..Len(all) : Bytes(From(all, k)) <= RingBytes}
      start == CHOOSE k \in fit : \A j \in fit : k <= j
  IN  CASE length[n] = 0          -> s
        [] length[n] >= RingBytes -> <<n>>
        [] OTHER                  -> From(all, start)

-----------------------------------------------------------------------------
(* The host's reader: serveHost and broadcast. *)

\* A second host finds Bridge.host set, one that comes too late finds the
\* bridge closed; both are refused and change nothing.
HostAttach(w) ==
  /\ hostPc = "away"
  /\ ~closed /\ ~host
  /\ host' = TRUE /\ size' = w /\ hostPc' = "recv"
  /\ UNCHANGED <<closed, scroll, guests, toStop, casting, slow, frames, sent, main,
                 backlog, queue, connVars, pumpVars, seen, owed, length, relay>>

\* Mutant: the frame reaches the ring only with the next one.
HostDataRingLate ==
  /\ hostPc = "recv"
  /\ frames < MaxFrames
  /\ frames' = frames + 1 /\ sent' = sent + 1
  /\ scroll' = IF sent = 0 THEN scroll ELSE RingAdd(scroll, sent)
  /\ casting' = Data(sent + 1) /\ hostPc' = "cast"
  /\ UNCHANGED <<host, closed, size, guests, toStop, slow, main, backlog, queue,
                 connVars, pumpVars, seen, owed, length, relay>>

\* A DATA frame enters the ring in one critical section and is broadcast in
\* the next.
HostData ==
  /\ hostPc = "recv"
  /\ frames < MaxFrames
  /\ frames' = frames + 1 /\ sent' = sent + 1
  /\ scroll' = RingAdd(scroll, sent + 1)
  /\ casting' = Data(sent + 1) /\ hostPc' = "cast"
  /\ UNCHANGED <<host, closed, size, guests, toStop, slow, main, backlog, queue,
                 connVars, pumpVars, seen, owed, length, relay>>

\* Mutant: guests hear of the new size, those who join later do not.
HostResizeForgets(w) ==
  /\ hostPc = "recv"
  /\ frames < MaxFrames
  /\ frames' = frames + 1
  /\ casting' = Resize(w) /\ hostPc' = "cast"
  /\ UNCHANGED <<host, closed, size, scroll, guests, toStop, slow, sent, main,
                 backlog, queue, connVars, pumpVars, seen, owed, length, relay>>

HostResize(w) ==
  /\ hostPc = "recv"
  /\ frames < MaxFrames
  /\ frames' = frames + 1
  /\ size' = w
  /\ casting' = Resize(w) /\ hostPc' = "cast"
  /\ UNCHANGED <<host, closed, scroll, guests, toStop, slow, sent, main, backlog,
                 queue, connVars, pumpVars, seen, owed, length, relay>>

HostClose ==
  /\ hostPc = "recv"
  /\ casting' = Close /\ hostPc' = "cast"
  /\ UNCHANGED <<host, closed, size, scroll, guests, toStop, slow, frames, sent,
                 main, backlog, queue, connVars, pumpVars, seen, owed, length, relay>>

\* Recv fails, of itself or because the relay cancelled the base context: serveHost
\* returns and its deferred call closes the bridge.
HostLost ==
  /\ "host lost" \in Faults \/ relay = "down"
  /\ hostPc = "recv"
  /\ hostPc' = "closing"
  /\ UNCHANGED <<host, closed, size, scroll, guests, toStop, casting, slow, frames,
                 sent, main, backlog, queue, connVars, pumpVars, seen, owed, length, relay>>

\* Mutant: room is found for one frame too many.
FullLate(q) == Len(q) > QueueDepth

Full(q) == Len(q) >= QueueDepth

\* Mutant: a guest with a full queue misses the frame and stays.
BroadcastSkips ==
  /\ hostPc = "cast"
  /\ LET full == {g \in guests : Full(queue[g])}
     IN  /\ queue' = [g \in Guests |-> IF g \in guests \ full
                                       THEN Append(queue[g], casting) ELSE queue[g]]
         /\ owed' = [g \in Guests |-> owed[g] \/ (g \in guests \ full /\ casting = Close)]
  /\ hostPc' = IF casting = Close THEN "closing" ELSE "recv"
  /\ UNCHANGED <<host, closed, size, scroll, guests, slow, toStop, casting, frames,
                 sent, main, backlog, connVars, pumpVars, seen, length, relay>>

\* broadcast's critical section: a guest without room leaves Bridge.guests.
Broadcast ==
  /\ hostPc = "cast"
  /\ LET full == {g \in guests : Full(queue[g])}
     IN  /\ queue' = [g \in Guests |-> IF g \in guests \ full
                                       THEN Append(queue[g], casting) ELSE queue[g]]
         /\ guests' = guests \ full
         /\ slow' = full
         /\ owed' = [g \in Guests |-> owed[g] \/ (g \in guests \ full /\ casting = Close)]
  /\ hostPc' = "kill"
  /\ UNCHANGED <<host, closed, size, scroll, toStop, casting, frames, sent, main,
                 backlog, connVars, pumpVars, seen, length, relay>>

\* Mutant: a slow guest is only asked to stop.
KillSlowPolitely ==
  /\ hostPc = "kill"
  /\ stopped' = [g \in Guests |-> stopped[g] \/ g \in slow]
  /\ slow' = {}
  /\ hostPc' = IF casting = Close THEN "closing" ELSE "recv"
  /\ UNCHANGED <<host, closed, size, scroll, guests, toStop, casting, frames, sent,
                 main, backlog, queue, killed, cancelled, lost, pumpVars, seen, owed, length,
                 relay>>

KillSlow ==
  /\ hostPc = "kill"
  /\ killed' = [g \in Guests |-> killed[g] \/ g \in slow]
  /\ stopped' = [g \in Guests |-> stopped[g] \/ g \in slow]
  /\ slow' = {}
  /\ hostPc' = IF casting = Close THEN "closing" ELSE "recv"
  /\ UNCHANGED <<host, closed, size, scroll, guests, toStop, casting, frames, sent,
                 main, backlog, queue, cancelled, lost, pumpVars, seen, owed, length, relay>>

-----------------------------------------------------------------------------
(* Bridge.Close: called by serveHost when it returns, and by the relay's      *)
(* shutdown (Bridges.CloseAll) while serveHost is still running.  It queues   *)
(* no CLOSE.                                                                  *)

\* ServeGuest is running.
Served(g) == main[g] \in {"replay", "serving"}

\* The relay's shutdown has cancelled the context the guest's was derived from.
ShutDown(g) == IF g \in SshGuests THEN relay # "up" ELSE relay = "down"

CloseUnderLock ==
  IF closed
  THEN UNCHANGED <<closed, host, guests, toStop>>
  ELSE closed' = TRUE /\ host' = FALSE /\ toStop' = guests /\ guests' = {}

HostReturns ==
  /\ hostPc = "closing"
  /\ hostPc' = "done"
  /\ CloseUnderLock
  /\ UNCHANGED <<size, scroll, casting, slow, frames, sent, main, backlog, queue,
                 connVars, pumpVars, seen, owed, length, relay>>

\* The shutdown of the relay.  Run's context ends first, and with it those of the SSH
\* guests.
ShutdownBegins ==
  /\ "close all" \in Faults
  /\ relay = "up"
  /\ relay' = "stopping"
  /\ cancelled' = [g \in Guests |-> cancelled[g] \/ (g \in SshGuests /\ Served(g))]
  /\ UNCHANGED <<host, closed, size, scroll, guests, toStop, hostVars, main, backlog, queue,
                 stopped, killed, lost, pumpVars, seen, owed, length>>

\* CloseAll finds the bridge closed, or closes it and stops its guests; a bridge opened
\* after CloseAll took its copy is passed over.
CloseAll ==
  /\ relay = "stopping"
  /\ \/ CloseUnderLock /\ relay' = IF closed THEN "closed" ELSE "closing"
     \/ hostPc = "away" /\ relay' = "closed" /\ UNCHANGED <<closed, host, guests, toStop>>
  /\ UNCHANGED <<size, scroll, hostVars, main, backlog, queue, connVars, pumpVars,
                 seen, owed, length>>

\* Once CloseAll has returned teardown cancels the base context, which every WebSocket
\* guest's context derives from.
BaseCancel ==
  /\ relay = "closed" \/ (relay = "closing" /\ toStop = {})
  /\ relay' = "down"
  /\ cancelled' = [g \in Guests |-> cancelled[g] \/ (g \notin SshGuests /\ Served(g))]
  /\ UNCHANGED <<host, closed, size, scroll, guests, toStop, hostVars, main, backlog, queue,
                 stopped, killed, lost, pumpVars, seen, owed, length>>

StopGuest(g) ==
  /\ g \in toStop
  /\ toStop' = toStop \ {g}
  /\ stopped' = [stopped EXCEPT ![g] = TRUE]
  /\ UNCHANGED <<host, closed, size, scroll, guests, hostVars, main, backlog, queue,
                 killed, cancelled, lost, pumpVars, seen, owed, length, relay>>

-----------------------------------------------------------------------------
(* ServeGuest. *)

Replay(s) == [i \in DOMAIN s |-> Data(s[i])]

\* Registering, and the snapshot of the size and the backlog, are one critical
\* section.
GuestAttach(g) ==
  /\ main[g] = "away"
  /\ ~closed /\ host
  /\ guests' = guests \cup {g}
  /\ backlog' = [backlog EXCEPT ![g] =
       (IF size = NoSize THEN <<>> ELSE <<Resize(size)>>) \o Replay(scroll)]
  /\ main' = [main EXCEPT ![g] = "replay"]
  /\ cancelled' = [cancelled EXCEPT ![g] = ShutDown(g)]
  /\ UNCHANGED <<host, closed, size, scroll, toStop, hostVars, queue, stopped, killed, lost,
                 pumpVars, seen, owed, length, relay>>

Broken(g) == lost[g] \/ cancelled[g]

\* A write fails once the transport is closed or the context cancelled.  It may
\* fail by itself (its deadline, the network); the connection is lost then.
SendFails(g) ==
  /\ Broken(g) \/ "send fails" \in Faults
  /\ lost' = [lost EXCEPT ![g] = @ \/ ~Broken(g)]

ReplaySent(g) ==
  /\ main[g] = "replay"
  /\ backlog[g] # <<>>
  /\ ~lost[g]
  /\ seen' = [seen EXCEPT ![g] = Append(@, Head(backlog[g]))]
  /\ backlog' = [backlog EXCEPT ![g] = Tail(@)]
  /\ UNCHANGED <<host, closed, size, scroll, guests, toStop, hostVars, main, queue,
                 connVars, pumpVars, owed, length, relay>>

\* ServeGuest returns; its deferred cancel comes before the deferred cleanup.
Return(g) ==
  /\ main' = [main EXCEPT ![g] = "leaving"]
  /\ cancelled' = [cancelled EXCEPT ![g] = TRUE]

ReplayFails(g) ==
  /\ main[g] = "replay"
  /\ backlog[g] # <<>>
  /\ SendFails(g)
  /\ Return(g)
  /\ UNCHANGED <<host, closed, size, scroll, guests, toStop, hostVars, backlog, queue,
                 stopped, killed, pumpVars, seen, owed, length, relay>>

StartPumps(g) ==
  /\ main[g] = "replay"
  /\ backlog[g] = <<>>
  /\ main' = [main EXCEPT ![g] = "serving"]
  /\ writer' = [writer EXCEPT ![g] = "run"]
  /\ reader' = [reader EXCEPT ![g] = "recv"]
  /\ UNCHANGED <<host, closed, size, scroll, guests, toStop, hostVars, backlog, queue,
                 connVars, held, typed, seen, owed, length, relay>>

ReaderOver(g) == reader[g] \in {"done", "left"}

\* The select at the end of ServeGuest: a pump ended, or the context did.
GuestReturns(g) ==
  /\ main[g] = "serving"
  /\ ReaderOver(g) \/ writer[g] = "done" \/ cancelled[g]
  /\ Return(g)
  /\ UNCHANGED <<host, closed, size, scroll, guests, toStop, hostVars, backlog, queue,
                 stopped, killed, lost, pumpVars, seen, owed, length, relay>>

GuestCleanup(g) ==
  /\ main[g] = "leaving"
  /\ main' = [main EXCEPT ![g] = "gone"]
  /\ guests' = guests \ {g}
  /\ stopped' = [stopped EXCEPT ![g] = TRUE]
  /\ UNCHANGED <<host, closed, size, scroll, toStop, hostVars, backlog, queue, killed,
                 cancelled, lost, pumpVars, seen, owed, length, relay>>

Watchdog(g) ==
  /\ killed[g] /\ Served(g)
  /\ ~cancelled[g]
  /\ lost' = [lost EXCEPT ![g] = TRUE]
  /\ cancelled' = [cancelled EXCEPT ![g] = TRUE]
  /\ UNCHANGED <<host, closed, size, scroll, guests, toStop, hostVars, main, backlog,
                 queue, stopped, killed, pumpVars, seen, owed, length, relay>>

\* The guest's connection ends from its side.
GuestLost(g) ==
  /\ "guest lost" \in Faults
  /\ Served(g)
  /\ ~lost[g]
  /\ lost' = [lost EXCEPT ![g] = TRUE]
  /\ UNCHANGED <<host, closed, size, scroll, guests, toStop, hostVars, main, backlog,
                 queue, stopped, killed, cancelled, pumpVars, seen, owed, length, relay>>

-----------------------------------------------------------------------------
(* The guest's writer and flush.  Its select is free to pick any case that is *)
(* ready.                                                                     *)

Take(g, pc) ==
  /\ queue[g] # <<>>
  /\ queue' = [queue EXCEPT ![g] = Tail(@)]
  /\ held' = [held EXCEPT ![g] = <<Head(queue[g])>>]
  /\ writer' = [writer EXCEPT ![g] = pc]

WriterTakes(g) ==
  /\ \/ writer[g] = "run"   /\ Take(g, "send")
     \/ writer[g] = "flush" /\ Take(g, "flushSend")
  /\ UNCHANGED <<host, closed, size, scroll, guests, toStop, hostVars, main, backlog,
                 connVars, reader, typed, seen, owed, length, relay>>

\* The SSH stream closes itself behind a CLOSE.
WriterSent(g) ==
  /\ writer[g] \in {"send", "flushSend"}
  /\ ~lost[g]
  /\ lost' = [lost EXCEPT ![g] = g \in SshGuests /\ held[g] = <<Close>>]
  /\ seen' = [seen EXCEPT ![g] = @ \o held[g]]
  /\ held' = [held EXCEPT ![g] = <<>>]
  /\ writer' = [writer EXCEPT ![g] = IF @ = "send" THEN "run" ELSE "flush"]
  /\ UNCHANGED <<host, closed, size, scroll, guests, toStop, hostVars, main, backlog,
                 queue, stopped, killed, cancelled, reader, typed, owed, length, relay>>

\* A failed write ends the writer; a failed flush ends it too.
WriterSendFails(g) ==
  /\ writer[g] \in {"send", "flushSend"}
  /\ SendFails(g)
  /\ writer' = [writer EXCEPT ![g] = "done"]
  /\ UNCHANGED <<host, closed, size, scroll, guests, toStop, hostVars, main, backlog,
                 queue, stopped, killed, cancelled, held, reader, typed, seen, owed, length, relay>>

\* Mutant: the writer ends at once.
WriterStopsDead(g) ==
  /\ writer[g] = "run"
  /\ stopped[g]
  /\ writer' = [writer EXCEPT ![g] = "done"]
  /\ UNCHANGED <<host, closed, size, scroll, guests, toStop, hostVars, main, backlog,
                 queue, connVars, held, reader, typed, seen, owed, length, relay>>

WriterStops(g) ==
  /\ writer[g] = "run"
  /\ stopped[g]
  /\ writer' = [writer EXCEPT ![g] = "flush"]
  /\ UNCHANGED <<host, closed, size, scroll, guests, toStop, hostVars, main, backlog,
                 queue, connVars, held, reader, typed, seen, owed, length, relay>>

WriterEnds(g) ==
  /\ \/ writer[g] = "run" /\ cancelled[g]
     \/ writer[g] = "flush" /\ queue[g] = <<>>
  /\ writer' = [writer EXCEPT ![g] = "done"]
  /\ UNCHANGED <<host, closed, size, scroll, guests, toStop, hostVars, main, backlog,
                 queue, connVars, held, reader, typed, seen, owed, length, relay>>

-----------------------------------------------------------------------------
(* The guest's reader, fromGuest and toHost.  A viewer's DATA and a RESIZE    *)
(* change nothing here.                                                       *)

\* A guest types: toHost looks the host up, and fails without one.
ReaderTypes(g) ==
  /\ reader[g] = "recv"
  /\ g \notin Viewers
  /\ typed[g] < MaxTyped
  /\ typed' = [typed EXCEPT ![g] = @ + 1]
  /\ reader' = [reader EXCEPT ![g] = IF host THEN "send" ELSE "done"]
  /\ UNCHANGED <<host, closed, size, scroll, guests, toStop, hostVars, main, backlog,
                 queue, connVars, writer, held, seen, owed, length, relay>>

\* host.Send outside the lock: the host looked up may be gone by now.
ReaderSent(g) ==
  /\ reader[g] = "send"
  /\ reader' = [reader EXCEPT ![g] = "recv"]
  /\ UNCHANGED <<host, closed, size, scroll, guests, toStop, hostVars, main, backlog,
                 queue, connVars, writer, held, typed, seen, owed, length, relay>>

ReaderSendFails(g) ==
  /\ reader[g] = "send"
  /\ ~host \/ hostPc \in {"closing", "done"} \/ cancelled[g]
  /\ reader' = [reader EXCEPT ![g] = "done"]
  /\ UNCHANGED <<host, closed, size, scroll, guests, toStop, hostVars, main, backlog,
                 queue, connVars, writer, held, typed, seen, owed, length, relay>>

\* A WebSocket guest's PING is answered by the reader itself: a write without a
\* deadline, during which the writer's writes wait for the transport's mutex.
ReaderPings(g) ==
  /\ reader[g] = "recv"
  /\ g \notin SshGuests
  /\ ~Broken(g)
  /\ reader' = [reader EXCEPT ![g] = "pong"]
  /\ UNCHANGED <<host, closed, size, scroll, guests, toStop, hostVars, main, backlog,
                 queue, connVars, writer, held, typed, seen, owed, length, relay>>

PongSent(g) ==
  /\ reader[g] = "pong"
  /\ ~lost[g]
  /\ reader' = [reader EXCEPT ![g] = "recv"]
  /\ UNCHANGED <<host, closed, size, scroll, guests, toStop, hostVars, main, backlog,
                 queue, connVars, writer, held, typed, seen, owed, length, relay>>

PongFails(g) ==
  /\ reader[g] = "pong"
  /\ SendFails(g)
  /\ reader' = [reader EXCEPT ![g] = "done"]
  /\ UNCHANGED <<host, closed, size, scroll, guests, toStop, hostVars, main, backlog,
                 queue, stopped, killed, cancelled, writer, held, typed, seen, owed, length, relay>>

\* The guest sends CLOSE.
ReaderCloses(g) ==
  /\ "guest closes" \in Faults
  /\ reader[g] = "recv"
  /\ ~Broken(g)
  /\ reader' = [reader EXCEPT ![g] = "left"]
  /\ UNCHANGED <<host, closed, size, scroll, guests, toStop, hostVars, main, backlog,
                 queue, connVars, writer, held, typed, seen, owed, length, relay>>

\* Recv fails.
ReaderEnds(g) ==
  /\ reader[g] = "recv"
  /\ Broken(g)
  /\ reader' = [reader EXCEPT ![g] = "done"]
  /\ UNCHANGED <<host, closed, size, scroll, guests, toStop, hostVars, main, backlog,
                 queue, connVars, writer, held, typed, seen, owed, length, relay>>

-----------------------------------------------------------------------------
\* What a guest's goroutines do without the guest's transport making progress.
GuestStep(g) ==
  \/ StartPumps(g) \/ GuestReturns(g) \/ GuestCleanup(g) \/ Watchdog(g)
  \/ WriterTakes(g) \/ WriterStops(g) \/ WriterEnds(g)
  \/ ReaderSendFails(g) \/ ReaderEnds(g)

\* A write the transport refuses because it was closed or cancelled.
WriteRefused(g) == Broken(g) /\ (ReplayFails(g) \/ WriterSendFails(g) \/ PongFails(g))

\* A write the transport completes or gives up on.
WriteEnds(g) == ReplaySent(g) \/ ReplayFails(g) \/ WriterSent(g) \/ WriterSendFails(g)
PongEnds(g)  == PongSent(g) \/ PongFails(g)

HostStep == Broadcast \/ KillSlow \/ HostReturns

Next ==
  \/ \E w \in Windows \cup {NoSize} : HostAttach(w)
  \/ HostData \/ HostClose \/ HostLost \/ HostStep
  \/ ShutdownBegins \/ CloseAll \/ BaseCancel
  \/ \E w \in Windows : HostResize(w)
  \/ \E g \in Guests :
       \/ GuestAttach(g) \/ GuestStep(g) \/ WriteEnds(g) \/ PongEnds(g) \/ StopGuest(g)
       \/ GuestLost(g) \/ ReaderTypes(g) \/ ReaderSent(g) \/ ReaderPings(g) \/ ReaderCloses(g)

Spec == Init /\ [][Next]_vars

\* The scheduler runs every runnable goroutine.  Nothing is assumed of the guests'
\* networks: a write to one that stopped reading may never end by itself.  A WebSocket
\* refuses a write once it is closed or the context cancelled, and its Close returns
\* within its grace; an SSH channel looks at the context only on entry and may block in
\* Write or Close for good, so nothing is assumed of those.
Scheduling ==
  /\ WF_vars(HostStep)
  /\ \A g \in Guests : /\ WF_vars(WriterTakes(g) \/ WriterStops(g) \/ WriterEnds(g))
                       /\ WF_vars(StartPumps(g) \/ GuestReturns(g) \/ GuestCleanup(g))
                       /\ WF_vars(StopGuest(g))
  /\ \A g \in Guests \ SshGuests : /\ WF_vars(ReaderSendFails(g) \/ ReaderEnds(g))
                                   /\ WF_vars(Watchdog(g))
                                   /\ WF_vars(WriteRefused(g))
FairSpec == Spec /\ Scheduling

\* Every write of ServeGuest and the writer to a WebSocket ends within guestSendTimeout,
\* with success or not, unless a PONG holds the transport's mutex for good; a mutex goes
\* to the one that waited longest.
WritesEnd == \A g \in Guests \ SshGuests : SF_vars(WriteEnds(g) /\ reader[g] # "pong")

\* Every PONG to the guest ends: the code sets no deadline for it.
PongsEnd(g) == []<>(reader[g] # "pong")

-----------------------------------------------------------------------------
(* Properties. *)

TypeOK ==
  /\ host \in BOOLEAN /\ closed \in BOOLEAN
  /\ size \in Windows \cup {NoSize}
  /\ scroll \in Seq(1..MaxFrames)
  /\ guests \subseteq Guests /\ toStop \subseteq Guests /\ slow \subseteq Guests
  /\ hostPc \in {"away", "recv", "cast", "kill", "closing", "done"}
  /\ casting \in Frame
  /\ frames \in 0..MaxFrames /\ sent \in 0..frames
  /\ main \in [Guests -> {"away", "replay", "serving", "leaving", "gone"}]
  /\ backlog \in [Guests -> Seq(Frame)]
  /\ queue \in [Guests -> Seq(Frame)]
  /\ \A g \in Guests : Len(queue[g]) <= QueueDepth
  /\ stopped \in [Guests -> BOOLEAN]
  /\ killed \in [Guests -> BOOLEAN]
  /\ cancelled \in [Guests -> BOOLEAN]
  /\ lost \in [Guests -> BOOLEAN]
  /\ writer \in [Guests -> {"off", "run", "send", "flush", "flushSend", "done"}]
  /\ held \in [Guests -> Seq(Frame)]
  /\ reader \in [Guests -> {"off", "recv", "send", "pong", "left", "done"}]
  /\ typed \in [Guests -> 0..MaxTyped]
  /\ seen \in [Guests -> Seq(Frame)]
  /\ owed \in [Guests -> BOOLEAN]
  /\ length \in [1..MaxFrames -> Lengths]
  /\ relay \in {"up", "stopping", "closing", "closed", "down"}

\* The output before frame n, and the output after frame m and before frame n.
Output(n) == {k \in 1..(n - 1) : length[k] > 0}
Between(m, n) == {k \in Output(n) : k > m}

\* The ring ends with the latest output and misses none since its oldest frame.
RingEndsLatest ==
  /\ \A i \in DOMAIN scroll : scroll[i] \in Output(sent + 1)
  /\ \A i, j \in DOMAIN scroll : i < j => scroll[i] < scroll[j]
  /\ \A i \in DOMAIN scroll : \A k \in Between(scroll[i], sent + 1) :
        \E l \in DOMAIN scroll : scroll[l] = k
  /\ scroll = <<>> => Output(sent + 1) = {}

\* These payloads fit, and the output before them would not fit with them.
Snug(s) ==
  /\ Bytes(s) <= RingBytes \/ Len(s) = 1
  /\ s # <<>> => \A k \in Output(s[1]) :
                   Between(k, s[1]) = {} => length[k] + Bytes(s) > RingBytes

\* The replay buffer is the most recent output: the longest run of the last
\* payloads that fits, or the last one alone when it does not fit at all.  No
\* payload is cut (ring.go, "half of a sealed frame is not a frame").
RingIsRecent == RingEndsLatest /\ Snug(scroll)

\* Everything a guest was shown or is going to be, in order.
Coming(g) == seen[g] \o held[g] \o backlog[g] \o queue[g]

\* A frame that puts something on the screen, and where those are in a sequence.
Shows(f) == f.t = "data" /\ length[f.n] > 0
Showing(s) == {i \in DOMAIN s : Shows(s[i])}

\* The places at which a frame comes that came before.
Again(s) == {i \in Showing(s) : \E j \in Showing(s) : j < i /\ s[j] = s[i]}

\* The output being broadcast.
Due == IF hostPc = "cast" /\ casting.t = "data" THEN {sent} ELSE {}

\* A guest sees the host's output without a gap, whenever it joined: what it was
\* shown and what waits for it is one run of consecutive frames up to the one
\* being broadcast.  The ring and the broadcast are separate critical sections,
\* so a guest that joins between them gets that one frame twice, never more.
NoGap ==
  \A g \in Guests :
    LET s == Coming(g)
    IN  /\ \A i, j \in Showing(s) : i < j => s[i].n <= s[j].n
        /\ \A i, j \in Showing(s) : \A k \in Between(s[i].n, s[j].n) :
              \E l \in Showing(s) : s[l].n = k
        /\ \A i, j \in Again(s) : i = j
        /\ g \in guests => \A k \in Output(sent + 1) \ Due : \E i \in Showing(s) : s[i].n >= k

\* Every attached guest knows the host's current window size, or is about to be
\* told, whether it attached before the size changed or after.
SizeAgrees ==
  \A g \in guests :
    LET s     == Coming(g)
        known == {i \in DOMAIN s : s[i].t = "resize"}
    IN  \/ hostPc = "cast" /\ casting.t = "resize"
        \/ known = {} /\ size = NoSize
        \/ \E i \in known : s[i].n = size /\ \A j \in known : j <= i

Ended(g) == /\ main[g] = "gone"
            /\ writer[g] \in {"off", "done"}
            /\ reader[g] = "off" \/ ReaderOver(g)

\* Ending the session overlooks nobody: a guest still being served is either
\* registered, and then the session is not over, or on its way out.  And one that stays
\* connected and does not type in the last moment sees the final CLOSE, as the last
\* thing, even though the writer learns of the end and of the frames still waiting at
\* the same time ("flush what is already queued").  It may miss it when the relay shuts
\* down meanwhile, which cancels the context of its writes.
EndReachesEveryone ==
  /\ closed => guests = {} /\ ~host
  /\ \A g \in Guests :
       /\ main[g] \in {"replay", "serving"} =>
            g \in guests \/ g \in toStop \/ g \in slow \/ stopped[g]
       /\ /\ owed[g] /\ main[g] = "gone" /\ typed[g] = 0 /\ ~ShutDown(g)
          /\ ~killed[g] /\ ~lost[g] /\ reader[g] # "left"
          => seen[g] # <<>> /\ seen[g][Len(seen[g])] = Close

\* No WebSocket guest's goroutines leak.  One that fell behind is let go although its
\* transport accepts nothing and no write to it ever ends by itself; once the session is
\* closed every guest is, given that writes end, the PONGs too, which have no deadline.
GuestsAreReleased ==
  \A g \in Guests \ SshGuests :
    /\ (Served(g) /\ g \notin guests /\ ~closed) ~> Ended(g)
    /\ WritesEnd /\ PongsEnd(g) => ((closed /\ main[g] # "away") ~> Ended(g))

-----------------------------------------------------------------------------
(* The shared terminal this implements. *)

\* The n-th data frame is the Rank(n)-th that shows something.
Rank(n) == Cardinality({k \in 1..n : length[k] > 0})

HostSpeaks == ~ (\/ hostPc \in {"closing", "done"}
                 \/ hostPc \in {"cast", "kill"} /\ casting = Close)

Shown(g) ==
  LET s     == seen[g]
      first == CHOOSE i \in Showing(s) : \A j \in Showing(s) : i <= j
      final == CHOOSE i \in Showing(s) : \A j \in Showing(s) : i >= j
  IN  IF Showing(s) = {} THEN [from |-> 0, to |-> 0]
      ELSE [from |-> Rank(s[first].n), to |-> Rank(s[final].n)]

Terminal == INSTANCE SharedTerminal WITH
  said <- Rank(sent),
  open <- HostSpeaks,
  view <- [g \in Guests |-> Shown(g)],
  told <- [g \in Guests |-> \E i \in DOMAIN seen[g] : seen[g][i] = Close]

\* The fan-out implements the shared terminal.
ImplementsTerminal == Terminal!Spec

-----------------------------------------------------------------------------
(* What a comment says and the code does not do. *)

\* "A graceful stop lets the writer flush what is already queued, which is how
\* the final CLOSE frame reaches a guest when the host exits": a guest whose
\* connection was not lost and that was not dropped sees the CLOSE queued for it.
FinalCloseReachesGuest ==
  \A g \in Guests :
     owed[g] /\ Ended(g) /\ ~killed[g] /\ ~lost[g] /\ reader[g] # "left"
     => \E i \in DOMAIN seen[g] : seen[g][i] = Close

\* server.go, teardown: "tell peers first, then cancel the context their goroutines are
\* parked on": cancelling cuts no guest off that is still being told of the end.  CloseAll
\* does not wait for the writers to flush, and queues no CLOSE of its own.
ToldBeforeCancelled ==
  \A g \in Guests \ SshGuests :
     /\ relay = "down" /\ owed[g] /\ Ended(g) /\ typed[g] = 0
     /\ ~killed[g] /\ ~lost[g] /\ reader[g] # "left"
     => \E i \in DOMAIN seen[g] : seen[g][i] = Close

-----------------------------------------------------------------------------
(* The inductive invariant behind EndReachesEveryone. *)

\* What the argument needs of the domains; what is replayed plays no part in it.
Domains ==
  /\ guests \subseteq Guests /\ toStop \subseteq Guests /\ slow \subseteq Guests
  /\ frames \in 0..MaxFrames /\ sent \in 0..frames /\ casting \in Frame
  /\ main \in [Guests -> {"away", "replay", "serving", "leaving", "gone"}]
  /\ stopped \in [Guests -> BOOLEAN] /\ cancelled \in [Guests -> BOOLEAN]
  /\ lost \in [Guests -> BOOLEAN] /\ owed \in [Guests -> BOOLEAN]
  /\ writer \in [Guests -> {"off", "run", "send", "flush", "flushSend", "done"}]
  /\ reader \in [Guests -> {"off", "recv", "send", "pong", "left", "done"}]
  /\ typed \in [Guests -> Nat]
  /\ relay \in {"up", "stopping", "closing", "closed", "down"}
  /\ queue \in [Guests -> Seq(Frame)]
  /\ held \in [Guests -> {<<>>} \cup {<<f>> : f \in Frame}]

IsSeq(s) == s \in Seq({s[i] : i \in DOMAIN s})

Written == DOMAIN seen = Guests /\ \A g \in Guests : IsSeq(seen[g])

\* Close and broadcast collect guests into sets that were empty, so they forget nobody.
Collected ==
  /\ closed => guests = {} /\ ~host
  /\ ~closed => toStop = {}
  /\ hostPc # "kill" => slow = {}

\* A guest leaves the registry once, and whoever took it off is about to stop it.
Leaves(g) ==
  /\ g \in guests => main[g] \in {"replay", "serving", "leaving"}
  /\ g \in toStop \cup slow \/ stopped[g] => main[g] # "away" /\ g \notin guests
  /\ main[g] \in {"replay", "serving"} => g \in guests \cup toStop \cup slow \/ stopped[g]

Pumping(g) ==
  /\ main[g] \in {"away", "replay"} => writer[g] = "off" /\ reader[g] = "off"
  /\ writer[g] \in {"off", "run", "flush"} => held[g] = <<>>
  /\ writer[g] \in {"flush", "flushSend"} => stopped[g]
  /\ reader[g] = "send" => typed[g] > 0

\* A guest that does not type, does not close and keeps its connection is released only by
\* its writer, unless the relay shuts down, and that ends with nothing left to write.
Undisturbed(g) == typed[g] = 0 /\ ~lost[g] /\ reader[g] # "left" /\ ~ShutDown(g)

ReleasedByWriter(g) ==
  Undisturbed(g) =>
    /\ cancelled[g] => main[g] \in {"leaving", "gone"}
    /\ main[g] \in {"leaving", "gone"} => writer[g] = "done"
    /\ writer[g] = "done" => stopped[g] /\ queue[g] = <<>> /\ held[g] = <<>>
    /\ reader[g] = "done" => cancelled[g]

\* Nothing is broadcast behind the final CLOSE, and it stays the last of what a guest is sent.
CloseIsLast(g) ==
  owed[g] =>
    /\ hostPc \in {"closing", "done"} \/ (hostPc = "kill" /\ casting = Close)
    /\ writer[g] = "off" => queue[g] # <<>>
    /\ IF queue[g] # <<>> THEN queue[g][Len(queue[g])] = Close
       ELSE IF held[g] # <<>> THEN held[g] = <<Close>>
       ELSE seen[g] # <<>> /\ seen[g][Len(seen[g])] = Close

OfGuest(g) == Leaves(g) /\ Pumping(g) /\ ReleasedByWriter(g) /\ CloseIsLast(g)

IInv == Domains /\ Written /\ Collected /\ \A g \in Guests : OfGuest(g)

-----------------------------------------------------------------------------
(* The inductive invariant behind NoGap, SizeAgrees and ImplementsTerminal.   *)

\* What serveHost broadcasts is what it has just noted; nobody is there before it.
Source ==
  /\ hostPc = "cast" /\ casting.t = "data" => casting = Data(sent)
  /\ hostPc = "cast" /\ casting.t = "resize" => casting = Resize(size)
  /\ hostPc = "away" => ~host /\ guests = {} /\ sent = 0

\* Nothing waits for a guest that has not come, and the replay comes before the writer.
Stages(g) ==
  /\ main[g] = "away" => Coming(g) = <<>>
  /\ writer[g] # "off" => backlog[g] = <<>>

\* All output there is, is on its way to the guest or was shown to it.
UpToDate(g, due) == \A k \in Output(sent + 1) \ due : \E i \in Showing(Coming(g)) : Coming(g)[i].n >= k

\* A guest that may yet be sent the frame being broadcast twice was sent no other twice.
OneRun(g) ==
  LET s == Coming(g)
  IN  /\ \A i \in Showing(s) : s[i].n \in 1..sent
      /\ \A i, j \in Showing(s) : i < j => s[i].n <= s[j].n
      /\ \A i, j \in Showing(s) : \A k \in Between(s[i].n, s[j].n) : \E l \in Showing(s) : s[l].n = k
      /\ \A i, j \in Again(s) : i = j
      /\ \A i \in Showing(s) : s[i].n \in Due => Again(s) = {}
      /\ g \in guests => UpToDate(g, Due)

\* The final CLOSE is the last thing on its way, behind all output.
CloseComesLast(g) ==
  \A i \in DOMAIN Coming(g) : Coming(g)[i] = Close =>
     /\ i = Len(Coming(g)) /\ UpToDate(g, {})
     /\ hostPc \in {"closing", "done"} \/ (hostPc = "kill" /\ casting = Close)

VInv == /\ Source /\ RingEndsLatest
        /\ \A g \in Guests : Stages(g) /\ OneRun(g) /\ CloseComesLast(g)

=============================================================================
