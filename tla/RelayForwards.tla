--------------------------- MODULE RelayForwards ---------------------------
(***************************************************************************)
(* Channel routing in the relay: internal/session/forward.go, with the     *)
(* parts of internal/session/bridge.go that drive it (a guest's reader,    *)
(* the host's reader, a guest's teardown).                                 *)
(*                                                                         *)
(* Each guest numbers its own channels; the relay gives every accepted     *)
(* OPEN a channel number of its own toward the host and translates between *)
(* the two.  Four kinds of goroutine meet here:                            *)
(*   - one reader per guest        (ServeGuest's reader, fromGuestChannel) *)
(*   - one teardown per guest      (ServeGuest's deferred cleanup)         *)
(*   - one reader for the host     (serveHost, fromHostChannel)            *)
(*   - one writer per forward      (runForwardWriter, flushForward)        *)
(* A step is one critical section of the bridge's mutex, one channel       *)
(* operation, or one transport write.                                      *)
(***************************************************************************)
EXTENDS Integers, Sequences, FiniteSets

CONSTANTS
  Guests,       \* attached guest connections (guestConn values)
  Viewers,      \* the guests whose access cannot write
  Channels,     \* channel numbers a guest may choose
  MaxChannels,  \* protocol.MaxChannels: forwards one session may hold open
  QueueDepth,   \* forwardQueueDepth: frames one forward may have waiting
  MaxForwards,  \* bound: forwards opened in one behaviour
  MaxData,      \* bound: data frames the host sends on one forward
  MaxWire,      \* bound: frames under way from the host to the relay
  Faults,       \* bound: the failures explored, a subset of AllFaults
  NoGuest,      \* owner of a forward not yet created
  NoChannel     \* channel of a forward not yet created

AllFaults == {"host breaks", "bridge closes", "guest write", "guest leaves"}

ASSUME ForwardsAssumption ==
  /\ Viewers \subseteq Guests
  /\ MaxChannels \in Nat
  /\ QueueDepth \in Nat \ {0}
  /\ MaxForwards \in Nat
  /\ MaxData \in Nat
  /\ MaxWire \in Nat
  /\ Faults \subseteq AllFaults
  /\ NoGuest \notin Guests
  /\ NoChannel \notin Channels

VARIABLES
  host,        \* the host's stream: "up", "broken", or "closed" (Bridge.host = nil)
  forwards,    \* Bridge.forwards: host channel -> forward, 0 if absent
  channels,    \* guestConn.channels: guest -> channel -> host channel, 0 if absent
  nextChan,    \* Bridge.nextChan
  made,        \* number of forward objects created
  fwd,         \* forward -> its fixed fields guest, guestChan, hostChan
  out,         \* forward.out: frames waiting for the guest
  last,        \* forward.last: TRUE while the relay's own CLOSE waits
  stops,       \* how often forward.closed was closed; a second time panics
  writer,      \* where runForwardWriter of the forward is
  reader,      \* where the guest's reader is, and the frame it routes
  conn,        \* a guest's ServeGuest: "attached", "cancelled", "cleaning"
  toTell,      \* forwards the guest's teardown removed and must still report
  hostReader,  \* where the host's reader is, and the frame it routes
  hostEnd,     \* host channel -> forward the host holds a socket for, 0 if none
  dialing,     \* forwards the host is dialling the target of
  missed,      \* forwards whose end the host was told of while it dialled
  hostSent,    \* forward -> data frames the host sent on it
  wire,        \* frames under way from the host to the relay
  delivered,   \* forward -> frames written to its guest
  cause        \* forward -> why it left Bridge.forwards, "none" before

relay     == <<forwards, channels, nextChan, made, fwd>>
queues    == <<out, last, stops, writer>>
sockets   == <<hostEnd, dialing, missed>>
ends      == <<host, sockets, hostSent, wire, delivered>>
vars == <<host, forwards, channels, nextChan, made, fwd, out, last, stops,
          writer, reader, conn, toTell, hostReader, hostEnd, dialing, missed,
          hostSent, wire, delivered, cause>>

Fwd       == 1..MaxForwards
HostChans == 1..MaxForwards
CLOSE     == 0    \* a CLOSE or ERROR frame; data frames are numbered 1, 2, ...
Payload   == 0..MaxData
Frame     == [f : Fwd, n : Payload]
WireFrame == [chan : HostChans, f : Fwd, n : Payload]

FwdRec    == [guest : Guests \cup {NoGuest}, guestChan : Channels \cup {NoChannel},
              hostChan : 0..MaxForwards]
Causes == {"none", "guest", "host", "retired", "write", "left"}

NoFwd  == [guest |-> NoGuest, guestChan |-> NoChannel, hostChan |-> 0]
Idle   == [pc |-> "recv", host |-> 0, f |-> 0, kind |-> "none"]
Ended  == [pc |-> "done", host |-> 0, f |-> 0, kind |-> "none"]
HIdle  == [pc |-> "recv", chan |-> 0, f |-> 0, src |-> 0, n |-> 0]

ReaderRec ==
  {Idle, Ended} \cup
  [pc : {"close", "tell"}, host : HostChans, f : 0..MaxForwards, kind : {"data", "close"}]
    \cup
  [pc : {"close", "tell"}, host : HostChans, f : Fwd, kind : {"open"}]

HostReaderRec ==
  {HIdle} \cup
  [pc : {"queue", "retire", "last", "retireClose", "retireTell", "close"},
   chan : HostChans, f : Fwd, src : Fwd, n : Payload]

-----------------------------------------------------------------------------
Init ==
  /\ host = "up"
  /\ forwards = [h \in HostChans |-> 0]
  /\ channels = [g \in Guests |-> [c \in Channels |-> 0]]
  /\ nextChan = 0
  /\ made = 0
  /\ fwd = [f \in Fwd |-> NoFwd]
  /\ out = [f \in Fwd |-> <<>>]
  /\ last = [f \in Fwd |-> FALSE]
  /\ stops = [f \in Fwd |-> 0]
  /\ writer = [f \in Fwd |-> "none"]
  /\ reader = [g \in Guests |-> Idle]
  /\ conn = [g \in Guests |-> "attached"]
  /\ toTell = [g \in Guests |-> {}]
  /\ hostReader = HIdle
  /\ hostEnd = [h \in HostChans |-> 0] /\ dialing = {} /\ missed = {}
  /\ hostSent = [f \in Fwd |-> 0]
  /\ wire = <<>>
  /\ delivered = [f \in Fwd |-> <<>>]
  /\ cause = [f \in Fwd |-> "none"]

-----------------------------------------------------------------------------
(* The shared helpers of forward.go. *)

Live == {h \in HostChans : forwards[h] # 0}

\* Mutant: the lowest number not in use, so that numbers come back.
LowestFreeChan ==
  IF Live = HostChans THEN nextChan + 1
  ELSE CHOOSE h \in HostChans \ Live : \A k \in HostChans \ Live : h <= k

\* b.nextChan++ : the number the next forward gets toward the host.
NextHostChan == nextChan + 1

\* Mutant: the guest's own entry is forgotten.
CloseForwardKeepsChannel(h, why) ==
  IF forwards[h] = 0
  THEN UNCHANGED <<forwards, channels, stops, cause>>
  ELSE /\ forwards' = [forwards EXCEPT ![h] = 0]
       /\ stops' = [stops EXCEPT ![forwards[h]] = @ + 1]
       /\ cause' = [cause EXCEPT ![forwards[h]] = why]
       /\ UNCHANGED channels

\* Mutant: the forward leaves the maps and its writer is never stopped.
CloseForwardWithoutStop(h, why) ==
  IF forwards[h] = 0
  THEN UNCHANGED <<forwards, channels, stops, cause>>
  ELSE LET f == forwards[h]
       IN  /\ forwards' = [forwards EXCEPT ![h] = 0]
           /\ channels' = [channels EXCEPT ![fwd[f].guest][fwd[f].guestChan] = 0]
           /\ cause' = [cause EXCEPT ![f] = why]
           /\ UNCHANGED stops

\* closeForward: out of both maps, then stop.  The stop follows the unlock, but
\* only the caller that removed the entry performs it.
CloseForward(h, why) ==
  IF forwards[h] = 0
  THEN UNCHANGED <<forwards, channels, stops, cause>>
  ELSE LET f == forwards[h]
       IN  /\ forwards' = [forwards EXCEPT ![h] = 0]
           /\ channels' = [channels EXCEPT ![fwd[f].guest][fwd[f].guestChan] = 0]
           /\ stops' = [stops EXCEPT ![f] = @ + 1]
           /\ cause' = [cause EXCEPT ![f] = why]

\* What the host does with a frame toHost delivers: OPEN makes it dial, in a goroutine
\* of its own; CLOSE and ERROR make it drop the socket, and change nothing while it
\* still dials.
HostTakes(h, kind, f) ==
  /\ dialing' = dialing \cup {d \in {f} : kind = "open"}
  /\ hostEnd' = [hostEnd EXCEPT ![h] = IF kind = "close" THEN 0 ELSE @]
  /\ missed' = missed \cup {d \in dialing : kind = "close" /\ fwd[d].hostChan = h}

\* tellHostForwardEnded is best effort: it does nothing without a host.
TellHostEnded(h) ==
  IF host = "up" THEN HostTakes(h, "close", 0) ELSE UNCHANGED sockets

-----------------------------------------------------------------------------
(* A guest's reader: fromGuest, fromGuestChannel, openGuestChannel.  A frame  *)
(* read just before ServeGuest's context is cancelled is still processed; a   *)
(* viewer's frame, a refused OPEN and a frame for an unknown channel change   *)
(* nothing here.                                                              *)

\* Processing ended without error: read on, unless the context is cancelled.
ReaderNext(g) ==
  reader' = [reader EXCEPT ![g] = IF conn[g] = "attached" THEN Idle ELSE Ended]

GuestOpen(g, c) ==
  /\ reader[g].pc = "recv"
  /\ g \notin Viewers
  /\ host # "closed"
  /\ Cardinality(Live) < MaxChannels
  /\ channels[g][c] = 0
  /\ made < MaxForwards
  /\ NextHostChan \in HostChans
  /\ LET f == made + 1
         h == NextHostChan
     IN  /\ made' = f
         /\ nextChan' = h
         /\ fwd' = [fwd EXCEPT ![f] =
                      [guest |-> g, guestChan |-> c, hostChan |-> h]]
         /\ forwards' = [forwards EXCEPT ![h] = f]
         /\ channels' = [channels EXCEPT ![g][c] = h]
         /\ writer' = [writer EXCEPT ![f] = "running"]
         /\ reader' = [reader EXCEPT ![g] =
                         [pc |-> "tell", host |-> h, f |-> f, kind |-> "open"]]
  /\ UNCHANGED <<out, last, stops, conn, toTell, hostReader, cause, ends>>

GuestFrame(g, c, kind) ==
  /\ reader[g].pc = "recv"
  /\ g \notin Viewers
  /\ channels[g][c] # 0
  /\ LET h == channels[g][c]
     IN  reader' = [reader EXCEPT ![g] =
                      [pc |-> IF kind = "close" THEN "close" ELSE "tell",
                       host |-> h, f |-> forwards[h], kind |-> kind]]
  /\ UNCHANGED <<conn, toTell, hostReader, cause, relay, queues, ends>>

ReaderClose(g) ==
  /\ reader[g].pc = "close"
  /\ CloseForward(reader[g].host, "guest")
  /\ reader' = [reader EXCEPT ![g].pc = "tell"]
  /\ UNCHANGED <<nextChan, made, fwd, out, last, writer, conn, toTell,
                 hostReader, ends>>

ReaderTell(g) ==
  /\ reader[g].pc = "tell"
  /\ host = "up"
  /\ HostTakes(reader[g].host, reader[g].kind, reader[g].f)
  /\ ReaderNext(g)
  /\ UNCHANGED <<conn, toTell, hostReader, cause, relay, queues,
                 host, hostSent, wire, delivered>>

\* toHost fails without a host, on a broken host stream, and it may fail on a
\* context that is already cancelled.  The error ends ServeGuest.
ReaderTellFails(g) ==
  /\ reader[g].pc = "tell"
  /\ host # "up" \/ conn[g] # "attached"
  /\ reader' = [reader EXCEPT ![g] = Ended]
  /\ UNCHANGED <<conn, toTell, hostReader, cause, relay, queues, ends>>

\* Recv fails: the context is cancelled.
ReaderExit(g) ==
  /\ reader[g].pc = "recv"
  /\ conn[g] # "attached"
  /\ reader' = [reader EXCEPT ![g] = Ended]
  /\ UNCHANGED <<conn, toTell, hostReader, cause, relay, queues, ends>>

-----------------------------------------------------------------------------
(* A guest's teardown: ServeGuest returns, which cancels its context and then *)
(* runs closeGuestForwards.  Nothing joins the reader first.                  *)

GuestLeave(g) ==
  /\ "guest leaves" \in Faults \/ reader[g].pc = "done"
  /\ conn[g] = "attached"
  /\ conn' = [conn EXCEPT ![g] = "cancelled"]
  /\ UNCHANGED <<reader, toTell, hostReader, cause, relay, queues, ends>>

Owned(g) == {f \in Fwd : \E c \in Channels :
                channels[g][c] # 0 /\ forwards[channels[g][c]] = f}

\* Mutant: the teardown collects its forwards but leaves them in the map.
GuestCleanupKeepsForwards(g) ==
  /\ conn[g] = "cancelled"
  /\ conn' = [conn EXCEPT ![g] = "cleaning"]
  /\ toTell' = [toTell EXCEPT ![g] = Owned(g)]
  /\ UNCHANGED <<relay, queues, reader, hostReader, cause, ends>>

GuestCleanup(g) ==
  /\ conn[g] = "cancelled"
  /\ conn' = [conn EXCEPT ![g] = "cleaning"]
  /\ toTell' = [toTell EXCEPT ![g] = Owned(g)]
  /\ forwards' = [h \in HostChans |-> IF forwards[h] \in Owned(g) THEN 0
                                                                 ELSE forwards[h]]
  /\ channels' = [channels EXCEPT ![g] = [c \in Channels |-> 0]]
  /\ cause' = [f \in Fwd |-> IF f \in Owned(g) THEN "left" ELSE cause[f]]
  /\ UNCHANGED <<nextChan, made, fwd, queues, reader, hostReader, ends>>

GuestTell(g, f) ==
  /\ f \in toTell[g]
  /\ toTell' = [toTell EXCEPT ![g] = @ \ {f}]
  /\ stops' = [stops EXCEPT ![f] = @ + 1]
  /\ TellHostEnded(fwd[f].hostChan)
  /\ UNCHANGED <<relay, out, last, writer, reader, conn, hostReader, cause,
                 host, hostSent, wire, delivered>>

-----------------------------------------------------------------------------
(* The writer of one forward: runForwardWriter and flushForward.  A write to  *)
(* the guest may fail at any time.                                            *)

DeliverHead(f) ==
  /\ out[f] # <<>>
  /\ out' = [out EXCEPT ![f] = Tail(@)]
  /\ delivered' = [delivered EXCEPT ![f] = Append(@, Head(out[f]))]

WriterSend(f) ==
  /\ writer[f] = "running"
  /\ DeliverHead(f)
  /\ UNCHANGED <<relay, last, stops, writer, reader, conn, toTell, hostReader,
                 cause, host, sockets, hostSent, wire>>

WriterSendFails(f) ==
  /\ "guest write" \in Faults
  /\ writer[f] = "running"
  /\ out[f] # <<>>
  /\ out' = [out EXCEPT ![f] = Tail(@)]
  /\ writer' = [writer EXCEPT ![f] = "failing"]
  /\ UNCHANGED <<relay, last, stops, reader, conn, toTell, hostReader, cause,
                 ends>>

WriterFailClose(f) ==
  /\ writer[f] = "failing"
  /\ CloseForward(fwd[f].hostChan, "write")
  /\ writer' = [writer EXCEPT ![f] = "telling"]
  /\ UNCHANGED <<nextChan, made, fwd, out, last, reader, conn, toTell,
                 hostReader, ends>>

\* Mutant: the host is left to guess.
WriterFailTellsNobody(f) ==
  /\ writer[f] = "telling"
  /\ writer' = [writer EXCEPT ![f] = "broken"]
  /\ UNCHANGED <<relay, out, last, stops, reader, conn, toTell, hostReader,
                 cause, ends>>

\* The writer tells the host under its guest's context, so the report may be
\* lost once that context is cancelled.
WriterFailTell(f) ==
  /\ writer[f] = "telling"
  /\ \/ TellHostEnded(fwd[f].hostChan)
     \/ conn[fwd[f].guest] # "attached" /\ UNCHANGED sockets
  /\ writer' = [writer EXCEPT ![f] = "broken"]
  /\ UNCHANGED <<relay, out, last, stops, reader, conn, toTell, hostReader,
                 cause, host, hostSent, wire, delivered>>

\* Mutant: the writer returns on the stop instead of flushing.
WriterStoppedDiscards(f) ==
  /\ writer[f] = "running"
  /\ stops[f] > 0
  /\ writer' = [writer EXCEPT ![f] = "done"]
  /\ UNCHANGED <<relay, out, last, stops, reader, conn, toTell, hostReader,
                 cause, ends>>

WriterStopped(f) ==
  /\ writer[f] = "running"
  /\ stops[f] > 0
  /\ writer' = [writer EXCEPT ![f] = "flushing"]
  /\ UNCHANGED <<relay, out, last, stops, reader, conn, toTell, hostReader,
                 cause, ends>>

WriterCancelled(f) ==
  /\ writer[f] = "running"
  /\ conn[fwd[f].guest] # "attached"
  /\ writer' = [writer EXCEPT ![f] = "done"]
  /\ UNCHANGED <<relay, out, last, stops, reader, conn, toTell, hostReader,
                 cause, ends>>

FlushSend(f) ==
  /\ writer[f] = "flushing"
  /\ DeliverHead(f)
  /\ UNCHANGED <<relay, last, stops, writer, reader, conn, toTell, hostReader,
                 cause, host, sockets, hostSent, wire>>

\* The queue is empty: the relay's own notice goes last, then the writer ends.
FlushLast(f) ==
  /\ writer[f] = "flushing"
  /\ out[f] = <<>>
  /\ IF last[f]
     THEN delivered' = [delivered EXCEPT ![f] = Append(@, [f |-> f, n |-> CLOSE])]
     ELSE UNCHANGED delivered
  /\ last' = [last EXCEPT ![f] = FALSE]
  /\ writer' = [writer EXCEPT ![f] = "done"]
  /\ UNCHANGED <<relay, out, stops, reader, conn, toTell, hostReader, cause,
                 host, sockets, hostSent, wire>>

FlushFails(f) ==
  /\ "guest write" \in Faults
  /\ writer[f] = "flushing"
  /\ out[f] # <<>> \/ last[f]
  /\ writer' = [writer EXCEPT ![f] = "broken"]
  /\ UNCHANGED <<relay, out, last, stops, reader, conn, toTell, hostReader,
                 cause, ends>>

-----------------------------------------------------------------------------
(* The host's reader: fromHostChannel and retireForward. *)

HostRecv ==
  /\ hostReader.pc = "recv"
  /\ wire # <<>>
  /\ wire' = Tail(wire)
  /\ LET w == Head(wire)
     IN  hostReader' = IF forwards[w.chan] = 0
                       THEN HIdle
                       ELSE [pc |-> "queue", chan |-> w.chan,
                             f |-> forwards[w.chan], src |-> w.f, n |-> w.n]
  /\ UNCHANGED <<relay, queues, reader, conn, toTell, cause,
                 host, sockets, hostSent, delivered>>

\* Mutant: one frame too many.
HasRoomOffByOne(f) == Len(out[f]) <= QueueDepth

HasRoom(f) == Len(out[f]) < QueueDepth

\* forward.queue takes the frame.  Its select picks at random between a queue
\* with room and a closed forward.
HostQueue ==
  /\ hostReader.pc = "queue"
  /\ HasRoom(hostReader.f)
  /\ out' = [out EXCEPT ![hostReader.f] =
               Append(@, [f |-> hostReader.src, n |-> hostReader.n])]
  /\ hostReader' = IF hostReader.n = CLOSE THEN [hostReader EXCEPT !.pc = "close"]
                                           ELSE HIdle
  /\ UNCHANGED <<relay, last, stops, writer, reader, conn, toTell, cause, ends>>

\* Mutant: a frame that finds no room is dropped and the stream goes on.
HostQueueDrops ==
  /\ hostReader.pc = "queue"
  /\ ~HasRoom(hostReader.f) \/ stops[hostReader.f] > 0
  /\ hostReader' = IF hostReader.n = CLOSE THEN [hostReader EXCEPT !.pc = "close"]
                                           ELSE HIdle
  /\ UNCHANGED <<relay, queues, reader, conn, toTell, cause, ends>>

\* Mutant: a plain channel send, which waits for room.
HostQueueWaits ==
  /\ hostReader.pc = "queue"
  /\ stops[hostReader.f] > 0
  /\ hostReader' = [hostReader EXCEPT !.pc = IF hostReader.n = CLOSE
                                             THEN "close" ELSE "retire"]
  /\ UNCHANGED <<relay, queues, reader, conn, toTell, cause, ends>>

\* forward.queue refuses: no room, or stopped.  It never waits.
HostQueueFull ==
  /\ hostReader.pc = "queue"
  /\ ~HasRoom(hostReader.f) \/ stops[hostReader.f] > 0
  /\ hostReader' = [hostReader EXCEPT !.pc = IF hostReader.n = CLOSE
                                             THEN "close" ELSE "retire"]
  /\ UNCHANGED <<relay, queues, reader, conn, toTell, cause, ends>>

HostRetire ==
  /\ hostReader.pc = "retire"
  /\ hostReader' = IF forwards[hostReader.chan] = 0
                   THEN HIdle
                   ELSE [hostReader EXCEPT !.pc = "last",
                                           !.f = forwards[hostReader.chan]]
  /\ UNCHANGED <<relay, queues, reader, conn, toTell, cause, ends>>

HostRetireLast ==
  /\ hostReader.pc = "last"
  /\ last' = [last EXCEPT ![hostReader.f] = TRUE]
  /\ hostReader' = [hostReader EXCEPT !.pc = "retireClose"]
  /\ UNCHANGED <<relay, out, stops, writer, reader, conn, toTell, cause, ends>>

HostRetireClose ==
  /\ hostReader.pc = "retireClose"
  /\ CloseForward(hostReader.chan, "retired")
  /\ hostReader' = [hostReader EXCEPT !.pc = "retireTell"]
  /\ UNCHANGED <<nextChan, made, fwd, out, last, writer, reader, conn, toTell,
                 ends>>

HostRetireTell ==
  /\ hostReader.pc = "retireTell"
  /\ TellHostEnded(hostReader.chan)
  /\ hostReader' = HIdle
  /\ UNCHANGED <<relay, queues, reader, conn, toTell, cause,
                 host, hostSent, wire, delivered>>

HostClose ==
  /\ hostReader.pc = "close"
  /\ CloseForward(hostReader.chan, "host")
  /\ hostReader' = HIdle
  /\ UNCHANGED <<nextChan, made, fwd, out, last, writer, reader, conn, toTell,
                 ends>>

-----------------------------------------------------------------------------
(* The host, as the relay sees it. *)

\* The dial succeeds.  The relay's numbers do not come back, so the channel is free.
DialSucceeds(f) ==
  /\ f \in dialing
  /\ hostEnd[fwd[f].hostChan] = 0
  /\ dialing' = dialing \ {f}
  /\ hostEnd' = [hostEnd EXCEPT ![fwd[f].hostChan] = f]
  /\ UNCHANGED <<relay, queues, reader, conn, toTell, hostReader, cause,
                 host, missed, hostSent, wire, delivered>>

\* The target is refused or out of reach: an ERROR says so.
DialFails(f) ==
  /\ host = "up"
  /\ Len(wire) < MaxWire
  /\ f \in dialing
  /\ dialing' = dialing \ {f}
  /\ wire' = Append(wire, [chan |-> fwd[f].hostChan, f |-> f, n |-> CLOSE])
  /\ UNCHANGED <<relay, queues, reader, conn, toTell, hostReader, cause,
                 host, hostEnd, missed, hostSent, delivered>>

HostSends(h) ==
  /\ host = "up"
  /\ Len(wire) < MaxWire
  /\ hostEnd[h] # 0
  /\ LET f == hostEnd[h]
     IN  /\ hostSent[f] < MaxData
         /\ hostSent' = [hostSent EXCEPT ![f] = @ + 1]
         /\ wire' = Append(wire, [chan |-> h, f |-> f, n |-> hostSent[f] + 1])
  /\ UNCHANGED <<relay, queues, reader, conn, toTell, hostReader, cause,
                 host, sockets, delivered>>

HostSendsClose(h) ==
  /\ host = "up"
  /\ Len(wire) < MaxWire
  /\ hostEnd[h] # 0
  /\ wire' = Append(wire, [chan |-> h, f |-> hostEnd[h], n |-> CLOSE])
  /\ hostEnd' = [hostEnd EXCEPT ![h] = 0]
  /\ UNCHANGED <<relay, queues, reader, conn, toTell, hostReader, cause,
                 host, dialing, missed, hostSent, delivered>>

\* The host's transport fails: writes to it fail from here on.
HostBreaks ==
  /\ "host breaks" \in Faults
  /\ host = "up"
  /\ host' = "broken"
  /\ UNCHANGED <<relay, queues, reader, conn, toTell, hostReader, cause,
                 sockets, hostSent, wire, delivered>>

\* Bridge.Close sets host to nil: after serveHost returns, or from CloseAll
\* while the host's reader is still running.
BridgeClose ==
  /\ "bridge closes" \in Faults
  /\ host # "closed"
  /\ host' = "closed"
  /\ UNCHANGED <<relay, queues, reader, conn, toTell, hostReader, cause,
                 sockets, hostSent, wire, delivered>>

-----------------------------------------------------------------------------
ReaderStep(g) == ReaderClose(g) \/ ReaderTell(g) \/ ReaderTellFails(g) \/ ReaderExit(g)

TeardownStep(g) == GuestCleanup(g) \/ \E f \in Fwd : GuestTell(g, f)

WriterStep(f) ==
  \/ WriterSend(f) \/ WriterSendFails(f) \/ WriterFailClose(f)
  \/ WriterFailTell(f) \/ WriterStopped(f) \/ WriterCancelled(f)
  \/ FlushSend(f) \/ FlushLast(f) \/ FlushFails(f)

HostRouteStep ==
  \/ HostQueue \/ HostQueueFull \/ HostRetire \/ HostRetireLast
  \/ HostRetireClose \/ HostRetireTell \/ HostClose

Next ==
  \/ \E g \in Guests, c \in Channels :
        GuestOpen(g, c) \/ \E k \in {"data", "close"} : GuestFrame(g, c, k)
  \/ \E g \in Guests : ReaderStep(g) \/ GuestLeave(g) \/ TeardownStep(g)
  \/ \E f \in Fwd : WriterStep(f) \/ DialSucceeds(f) \/ DialFails(f)
  \/ HostRecv
  \/ HostRouteStep
  \/ \E h \in HostChans : HostSends(h) \/ HostSendsClose(h)
  \/ HostBreaks
  \/ BridgeClose

Spec == Init /\ [][Next]_vars

\* The Go scheduler runs every runnable goroutine, writes to a guest end within
\* guestSendTimeout, and a reader that ended makes ServeGuest return.
Fairness ==
  /\ \A f \in Fwd : WF_vars(WriterStep(f))
  /\ \A g \in Guests : /\ WF_vars(ReaderStep(g))
                       /\ WF_vars(TeardownStep(g))
                       /\ WF_vars(reader[g].pc = "done" /\ GuestLeave(g))
  /\ WF_vars(HostRouteStep)

FairSpec == Spec /\ Fairness

-----------------------------------------------------------------------------
(* Properties. *)

TypeOK ==
  /\ host \in {"up", "broken", "closed"}
  /\ forwards \in [HostChans -> 0..MaxForwards]
  /\ channels \in [Guests -> [Channels -> 0..MaxForwards]]
  /\ nextChan \in 0..MaxForwards
  /\ made \in 0..MaxForwards
  /\ fwd \in [Fwd -> FwdRec]
  /\ out \in [Fwd -> Seq(Frame)]
  /\ \A f \in Fwd : Len(out[f]) <= QueueDepth
  /\ last \in [Fwd -> BOOLEAN]
  /\ stops \in [Fwd -> Nat]
  /\ writer \in [Fwd -> {"none", "running", "flushing", "failing", "telling",
                        "done", "broken"}]
  /\ reader \in [Guests -> ReaderRec]
  /\ conn \in [Guests -> {"attached", "cancelled", "cleaning"}]
  /\ toTell \in [Guests -> SUBSET Fwd]
  /\ hostReader \in HostReaderRec
  /\ hostEnd \in [HostChans -> 0..MaxForwards]
  /\ dialing \subseteq Fwd /\ missed \subseteq Fwd
  /\ hostSent \in [Fwd -> 0..MaxData]
  /\ wire \in Seq(WireFrame)
  /\ delivered \in [Fwd -> Seq(Frame)]
  /\ cause \in [Fwd -> Causes]

\* The two numbering spaces stay each other's inverse: every entry of
\* Bridge.forwards is reachable from its guest's channel map under the number
\* the guest chose, and every entry of a channel map leads to a forward of that
\* guest and channel (forward.go, "two numbering spaces").  No viewer owns one.
RoutesMatch ==
  /\ \A h \in HostChans : forwards[h] # 0 =>
       LET f == fwd[forwards[h]]
       IN  /\ f.hostChan = h
           /\ f.guest \in Guests \ Viewers
           /\ f.guestChan \in Channels
           /\ channels[f.guest][f.guestChan] = h
  /\ \A g \in Guests, c \in Channels : channels[g][c] # 0 =>
       LET f == fwd[forwards[channels[g][c]]]
       IN  forwards[channels[g][c]] # 0 /\ f.guest = g /\ f.guestChan = c

\* forward.stop is not guarded by a sync.Once: two callers that both close
\* forward.closed crash the relay.  Only the caller that removed a forward from
\* the map stops it, so no forward is ever stopped twice.
StoppedOnce == \A f \in Fwd : stops[f] <= 1

\* No stream receives a frame of another one, in either direction: what waits
\* for or was written to a forward's guest came from the socket opened for that
\* forward, and what a guest's reader is about to send goes to the socket of the
\* forward it looked up, or to none ("a late frame from a closed stream").
NoCrossTalk ==
  /\ \A f \in Fwd : \A i \in DOMAIN out[f] : out[f][i].f = f
  /\ \A f \in Fwd : \A i \in DOMAIN delivered[f] : delivered[f][i].f = f
  /\ \A g \in Guests : reader[g].pc = "tell" =>
       hostEnd[reader[g].host] \in {0, reader[g].f}

\* A guest sees a forward's bytes without a gap: the data frames written to it
\* are the first ones the host sent, in order, and nothing follows a CLOSE.
InOrder ==
  \A f \in Fwd : \A i \in DOMAIN delivered[f] :
     \/ delivered[f][i].n = i
     \/ delivered[f][i].n = CLOSE /\ i = Len(delivered[f])

\* The host is told of every forward that ended while its guest stayed: it has no
\* socket for it, dialled or still dialling, unless whoever ended it is about to tell;
\* or told it while the host dialled, which ignores that, opens the socket all the same
\* and keeps it.
EndedIsToldToHost ==
  \A f \in Fwd :
     LET g == fwd[f].guest
         h == fwd[f].hostChan
     IN  (/\ f <= made
          /\ forwards[h] # f
          /\ host = "up"
          /\ conn[g] = "attached"
          /\ (hostEnd[h] = f \/ f \in dialing))
         => \/ reader[g].pc = "tell" /\ reader[g].f = f
            \/ writer[f] = "telling"
            \/ hostReader.pc = "retireTell" /\ hostReader.chan = h
            \/ f \in missed

Told(f) == delivered[f] # <<>> /\ delivered[f][Len(delivered[f])].n = CLOSE

\* Stopping means "no more will be accepted", not "discard what was": a writer
\* that ended because its forward was closed from the host's side leaves nothing
\* behind for a guest that is still there; and a guest whose forward the relay gave
\* up on is told so, although the queue was full when that was decided
\* (forward_test.go, "closed to both ends").
StoppedIsFlushed ==
  \A f \in Fwd :
     (/\ writer[f] = "done"
      /\ cause[f] \in {"host", "retired"}
      /\ conn[fwd[f].guest] = "attached")
     => /\ out[f] = <<>> /\ ~last[f]
        /\ cause[f] = "retired" => Told(f)

\* No goroutine leaks: the writer of every forward that left the map ends.
WritersEnd ==
  \A f \in Fwd : (cause[f] # "none") ~> (writer[f] \in {"done", "broken"})

\* Whatever the guests do, the host's reader never waits for one of them: with a
\* frame in hand it has a step it can take at once, and every path from there
\* leads back to Recv.  Waiting would freeze the terminal for everybody.
HostReaderNeverWaits == hostReader.pc # "recv" => ENABLED HostRouteStep

-----------------------------------------------------------------------------
(* The inductive invariant behind RoutesMatch, StoppedOnce and NoCrossTalk.   *)

\* Numbers are handed out once and in order, so a forward's host channel is its
\* own index and says everything about who it belongs to.
Numbering ==
  /\ nextChan = made
  /\ \A f \in 1..made : /\ fwd[f].hostChan = f
                        /\ fwd[f].guest \in Guests \ Viewers
                        /\ fwd[f].guestChan \in Channels
  /\ \A h \in HostChans : forwards[h] # 0 => forwards[h] = h /\ h <= made

Routes ==
  /\ \A h \in HostChans : forwards[h] # 0 =>
       channels[fwd[h].guest][fwd[h].guestChan] = h
  /\ \A g \in Guests, c \in Channels : channels[g][c] # 0 =>
       /\ forwards[channels[g][c]] # 0
       /\ fwd[channels[g][c]].guest = g
       /\ fwd[channels[g][c]].guestChan = c

\* A forward is stopped only after it left the map, by the one that took it out.
StopState ==
  /\ \A f \in Fwd : stops[f] <= 1
  /\ \A f \in Fwd : forwards[f] # 0 \/ f > made => stops[f] = 0
  /\ \A g \in Guests : \A f \in toTell[g] :
       f <= made /\ fwd[f].guest = g /\ forwards[f] = 0 /\ stops[f] = 0

WritersMade == \A f \in Fwd : writer[f] # "none" => f <= made

\* Every frame on its way names the stream of the channel it travels on.
QueuesOwn ==
  \A f \in Fwd : /\ \A i \in DOMAIN out[f] : out[f][i].f = f
                /\ \A i \in DOMAIN delivered[f] : delivered[f][i].f = f
EndsOwn == /\ \A h \in HostChans : hostEnd[h] \in {0, h}
           /\ \A f \in dialing : fwd[f].hostChan = f
WireOwn == \A i \in DOMAIN wire : wire[i].chan = wire[i].f
HostReaderOwn == hostReader.pc # "recv" => /\ hostReader.f = hostReader.chan
                                           /\ hostReader.src = hostReader.chan
ReadersOwn == \A g \in Guests : reader[g].pc \in {"close", "tell"} =>
                reader[g].f = reader[g].host /\ fwd[reader[g].f].hostChan = reader[g].f

Streams == QueuesOwn /\ EndsOwn /\ WireOwn /\ HostReaderOwn /\ ReadersOwn

IInv == Numbering /\ Routes /\ StopState /\ WritersMade /\ Streams

-----------------------------------------------------------------------------
(* The inductive invariants behind InOrder, EndedIsToldToHost and             *)
(* StoppedIsFlushed; the first is what the others rest on.                    *)

HostHolds(f) == hostReader.src = f /\ hostReader.pc # "recv"

\* Nothing was said on forward f yet, in either direction.
Silent(f) ==
  /\ hostEnd[f] = 0 /\ hostSent[f] = 0 /\ ~HostHolds(f) /\ \A i \in DOMAIN wire : wire[i].f # f
  /\ out[f] = <<>> /\ delivered[f] = <<>> /\ ~last[f]
  /\ writer[f] \notin {"failing", "telling", "broken"}

Opens(g, f) == reader[g].pc = "tell" /\ reader[g].kind = "open" /\ reader[g].f = f

\* A forward is silent until its target is dialled, and while its guest stays it is in the
\* map until its OPEN was told.
Begins ==
  /\ \A f \in Fwd : f > made => Silent(f) /\ cause[f] = "none"
  /\ \A f \in dialing : f <= made /\ Silent(f)
  /\ \A i \in DOMAIN wire : wire[i].f <= made
  /\ hostReader.src <= made
  /\ \A g \in Guests : reader[g].pc \in {"close", "tell"} =>
       /\ reader[g].f \in 1..made /\ fwd[reader[g].f].guest = g
       /\ reader[g].pc = "close" => reader[g].kind = "close"
  /\ \A g \in Guests, f \in Fwd : Opens(g, f) =>
       Silent(f) /\ f \notin dialing /\ (conn[g] = "attached" => forwards[f] # 0)

\* The host is done with forward f: its socket is gone for good.
Shut(f) == f <= made /\ hostEnd[f] = 0 /\ f \notin dialing /\ \A g \in Guests : ~Opens(g, f)

Ends(s) == \E i \in DOMAIN s : s[i].n = CLOSE
Numbered(s, k) == \A i \in DOMAIN s : s[i].n = k + i \/ (s[i].n = CLOSE /\ i = Len(s))

\* The writer may still write what is queued.
Going(f) == writer[f] \in {"none", "running", "flushing"}
Queueing(f) == hostReader.pc = "queue" /\ hostReader.src = f

\* The frames of one forward on the wire: numbered upwards, the CLOSE last.
WireInOrder ==
  /\ \A i, j \in DOMAIN wire : i < j /\ wire[i].f = wire[j].f =>
       wire[i].n # CLOSE /\ (wire[j].n = CLOSE \/ wire[i].n < wire[j].n)
  /\ \A i \in DOMAIN wire : /\ wire[i].n <= hostSent[wire[i].f]
                            /\ wire[i].n = CLOSE => Shut(wire[i].f)
  /\ hostReader.pc \in {"queue", "close"} /\ hostReader.n = CLOSE =>
       Shut(hostReader.src) /\ \A i \in DOMAIN wire : wire[i].f # hostReader.src
  /\ hostReader.pc = "close" => hostReader.n = CLOSE

\* What was delivered and what is queued is one run; nothing of the forward follows a CLOSE,
\* neither a frame nor the relay's own notice.
Retiring(f) == hostReader.src = f /\ hostReader.pc \in {"retire", "last", "retireClose"}
LineInOrder(f) ==
  /\ Numbered(delivered[f], 0)
  /\ last[f] => ~Queueing(f) /\ (forwards[f] # 0 => Retiring(f))
  /\ Going(f) =>
       /\ Numbered(out[f], Len(delivered[f]))
       /\ Ends(delivered[f]) => out[f] = <<>>
       /\ Ends(delivered[f]) \/ Ends(out[f]) =>
            /\ Shut(f) /\ ~Queueing(f) /\ ~Retiring(f) /\ ~last[f]
            /\ \A i \in DOMAIN wire : wire[i].f # f

\* As long as the host's reader routes the forward's frames, the next one is the one the
\* queue waits for, and none of those sent since is missing.
Taken(f) == IF Queueing(f) /\ hostReader.n # CLOSE THEN hostReader.n
            ELSE Len(delivered[f]) + Len(out[f])
Tracked(f) ==
  /\ Going(f) /\ f <= made
  /\ forwards[f] # 0 \/ Queueing(f)
  /\ ~Retiring(f)
NoneMissing(f) ==
  Tracked(f) =>
    /\ hostEnd[f] # 0 => Taken(f) <= hostSent[f]
    /\ Queueing(f) /\ hostReader.n # CLOSE =>
         hostReader.n = Len(delivered[f]) + Len(out[f]) + 1
    /\ \A i \in DOMAIN wire : wire[i].f = f /\ wire[i].n # CLOSE => wire[i].n > Taken(f)
    /\ \A n \in (Taken(f) + 1)..hostSent[f] : \E i \in DOMAIN wire : wire[i].f = f /\ wire[i].n = n

Delivery == WireInOrder /\ \A f \in Fwd : LineInOrder(f) /\ NoneMissing(f)

\* Whoever took a forward off the map is about to tell the host, by a CLOSE and not by a
\* frame on its way.
Telling ==
  \A f \in Fwd :
    (f <= made /\ forwards[f] = 0 /\ host = "up" /\ conn[fwd[f].guest] = "attached"
       /\ (hostEnd[f] = f \/ f \in dialing))
    => \/ f \in missed
       \/ /\ reader[fwd[f].guest].pc = "tell" /\ reader[fwd[f].guest].kind = "close"
          /\ reader[fwd[f].guest].f = f
       \/ writer[f] = "telling"
       \/ hostReader.pc = "retireTell" /\ hostReader.chan = f

\* The host's reader is done with a forward it closed, and the relay's own notice waits
\* until it is written.
Flushed(f) ==
  /\ forwards[f] # 0 => cause[f] = "none"
  /\ cause[f] \in {"host", "retired"} =>
       forwards[f] = 0 /\ ~(HostHolds(f) /\ hostReader.pc # "retireTell")
  /\ writer[f] = "flushing" => stops[f] > 0
  /\ writer[f] = "done" => stops[f] > 0 \/ conn[fwd[f].guest] # "attached"
  /\ HostHolds(f) /\ hostReader.pc = "retireClose" /\ forwards[f] # 0 => last[f]
  /\ cause[f] = "retired" => last[f] \/ (writer[f] = "done" /\ Told(f))
  /\ (writer[f] = "done" /\ cause[f] \in {"host", "retired"}
        /\ conn[fwd[f].guest] = "attached") => out[f] = <<>> /\ ~last[f]

Flushing == \A f \in Fwd : Flushed(f)

-----------------------------------------------------------------------------
(* What the documentation says and the code does not do. *)

\* "A stream that is being given up on has to be able to say so even then", when
\* the queue is full (forward.last): the end of a stream the host announced is
\* announced to its guest.
HostCloseReachesGuest ==
  \A f \in Fwd :
     (/\ writer[f] = "done"
      /\ cause[f] = "host"
      /\ conn[fwd[f].guest] = "attached")
     => Told(f)

\* "hostForwards.close: drops a forward": the host keeps no socket of a forward whose end it
\* was told.  A CLOSE that finds the target still being dialled finds nothing to drop.
ToldIsDropped ==
  \A f \in missed : forwards[fwd[f].hostChan] # f => hostEnd[fwd[f].hostChan] # f

\* "When a guest disconnects, the relay closes every channel it owned, so the
\* host drops the far end rather than leaking sockets": once everything a
\* departed guest started has ended, neither the relay nor the host holds
\* anything of it.
DepartedGuestHoldsNothing ==
  \A g \in Guests :
     (/\ conn[g] = "cleaning" /\ toTell[g] = {}
      /\ reader[g].pc = "done"
      /\ \A f \in 1..made : fwd[f].guest = g => writer[f] \in {"done", "broken"}
      /\ host = "up")
     => \A h \in HostChans :
          /\ forwards[h] # 0 => fwd[forwards[h]].guest # g
          /\ hostEnd[h] # 0 => fwd[hostEnd[h]].guest # g
=============================================================================
