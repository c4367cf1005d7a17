------------------------ MODULE RelayForwardsProofs ------------------------
(***************************************************************************)
(* Theorems about RelayForwards, for any set of guests and channels and any *)
(* bounds.  TypeOK is inductive.  RoutesMatch, StoppedOnce and NoCrossTalk  *)
(* follow from one inductive invariant, IInv, whose core is Numbering: the  *)
(* relay never hands out a host channel number twice.                       *)
(***************************************************************************)
EXTENDS RelayForwards, SequenceTheorems, TLAPS

USE ForwardsAssumption

-----------------------------------------------------------------------------
(* Lemmas about the records and the helpers of RelayForwards. *)

\* The values a guest's reader takes, and the fields of one that is routing.
LEMMA ReaderRecords ==
  /\ Idle \in ReaderRec
  /\ Ended \in ReaderRec
  /\ \A r \in ReaderRec : r.pc \in {"close", "tell"} =>
       /\ r.host \in HostChans
       /\ r.f \in 0..MaxForwards
       /\ r.kind \in {"open", "data", "close"} /\ (r.kind = "open" => r.f \in Fwd)
       /\ [r EXCEPT !.pc = "tell"] \in ReaderRec
  /\ \A h \in HostChans, f \in 0..MaxForwards, k \in {"open", "data", "close"},
        p \in {"close", "tell"} :
       k # "open" \/ f \in Fwd => [pc |-> p, host |-> h, f |-> f, kind |-> k] \in ReaderRec
BY DEF ReaderRec, Idle, Ended, Fwd

\* The values the host's reader takes, and the fields of one that is routing.
LEMMA HostReaderRecords ==
  /\ HIdle \in HostReaderRec
  /\ \A w \in WireFrame, f \in Fwd :
       [pc |-> "queue", chan |-> w.chan, f |-> f, src |-> w.f, n |-> w.n]
         \in HostReaderRec
  /\ \A r \in HostReaderRec : r.pc # "recv" =>
       /\ r.chan \in HostChans
       /\ [f |-> r.src, n |-> r.n] \in Frame
       /\ \A p \in {"close", "retire", "retireClose", "retireTell"} :
            [r EXCEPT !.pc = p] \in HostReaderRec
       /\ \A f \in Fwd : [r EXCEPT !.pc = "last", !.f = f] \in HostReaderRec
<1>1. HIdle \in HostReaderRec
  BY DEF HostReaderRec
<1>2. \A w \in WireFrame, f \in Fwd :
       [pc |-> "queue", chan |-> w.chan, f |-> f, src |-> w.f, n |-> w.n]
         \in HostReaderRec
  BY DEF HostReaderRec, WireFrame
<1>3. ASSUME NEW r \in HostReaderRec, r.pc # "recv"
      PROVE  /\ r.chan \in HostChans
             /\ [f |-> r.src, n |-> r.n] \in Frame
             /\ \A p \in {"close", "retire", "retireClose", "retireTell"} :
                  [r EXCEPT !.pc = p] \in HostReaderRec
             /\ \A f \in Fwd :
                  [r EXCEPT !.pc = "last", !.f = f] \in HostReaderRec
  <2>1. r \in [pc : {"queue", "retire", "last", "retireClose", "retireTell", "close"},
                chan : HostChans, f : Fwd, src : Fwd, n : Payload]
    BY <1>3 DEF HostReaderRec, HIdle
  <2>2. ASSUME NEW p \in {"close", "retire", "retireClose", "retireTell"}
        PROVE  [r EXCEPT !.pc = p] \in HostReaderRec
    BY <2>1 DEF HostReaderRec
  <2>3. ASSUME NEW f \in Fwd
        PROVE  [r EXCEPT !.pc = "last", !.f = f] \in HostReaderRec
    BY <2>1 DEF HostReaderRec
  <2>4. r.chan \in HostChans /\ [f |-> r.src, n |-> r.n] \in Frame
    BY <2>1 DEF Frame
  <2>. QED BY <2>2, <2>3, <2>4
<1>. QED BY <1>1, <1>2, <1>3

\* What closeForward leaves of the types of the variables it touches.
LEMMA CloseForwardType ==
  ASSUME TypeOK, NEW h, NEW why \in Causes, CloseForward(h, why)
  PROVE  /\ forwards' \in [HostChans -> 0..MaxForwards]
         /\ channels' \in [Guests -> [Channels -> 0..MaxForwards]]
         /\ stops' \in [Fwd -> Nat]
         /\ cause' \in [Fwd -> Causes]
<1>1. CASE forwards[h] = 0
  BY <1>1 DEF TypeOK, CloseForward
<1>2. CASE forwards[h] # 0
  <2>. DEFINE g == fwd[forwards[h]].guest
              c == fwd[forwards[h]].guestChan
  <2>1. /\ forwards' = [forwards EXCEPT ![h] = 0]
        /\ channels' = [channels EXCEPT ![g] = [channels[g] EXCEPT ![c] = 0]]
        /\ stops' = [stops EXCEPT ![forwards[h]] = @ + 1]
        /\ cause' = [cause EXCEPT ![forwards[h]] = why]
    BY <1>2 DEF CloseForward
  <2>2. 0 \in 0..MaxForwards
    OBVIOUS
  <2>3. forwards' \in [HostChans -> 0..MaxForwards]
    BY <2>1, <2>2 DEF TypeOK
  <2>4. channels' \in [Guests -> [Channels -> 0..MaxForwards]]
    <3>. HIDE DEF g, c
    <3>1. g \in Guests => [channels[g] EXCEPT ![c] = 0] \in [Channels -> 0..MaxForwards]
      BY <2>2 DEF TypeOK
    <3>. QED BY <2>1, <3>1 DEF TypeOK
  <2>5. stops' \in [Fwd -> Nat]
    <3>1. forwards[h] \in Fwd => stops[forwards[h]] + 1 \in Nat
      BY DEF TypeOK
    <3>. QED BY <2>1, <3>1 DEF TypeOK
  <2>6. cause' \in [Fwd -> Causes]
    BY <2>1 DEF TypeOK
  <2>. QED BY <2>3, <2>4, <2>5, <2>6
<1>. QED BY <1>1, <1>2

\* What a frame to the host leaves of the types of what the host holds.
LEMMA HostTakesType ==
  ASSUME TypeOK, NEW h, NEW kind, NEW f, kind = "open" => f \in Fwd, HostTakes(h, kind, f)
  PROVE  /\ hostEnd' \in [HostChans -> 0..MaxForwards]
         /\ dialing' \subseteq Fwd /\ missed' \subseteq Fwd
<1>. DEFINE v == IF kind = "close" THEN 0 ELSE hostEnd[h]
<1>1. hostEnd' = [hostEnd EXCEPT ![h] = v]
  BY DEF HostTakes
<1>2. h \in HostChans => v \in 0..MaxForwards
  BY DEF TypeOK
<1>3. dialing' \subseteq Fwd /\ missed' \subseteq Fwd
  BY DEF HostTakes, TypeOK
<1>. HIDE DEF v
<1>. QED BY <1>1, <1>2, <1>3 DEF TypeOK

LEMMA TellHostEndedType ==
  ASSUME TypeOK, NEW h, TellHostEnded(h)
  PROVE  /\ hostEnd' \in [HostChans -> 0..MaxForwards]
         /\ dialing' \subseteq Fwd /\ missed' \subseteq Fwd
<1>1. CASE host = "up"
  BY <1>1, HostTakesType DEF TellHostEnded
<1>2. CASE host # "up"
  BY <1>2 DEF TellHostEnded, TypeOK, sockets
<1>. QED BY <1>1, <1>2

\* Writing the first waiting frame to the guest keeps both queues well formed.
LEMMA DeliverHeadType ==
  ASSUME TypeOK, NEW f \in Fwd, DeliverHead(f)
  PROVE  /\ out' \in [Fwd -> Seq(Frame)]
         /\ \A k \in Fwd : Len(out'[k]) <= QueueDepth
         /\ delivered' \in [Fwd -> Seq(Frame)]
<1>1. /\ out[f] \in Seq(Frame) /\ out[f] # <<>>
      /\ delivered[f] \in Seq(Frame)
  BY DEF DeliverHead, TypeOK
<1>2. /\ Head(out[f]) \in Frame
      /\ Tail(out[f]) \in Seq(Frame)
      /\ Len(Tail(out[f])) = Len(out[f]) - 1
      /\ Len(out[f]) \in Nat
  BY <1>1, HeadTailProperties
<1>3. Append(delivered[f], Head(out[f])) \in Seq(Frame)
  BY <1>1, <1>2
<1>. QED BY <1>2, <1>3 DEF DeliverHead, TypeOK

-----------------------------------------------------------------------------
LEMMA InitType == Init => TypeOK
<1>. SUFFICES ASSUME Init PROVE TypeOK
  OBVIOUS
<1>1. /\ fwd \in [Fwd -> FwdRec]
      /\ reader \in [Guests -> ReaderRec]
      /\ hostReader \in HostReaderRec
  <2>1. NoFwd \in FwdRec
    BY DEF NoFwd, FwdRec
  <2>. QED BY <2>1, ReaderRecords, HostReaderRecords DEF Init
<1>2. /\ out \in [Fwd -> Seq(Frame)]
      /\ \A f \in Fwd : Len(out[f]) <= QueueDepth
      /\ wire \in Seq(WireFrame)
      /\ delivered \in [Fwd -> Seq(Frame)]
  <2>1. <<>> \in Seq(Frame) /\ <<>> \in Seq(WireFrame) /\ Len(<<>>) = 0
    BY EmptySeq
  <2>. QED BY <2>1 DEF Init
<1>3. /\ forwards \in [HostChans -> 0..MaxForwards]
      /\ channels \in [Guests -> [Channels -> 0..MaxForwards]]
      /\ nextChan \in 0..MaxForwards
      /\ made \in 0..MaxForwards
      /\ hostEnd \in [HostChans -> 0..MaxForwards]
      /\ hostSent \in [Fwd -> 0..MaxData]
      /\ stops \in [Fwd -> Nat]
  <2>1. 0 \in 0..MaxForwards /\ 0 \in 0..MaxData /\ 0 \in Nat
    OBVIOUS
  <2>. QED BY <2>1 DEF Init
<1>. QED BY <1>1, <1>2, <1>3 DEF Init, TypeOK, Causes

\* A guest's reader keeps the types.
LEMMA ReaderType ==
  ASSUME TypeOK, NEW g \in Guests,
         \/ \E c \in Channels : \/ GuestOpen(g, c)
                                \/ \E k \in {"data", "close"} : GuestFrame(g, c, k)
         \/ ReaderStep(g)
  PROVE  TypeOK'
<1>. reader[g] \in ReaderRec
  BY DEF TypeOK
<1>1. ASSUME NEW c \in Channels, GuestOpen(g, c)
      PROVE  TypeOK'
  <2>. DEFINE f == made + 1
              h == nextChan + 1
  <2>1. /\ f \in Fwd /\ f \in 0..MaxForwards
        /\ h \in HostChans /\ h \in 0..MaxForwards
    BY <1>1 DEF GuestOpen, NextHostChan, TypeOK, Fwd, HostChans
  <2>2. /\ made' = f /\ nextChan' = h
        /\ fwd' = [fwd EXCEPT ![f] = [guest |-> g, guestChan |-> c, hostChan |-> h]]
        /\ forwards' = [forwards EXCEPT ![h] = f]
        /\ channels' = [channels EXCEPT ![g] = [channels[g] EXCEPT ![c] = h]]
        /\ writer' = [writer EXCEPT ![f] = "running"]
        /\ reader' = [reader EXCEPT ![g] =
                        [pc |-> "tell", host |-> h, f |-> f, kind |-> "open"]]
        /\ UNCHANGED <<out, last, stops, conn, toTell, hostReader, cause,
                       host, hostEnd, dialing, missed, hostSent, wire, delivered>>
    BY <1>1 DEF GuestOpen, NextHostChan, ends, sockets
  <2>. HIDE DEF f, h
  <2>3. [guest |-> g, guestChan |-> c, hostChan |-> h] \in FwdRec
    BY <2>1 DEF FwdRec
  <2>4. [pc |-> "tell", host |-> h, f |-> f, kind |-> "open"] \in ReaderRec
    BY <2>1, ReaderRecords
  <2>5. [channels[g] EXCEPT ![c] = h] \in [Channels -> 0..MaxForwards]
    BY <2>1 DEF TypeOK
  <2>6. channels' \in [Guests -> [Channels -> 0..MaxForwards]]
    BY <2>2, <2>5 DEF TypeOK
  <2>. QED BY <2>1, <2>2, <2>3, <2>4, <2>6 DEF TypeOK
<1>2. ASSUME NEW c \in Channels, NEW k \in {"data", "close"}, GuestFrame(g, c, k)
      PROVE  TypeOK'
  <2>. DEFINE h == channels[g][c]
              p == IF k = "close" THEN "close" ELSE "tell"
  <2>1. h \in HostChans /\ forwards[h] \in 0..MaxForwards
    BY <1>2 DEF GuestFrame, TypeOK, HostChans
  <2>2. [pc |-> p, host |-> h, f |-> forwards[h], kind |-> k] \in ReaderRec
    BY <2>1, ReaderRecords
  <2>3. reader' = [reader EXCEPT ![g] =
                     [pc |-> p, host |-> h, f |-> forwards[h], kind |-> k]]
    BY <1>2 DEF GuestFrame
  <2>. HIDE DEF h, p
  <2>. QED BY <1>2, <2>2, <2>3 DEF GuestFrame, TypeOK, relay, queues, ends, sockets
<1>3. CASE ReaderClose(g)
  <2>1. CloseForward(reader[g].host, "guest") /\ "guest" \in Causes
    BY <1>3 DEF ReaderClose, Causes
  <2>2. reader' = [reader EXCEPT ![g] = [reader[g] EXCEPT !.pc = "tell"]]
    BY <1>3 DEF ReaderClose
  <2>3. reader' \in [Guests -> ReaderRec]
    BY <1>3, <2>2, ReaderRecords DEF ReaderClose, TypeOK
  <2>. QED BY <1>3, <2>1, <2>3, CloseForwardType DEF ReaderClose, TypeOK, ends, sockets
<1>4. CASE ReaderTell(g)
  <2>1. /\ HostTakes(reader[g].host, reader[g].kind, reader[g].f)
        /\ reader[g].kind = "open" => reader[g].f \in Fwd
    BY <1>4, ReaderRecords DEF ReaderTell
  <2>3. /\ hostEnd' \in [HostChans -> 0..MaxForwards]
        /\ dialing' \subseteq Fwd /\ missed' \subseteq Fwd
    BY <2>1, HostTakesType
  <2>2. reader' \in [Guests -> ReaderRec]
    BY <1>4, ReaderRecords DEF ReaderTell, ReaderNext, TypeOK
  <2>. QED BY <1>4, <2>2, <2>3 DEF ReaderTell, TypeOK, relay, queues
<1>5. CASE ReaderTellFails(g)
  BY <1>5, ReaderRecords DEF ReaderTellFails, TypeOK, relay, queues, ends, sockets
<1>6. CASE ReaderExit(g)
  BY <1>6, ReaderRecords DEF ReaderExit, TypeOK, relay, queues, ends, sockets
<1>. QED BY <1>1, <1>2, <1>3, <1>4, <1>5, <1>6 DEF ReaderStep

\* A guest's teardown keeps the types.
LEMMA TeardownType ==
  ASSUME TypeOK, NEW g \in Guests, GuestLeave(g) \/ TeardownStep(g)
  PROVE  TypeOK'
<1>7. CASE GuestLeave(g)
  BY <1>7 DEF GuestLeave, TypeOK, relay, queues, ends, sockets
<1>8. CASE GuestCleanup(g)
  <2>1. Owned(g) \in SUBSET Fwd
    BY DEF Owned
  <2>2. forwards' \in [HostChans -> 0..MaxForwards]
    BY <1>8 DEF GuestCleanup, TypeOK
  <2>3. channels' \in [Guests -> [Channels -> 0..MaxForwards]]
    BY <1>8 DEF GuestCleanup, TypeOK
  <2>4. cause' \in [Fwd -> Causes]
    BY <1>8 DEF GuestCleanup, TypeOK, Causes
  <2>. QED BY <1>8, <2>1, <2>2, <2>3, <2>4 DEF GuestCleanup, TypeOK, queues, ends, sockets
<1>9. ASSUME NEW f \in Fwd, GuestTell(g, f)
      PROVE  TypeOK'
  <2>1. /\ hostEnd' \in [HostChans -> 0..MaxForwards]
        /\ dialing' \subseteq Fwd /\ missed' \subseteq Fwd
    BY <1>9, TellHostEndedType DEF GuestTell
  <2>. QED BY <1>9, <2>1 DEF GuestTell, TypeOK, relay
<1>. QED BY <1>7, <1>8, <1>9 DEF TeardownStep

\* A forward's writer keeps the types.
LEMMA WriterType ==
  ASSUME TypeOK, NEW f \in Fwd, WriterStep(f)
  PROVE  TypeOK'
<1>1. CASE WriterSend(f)
  BY <1>1, DeliverHeadType DEF WriterSend, TypeOK, relay, sockets
<1>2. CASE WriterSendFails(f)
  <2>1. /\ Tail(out[f]) \in Seq(Frame)
        /\ Len(Tail(out[f])) <= QueueDepth
    <3>1. /\ out[f] \in Seq(Frame) /\ out[f] # <<>>
          /\ Len(out[f]) <= QueueDepth
      BY <1>2 DEF WriterSendFails, TypeOK
    <3>2. /\ Tail(out[f]) \in Seq(Frame)
          /\ Len(Tail(out[f])) = Len(out[f]) - 1
          /\ Len(out[f]) \in Nat
      BY <3>1, HeadTailProperties
    <3>. QED BY <3>1, <3>2
  <2>. QED BY <1>2, <2>1 DEF WriterSendFails, TypeOK, relay, ends, sockets
<1>3. CASE WriterFailClose(f)
  <2>1. CloseForward(fwd[f].hostChan, "write") /\ "write" \in Causes
    BY <1>3 DEF WriterFailClose, Causes
  <2>. QED BY <1>3, <2>1, CloseForwardType DEF WriterFailClose, TypeOK, ends, sockets
<1>4. CASE WriterFailTell(f)
  <2>1. /\ hostEnd' \in [HostChans -> 0..MaxForwards]
        /\ dialing' \subseteq Fwd /\ missed' \subseteq Fwd
    BY <1>4, TellHostEndedType DEF WriterFailTell, TypeOK, sockets
  <2>. QED BY <1>4, <2>1 DEF WriterFailTell, TypeOK, relay
<1>5. CASE WriterStopped(f)
  BY <1>5 DEF WriterStopped, TypeOK, relay, ends, sockets
<1>6. CASE WriterCancelled(f)
  BY <1>6 DEF WriterCancelled, TypeOK, relay, ends, sockets
<1>7. CASE FlushSend(f)
  BY <1>7, DeliverHeadType DEF FlushSend, TypeOK, relay, sockets
<1>8. CASE FlushLast(f)
  <2>1. delivered' \in [Fwd -> Seq(Frame)]
    <3>1. [f |-> f, n |-> CLOSE] \in Frame
      BY DEF Frame, Fwd, Payload, CLOSE
    <3>2. Append(delivered[f], [f |-> f, n |-> CLOSE]) \in Seq(Frame)
      BY <3>1 DEF TypeOK
    <3>. QED BY <1>8, <3>2 DEF FlushLast, TypeOK
  <2>. QED BY <1>8, <2>1 DEF FlushLast, TypeOK, relay, sockets
<1>9. CASE FlushFails(f)
  BY <1>9 DEF FlushFails, TypeOK, relay, ends, sockets
<1>. QED BY <1>1, <1>2, <1>3, <1>4, <1>5, <1>6, <1>7, <1>8, <1>9 DEF WriterStep

\* The host and the host's reader keep the types.
LEMMA HostType ==
  ASSUME TypeOK, EndsOwn,
         \/ HostRecv \/ HostRouteStep \/ HostBreaks \/ BridgeClose
         \/ \E h \in HostChans : HostSends(h) \/ HostSendsClose(h)
         \/ \E f \in Fwd : DialSucceeds(f) \/ DialFails(f)
  PROVE  TypeOK'
<1>. hostReader \in HostReaderRec
  BY DEF TypeOK
<1>1. CASE HostRecv
  <2>. DEFINE w == Head(wire)
  <2>1. /\ w \in WireFrame
        /\ Tail(wire) \in Seq(WireFrame)
    BY <1>1, HeadTailProperties DEF HostRecv, TypeOK
  <2>2. forwards[w.chan] # 0 => forwards[w.chan] \in Fwd
    <3>1. w.chan \in HostChans
      BY <2>1 DEF WireFrame
    <3>2. forwards[w.chan] \in 0..MaxForwards
      BY <3>1 DEF TypeOK
    <3>. QED BY <3>2 DEF Fwd
  <2>3. hostReader' \in HostReaderRec
    BY <1>1, <2>1, <2>2, HostReaderRecords DEF HostRecv
  <2>. QED BY <1>1, <2>1, <2>3 DEF HostRecv, TypeOK, relay, queues, sockets
<1>2. CASE HostQueue
  <2>. DEFINE fr == [f |-> hostReader.src, n |-> hostReader.n]
  <2>1. fr \in Frame
    BY <1>2, HostReaderRecords DEF HostQueue
  <2>2. out' = [out EXCEPT ![hostReader.f] = Append(@, fr)]
    BY <1>2 DEF HostQueue
  <2>. HIDE DEF fr
  <2>3. \A k \in Fwd : out'[k] \in Seq(Frame)
    BY <2>1, <2>2 DEF TypeOK
  <2>4. \A k \in Fwd : Len(out'[k]) <= QueueDepth
    <3>. SUFFICES ASSUME NEW k \in Fwd PROVE Len(out'[k]) <= QueueDepth
      OBVIOUS
    <3>1. CASE k = hostReader.f
      <4>1. Len(out[k]) < QueueDepth
        BY <1>2, <3>1 DEF HostQueue, HasRoom
      <4>2. out[k] \in Seq(Frame) /\ out'[k] = Append(out[k], fr)
        BY <2>2, <3>1 DEF TypeOK
      <4>3. Len(out'[k]) = Len(out[k]) + 1
        BY <2>1, <4>2, AppendProperties
      <4>4. Len(out[k]) \in Nat
        BY <4>2
      <4>. QED BY <4>1, <4>3, <4>4
    <3>2. CASE k # hostReader.f
      BY <2>2, <3>2 DEF TypeOK
    <3>. QED BY <3>1, <3>2
  <2>5. out' \in [Fwd -> Seq(Frame)]
    BY <2>2, <2>3 DEF TypeOK
  <2>6. hostReader' \in HostReaderRec
    BY <1>2, HostReaderRecords DEF HostQueue
  <2>. QED BY <1>2, <2>4, <2>5, <2>6 DEF HostQueue, TypeOK, relay, ends, sockets
<1>3. CASE HostQueueFull
  <2>1. hostReader' \in HostReaderRec
    BY <1>3, HostReaderRecords DEF HostQueueFull
  <2>. QED BY <1>3, <2>1 DEF HostQueueFull, TypeOK, relay, queues, ends, sockets
<1>4. CASE HostRetire
  <2>1. forwards[hostReader.chan] # 0 => forwards[hostReader.chan] \in Fwd
    <3>1. hostReader.chan \in HostChans
      BY <1>4, HostReaderRecords DEF HostRetire
    <3>2. forwards[hostReader.chan] \in 0..MaxForwards
      BY <3>1 DEF TypeOK
    <3>. QED BY <3>2 DEF Fwd
  <2>2. hostReader' \in HostReaderRec
    <3>1. CASE forwards[hostReader.chan] = 0
      BY <1>4, <3>1, HostReaderRecords DEF HostRetire
    <3>2. CASE forwards[hostReader.chan] # 0
      <4>1. hostReader' = [hostReader EXCEPT !.pc = "last",
                                             !.f = forwards[hostReader.chan]]
        BY <1>4, <3>2 DEF HostRetire
      <4>. QED BY <1>4, <3>2, <4>1, <2>1, HostReaderRecords DEF HostRetire
    <3>. QED BY <3>1, <3>2
  <2>. QED BY <1>4, <2>2 DEF HostRetire, TypeOK, relay, queues, ends, sockets
<1>5. CASE HostRetireLast
  <2>1. hostReader' \in HostReaderRec
    BY <1>5, HostReaderRecords DEF HostRetireLast
  <2>. QED BY <1>5, <2>1 DEF HostRetireLast, TypeOK, relay, ends, sockets
<1>6. CASE HostRetireClose
  <2>1. hostReader' \in HostReaderRec
    BY <1>6, HostReaderRecords DEF HostRetireClose
  <2>2. CloseForward(hostReader.chan, "retired") /\ "retired" \in Causes
    BY <1>6 DEF HostRetireClose, Causes
  <2>. QED BY <1>6, <2>1, <2>2, CloseForwardType DEF HostRetireClose, TypeOK, ends, sockets
<1>7. CASE HostRetireTell
  <2>1. /\ hostEnd' \in [HostChans -> 0..MaxForwards]
        /\ dialing' \subseteq Fwd /\ missed' \subseteq Fwd
    BY <1>7, TellHostEndedType DEF HostRetireTell
  <2>. QED BY <1>7, <2>1, HostReaderRecords
          DEF HostRetireTell, TypeOK, relay, queues
<1>8. CASE HostClose
  <2>1. CloseForward(hostReader.chan, "host") /\ "host" \in Causes
    BY <1>8 DEF HostClose, Causes
  <2>. QED BY <1>8, <2>1, CloseForwardType, HostReaderRecords
          DEF HostClose, TypeOK, ends, sockets
<1>9. ASSUME NEW h \in HostChans, HostSends(h)
      PROVE  TypeOK'
  <2>. DEFINE f == hostEnd[h]
              w == [chan |-> h, f |-> f, n |-> hostSent[f] + 1]
  <2>1. f \in Fwd
    BY <1>9 DEF HostSends, TypeOK, Fwd
  <2>2. hostSent[f] \in 0..MaxData /\ hostSent[f] < MaxData
    BY <1>9, <2>1 DEF HostSends, TypeOK
  <2>3. w \in WireFrame
    BY <2>1, <2>2 DEF WireFrame, Payload
  <2>4. wire' = Append(wire, w) /\ hostSent' = [hostSent EXCEPT ![f] = @ + 1]
    BY <1>9 DEF HostSends
  <2>5. wire' \in Seq(WireFrame)
    BY <2>3, <2>4 DEF TypeOK
  <2>6. hostSent' \in [Fwd -> 0..MaxData]
    <3>1. hostSent[f] + 1 \in 0..MaxData
      BY <2>2
    <3>. QED BY <2>4, <3>1 DEF TypeOK
  <2>. QED BY <1>9, <2>5, <2>6 DEF HostSends, TypeOK, relay, queues, sockets
<1>10. ASSUME NEW h \in HostChans, HostSendsClose(h)
       PROVE  TypeOK'
  <2>. DEFINE w == [chan |-> h, f |-> hostEnd[h], n |-> CLOSE]
  <2>1. hostEnd[h] \in Fwd
    BY <1>10 DEF HostSendsClose, TypeOK, Fwd
  <2>2. w \in WireFrame
    BY <2>1 DEF WireFrame, Payload, CLOSE
  <2>3. wire' = Append(wire, w) /\ hostEnd' = [hostEnd EXCEPT ![h] = 0]
    BY <1>10 DEF HostSendsClose
  <2>4. wire' \in Seq(WireFrame)
    BY <2>2, <2>3 DEF TypeOK
  <2>5. hostEnd' \in [HostChans -> 0..MaxForwards]
    BY <2>3 DEF TypeOK
  <2>. QED BY <1>10, <2>4, <2>5 DEF HostSendsClose, TypeOK, relay, queues
<1>11. CASE HostBreaks
  BY <1>11 DEF HostBreaks, TypeOK, relay, queues, sockets
<1>12. CASE BridgeClose
  BY <1>12 DEF BridgeClose, TypeOK, relay, queues, sockets
<1>13. ASSUME NEW f \in Fwd, DialSucceeds(f)
       PROVE  TypeOK'
  <2>1. f \in 0..MaxForwards
    BY DEF Fwd
  <2>2. hostEnd' \in [HostChans -> 0..MaxForwards] /\ dialing' \subseteq Fwd
    BY <1>13, <2>1 DEF DialSucceeds, TypeOK
  <2>. QED BY <1>13, <2>2 DEF DialSucceeds, TypeOK, relay, queues
<1>14. ASSUME NEW f \in Fwd, DialFails(f)
       PROVE  TypeOK'
  <2>. DEFINE w == [chan |-> fwd[f].hostChan, f |-> f, n |-> CLOSE]
  <2>1. w \in WireFrame
    BY <1>14 DEF DialFails, EndsOwn, WireFrame, HostChans, Fwd, Payload, CLOSE
  <2>2. wire' = Append(wire, w) /\ dialing' = dialing \ {f}
    BY <1>14 DEF DialFails
  <2>3. wire' \in Seq(WireFrame) /\ dialing' \subseteq Fwd
    BY <2>1, <2>2 DEF TypeOK
  <2>. QED BY <1>14, <2>3 DEF DialFails, TypeOK, relay, queues
<1>. QED BY <1>1, <1>2, <1>3, <1>4, <1>5, <1>6, <1>7, <1>8, <1>9, <1>10, <1>11,
            <1>12, <1>13, <1>14 DEF HostRouteStep

LEMMA NextType == TypeOK /\ IInv /\ [Next]_vars => TypeOK'
<1>1. ASSUME TypeOK, IInv, Next
      PROVE  TypeOK'
  BY <1>1, ReaderType, TeardownType, WriterType, HostType DEF Next, IInv, Streams
<1>2. ASSUME TypeOK, UNCHANGED vars
      PROVE  TypeOK'
  BY <1>2 DEF TypeOK, vars
<1>. QED BY <1>1, <1>2


-----------------------------------------------------------------------------
(* The inductive invariant. *)

\* Numbering, Routes and StopState depend on the maps, the stops and the
\* teardowns' lists only.
LEMMA RoutingUntouched ==
  ASSUME Numbering, Routes, StopState, UNCHANGED <<relay, stops, toTell>>
  PROVE  Numbering' /\ Routes' /\ StopState'
BY DEF Numbering, Routes, StopState, relay

\* closeForward removes both directions of one entry and stops that forward
\* once.
LEMMA CloseForwardInv ==
  ASSUME TypeOK, Numbering, Routes, StopState,
         NEW h \in HostChans, NEW why, CloseForward(h, why),
         UNCHANGED <<nextChan, made, fwd, toTell>>
  PROVE  Numbering' /\ Routes' /\ StopState'
<1>1. CASE forwards[h] = 0
  <2>1. UNCHANGED <<relay, stops, toTell>>
    BY <1>1 DEF CloseForward, relay
  <2>. QED BY <2>1, RoutingUntouched
<1>2. CASE forwards[h] # 0
  <2>. DEFINE g == fwd[h].guest
              c == fwd[h].guestChan
  <2>1. forwards[h] = h /\ h <= made /\ h \in 1..made /\ h \in Fwd
    BY <1>2 DEF Numbering, TypeOK, HostChans, Fwd
  <2>2. g \in Guests /\ c \in Channels /\ channels[g][c] = h
    BY <1>2, <2>1 DEF Numbering, Routes
  <2>3. /\ forwards' = [forwards EXCEPT ![h] = 0]
        /\ channels' = [channels EXCEPT ![g] = [channels[g] EXCEPT ![c] = 0]]
        /\ stops' = [stops EXCEPT ![h] = @ + 1]
    BY <1>2, <2>1 DEF CloseForward
  <2>4. /\ \A k \in HostChans : forwards'[k] = IF k = h THEN 0 ELSE forwards[k]
        /\ \A x \in Guests, y \in Channels :
             channels'[x][y] = IF x = g /\ y = c THEN 0 ELSE channels[x][y]
        /\ \A k \in Fwd : stops'[k] = IF k = h THEN stops[k] + 1 ELSE stops[k]
    <3>. HIDE DEF g, c
    <3>1. \A k \in HostChans : forwards'[k] = IF k = h THEN 0 ELSE forwards[k]
      BY <2>3 DEF TypeOK
    <3>2. \A x \in Guests, y \in Channels :
             channels'[x][y] = IF x = g /\ y = c THEN 0 ELSE channels[x][y]
      BY <2>2, <2>3 DEF TypeOK
    <3>3. \A k \in Fwd : stops'[k] = IF k = h THEN stops[k] + 1 ELSE stops[k]
      BY <2>1, <2>3 DEF TypeOK
    <3>. QED BY <3>1, <3>2, <3>3
  <2>5. Numbering'
    BY <2>4 DEF Numbering
  <2>6. Routes'
    <3>1. ASSUME NEW k \in HostChans, forwards'[k] # 0
          PROVE  channels'[fwd[k].guest][fwd[k].guestChan] = k
      <4>1. k # h /\ forwards[k] # 0 /\ k \in 1..made
        BY <2>4, <3>1 DEF Numbering, TypeOK, HostChans
      <4>2. /\ fwd[k].guest \in Guests /\ fwd[k].guestChan \in Channels
            /\ channels[fwd[k].guest][fwd[k].guestChan] = k
        BY <4>1 DEF Numbering, Routes
      <4>. QED BY <2>2, <2>4, <4>1, <4>2
    <3>2. ASSUME NEW x \in Guests, NEW y \in Channels, channels'[x][y] # 0
          PROVE  /\ forwards'[channels'[x][y]] # 0
                 /\ fwd[channels'[x][y]].guest = x
                 /\ fwd[channels'[x][y]].guestChan = y
      <4>1. ~(x = g /\ y = c) /\ channels'[x][y] = channels[x][y] /\ channels[x][y] # 0
        BY <2>4, <3>2
      <4>2. /\ forwards[channels[x][y]] # 0
            /\ fwd[channels[x][y]].guest = x
            /\ fwd[channels[x][y]].guestChan = y
        BY <4>1 DEF Routes
      <4>3. channels[x][y] # h
        BY <4>1, <4>2
      <4>4. channels[x][y] \in HostChans
        <5>1. channels[x][y] \in 0..MaxForwards
          BY DEF TypeOK
        <5>. QED BY <4>1, <5>1 DEF HostChans
      <4>. QED BY <2>4, <4>1, <4>2, <4>3, <4>4
    <3>. QED BY <3>1, <3>2 DEF Routes
  <2>7. StopState'
    <3>1. \A f \in Fwd : stops'[f] <= 1
      <4>1. stops[h] = 0
        BY <1>2, <2>1 DEF StopState
      <4>. QED BY <2>1, <2>4, <4>1 DEF StopState
    <3>2. \A f \in Fwd : forwards'[f] # 0 \/ f > made => stops'[f] = 0
      <4>. SUFFICES ASSUME NEW f \in Fwd, forwards'[f] # 0 \/ f > made
                    PROVE  stops'[f] = 0
        OBVIOUS
      <4>1. f \in HostChans /\ f \in Nat /\ h \in Nat /\ made \in Nat
        BY <2>1 DEF TypeOK, Fwd, HostChans
      <4>2. f # h
        BY <2>1, <2>4, <4>1
      <4>3. forwards[f] # 0 \/ f > made
        BY <2>4, <4>1, <4>2
      <4>. QED BY <2>4, <4>2, <4>3 DEF StopState
    <3>3. \A x \in Guests : \A f \in toTell[x] :
            f <= made /\ fwd[f].guest = x /\ forwards'[f] = 0 /\ stops'[f] = 0
      <4>. SUFFICES ASSUME NEW x \in Guests, NEW f \in toTell[x]
                    PROVE  f <= made /\ fwd[f].guest = x /\ forwards'[f] = 0
                           /\ stops'[f] = 0
        OBVIOUS
      <4>1. f \in Fwd /\ f \in HostChans
        BY DEF TypeOK, Fwd, HostChans
      <4>2. f <= made /\ fwd[f].guest = x /\ forwards[f] = 0 /\ stops[f] = 0
        BY DEF StopState
      <4>. QED BY <1>2, <2>4, <4>1, <4>2
    <3>. QED BY <3>1, <3>2, <3>3 DEF StopState
  <2>. QED BY <2>5, <2>6, <2>7
<1>. QED BY <1>1, <1>2

\* openForward enters a new number in both maps.
LEMMA GuestOpenInv ==
  ASSUME TypeOK, Numbering, Routes, StopState, WritersMade,
         NEW g \in Guests, NEW c \in Channels, GuestOpen(g, c)
  PROVE  Numbering' /\ Routes' /\ StopState' /\ WritersMade'
<1>. DEFINE f == made + 1
            rec == [guest |-> g, guestChan |-> c, hostChan |-> f]
<1>1. /\ f \in Fwd /\ f \in HostChans /\ f \in Nat /\ made \in Nat
      /\ g \in Guests \ Viewers
      /\ channels[g][c] = 0
      /\ made' = f /\ nextChan' = f
      /\ fwd' = [fwd EXCEPT ![f] = rec]
      /\ forwards' = [forwards EXCEPT ![f] = f]
      /\ channels' = [channels EXCEPT ![g] = [channels[g] EXCEPT ![c] = f]]
      /\ writer' = [writer EXCEPT ![f] = "running"]
      /\ UNCHANGED <<stops, toTell>>
  BY DEF GuestOpen, NextHostChan, Numbering, TypeOK, Fwd, HostChans
<1>2. /\ rec.guest = g /\ rec.guestChan = c /\ rec.hostChan = f
      /\ f # 0 /\ f > made
  BY <1>1
<1>. HIDE DEF f, rec
<1>3. /\ \A k \in Fwd : fwd'[k] = IF k = f THEN rec ELSE fwd[k]
      /\ \A k \in HostChans : forwards'[k] = IF k = f THEN f ELSE forwards[k]
      /\ \A x \in Guests, y \in Channels :
           channels'[x][y] = IF x = g /\ y = c THEN f ELSE channels[x][y]
      /\ \A k \in Fwd : writer'[k] = IF k = f THEN "running" ELSE writer[k]
  <2>1. \A k \in Fwd : fwd'[k] = IF k = f THEN rec ELSE fwd[k]
    BY <1>1 DEF TypeOK
  <2>2. \A k \in HostChans : forwards'[k] = IF k = f THEN f ELSE forwards[k]
    BY <1>1 DEF TypeOK
  <2>3. \A x \in Guests, y \in Channels :
           channels'[x][y] = IF x = g /\ y = c THEN f ELSE channels[x][y]
    BY <1>1 DEF TypeOK
  <2>4. \A k \in Fwd : writer'[k] = IF k = f THEN "running" ELSE writer[k]
    BY <1>1 DEF TypeOK
  <2>. QED BY <2>1, <2>2, <2>3, <2>4
<1>4. f = made + 1
  BY DEF f
<1>5. \A k \in 1..f : k \in Fwd /\ (k # f => k \in 1..made)
  BY <1>1, <1>4 DEF Fwd
<1>6. Numbering'
  <2>1. \A k \in 1..f : /\ fwd'[k].hostChan = k
                        /\ fwd'[k].guest \in Guests \ Viewers
                        /\ fwd'[k].guestChan \in Channels
    BY <1>1, <1>2, <1>3, <1>5 DEF Numbering
  <2>2. \A k \in HostChans : forwards'[k] # 0 => forwards'[k] = k /\ k <= f
    BY <1>1, <1>2, <1>3, <1>4 DEF Numbering, HostChans
  <2>. QED BY <1>1, <2>1, <2>2 DEF Numbering
<1>7. forwards[f] = 0
  BY <1>1, <1>2 DEF Numbering, HostChans
<1>8. Routes'
  <2>1. ASSUME NEW k \in HostChans, forwards'[k] # 0
        PROVE  channels'[fwd'[k].guest][fwd'[k].guestChan] = k
    <3>1. CASE k = f
      BY <1>1, <1>2, <1>3, <3>1
    <3>2. CASE k # f
      <4>1. forwards[k] # 0 /\ k \in 1..made /\ k \in Fwd
        <5>1. forwards[k] # 0
          BY <1>3, <2>1, <3>2 DEF TypeOK
        <5>. QED BY <5>1 DEF Numbering, HostChans, Fwd
      <4>2. /\ fwd'[k] = fwd[k] /\ fwd[k].guest \in Guests
            /\ fwd[k].guestChan \in Channels
            /\ channels[fwd[k].guest][fwd[k].guestChan] = k
        BY <1>3, <3>2, <4>1 DEF Numbering, Routes
      <4>3. k # 0
        BY DEF HostChans
      <4>. QED BY <1>1, <1>3, <4>2, <4>3
    <3>. QED BY <3>1, <3>2
  <2>2. ASSUME NEW x \in Guests, NEW y \in Channels, channels'[x][y] # 0
        PROVE  /\ forwards'[channels'[x][y]] # 0
               /\ fwd'[channels'[x][y]].guest = x
               /\ fwd'[channels'[x][y]].guestChan = y
    <3>1. CASE x = g /\ y = c
      BY <1>1, <1>2, <1>3, <3>1
    <3>2. CASE ~(x = g /\ y = c)
      <4>1. channels'[x][y] = channels[x][y] /\ channels[x][y] # 0
        BY <1>3, <2>2, <3>2
      <4>2. /\ forwards[channels[x][y]] # 0
            /\ fwd[channels[x][y]].guest = x
            /\ fwd[channels[x][y]].guestChan = y
        BY <4>1 DEF Routes
      <4>3. channels[x][y] \in 0..MaxForwards
        BY DEF TypeOK
      <4>4. channels[x][y] \in HostChans /\ channels[x][y] \in Fwd
        BY <4>1, <4>3 DEF HostChans, Fwd
      <4>5. channels[x][y] # f
        BY <1>7, <4>2
      <4>. QED BY <1>3, <4>1, <4>2, <4>4, <4>5
    <3>. QED BY <3>1, <3>2
  <2>. QED BY <2>1, <2>2 DEF Routes
<1>9. StopState'
  <2>1. stops[f] = 0
    BY <1>1, <1>2 DEF StopState
  <2>2. \A k \in Fwd : forwards'[k] # 0 \/ k > f => stops[k] = 0
    BY <1>1, <1>3, <1>4, <2>1 DEF StopState, Fwd, HostChans
  <2>3. \A x \in Guests : \A k \in toTell[x] :
          k <= f /\ fwd'[k].guest = x /\ forwards'[k] = 0 /\ stops[k] = 0
    <3>. SUFFICES ASSUME NEW x \in Guests, NEW k \in toTell[x]
                  PROVE  k <= f /\ fwd'[k].guest = x /\ forwards'[k] = 0
                         /\ stops[k] = 0
      OBVIOUS
    <3>1. k \in Fwd /\ k \in HostChans /\ k \in Nat
      BY DEF TypeOK, Fwd, HostChans
    <3>2. k <= made /\ fwd[k].guest = x /\ forwards[k] = 0 /\ stops[k] = 0
      BY DEF StopState
    <3>3. k # f /\ k <= f
      BY <1>1, <1>4, <3>1, <3>2
    <3>. QED BY <1>3, <3>1, <3>2, <3>3
  <2>. QED BY <1>1, <2>2, <2>3 DEF StopState
<1>10. WritersMade'
  BY <1>1, <1>3, <1>4 DEF WritersMade, Fwd
<1>. QED BY <1>6, <1>8, <1>9, <1>10

\* closeGuestForwards finds exactly the forwards of its guest.
LEMMA OwnedByGuest ==
  ASSUME TypeOK, Numbering, Routes, NEW g \in Guests
  PROVE  \A f \in Fwd : f \in Owned(g) <=> forwards[f] # 0 /\ fwd[f].guest = g
<1>1. ASSUME NEW f \in Fwd, f \in Owned(g)
      PROVE  forwards[f] # 0 /\ fwd[f].guest = g
  <2>1. PICK c \in Channels : channels[g][c] # 0 /\ forwards[channels[g][c]] = f
    BY <1>1 DEF Owned
  <2>2. channels[g][c] \in HostChans
    <3>1. channels[g][c] \in 0..MaxForwards
      BY DEF TypeOK
    <3>. QED BY <2>1, <3>1 DEF HostChans
  <2>3. channels[g][c] = f
    BY <2>1, <2>2 DEF Routes, Numbering
  <2>. QED BY <2>1, <2>3 DEF Routes
<1>2. ASSUME NEW f \in Fwd, forwards[f] # 0, fwd[f].guest = g
      PROVE  f \in Owned(g)
  <2>1. f \in HostChans /\ f # 0 /\ f \in 1..made /\ forwards[f] = f
    BY <1>2 DEF Numbering, TypeOK, Fwd, HostChans
  <2>2. fwd[f].guestChan \in Channels /\ channels[g][fwd[f].guestChan] = f
    BY <1>2, <2>1 DEF Numbering, Routes
  <2>. QED BY <2>1, <2>2 DEF Owned
<1>. QED BY <1>1, <1>2

LEMMA GuestCleanupInv ==
  ASSUME TypeOK, Numbering, Routes, StopState,
         NEW g \in Guests, GuestCleanup(g)
  PROVE  Numbering' /\ Routes' /\ StopState'
<1>. DEFINE own == Owned(g)
<1>1. /\ \A f \in Fwd : f \in own <=> forwards[f] # 0 /\ fwd[f].guest = g
      /\ own \subseteq Fwd
  BY OwnedByGuest DEF Owned
<1>2. /\ forwards' = [h \in HostChans |-> IF forwards[h] \in own THEN 0 ELSE forwards[h]]
      /\ channels' = [channels EXCEPT ![g] = [c \in Channels |-> 0]]
      /\ toTell' = [toTell EXCEPT ![g] = own]
      /\ UNCHANGED <<nextChan, made, fwd, stops>>
  BY DEF GuestCleanup, queues
<1>. HIDE DEF own
<1>3. \A h \in HostChans : /\ forwards[h] = 0 => h \notin own
                           /\ forwards'[h] = IF h \in own THEN 0 ELSE forwards[h]
  <2>. SUFFICES ASSUME NEW h \in HostChans
                PROVE  /\ forwards[h] = 0 => h \notin own
                       /\ forwards'[h] = IF h \in own THEN 0 ELSE forwards[h]
    OBVIOUS
  <2>1. h \in Fwd /\ 0 \notin own
    BY <1>1 DEF HostChans, Fwd
  <2>2. forwards[h] = 0 \/ forwards[h] = h
    BY DEF Numbering
  <2>. QED BY <1>1, <1>2, <2>1, <2>2
<1>4. \A x \in Guests, y \in Channels :
        channels'[x][y] = IF x = g THEN 0 ELSE channels[x][y]
  BY <1>2 DEF TypeOK
<1>5. Numbering'
  BY <1>2, <1>3 DEF Numbering
<1>6. Routes'
  <2>1. ASSUME NEW h \in HostChans, forwards'[h] # 0
        PROVE  channels'[fwd[h].guest][fwd[h].guestChan] = h
    <3>1. forwards[h] # 0 /\ h \notin own /\ h \in Fwd /\ h \in 1..made
      <4>1. forwards[h] # 0 /\ h \notin own
        BY <1>3, <2>1
      <4>. QED BY <4>1 DEF Numbering, TypeOK, HostChans, Fwd
    <3>2. fwd[h].guest # g /\ fwd[h].guest \in Guests /\ fwd[h].guestChan \in Channels
      BY <1>1, <3>1 DEF Numbering
    <3>. QED BY <1>4, <3>1, <3>2 DEF Routes
  <2>2. ASSUME NEW x \in Guests, NEW y \in Channels, channels'[x][y] # 0
        PROVE  /\ forwards'[channels'[x][y]] # 0
               /\ fwd[channels'[x][y]].guest = x
               /\ fwd[channels'[x][y]].guestChan = y
    <3>1. x # g /\ channels'[x][y] = channels[x][y] /\ channels[x][y] # 0
      BY <1>4, <2>2
    <3>2. /\ forwards[channels[x][y]] # 0
          /\ fwd[channels[x][y]].guest = x
          /\ fwd[channels[x][y]].guestChan = y
      BY <3>1 DEF Routes
    <3>3. channels[x][y] \in 0..MaxForwards
      BY DEF TypeOK
    <3>4. channels[x][y] \in HostChans /\ channels[x][y] \in Fwd
      BY <3>1, <3>3 DEF HostChans, Fwd
    <3>. QED BY <1>1, <1>3, <3>1, <3>2, <3>4
  <2>. QED BY <1>2, <2>1, <2>2 DEF Routes
<1>7. StopState'
  <2>1. \A f \in Fwd : forwards'[f] # 0 \/ f > made => stops[f] = 0
    BY <1>3 DEF StopState, Fwd, HostChans
  <2>2. ASSUME NEW x \in Guests, NEW f \in toTell'[x]
        PROVE  f <= made /\ fwd[f].guest = x /\ forwards'[f] = 0 /\ stops[f] = 0
    <3>1. CASE x = g
      <4>1. f \in own
        BY <1>2, <3>1 DEF TypeOK
      <4>2. f \in HostChans /\ f \in Fwd /\ forwards[f] # 0 /\ fwd[f].guest = g
        BY <1>1, <4>1 DEF HostChans, Fwd
      <4>. QED BY <1>3, <3>1, <4>1, <4>2 DEF Numbering, StopState
    <3>2. CASE x # g
      <4>1. f \in toTell[x]
        BY <1>2, <3>2 DEF TypeOK
      <4>2. f \in HostChans
        BY <4>1 DEF TypeOK, HostChans, Fwd
      <4>. QED BY <1>3, <4>1, <4>2 DEF StopState
    <3>. QED BY <3>1, <3>2
  <2>. QED BY <1>2, <2>1, <2>2 DEF StopState
<1>. QED BY <1>5, <1>6, <1>7

LEMMA GuestTellInv ==
  ASSUME TypeOK, Numbering, Routes, StopState,
         NEW g \in Guests, NEW f \in Fwd, GuestTell(g, f)
  PROVE  Numbering' /\ Routes' /\ StopState'
<1>1. /\ f \in toTell[g]
      /\ toTell' = [toTell EXCEPT ![g] = toTell[g] \ {f}]
      /\ stops' = [stops EXCEPT ![f] = @ + 1]
      /\ UNCHANGED <<forwards, channels, nextChan, made, fwd>>
  BY DEF GuestTell, relay
<1>2. f <= made /\ fwd[f].guest = g /\ forwards[f] = 0 /\ stops[f] = 0
  BY <1>1 DEF StopState
<1>3. \A k \in Fwd : stops'[k] = IF k = f THEN 1 ELSE stops[k]
  BY <1>1, <1>2 DEF TypeOK
<1>4. Numbering' /\ Routes'
  BY <1>1 DEF Numbering, Routes
<1>5. StopState'
  <2>1. \A k \in Fwd : stops'[k] <= 1
    BY <1>3 DEF StopState
  <2>2. \A k \in Fwd : forwards[k] # 0 \/ k > made => stops'[k] = 0
    <3>1. ~(f > made)
      BY <1>2 DEF Fwd, TypeOK
    <3>. QED BY <1>2, <1>3, <3>1 DEF StopState
  <2>3. ASSUME NEW x \in Guests, NEW k \in toTell'[x]
        PROVE  k <= made /\ fwd[k].guest = x /\ forwards[k] = 0 /\ stops'[k] = 0
    <3>1. k \in toTell[x] /\ (x = g => k # f) /\ k \in Fwd
      BY <1>1 DEF TypeOK
    <3>2. k <= made /\ fwd[k].guest = x /\ forwards[k] = 0 /\ stops[k] = 0
      BY <3>1 DEF StopState
    <3>. QED BY <1>2, <1>3, <3>1, <3>2
  <2>. QED BY <1>1, <2>1, <2>2, <2>3 DEF StopState
<1>. QED BY <1>4, <1>5

-----------------------------------------------------------------------------
(* Frames keep to their own stream. *)

LEMMA StreamsUntouched ==
  ASSUME Streams, UNCHANGED <<fwd, out, delivered, hostEnd, dialing, wire, hostReader, reader>>
  PROVE  Streams'
<1>1. QueuesOwn' /\ EndsOwn' /\ WireOwn'
  BY DEF Streams, QueuesOwn, EndsOwn, WireOwn
<1>2. HostReaderOwn' /\ ReadersOwn'
  BY DEF Streams, HostReaderOwn, ReadersOwn
<1>. QED BY <1>1, <1>2 DEF Streams

LEMMA HostTakesEnds ==
  ASSUME TypeOK, EndsOwn, NEW h, NEW kind, NEW f, HostTakes(h, kind, f),
         kind = "open" => fwd[f].hostChan = f, fwd' = fwd
  PROVE  EndsOwn'
<1>1. \A k \in HostChans : hostEnd'[k] \in {0, hostEnd[k]}
  BY DEF HostTakes, TypeOK
<1>2. \A d \in dialing' : fwd[d].hostChan = d
  BY DEF HostTakes, EndsOwn
<1>. QED BY <1>1, <1>2 DEF EndsOwn
LEMMA TellHostEndedEnds ==
  ASSUME TypeOK, EndsOwn, NEW h, TellHostEnded(h), fwd' = fwd
  PROVE  EndsOwn'
<1>1. CASE host = "up"
  BY <1>1, HostTakesEnds DEF TellHostEnded
<1>2. CASE host # "up"
  BY <1>2 DEF TellHostEnded, EndsOwn, sockets
<1>. QED BY <1>1, <1>2

\* Dropping the first waiting frame keeps the others where they belong.
LEMMA TailOwn ==
  ASSUME NEW f, NEW s \in Seq(Frame), s # <<>>, \A i \in DOMAIN s : s[i].f = f
  PROVE  /\ Head(s).f = f
         /\ \A i \in DOMAIN Tail(s) : Tail(s)[i].f = f
<1>1. /\ Len(s) \in Nat /\ Len(s) # 0 /\ DOMAIN s = 1..Len(s)
      /\ Head(s) = s[1]
  BY EmptySeq
<1>2. /\ Tail(s) \in Seq(Frame) /\ Len(Tail(s)) = Len(s) - 1
      /\ \A i \in 1..Len(Tail(s)) : Tail(s)[i] = s[i + 1]
  BY HeadTailProperties
<1>3. DOMAIN Tail(s) = 1..Len(Tail(s))
  BY <1>2
<1>4. \A i \in 1..Len(Tail(s)) : i + 1 \in 1..Len(s)
  BY <1>1, <1>2
<1>. QED BY <1>1, <1>2, <1>3, <1>4

\* So does adding one of its own.
LEMMA AppendOwn ==
  ASSUME NEW f, NEW s \in Seq(Frame), \A i \in DOMAIN s : s[i].f = f,
         NEW fr \in Frame, fr.f = f
  PROVE  \A i \in DOMAIN Append(s, fr) : Append(s, fr)[i].f = f
<1>1. /\ DOMAIN s = 1..Len(s) /\ Len(s) \in Nat
      /\ DOMAIN Append(s, fr) = 1..(Len(s) + 1)
      /\ \A i \in 1..Len(s) : Append(s, fr)[i] = s[i]
      /\ Append(s, fr)[Len(s) + 1] = fr
  BY AppendProperties
<1>. QED BY <1>1

LEMMA DeliverHeadOwn ==
  ASSUME TypeOK, QueuesOwn, NEW f \in Fwd, DeliverHead(f)
  PROVE  QueuesOwn'
<1>1. /\ out[f] \in Seq(Frame) /\ out[f] # <<>> /\ delivered[f] \in Seq(Frame)
      /\ Head(out[f]) \in Frame
  BY HeadTailProperties DEF DeliverHead, TypeOK
<1>2. /\ Head(out[f]).f = f
      /\ \A i \in DOMAIN Tail(out[f]) : Tail(out[f])[i].f = f
  BY <1>1, TailOwn DEF QueuesOwn
<1>3. \A i \in DOMAIN Append(delivered[f], Head(out[f])) :
        Append(delivered[f], Head(out[f]))[i].f = f
  BY <1>1, <1>2, AppendOwn DEF QueuesOwn
<1>4. \A k \in Fwd :
        /\ out'[k] = IF k = f THEN Tail(out[f]) ELSE out[k]
        /\ delivered'[k] = IF k = f THEN Append(delivered[f], Head(out[f]))
                                    ELSE delivered[k]
  BY DEF DeliverHead, TypeOK
<1>. QED BY <1>2, <1>3, <1>4 DEF QueuesOwn

\* A guest's reader and teardown.
LEMMA GuestStreams ==
  ASSUME TypeOK, Numbering, Routes, StopState, Streams, NEW g \in Guests,
         \/ \E c \in Channels : \/ GuestOpen(g, c)
                                \/ \E k \in {"data", "close"} : GuestFrame(g, c, k)
         \/ ReaderStep(g) \/ GuestLeave(g) \/ TeardownStep(g)
  PROVE  Streams'
<1>. USE DEF Streams
<1>1. ASSUME NEW c \in Channels, GuestOpen(g, c)
      PROVE  Streams'
  <2>. DEFINE f == made + 1
  <2>1. /\ reader' = [reader EXCEPT ![g] = [pc |-> "tell", host |-> f, f |-> f, kind |-> "open"]]
        /\ fwd' = [fwd EXCEPT ![f] = [guest |-> g, guestChan |-> c, hostChan |-> f]]
        /\ f \in Fwd
    BY <1>1 DEF GuestOpen, NextHostChan, Numbering, TypeOK, Fwd
  <2>2. UNCHANGED <<out, delivered, hostEnd, dialing, wire, hostReader>>
    BY <1>1 DEF GuestOpen, ends, sockets
  <2>. HIDE DEF f
  <2>3. \A k \in Fwd : fwd'[k].hostChan = IF k = f THEN f ELSE fwd[k].hostChan
    BY <2>1 DEF TypeOK
  <2>4. ReadersOwn'
    <3>. SUFFICES ASSUME NEW x \in Guests, reader'[x].pc \in {"close", "tell"}
                  PROVE  reader'[x].f = reader'[x].host
                         /\ fwd'[reader'[x].f].hostChan = reader'[x].f
      BY DEF ReadersOwn
    <3>1. CASE x = g
      BY <2>1, <2>3, <3>1 DEF TypeOK
    <3>2. CASE x # g
      <4>1. reader'[x] = reader[x] /\ reader[x] \in ReaderRec
        BY <2>1, <3>2 DEF TypeOK
      <4>2. reader[x].f \in Fwd
        BY <4>1, ReaderRecords DEF ReadersOwn, HostChans, Fwd
      <4>. QED BY <2>3, <4>1, <4>2 DEF ReadersOwn
    <3>. QED BY <3>1, <3>2
  <2>5. EndsOwn'
    BY <2>2, <2>3 DEF EndsOwn, TypeOK
  <2>. QED BY <2>2, <2>4, <2>5 DEF QueuesOwn, WireOwn, HostReaderOwn
<1>2. ASSUME NEW c \in Channels, NEW k \in {"data", "close"}, GuestFrame(g, c, k)
      PROVE  Streams'
  <2>. DEFINE h == channels[g][c]
  <2>1. h \in HostChans /\ forwards[h] = h /\ fwd[h].hostChan = h
    <3>1. h \in 0..MaxForwards /\ h # 0
      BY <1>2 DEF GuestFrame, TypeOK
    <3>2. h \in HostChans
      BY <3>1 DEF HostChans
    <3>3. forwards[h] = h /\ h \in 1..made
      BY <3>1, <3>2 DEF Routes, Numbering, TypeOK
    <3>. QED BY <3>2, <3>3 DEF Numbering
  <2>2. PICK p \in {"close", "tell"} :
          reader' = [reader EXCEPT ![g] =
                       [pc |-> p, host |-> h, f |-> forwards[h], kind |-> k]]
    BY <1>2 DEF GuestFrame
  <2>4. fwd' = fwd
    BY <1>2 DEF GuestFrame, relay
  <2>. HIDE DEF h
  <2>3. ReadersOwn'
    BY <2>1, <2>2, <2>4 DEF ReadersOwn, TypeOK
  <2>. QED BY <1>2, <2>3, <2>4
          DEF GuestFrame, queues, ends, sockets, QueuesOwn, EndsOwn, WireOwn, HostReaderOwn
<1>3. CASE ReaderClose(g)
  <2>1. /\ reader' = [reader EXCEPT ![g] = [reader[g] EXCEPT !.pc = "tell"]]
        /\ reader[g] \in ReaderRec /\ reader[g].pc = "close"
    BY <1>3 DEF ReaderClose, TypeOK
  <2>2. reader'[g].f = reader[g].f /\ reader'[g].host = reader[g].host
    BY <2>1 DEF ReaderRec, Idle, Ended, TypeOK
  <2>4. fwd' = fwd
    BY <1>3 DEF ReaderClose
  <2>3. ReadersOwn'
    BY <2>1, <2>2, <2>4 DEF ReadersOwn, TypeOK
  <2>. QED BY <1>3, <2>3, <2>4
          DEF ReaderClose, ends, sockets, QueuesOwn, EndsOwn, WireOwn, HostReaderOwn
<1>4. CASE ReaderTell(g)
  <2>1. EndsOwn'
    BY <1>4, HostTakesEnds DEF ReaderTell, ReadersOwn, relay
  <2>2. ReadersOwn'
    BY <1>4 DEF ReaderTell, ReaderNext, ReadersOwn, TypeOK, Idle, Ended, relay
  <2>. QED BY <1>4, <2>1, <2>2 DEF ReaderTell, queues, QueuesOwn, WireOwn, HostReaderOwn
<1>5. CASE ReaderTellFails(g) \/ ReaderExit(g)
  <2>1. /\ reader' = [reader EXCEPT ![g] = Ended]
        /\ UNCHANGED <<fwd, out, delivered, hostEnd, dialing, wire, hostReader>>
    <3>1. CASE ReaderTellFails(g)
      BY <3>1 DEF ReaderTellFails, relay, queues, ends, sockets
    <3>2. CASE ReaderExit(g)
      BY <3>2 DEF ReaderExit, relay, queues, ends, sockets
    <3>. QED BY <1>5, <3>1, <3>2
  <2>2. ReadersOwn'
    BY <2>1 DEF ReadersOwn, TypeOK, Ended
  <2>. QED BY <2>1, <2>2 DEF QueuesOwn, EndsOwn, WireOwn, HostReaderOwn
<1>6. CASE GuestLeave(g) \/ GuestCleanup(g)
  <2>1. CASE GuestLeave(g)
    BY <2>1, StreamsUntouched DEF GuestLeave, queues, ends, sockets, relay
  <2>2. CASE GuestCleanup(g)
    BY <2>2, StreamsUntouched DEF GuestCleanup, queues, ends, sockets, relay
  <2>. QED BY <1>6, <2>1, <2>2
<1>7. ASSUME NEW f \in Fwd, GuestTell(g, f)
      PROVE  Streams'
  <2>1. EndsOwn'
    BY <1>7, TellHostEndedEnds DEF GuestTell, relay
  <2>. QED BY <1>7, <2>1 DEF GuestTell, QueuesOwn, WireOwn, HostReaderOwn, ReadersOwn, relay
<1>. QED BY <1>1, <1>2, <1>3, <1>4, <1>5, <1>6, <1>7 DEF ReaderStep, TeardownStep

\* A forward's writer.
LEMMA WriterStreams ==
  ASSUME TypeOK, Streams, NEW f \in Fwd, WriterStep(f)
  PROVE  Streams'
<1>. USE DEF Streams
<1>1. CASE WriterSend(f) \/ FlushSend(f)
  <2>1. QueuesOwn'
    BY <1>1, DeliverHeadOwn DEF WriterSend, FlushSend
  <2>. QED BY <1>1, <2>1
          DEF WriterSend, FlushSend, EndsOwn, WireOwn, HostReaderOwn, ReadersOwn, relay, sockets
<1>2. CASE WriterSendFails(f)
  <2>1. out[f] \in Seq(Frame) /\ out[f] # <<>>
    BY <1>2 DEF WriterSendFails, TypeOK
  <2>2. \A i \in DOMAIN Tail(out[f]) : Tail(out[f])[i].f = f
    BY <2>1, TailOwn DEF QueuesOwn
  <2>3. /\ \A k \in Fwd : out'[k] = IF k = f THEN Tail(out[f]) ELSE out[k]
        /\ delivered' = delivered
    BY <1>2 DEF WriterSendFails, TypeOK, ends, sockets
  <2>4. QueuesOwn'
    BY <2>2, <2>3 DEF QueuesOwn
  <2>. QED BY <1>2, <2>4
          DEF WriterSendFails, ends, sockets, EndsOwn, WireOwn, HostReaderOwn, ReadersOwn, relay
<1>3. CASE WriterFailClose(f)
  BY <1>3 DEF WriterFailClose, ends, sockets, QueuesOwn, EndsOwn, WireOwn, HostReaderOwn,
              ReadersOwn, relay
<1>4. CASE WriterFailTell(f)
  <2>1. EndsOwn'
    BY <1>4, TellHostEndedEnds DEF WriterFailTell, EndsOwn, relay, sockets
  <2>. QED BY <1>4, <2>1
          DEF WriterFailTell, QueuesOwn, WireOwn, HostReaderOwn, ReadersOwn, relay
<1>5. CASE WriterStopped(f) \/ WriterCancelled(f) \/ FlushFails(f)
  <2>1. CASE WriterStopped(f)
    BY <2>1, StreamsUntouched DEF WriterStopped, ends, sockets, relay
  <2>2. CASE WriterCancelled(f)
    BY <2>2, StreamsUntouched DEF WriterCancelled, ends, sockets, relay
  <2>3. CASE FlushFails(f)
    BY <2>3, StreamsUntouched DEF FlushFails, ends, sockets, relay
  <2>. QED BY <1>5, <2>1, <2>2, <2>3
<1>6. CASE FlushLast(f)
  <2>. DEFINE fr == [f |-> f, n |-> CLOSE]
  <2>1. fr \in Frame /\ fr.f = f /\ delivered[f] \in Seq(Frame)
    <3>1. CLOSE \in Payload
      BY DEF Payload, CLOSE
    <3>. QED BY <3>1 DEF Frame, TypeOK
  <2>2. \A i \in DOMAIN Append(delivered[f], fr) : Append(delivered[f], fr)[i].f = f
    BY <2>1, AppendOwn DEF QueuesOwn
  <2>3. \A k \in Fwd :
          /\ k # f => delivered'[k] = delivered[k]
          /\ k = f => delivered'[k] \in {delivered[f], Append(delivered[f], fr)}
    <3>1. \/ delivered' = delivered
          \/ delivered' = [delivered EXCEPT ![f] = Append(delivered[f], fr)]
      BY <1>6 DEF FlushLast
    <3>2. delivered \in [Fwd -> Seq(Frame)]
      BY DEF TypeOK
    <3>. HIDE DEF fr
    <3>. QED BY <3>1, <3>2
  <2>4. QueuesOwn'
    BY <1>6, <2>2, <2>3 DEF QueuesOwn, FlushLast
  <2>. QED BY <1>6, <2>4 DEF FlushLast, EndsOwn, WireOwn, HostReaderOwn, ReadersOwn, relay,
                                   sockets
<1>. QED BY <1>1, <1>2, <1>3, <1>4, <1>5, <1>6 DEF WriterStep

\* The host and the host's reader.
LEMMA HostStreams ==
  ASSUME TypeOK, Numbering, Streams,
         \/ HostRecv \/ HostRouteStep \/ HostBreaks \/ BridgeClose
         \/ \E h \in HostChans : HostSends(h) \/ HostSendsClose(h)
         \/ \E f \in Fwd : DialSucceeds(f) \/ DialFails(f)
  PROVE  Streams'
<1>. USE DEF Streams
<1>1. CASE HostRecv
  <2>. DEFINE w == Head(wire)
  <2>1. /\ wire \in Seq(WireFrame) /\ wire # <<>> /\ w \in WireFrame
        /\ Len(wire) \in Nat /\ Len(wire) # 0
        /\ w = wire[1] /\ DOMAIN wire = 1..Len(wire)
        /\ Tail(wire) \in Seq(WireFrame) /\ Len(Tail(wire)) = Len(wire) - 1
        /\ \A i \in 1..Len(Tail(wire)) : Tail(wire)[i] = wire[i + 1]
    BY <1>1, HeadTailProperties, EmptySeq DEF HostRecv, TypeOK
  <2>2. w.chan = w.f /\ w.chan \in HostChans
    BY <2>1 DEF WireOwn, WireFrame
  <2>3. WireOwn'
    <3>1. wire' = Tail(wire) /\ DOMAIN Tail(wire) = 1..Len(Tail(wire))
      BY <1>1, <2>1 DEF HostRecv
    <3>2. \A i \in 1..Len(Tail(wire)) : i + 1 \in 1..Len(wire)
      BY <2>1
    <3>. QED BY <2>1, <3>1, <3>2 DEF WireOwn
  <2>4. forwards[w.chan] # 0 => forwards[w.chan] = w.chan
    BY <2>2 DEF Numbering
  <2>5. HostReaderOwn'
    <3>1. CASE forwards[w.chan] = 0
      BY <1>1, <3>1 DEF HostRecv, HostReaderOwn, HIdle
    <3>2. CASE forwards[w.chan] # 0
      <4>1. hostReader' = [pc |-> "queue", chan |-> w.chan,
                           f |-> forwards[w.chan], src |-> w.f, n |-> w.n]
        BY <1>1, <3>2 DEF HostRecv
      <4>. QED BY <2>2, <2>4, <3>2, <4>1 DEF HostReaderOwn
    <3>. QED BY <3>1, <3>2
  <2>. QED BY <1>1, <2>3, <2>5 DEF HostRecv, queues, QueuesOwn, EndsOwn, ReadersOwn, relay,
                                         sockets
<1>2. CASE HostQueue
  <2>. DEFINE fr == [f |-> hostReader.src, n |-> hostReader.n]
              f == hostReader.f
  <2>1. fr \in Frame /\ fr.f = f
    BY <1>2, HostReaderRecords DEF HostQueue, HostReaderOwn, TypeOK
  <2>2. out' = [out EXCEPT ![f] = Append(@, fr)] /\ delivered' = delivered
    BY <1>2 DEF HostQueue, ends, sockets
  <2>. HIDE DEF fr, f
  <2>3. ASSUME NEW k \in Fwd
        PROVE  \A i \in DOMAIN out'[k] : out'[k][i].f = k
    <3>1. CASE k = f
      <4>1. out[k] \in Seq(Frame) /\ out'[k] = Append(out[k], fr)
        BY <2>2, <3>1 DEF TypeOK
      <4>. QED BY <2>1, <3>1, <4>1, AppendOwn DEF QueuesOwn
    <3>2. CASE k # f
      BY <2>2, <3>2 DEF QueuesOwn, TypeOK
    <3>. QED BY <3>1, <3>2
  <2>4. QueuesOwn'
    BY <2>2, <2>3 DEF QueuesOwn
  <2>5. HostReaderOwn'
    <3>1. \/ hostReader' = HIdle
          \/ hostReader' = [hostReader EXCEPT !.pc = "close"]
      BY <1>2 DEF HostQueue
    <3>. QED BY <1>2, <3>1 DEF HostQueue, HostReaderOwn, HIdle, HostReaderRec, TypeOK
  <2>. QED BY <1>2, <2>4, <2>5 DEF HostQueue, ends, sockets, EndsOwn, WireOwn, ReadersOwn, relay
<1>3. CASE HostQueueFull \/ HostRetireLast
  <2>1. /\ hostReader.pc # "recv"
        /\ \E p \in {"close", "retire", "retireClose"} :
             hostReader' = [hostReader EXCEPT !.pc = p]
    BY <1>3 DEF HostQueueFull, HostRetireLast
  <2>2. HostReaderOwn'
    <3>1. PICK p \in {"close", "retire", "retireClose"} :
            hostReader' = [hostReader EXCEPT !.pc = p]
      BY <2>1
    <3>. QED BY <2>1, <3>1 DEF HostReaderOwn, HIdle, HostReaderRec, TypeOK
  <2>. QED BY <1>3, <2>2 DEF HostQueueFull, HostRetireLast, queues, ends, sockets,
                             QueuesOwn, EndsOwn, WireOwn, ReadersOwn, relay
<1>4. CASE HostRetire
  <2>1. hostReader.chan \in HostChans
    BY <1>4, HostReaderRecords DEF HostRetire, TypeOK
  <2>2. HostReaderOwn'
    <3>1. CASE forwards[hostReader.chan] = 0
      BY <1>4, <3>1 DEF HostRetire, HostReaderOwn, HIdle
    <3>2. CASE forwards[hostReader.chan] # 0
      <4>1. hostReader' = [hostReader EXCEPT !.pc = "last",
                                             !.f = forwards[hostReader.chan]]
        BY <1>4, <3>2 DEF HostRetire
      <4>2. forwards[hostReader.chan] = hostReader.chan
        BY <2>1, <3>2 DEF Numbering
      <4>. QED BY <1>4, <4>1, <4>2
              DEF HostRetire, HostReaderOwn, HIdle, HostReaderRec, TypeOK
    <3>. QED BY <3>1, <3>2
  <2>. QED BY <1>4, <2>2 DEF HostRetire, queues, ends, sockets,
                             QueuesOwn, EndsOwn, WireOwn, ReadersOwn, relay
<1>5. CASE HostRetireClose
  <2>1. HostReaderOwn'
    BY <1>5 DEF HostRetireClose, HostReaderOwn, HIdle, HostReaderRec, TypeOK
  <2>. QED BY <1>5, <2>1 DEF HostRetireClose, ends, sockets,
                             QueuesOwn, EndsOwn, WireOwn, ReadersOwn, relay
<1>6. CASE HostRetireTell
  <2>1. EndsOwn'
    BY <1>6, TellHostEndedEnds DEF HostRetireTell, relay
  <2>2. HostReaderOwn'
    BY <1>6 DEF HostRetireTell, HostReaderOwn, HIdle
  <2>. QED BY <1>6, <2>1, <2>2 DEF HostRetireTell, queues,
                             QueuesOwn, WireOwn, ReadersOwn, relay
<1>7. CASE HostClose
  <2>1. HostReaderOwn'
    BY <1>7 DEF HostClose, HostReaderOwn, HIdle
  <2>. QED BY <1>7, <2>1 DEF HostClose, ends, sockets, QueuesOwn, EndsOwn, WireOwn, ReadersOwn,
                             relay
<1>8. ASSUME NEW h \in HostChans, HostSends(h) \/ HostSendsClose(h)
      PROVE  Streams'
  <2>1. PICK w \in WireFrame : w.chan = h /\ w.f = hostEnd[h] /\ wire' = Append(wire, w)
    <3>1. hostEnd[h] \in Fwd
      BY <1>8 DEF HostSends, HostSendsClose, TypeOK, Fwd
    <3>2. CASE HostSends(h)
      <4>. DEFINE w == [chan |-> h, f |-> hostEnd[h], n |-> hostSent[hostEnd[h]] + 1]
      <4>1. hostSent[hostEnd[h]] \in 0..MaxData /\ hostSent[hostEnd[h]] < MaxData
        BY <3>1, <3>2 DEF HostSends, TypeOK
      <4>2. w \in WireFrame
        BY <3>1, <4>1 DEF WireFrame, Payload
      <4>3. wire' = Append(wire, w)
        BY <3>2 DEF HostSends
      <4>. QED BY <4>2, <4>3
    <3>3. CASE HostSendsClose(h)
      <4>. DEFINE w == [chan |-> h, f |-> hostEnd[h], n |-> CLOSE]
      <4>1. w \in WireFrame
        BY <3>1 DEF WireFrame, Payload, CLOSE
      <4>2. wire' = Append(wire, w)
        BY <3>3 DEF HostSendsClose
      <4>. QED BY <4>1, <4>2
    <3>. QED BY <1>8, <3>2, <3>3
  <2>2. w.chan = w.f
    BY <1>8, <2>1 DEF HostSends, HostSendsClose, EndsOwn, relay
  <2>3. WireOwn'
    <3>1. /\ wire \in Seq(WireFrame) /\ DOMAIN wire = 1..Len(wire) /\ Len(wire) \in Nat
          /\ DOMAIN wire' = 1..(Len(wire) + 1)
          /\ \A i \in 1..Len(wire) : wire'[i] = wire[i]
          /\ wire'[Len(wire) + 1] = w
      BY <2>1, AppendProperties DEF TypeOK
    <3>. QED BY <2>2, <3>1 DEF WireOwn
  <2>4. EndsOwn'
    BY <1>8 DEF HostSends, HostSendsClose, EndsOwn, TypeOK, relay, sockets
  <2>. QED BY <1>8, <2>3, <2>4 DEF HostSends, HostSendsClose, queues,
                             QueuesOwn, HostReaderOwn, ReadersOwn, relay
<1>9. CASE HostBreaks \/ BridgeClose
  <2>1. CASE HostBreaks
    BY <2>1, StreamsUntouched DEF HostBreaks, queues, relay, sockets
  <2>2. CASE BridgeClose
    BY <2>2, StreamsUntouched DEF BridgeClose, queues, relay, sockets
  <2>. QED BY <1>9, <2>1, <2>2
<1>10. ASSUME NEW f \in Fwd, DialSucceeds(f)
       PROVE  Streams'
  <2>1. fwd[f].hostChan = f
    BY <1>10 DEF DialSucceeds, EndsOwn, relay
  <2>2. EndsOwn'
    BY <1>10, <2>1 DEF DialSucceeds, EndsOwn, TypeOK, relay
  <2>. QED BY <1>10, <2>2 DEF DialSucceeds, relay, queues, QueuesOwn, WireOwn, HostReaderOwn,
                              ReadersOwn
<1>11. ASSUME NEW f \in Fwd, DialFails(f)
       PROVE  Streams'
  <2>. DEFINE w == [chan |-> fwd[f].hostChan, f |-> f, n |-> CLOSE]
  <2>1. fwd[f].hostChan = f
    BY <1>11 DEF DialFails, EndsOwn, relay
  <2>2. w \in WireFrame /\ w.chan = w.f /\ wire' = Append(wire, w)
    BY <1>11, <2>1 DEF DialFails, WireFrame, HostChans, Fwd, Payload, CLOSE
  <2>. HIDE DEF w
  <2>3. WireOwn'
    <3>1. /\ wire \in Seq(WireFrame) /\ DOMAIN wire = 1..Len(wire) /\ Len(wire) \in Nat
          /\ DOMAIN wire' = 1..(Len(wire) + 1)
          /\ \A i \in 1..Len(wire) : wire'[i] = wire[i]
          /\ wire'[Len(wire) + 1] = w
      BY <2>2, AppendProperties DEF TypeOK
    <3>. QED BY <2>2, <3>1 DEF WireOwn
  <2>4. EndsOwn'
    BY <1>11 DEF DialFails, EndsOwn, relay
  <2>. QED BY <1>11, <2>3, <2>4 DEF DialFails, relay, queues, QueuesOwn, HostReaderOwn,
                                    ReadersOwn
<1>. QED BY <1>1, <1>2, <1>3, <1>4, <1>5, <1>6, <1>7, <1>8, <1>9, <1>10, <1>11
         DEF HostRouteStep

-----------------------------------------------------------------------------
(* The remaining steps, and the theorems. *)

LEMMA InitInv == Init => IInv
<1>. SUFFICES ASSUME Init PROVE IInv
  OBVIOUS
<1>1. made = 0 /\ nextChan = 0 /\ (\A h \in HostChans : forwards[h] = 0)
      /\ (\A f \in Fwd : f > made)
  BY DEF Init, Fwd
<1>2. Numbering /\ Routes
  BY <1>1 DEF Init, Numbering, Routes
<1>3. StopState /\ WritersMade
  BY DEF Init, StopState, WritersMade
<1>4. Streams
  <2>1. DOMAIN <<>> = {}
    BY EmptySeq
  <2>. QED BY <2>1 DEF Init, Streams, QueuesOwn, EndsOwn, WireOwn, HostReaderOwn,
                        ReadersOwn, HIdle, Idle
<1>. QED BY <1>2, <1>3, <1>4 DEF IInv

\* Only openForward starts a writer.
LEMMA WriterStepMade ==
  ASSUME TypeOK, WritersMade, NEW f \in Fwd, WriterStep(f)
  PROVE  WritersMade'
<1>1. writer[f] # "none" /\ made' = made
  BY DEF WriterStep, WriterSend, WriterSendFails, WriterFailClose, WriterFailTell,
         WriterStopped, WriterCancelled, FlushSend, FlushLast, FlushFails,
         DeliverHead, relay
<1>2. \A k \in Fwd : k # f => writer'[k] = writer[k]
  BY DEF WriterStep, WriterSend, WriterSendFails, WriterFailClose, WriterFailTell,
         WriterStopped, WriterCancelled, FlushSend, FlushLast, FlushFails, TypeOK
<1>. QED BY <1>1, <1>2 DEF WritersMade

\* The steps of a guest's reader after an OPEN.
LEMMA ReaderRouting ==
  ASSUME TypeOK, Numbering, Routes, StopState, NEW g \in Guests,
         \/ \E c \in Channels, k \in {"data", "close"} : GuestFrame(g, c, k)
         \/ ReaderStep(g)
  PROVE  Numbering' /\ Routes' /\ StopState'
<1>1. ASSUME NEW c \in Channels, NEW k \in {"data", "close"}, GuestFrame(g, c, k)
      PROVE  Numbering' /\ Routes' /\ StopState'
  BY <1>1, RoutingUntouched DEF GuestFrame, queues
<1>2. CASE ReaderClose(g)
  <2>1. reader[g].host \in HostChans
    BY <1>2, ReaderRecords DEF ReaderClose, TypeOK
  <2>. QED BY <1>2, <2>1, CloseForwardInv DEF ReaderClose
<1>3. CASE ReaderTell(g)
  BY <1>3, RoutingUntouched DEF ReaderTell, queues
<1>4. CASE ReaderTellFails(g)
  BY <1>4, RoutingUntouched DEF ReaderTellFails, queues
<1>5. CASE ReaderExit(g)
  BY <1>5, RoutingUntouched DEF ReaderExit, queues
<1>. QED BY <1>1, <1>2, <1>3, <1>4, <1>5 DEF ReaderStep

LEMMA WriterRouting ==
  ASSUME TypeOK, Numbering, Routes, StopState, WritersMade,
         NEW f \in Fwd, WriterStep(f)
  PROVE  Numbering' /\ Routes' /\ StopState'
<1>1. CASE WriterFailClose(f)
  <2>1. writer[f] # "none"
    BY <1>1 DEF WriterFailClose
  <2>2. f \in 1..made
    BY <2>1 DEF WritersMade, TypeOK, Fwd
  <2>3. fwd[f].hostChan \in HostChans
    BY <2>2 DEF Numbering, Fwd, HostChans
  <2>. QED BY <1>1, <2>3, CloseForwardInv DEF WriterFailClose
<1>2. CASE ~WriterFailClose(f)
  <2>1. UNCHANGED <<relay, stops, toTell>>
    BY <1>2 DEF WriterStep, WriterSend, WriterSendFails, WriterFailTell,
                WriterStopped, WriterCancelled, FlushSend, FlushLast, FlushFails
  <2>. QED BY <2>1, RoutingUntouched
<1>. QED BY <1>1, <1>2

LEMMA HostRouting ==
  ASSUME TypeOK, Numbering, Routes, StopState,
         \/ HostRecv \/ HostRouteStep \/ HostBreaks \/ BridgeClose
         \/ \E h \in HostChans : HostSends(h) \/ HostSendsClose(h)
         \/ \E f \in Fwd : DialSucceeds(f) \/ DialFails(f)
  PROVE  Numbering' /\ Routes' /\ StopState'
<1>1. CASE HostRetireClose \/ HostClose
  <2>1. hostReader.chan \in HostChans
    BY <1>1, HostReaderRecords DEF HostRetireClose, HostClose, TypeOK
  <2>2. \E why : CloseForward(hostReader.chan, why)
    BY <1>1 DEF HostRetireClose, HostClose
  <2>3. UNCHANGED <<nextChan, made, fwd, toTell>>
    BY <1>1 DEF HostRetireClose, HostClose
  <2>. QED BY <2>1, <2>2, <2>3, CloseForwardInv
<1>2. CASE ~(HostRetireClose \/ HostClose)
  <2>1. UNCHANGED <<relay, stops, toTell>>
    BY <1>2 DEF HostRecv, HostRouteStep, HostQueue, HostQueueFull, HostRetire,
                HostRetireLast, HostRetireTell, HostSends, HostSendsClose,
                DialSucceeds, DialFails, HostBreaks, BridgeClose, queues
  <2>. QED BY <2>1, RoutingUntouched
<1>. QED BY <1>1, <1>2

\* Every step but a writer's and an OPEN leaves the writers and the count alone.
LEMMA OthersMade ==
  ASSUME WritersMade, UNCHANGED <<writer, made>>
  PROVE  WritersMade'
BY DEF WritersMade

LEMMA GuestInv ==
  ASSUME TypeOK, IInv, NEW g \in Guests,
         \/ \E c \in Channels : \/ GuestOpen(g, c)
                                \/ \E k \in {"data", "close"} : GuestFrame(g, c, k)
         \/ ReaderStep(g) \/ GuestLeave(g) \/ TeardownStep(g)
  PROVE  IInv'
<1>. USE DEF IInv
<1>1. Streams'
  BY GuestStreams
<1>2. ASSUME NEW c \in Channels, GuestOpen(g, c)
      PROVE  IInv'
  BY <1>1, <1>2, GuestOpenInv
<1>3. CASE \/ \E c \in Channels, k \in {"data", "close"} : GuestFrame(g, c, k)
           \/ ReaderStep(g)
  <2>1. UNCHANGED <<writer, made>>
    BY <1>3 DEF GuestFrame, ReaderStep, ReaderClose, ReaderTell, ReaderTellFails,
                ReaderExit, relay, queues
  <2>. QED BY <1>1, <1>3, <2>1, ReaderRouting, OthersMade
<1>4. CASE GuestLeave(g)
  BY <1>1, <1>4, RoutingUntouched, OthersMade DEF GuestLeave, relay, queues
<1>5. CASE GuestCleanup(g)
  BY <1>1, <1>5, GuestCleanupInv, OthersMade DEF GuestCleanup, queues
<1>6. ASSUME NEW f \in Fwd, GuestTell(g, f)
      PROVE  IInv'
  BY <1>1, <1>6, GuestTellInv, OthersMade DEF GuestTell, relay
<1>. QED BY <1>2, <1>3, <1>4, <1>5, <1>6 DEF TeardownStep

LEMMA HostInv ==
  ASSUME TypeOK, IInv,
         \/ HostRecv \/ HostRouteStep \/ HostBreaks \/ BridgeClose
         \/ \E h \in HostChans : HostSends(h) \/ HostSendsClose(h)
         \/ \E f \in Fwd : DialSucceeds(f) \/ DialFails(f)
  PROVE  IInv'
<1>. USE DEF IInv
<1>1. UNCHANGED <<writer, made>>
  BY DEF HostRecv, HostRouteStep, HostQueue, HostQueueFull, HostRetire,
         HostRetireLast, HostRetireClose, HostRetireTell, HostClose, HostSends,
         HostSendsClose, DialSucceeds, DialFails, HostBreaks, BridgeClose, relay, queues
<1>. QED BY <1>1, HostRouting, HostStreams, OthersMade

LEMMA NextInv == TypeOK /\ IInv /\ [Next]_vars => IInv'
<1>1. ASSUME TypeOK, IInv, Next
      PROVE  IInv'
  <2>1. ASSUME NEW f \in Fwd, WriterStep(f)
        PROVE  IInv'
    BY <1>1, <2>1, WriterRouting, WriterStepMade, WriterStreams DEF IInv
  <2>. QED BY <1>1, <2>1, GuestInv, HostInv DEF Next
<1>2. ASSUME IInv, UNCHANGED vars
      PROVE  IInv'
  <2>1. Numbering' /\ Routes' /\ StopState'
    BY <1>2, RoutingUntouched DEF IInv, vars, relay
  <2>2. Streams'
    BY <1>2, StreamsUntouched DEF IInv, vars
  <2>3. WritersMade'
    BY <1>2, OthersMade DEF IInv, vars
  <2>. QED BY <2>1, <2>2, <2>3 DEF IInv
<1>. QED BY <1>1, <1>2

\* The invariant that carries the three properties below: host channel numbers
\* are handed out once, the two maps agree, a forward is stopped only by the
\* goroutine that removed it, and every frame names the stream it travels on.
THEOREM IndInvariance == Spec => []IInv
<1>1. Init => TypeOK /\ IInv
  BY InitType, InitInv
<1>2. (TypeOK /\ IInv) /\ [Next]_vars => (TypeOK /\ IInv)'
  BY NextType, NextInv
<1>. QED BY <1>1, <1>2, PTL DEF Spec

\* Every variable of the routing keeps its type, and no forward's queue ever
\* holds more than QueueDepth frames.
THEOREM TypeInvariance == Spec => []TypeOK
<1>1. Init => TypeOK /\ IInv
  BY InitType, InitInv
<1>2. (TypeOK /\ IInv) /\ [Next]_vars => (TypeOK /\ IInv)'
  BY NextType, NextInv
<1>. QED BY <1>1, <1>2, PTL DEF Spec

\* Bridge.forwards and the guests' channel maps stay inverse to each other, and
\* no viewer ever owns a forward.
THEOREM RoutesMatchHolds == Spec => []RoutesMatch
<1>1. TypeOK /\ IInv => RoutesMatch
  <2>. SUFFICES ASSUME TypeOK, Numbering, Routes PROVE RoutesMatch
    BY DEF IInv
  <2>1. ASSUME NEW h \in HostChans, forwards[h] # 0
        PROVE  LET f == fwd[forwards[h]]
               IN  /\ f.hostChan = h
                   /\ f.guest \in Guests \ Viewers
                   /\ f.guestChan \in Channels
                   /\ channels[f.guest][f.guestChan] = h
    <3>1. forwards[h] = h /\ h \in 1..made
      BY <2>1 DEF Numbering, TypeOK, HostChans
    <3>. QED BY <2>1, <3>1 DEF Numbering, Routes
  <2>2. ASSUME NEW g \in Guests, NEW c \in Channels, channels[g][c] # 0
        PROVE  LET f == fwd[forwards[channels[g][c]]]
               IN  /\ forwards[channels[g][c]] # 0
                   /\ f.guest = g /\ f.guestChan = c
    <3>1. channels[g][c] \in HostChans
      <4>1. channels[g][c] \in 0..MaxForwards
        BY DEF TypeOK
      <4>. QED BY <2>2, <4>1 DEF HostChans
    <3>2. forwards[channels[g][c]] = channels[g][c]
      BY <2>2, <3>1 DEF Numbering, Routes
    <3>. QED BY <2>2, <3>1, <3>2 DEF Routes
  <2>. QED BY <2>1, <2>2 DEF RoutesMatch
<1>. QED BY <1>1, TypeInvariance, IndInvariance, PTL

\* forward.stop never runs twice for one forward, so the relay never closes a
\* closed channel.
THEOREM StoppedOnceHolds == Spec => []StoppedOnce
<1>1. IInv => StoppedOnce
  BY DEF IInv, StopState, StoppedOnce
<1>. QED BY <1>1, IndInvariance, PTL

\* No stream ever receives a frame of another one, in either direction.
THEOREM NoCrossTalkHolds == Spec => []NoCrossTalk
<1>1. TypeOK /\ IInv => NoCrossTalk
  <2>. SUFFICES ASSUME TypeOK, Streams PROVE NoCrossTalk
    BY DEF IInv
  <2>1. ASSUME NEW g \in Guests, reader[g].pc = "tell"
        PROVE  hostEnd[reader[g].host] \in {0, reader[g].f}
    <3>1. reader[g].host \in HostChans /\ reader[g].f = reader[g].host
      BY <2>1, ReaderRecords DEF TypeOK, Streams, ReadersOwn
    <3>. QED BY <3>1 DEF Streams, EndsOwn
  <2>. QED BY <2>1 DEF NoCrossTalk, Streams, QueuesOwn
<1>. QED BY <1>1, TypeInvariance, IndInvariance, PTL
=============================================================================
